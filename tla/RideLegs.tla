------------------------------ MODULE RideLegs ------------------------------
(***************************************************************************)
(* From the readings of a ride's track to the legs its film is told in and *)
(* the lines it says: the first half of plan_journey_film, and             *)
(* _section_events (app/private_journey_film.py), over segment_ride and    *)
(* chapter_cards (app/ride_chapters.py), app/story_sections.py and the     *)
(* stretch of the route a card's map draws (app/story_film.py).            *)
(* FilmChoice takes the legs, the moments and the lines from here.         *)
(***************************************************************************)
EXTENDS RideTrack

CONSTANT Outings    \* rides: a track, the references along it, what the windows and the geocoder say

MaxChapters    == 6
TargetChapters == 5
MinLegs        == 3
LongHalt       == 15 * Minute
ShortStop      == 5 * Minute
LongLeg        == 120 * Minute
SectionEdge    == 15 * Minute
ShipEdge       == 20 * Minute
VillageQuiet   == 30 * Minute

VARIABLES outing, stage, stops, turns, crossings, highways, roads, scenic, legs, shown, cards, events
rideVars == <<outing, stage, stops, turns, crossings, highways, roads, scenic, legs, shown, cards, events>>

track == outing.track

RideInit ==
    /\ outing \in Outings
    /\ stage = "track"
    /\ stops = <<>> /\ turns = <<>> /\ crossings = <<>> /\ highways = <<>> /\ roads = <<>> /\ scenic = <<>>
    /\ legs = <<>> /\ shown = {} /\ cards = <<>> /\ events = <<>>

ReadStops ==
    /\ stage = "track"
    /\ stops' = LongHalts(track, ShortStop)
    /\ stage' = "stops"
    /\ UNCHANGED <<outing, turns, crossings, highways, roads, scenic, legs, shown, cards, events>>

\* Every charted line along the track; what a ship carried is not a scenic road.
ReadLines ==
    /\ stage = "stops"
    /\ crossings' = FerryCrossings(track, outing.ferries, outing.witnessed, outing.aboard, stops)
    /\ highways' = HighwayRuns(track, outing.highways)
    /\ roads' = RoadRuns(track, outing.roads, outing.named, outing.wanted)
    /\ scenic' = LET signposted == SelectSeq(roads', LAMBDA r : r.name \in outing.signposted)
                     all == Ordered(Scenic(track, outing.routes) \o signposted, Earlier)
                 IN  SelectSeq(RealScenic(all, highways'), LAMBDA s : ~Afloat(crossings', s.from, 0))
    /\ stage' = "lines"
    /\ UNCHANGED <<outing, stops, turns, legs, shown, cards, events>>

-----------------------------------------------------------------------------
\* Legs.

LegLength(s) == s.to - s.from
Tiles(marks) == LET m == Ascending(marks) IN [i \in 1..(Len(m) - 1) |-> [from |-> m[i], to |-> m[i + 1]]]

\* The long halts, and the longest shorter stops while the legs are too few.
HaltsUsed ==
    LET halts == LongHalts(track, LongHalt)
        extra == Ordered(SelectSeq(LongHalts(track, ShortStop), LAMBDA h : ~Contains(halts, h)),
                         LAMBDA a, b : LegLength(a) > LegLength(b))
        wanted == Max({0, MinLegs - 1 - Len(halts)})
    IN  Ordered(halts \o SubSeq(extra, 1, Min({wanted, Len(extra)})), Earlier)

\* The first of the named spans that holds a span.
RouteOf(named, s) ==
    LET holding == {i \in DOMAIN named : named[i].from <= s.from /\ s.to <= named[i].to}
    IN  IF holding = {} THEN "none" ELSE named[Min(holding)].name

\* A span of the same ends keeps its place and takes the later name.
Named(all, s) ==
    LET same == {i \in DOMAIN all : all[i].from = s.from /\ all[i].to = s.to}
    IN  IF same = {} THEN Append(all, s) ELSE [all EXCEPT ![Min(same)].name = s.name]

Closest(tops, t) == CHOOSE x \in tops : \A y \in tops : Size(x - t) < Size(y - t) \/ (Size(x - t) = Size(y - t) /\ x <= y)
Between(tops, s) == {x \in tops : s.from + MinChapter <= x /\ x <= s.to - MinChapter}
Middle(s) == (s.from + s.to) \div 2
Replace(spans, i, j, pieces) == SubSeq(spans, 1, i - 1) \o pieces \o SubSeq(spans, j + 1, Len(spans))
Halves(s, t) == <<[from |-> s.from, to |-> t], [from |-> t, to |-> s.to]>>

\* A leg too long is cut at the tops it crosses, or evenly.
RECURSIVE CutLong(_, _, _)
CutLong(s, named, tops) ==
    IF RouteOf(named, s) # "none" \/ LegLength(s) <= LongLeg \/ LegLength(s) < 2 * MinChapter THEN <<s>>
    ELSE IF Between(tops, s) # {}
    THEN LET h == Halves(s, Closest(Between(tops, s), Middle(s))) IN CutLong(h[1], named, tops) \o CutLong(h[2], named, tops)
    ELSE LET parts == (LegLength(s) + LongLeg - 1) \div LongLeg
         IN  Tiles({s.from + (LegLength(s) * i) \div parts : i \in 0..parts})

\* halve_longest, until there are enough legs or none can be halved
RECURSIVE Halved(_, _, _)
Halved(spans, named, tops) ==
    LET plain == {i \in DOMAIN spans : RouteOf(named, spans[i]) = "none"}
        longest == CHOOSE i \in plain : \A j \in plain : LegLength(spans[i]) > LegLength(spans[j]) \/ (LegLength(spans[i]) = LegLength(spans[j]) /\ i <= j)
        s == spans[longest]
        at == IF Between(tops, s) = {} THEN Middle(s) ELSE Closest(Between(tops, s), Middle(s))
    IN  IF Len(spans) >= TargetChapters \/ plain = {} \/ LegLength(s) < 2 * MinChapter THEN spans
        ELSE Halved(Replace(spans, longest, longest, Halves(s, at)), named, tops)

\* merge_shortest, while there are too many legs
RECURSIVE Folded(_, _)
Folded(spans, named) ==
    LET plain == {i \in DOMAIN spans : RouteOf(named, spans[i]) = "none"}
        pool == IF plain = {} THEN DOMAIN spans ELSE plain
        Least(S) == CHOOSE i \in S : \A j \in S : LegLength(spans[i]) < LegLength(spans[j]) \/ (LegLength(spans[i]) = LegLength(spans[j]) /\ i <= j)
        shortest == Least(pool)
        other == Least({shortest - 1, shortest + 1} \cap DOMAIN spans)
        lo == Min({shortest, other})
    IN  IF Len(spans) <= MaxChapters THEN spans
        ELSE Folded(Replace(spans, lo, lo + 1, <<[from |-> spans[lo].from, to |-> spans[lo + 1].to]>>), named)

\* _turning_deg_per_km is forty or more
Winding(s) ==
    LET w == Within(track, s.from, s.to)
        ahead == SelectSeq([i \in 1..(Len(w) - 1) |-> [far |-> Moved(w, i, i + 1), bearing |-> w[i].bearing]], LAMBDA x : x.far >= 20)
        turned == FoldLeft(LAMBDA a, i : a + Size(Swing(ahead[i].bearing, ahead[i + 1].bearing)), 0, [i \in 1..(Len(ahead) - 1) |-> i])
    IN  Len(w) >= 3 /\ 1000 * turned >= 40 * Max({1, Moved(w, 1, Len(w))})

\* _aggregates
Sums(s) ==
    LET w == Within(track, s.from, s.to)
        h == Heights(w)
    IN  IF Len(w) < 2 THEN [dist |-> 0, gain |-> 0, loss |-> 0, first |-> NoHeight, last |-> NoHeight]
        ELSE [dist |-> Max({0, Moved(w, 1, Len(w))}), gain |-> GainAndLoss(h).gain, loss |-> GainAndLoss(h).loss,
              first |-> IF h = <<>> THEN NoHeight ELSE h[1], last |-> IF h = <<>> THEN NoHeight ELSE h[Len(h)]]

\* _character: the first thing the track proves.
CharacterOf(s, sums, place, tops) ==
    LET w == Within(track, s.from, s.to)
        h == Heights(w)
        net == sums.gain - sums.loss
    IN  CASE net >= 150 /\ s.to \in tops -> "pass"
          [] net >= 150 /\ s.to \notin tops -> "climb"
          [] net <= 0 - 150 -> "descent"
          [] OTHER ->
                IF \/ \E x \in outing.hints : x.coast /\ s.from <= x.at /\ x.at < s.to
                   \/ h # <<>> /\ (\A i \in DOMAIN h : h[i] <= 30) /\ sums.dist >= 10000 THEN "coast"
                ELSE IF Winding(s) THEN "winding"
                ELSE IF Len(w) >= 2 /\ Moved(w, 1, Len(w)) >= 22 * Max({1, Elapsed(w, 1, Len(w))}) THEN "long_haul"
                ELSE place

ScenicSpans(fixed) ==
    LET Snapped(t) == IF Size(Closest(fixed, t) - t) < MinChapter THEN Closest(fixed, t) ELSE t
        Inside(t) == \E i \in DOMAIN crossings : crossings[i].from < t /\ t < crossings[i].to
        spans == FoldLeft(LAMBDA all, s : Named(all, [name |-> s.name, from |-> Snapped(s.from), to |-> Snapped(s.to)]), <<>>, scenic)
    IN  SelectSeq(spans, LAMBDA s : s.to > s.from /\ ~Inside(s.from) /\ ~Inside(s.to))

\* A variant of Spans: the day's shape may have any number of legs.
SpansUnfolded(fixed, named, stood, tops) == Tiles(fixed \cup UNION {{named[i].from, named[i].to} : i \in DOMAIN named})

Spans(fixed, named, stood, tops) ==
    LET all == Tiles(fixed \cup UNION {{named[i].from, named[i].to} : i \in DOMAIN named})
        shaped == IF stood # {} THEN all ELSE Halved(FoldLeft(LAMBDA a, s : a \o CutLong(s, named, tops), <<>>, all), named, tops)
    IN  Folded(shaped, named)

\* A leg: where it runs, what it is of, how long the ride stands at its end.
Leg(spans, i, named, stood, tops) ==
    LET s == spans[i]
        At(t) == {h \in stood : h.to = t}
        Stay(at) == IF at = {} THEN 0 ELSE LegLength(CHOOSE h \in at : \A g \in at : g.from <= h.from)
        Place == IF i = 1 THEN "departure" ELSE IF i = Len(spans) THEN "arrival" ELSE "link"
        Told(route, sums) ==
            [from |-> s.from, to |-> s.to, route |-> route, halt |-> Stay(At(s.to)), sums |-> sums,
             character |-> IF \E c \in Range(crossings) : c.name = route THEN "ferry"
                           ELSE CharacterOf(s, sums, Place, tops)]
    IN  Told(RouteOf(named, s), Sums(s))

LegsAlong(spans, named, stood, tops) == [i \in DOMAIN spans |-> Leg(spans, i, named, stood, tops)]

\* segment_ride
SegmentRide ==
    LET Ridden(t) == \A i \in DOMAIN crossings : ~(crossings[i].from < t /\ t < crossings[i].to)
        edges == {StartsAt(track), EndsAt(track)}
        Cut(fixed, named, stood, tops) == LegsAlong(Spans(fixed, named, stood, tops), named, stood, tops)
        Day(halts, ends) ==
            LET fixed == {t \in ends \cup edges : Ridden(t)}
            IN  Cut(fixed, FoldLeft(Named, ScenicSpans(ends \cup edges), crossings),
                    {h \in halts : h.to \in fixed}, Passes(track))
        Halted(halts) == Day(halts, {h.to : h \in halts})
    IN  Halted(Range(HaltsUsed))

CutLegs ==
    /\ stage = "lines"
    /\ legs' = SegmentRide
    /\ stage' = "legs"
    /\ UNCHANGED <<outing, stops, turns, crossings, highways, roads, scenic, shown, cards, events>>

-----------------------------------------------------------------------------
\* Moments, of which the film keeps those a recording holds.

Moments == Range(DayMoments(track, stops)) \cup ClearOfCrossings(RoadMoments(track, highways), crossings)
              \cup FerryMoments(track, crossings)

ProveLegMoments ==
    /\ stage = "legs"
    /\ \E kinds \in {{}, {"departure", "arrival"}, {"departure", "arrival", "ferry_off"}} :
            shown' = {m \in Moments : m.kind \in kinds}
    /\ turns' = SharpTurns(track)
    /\ stage' = "moments"
    /\ UNCHANGED <<outing, stops, crossings, highways, roads, scenic, legs, cards, events>>

-----------------------------------------------------------------------------
\* Cards.

Characters == {"departure", "climb", "pass", "descent", "coast", "winding", "long_haul", "ferry", "arrival", "link"}
Titles(c) == IF c \in {"departure", "ferry", "arrival"} THEN 2 ELSE 3

NameAt(t) == IF outing.named THEN track[Max({1, Upto(track, t)})].town ELSE [place |-> "none", finer |-> "none", road |-> "none"]

\* leg_places: two quarters of one town, or one of them, or the towns.
LegPlaces(l) ==
    LET a == NameAt(l.from)
        b == NameAt(l.to)
    IN  IF a.place # "none" /\ a.place = b.place
        THEN IF a.finer # b.finer /\ (a.finer # a.place \/ b.finer # b.place) THEN <<a.finer, b.finer>>
             ELSE IF a.finer # "none" /\ a.finer = b.finer THEN <<a.finer, a.finer>> ELSE <<a.place, b.place>>
        ELSE <<a.place, b.place>>

Title(by, from, to, nth) == [by |-> by, from |-> from, to |-> to, nth |-> nth]

\* chapter_cards: the route's name, the next title of the character, or a spare one; then the places.
CardsFor(all) ==
    LET Told(s, l) ==
            LET nth == s.used[l.character]
                spare == s.used["link"] + IF l.character = "link" THEN 1 ELSE 0
                title == IF l.route # "none" THEN Title("route", l.route, "none", 0)
                         ELSE IF nth < Titles(l.character) THEN Title(l.character, "none", "none", nth)
                         ELSE Title("link", "none", "none", spare)
                used == IF l.route # "none" THEN s.used
                        ELSE IF nth < Titles(l.character) THEN [s.used EXCEPT ![l.character] = nth + 1]
                        ELSE [s.used EXCEPT ![l.character] = nth + 1, !["link"] = spare + 1]
                places == LegPlaces(l)
                placed == places[1] # "none" \/ places[2] # "none"
            IN  [used |-> used,
                 cards |-> Append(s.cards, [title |-> IF placed THEN Title("places", places[1], places[2], 0) ELSE title,
                                            since |-> l.from - StartsAt(track), lasts |-> LegLength(l)])]
    IN  FoldLeft(Told, [used |-> [c \in Characters |-> 0], cards |-> <<>>], all).cards

WriteCards ==
    /\ stage = "moments"
    /\ cards' = CardsFor(legs)
    /\ stage' = "cards"
    /\ UNCHANGED <<outing, stops, turns, crossings, highways, roads, scenic, legs, shown, events>>

\* _index_at
IndexAt(t) == Min({Len(track), From(track, t)})

\* _card_spans: the stretch of the track that a card's map draws.
CardSpan(card) ==
    LET began == StartsAt(track) + card.since
        first == Min({IndexAt(began), Len(track) - 1})
    IN  [first |-> first, last |-> Min({Max({IndexAt(began + card.lasts), first + 1}), Len(track)})]

\* _eased: how far the drawn stretch has grown, in sixths of the card.
Eased(span, share) ==
    LET length == span.last - span.first
        grown == (2 * length * (36 - (6 - share) * (6 - share)) + 36) \div 72
    IN  Min({span.last, Max({span.first + 1, span.first + grown})})

-----------------------------------------------------------------------------
\* Lines.

Line(kind, t, about) == [kind |-> kind, at |-> t, about |-> about, toward |-> "none"]
NearAShip(t) == Afloat(crossings, t, ShipEdge)
LegOf(t) == {i \in DOMAIN legs : legs[i].from <= t /\ t < legs[i].to}
LegEnd(i) == NameAt(legs[i].to).place
SaysItAlready(town, t) == outing.named /\ \E i \in LegOf(t) : town \in {NameAt(legs[i].from).place, NameAt(legs[i].to).place}

\* scenic_events: not where the day itself begins or ends.
ScenicLines ==
    FoldLeft(LAMBDA said, s : said
        \o (IF s.from > StartsAt(track) + 10 * Minute THEN <<Line("scenic_in", s.from, s.name)>> ELSE <<>>)
        \o (IF s.to < EndsAt(track) - 20 * Minute THEN <<Line("scenic_out", s.to, s.name)>> ELSE <<>>), <<>>, scenic)

HighwayOnLines == LET on == Ascending(HighwayEntries(track, highways))
                  IN  [i \in DOMAIN on |-> Line("highway_on", highways[on[i]].from, highways[on[i]].name)]
HighwayOffLines ==
    LET off == Ascending(HighwayExits(track, highways))
        Toward(t) == IF LegOf(t) = {} THEN "none" ELSE LegEnd(Min(LegOf(t)))
    IN  [i \in DOMAIN off |-> LET r == highways[off[i]] IN [Line("highway_off", r.to, r.name) EXCEPT !.toward = Toward(r.to)]]

MomentLines ==
    LET Said(m) == CASE m.kind = "departure" -> Line("departure", m.at, NameAt(legs[1].from).place)
                     [] m.kind = "arrival"   -> Line("arrival", m.at, LegEnd(Len(legs)))
                     [] m.kind = "ferry_off" -> Line("ferry_off", m.at, NameAt(m.at).place)
        order == SetToSortSeq(shown, LAMBDA a, b : a.at < b.at)
    IN  [i \in DOMAIN order |-> Said(order[i])]

RoadLines == LET plain == SelectSeq(roads, LAMBDA r : r.name \notin outing.signposted)
             IN  [i \in DOMAIN plain |-> Line("road", plain[i].from, plain[i].name)]
PassLines == LET crossed == SetToSortSeq(LandmarkCrossings(track, outing.landmarks), LAMBDA a, b : a.at < b.at)
             IN  [i \in DOMAIN crossed |-> Line("pass", crossed[i].at, crossed[i].name)]

\* The pictures of the stops that have one.
Pictures == SelectSeq([i \in DOMAIN stops |-> [from |-> stops[i].from, to |-> stops[i].to] @@ outing.pictures[i]], LAMBDA p : p.kind # "none")

\* Boarding is where its picture was filmed.
BoardingLines ==
    LET Boarding(c) == SelectSeq(Pictures, LAMBDA p : p.kind = "ferry" /\ p.from <= c.to /\ p.to >= c.from - SectionEdge)
        At(c) == IF Boarding(c) = <<>> \/ Boarding(c)[1].window = NotSeen THEN c.from ELSE Boarding(c)[1].window
    IN  [i \in DOMAIN crossings |-> Line("ferry_on", At(crossings[i]), crossings[i].name)]

Rank(kind) == CASE kind = "city" -> 0 [] kind = "town" -> 1 [] kind = "village" -> 2

\* A village soon after another line is not said.
Quiet(said, passage) == passage.kind = "village" /\ said # NotSeen /\ passage.from - said < VillageQuiet

\* _town_events: the charted places passed, else the slow stretches that look like a town.
TownLines ==
    LET passages == PlacePassages(track, outing.places)
        InABigger(x) == \E i \in DOMAIN passages : LET o == passages[i] IN
                            Rank(o.kind) < Rank(x.kind) /\ o.from <= x.to /\ x.from <= o.to
        Edge(t) == t < StartsAt(track) + SectionEdge \/ t > EndsAt(track) - SectionEdge
        StopsHere(x) == \E i \in DOMAIN Pictures : x.from <= Pictures[i].from /\ Pictures[i].from <= x.to
        Say(s, x) ==
            IF Edge(x.from) \/ NearAShip(x.from) \/ InABigger(x) \/ Quiet(s.said, x) THEN s
            ELSE IF SaysItAlready(x.name, (x.from + x.to) \div 2) THEN [s EXCEPT !.said = x.from]
            ELSE [said |-> x.from, lines |-> Append(s.lines, Line(IF StopsHere(x) THEN "town_in" ELSE "town", x.from, x.name))]
        slow == TownPassages(track, outing.hints, Pictures)
        Guess(lines, x) ==
            LET m == (x.from + x.to) \div 2
                town == NameAt(m).place
            IN  IF town = "none" \/ SaysItAlready(town, m) \/ NearAShip(m) THEN lines ELSE Append(lines, Line("town", x.from, town))
    IN  IF passages = <<>> THEN FoldLeft(Guess, <<>>, slow) ELSE FoldLeft(Say, [said |-> NotSeen, lines |-> <<>>], passages).lines

NamedStops == {"attraction", "lookout", "lunch", "meal", "stopover"}

\* Where the rider stopped, and the name the camera read there.
StopLines ==
    LET Say(lines, p) ==
            LET where == IF p.kind \in NamedStops THEN IF p.spot # "none" THEN p.spot ELSE NameAt(p.from).finer ELSE NameAt(p.from).place
            IN  IF \/ p.from < StartsAt(track) + SectionEdge \/ p.from > EndsAt(track) - SectionEdge
                   \/ p.kind \in {"ferry", "residence"} THEN lines
                ELSE Append(lines, Line("halt_place", p.from, where))
                     \o IF p.spot # "none" /\ p.spot # where /\ p.window # NotSeen THEN <<Line("place", p.window, p.spot)>> ELSE <<>>
    IN  FoldLeft(Say, <<>>, Pictures)

\* A variant of MergeCoincident: both lines stay.
MergeNothing(lines) == lines

\* _merge_coincident: the route's line wins over the highway's and takes its destination.
MergeCoincident(lines) ==
    LET Close(i, j) == Size(lines[i].at - lines[j].at) <= 120
        Scenic2(i) == lines[i].kind \in {"scenic_in", "scenic_out"}
        Road(j) == lines[j].kind \in {"highway_on", "highway_off"}
        Merge(s, i) ==
            LET taken == {j \in (DOMAIN lines) \ s.dropped : Scenic2(i) /\ Road(j) /\ Close(i, j)}
                heading == {j \in taken : lines[i].kind = "scenic_out" /\ lines[j].kind = "highway_off" /\ lines[j].toward # "none"}
            IN  [dropped |-> s.dropped \cup taken,
                 lines |-> IF heading = {} THEN s.lines ELSE [s.lines EXCEPT ![i].toward = lines[Max(heading)].toward]]
        merged == FoldLeft(Merge, [dropped |-> {}, lines |-> lines], [i \in DOMAIN lines |-> i])
        kept == SelectSeq([i \in DOMAIN lines |-> i], LAMBDA i : i \notin merged.dropped)
    IN  [k \in DOMAIN kept |-> merged.lines[kept[k]]]

SayLines ==
    /\ stage = "cards"
    /\ LET Dry(lines) == SelectSeq(lines, LAMBDA e : ~NearAShip(e.at))
           all == Dry(ScenicLines) \o Dry(HighwayOnLines) \o MomentLines \o Dry(HighwayOffLines) \o Dry(RoadLines)
                      \o PassLines \o BoardingLines \o TownLines \o StopLines
       IN  events' = Ordered(MergeCoincident(all), LAMBDA a, b : a.at < b.at)
    /\ stage' = "lines said"
    /\ UNCHANGED <<outing, stops, turns, crossings, highways, roads, scenic, legs, shown, cards>>

RideNext == ReadStops \/ ReadLines \/ CutLegs \/ ProveLegMoments \/ WriteCards \/ SayLines

-----------------------------------------------------------------------------
\* Properties.

Written == stage \in {"cards", "lines said"}

\* segment_ride: the legs are the whole day, one after the other, six at most,
\* whatever was snapped, cut, halved, dropped or folded on the way.
LegsTileTheDay ==
    legs # <<>> =>
        /\ Len(legs) <= MaxChapters
        /\ legs[1].from = StartsAt(track) /\ legs[Len(legs)].to = EndsAt(track)
        /\ \A i \in DOMAIN legs : legs[i].from < legs[i].to /\ (i > 1 => legs[i].from = legs[i - 1].to)

\* segment_ride and ferry_crossings: no leg begins or ends at sea, and a
\* crossing on its own leg is told as carried, not ridden.
NoLegEndsAtSea ==
    \A i \in DOMAIN legs, c \in Range(crossings) :
        /\ ~(c.from < legs[i].to /\ legs[i].to < c.to)
        /\ legs[i].character = "ferry" => \E d \in Range(crossings) : d.name = legs[i].route

\* ferry_crossings: a crossing takes some time, the camera saw the ride aboard
\* during it, and no two crossings share a minute.
CrossingsAreSeen ==
    \A i \in DOMAIN crossings :
        LET c == crossings[i] IN
        /\ c.from < c.to
        /\ \E w \in outing.aboard : c.from <= w /\ w <= c.to
        /\ i > 1 => crossings[i - 1].to <= c.from

\* day_moments over long_halts, and sharp_turns: the day's own moments are
\* strictly in order, so that no two ask for one window, and one swing of the
\* heading is never counted as two turns.
MomentsInOrder ==
    /\ stage = "stops" => LET m == DayMoments(track, stops) IN \A i \in 2..Len(m) : m[i - 1].at < m[i].at
    /\ \A i \in DOMAIN turns : turns[i].from < turns[i].to /\ (i > 1 => turns[i - 1].to <= turns[i].from)

\* highway_entries and highway_exits: between two joinings of a highway the
\* ride left it, and between two leavings it joined it.
RoadMomentsAlternate ==
    stage = "lines" =>
        LET said == RoadMoments(track, highways)
        IN  \A m, n \in said : m.at < n.at /\ m.kind = n.kind =>
                \E k \in said : k.kind # m.kind /\ m.at <= k.at /\ k.at <= n.at

\* gain_and_loss: what a leg climbed less what it descended is what its ends
\* differ by, short of one step of the hysteresis.
ClimbAddsUp ==
    \A i \in DOMAIN legs :
        LET s == legs[i].sums IN s.first # NoHeight => Size((s.gain - s.loss) - (s.last - s.first)) < Hysteresis

\* _card_spans and _eased: the stretches the cards' maps draw cover the whole
\* route, meet each other, and grow point by point to their end.
MapsMeet ==
    Written =>
        LET Span(i) == CardSpan(cards[i]) IN
        /\ Span(1).first = 1 /\ Span(Len(cards)).last = Len(track)
        /\ \A i \in DOMAIN cards :
              /\ 1 <= Span(i).first /\ Span(i).first < Span(i).last /\ Span(i).last <= Len(track)
              /\ i > 1 => Span(i).first <= Span(i - 1).last /\ Span(i - 1).last <= Span(i).first + 1
              /\ Eased(Span(i), 6) = Span(i).last
              /\ \A k \in 1..6 : Eased(Span(i), k - 1) <= Eased(Span(i), k)

\* _section_events and _town_events: nothing is said of a road, a route or a
\* charted town around a crossing, and a town guessed from a slow stretch of the
\* track is one the ride is in at the middle of that stretch, which no ship is
\* near; no route and highway are said within two minutes, and a village is not
\* said within half an hour of the town line before it.
LinesAreClear ==
    stage = "lines said" =>
        LET Of(kinds) == {i \in DOMAIN events : events[i].kind \in kinds}
            road == {"highway_on", "highway_off"}
            route == {"scenic_in", "scenic_out"}
            towns == SelectSeq(events, LAMBDA e : e.kind \in {"town", "town_in"})
            charted == PlacePassages(track, outing.places) # <<>>
            Guessed(e) == \E x \in Range(TownPassages(track, outing.hints, Pictures)) :
                              LET m == (x.from + x.to) \div 2
                              IN  x.from = e.at /\ NameAt(m).place = e.about /\ ~NearAShip(m)
        IN  /\ \A i \in Of(road \cup route \cup {"road"}) : ~NearAShip(events[i].at)
            /\ \A i \in DOMAIN towns : IF charted THEN ~NearAShip(towns[i].at) ELSE Guessed(towns[i])
            /\ \A i \in Of(road), j \in Of(route) : Size(events[i].at - events[j].at) > 120
            /\ \A i \in 2..Len(towns) :
                  [name |-> towns[i].about, kind |-> "village"] \in Range(outing.places) =>
                      towns[i].at - towns[i - 1].at >= VillageQuiet

\* segment_ride, gain_and_loss and the maps of write_chapter_cards: the legs are
\* the whole day, none is cut at sea, the climbs they are told with add up to the
\* heights at their ends, and the stretches their maps draw are the whole route.
LegsAreTheDay == LegsTileTheDay /\ NoLegEndsAtSea /\ ClimbAddsUp /\ MapsMeet

\* The crossings and the moments a ride is told by are moments of that ride: seen
\* by its camera, in its order, and none without the one it answers to.
MomentsAreTheRides == CrossingsAreSeen /\ MomentsInOrder /\ RoadMomentsAlternate
=============================================================================
