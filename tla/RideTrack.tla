----------------------------- MODULE RideTrack -----------------------------
(***************************************************************************)
(* What a ride's GPS track and the references say of it: where the ride    *)
(* stood (app/ride_chapters.py, app/town_passages.py), climbed             *)
(* (app/gps/elevation.py), turned (app/gps/turns.py), ran along a charted  *)
(* road (app/scenic_routes.py, app/route_references.py), was carried by a  *)
(* ship (app/ferries.py), came through a place (app/places.py), set off    *)
(* and came to rest (app/gps/moments.py).  Pure readings: no state here.   *)
(*                                                                         *)
(* A point is [at, dist, high, speed, bearing, on, near, town]: seconds,   *)
(* metres along the track, height or NoHeight, metres a second, degrees    *)
(* to the next point, the charted lines within reach, the places and       *)
(* landmarks within reach with their distance, and what the geocoder       *)
(* answers there.  The geometry that says what is within reach is outside. *)
(***************************************************************************)
EXTENDS Integers, Sequences, FiniteSets, SequencesExt

Minute   == 60
NoHeight == 0 - 1
NotSeen    == 0 - 1

HaltRadius   == 300
MinChapter   == 20 * Minute
Prominence   == 300
Hysteresis   == 10

Size(n) == IF n < 0 THEN 0 - n ELSE n
Ordered(s, Before(_, _)) ==
    LET order == SortSeq([i \in DOMAIN s |-> i], LAMBDA i, j : Before(s[i], s[j]) \/ (~Before(s[j], s[i]) /\ i < j))
    IN  [i \in DOMAIN s |-> s[order[i]]]
Ascending(S) == [i \in 1..Cardinality(S) |-> CHOOSE x \in S : Cardinality({y \in S : y < x}) = i - 1]
Earlier(a, b) == a.from < b.from
Longest(a, b) == a.to - a.from > b.to - b.from \/ (a.to - a.from = b.to - b.from /\ a.from < b.from)
StartsAt(p) == p[1].at
EndsAt(p) == p[Len(p)].at
Moved(p, i, j) == p[j].dist - p[i].dist
Elapsed(p, i, j) == p[j].at - p[i].at
Upto(p, t) == Cardinality({k \in DOMAIN p : p[k].at <= t})
From(p, t) == 1 + Cardinality({k \in DOMAIN p : p[k].at < t})
Within(p, a, b) == SelectSeq(p, LAMBDA x : a <= x.at /\ x.at <= b)

\* Keeps the longest, then whatever does not overlap what is kept.
Apart(a, b) == a.to <= b.from \/ a.from >= b.to
LongestApart(found) ==
    LET Keep(kept, s) == IF \A k \in DOMAIN kept : Apart(s, kept[k]) THEN Append(kept, s) ELSE kept
    IN  Ordered(FoldLeft(Keep, <<>>, Ordered(found, Longest)), Earlier)

-----------------------------------------------------------------------------
\* Standing.  A halt has no more than walking pace in it and touches neither end.

LongHalts(p, minimum) ==
    LET Far(i, r) == {k \in (r + 1)..Len(p) : 2 * Moved(p, i, k) > 2 * HaltRadius + 3 * Elapsed(p, i, k)}
        Fast(i) == Elapsed(p, i, i + 1) > 0 /\ Moved(p, i, i + 1) > 3 * Elapsed(p, i, i + 1)
        Sweep(s, i) ==
            IF i < s.start THEN s ELSE
            LET r0    == Max({s.reach, i})
                reach == IF Far(i, r0) = {} THEN Len(p) ELSE Min(Far(i, r0)) - 1
                last  == Max({i} \cup {k \in (i + 1)..reach : ~Fast(k - 1)})
                first == Min({last} \cup {k \in i..(last - 1) : ~Fast(k)})
                halt  == [from |-> p[first].at, to |-> p[last].at]
            IN  IF halt.to - halt.from < minimum THEN [s EXCEPT !.start = i + 1, !.reach = reach]
                ELSE [start |-> reach + 1, reach |-> reach,
                      halts |-> IF halt.from - StartsAt(p) < MinChapter \/ EndsAt(p) - halt.to < MinChapter
                                THEN s.halts ELSE Append(s.halts, halt)]
    IN  IF Len(p) < 2 THEN <<>>
        ELSE FoldLeft(Sweep, [start |-> 1, reach |-> 1, halts |-> <<>>], [i \in DOMAIN p |-> i]).halts

\* The runs of a set of points: one ends where the track is elsewhere for longer than gap.
Runs(p, on, gap) ==
    LET Before(j) == {i \in on : i < j}
        Ended(i, j) == \E k \in (i + 1)..(j - 1) : p[k].at - p[i].at > gap
        starts == Ascending({j \in on : Before(j) = {} \/ Ended(Max(Before(j)), j)})
        Closing(n) == Max(IF n = Len(starts) THEN on ELSE Before(starts[n + 1]))
    IN  [n \in DOMAIN starts |-> [from |-> p[starts[n]].at, to |-> p[Closing(n)].at]]
AtLeast(runs, minimum) == SelectSeq(runs, LAMBDA r : r.to - r.from >= minimum)
Called(runs, name, kind) == [n \in DOMAIN runs |-> [name |-> name, kind |-> kind, from |-> runs[n].from, to |-> runs[n].to]]

\* slow_stretches: slow for three minutes around, with two stops in them.
SlowStretches(p, halts) ==
    LET Stopped(i) == p[i].speed <= 1
        StopStarts == {i \in DOMAIN p : Stopped(i) /\ (i = 1 \/ ~Stopped(i - 1))}
        TownLike(i) ==
            LET first == From(p, p[i].at - 90)
                last  == Upto(p, p[i].at + 90)
            IN  /\ \A h \in DOMAIN halts : ~(halts[h].from <= p[i].at /\ p[i].at <= halts[h].to)
                /\ Elapsed(p, first, last) > 0
                /\ Moved(p, first, last) < 12 * Elapsed(p, first, last)
                /\ Cardinality(StopStarts \cap (first..last)) >= 2
    IN  IF Len(p) < 2 THEN <<>> ELSE AtLeast(Runs(p, {i \in DOMAIN p : TownLike(i)}, 120), 120)

\* town_passages: a slow stretch that the model's words call a town.
TownPassages(p, hints, halts) ==
    SelectSeq(SlowStretches(p, halts), LAMBDA s : \E h \in hints : h.urban /\ s.from <= h.at /\ h.at <= s.to)

-----------------------------------------------------------------------------
\* Climbing and turning.

Heights(p) == LET known == SelectSeq(p, LAMBDA x : x.high # NoHeight) IN [i \in DOMAIN known |-> known[i].high]

Climb(s, h) ==
    LET d == h - s.anchor
    IN  IF d >= Hysteresis THEN [s EXCEPT !.gain = @ + d, !.anchor = h]
        ELSE IF d <= 0 - Hysteresis THEN [s EXCEPT !.loss = @ - d, !.anchor = h] ELSE s

GainAndLoss(heights) ==
    IF heights = <<>> THEN [anchor |-> 0, gain |-> 0, loss |-> 0]
    ELSE FoldLeft(Climb, [anchor |-> heights[1], gain |-> 0, loss |-> 0], heights)

\* A top with a real climb on both sides, the highest within ten minutes; tallest first, apart.
Passes(p) ==
    LET e == SelectSeq(p, LAMBDA x : x.high # NoHeight)
        Low(S) == Min({e[k].high : k \in S})
        Tops == {i \in 2..(Len(e) - 1) :
                    /\ e[i].high - Low(1..(i - 1)) >= Prominence
                    /\ e[i].high - Low((i + 1)..Len(e)) >= Prominence
                    /\ \A k \in DOMAIN e : Size(Elapsed(e, i, k)) <= MinChapter \div 2 => e[k].high <= e[i].high}
        tallest == Ordered(SelectSeq([i \in DOMAIN e |-> i], LAMBDA i : i \in Tops), LAMBDA i, j : e[i].high > e[j].high)
        Keep(kept, i) == IF \A t \in kept : Size(e[i].at - t) >= MinChapter THEN kept \cup {e[i].at} ELSE kept
    IN  IF Len(e) < 3 THEN {} ELSE FoldLeft(Keep, {}, tallest)

Swing(a, b) == ((b - a + 180) % 360) - 180

\* Where the heading has swung a quarter within ten seconds of point i, never below riding pace.
TurnEnds(p, i) ==
    LET Slow(k) == p[k].speed < 4
        Swung(c) == FoldLeft(LAMBDA a, k : a + Swing(p[k - 1].bearing, p[k].bearing), 0, [k \in 1..(c - i) |-> i + k])
    IN  {c \in (i + 1)..(Len(p) - 1) : Elapsed(p, i, c) <= 10 /\ (\A k \in i..c : ~Slow(k)) /\ Size(Swung(c)) >= 90}

AddTurn(p, s, i) ==
    IF i < s.next \/ TurnEnds(p, i) = {} THEN s
    ELSE LET c == Min(TurnEnds(p, i)) + 1 IN [next |-> c, turns |-> Append(s.turns, [from |-> p[i].at, to |-> p[c].at])]

SharpTurns(p) ==
    FoldLeft(LAMBDA s, i : AddTurn(p, s, i), [next |-> 1, turns |-> <<>>], [i \in 1..(Len(p) - 2) |-> i]).turns

-----------------------------------------------------------------------------
\* Charted lines.

\* advanced_m
Advanced(p, since, until) ==
    IF Upto(p, since) = 0 \/ Upto(p, until) = 0 THEN 0 ELSE Max({0, Moved(p, Upto(p, since), Upto(p, until))})

JoinedAcrossHalts(runs, p) ==
    LET Join(joined, r) == IF joined # <<>> /\ Advanced(p, joined[Len(joined)].to, r.from) < 5000
                           THEN [joined EXCEPT ![Len(joined)].to = r.to] ELSE Append(joined, r)
    IN  FoldLeft(Join, <<>>, runs)

\* scenic_stretches: the runs along each line, one where the ride stood, none overlapping.
Stretches(p, routes, minimum, gap) ==
    LET Along(r) == AtLeast(JoinedAcrossHalts(Runs(p, {i \in DOMAIN p : r.id \in p[i].on}, gap), p), minimum)
    IN  LongestApart(FoldLeft(LAMBDA found, r : found \o Called(Along(r), r.name, "line"), <<>>, routes))

Scenic(p, routes)      == Stretches(p, routes, 15 * Minute, 10 * Minute)
HighwayRuns(p, routes) == Stretches(p, routes, 10 * Minute, 10 * Minute)
MappedRoads(p, routes) == Stretches(p, routes, 5 * Minute, 10 * Minute)

\* real_scenic: an end well inside a highway run is the chart's, not the ride's.
RealScenic(found, runs) ==
    LET InsideARun(t) == \E i \in DOMAIN runs : runs[i].from + 120 < t /\ t < runs[i].to - 120
    IN  SelectSeq(found, LAMBDA s : ~InsideARun(s.from) /\ ~InsideARun(s.to))

\* sampled_road_runs: the geocoder's road every three minutes, a sample standing for the step after it.
SampledRoads(p, wanted) ==
    LET Close(s) == IF s.name # "none" /\ s.to + 180 - s.from >= 5 * Minute
                    THEN s.runs \o Called(<<[from |-> s.from, to |-> s.to + 180]>>, s.name, "line") ELSE s.runs
        Sample(s, x) ==
            IF x.at < s.next THEN s
            ELSE LET road == IF x.town.road \in wanted THEN x.town.road ELSE "none"
                 IN  IF road # "none" /\ road = s.name THEN [s EXCEPT !.to = x.at, !.next = x.at + 180]
                     ELSE [next |-> x.at + 180, name |-> road, from |-> x.at, to |-> x.at, runs |-> Close(s)]
    IN  IF wanted = {} \/ p = <<>> THEN <<>>
        ELSE Close(FoldLeft(Sample, [next |-> StartsAt(p), name |-> "none", from |-> 0, to |-> 0, runs |-> <<>>], p))

RoadRuns(p, mapped, named, wanted) ==
    LongestApart(MappedRoads(p, mapped) \o IF named THEN SampledRoads(p, wanted) ELSE <<>>)

-----------------------------------------------------------------------------
\* Ferries.

\* Most of the minutes are at a ship's pace or slower.
PacedLikeAShip(p, run) ==
    LET last == Upto(p, run.to)
        Pace(s, i) ==
            LET ahead == Min({last, Upto(p, p[i].at + Minute)})
            IN  IF i # s.index THEN s
                ELSE IF ahead <= i THEN [s EXCEPT !.index = i + 1]
                ELSE [index |-> ahead, all |-> s.all + 1,
                      slow |-> s.slow + IF Moved(p, i, ahead) <= 14 * Elapsed(p, i, ahead) THEN 1 ELSE 0]
        first == Upto(p, run.from)
        read == FoldLeft(Pace, [index |-> first, all |-> 0, slow |-> 0], [k \in 1..(last - first) |-> first + k - 1])
    IN  first > 0 /\ read.all > 0 /\ read.slow > read.all \div 2

\* A crossing begins with the halt that holds its first witness.
QueuedFrom(w, halts, fallback) ==
    LET holding == {i \in DOMAIN halts : halts[i].from <= w /\ w <= halts[i].to}
    IN  IF holding = {} THEN fallback ELSE Max({halts[Min(holding)].from, fallback})

Seen(r, windows) == {w \in windows : r.from <= w /\ w <= r.to}

\* A variant of Carried: the track and the chart are enough.
CarriedUnseen(p, r, witnessed, aboard) ==
    Advanced(p, r.from, r.to) >= 10000 /\ PacedLikeAShip(p, r) /\ Seen(r, witnessed) # {}

Carried(p, r, witnessed, aboard) ==
    /\ Advanced(p, r.from, r.to) >= 10000
    /\ PacedLikeAShip(p, r)
    /\ Seen(r, aboard) # {}
    /\ Seen(r, witnessed) # {}

FerryCrossings(p, routes, witnessed, aboard, halts) ==
    LET Read(found, r) ==
            IF ~Carried(p, r, witnessed, aboard) THEN found
            ELSE LET start == QueuedFrom(Min(Seen(r, witnessed)), halts, r.from)
                 IN  IF r.to <= start THEN found ELSE Append(found, [r EXCEPT !.from = start])
    IN  LongestApart(FoldLeft(Read, <<>>, Stretches(p, routes, 15 * Minute, 120 * Minute)))

Afloat(crossings, t, slack) == \E i \in DOMAIN crossings : crossings[i].from - slack <= t /\ t <= crossings[i].to + slack

-----------------------------------------------------------------------------
\* Places and landmarks.

PlacePassages(p, places) ==
    LET By(x) == Runs(p, {i \in DOMAIN p : \E n \in p[i].near : n.mark = x.name}, 10 * Minute)
    IN  Ordered(FoldLeft(LAMBDA found, x : found \o Called(By(x), x.name, x.kind), <<>>, places), Earlier)

\* landmark_crossings: the point nearest to each landmark within reach.
LandmarkCrossings(p, landmarks) ==
    LET Gap(i, m) == {n.gap : n \in {x \in p[i].near : x.mark = m}}
        Reached == {m \in landmarks : \E i \in DOMAIN p : Gap(i, m) # {}}
        Nearest(m) == LET least == Min(UNION {Gap(i, m) : i \in DOMAIN p}) IN Min({i \in DOMAIN p : least \in Gap(i, m)})
    IN  {[name |-> m, at |-> p[Nearest(m)].at] : m \in Reached}

-----------------------------------------------------------------------------
\* Moments.

Walks(p, i) == Moved(p, i - 1, i) > 0 /\ 2 * Moved(p, i - 1, i) > 3 * Max({Elapsed(p, i - 1, i), 0})
Rolls(p, i) == Elapsed(p, i - 1, i) > 0 /\ 2 * Moved(p, i - 1, i) >= 5 * Elapsed(p, i - 1, i)

\* set_off: the first move that has gone 300 m within a minute, from where it rolls.
SetOff(p) ==
    LET Reach(i) == Upto(p, p[i - 1].at + Minute)
        moves == {i \in 2..Len(p) : Walks(p, i) /\ Moved(p, i - 1, Reach(i)) >= 300}
    IN  IF moves = {} THEN NotSeen
        ELSE LET i == Min(moves)
                 rolling == Min({Max({i, Reach(i)})} \cup {k \in i..Reach(i) : Rolls(p, k)})
             IN  p[rolling - 1].at

\* come_to_rest: the same, read backwards.
ComeToRest(p) ==
    LET Back(i) == From(p, p[i].at - Minute)
        moves == {i \in 2..Len(p) : Walks(p, i) /\ Moved(p, Back(i), i) >= 300}
    IN  IF moves = {} THEN NotSeen
        ELSE LET i == Max(moves)
                 rolling == Max({Min({i, Back(i) + 1})} \cup {k \in (Back(i) + 1)..i : Rolls(p, k)})
             IN  p[rolling].at

Moment(kind, t) == [kind |-> kind, at |-> t]

\* day_moments
DayMoments(p, halts) ==
    LET began == SetOff(p)
        ended == ComeToRest(p)
        Read(said, h) == IF h.from <= began \/ h.to >= ended THEN said
                         ELSE said \o <<Moment("halt_arrival", h.from), Moment("halt_departure", h.to)>>
    IN  IF began = NotSeen \/ ended = NotSeen \/ ended <= began THEN <<>>
        ELSE Append(FoldLeft(Read, <<Moment("departure", began)>>, halts), Moment("arrival", ended))

\* highway_entries: joined a highway, not the same one again.
HighwayEntries(p, runs) ==
    LET Off(i) == runs[i].from - runs[i - 1].to
    IN  {i \in DOMAIN runs :
            IF i = 1 THEN runs[i].from - StartsAt(p) >= 120
            ELSE Off(i) >= 10 * Minute /\ Advanced(p, runs[i - 1].to, runs[i].from) >= 5000}

\* highway_exits: left it for good, and not because the day ends.
HighwayExits(p, runs) ==
    LET Next(i) == IF i < Len(runs) THEN runs[i + 1].from ELSE EndsAt(p)
    IN  {i \in DOMAIN runs : /\ Next(i) - runs[i].to >= 10 * Minute
                             /\ Advanced(p, runs[i].to, Next(i)) >= 5000
                             /\ EndsAt(p) - runs[i].to >= 10 * Minute}

RoadMoments(p, runs) ==
    {Moment("highway_on", runs[i].from) : i \in HighwayEntries(p, runs)}
        \cup {Moment("highway_off", runs[i].to) : i \in HighwayExits(p, runs)}

\* ferry_moments: riding off within half an hour, or the crossing's end.
FerryMoments(p, crossings) ==
    {LET after == SelectSeq(p, LAMBDA x : x.at >= crossings[i].to)
         moved == IF Len(after) >= 2 THEN SetOff(after) ELSE NotSeen
     IN  Moment("ferry_off", IF moved # NotSeen /\ moved - crossings[i].to <= 30 * Minute THEN moved ELSE crossings[i].to) :
        i \in DOMAIN crossings}

\* clear_of_crossings
ClearOfCrossings(moments, crossings) == {m \in moments : ~Afloat(crossings, m.at, 20 * Minute)}

=============================================================================
