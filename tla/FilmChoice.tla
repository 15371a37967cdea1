----------------------------- MODULE FilmChoice -----------------------------
(***************************************************************************)
(* Which windows of a judged ride its film shows and for how long: the     *)
(* part of plan_journey_film (app/private_journey_film.py) from the        *)
(* moments the track proves to the footage.  The film's fixed shots        *)
(* (app/fixed_shots.py), the pictures of its stops (app/place_shots.py)    *)
(* and its opening (app/highlights.py) are chosen first; the rest leg by   *)
(* leg, best first (app/story_pacing.py, app/gemini_selection.py).         *)
(*                                                                         *)
(* Times are in half seconds.  What a model saw in a window is a record of *)
(* the answers the choice reads; a score and a photogenic score are in     *)
(* hundredths, ratios of time are rounded down.                            *)
(***************************************************************************)
EXTENDS Integers, FiniteSets, Sequences, SequencesExt

CONSTANT Rides   \* the judged rides considered

Second       == 2
WindowLength == 12 * Second
StillPart    == 3 * Second
FixedHold    == 8 * Second
Tolerance    == 3 * Second
FanStep      == 10 * Second
Separation   == 120 * Second
MinCut       == 2 * Second
OpenerHold   == 6 * Second
TieMargin    == 2
MinScore     == 35
MinPicture   == 5500
LookAlike    == 10
Spread       == 1200 * Second
OpeningCount == 4
Target       == 300 * Second
FilmedWithin == 3600 * Second

VARIABLES
    ride,     \* the ride: its windows, legs, moments, recordings and stops
    phase,    \* what is chosen next
    proven,   \* the moments as the camera can show them
    fixed,    \* the windows of the moments
    places,   \* the windows of the stops and the lodging
    opening,  \* the windows of the opening
    leg,      \* the leg whose windows are chosen, [at, pool, taken, target]
    targets,  \* the time each leg may take
    chosen,   \* the windows chosen
    footage   \* the film's cuts, in the order of the ride

\* The windows of a judged ride are all of one length, and its legs follow one
\* another.
List(s) == s \in Seq({s[i] : i \in DOMAIN s})
Measured(r) ==
    /\ List(r.windows) /\ List(r.legs)
    /\ \A w \in DOMAIN r.windows :
          /\ r.windows[w].length = WindowLength /\ r.windows[w].start \in Int
          /\ r.windows[w].rank \in Nat /\ r.windows[w].score \in Int
          /\ r.windows[w].photo \in Int /\ r.windows[w].motion \in Int
    /\ \A m, n \in DOMAIN r.legs : m < n => r.legs[m].to <= r.legs[n].from
    /\ \A n \in DOMAIN r.legs : r.legs[n].from \in Int /\ r.legs[n].to \in Int
ASSUME RidesAssumption == \A r \in Rides : r.record \in BOOLEAN /\ (r.record => Measured(r))

choiceVars == <<ride, phase, proven, fixed, places, opening, leg, targets, chosen, footage>>

Windows  == DOMAIN ride.windows
W(w)     == ride.windows[w]
Ends(w)  == W(w).start + W(w).length
Legs     == DOMAIN ride.legs
InLeg(w, n) == ride.legs[n].from <= W(w).start /\ W(w).start < ride.legs[n].to
Pinned   == fixed \cup places
Required == Pinned \cup opening

Abs(n)     == IF n < 0 THEN 0 - n ELSE n
Less(a, b) == IF a < b THEN a ELSE b
More(a, b) == IF a < b THEN b ELSE a
Before(a, b) == \E i \in DOMAIN a : a[i] < b[i] /\ \A j \in 1..(i - 1) : a[j] = b[j]
First(S, Key(_)) == CHOOSE x \in S : \A y \in S \ {x} : Before(Key(x), Key(y))
InRank(S, R) == [k \in 1..Cardinality(S) |-> CHOOSE x \in S : Cardinality({y \in S : <<y, x>> \in R}) = k - 1]
InOrder(S, Key(_)) == InRank(S, {p \in S \X S : Before(Key(p[1]), Key(p[2]))})
Earliest(w) == <<W(w).start, w>>

-----------------------------------------------------------------------------
\* What a judgement says of a window.

Residence(w) == W(w).judged /\ W(w).place = "residential"
FillsFrame(w) == W(w).rider = "large"
Standing(w)  == W(w).judged /\ W(w).still = "yes"
Score(w)     == IF W(w).judged THEN W(w).score ELSE 0

\* _floor_reason
FloorReason(w) ==
    IF ~W(w).judged THEN "not_analysed"
    ELSE IF FillsFrame(w) THEN "rider"
    ELSE IF ~W(w).sure \/ Score(w) < MinScore THEN "low" ELSE "none"

-----------------------------------------------------------------------------
\* The moments and their shots.

Leaving == {"departure", "halt_departure", "highway_on", "highway_off", "ferry_off"}

FixedStart(m) == IF m.kind \in Leaving THEN m.at - StillPart
                 ELSE m.at - (WindowLength - StillPart)
Fan(m) == LET steps == IF m.kind = "departure" THEN 0..4
                       ELSE IF m.kind \in Leaving THEN 0..2 ELSE (0 - 2)..0
          IN  InOrder({FixedStart(m) + n * FanStep : n \in steps}, LAMBDA t : <<t>>)

Held(start) == \E r \in ride.recordings : r.from <= start /\ start + WindowLength <= r.to

\* filmed_moments: a day's end the camera missed becomes the first or last
\* minute it did film, where the bike moves in it if it does.
Filmed(m) ==
    LET start == FixedStart(m)
        long  == {r \in ride.recordings : r.to - r.from >= WindowLength}
        later == {r \in long : r.from >= start}
        ended == {r \in long : r.to <= start + WindowLength}
    IN  IF Held(start) THEN {m}
        ELSE IF m.kind = "departure" /\ later # {}
        THEN LET r == First(later, LAMBDA x : <<x.from, x.to>>)
                 off == {t \in ride.movesOff : t >= r.from}
                 at == IF off # {} /\ First(off, LAMBDA t : <<t>>) - StillPart + WindowLength <= r.to
                       THEN More(r.from + StillPart, First(off, LAMBDA t : <<t>>))
                       ELSE r.from + StillPart
             IN  IF r.from - m.at <= FilmedWithin THEN {[m EXCEPT !.at = at]} ELSE {}
        ELSE IF m.kind = "arrival" /\ ended # {}
        THEN LET r == First(ended, LAMBDA x : <<0 - x.from, 0 - x.to>>)
                 rest == {t \in ride.rests : t <= r.to}
                 last == First(rest, LAMBDA t : <<0 - t>>)
                 at == IF rest # {} /\ last + StillPart - WindowLength >= r.from
                       THEN Less(r.to - StillPart, last) ELSE r.to - StillPart
             IN  IF m.at - r.to <= FilmedWithin THEN {[m EXCEPT !.at = at]} ELSE {}
        ELSE {}

\* fixed_shots_for: each moment's fan takes the windows nearest to it that no
\* fan took before.
FanShots(moments) ==
    LET Take(shots, wish) ==
            LET free == Windows \ {s[1] : s \in shots}
                near == First(free, LAMBDA w : <<Abs(W(w).start - wish[2]), W(w).start, w>>)
            IN  IF free # {} /\ Abs(W(near).start - wish[2]) <= Tolerance
                THEN shots \cup {<<near, wish[1]>>} ELSE shots
        wishes == FlattenSeq([n \in DOMAIN moments |->
                      [k \in DOMAIN Fan(moments[n]) |-> <<moments[n], Fan(moments[n])[k]>>]])
    IN  FoldLeft(Take, {}, wishes)

Expected(kind) ==
    CASE kind \in {"departure", "halt_departure", "ferry_off"} -> "setting_off"
      [] kind \in {"arrival", "halt_arrival"} -> "pulling_in"
      [] kind = "highway_on" -> "joining_highway"
      [] OTHER -> "leaving_highway"

\* choose_shots
Shots(fan) ==
    LET Rank(s) == LET w == s[1] IN
            IF ~W(w).judged THEN <<1, 1, 1, 0, w>>
            ELSE <<0, IF W(w).event = Expected(s[2].kind) THEN 0 ELSE 1,
                   CASE W(w).still = "no" -> 0 [] W(w).still = "unknown" -> 1 [] OTHER -> 2,
                   Abs(W(w).start - FixedStart(s[2])), w>>
    IN  {First({s \in fan : s[2] = m}, Rank)[1] : m \in {s[2] : s \in fan}}

-----------------------------------------------------------------------------
\* The pictures of the stops and of the lodging.

Priority == <<"ferry", "fuel", "attraction", "lookout", "meal", "lodging", "shop", "residential">>

Inside(stop) ==
    {w \in Windows : W(w).judged /\ stop.from - 30 * Second <= W(w).start /\ W(w).start <= stop.to}

\* stop_kind
KindOf(stop) ==
    LET told  == Inside(stop)
        kinds == {W(w).place : w \in told} \ {"none"}
        Place(k) == CHOOSE i \in DOMAIN Priority : Priority[i] = k
        most == First(kinds, LAMBDA k : <<0 - Cardinality({w \in told : W(w).place = k}), Place(k)>>)
    IN  IF kinds = {} THEN IF stop.to - stop.from >= 1800 * Second THEN "stopover" ELSE "rest"
        ELSE IF most = "meal" /\ stop.noon THEN "lunch" ELSE most

\* shows_the_place
ShowsPlace(w) ==
    \/ W(w).still = "yes" \/ W(w).event = "pulling_in"
    \/ W(w).subject \in {"rest_stop", "landmark", "cityscape"} \/ W(w).place # "none"

RiderRank(w) == CASE W(w).rider = "none" -> 0 [] W(w).rider = "small" -> 2
                  [] W(w).rider = "large" -> 3 [] OTHER -> 1

Bit(condition) == IF condition THEN 1 ELSE 0

\* picture_of
PictureOf(stop) ==
    LET kind == KindOf(stop)
        fit  == {w \in Inside(stop) \ fixed : ~Residence(w) /\ ShowsPlace(w)}
        Ferry(w) == <<Bit(W(w).event # "boarding"), Bit(W(w).indoors), Bit(W(w).event = "aboard"),
                      0 - W(w).start, w>>
        Place(w) == <<Bit(W(w).indoors),
                      Bit(W(w).place \notin {"none", kind} /\ kind \notin {"lunch", "meal"}),
                      RiderRank(w), Bit(W(w).still # "yes" /\ W(w).event # "pulling_in"),
                      0 - Score(w), W(w).start, w>>
    IN  IF fit = {} THEN {} ELSE {IF kind = "ferry" THEN First(fit, Ferry) ELSE First(fit, Place)}

\* lodging_picture, before the departure and after the arrival
LodgingAt(at, after, taken) ==
    LET reach == 900 * Second
        fit == {w \in Windows \ taken :
                    /\ W(w).judged /\ W(w).place = "lodging" /\ ~W(w).indoors /\ ~FillsFrame(w)
                    /\ IF after THEN at <= W(w).start /\ W(w).start <= at + reach
                       ELSE at - reach <= W(w).start /\ W(w).start <= at}
    IN  IF fit = {} THEN {}
        ELSE {First(fit, LAMBDA w : <<Bit(Standing(w)), 0 - Score(w), w>>)}

-----------------------------------------------------------------------------
\* The opening.

Ats(kind) == {m.at : m \in {proven[n] : n \in {k \in DOMAIN proven : proven[k].kind = kind}}}

\* _within_the_ride
WithinRide == {w \in Windows :
    \/ w \in Pinned
    \/ /\ \A at \in Ats("departure") : W(w).start >= at - StillPart
       /\ \A at \in Ats("arrival") : W(w).start <= at}

\* photogenic and subject_of are answers of the window; moving
Moving(w)  == W(w).still # "yes"
Picture(w) == 100 * W(w).photo + Score(w)
ViewSubjects == {"vista", "mountains", "water", "landmark", "cityscape", "rest_stop"}

\* pick_highlights: four passes over the best pictures, each less strict.
Opening ==
    LET fit == {w \in WithinRide : /\ FloorReason(w) = "none" /\ ~W(w).indoors /\ ~Residence(w)
                                   /\ ride.from <= W(w).start /\ W(w).start <= ride.to}
        best == InOrder(fit, LAMBDA w : <<0 - Picture(w), W(w).start, w>>)
        Wanted(taken, w, pass) ==
            /\ Cardinality(taken) < OpeningCount /\ w \notin taken
            /\ IF pass < 3 THEN Moving(w) ELSE ~Moving(w) /\ W(w).subject \in ViewSubjects
            /\ pass = 2 \/ Picture(w) >= MinPicture
            /\ \A t \in taken : Abs(W(w).start - W(t).start) >= Spread
            /\ pass # 0 \/ \A t \in taken : W(t).subject # W(w).subject
        taken[try \in 0..(4 * Len(best))] ==
            IF try = 0 THEN {}
            ELSE LET w == best[((try - 1) % Len(best)) + 1]  before == taken[try - 1]
                 IN  IF Wanted(before, w, (try - 1) \div Len(best)) THEN before \cup {w} ELSE before
    IN  taken[4 * Len(best)]

-----------------------------------------------------------------------------
\* How long a window is held and how the legs share the film.

\* hold_range_for: tier 1 the long, 2 the medium, 3 the short holds
HoldRange(tier) == CASE tier = 1 -> <<8 * Second, 10 * Second>>
                     [] tier = 2 -> <<5 * Second, 7 * Second>>
                     [] OTHER -> <<3 * Second, 4 * Second>>
HoldFor(tier) == CASE tier = 1 -> 10 * Second [] tier = 2 -> 8 * Second [] OTHER -> 6 * Second
RankTier(w) == IF W(w).rank = 0 THEN 3 ELSE IF W(w).rank <= 5 THEN 1 ELSE 2

\* paced: the length a window counts with while the choice is made
Paced(w) ==
    Less(W(w).length, IF w \in Pinned THEN FixedHold
                      ELSE IF ride.looks
                      THEN (HoldRange(RankTier(w))[1] + HoldRange(RankTier(w))[2]) \div 2
                      ELSE HoldFor(RankTier(w)))

\* What a list of numbers comes to at the places of S.
Total(list, S) ==
    LET sum[k \in 0..Len(list)] == IF k = 0 THEN 0 ELSE sum[k - 1] + (IF k \in S THEN list[k] ELSE 0)
    IN  sum[Len(list)]

\* reallocate_footage_targets: shares by weight, none under the floor, none over
\* what the leg can spend, what is over going to the legs with room.
Shares(legs, weight, capacity, total) ==
    LET all   == Total(weight, legs)
        start == [n \in DOMAIN weight |-> IF n \in legs THEN More((total * weight[n]) \div all, HoldFor(3)) ELSE 0]
        Round(s) ==
            LET over == {k \in s.open : s.target[k] > capacity[k]}
                rest == s.open \ over
                spill == Total([k \in DOMAIN weight |-> s.target[k] - capacity[k]], over)
                share == Total(weight, rest)
            IN  [open |-> rest,
                 target |-> [k \in DOMAIN weight |-> CASE k \in over -> capacity[k]
                                                        [] k \in rest -> s.target[k] + ((spill * weight[k]) \div share)
                                                        [] OTHER -> s.target[k]]]
        rounds[n \in 0..Cardinality(legs)] ==
            IF n = 0 THEN [open |-> legs, target |-> start] ELSE Round(rounds[n - 1])
    IN  rounds[Cardinality(legs)].target

-----------------------------------------------------------------------------
\* The choice inside a leg.

Gap(v, w, end) == \* _separation_s, with `end` the length each counts with
    IF W(v).start >= W(w).start + end[w] THEN W(v).start - (W(w).start + end[w])
    ELSE IF W(w).start >= W(v).start + end[v] THEN W(w).start - (W(v).start + end[v]) ELSE 0
Lengths == [w \in Windows |-> Paced(w)]

\* A variant of Refused: what is pinned may show a residence.
RefusedUnlessPinned(w) ==
    IF Residence(w) /\ w \notin Required THEN TRUE
    ELSE IF FloorReason(w) = "none" THEN Standing(w) /\ w \notin Pinned
    ELSE w \notin Required \/ FloorReason(w) = "not_analysed"

\* The windows a leg's choice leaves out before comparing any.
Refused(w) ==
    IF Residence(w) THEN TRUE
    ELSE IF FloorReason(w) = "none" THEN Standing(w) /\ w \notin Pinned
    ELSE w \notin Required \/ FloorReason(w) = "not_analysed"

\* _looks_like_a_neighbour
LooksAlike(w, taken) ==
    LET before == {t \in taken : W(t).start < W(w).start}
        after  == {t \in taken : W(t).start > W(w).start}
        beside == (IF before = {} THEN {} ELSE {First(before, LAMBDA t : <<0 - W(t).start, t>>)})
                  \cup (IF after = {} THEN {} ELSE {First(after, LAMBDA t : <<W(t).start, t>>)})
    IN  ride.looks /\ \E t \in beside : Abs(W(t).look - W(w).look) < LookAlike

NearestTaken(w, taken) ==
    IF taken = {} THEN 0
    ELSE LET gaps == {Gap(w, t, Lengths) : t \in taken} IN First(gaps, LAMBDA g : <<g>>)

\* The next window to consider: of those scored alike with the best, one with a
\* proven turn, the best ranked, the least seen kind of road, the farthest.
Pick(pool, taken) ==
    LET best == First(pool, LAMBDA w : <<0 - Score(w), w>>)
        tied == {w \in pool : Score(w) >= Score(best) - TieMargin}
        Key(w) == <<Bit(~W(w).turn), IF W(w).rank = 0 THEN 1000 ELSE W(w).rank,
                    Cardinality({t \in taken : W(t).judged /\ W(t).family = W(w).family}),
                    0 - NearestTaken(w, taken), W(w).start, w>>
    IN  First(tied, Key)

NoLeg == [at |-> 0, pool |-> {}, taken |-> {}, target |-> 0]
Elsewhere(n) == ({w \in Required : ~InLeg(w, n)} \cap WithinRide) \cup chosen

-----------------------------------------------------------------------------

ChoiceInit ==
    /\ ride \in Rides
    /\ phase = IF ride.record THEN "moments" ELSE "confirmed"
    /\ proven = <<>> /\ footage = <<>>
    /\ fixed = {} /\ places = {} /\ opening = {} /\ chosen = {}
    /\ leg = NoLeg
    /\ targets = <<>>

ProveMoments ==
    /\ phase = "moments"
    /\ proven' = FlattenSeq([n \in DOMAIN ride.moments |-> SetToSeq(Filmed(ride.moments[n]))])
    /\ fixed' = Shots(FanShots(proven'))
    /\ phase' = "places"
    /\ UNCHANGED <<ride, places, opening, leg, targets, chosen, footage>>

PicturePlaces ==
    /\ phase = "places"
    /\ LET stops == UNION {PictureOf(s) : s \in ride.stops}
           beds == UNION ({LodgingAt(at, FALSE, fixed \cup stops) : at \in Ats("departure")}
                          \cup {LodgingAt(at, TRUE, fixed \cup stops) : at \in Ats("arrival")})
       IN  places' = stops \cup beds
    /\ phase' = "opening"
    /\ UNCHANGED <<ride, proven, fixed, opening, leg, targets, chosen, footage>>

PickOpening ==
    /\ phase = "opening"
    /\ opening' = Opening
    /\ phase' = "share"
    /\ UNCHANGED <<ride, proven, fixed, places, leg, targets, chosen, footage>>

\* A variant of ShareOut: the legs share the target, what is pinned taken from it.
ShareOutAgain ==
    /\ phase = "share"
    /\ LET told == {n \in Legs : \E w \in WithinRide : InLeg(w, n)}
       IN  targets' = [n \in told |-> 0 - Total(Lengths, {w \in Required \cap WithinRide : InLeg(w, n)})]
    /\ phase' = "legs"
    /\ UNCHANGED <<ride, proven, fixed, places, opening, leg, chosen, footage>>

\* select_by_chapter, before its legs
ShareOut ==
    /\ phase = "share"
    /\ LET held == [n \in Legs |-> {w \in WithinRide : InLeg(w, n)}]
           told == {n \in Legs : held[n] # {}}
           weight == [n \in Legs |-> Cardinality(held[n])]
           capacity == [n \in Legs |-> IF ride.legs[n].halt THEN HoldFor(3) ELSE Total(Lengths, held[n])]
           allowance == More(Target - Total(Lengths, Required \cap WithinRide), HoldFor(3) * Len(ride.legs))
       IN  targets' = IF told = {} THEN <<>> ELSE Shares(told, weight, capacity, allowance)
    /\ phase' = "legs"
    /\ UNCHANGED <<ride, proven, fixed, places, opening, leg, chosen, footage>>

EnterLeg ==
    /\ phase = "legs" /\ leg.at < Len(ride.legs)
    /\ LET n == leg.at + 1
           inside == {w \in WithinRide : InLeg(w, n)}
       IN  leg' = IF inside = {} THEN [NoLeg EXCEPT !.at = n]
                  ELSE [at |-> n, pool |-> {w \in inside : ~Refused(w)}, taken |-> {},
                        target |-> targets[n] + Total(Lengths, inside \cap Required)]
    /\ phase' = IF leg'.pool = {} THEN "legs" ELSE "leg"
    /\ UNCHANGED <<ride, proven, fixed, places, opening, targets, chosen, footage>>

Spent(l) == Total(Lengths, l.taken)
Leave(l) == IF l.pool = {} \/ (Spent(l) >= l.target /\ l.pool \cap Required = {}) THEN "done" ELSE "more"
Took(pick, good) == [leg EXCEPT !.pool = @ \ {pick}, !.taken = IF good THEN @ \cup {pick} ELSE @]

TakeRequired ==
    /\ phase = "leg" /\ leg.pool \cap Required # {}
    /\ LET pick == First(leg.pool \cap Required, Earliest)
       IN  leg' = Took(pick, \A t \in leg.taken \cup Elsewhere(leg.at) : Gap(pick, t, Lengths) > 0)
    /\ IF Leave(leg') = "done" THEN phase' = "legs" /\ chosen' = chosen \cup leg'.taken
       ELSE UNCHANGED <<phase, chosen>>
    /\ UNCHANGED <<ride, proven, fixed, places, opening, targets, footage>>

TakeBest ==
    /\ phase = "leg" /\ leg.pool \cap Required = {}
    /\ LET pick == Pick(leg.pool, leg.taken)
           good == /\ \A t \in leg.taken \cup Elsewhere(leg.at) : Gap(pick, t, Lengths) >= Separation
                   /\ W(pick).halt = 0 \/ \A t \in leg.taken : W(t).halt # W(pick).halt
                   /\ ~LooksAlike(pick, leg.taken)
       IN  leg' = Took(pick, good)
    /\ IF Leave(leg') = "done" THEN phase' = "legs" /\ chosen' = chosen \cup leg'.taken
       ELSE UNCHANGED <<phase, chosen>>
    /\ UNCHANGED <<ride, proven, fixed, places, opening, targets, footage>>
-----------------------------------------------------------------------------
\* The footage.

\* chapter_openers: the first window of each leg
Openers == {First({w \in chosen : InLeg(w, n)}, Earliest) : n \in {k \in Legs : \E w \in chosen : InLeg(w, k)}}

\* The best fifth are held long, the ranked rest medium, the others short.
Tier ==
    LET Standing5(w) == <<IF W(w).rank = 0 THEN 10000 ELSE W(w).rank, 0 - Score(w), W(w).start, w>>
        order == InOrder(chosen, Standing5)
        long  == More(1, (Len(order) + 4) \div 5)
        at    == [w \in chosen |-> CHOOSE i \in DOMAIN order : order[i] = w]
    IN  [w \in chosen |-> IF at[w] <= long THEN 1 ELSE IF W(w).rank # 0 THEN 2 ELSE 3]

\* Three equal holds in a row: the middle one is changed, from first to last.
Varied(holds, other) ==
    LET vary[i \in 0..Len(holds)] ==
            IF i = 0 THEN 0
            ELSE IF i > 1 /\ i < Len(holds) /\ vary[i - 1] = holds[i] /\ holds[i] = holds[i + 1]
            THEN other[i] ELSE holds[i]
    IN  [i \in DOMAIN holds |-> vary[i]]

\* hold_all_from_motion: where in its range a window is held follows its motion.
MotionHolds(order, tier) ==
    LET motions == {W(order[i]).motion : i \in DOMAIN order}
        least == CHOOSE m \in motions : \A o \in motions : m <= o
        span  == (CHOOSE m \in motions : \A o \in motions : m >= o) - least
        Low(w) == HoldRange(tier[w])[1]  Top(w) == HoldRange(tier[w])[2]
        Placed(w) == IF span = 0 THEN (Low(w) + Top(w)) \div 2
                     ELSE Low(w) + (((W(w).motion - least) * (Top(w) - Low(w))) \div span)
        Other(w) == IF 2 * Placed(w) <= Low(w) + Top(w) THEN Top(w) ELSE Low(w)
    IN  Varied([i \in DOMAIN order |-> Placed(order[i])], [i \in DOMAIN order |-> Other(order[i])])

\* _raised_toward_target
Raised(order, tier, holds) ==
    LET short == Target - Total(holds, DOMAIN holds)
        free  == [i \in DOMAIN holds |-> More(0, Less(W(order[i]).length, HoldRange(tier[order[i]])[2]) - holds[i])]
        room  == Total(free, DOMAIN holds)
    IN  IF short <= 0 \/ room = 0 THEN holds
        ELSE [i \in DOMAIN holds |-> holds[i] + ((Less(short, room) * free[i]) \div room)]

\* footage_for, before cuts that overlap are shortened
Cuts ==
    LET order == InOrder(chosen, Earliest)
        tier  == Tier
        Fit(holds) == [i \in DOMAIN order |-> Less(W(order[i]).length, holds[i])]
        paced == Fit([i \in DOMAIN order |-> HoldFor(tier[order[i]])])
        held  == IF ride.looks THEN Raised(order, tier, Fit(MotionHolds(order, tier)))
                 ELSE Varied(paced, [i \in DOMAIN order |-> IF paced[i] # HoldFor(2) THEN HoldFor(2) ELSE HoldFor(1)])
        Hold(i) == LET w == order[i] IN
            IF w \in Pinned THEN Less(W(w).length, FixedHold)
            ELSE IF w \in Openers THEN More(held[i], Less(W(w).length, OpenerHold)) ELSE held[i]
        Offset(i) == LET w == order[i] IN
            IF ride.looks /\ w \notin Pinned /\ W(w).busier = "second" THEN W(w).length - Hold(i) ELSE 0
    IN  [i \in DOMAIN order |-> [window |-> order[i], from |-> W(order[i]).start + Offset(i),
                                  to |-> W(order[i]).start + Offset(i) + Hold(i)]]

\* _without_overlaps: a cut ends where the next begins; a flicker is dropped.
WithoutOverlaps(cuts) ==
    LET order == InOrder({cuts[i] : i \in DOMAIN cuts}, LAMBDA c : <<c.from, W(c.window).start>>)
        Next1(i) == IF i < Len(order) THEN order[i + 1].from ELSE order[i].to
        shortened == [i \in DOMAIN order |-> [order[i] EXCEPT !.to = Less(@, Next1(i))]]
        kept == InOrder({i \in DOMAIN order : shortened[i] = order[i] \/ shortened[i].to - shortened[i].from >= MinCut},
                        LAMBDA i : <<i>>)
    IN  [k \in DOMAIN kept |-> shortened[kept[k]]]

HoldFootage ==
    /\ phase = "legs" /\ leg.at = Len(ride.legs)
    /\ IF chosen = {} THEN phase' = "nothing" /\ UNCHANGED footage
       ELSE phase' = "footage" /\ footage' = WithoutOverlaps(Cuts)
    /\ UNCHANGED <<ride, proven, fixed, places, opening, leg, targets, chosen>>

ChoiceNext == ProveMoments \/ PicturePlaces \/ PickOpening \/ ShareOut \/ EnterLeg
              \/ TakeRequired \/ TakeBest \/ HoldFootage

ChoiceSpec == ChoiceInit /\ [][ChoiceNext]_choiceVars

-----------------------------------------------------------------------------

Selected == phase \in {"footage", "nothing"}

\* No window that is a residence, or was never judged, comes into the film, and
\* none that the floors, the rider or a standing bike rule out but for a moment,
\* a place or the opening that needs it, whichever stage named it.
ShownIsAllowed ==
    \A w \in chosen :
        /\ W(w).judged /\ ~Residence(w)
        /\ FloorReason(w) = "none" \/ w \in Pinned
        /\ Standing(w) => w \in Pinned
        /\ w \in WithinRide

\* Two windows of the film, of one leg or of two, never share a second, and only
\* two that the film must carry stand closer than the separation.
KeptApart ==
    \A v, w \in chosen \cup leg.taken :
        v # w => LET gap == Gap(v, w, Lengths)
                 IN gap > 0 /\ (gap >= Separation \/ {v, w} \subseteq Required)

\* The leg's windows are chosen best first, yet no leg is left untold that has a
\* window fit to be shown away from every window shown or kept for another leg.
EveryLegIsTold ==
    Selected => \A n \in Legs : \A w \in {x \in WithinRide : InLeg(x, n)} :
        \/ Refused(w) \/ \E t \in chosen : InLeg(t, n)
        \/ \E t \in (chosen \cup Required) \ {w} : Gap(w, t, Lengths) < Separation

\* Every cut lies inside its window, none runs into the next, none is a flicker,
\* and no window chosen is without its cut unless the next cut pushed it out.
FootageIsClean ==
    phase = "footage" =>
        /\ \A i \in DOMAIN footage : LET c == footage[i] IN
              /\ W(c.window).start <= c.from /\ c.to <= Ends(c.window)
              /\ c.to - c.from >= MinCut
              /\ i < Len(footage) => c.to <= footage[i + 1].from
        /\ \A w \in chosen : \/ \E i \in DOMAIN footage : footage[i].window = w
                             \/ \E v \in chosen \ {w} : Ends(w) > W(v).start /\ Ends(v) > W(w).start

\* What the film chooses may be shown, is kept apart, and is cut cleanly,
\* whichever of the stages named it: private_journey_film.plan_film's selection
\* as a whole.
ChoiceIsSound == ShownIsAllowed /\ KeptApart /\ FootageIsClean

=============================================================================
