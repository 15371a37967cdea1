----------------------------- MODULE MCJourney -----------------------------
(* From a day's track to its film, for TLC: a track is cut into legs and   *)
(* lines, or the film of a judged ride is chosen and planned.  In a        *)
(* behaviour one of the two is at work while the other rests.              *)
EXTENDS FilmPlan, RideLegs

VARIABLE atWork

-----------------------------------------------------------------------------
\* Rides of four windows on two legs, around a departure, a stop and an arrival,
\* and rides without a judgement whose confirmed clips touch, overlap or are apart.

At(s) == s * Second
Plain == [judged |-> TRUE, sure |-> TRUE, score |-> 60, rider |-> "none", still |-> "no", event |-> "none",
          place |-> "none", indoors |-> FALSE, photo |-> 30, subject |-> "none", family |-> "rural",
          rank |-> 0, halt |-> 0, look |-> 50, turn |-> FALSE, motion |-> 1, busier |-> "first"]
Opens(start, view) == [start |-> start, length |-> WindowLength] @@ view

Views == { Plain,
           [Plain EXCEPT !.judged = FALSE],
           [Plain EXCEPT !.rider = "large", !.event = "setting_off"],
           [Plain EXCEPT !.score = 20],
           [Plain EXCEPT !.place = "residential", !.still = "yes"],
           [Plain EXCEPT !.photo = 90, !.subject = "vista", !.still = "yes"],
           [Plain EXCEPT !.photo = 80, !.subject = "water", !.rank = 1, !.busier = "second", !.motion = 3, !.score = 80] }
QuietViews == {Plain, [Plain EXCEPT !.judged = FALSE], [Plain EXCEPT !.place = "residential", !.still = "yes"],
           [Plain EXCEPT !.photo = 80, !.subject = "vista", !.rank = 3]}
Near == { [Plain EXCEPT !.place = "fuel", !.still = "yes", !.halt = 1],
          [Plain EXCEPT !.halt = 1, !.rank = 6, !.turn = TRUE, !.motion = 2, !.look = 55],
          [Plain EXCEPT !.place = "lodging", !.rider = "small", !.look = 80],
          [Plain EXCEPT !.photo = 70, !.rank = 2, !.motion = 4] }

Legs2(halt) == <<[from |-> At(0), to |-> At(400), halt |-> FALSE], [from |-> At(400), to |-> At(801), halt |-> halt]>>
Stops(m) == IF m = "stop" THEN {[from |-> At(370), to |-> At(400), noon |-> FALSE]} ELSE {}
MomentsOf(m) == IF m = "stop" THEN <<[kind |-> "halt_departure", at |-> At(400)]>>
              ELSE <<[kind |-> "departure", at |-> At(20)], [kind |-> "arrival", at |-> At(790)]>>
Said(kind, at, text, order) == [kind |-> kind, at |-> At(at), text |-> text, order |-> order]
Events(m) == IF m = "stop"
             THEN {Said("halt_place", 370, "fuel", 1), Said("road", 380, "A", 2), Said("scenic_out", 380, "A", 3)}
             ELSE {Said("departure", 20, "home", 1), Said("road", 402, "A", 2), Said("road", 530, "A", 3),
                   Said("town", 100, "B", 4)}
Base == [stops |-> {}, moments |-> <<>>, movesOff |-> {At(20)}, rests |-> {At(780)}, confirmed |-> {},
         from |-> At(0), to |-> At(800), points |-> {}, events |-> {}, looks |-> FALSE, record |-> TRUE]

Judged ==
    {[windows |-> <<Opens(At(17), v), Opens(b, w), Opens(c, x), Opens(d, y)>>,
      legs |-> Legs2(m = "stop"), moments |-> MomentsOf(m), stops |-> Stops(m), events |-> Events(m),
      recordings |-> {[from |-> At(10), to |-> At(800)]}, looks |-> l /\ v = Plain] @@ Base :
        b \in {At(391), At(397), 789}, c \in {At(398), At(404), At(520)}, d \in {At(560), At(781)},
        v \in QuietViews, w \in Near, x \in Views, y \in {Plain, [Plain EXCEPT !.place = "lodging"]},
        m \in {"stop", "day"}, l \in BOOLEAN}
Clips == {Opens(At(s), Plain) : s \in {0, 60, 71, 84, 200, 795}}
Confirmed ==
    {[windows |-> <<a, b, c>>, legs |-> <<>>, record |-> FALSE, confirmed |-> s, points |-> p, recordings |-> {}] @@ Base :
        a \in Clips, b \in Clips, c \in Clips, s \in {{}, {1}, {1, 2}, {1, 2, 3}},
        p \in {{At(50 * n) : n \in 0..16}, {At(n) : n \in {0, 100, 150, 400}}, {At(0), At(60), At(800)}}}
MCRides == Judged \cup Confirmed

-----------------------------------------------------------------------------
\* Days made of stages: a road, a climb, a stop, a silence of the receiver, a
\* highway, a scenic route, a quay, a crossing, a town, a bend.

\* n points, step seconds and far metres each, climb metres each, speed, turn degrees each.
Stage == [n |-> 4, step |-> 300, far |-> 4500, climb |-> 0, speed |-> 15, turn |-> 0, on |-> {}, near |-> {}, town |-> "none"]
Away == [Stage EXCEPT !.n = 3, !.step = 60, !.far = 900, !.town = "Home"]
Home == [Stage EXCEPT !.n = 3, !.step = 60, !.far = 900, !.town = "End"]
Stay(n, step) == [Stage EXCEPT !.n = n, !.step = step, !.far = 0, !.speed = 0]

RoadStage == [Stage EXCEPT !.step = 600, !.far = 9000]
Climb2  == [Stage EXCEPT !.climb = 104]
Down    == [Stage EXCEPT !.climb = 0 - 91, !.turn = 100, !.far = 6000]
LongStop == Stay(2, 600)
ShortStop2 == [Stay(2, 240) EXCEPT !.near = {"V"}]
Silence == [Stay(1, 2400) EXCEPT !.far = 120]
Highway == [Stage EXCEPT !.on = {"H"}, !.far = 7000, !.speed = 24]
Route   == [Stage EXCEPT !.on = {"S", "R"}, !.climb = 9]
RouteHighway == [Stage EXCEPT !.on = {"S", "H2"}]
Quay    == [Stay(3, 500) EXCEPT !.on = {"F"}]
Sea     == [Stage EXCEPT !.n = 17, !.step = 60, !.far = 640, !.on = {"F"}]
ScenicSea == [Sea EXCEPT !.on = {"F", "S"}]
TownStage == [Stage EXCEPT !.n = 5, !.step = 60, !.far = 300, !.speed = 0 - 1, !.near = {"T", "V"}, !.town = "Town"]
Village == [Stage EXCEPT !.n = 3, !.step = 200, !.near = {"V", "Pass"}, !.town = "Ville"]
\* A town that no reference charts, passed slowly.
Uncharted == [TownStage EXCEPT !.n = 14, !.step = 30, !.far = 200, !.near = {}, !.town = "Port"]
Bend    == [Stage EXCEPT !.n = 5, !.step = 4, !.far = 40, !.turn = 45]

AddStage(p, s) ==
    LET last == p[Len(p)]
        Point(k) == [at |-> last.at + k * s.step, dist |-> last.dist + k * s.far,
                     high |-> IF s.far = 0 THEN NoHeight ELSE Max({0, p[Len(p)].base + k * s.climb}),
                     base |-> Max({0, last.base + k * s.climb}),
                     speed |-> IF s.speed < 0 THEN IF k % 2 = 0 THEN 0 ELSE 9 ELSE s.speed,
                     bearing |-> (last.bearing + k * s.turn) % 360, on |-> s.on,
                     near |-> {[mark |-> m, gap |-> Size(k - 2)] : m \in s.near},
                     town |-> [place |-> s.town, finer |-> s.town, road |-> IF "R" \in s.on THEN "Vineyard" ELSE "none"]]
    IN  p \o [k \in 1..s.n |-> Point(k)]

FirstPoint == [at |-> 0, dist |-> 0, high |-> 12, base |-> 12, speed |-> 0, bearing |-> 0, on |-> {}, near |-> {},
          town |-> [place |-> "Home", finer |-> "Home", road |-> "none"]]
TrackOf(stages) == FoldLeft(AddStage, <<FirstPoint>>, <<Away>> \o stages \o <<Home>>)

Lookout == [kind |-> "lookout", spot |-> "Point", window |-> 60]
StartOf(stages, i) == LET before == TrackOf(SubSeq(stages, 1, i - 1)) IN before[Len(before)].at - 180
OutingOf(stages, named, seen) ==
    LET ships == {i \in DOMAIN stages : "F" \in stages[i].on}
        aboard == IF seen THEN {StartOf(stages, i) + 300 : i \in {k \in ships : stages[k].far > 0}} ELSE {}
    IN  [track |-> TrackOf(stages), named |-> named,
         hints |-> {[at |-> StartOf(stages, i) + 120, coast |-> stages[i].town = "none" /\ stages[i].climb = 9, urban |-> TRUE] : i \in DOMAIN stages},
         witnessed |-> aboard \cup {StartOf(stages, i) + 120 : i \in ships}, aboard |-> aboard,
         routes |-> <<[id |-> "S", name |-> "Scenic"]>>, highways |-> <<[id |-> "H", name |-> "Highway"], [id |-> "H2", name |-> "Other"]>>,
         roads |-> IF named THEN <<>> ELSE <<[id |-> "R", name |-> "Vineyard"]>>, signposted |-> {}, wanted |-> {"Vineyard"},
         ferries |-> <<[id |-> "F", name |-> "Ferry"]>>,
         places |-> IF named THEN <<[name |-> "T", kind |-> "town"], [name |-> "V", kind |-> "village"]>> ELSE <<>>,
         landmarks |-> {"Pass"},
         pictures |-> <<Lookout, [Lookout EXCEPT !.kind = "ferry", !.window = 1500], [Lookout EXCEPT !.kind = "none"],
                       Lookout, [Lookout EXCEPT !.kind = "fuel"], [Lookout EXCEPT !.kind = "residence", !.window = NotSeen], Lookout, Lookout>>]

All == {RoadStage, Climb2, Down, LongStop, ShortStop2, Silence, Highway, Route, RouteHighway, Quay, Sea, ScenicSea, TownStage, Village, Bend}
Few == {RoadStage, LongStop, Route, Quay, Sea}
Shore == {RoadStage, Quay, Sea, Uncharted}
Final == {LongStop, Silence, Route, Quay, Sea, TownStage, Bend}
MCOutings ==
    {OutingOf(<<a, b, c>>, TRUE, TRUE) : a \in All, b \in All, c \in Final}
       \cup {OutingOf(<<Climb2, LongStop, a, LongStop, RoadStage, LongStop, b, LongStop, Sea, Route, LongStop, Highway, LongStop, RoadStage>>, n, TRUE) :
                a \in All, b \in Few, n \in BOOLEAN}
       \cup {OutingOf(<<RoadStage, RoadStage>>, TRUE, TRUE)}
       \cup {OutingOf(<<RoadStage, a, b, c, RoadStage>>, TRUE, TRUE) : a \in Shore, b \in Shore, c \in Shore}
       \cup {OutingOf(<<a, b, c, d>>, n, n) : a \in Few, b \in Few, c \in Few, d \in Few, n \in BOOLEAN}

-----------------------------------------------------------------------------
JourneyRests == ride = (CHOOSE r \in Confirmed : TRUE) /\ PlanInit
OutingRests == outing = OutingOf(<<RoadStage, RoadStage>>, TRUE, TRUE) /\ RideInit

Init == \/ atWork = "track" /\ JourneyRests /\ RideInit
        \/ atWork = "film" /\ OutingRests /\ PlanInit

Next == \/ atWork = "track" /\ RideNext /\ UNCHANGED <<journeyVars, atWork>>
        \/ atWork = "film" /\ PlanNext /\ UNCHANGED <<rideVars, atWork>>

Spec == Init /\ [][Next]_<<journeyVars, rideVars, atWork>>
=============================================================================
