---------------------------- MODULE MCWorkshop -----------------------------
(* What a ride goes through besides the judgement and the choice of its    *)
(* film, for TLC: a plan is made of it, an order bought of its windows, a  *)
(* film cut, a parcel made to share, its caches filled, its pages served.  *)
(* Each has a state of its own, and in a behaviour one of them is at work  *)
(* while the others rest.                                                  *)
EXTENDS JudgementPlan, WindowOrder, FilmCut, MCSharing, MCCaches, WebService,
        DemoVideo, TLC

VARIABLE atWork

-----------------------------------------------------------------------------
\* Two or three short recordings on a ride of half a minute: one begins
\* before it, one runs past its end, two overlap, one misses it.
Layouts ==
    {<<[start |-> -3, duration |-> 16], [start |-> 18, duration |-> 14]>>,
     <<[start |-> 0, duration |-> 11], [start |-> 6, duration |-> 17]>>,
     <<[start |-> 2, duration |-> 3], [start |-> 4, duration |-> 9],
       [start |-> 20, duration |-> 30]>>,
     <<[start |-> -9, duration |-> 8]>>}

AtMostTwo(S) == {<<>>} \cup {<<a>> : a \in S} \cup
                {<<p[1], p[2]>> : p \in {q \in S \X S : q[1] # q[2]}}

\* Turns and moments stand at the edges, where windows are slid.
SmallRides ==
    [end : {28}, recordings : Layouts, turns : AtMostTwo({1, 11, 24, 27}),
     moments : AtMostTwo({0, 4, 12, 28}), stride : {3, 5}]

\* An earlier plan whose card is animated in more frames than a later one's.
TwoThenOne == <<2, 1>>

\* Neither the cuts nor the runs over the caches tell their processes apart.
Alike == Permutations(Cutter) \cup Permutations(Processes)

-----------------------------------------------------------------------------
\* Judgements of three windows: fit to be shown, naming the package, unfit.
Sayings == {[w1 |-> "road", w2 |-> "road", w3 |-> "road"],
            [w1 |-> "road", w2 |-> "name", w3 |-> "road"],
            [w1 |-> "plate", w2 |-> "road", w3 |-> "nothing"]}
OnePackage(says, length, audio, page) ==
    [film |-> [usable |-> TRUE, length |-> length, audio |-> audio], says |-> says,
     copies |-> {"w1", "w2", "w3"}, english |-> TRUE, cards |-> 2, console |-> page]
Console(judged) == [planned |-> TRUE, count |-> 4, cost |-> 9, size |-> 90, judged |-> judged, beats |-> judged, lasts |-> 330]
MCPackages ==
    {OnePackage(says, 330, TRUE, Console(3)) : says \in Sayings}
    \cup {OnePackage([w1 |-> "road", w2 |-> "road", w3 |-> "road"], length, TRUE, Console(judged)) :
            length \in {80, 230}, judged \in {0, 3}}
Figure(of, cost, size, beats) ==
    [windows |-> of, cost |-> cost, size |-> size, beats |-> beats, lasts |-> 331]
MCHanded ==
    {[mosaic |-> <<"w1", "w3">>, single |-> "w1", judged |-> judged, figures |-> figures] :
       judged \in {<<"w3", "w2">>},
       figures \in {Figure(4, 9, 90, 4), Figure(3, 7, 68, 3), Figure(4, 10, 71, 3)}}

-----------------------------------------------------------------------------
workshopVars == <<planVars, orderVars, cutVars, shareVars, cacheVars, webVars, demoVars>>

PlanRests ==
    /\ ride = [end |-> 0, recordings |-> <<>>, turns |-> <<>>, moments |-> <<>>, stride |-> 1]
    /\ budget = 0 /\ windows = {} /\ stages = <<>> /\ tightened = FALSE /\ step = "resting"
OrderRests ==
    /\ kind = "ranking" /\ score = <<>> /\ entrants = <<>> /\ orders = <<>> /\ rounds = <<>>
    /\ tries = 0 /\ answers = {} /\ placed = <<>>
    /\ bill = [asked |-> 0, sent |-> 0, unanswered |-> 0] /\ ordering = "resting"
WebRests == deployment = [demo |-> TRUE, credentials |-> TRUE] /\ ready = {} /\ WebInit
DemoRests == found = (CHOOSE p \in Packages : TRUE) /\ DemoInit
FilesRest == CutInit /\ ShareInit /\ CachesInit

Init == \/ atWork = "plan" /\ OrderRests /\ FilesRest /\ WebRests /\ DemoRests /\ PlanInit
        \/ atWork = "order" /\ PlanRests /\ FilesRest /\ WebRests /\ DemoRests /\ OrderInit
        \/ /\ atWork \in {"film", "parcel", "caches"}
           /\ PlanRests /\ OrderRests /\ FilesRest /\ WebRests /\ DemoRests
        \/ atWork = "web" /\ PlanRests /\ OrderRests /\ FilesRest /\ DemoRests /\ WebInit
        \/ atWork = "demo" /\ PlanRests /\ OrderRests /\ FilesRest /\ WebRests /\ DemoInit

Next ==
    \/ /\ atWork = "plan" /\ PlanNext
       /\ UNCHANGED <<orderVars, cutVars, shareVars, cacheVars, webVars, demoVars, atWork>>
    \/ /\ atWork = "order" /\ OrderNext
       /\ UNCHANGED <<planVars, cutVars, shareVars, cacheVars, webVars, demoVars, atWork>>
    \/ /\ atWork = "film" /\ CutNext
       /\ UNCHANGED <<planVars, orderVars, shareVars, cacheVars, webVars, demoVars, atWork>>
    \/ /\ atWork = "parcel" /\ ShareNext
       /\ UNCHANGED <<planVars, orderVars, cutVars, cacheVars, webVars, demoVars, atWork>>
    \/ /\ atWork = "caches" /\ CachesNext
       /\ UNCHANGED <<planVars, orderVars, cutVars, shareVars, webVars, demoVars, atWork>>
    \/ /\ atWork = "web" /\ WebNext
       /\ UNCHANGED <<planVars, orderVars, cutVars, shareVars, cacheVars, demoVars, atWork>>
    \/ /\ atWork = "demo" /\ DemoNext
       /\ UNCHANGED <<planVars, orderVars, cutVars, shareVars, cacheVars, webVars, atWork>>

Spec == Init /\ [][Next]_<<workshopVars, atWork>>
=============================================================================
