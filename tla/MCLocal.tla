------------------------------ MODULE MCLocal ------------------------------
(* The local pipeline, for TLC: highlights are picked, or their clips cut  *)
(* and reviewed; clips are planned, reinforced and directed; the package   *)
(* is filed; the day's recordings are placed.  Each has a state of its     *)
(* own, and in a behaviour one of them is at work while the others rest.   *)
EXTENDS HighlightPick, HighlightRun, MCLocalStory, LocalPackage, CameraClock, TLC

CONSTANTS a, b, c

VARIABLE atWork

-----------------------------------------------------------------------------
\* Windows a quarter of a minute apart or less, on one ride.
Shape(t, good, rel, bal) ==
    [time |-> t, samples |-> IF good = "dark" THEN 1 ELSE 5, fixes |-> 3,
     moving |-> good # "still", turn |-> good # "event", event |-> good = "event",
     covered |-> good # "unsensed", gyro |-> 5, road |-> IF good = "fields" THEN 1 ELSE 3,
     utility |-> IF good = "utility" THEN 2 ELSE 1, rel |-> rel, bal |-> bal]

SmallFootages ==
    {[i \in 1 .. 4 |-> Shape(t[i], IF i = k THEN bad ELSE "turn", r[i], q[i])] :
        t \in {<<0, 6, 12, 18>>, <<0, 3, 50, 60>>, <<0, 0, 20, 100>>},
        k \in {1, 4}, bad \in {"turn", "dark", "still", "event", "fields", "utility", "unsensed"},
        r \in {<<10, 9, 2, 1>>, <<5, 5, 5, 5>>, <<0, 3, 10, 10>>},
        q \in {<<1, 2, 3, 3>>, <<9, 1, 1, 9>>}}

Pairs == {s \in SUBSET (1 .. 4) : Cardinality(s) = 2}
SmallLooks == [Pairs -> {0, 10}] \cup {[p \in Pairs |-> 5]}

SmallSelections == {<<a, a, b>>, <<a, b, a>>, <<b, a, b>>, <<c, a, a>>, <<a, b, c>>}

\* What the highlights of each version would have a package hold.
MCPlanned == 0 :> <<"start", "end">> @@ 1 :> <<"start", "view", "end">> @@ 2 :> <<"start", "end">>

-----------------------------------------------------------------------------
\* A day: files by themselves; the chapters of a recording, the first or the last missing, begun
\* at another time or unread; all on clocks that are right, out by a step or by
\* something else.
Fix(trusted, by) == [trusted |-> trusted, by |-> by]
Tracks == {<<>>, <<Fix(FALSE, 40), Fix(TRUE, 1), Fix(TRUE, 0), Fix(TRUE, 0)>>,
           <<Fix(FALSE, -30), Fix(FALSE, -30), Fix(TRUE, 0)>>, <<Fix(TRUE, 1), Fix(TRUE, 0)>>}
\* A file of a recording that began so long before it.
Chapter(since, at0, length, off, recording, chapter, probed, fixes) ==
    [at |-> at0, began |-> at0 - since, length |-> length, off |-> off, recording |-> recording,
     chapter |-> chapter, probed |-> probed, fixes |-> fixes]
File(at0, length, off, recording, chapter, probed, fixes) ==
    Chapter(0, at0, length, off, recording, chapter, probed, fixes)
Offs == {-12, -6, 0, 6, 1}
MCSteps == {-18, -12, -6, 0, 6, 12, 18}
MCDays ==
    UNION {{{File(s, 4, off, 1, 0, TRUE, track), File(t, 3, off2, 2, 0, readable, track)} :
                s \in {10, 13, 8}, t \in {20, 27, 40}, off2 \in {off, off + 2, off + 7},
                readable \in BOOLEAN, track \in Tracks} : off \in Offs}
    \cup UNION {{{File(s, 5, off, 1, 1, TRUE, track), Chapter(5, s + 5, 4, off2, 1, 2, readable, track),
                  Chapter(9, s + 9, 3, off, 1, third, TRUE, track), File(t, 3, off, 2, 0, TRUE, track)} :
                s \in {10, 12}, t \in {24, 27}, off2 \in {off, off + 5},
                readable \in BOOLEAN, third \in {3, 4}, track \in Tracks} : off \in Offs}
    \cup UNION {{{Chapter(5, s + 5, 4, off2, 1, 2, readable, track), Chapter(9, s + 9, 3, off, 1, 3, TRUE, track),
                  File(t, 3, off, 2, 0, TRUE, track)} :
                s \in {3, 10}, t \in {24, 27}, off2 \in {off, off + 5},
                readable \in BOOLEAN, track \in Tracks} : off \in Offs}

-----------------------------------------------------------------------------
localVars == <<pickVars, runVars, storyVars, packageVars, clockVars>>

\* One input of each that rests.
PickRests == way = "ranked" /\ film = (CHOOSE f \in Footages : TRUE)
                /\ look = (CHOOSE l \in Looks : TRUE) /\ PickInit
RunRests == chosen = <<a, b, c>> /\ RunInit
StoryRests == /\ route = (CHOOSE r \in Routes : TRUE) /\ catalog = (CHOOSE x \in Catalogs : TRUE)
              /\ offered = {} /\ StoryInit
ClockRests == day = (CHOOSE d \in Days : TRUE) /\ ClockInit

Init == \/ atWork = "pick" /\ RunRests /\ StoryRests /\ PackageInit /\ ClockRests /\ PickInit
        \/ atWork = "run" /\ PickRests /\ StoryRests /\ PackageInit /\ ClockRests /\ RunInit
        \/ atWork = "story" /\ PickRests /\ RunRests /\ PackageInit /\ ClockRests /\ StoryInit
        \/ atWork = "package" /\ PickRests /\ RunRests /\ StoryRests /\ ClockRests /\ PackageInit
        \/ atWork = "clock" /\ PickRests /\ RunRests /\ StoryRests /\ PackageInit /\ ClockInit

Next == \/ /\ atWork = "pick" /\ PickStep
           /\ UNCHANGED <<runVars, storyVars, packageVars, clockVars, atWork>>
        \/ /\ atWork = "run" /\ RunNext
           /\ UNCHANGED <<pickVars, storyVars, packageVars, clockVars, atWork>>
        \/ /\ atWork = "story" /\ StoryNext
           /\ UNCHANGED <<pickVars, runVars, packageVars, clockVars, atWork>>
        \/ /\ atWork = "package" /\ PackageNext
           /\ UNCHANGED <<pickVars, runVars, storyVars, clockVars, atWork>>
        \/ /\ atWork = "clock" /\ ClockNext
           /\ UNCHANGED <<pickVars, runVars, storyVars, packageVars, atWork>>

Spec == Init /\ [][Next]_<<localVars, atWork>>
=============================================================================
