------------------------------- MODULE Purchase -------------------------------
(***************************************************************************)
(* What buying a ride's judgement promises whoever pays for it, whatever   *)
(* files and threads it takes (the docstring of run_analysis): every       *)
(* answer is paid for once; what was paid for and kept stays kept; a       *)
(* finished judgement is whole.  A window is paid for again only when      *)
(* there is an excuse: an answer that a failure lost, or a request to buy  *)
(* it again.  AnalysisRun implements it while one process judges and the   *)
(* plan stays the same.                                                    *)
(***************************************************************************)
EXTENDS Naturals

CONSTANTS
    Window,     \* the windows a judgement may be bought of
    Wanted      \* the sets of windows a finished judgement may be of

VARIABLES
    held,       \* the windows whose judgement is kept
    finished,   \* the windows the finished judgement is of: none, or all wanted
    spent,      \* purchases of each window
    excused     \* purchases of each window that there is an excuse to repeat

\* Charge the account of each window of S once more.
Once(account, S) ==
    [w \in Window |-> IF w \in S THEN account[w] + 1 ELSE account[w]]

Begin ==
    /\ finished \in {{}} \cup Wanted
    /\ held = finished
    /\ spent = [w \in Window |-> IF w \in finished THEN 1 ELSE 0]
    /\ excused = [w \in Window |-> 0]

\* Nothing is paid for beyond the first time and the excuses there are.
Pay(w) ==
    /\ spent[w] <= excused[w]
    /\ spent' = Once(spent, {w})
    /\ UNCHANGED <<held, finished, excused>>

\* Purchases are lost, some as they are made, or are asked for again: never
\* those of a window that was not paid for.
Excuse ==
    \E made, lost \in SUBSET Window :
        /\ made \subseteq lost
        /\ \A w \in lost \ made : spent[w] > 0
        /\ spent' = Once(spent, made)
        /\ excused' = Once(excused, lost)
        /\ UNCHANGED <<held, finished>>

\* Judgements that were paid for are kept; none goes.
Keep ==
    \E S \in SUBSET Window :
        /\ \A w \in S : spent[w] > 0
        /\ held' = held \cup S
        /\ UNCHANGED <<finished, spent, excused>>

\* The judgement is finished when all of it is kept.
Finish ==
    \E W \in Wanted :
        /\ \A w \in W : spent[w] > 0
        /\ finished' = W
        /\ held' = held \cup W
        /\ UNCHANGED <<spent, excused>>

Step == (\E w \in Window : Pay(w)) \/ Excuse \/ Keep \/ Finish

Promise == Begin /\ [][Step]_<<held, finished, spent, excused>>
=============================================================================
