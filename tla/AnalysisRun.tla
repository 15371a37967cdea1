---------------------------- MODULE AnalysisRun ----------------------------
(***************************************************************************)
(* Buying a ride's judgement (app/analysis_run.py, with the record file of *)
(* app/analysis_record.py, the judge command of app/analysis_cli.py and    *)
(* the retry of app/video/vertex_transport.py).                            *)
(*                                                                         *)
(* A process that judges reads what earlier attempts left on disk, hands   *)
(* every window it does not hold to a thread pool, and writes the running  *)
(* total after every answer.  Each answer costs money.  Processes may      *)
(* crash, model calls may fail with or without having been billed, and a   *)
(* file write may fail; what is on disk survives.                          *)
(*                                                                         *)
(* A judgement of a window is the serial number of the purchase that       *)
(* produced it, 0 standing for "none": two files that hold the same number *)
(* hold the same judgement.  Number 1 is kept for a judgement an older     *)
(* version of the program bought, which lacks the photogenic score.        *)
(***************************************************************************)
EXTENDS Integers, FiniteSets

CONSTANTS
    Process,        \* processes that may judge this package: console, CLI
    Window,         \* candidate windows, numbered in ride order
    Plans,          \* the plans a caller may come with: [candidates, keep]
    Concurrency,    \* max_workers of the pool
    MaxAttempts,    \* TRANSIENT_ATTEMPTS of the transport
    Inherited,      \* whether an older program's record may lie in the package
    MaxStarts,      \* bound on the runs started
    MaxFaults       \* bound on the crashes and failures injected

ASSUME WindowAssumption == Window \subseteq Nat /\ IsFiniteSet(Window)
ASSUME PlanAssumption ==
    Plans \subseteq [candidates : (SUBSET Window) \ {{}}, keep : Nat \ {0}]
ASSUME BoundAssumption ==
    /\ Concurrency \in Nat \ {0}
    /\ MaxAttempts \in Nat \ {0}
    /\ Inherited \in BOOLEAN
    /\ MaxStarts \in Nat
    /\ MaxFaults \in Nat

VARIABLES
    record,     \* gemini-video-analysis.json: the judgement held of each window
    partial,    \* gemini-video-analysis.partial.json
    pc,         \* where each process has got to
    judging,    \* the windows its plan pays for
    refresh,    \* the windows it was asked to buy again
    results,    \* its results dictionary
    future,     \* the pool's future of each window
    tries,      \* requests already made for each window
    answer,     \* the judgement this run bought of each window
    snapshot,   \* what each future that holds the lock is about to write
    bought,     \* purchases billed for each window, ever
    lost,       \* billed purchases whose answer never reached a file
    refreshes,  \* times a run was asked to buy a window again
    starts,     \* runs started, bounded by MaxStarts
    faults      \* faults injected, bounded by MaxFaults

disk   == <<record, partial>>
pool   == <<future, tries, answer, snapshot>>
asked  == <<judging, refresh>>
ledger == <<bought, lost, refreshes>>
vars   == <<disk, pc, results, pool, asked, ledger, starts, faults>>

None == [w \in Window |-> 0]
Old  == 1

(***************************************************************************)
(* The plan.                                                               *)
(***************************************************************************)

\* How many candidates come before w on the ride.
Rank(w, C) == Cardinality({v \in C : v < w})

\* watched_candidates: all of them when the plan pays for all, otherwise
\* keep of them at the places index * len / keep, rounded down.
Watched(plan) ==
    LET C == plan.candidates
        n == Cardinality(C)
    IN  IF plan.keep >= n THEN C
        ELSE {w \in C : \E i \in 0 .. plan.keep - 1 :
                            Rank(w, C) = (i * n) \div plan.keep}

(***************************************************************************)
(* The files and the pool.                                                 *)
(***************************************************************************)

Held(file)   == {w \in Window : file[w] # 0}
Exists(file) == Held(file) # {}
OnDisk(w)    == record[w] # 0 \/ partial[w] # 0

\* A variant of Only: the windows outside S are left out of the file.
OnlyUnfilled(file, S) == [w \in S |-> file[w]]

\* The judgements of file on the windows of S.
Only(file, S) == [w \in Window |-> IF w \in S THEN file[w] ELSE 0]

Running     == {"copying", "asking", "answered", "writing"}
FutureState == Running \cup
               {"none", "queued", "carried", "kept", "failed", "cancelled"}

In(p, states) == {w \in Window : future[p][w] \in states}
Faulted(p)    == In(p, {"failed"}) # {}

\* Answers this run paid for that no file holds.
Unwritten(p) == {w \in Window : /\ answer[p][w] # 0
                                /\ answer[p][w] \notin {record[w], partial[w]}}

\* Charge one more purchase to each window of S.
Charged(account, S) ==
    [w \in Window |-> IF w \in S THEN account[w] + 1 ELSE account[w]]

-----------------------------------------------------------------------------

\* The package holds no judgement yet, or an older program's whole record.
Init ==
    /\ record \in {None} \cup
                  {[w \in Window |-> IF w \in Watched(plan) THEN Old ELSE 0] :
                       plan \in IF Inherited THEN Plans ELSE {}}
    /\ partial = None
    /\ pc = [p \in Process |-> "idle"]
    /\ judging = [p \in Process |-> {}]
    /\ refresh = [p \in Process |-> {}]
    /\ results = [p \in Process |-> None]
    /\ future = [p \in Process |-> [w \in Window |-> "none"]]
    /\ tries = [p \in Process |-> None]
    /\ answer = [p \in Process |-> None]
    /\ snapshot = [p \in Process |-> [w \in Window |-> {}]]
    /\ bought = record
    /\ lost = None
    /\ refreshes = None
    /\ starts = 0
    /\ faults = 0

Fault == /\ faults < MaxFaults
         /\ faults' = faults + 1

\* Move the future of w on.
Becomes(p, w, state) == future' = [future EXCEPT ![p][w] = state]

\* Everything a process holds in memory is gone.
Forget(p) ==
    /\ pc' = [pc EXCEPT ![p] = "idle"]
    /\ judging' = [judging EXCEPT ![p] = {}]
    /\ refresh' = [refresh EXCEPT ![p] = {}]
    /\ results' = [results EXCEPT ![p] = None]
    /\ future' = [future EXCEPT ![p] = [w \in Window |-> "none"]]
    /\ tries' = [tries EXCEPT ![p] = None]
    /\ answer' = [answer EXCEPT ![p] = None]
    /\ snapshot' = [snapshot EXCEPT ![p] = [w \in Window |-> {}]]

(***************************************************************************)
(* Starting: refused when the package is judged and overwrite was not      *)
(* asked for (the refusal changes nothing); otherwise the partial record   *)
(* is read.  again is what --refresh-top chose: windows of the finished    *)
(* record that lack the photogenic score.                                  *)
(***************************************************************************)
MayRefresh(plan, overwrite) ==
    IF overwrite THEN {w \in plan.candidates : record[w] = Old} ELSE {}

StartRun(p) ==
    /\ pc[p] = "idle"
    /\ starts < MaxStarts
    /\ \E plan \in Plans, overwrite \in BOOLEAN :
         /\ ~Exists(record) \/ overwrite
         /\ judging' = [judging EXCEPT ![p] = Watched(plan)]
         /\ \E again \in SUBSET MayRefresh(plan, overwrite) :
              /\ refresh' = [refresh EXCEPT ![p] = again]
              /\ refreshes' = Charged(refreshes, again)
         /\ results' = [results EXCEPT ![p] = Only(partial, Watched(plan))]
    /\ pc' = [pc EXCEPT ![p] = "carry"]
    /\ starts' = starts + 1
    /\ UNCHANGED <<disk, pool, bought, lost, faults>>

\* Variants of CarriedOver: the finished record is not read; or it wins.
CarriedFromPartial(p) == results[p]
CarriedRecordFirst(p) ==
    [w \in Window |->
        IF record[w] # 0 /\ w \in judging[p] \ refresh[p]
        THEN record[w] ELSE results[p][w]]

\* What the finished record holds is carried too, unless it is to be bought
\* again; what the partial record held already wins.
CarriedOver(p) ==
    [w \in Window |->
        IF results[p][w] # 0 \/ w \notin judging[p] \ refresh[p]
        THEN results[p][w] ELSE record[w]]

\* A variant of Submitted: every window is submitted, held or not.
SubmittedAgain(p, held) ==
    [w \in Window |-> IF w \in judging[p] THEN "queued" ELSE "none"]

\* The rest is submitted.
Submitted(p, held) ==
    [w \in Window |-> IF w \notin judging[p] THEN "none"
                      ELSE IF held[w] # 0 THEN "carried" ELSE "queued"]

Carry(p) ==
    /\ pc[p] = "carry"
    /\ results' = [results EXCEPT ![p] = CarriedOver(p)]
    /\ future' = [future EXCEPT ![p] = Submitted(p, CarriedOver(p))]
    /\ pc' = [pc EXCEPT ![p] = "judging"]
    /\ UNCHANGED <<disk, tries, answer, snapshot, asked, ledger, starts, faults>>

(***************************************************************************)
(* One judgement: the pool's threads take the queued windows in ride       *)
(* order; the copy is cut and uploaded, the model asked, the answer kept.  *)
(* One at a time is a plain loop, which the first fault leaves.            *)
(***************************************************************************)
NextQueued(p, w) ==
    /\ future[p][w] = "queued"
    /\ \A v \in In(p, {"queued"}) : w <= v
    /\ Cardinality(In(p, Running)) < Concurrency
    /\ Concurrency = 1 => ~Faulted(p)

Claim(p, w) ==
    /\ pc[p] = "judging"
    /\ NextQueued(p, w)
    /\ Becomes(p, w, "copying")
    /\ UNCHANGED <<disk, pc, results, tries, answer, snapshot, asked, ledger,
                   starts, faults>>

Upload(p, w) ==
    /\ future[p][w] = "copying"
    /\ Becomes(p, w, "asking")
    /\ UNCHANGED <<disk, pc, results, tries, answer, snapshot, asked, ledger,
                   starts, faults>>

\* The recording is gone, ffmpeg fails, or the upload is refused.
CopyOrUploadFails(p, w) ==
    /\ future[p][w] = "copying"
    /\ Fault
    /\ Becomes(p, w, "failed")
    /\ UNCHANGED <<disk, pc, results, tries, answer, snapshot, asked, ledger,
                   starts>>

Answered(p, w) ==
    /\ future[p][w] = "asking"
    /\ bought' = Charged(bought, {w})
    /\ answer' = [answer EXCEPT ![p][w] = bought[w] + 1 + Old]
    /\ Becomes(p, w, "answered")
    /\ UNCHANGED <<disk, pc, results, tries, snapshot, asked, lost, refreshes,
                   starts, faults>>

\* The request may have been billed before its answer was lost.
PerhapsBilled(w) ==
    \/ UNCHANGED <<bought, lost>>
    \/ bought' = Charged(bought, {w}) /\ lost' = Charged(lost, {w})

\* A failure worth asking again about.
AskAgain(p, w) ==
    /\ future[p][w] = "asking"
    /\ tries[p][w] + 1 < MaxAttempts
    /\ Fault
    /\ PerhapsBilled(w)
    /\ tries' = [tries EXCEPT ![p][w] = @ + 1]
    /\ UNCHANGED <<disk, pc, results, future, answer, snapshot, asked,
                   refreshes, starts>>

\* The last attempt failed, the failure was not transient, or the answer
\* was malformed.
AskFails(p, w) ==
    /\ future[p][w] = "asking"
    /\ Fault
    /\ PerhapsBilled(w)
    /\ Becomes(p, w, "failed")
    /\ UNCHANGED <<disk, pc, results, tries, answer, snapshot, asked,
                   refreshes, starts>>

\* A variant of LockFree: a failed write never releases the lock.
LockLeaked(p) == In(p, {"writing"}) = {} /\ ~Faulted(p)

LockFree(p) == In(p, {"writing"}) = {}

\* with lock: the result is noted and the running total composed ...
TakeLock(p, w) ==
    /\ future[p][w] = "answered"
    /\ LockFree(p)
    /\ results' = [results EXCEPT ![p][w] = answer[p][w]]
    /\ snapshot' = [snapshot EXCEPT ![p][w] = Held(results'[p])]
    /\ Becomes(p, w, "writing")
    /\ UNCHANGED <<disk, pc, tries, answer, asked, ledger, starts, faults>>

\* ... written beside its destination, and moved across whole.
Replace(p, w) ==
    /\ future[p][w] = "writing"
    /\ partial' = Only(results[p], snapshot[p][w])
    /\ snapshot' = [snapshot EXCEPT ![p][w] = {}]
    /\ Becomes(p, w, "kept")
    /\ UNCHANGED <<record, pc, results, tries, answer, asked, ledger, starts,
                   faults>>

ReplaceFails(p, w) ==
    /\ future[p][w] = "writing"
    /\ Fault
    /\ snapshot' = [snapshot EXCEPT ![p][w] = {}]
    /\ Becomes(p, w, "failed")
    /\ UNCHANGED <<disk, pc, results, tries, answer, asked, ledger, starts>>

(***************************************************************************)
(* How a run ends.                                                         *)
(***************************************************************************)

\* The main thread wakes on the first fault and cancels what is pending.
CancelPending(p) ==
    /\ pc[p] = "judging"
    /\ Faulted(p)
    /\ In(p, {"queued"}) # {}
    /\ future' = [future EXCEPT ![p] =
            [w \in Window |-> IF future[p][w] = "queued" THEN "cancelled"
                              ELSE future[p][w]]]
    /\ UNCHANGED <<disk, pc, results, tries, answer, snapshot, asked, ledger,
                   starts, faults>>

\* What was in flight has finished; the first fault is raised again.
RunFails(p) ==
    /\ pc[p] = "judging"
    /\ Faulted(p)
    /\ In(p, Running \cup {"queued"}) = {}
    /\ lost' = Charged(lost, Unwritten(p))
    /\ Forget(p)
    /\ UNCHANGED <<disk, bought, refreshes, starts, faults>>

\* A variant of AllJudged: a window that failed is skipped.
AllSettled(p) == judging[p] = In(p, {"kept", "carried", "failed"})

\* The complete record is written only when it is complete.
AllJudged(p) == judging[p] = In(p, {"kept", "carried"})
Analysed(p) == Only(results[p], judging[p])

WriteRecord(p) ==
    /\ pc[p] = "judging"
    /\ AllJudged(p)
    /\ record' = Analysed(p)
    /\ pc' = [pc EXCEPT ![p] = "unlinking"]
    /\ UNCHANGED <<partial, results, pool, asked, ledger, starts, faults>>

WriteRecordFails(p) ==
    /\ pc[p] = "judging"
    /\ AllJudged(p)
    /\ Fault
    /\ lost' = Charged(lost, Unwritten(p))
    /\ Forget(p)
    /\ UNCHANGED <<disk, bought, refreshes, starts>>

Unlink(p) ==
    /\ pc[p] = "unlinking"
    /\ partial' = None
    /\ Forget(p)
    /\ UNCHANGED <<record, ledger, starts, faults>>

\* The process is killed: every request in flight is lost, billed or not.
Crash(p) ==
    /\ pc[p] # "idle"
    /\ Fault
    /\ \E billed \in SUBSET In(p, {"asking"}) :
         /\ bought' = Charged(bought, billed)
         /\ lost' = Charged(lost, billed \cup Unwritten(p))
    /\ Forget(p)
    /\ UNCHANGED <<disk, refreshes, starts>>

-----------------------------------------------------------------------------

\* One window's judgement, whatever becomes of it.
Judge(p, w) ==
    \/ Claim(p, w)
    \/ Upload(p, w)
    \/ CopyOrUploadFails(p, w)
    \/ Answered(p, w)
    \/ AskAgain(p, w)
    \/ AskFails(p, w)
    \/ TakeLock(p, w)
    \/ Replace(p, w)
    \/ ReplaceFails(p, w)

Proceed(p) ==
    \/ Carry(p)
    \/ \E w \in Window : Judge(p, w)
    \/ CancelPending(p)
    \/ RunFails(p)
    \/ WriteRecord(p)
    \/ WriteRecordFails(p)
    \/ Unlink(p)

Next == \E p \in Process : StartRun(p) \/ Proceed(p) \/ Crash(p)

Spec == Init /\ [][Next]_vars

\* A process that is running keeps running: its threads are scheduled, and a
\* request, an upload and a write come back one way or the other.
FairSpec == Spec /\ \A p \in Process : WF_vars(Proceed(p))

-----------------------------------------------------------------------------
(* What judging a ride promises.                                           *)

\* Every variable holds a value of its kind.
TypeOK ==
    /\ record \in [Window -> Nat]
    /\ partial \in [Window -> Nat]
    /\ pc \in [Process -> {"idle", "carry", "judging", "unlinking"}]
    /\ judging \in [Process -> SUBSET Window]
    /\ refresh \in [Process -> SUBSET Window]
    /\ results \in [Process -> [Window -> Nat]]
    /\ future \in [Process -> [Window -> FutureState]]
    /\ tries \in [Process -> [Window -> Nat]]
    /\ answer \in [Process -> [Window -> Nat]]
    /\ snapshot \in [Process -> [Window -> SUBSET Window]]
    /\ bought \in [Window -> Nat]
    /\ lost \in [Window -> Nat]
    /\ refreshes \in [Window -> Nat]
    /\ starts \in Nat
    /\ faults \in Nat

\* A finished record judges exactly the windows of one plan: no failure,
\* crash, carried-over judgement or second process leaves one out
\* (run_analysis: "A candidate that fails is not skipped").
RecordWhole == Exists(record) => \E plan \in Plans : Held(record) = Watched(plan)

\* A judgement that reached the disk is on the disk for good (run_analysis:
\* "must not throw away what was already paid for").  It holds while the plan
\* stays the same and one process judges.
PurchaseKept == [][\A w \in Window : OnDisk(w) => OnDisk(w)']_vars

\* A run asks the model only about windows that neither file held when it read
\* them, or that it was told to buy again (run_analysis: "must buy only those").
BuysOnlyMissing ==
    [][\A p \in Process, w \in Window :
           answer'[p][w] # answer[p][w] /\ answer'[p][w] # 0 =>
               results[p][w] = 0]_vars

\* The judgement a rerun would carry of a window: the running total first.
WouldCarry(w) == IF partial[w] # 0 THEN partial[w] ELSE record[w]

\* What a rerun would carry of a window is never an older judgement than it
\* was: the one a refresh bought is not replaced by the one it replaced, however
\* runs fail between the two files (run_analysis: bought.setdefault).  It takes
\* one process and one plan.
NewestStays == [][\A w \in Window : WouldCarry(w)' >= WouldCarry(w)]_vars

\* Buying through files, threads and failures is the buying of module Purchase:
\* what was kept stays kept, a finished judgement is whole, and nothing is paid
\* for again without a lost answer or a request to account for it (run_analysis: "a rerun
\* asks only about the windows it does not already have").  It takes one process and
\* one plan.
Judged == INSTANCE Purchase WITH
    Wanted   <- {Watched(plan) : plan \in Plans},
    held     <- {w \in Window : OnDisk(w)},
    finished <- Held(record),
    spent    <- bought,
    excused  <- [w \in Window |-> lost[w] + refreshes[w]]

\* run_analysis implements Purchase: what is paid for once stays, and a finished
\* judgement is whole.
Implements == Judged!Promise

\* A run that starts ends, with the record written or a fault raised.
RunEnds == \A p \in Process : pc[p] # "idle" ~> pc[p] = "idle"

(***************************************************************************)
(* The inductive invariants behind the properties above.                   *)
(***************************************************************************)

\* A process at work judges the watched windows of some plan.
Planned ==
    \A p \in Process : pc[p] # "idle" =>
        \E plan \in Plans : judging[p] = Watched(plan)

\* Nothing is submitted before what is held has been carried.
Unsubmitted ==
    \A p \in Process : pc[p] \in {"idle", "carry"} =>
        \A w \in Window : future[p][w] = "none"

\* A future that has come through has its judgement in the results.
ResultsHeld ==
    \A p \in Process, w \in Window :
        /\ future[p][w] = "answered" => answer[p][w] # 0
        /\ future[p][w] \in {"writing", "kept", "carried"} => results[p][w] # 0

\* Enough to keep the finished record whole, whatever processes run.
WholeInv == Planned /\ Unsubmitted /\ ResultsHeld /\ RecordWhole

\* One process, and plans that agree on what is watched.
Alone == /\ \A p, q \in Process : p = q
         /\ \A plan, other \in Plans : Watched(plan) = Watched(other)

\* The running total holds watched windows only.
PartialPlanned == \A plan \in Plans : Held(partial) \subseteq Watched(plan)

\* A process at work has carried what the running total holds.
PartialCarried ==
    \A p \in Process : pc[p] # "idle" => Held(partial) \subseteq Held(results[p])

\* One future at a time is writing, and what it writes is in the results and
\* leaves out nothing the running total holds.
WriterCovers ==
    \A p \in Process : \A w \in In(p, {"writing"}) :
        /\ In(p, {"writing"}) = {w}
        /\ Held(partial) \subseteq snapshot[p][w]
        /\ snapshot[p][w] \subseteq Held(results[p])

\* The running total is removed once nothing is in flight and the finished
\* record covers it.
UnlinkCovered ==
    \A p \in Process : pc[p] = "unlinking" =>
        /\ In(p, Running \cup {"queued"}) = {}
        /\ Held(partial) \subseteq Held(record)

\* The results hold judgements of windows the process judges.
ResultsPlanned ==
    \A p \in Process : /\ Held(results[p]) \subseteq judging[p]
                       /\ In(p, FutureState \ {"none"}) \subseteq judging[p]

\* Enough to keep every purchase on disk.
KeptInv == /\ PartialPlanned /\ PartialCarried /\ WriterCovers
           /\ UnlinkCovered /\ ResultsPlanned

\* What the ledger forgives: purchases lost, and purchases asked for again.
Excuses(w) == lost[w] + refreshes[w]

\* What a process has yet to ask about: submitted, or to be bought again.
Due(p, w) == \/ future[p][w] \in {"queued", "copying", "asking"}
             \/ pc[p] = "carry" /\ w \in refresh[p]

\* No window was ever bought more often than once and for each excuse ...
ChargedOnce == \A w \in Window : bought[w] <= 1 + Excuses(w)

\* ... and one that is due, or that nobody holds, not even that often.
DueIsExcused ==
    \A w \in Window :
        (\/ \E p \in Process : Due(p, w)
         \/ ~OnDisk(w) /\ \A p \in Process : answer[p][w] = 0)
            => bought[w] <= Excuses(w)

\* An answer belongs to a future that has come so far.
AnswersInHand ==
    \A p \in Process, w \in Window :
        answer[p][w] # 0 => future[p][w] \in {"answered", "writing", "kept", "failed"}

\* Once the record is written it holds all that was judged.
UnlinkWhole ==
    \A p \in Process : pc[p] = "unlinking" => Held(record) = judging[p]

\* What is held, on disk or in memory, was bought.
HeldIsBought ==
    \A w \in Window :
        (OnDisk(w) \/ \E p \in Process : answer[p][w] # 0 \/ results[p][w] # 0)
            => bought[w] > 0

\* Enough to account for every purchase.
LedgerInv ==
    ChargedOnce /\ DueIsExcused /\ AnswersInHand /\ UnlinkWhole /\ HeldIsBought

\* Nothing is held of a window that is being asked about.
Unasked ==
    \A p \in Process : \A w \in In(p, {"queued", "copying", "asking", "answered"}) :
        results[p][w] = 0

\* Judgements are numbered as they are bought: nothing that is held bears a
\* number still to come.
Numbered ==
    \A w \in Window :
        /\ record[w] <= bought[w] + Old
        /\ partial[w] <= bought[w] + Old
        /\ \A p \in Process : /\ results[p][w] <= bought[w] + Old
                              /\ answer[p][w] <= bought[w] + Old

\* What may take the place of the record's judgement is none that is older.
NoneOlder ==
    \A w \in Window :
        /\ partial[w] # 0 => record[w] <= partial[w]
        /\ \A p \in Process :
               /\ results[p][w] # 0 => record[w] <= results[p][w]
               /\ future[p][w] = "answered" => record[w] <= answer[p][w]

\* A process at work holds the running total as it is on disk, and once it has
\* written the record it holds that.
HeldAsWritten ==
    \A p \in Process :
        /\ pc[p] # "idle" => \A w \in Held(partial) : results[p][w] = partial[w]
        /\ pc[p] = "unlinking" => record = Analysed(p)

\* Enough to keep the newest judgement of every window.
NewestInv == Unasked /\ Numbered /\ NoneOlder /\ HeldAsWritten
=============================================================================
