------------------------- MODULE AnalysisRunProofs -------------------------
(***************************************************************************)
(* What TLAPS proves of AnalysisRun for every set of processes and         *)
(* windows, every set of plans and every size of the pool.                 *)
(***************************************************************************)
EXTENDS AnalysisRun, FiniteSetTheorems, TLAPS

(***************************************************************************)
(* The helpers stay within their types.                                    *)
(***************************************************************************)

\* An empty file is a file.
LEMMA NoneType == None \in [Window -> Nat]
  BY DEF None

\* A file cut down to some windows is a file.
LEMMA OnlyType ==
    ASSUME NEW file \in [Window -> Nat], NEW S
    PROVE  Only(file, S) \in [Window -> Nat]
  BY DEF Only

\* An account stays an account.
LEMMA ChargedType ==
    ASSUME NEW account \in [Window -> Nat], NEW S
    PROVE  Charged(account, S) \in [Window -> Nat]
  BY DEF Charged

\* A request that failed leaves both accounts accounts.
LEMMA PerhapsBilledType ==
    ASSUME TypeOK, NEW w \in Window, PerhapsBilled(w)
    PROVE  bought' \in [Window -> Nat] /\ lost' \in [Window -> Nat]
  <1>1. bought \in [Window -> Nat] /\ lost \in [Window -> Nat]
    BY DEF TypeOK
  <1>2. CASE UNCHANGED <<bought, lost>>
    BY <1>1, <1>2
  <1>3. CASE bought' = Charged(bought, {w}) /\ lost' = Charged(lost, {w})
    BY <1>1, <1>3, ChargedType
  <1> QED
    BY <1>2, <1>3 DEF PerhapsBilled

\* A plan's watched windows are windows.
LEMMA WatchedType ==
    ASSUME NEW plan \in Plans
    PROVE  Watched(plan) \subseteq Window
  <1>1. plan.candidates \subseteq Window
    BY PlanAssumption
  <1> QED
    BY <1>1 DEF Watched

(***************************************************************************)
(* Type correctness.                                                       *)
(***************************************************************************)

\* Whatever Forget does to one process leaves every variable in its type.
LEMMA ForgetType ==
    ASSUME TypeOK, NEW p \in Process, Forget(p)
    PROVE  /\ pc' \in [Process -> {"idle", "carry", "judging", "unlinking"}]
           /\ judging' \in [Process -> SUBSET Window]
           /\ refresh' \in [Process -> SUBSET Window]
           /\ results' \in [Process -> [Window -> Nat]]
           /\ future' \in [Process -> [Window -> FutureState]]
           /\ tries' \in [Process -> [Window -> Nat]]
           /\ answer' \in [Process -> [Window -> Nat]]
           /\ snapshot' \in [Process -> [Window -> SUBSET Window]]
  <1>1. [w \in Window |-> "none"] \in [Window -> FutureState]
    BY DEF FutureState
  <1>2. [w \in Window |-> {}] \in [Window -> SUBSET Window]
    OBVIOUS
  <1> QED
    BY <1>1, <1>2, NoneType DEF Forget, TypeOK

\* The initial states are well typed.
LEMMA InitType == Init => TypeOK
  <1> SUFFICES ASSUME Init PROVE TypeOK
    OBVIOUS
  <1>1. record \in [Window -> Nat]
    BY NoneType DEF Init, Old
  <1>2. [w \in Window |-> "none"] \in [Window -> FutureState]
    BY DEF FutureState
  <1> QED
    BY <1>1, <1>2, NoneType DEF Init, TypeOK

\* A step of one window's judgement keeps the types.
LEMMA JudgeType ==
    ASSUME TypeOK, NEW p \in Process, NEW w \in Window, Judge(p, w)
    PROVE  TypeOK'
  <1> USE DEF TypeOK, Becomes, FutureState, Running, Fault, disk, asked, ledger
  <1>1. CASE Claim(p, w)
    BY <1>1 DEF Claim
  <1>2. CASE Upload(p, w)
    BY <1>2 DEF Upload
  <1>3. CASE CopyOrUploadFails(p, w)
    BY <1>3 DEF CopyOrUploadFails
  <1>4. CASE Answered(p, w)
    <2>1. bought[w] + 1 + Old \in Nat
      BY DEF Old
    <2> QED
      BY <1>4, <2>1, ChargedType DEF Answered
  <1>5. CASE AskAgain(p, w)
    <2>1. bought' \in [Window -> Nat] /\ lost' \in [Window -> Nat]
      BY <1>5, PerhapsBilledType DEF AskAgain
    <2> QED
      BY <1>5, <2>1 DEF AskAgain
  <1>6. CASE AskFails(p, w)
    <2>1. bought' \in [Window -> Nat] /\ lost' \in [Window -> Nat]
      BY <1>6, PerhapsBilledType DEF AskFails
    <2> QED
      BY <1>6, <2>1 DEF AskFails
  <1>7. CASE TakeLock(p, w)
    <2>1. results' \in [Process -> [Window -> Nat]]
      BY <1>7 DEF TakeLock
    <2>2. Held(results'[p]) \in SUBSET Window
      BY DEF Held
    <2> QED
      BY <1>7, <2>1, <2>2 DEF TakeLock
  <1>8. CASE Replace(p, w)
    <2>1. partial' \in [Window -> Nat]
      BY <1>8, OnlyType DEF Replace
    <2> QED
      BY <1>8, <2>1 DEF Replace
  <1>9. CASE ReplaceFails(p, w)
    BY <1>9 DEF ReplaceFails
  <1> QED
    BY <1>1, <1>2, <1>3, <1>4, <1>5, <1>6, <1>7, <1>8, <1>9 DEF Judge

\* Every step keeps the types.
LEMMA NextType == TypeOK /\ [Next]_vars => TypeOK'
  <1> SUFFICES ASSUME TypeOK, [Next]_vars PROVE TypeOK'
    OBVIOUS
  <1>1. ASSUME NEW p \in Process, StartRun(p) PROVE TypeOK'
    <2>1. PICK plan \in Plans, overwrite \in BOOLEAN :
            /\ judging' = [judging EXCEPT ![p] = Watched(plan)]
            /\ \E again \in SUBSET MayRefresh(plan, overwrite) :
                 /\ refresh' = [refresh EXCEPT ![p] = again]
                 /\ refreshes' = Charged(refreshes, again)
            /\ results' = [results EXCEPT ![p] = Only(partial, Watched(plan))]
      BY <1>1 DEF StartRun
    <2>2. PICK again \in SUBSET MayRefresh(plan, overwrite) :
            /\ refresh' = [refresh EXCEPT ![p] = again]
            /\ refreshes' = Charged(refreshes, again)
      BY <2>1
    <2>3. again \subseteq Window
      BY <2>2, PlanAssumption DEF MayRefresh
    <2>4. refreshes' \in [Window -> Nat] /\ Only(partial, Watched(plan)) \in [Window -> Nat]
      BY <2>2, ChargedType, OnlyType DEF TypeOK
    <2> QED
      BY <1>1, <2>1, <2>2, <2>3, <2>4, WatchedType
      DEF TypeOK, StartRun, disk, pool
  <1>2. ASSUME NEW p \in Process, Carry(p) PROVE TypeOK'
    <2>1. CarriedOver(p) \in [Window -> Nat]
      BY DEF CarriedOver, TypeOK
    <2>2. Submitted(p, CarriedOver(p)) \in [Window -> FutureState]
      BY DEF Submitted, FutureState
    <2> QED
      BY <1>2, <2>1, <2>2 DEF Carry, TypeOK, disk, asked, ledger
  <1>3. ASSUME NEW p \in Process, NEW w \in Window, Judge(p, w) PROVE TypeOK'
    BY <1>3, JudgeType
  <1>4. ASSUME NEW p \in Process, CancelPending(p) PROVE TypeOK'
    <2>1. [w \in Window |-> IF future[p][w] = "queued" THEN "cancelled"
                            ELSE future[p][w]] \in [Window -> FutureState]
      BY DEF TypeOK, FutureState
    <2> QED
      BY <1>4, <2>1 DEF CancelPending, TypeOK, disk, asked, ledger
  <1>5. ASSUME NEW p \in Process, RunFails(p) PROVE TypeOK'
    <2>1. lost' \in [Window -> Nat]
      BY <1>5, ChargedType DEF RunFails, TypeOK
    <2>2. Forget(p)
      BY <1>5 DEF RunFails
    <2>3. UNCHANGED <<record, partial, bought, refreshes, starts, faults>>
      BY <1>5 DEF RunFails, disk
    <2> QED
      BY <2>1, <2>2, <2>3, ForgetType DEF TypeOK
  <1>6. ASSUME NEW p \in Process, WriteRecord(p) PROVE TypeOK'
    <2>1. record' \in [Window -> Nat]
      BY <1>6, OnlyType DEF WriteRecord, Analysed, TypeOK
    <2> QED
      BY <1>6, <2>1 DEF WriteRecord, TypeOK, pool, asked, ledger
  <1>7. ASSUME NEW p \in Process, WriteRecordFails(p) PROVE TypeOK'
    <2>1. lost' \in [Window -> Nat]
      BY <1>7, ChargedType DEF WriteRecordFails, TypeOK
    <2>4. faults' \in Nat
      BY <1>7 DEF WriteRecordFails, TypeOK, Fault
    <2>2. Forget(p)
      BY <1>7 DEF WriteRecordFails
    <2>3. UNCHANGED <<record, partial, bought, refreshes, starts>>
      BY <1>7 DEF WriteRecordFails, disk
    <2> QED
      BY <2>1, <2>2, <2>3, <2>4, ForgetType DEF TypeOK
  <1>8. ASSUME NEW p \in Process, Unlink(p) PROVE TypeOK'
    <2>1. partial' \in [Window -> Nat]
      BY <1>8, NoneType DEF Unlink
    <2>2. Forget(p)
      BY <1>8 DEF Unlink
    <2>3. UNCHANGED <<record, bought, lost, refreshes, starts, faults>>
      BY <1>8 DEF Unlink, ledger
    <2> QED
      BY <2>1, <2>2, <2>3, ForgetType DEF TypeOK
  <1>9. ASSUME NEW p \in Process, Crash(p) PROVE TypeOK'
    <2>1. bought' \in [Window -> Nat] /\ lost' \in [Window -> Nat]
      <3>1. bought \in [Window -> Nat] /\ lost \in [Window -> Nat]
        BY DEF TypeOK
      <3>2. PICK billed \in SUBSET In(p, {"asking"}) :
              /\ bought' = Charged(bought, billed)
              /\ lost' = Charged(lost, billed \cup Unwritten(p))
        BY <1>9 DEF Crash
      <3> QED
        BY <3>1, <3>2, ChargedType
    <2>4. faults' \in Nat
      BY <1>9 DEF Crash, TypeOK, Fault
    <2>2. Forget(p)
      BY <1>9 DEF Crash
    <2>3. UNCHANGED <<record, partial, refreshes, starts>>
      BY <1>9 DEF Crash, disk
    <2> QED
      BY <2>1, <2>2, <2>3, <2>4, ForgetType DEF TypeOK
  <1>10. CASE UNCHANGED vars
    BY <1>10 DEF TypeOK, vars, disk, pool, asked, ledger
  <1> QED
    BY <1>1, <1>2, <1>3, <1>4, <1>5, <1>6, <1>7, <1>8, <1>9, <1>10
    DEF Next, Proceed

\* Every variable of AnalysisRun stays in its type.
THEOREM TypeCorrect == Spec => []TypeOK
  BY InitType, NextType, PTL DEF Spec

(***************************************************************************)
(* The finished record is whole.                                           *)
(***************************************************************************)

\* A process that ends leaves nothing behind that WholeInv speaks of.
LEMMA ForgetWhole ==
    ASSUME TypeOK, WholeInv, NEW p \in Process, Forget(p), UNCHANGED record
    PROVE  WholeInv'
  <1>1. Planned'
    BY DEF WholeInv, Planned, Forget, TypeOK
  <1>2. Unsubmitted'
    BY DEF WholeInv, Unsubmitted, Forget, TypeOK
  <1>3. ResultsHeld'
    BY DEF WholeInv, ResultsHeld, Forget, TypeOK
  <1>4. RecordWhole'
    BY DEF WholeInv, RecordWhole, Exists, Held
  <1> QED
    BY <1>1, <1>2, <1>3, <1>4 DEF WholeInv

\* A step of a window's judgement happens while its process is at work, and
\* leaves alone the plan and the finished record.
LEMMA JudgeFrame ==
    ASSUME NEW p \in Process, NEW w \in Window, Judge(p, w)
    PROVE  UNCHANGED <<record, pc, judging>>
  BY DEF Judge, Claim, Upload, CopyOrUploadFails, Answered, AskAgain, AskFails,
         TakeLock, Replace, ReplaceFails, disk, asked

\* A step of a window's judgement moves that window's future alone.
LEMMA JudgeFuture ==
    ASSUME TypeOK, NEW p \in Process, NEW w \in Window, Judge(p, w)
    PROVE  /\ future[p][w] \in Running \cup {"queued"}
           /\ \E state \in FutureState : future' = [future EXCEPT ![p][w] = state]
  <1> USE DEF Becomes, FutureState, Running
  <1>1. CASE AskAgain(p, w)
    BY <1>1 DEF AskAgain, TypeOK
  <1>2. CASE ~AskAgain(p, w)
    BY <1>2 DEF Judge, Claim, NextQueued, Upload, CopyOrUploadFails, Answered,
                AskFails, TakeLock, Replace, ReplaceFails
  <1> QED
    BY <1>1, <1>2

\* What a future has come to is reflected in the results.
LEMMA JudgeResults ==
    ASSUME TypeOK, ResultsHeld, NEW p \in Process, NEW w \in Window, Judge(p, w)
    PROVE  ResultsHeld'
  <1> USE DEF TypeOK, ResultsHeld, Becomes
  <1>1. CASE Claim(p, w)
    BY <1>1 DEF Claim
  <1>2. CASE Upload(p, w)
    BY <1>2 DEF Upload
  <1>3. CASE CopyOrUploadFails(p, w)
    BY <1>3 DEF CopyOrUploadFails
  <1>4. CASE Answered(p, w)
    <2>1. bought[w] + 1 + Old # 0
      BY DEF Old
    <2> QED
      BY <1>4, <2>1 DEF Answered
  <1>5. CASE AskAgain(p, w)
    BY <1>5 DEF AskAgain
  <1>6. CASE AskFails(p, w)
    BY <1>6 DEF AskFails
  <1>7. CASE TakeLock(p, w)
    BY <1>7 DEF TakeLock
  <1>8. CASE Replace(p, w)
    BY <1>8 DEF Replace
  <1>9. CASE ReplaceFails(p, w)
    BY <1>9 DEF ReplaceFails
  <1> QED
    BY <1>1, <1>2, <1>3, <1>4, <1>5, <1>6, <1>7, <1>8, <1>9 DEF Judge

\* WholeInv holds initially.
LEMMA InitWhole == Init => WholeInv
  <1> SUFFICES ASSUME Init PROVE WholeInv
    OBVIOUS
  <1>1. Planned /\ Unsubmitted
    BY DEF Init, Planned, Unsubmitted
  <1>2. ResultsHeld
    BY DEF Init, ResultsHeld
  <1>3. RecordWhole
    <2>1. CASE record = None
      BY <2>1 DEF RecordWhole, Exists, Held, None
    <2>2. CASE record # None
      <3>1. PICK plan \in Plans :
              record = [w \in Window |-> IF w \in Watched(plan) THEN Old ELSE 0]
        BY <2>2 DEF Init
      <3>2. Held(record) = Watched(plan)
        BY <3>1, WatchedType DEF Held, Old
      <3> QED
        BY <3>2 DEF RecordWhole
    <2> QED
      BY <2>1, <2>2
  <1> QED
    BY <1>1, <1>2, <1>3 DEF WholeInv

\* What is written is one plan's windows: every one of them has come through.
LEMMA WriteRecordWhole ==
    ASSUME TypeOK, WholeInv, NEW p \in Process, WriteRecord(p)
    PROVE  Held(record') = judging[p] /\ RecordWhole'
  <1>1. \A w \in judging[p] : w \in Window /\ results[p][w] # 0
    BY DEF WriteRecord, AllJudged, In, WholeInv, ResultsHeld
  <1>2. Held(record') = judging[p]
    BY <1>1 DEF WriteRecord, Analysed, Only, Held
  <1>3. \E plan \in Plans : judging[p] = Watched(plan)
    BY DEF WholeInv, Planned, WriteRecord
  <1> QED
    BY <1>2, <1>3 DEF RecordWhole, Exists, Held

\* Every step keeps WholeInv.
LEMMA NextWhole == TypeOK /\ WholeInv /\ [Next]_vars => WholeInv'
  <1> SUFFICES ASSUME TypeOK, WholeInv, [Next]_vars PROVE WholeInv'
    OBVIOUS
  <1>1. ASSUME NEW p \in Process, StartRun(p) PROVE WholeInv'
    <2>1. PICK plan \in Plans : judging' = [judging EXCEPT ![p] = Watched(plan)]
      BY <1>1 DEF StartRun
    <2>2. Planned'
      BY <1>1, <2>1 DEF WholeInv, Planned, StartRun, TypeOK
    <2>3. Unsubmitted'
      BY <1>1 DEF WholeInv, Unsubmitted, StartRun, TypeOK, pool
    <2>4. ResultsHeld'
      <3>1. \A q \in Process : q # p => results'[q] = results[q]
        BY <1>1 DEF StartRun, TypeOK
      <3>2. \A w \in Window : future[p][w] = "none"
        BY <1>1 DEF StartRun, WholeInv, Unsubmitted
      <3>3. UNCHANGED <<future, answer>>
        BY <1>1 DEF StartRun, pool
      <3> QED
        BY <3>1, <3>2, <3>3 DEF WholeInv, ResultsHeld
    <2>5. RecordWhole'
      BY <1>1 DEF WholeInv, RecordWhole, Exists, Held, StartRun, disk
    <2> QED
      BY <2>2, <2>3, <2>4, <2>5 DEF WholeInv
  <1>2. ASSUME NEW p \in Process, Carry(p) PROVE WholeInv'
    <2>1. Planned' /\ Unsubmitted'
      BY <1>2 DEF WholeInv, Planned, Unsubmitted, Carry, TypeOK, asked
    <2>2. ResultsHeld'
      <3>1. \A q \in Process : q # p => /\ results'[q] = results[q]
                                        /\ future'[q] = future[q]
        BY <1>2 DEF Carry, TypeOK
      <3>2. results'[p] = CarriedOver(p) /\ future'[p] = Submitted(p, CarriedOver(p))
        BY <1>2 DEF Carry, TypeOK
      <3>3. \A w \in Window : /\ future'[p][w] \notin {"answered", "writing", "kept"}
                              /\ future'[p][w] = "carried" => results'[p][w] # 0
        BY <3>2 DEF Submitted
      <3>4. answer' = answer
        BY <1>2 DEF Carry
      <3> QED
        BY <3>1, <3>3, <3>4 DEF WholeInv, ResultsHeld
    <2>3. RecordWhole'
      BY <1>2 DEF WholeInv, RecordWhole, Exists, Held, Carry, disk
    <2> QED
      BY <2>1, <2>2, <2>3 DEF WholeInv
  <1>3. ASSUME NEW p \in Process, NEW w \in Window, Judge(p, w) PROVE WholeInv'
    <2>1. UNCHANGED <<record, pc, judging>>
      BY <1>3, JudgeFrame
    <2>2. Planned' /\ RecordWhole'
      BY <2>1 DEF WholeInv, Planned, RecordWhole, Exists, Held
    <2>3. Unsubmitted'
      <3>1. pc[p] \notin {"idle", "carry"}
        BY <1>3, JudgeFuture DEF WholeInv, Unsubmitted, Running
      <3>2. \A q \in Process : q # p => future'[q] = future[q]
        BY <1>3, JudgeFuture DEF TypeOK
      <3> QED
        BY <2>1, <3>1, <3>2 DEF WholeInv, Unsubmitted
    <2>4. ResultsHeld'
      BY <1>3, JudgeResults DEF WholeInv
    <2> QED
      BY <2>2, <2>3, <2>4 DEF WholeInv
  <1>4. ASSUME NEW p \in Process, CancelPending(p) PROVE WholeInv'
    <2>1. Planned' /\ RecordWhole'
      BY <1>4 DEF WholeInv, Planned, RecordWhole, Exists, Held, CancelPending,
                  disk, asked
    <2>2. Unsubmitted' /\ ResultsHeld'
      BY <1>4 DEF WholeInv, Unsubmitted, ResultsHeld, CancelPending, TypeOK
    <2> QED
      BY <2>1, <2>2 DEF WholeInv
  <1>5. ASSUME NEW p \in Process, RunFails(p) \/ WriteRecordFails(p) \/ Unlink(p)
                                    \/ Crash(p)
        PROVE WholeInv'
    <2>1. Forget(p) /\ UNCHANGED record
      BY <1>5 DEF RunFails, WriteRecordFails, Unlink, Crash, disk
    <2> QED
      BY <2>1, ForgetWhole
  <1>6. ASSUME NEW p \in Process, WriteRecord(p) PROVE WholeInv'
    <2>1. Planned' /\ Unsubmitted' /\ ResultsHeld'
      BY <1>6 DEF WholeInv, Planned, Unsubmitted, ResultsHeld, WriteRecord,
                  TypeOK, pool, asked
    <2> QED
      BY <1>6, <2>1, WriteRecordWhole DEF WholeInv
  <1>7. CASE UNCHANGED vars
    BY <1>7 DEF WholeInv, Planned, Unsubmitted, ResultsHeld, RecordWhole, Exists,
                Held, vars, disk, pool, asked
  <1> QED
    BY <1>1, <1>2, <1>3, <1>4, <1>5, <1>6, <1>7 DEF Next, Proceed

\* However many processes judge a package, under whatever plans, and whatever
\* fails: a finished record holds exactly the windows one plan watches.
THEOREM FinishedRecordIsWhole == Spec => []RecordWhole
  <1>1. Init => TypeOK /\ WholeInv
    BY InitType, InitWhole
  <1>2. TypeOK /\ WholeInv /\ [Next]_vars => (TypeOK /\ WholeInv)'
    BY NextType, NextWhole
  <1>3. WholeInv => RecordWhole
    BY DEF WholeInv
  <1> QED
    BY <1>1, <1>2, <1>3, PTL DEF Spec

(***************************************************************************)
(* Nothing that reached the disk leaves it, while one process judges and   *)
(* plans agree on what is watched.                                         *)
(***************************************************************************)

\* A process that ends without touching the running total keeps KeptInv.
LEMMA ForgetKept ==
    ASSUME TypeOK, Alone, KeptInv, NEW p \in Process, Forget(p),
           UNCHANGED record, partial' = partial \/ partial' = None
    PROVE  KeptInv'
  <1>1. \A q \in Process : q = p
    BY DEF Alone
  <1>2. /\ pc'[p] = "idle"
        /\ results'[p] = None
        /\ future'[p] = [w \in Window |-> "none"]
    BY DEF Forget, TypeOK
  <1>3. Held(None) = {}
    BY DEF Held, None
  <1>4. PartialPlanned'
    BY <1>3 DEF KeptInv, PartialPlanned, Held
  <1>5. PartialCarried' /\ UnlinkCovered'
    BY <1>1, <1>2 DEF PartialCarried, UnlinkCovered
  <1>6. WriterCovers'
    BY <1>1, <1>2 DEF WriterCovers, In
  <1>7. ResultsPlanned'
    BY <1>1, <1>2, <1>3 DEF ResultsPlanned, In, Held
  <1> QED
    BY <1>4, <1>5, <1>6, <1>7 DEF KeptInv

\* Only taking the lock changes the results, only replacing the file changes
\* the running total, and only the writer's snapshot changes.
LEMMA QuietFrame ==
    ASSUME TypeOK, NEW p \in Process, NEW w \in Window, Judge(p, w),
           ~TakeLock(p, w), ~Replace(p, w)
    PROVE  /\ UNCHANGED <<partial, results>>
           /\ \A v \in Window : v # w => snapshot'[p][v] = snapshot[p][v]
           /\ future'[p][w] # "writing"
  <1> USE DEF Becomes, disk, TypeOK
  <1>1. CASE AskAgain(p, w)
    BY <1>1 DEF AskAgain
  <1>2. CASE ReplaceFails(p, w)
    BY <1>2 DEF ReplaceFails
  <1>3. CASE Claim(p, w) \/ Upload(p, w) \/ CopyOrUploadFails(p, w)
    BY <1>3 DEF Claim, Upload, CopyOrUploadFails
  <1>4. CASE Answered(p, w) \/ AskFails(p, w)
    BY <1>4 DEF Answered, AskFails
  <1> QED
    BY <1>1, <1>2, <1>3, <1>4 DEF Judge

\* A step of a window's judgement keeps KeptInv.
LEMMA JudgeKept ==
    ASSUME TypeOK, Alone, WholeInv, KeptInv,
           NEW p \in Process, NEW w \in Window, Judge(p, w)
    PROVE  KeptInv'
  <1>1. \A q \in Process : q = p
    BY DEF Alone
  <1>2. UNCHANGED <<record, pc, judging>>
    BY JudgeFrame
  <1>3. /\ future[p][w] # "none"
        /\ future[p][w] \in Running \cup {"queued"}
        /\ \A v \in Window : v # w => future'[p][v] = future[p][v]
    BY JudgeFuture DEF TypeOK, Running
  <1>4. pc[p] # "idle" /\ w \in judging[p]
    <2>1. pc[p] # "idle"
      BY <1>3 DEF WholeInv, Unsubmitted
    <2>2. w \in In(p, FutureState \ {"none"})
      BY <1>3 DEF In, TypeOK
    <2> QED
      BY <2>1, <2>2 DEF KeptInv, ResultsPlanned
  <1>5. In(p, FutureState \ {"none"})' \subseteq judging'[p]
    BY <1>2, <1>3, <1>4 DEF In, KeptInv, ResultsPlanned, TypeOK
  <1>6. Held(partial) \subseteq Held(results[p])
    BY <1>4 DEF KeptInv, PartialCarried
  <1>7. UnlinkCovered'
    <2>1. pc[p] # "unlinking"
      BY <1>3 DEF KeptInv, UnlinkCovered, In
    <2> QED
      BY <1>1, <1>2, <2>1 DEF UnlinkCovered
  <1>8. CASE TakeLock(p, w)
    <2>1. /\ results'[p] = [results[p] EXCEPT ![w] = answer[p][w]]
          /\ answer[p][w] # 0
          /\ snapshot'[p] = [snapshot[p] EXCEPT ![w] = Held(results'[p])]
          /\ partial' = partial
          /\ future'[p] = [future[p] EXCEPT ![w] = "writing"]
          /\ LockFree(p)
      BY <1>8 DEF TakeLock, Becomes, TypeOK, WholeInv, ResultsHeld, disk
    <2>2. Held(results[p]) \subseteq Held(results'[p])
      BY <2>1 DEF Held, TypeOK
    <2>3. Held(results'[p]) \subseteq judging[p]
      BY <1>4, <2>1 DEF Held, KeptInv, ResultsPlanned, TypeOK
    <2>4. In(p, {"writing"})' = {w}
      BY <2>1 DEF In, LockFree, TypeOK
    <2>5. snapshot'[p][w] = Held(results'[p])
      BY <2>1 DEF TypeOK
    <2>6. WriterCovers'
      BY <1>1, <1>6, <2>1, <2>2, <2>4, <2>5 DEF WriterCovers, Held
    <2>7. PartialPlanned' /\ PartialCarried'
      BY <1>1, <1>2, <1>6, <2>1, <2>2
      DEF KeptInv, PartialPlanned, PartialCarried, Held
    <2>8. ResultsPlanned'
      BY <1>1, <1>2, <1>5, <2>3 DEF ResultsPlanned, Held
    <2> QED
      BY <1>7, <2>6, <2>7, <2>8 DEF KeptInv
  <1>9. CASE Replace(p, w)
    <2>1. /\ partial' = Only(results[p], snapshot[p][w])
          /\ results' = results
          /\ future[p][w] = "writing"
          /\ future'[p] = [future[p] EXCEPT ![w] = "kept"]
      BY <1>9 DEF Replace, Becomes, TypeOK
    <2>2. In(p, {"writing"}) = {w}
      BY <2>1 DEF In, KeptInv, WriterCovers
    <2>3. In(p, {"writing"})' = {}
      BY <2>1, <2>2 DEF In, TypeOK
    <2>4. Held(partial') \subseteq Held(results[p])
      BY <2>1 DEF Held, Only
    <2>5. Held(results[p]) \subseteq judging[p]
      BY DEF KeptInv, ResultsPlanned
    <2>6. \A plan \in Plans : judging[p] = Watched(plan)
      BY <1>4 DEF WholeInv, Planned, Alone
    <2>7. PartialPlanned'
      BY <2>4, <2>5, <2>6 DEF PartialPlanned, Held
    <2>8. PartialCarried'
      BY <1>1, <2>1, <2>4 DEF PartialCarried, Held
    <2>9. WriterCovers'
      BY <1>1, <2>3 DEF WriterCovers
    <2>10. ResultsPlanned'
      BY <1>1, <1>2, <1>5, <2>1 DEF KeptInv, ResultsPlanned, Held
    <2> QED
      BY <1>7, <2>7, <2>8, <2>9, <2>10 DEF KeptInv
  <1>10. CASE ~TakeLock(p, w) /\ ~Replace(p, w)
    <2>1. /\ UNCHANGED <<partial, results>>
          /\ \A v \in Window : v # w => snapshot'[p][v] = snapshot[p][v]
          /\ future'[p][w] # "writing"
      BY <1>10, QuietFrame
    <2>2. In(p, {"writing"})' \subseteq In(p, {"writing"}) \ {w}
      BY <1>3, <2>1 DEF In
    <2>3. WriterCovers'
      <3>1. SUFFICES ASSUME NEW v \in In(p, {"writing"})'
                     PROVE  /\ In(p, {"writing"})' = {v}
                            /\ Held(partial)' \subseteq snapshot'[p][v]
                            /\ snapshot'[p][v] \subseteq Held(results'[p])
        BY <1>1 DEF WriterCovers, Held
      <3>2. /\ In(p, {"writing"}) = {v}
            /\ Held(partial) \subseteq snapshot[p][v]
            /\ snapshot[p][v] \subseteq Held(results[p])
        BY <2>2, <3>1 DEF KeptInv, WriterCovers
      <3>3. v \in Window /\ snapshot'[p][v] = snapshot[p][v]
        BY <2>1, <2>2, <3>1 DEF In
      <3> QED
        BY <2>1, <2>2, <3>1, <3>2, <3>3 DEF Held
    <2>4. PartialPlanned' /\ PartialCarried'
      BY <1>2, <2>1 DEF KeptInv, PartialPlanned, PartialCarried, Held
    <2>5. ResultsPlanned'
      BY <1>1, <1>2, <1>5, <2>1 DEF KeptInv, ResultsPlanned, Held
    <2> QED
      BY <1>7, <2>3, <2>4, <2>5 DEF KeptInv
  <1> QED
    BY <1>8, <1>9, <1>10


\* KeptInv holds initially: there is no running total.
LEMMA InitKept == Init => KeptInv
  BY DEF Init, KeptInv, PartialPlanned, PartialCarried, WriterCovers,
         UnlinkCovered, ResultsPlanned, Held, None, In

\* Every step keeps KeptInv.
LEMMA NextKept ==
    ASSUME Alone
    PROVE  TypeOK /\ WholeInv /\ KeptInv /\ [Next]_vars => KeptInv'
  <1> SUFFICES ASSUME TypeOK, WholeInv, KeptInv, [Next]_vars PROVE KeptInv'
    OBVIOUS
  <1>1. ASSUME NEW p \in Process, StartRun(p) PROVE KeptInv'
    <2>1. \A q \in Process : q = p
      BY DEF Alone
    <2>2. PICK plan \in Plans :
            /\ judging'[p] = Watched(plan)
            /\ results'[p] = Only(partial, Watched(plan))
      BY <1>1 DEF StartRun, TypeOK
    <2>3. pc'[p] = "carry" /\ UNCHANGED <<partial, future>>
      BY <1>1 DEF StartRun, TypeOK, disk, pool
    <2>4. \A w \in Window : future[p][w] = "none"
      BY <1>1 DEF StartRun, WholeInv, Unsubmitted
    <2>5. Held(results'[p]) = Held(partial)
      BY <2>2 DEF KeptInv, PartialPlanned, Held, Only
    <2>6. PartialPlanned' /\ PartialCarried'
      BY <2>1, <2>3, <2>5 DEF KeptInv, PartialPlanned, PartialCarried, Held
    <2>7. WriterCovers' /\ UnlinkCovered'
      BY <2>1, <2>3, <2>4 DEF WriterCovers, UnlinkCovered, In
    <2>8. ResultsPlanned'
      BY <2>1, <2>2, <2>3, <2>4, <2>5
      DEF KeptInv, PartialPlanned, ResultsPlanned, Held, In
    <2> QED
      BY <2>6, <2>7, <2>8 DEF KeptInv
  <1>2. ASSUME NEW p \in Process, Carry(p) PROVE KeptInv'
    <2>1. \A q \in Process : q = p
      BY DEF Alone
    <2>2. /\ results'[p] = CarriedOver(p)
          /\ future'[p] = Submitted(p, CarriedOver(p))
          /\ pc[p] = "carry"
          /\ pc'[p] = "judging"
          /\ UNCHANGED <<partial, judging>>
      BY <1>2 DEF Carry, TypeOK, disk, asked
    <2>3. Held(results[p]) \subseteq Held(results'[p])
      BY <2>2 DEF CarriedOver, Held
    <2>4. Held(results'[p]) \subseteq judging[p]
      BY <2>2 DEF CarriedOver, Held, KeptInv, ResultsPlanned
    <2>5. PartialPlanned' /\ PartialCarried'
      BY <2>1, <2>2, <2>3 DEF KeptInv, PartialPlanned, PartialCarried, Held
    <2>6. WriterCovers' /\ UnlinkCovered'
      BY <2>1, <2>2 DEF WriterCovers, UnlinkCovered, In, Submitted
    <2>7. ResultsPlanned'
      BY <2>1, <2>2, <2>4 DEF ResultsPlanned, Held, In, Submitted
    <2> QED
      BY <2>5, <2>6, <2>7 DEF KeptInv
  <1>3. ASSUME NEW p \in Process, NEW w \in Window, Judge(p, w) PROVE KeptInv'
    BY <1>3, JudgeKept
  <1>4. ASSUME NEW p \in Process, CancelPending(p) PROVE KeptInv'
    <2>1. \A q \in Process : q = p
      BY DEF Alone
    <2>2. /\ UNCHANGED <<record, partial, pc, judging, results, snapshot>>
          /\ future'[p] = [w \in Window |-> IF future[p][w] = "queued"
                                            THEN "cancelled" ELSE future[p][w]]
          /\ pc[p] = "judging"
      BY <1>4 DEF CancelPending, TypeOK, disk, asked
    <2>3. In(p, {"writing"})' = In(p, {"writing"})
      BY <2>2 DEF In
    <2>4. PartialPlanned' /\ PartialCarried' /\ UnlinkCovered'
      BY <2>1, <2>2 DEF KeptInv, PartialPlanned, PartialCarried, UnlinkCovered,
                        Held
    <2>5. WriterCovers'
      BY <2>1, <2>2, <2>3 DEF KeptInv, WriterCovers, Held
    <2>6. ResultsPlanned'
      BY <2>1, <2>2 DEF KeptInv, ResultsPlanned, Held, In, FutureState, Running
    <2> QED
      BY <2>4, <2>5, <2>6 DEF KeptInv
  <1>5. ASSUME NEW p \in Process, RunFails(p) \/ WriteRecordFails(p) \/ Unlink(p)
                                    \/ Crash(p)
        PROVE KeptInv'
    <2>1. Forget(p) /\ UNCHANGED record /\ (partial' = partial \/ partial' = None)
      BY <1>5 DEF RunFails, WriteRecordFails, Unlink, Crash, disk
    <2> QED
      BY <2>1, ForgetKept
  <1>6. ASSUME NEW p \in Process, WriteRecord(p) PROVE KeptInv'
    <2>1. \A q \in Process : q = p
      BY DEF Alone
    <2>2. UNCHANGED <<partial, results, future, snapshot, judging>>
      BY <1>6 DEF WriteRecord, pool, asked
    <2>3. Held(record') = judging[p]
      BY <1>6, WriteRecordWhole
    <2>4. pc[p] = "judging" /\ judging[p] = In(p, {"kept", "carried"})
      BY <1>6 DEF WriteRecord, AllJudged
    <2>5. In(p, Running \cup {"queued"}) = {}
      <3>1. In(p, Running \cup {"queued"}) \subseteq In(p, FutureState \ {"none"})
        BY DEF In, FutureState, Running
      <3>2. In(p, Running \cup {"queued"}) \cap In(p, {"kept", "carried"}) = {}
        BY DEF In, Running
      <3> QED
        BY <2>4, <3>1, <3>2 DEF KeptInv, ResultsPlanned
    <2>6. Held(partial) \subseteq judging[p]
      BY <2>4 DEF KeptInv, PartialCarried, ResultsPlanned
    <2>7. UnlinkCovered'
      BY <2>1, <2>2, <2>3, <2>5, <2>6 DEF UnlinkCovered, Held, In
    <2>8. PartialPlanned' /\ WriterCovers' /\ ResultsPlanned'
      BY <2>2 DEF KeptInv, PartialPlanned, WriterCovers, ResultsPlanned, Held, In
    <2>9. PartialCarried'
      BY <2>1, <2>2, <2>4 DEF KeptInv, PartialCarried, Held
    <2> QED
      BY <2>7, <2>8, <2>9 DEF KeptInv
  <1>7. CASE UNCHANGED vars
    BY <1>7 DEF KeptInv, PartialPlanned, PartialCarried, WriterCovers,
                UnlinkCovered, ResultsPlanned, Held, In, vars, disk, pool, asked
  <1> QED
    BY <1>1, <1>2, <1>3, <1>4, <1>5, <1>6, <1>7 DEF Next, Proceed

\* No step takes a judgement off the disk: the three that write or remove a
\* file write what covers it, or remove what the other file covers.
LEMMA StepKeeps ==
    ASSUME Alone, TypeOK, WholeInv, KeptInv, [Next]_vars,
           NEW w \in Window, OnDisk(w)
    PROVE  OnDisk(w)'
  <1>1. w \in Held(record) \/ w \in Held(partial)
    BY DEF OnDisk, Held
  <1>2. SUFFICES \/ UNCHANGED <<record, partial>>
                 \/ w \in Held(record')
                 \/ w \in Held(partial')
    BY DEF OnDisk, Held
  <1>3. ASSUME NEW p \in Process, NEW v \in Window, Replace(p, v)
        PROVE  UNCHANGED record /\ Held(partial) \subseteq Held(partial')
    <2>1. v \in In(p, {"writing"})
      BY <1>3 DEF Replace, In
    <2>2. /\ Held(partial) \subseteq snapshot[p][v]
          /\ snapshot[p][v] \subseteq Held(results[p])
      BY <2>1 DEF KeptInv, WriterCovers
    <2> QED
      BY <1>3, <2>2 DEF Replace, Held, Only
  <1>4. ASSUME NEW p \in Process, WriteRecord(p)
        PROVE  UNCHANGED partial /\ Held(record) \subseteq Held(record')
    <2>1. Held(record') = judging[p]
      BY <1>4, WriteRecordWhole
    <2>2. \A plan \in Plans : judging[p] = Watched(plan)
      BY <1>4 DEF WriteRecord, WholeInv, Planned, Alone
    <2> QED
      BY <1>4, <2>1, <2>2 DEF WriteRecord, WholeInv, RecordWhole, Exists
  <1>5. ASSUME NEW p \in Process, Unlink(p)
        PROVE  UNCHANGED record /\ Held(partial) \subseteq Held(record)
    BY <1>5 DEF Unlink, KeptInv, UnlinkCovered
  <1>6. ASSUME NEW p \in Process, NEW v \in Window, Judge(p, v), ~Replace(p, v)
        PROVE  UNCHANGED <<record, partial>>
    <2>1. CASE TakeLock(p, v)
      BY <2>1 DEF TakeLock, disk
    <2>2. CASE ~TakeLock(p, v)
      BY <1>6, <2>2, QuietFrame, JudgeFrame
    <2> QED
      BY <2>1, <2>2
  <1>7. ASSUME NEW p \in Process,
               \/ StartRun(p) \/ Carry(p) \/ CancelPending(p) \/ RunFails(p)
               \/ WriteRecordFails(p) \/ Crash(p)
        PROVE  UNCHANGED <<record, partial>>
    BY <1>7 DEF StartRun, Carry, CancelPending, RunFails, WriteRecordFails, Crash,
                disk
  <1>8. CASE UNCHANGED vars
    BY <1>8 DEF vars, disk
  <1> QED
    BY <1>1, <1>3, <1>4, <1>5, <1>6, <1>7, <1>8 DEF Next, Proceed

\* While one process judges, and plans agree on what is watched, a judgement
\* that reached the disk never leaves it, whatever fails or crashes.
THEOREM PaidIsKept ==
    ASSUME Alone
    PROVE  Spec => PurchaseKept
  <1>1. Init => TypeOK /\ WholeInv /\ KeptInv
    BY InitType, InitWhole, InitKept
  <1>2. TypeOK /\ WholeInv /\ KeptInv /\ [Next]_vars
            => (TypeOK /\ WholeInv /\ KeptInv)'
    BY NextType, NextWhole, NextKept
  <1>3. TypeOK /\ WholeInv /\ KeptInv /\ [Next]_vars
            => [\A w \in Window : OnDisk(w) => OnDisk(w)']_vars
    BY StepKeeps
  <1> QED
    BY <1>1, <1>2, <1>3, PTL DEF Spec, PurchaseKept

(***************************************************************************)
(* What is asked of the model is what is missing, whoever judges.          *)
(***************************************************************************)

\* A process that ends asks about nothing.
LEMMA ForgetUnasked ==
    ASSUME TypeOK, Unasked, NEW p \in Process, Forget(p)
    PROVE  Unasked'
  <1>1. /\ \A w \in Window : future'[p][w] = "none"
        /\ \A q \in Process : q # p => /\ future'[q] = future[q]
                                       /\ results'[q] = results[q]
    BY DEF Forget, TypeOK
  <1> QED
    BY <1>1 DEF Unasked, In

\* A judgement's result is noted when its future leaves the windows asked about.
LEMMA JudgeUnasked ==
    ASSUME TypeOK, Unasked, NEW p \in Process, NEW w \in Window, Judge(p, w)
    PROVE  Unasked'
  <1> DEFINE Asked == {"queued", "copying", "asking", "answered"}
  <1>1. /\ \A q \in Process : q # p => future'[q] = future[q]
        /\ \A v \in Window : v # w => future'[p][v] = future[p][v]
    BY JudgeFuture DEF TypeOK
  <1>2. \A q \in Process, v \in Window :
            (q # p \/ v # w) => results'[q][v] = results[q][v]
    BY DEF Judge, Claim, Upload, CopyOrUploadFails, Answered, AskAgain, AskFails,
           TakeLock, Replace, ReplaceFails, TypeOK
  <1>3. future'[p][w] \in Asked => future[p][w] \in Asked /\ results' = results
    <2>1. CASE TakeLock(p, w)
      BY <2>1 DEF TakeLock, Becomes, TypeOK
    <2>2. CASE Replace(p, w) \/ ReplaceFails(p, w)
      BY <2>2 DEF Replace, ReplaceFails, Becomes, TypeOK
    <2>3. CASE Claim(p, w) \/ Upload(p, w) \/ CopyOrUploadFails(p, w)
      BY <2>3 DEF Claim, NextQueued, Upload, CopyOrUploadFails
    <2>4. CASE Answered(p, w) \/ AskAgain(p, w) \/ AskFails(p, w)
      BY <2>4 DEF Answered, AskAgain, AskFails
    <2> QED
      BY <2>1, <2>2, <2>3, <2>4 DEF Judge
  <1> SUFFICES ASSUME NEW q \in Process, NEW v \in In(q, Asked)'
               PROVE  results'[q][v] = 0
    BY DEF Unasked
  <1>4. v \in Window /\ future'[q][v] \in Asked
    BY DEF In
  <1>5. future[q][v] \in Asked /\ results'[q][v] = results[q][v]
    BY <1>1, <1>2, <1>3, <1>4
  <1> QED
    BY <1>4, <1>5 DEF Unasked, In

\* Every step keeps what is asked about apart from what is held.
LEMMA NextUnasked == TypeOK /\ WholeInv /\ Unasked /\ [Next]_vars => Unasked'
  <1> SUFFICES ASSUME TypeOK, WholeInv, Unasked, [Next]_vars PROVE Unasked'
    OBVIOUS
  <1>1. ASSUME NEW p \in Process, StartRun(p) PROVE Unasked'
    <2>1. /\ future' = future
          /\ \A w \in Window : future[p][w] = "none"
          /\ \A q \in Process : q # p => results'[q] = results[q]
      BY <1>1 DEF StartRun, pool, WholeInv, Unsubmitted, TypeOK
    <2> QED
      BY <2>1 DEF Unasked, In
  <1>2. ASSUME NEW p \in Process, Carry(p) PROVE Unasked'
    <2>1. /\ results'[p] = CarriedOver(p)
          /\ future'[p] = Submitted(p, CarriedOver(p))
          /\ \A q \in Process : q # p => /\ results'[q] = results[q]
                                         /\ future'[q] = future[q]
      BY <1>2 DEF Carry, TypeOK
    <2> QED
      BY <2>1 DEF Unasked, In, Submitted
  <1>3. ASSUME NEW p \in Process, NEW w \in Window, Judge(p, w) PROVE Unasked'
    BY <1>3, JudgeUnasked
  <1>4. ASSUME NEW p \in Process, CancelPending(p) PROVE Unasked'
    <2>1. /\ results' = results
          /\ \A q \in Process, w \in Window :
                 future'[q][w] \in {future[q][w], "cancelled"}
      BY <1>4 DEF CancelPending, TypeOK
    <2> QED
      BY <2>1 DEF Unasked, In
  <1>5. ASSUME NEW p \in Process, RunFails(p) \/ WriteRecordFails(p) \/ Unlink(p)
                                    \/ Crash(p)
        PROVE Unasked'
    <2>1. Forget(p)
      BY <1>5 DEF RunFails, WriteRecordFails, Unlink, Crash
    <2> QED
      BY <2>1, ForgetUnasked
  <1>6. ASSUME NEW p \in Process, WriteRecord(p) PROVE Unasked'
    BY <1>6 DEF WriteRecord, pool, Unasked, In
  <1>7. CASE UNCHANGED vars
    BY <1>7 DEF vars, pool, Unasked, In
  <1> QED
    BY <1>1, <1>2, <1>3, <1>4, <1>5, <1>6, <1>7 DEF Next, Proceed

\* An answer comes to hand by being asked for, of the window it is about.
LEMMA AnswerIsAsked ==
    ASSUME TypeOK, [Next]_vars, NEW p \in Process, NEW w \in Window,
           answer'[p][w] # answer[p][w], answer'[p][w] # 0
    PROVE  Answered(p, w)
  <1>1. ASSUME NEW q \in Process, Forget(q) PROVE FALSE
    <2>1. \/ answer'[p] = answer[p]
          \/ answer'[p] = None
      BY <1>1 DEF Forget, TypeOK
    <2> QED
      BY <2>1 DEF None
  <1>2. ASSUME NEW q \in Process, NEW v \in Window, Judge(q, v)
        PROVE  Answered(p, w)
    <2>1. CASE Answered(q, v)
      BY <2>1 DEF Answered, TypeOK
    <2>2. CASE ~Answered(q, v)
      <3>1. answer' = answer
        BY <1>2, <2>2 DEF Judge, Claim, Upload, CopyOrUploadFails, AskAgain,
                          AskFails, TakeLock, Replace, ReplaceFails
      <3> QED
        BY <3>1
    <2> QED
      BY <2>1, <2>2
  <1>3. ASSUME NEW q \in Process,
               StartRun(q) \/ Carry(q) \/ CancelPending(q) \/ WriteRecord(q)
        PROVE  FALSE
    BY <1>3 DEF StartRun, Carry, CancelPending, WriteRecord, pool
  <1>4. ASSUME NEW q \in Process,
               RunFails(q) \/ WriteRecordFails(q) \/ Unlink(q) \/ Crash(q)
        PROVE  FALSE
    BY <1>1, <1>4 DEF RunFails, WriteRecordFails, Unlink, Crash
  <1>5. ~UNCHANGED vars
    BY DEF vars, pool
  <1> QED
    BY <1>2, <1>3, <1>4, <1>5 DEF Next, Proceed

\* However many processes judge a package, each asks the model only about
\* windows for which it holds nothing (run_analysis: "must buy only those").
THEOREM OnlyTheMissingIsAsked == Spec => BuysOnlyMissing
  <1>1. Init => TypeOK /\ WholeInv /\ Unasked
    <2>1. Init => Unasked
      BY DEF Init, Unasked, In
    <2> QED
      BY <2>1, InitType, InitWhole
  <1>2. TypeOK /\ WholeInv /\ Unasked /\ [Next]_vars
            => (TypeOK /\ WholeInv /\ Unasked)'
    BY NextType, NextWhole, NextUnasked
  <1>3. TypeOK /\ WholeInv /\ Unasked /\ [Next]_vars
            => [\A p \in Process, w \in Window :
                   answer'[p][w] # answer[p][w] /\ answer'[p][w] # 0 =>
                       results[p][w] = 0]_vars
    <2> SUFFICES ASSUME TypeOK, Unasked, [Next]_vars,
                        NEW p \in Process, NEW w \in Window,
                        answer'[p][w] # answer[p][w], answer'[p][w] # 0
                 PROVE  results[p][w] = 0
      OBVIOUS
    <2> QED
      BY AnswerIsAsked DEF Answered, Unasked, In
  <1> QED
    BY <1>1, <1>2, <1>3, PTL DEF Spec, BuysOnlyMissing

(***************************************************************************)
(* The newest judgement of a window stays, while one process judges and    *)
(* plans agree on what is watched.                                         *)
(***************************************************************************)

\* What the newest judgement of a window needs to know of the numbers at it.
LEMMA NumbersType ==
    ASSUME TypeOK, NEW w \in Window
    PROVE  /\ record[w] \in Nat /\ partial[w] \in Nat /\ bought[w] \in Nat
           /\ \A p \in Process : results[p][w] \in Nat /\ answer[p][w] \in Nat
  BY DEF TypeOK

\* A step that leaves files, results and answers alone, and lets no future
\* come to be answered, keeps NewestInv: what is bought only grows.
LEMMA QuietNewest ==
    ASSUME TypeOK, NewestInv, Unasked', UNCHANGED <<disk, pc, judging, results, answer>>,
           \A w \in Window : bought'[w] \in Nat /\ bought[w] <= bought'[w],
           \A p \in Process, w \in Window :
               future'[p][w] = "answered" => future[p][w] = "answered"
    PROVE  NewestInv'
  <1> USE DEF disk
  <1>1. Numbered'
    <2> SUFFICES ASSUME NEW w \in Window
                 PROVE  /\ record[w] <= bought'[w] + Old
                        /\ partial[w] <= bought'[w] + Old
                        /\ \A p \in Process : /\ results[p][w] <= bought'[w] + Old
                                              /\ answer[p][w] <= bought'[w] + Old
      BY DEF Numbered
    <2> QED
      BY NumbersType DEF NewestInv, Numbered, Old
  <1>2. NoneOlder'
    BY DEF NewestInv, NoneOlder
  <1>3. HeldAsWritten'
    BY DEF NewestInv, HeldAsWritten, Held, Analysed, Only
  <1> QED
    BY <1>1, <1>2, <1>3 DEF NewestInv

\* A process that ends leaves its files as they were, or without the total.
LEMMA ForgetNewest ==
    ASSUME TypeOK, Alone, NewestInv, NEW p \in Process, Forget(p), UNCHANGED record,
           partial' = partial \/ partial' = None,
           \A w \in Window : bought'[w] \in Nat /\ bought[w] <= bought'[w]
    PROVE  NewestInv'
  <1>1. \A q \in Process : q = p
    BY DEF Alone
  <1>2. /\ pc'[p] = "idle"
        /\ \A w \in Window : /\ results'[p][w] = 0 /\ answer'[p][w] = 0
                             /\ future'[p][w] = "none"
                             /\ partial'[w] \in {0, partial[w]}
    BY DEF Forget, TypeOK, None
  <1>3. Numbered'
    <2> SUFFICES ASSUME NEW w \in Window
                 PROVE  /\ record[w] <= bought'[w] + Old
                        /\ partial'[w] <= bought'[w] + Old
                        /\ 0 <= bought'[w] + Old
      BY <1>1, <1>2 DEF Numbered
    <2> QED
      BY <1>2, NumbersType DEF NewestInv, Numbered, Old
  <1>4. NoneOlder'
    BY <1>1, <1>2 DEF NewestInv, NoneOlder
  <1>5. HeldAsWritten'
    BY <1>1, <1>2 DEF HeldAsWritten
  <1>6. Unasked'
    BY ForgetUnasked DEF NewestInv
  <1> QED
    BY <1>3, <1>4, <1>5, <1>6 DEF NewestInv

\* What a step of a judgement leaves alone.
LEMMA JudgeAt ==
    ASSUME TypeOK, Alone, WholeInv, KeptInv,
           NEW p \in Process, NEW w \in Window, Judge(p, w)
    PROVE  /\ UNCHANGED <<record, pc, judging>>
           /\ pc[p] = "judging"
           /\ \A v \in Window : v # w => future'[p][v] = future[p][v]
  <1>1. UNCHANGED <<record, pc, judging>>
    BY JudgeFrame
  <1>2. /\ future[p][w] \in Running \cup {"queued"}
        /\ \A v \in Window : v # w => future'[p][v] = future[p][v]
    BY JudgeFuture DEF TypeOK
  <1>3. pc[p] \notin {"idle", "carry"}
    BY <1>2 DEF WholeInv, Unsubmitted, Running
  <1>4. pc[p] # "unlinking"
    BY <1>2 DEF KeptInv, UnlinkCovered, In
  <1> QED
    BY <1>1, <1>2, <1>3, <1>4 DEF TypeOK

\* A step of a window's judgement keeps NewestInv.
LEMMA JudgeNewest ==
    ASSUME TypeOK, Alone, WholeInv, KeptInv, NewestInv,
           NEW p \in Process, NEW w \in Window, Judge(p, w)
    PROVE  NewestInv'
  <1>1. \A q \in Process : q = p
    BY DEF Alone
  <1>2. /\ UNCHANGED <<record, pc, judging>>
        /\ pc[p] = "judging"
        /\ \A v \in Window : v # w => future'[p][v] = future[p][v]
    BY JudgeAt
  <1>3. Unasked'
    BY JudgeUnasked DEF NewestInv
  <1>4. CASE Answered(p, w)
    <2>1. /\ UNCHANGED <<record, partial, results>>
          /\ future[p][w] = "asking"
          /\ bought'[w] = bought[w] + 1
          /\ answer'[p][w] = bought[w] + 1 + Old
          /\ \A v \in Window : v # w => /\ bought'[v] = bought[v]
                                        /\ answer'[p][v] = answer[p][v]
      BY <1>4 DEF Answered, disk, Charged, TypeOK
    <2>2. Numbered'
      <3> SUFFICES ASSUME NEW v \in Window
                   PROVE  /\ record[v] <= bought'[v] + Old
                          /\ partial[v] <= bought'[v] + Old
                          /\ results[p][v] <= bought'[v] + Old
                          /\ answer'[p][v] <= bought'[v] + Old
        BY <1>1, <2>1 DEF Numbered
      <3>1. CASE v = w
        BY <2>1, <3>1, NumbersType DEF NewestInv, Numbered, Old
      <3>2. CASE v # w
        BY <2>1, <3>2 DEF NewestInv, Numbered
      <3> QED
        BY <3>1, <3>2
    <2>3. record[w] <= answer'[p][w]
      BY <2>1, NumbersType DEF NewestInv, Numbered, Old
    <2>4. NoneOlder'
      BY <1>1, <1>2, <2>1, <2>3 DEF NewestInv, NoneOlder
    <2>5. HeldAsWritten'
      BY <1>1, <1>2, <2>1 DEF NewestInv, HeldAsWritten, Held
    <2> QED
      BY <1>3, <2>2, <2>4, <2>5 DEF NewestInv
  <1>5. CASE TakeLock(p, w)
    <2>1. /\ UNCHANGED <<record, partial, bought, answer>>
          /\ future[p][w] = "answered"
          /\ future'[p][w] = "writing"
          /\ results'[p][w] = answer[p][w]
          /\ \A v \in Window : v # w => results'[p][v] = results[p][v]
      BY <1>5 DEF TakeLock, Becomes, disk, ledger, TypeOK
    <2>2. results[p][w] = 0
      BY <2>1 DEF NewestInv, Unasked, In
    <2>3. Numbered'
      BY <1>1, <2>1 DEF NewestInv, Numbered
    <2>4. NoneOlder'
      BY <1>1, <1>2, <2>1 DEF NewestInv, NoneOlder
    <2>5. w \notin Held(partial)
      BY <1>2, <2>2 DEF NewestInv, HeldAsWritten, Held
    <2>6. HeldAsWritten'
      BY <1>1, <1>2, <2>1, <2>5 DEF NewestInv, HeldAsWritten, Held
    <2> QED
      BY <1>3, <2>3, <2>4, <2>6 DEF NewestInv
  <1>6. CASE Replace(p, w)
    <2>1. /\ UNCHANGED <<record, results, bought, answer>>
          /\ future'[p][w] = "kept"
          /\ \A v \in Window : partial'[v] \in {0, results[p][v]}
      BY <1>6 DEF Replace, Becomes, ledger, Only, TypeOK
    <2>2. Numbered'
      <3> SUFFICES ASSUME NEW v \in Window PROVE partial'[v] <= bought[v] + Old
        BY <2>1 DEF NewestInv, Numbered
      <3> QED
        BY <2>1, NumbersType DEF NewestInv, Numbered, Old
    <2>3. NoneOlder'
      BY <1>1, <1>2, <2>1 DEF NewestInv, NoneOlder
    <2>4. HeldAsWritten'
      BY <1>1, <1>2, <2>1 DEF HeldAsWritten, Held
    <2> QED
      BY <1>3, <2>2, <2>3, <2>4 DEF NewestInv
  <1>7. CASE ~Answered(p, w) /\ ~TakeLock(p, w) /\ ~Replace(p, w)
    <2>1. UNCHANGED <<partial, results>>
      BY <1>7, QuietFrame
    <2>2. answer' = answer
      BY <1>7 DEF Judge, Claim, Upload, CopyOrUploadFails, AskAgain, AskFails,
                  ReplaceFails
    <2>3. bought' = bought \/ bought' = Charged(bought, {w})
      BY <1>7 DEF Judge, Claim, Upload, CopyOrUploadFails, AskAgain, AskFails,
                  ReplaceFails, PerhapsBilled, ledger
    <2>4. \A v \in Window : bought'[v] \in Nat /\ bought[v] <= bought'[v]
      BY <2>3, NumbersType DEF Charged
    <2>5. future'[p][w] # "answered"
      BY <1>7 DEF Judge, Claim, Upload, CopyOrUploadFails, AskAgain, AskFails,
                  ReplaceFails, Becomes, TypeOK
    <2> QED
      BY <1>1, <1>2, <1>3, <2>1, <2>2, <2>4, <2>5, QuietNewest DEF disk
  <1> QED
    BY <1>4, <1>5, <1>6, <1>7

\* The record is written from results that are none of them older.
LEMMA RecordNewest ==
    ASSUME TypeOK, Alone, WholeInv, KeptInv, NewestInv, NEW p \in Process,
           WriteRecord(p)
    PROVE  /\ NewestInv'
           /\ \A w \in Window : partial[w] = 0 => record[w] <= record'[w]
  <1>1. \A q \in Process : q = p
    BY DEF Alone
  <1>2. /\ UNCHANGED <<partial, results, judging, future, answer, bought>>
        /\ pc[p] = "judging" /\ pc'[p] = "unlinking"
        /\ record' = Analysed(p)
        /\ judging[p] = In(p, {"kept", "carried"})
    BY DEF WriteRecord, AllJudged, pool, asked, ledger, TypeOK
  <1>3. \A w \in Window : /\ future[p][w] # "answered"
                          /\ w \in judging[p] => results[p][w] # 0
                          /\ w \notin judging[p] => results[p][w] = 0
    <2>1. \A w \in Window : w \notin judging[p] => future[p][w] = "none"
      BY DEF KeptInv, ResultsPlanned, In, TypeOK
    <2>2. \A w \in Window : w \notin judging[p] => results[p][w] = 0
      BY DEF KeptInv, ResultsPlanned, Held
    <2>3. \A w \in judging[p] : w \in Window /\ future[p][w] \in {"kept", "carried"}
      BY <1>2 DEF In
    <2> QED
      BY <2>1, <2>2, <2>3 DEF WholeInv, ResultsHeld
  <1>4. \A w \in Window : record'[w] = results[p][w]
    BY <1>2, <1>3 DEF Analysed, Only
  <1>5. Unasked'
    BY <1>2 DEF NewestInv, Unasked, In
  <1>6. Numbered'
    BY <1>1, <1>2, <1>4 DEF NewestInv, Numbered
  <1>7. HeldAsWritten'
    BY <1>1, <1>2 DEF NewestInv, HeldAsWritten, Held, Analysed
  <1>8. NoneOlder'
    <2>1. \A w \in Window : partial[w] # 0 => record'[w] = partial[w]
      BY <1>2, <1>4 DEF NewestInv, HeldAsWritten, Held
    <2>2. \A w \in Window : partial[w] # 0 => record'[w] <= partial[w]
      BY <2>1, NumbersType
    <2>3. \A w \in Window : record'[w] <= results[p][w]
      BY <1>4, NumbersType
    <2> QED
      BY <1>1, <1>2, <1>3, <2>2, <2>3 DEF NoneOlder
  <1>9. \A w \in Window : record[w] <= record'[w]
    <2> SUFFICES ASSUME NEW w \in Window PROVE record[w] <= record'[w]
      OBVIOUS
    <2>1. CASE w \in judging[p]
      BY <1>3, <1>4, <2>1 DEF NewestInv, NoneOlder
    <2>2. CASE w \notin judging[p]
      <3>1. Exists(record) => Held(record) = judging[p]
        BY <1>2 DEF WholeInv, RecordWhole, Planned, Alone
      <3>2. record[w] = 0
        BY <2>2, <3>1 DEF Exists, Held
      <3> QED
        BY <1>3, <1>4, <2>2, <3>2
    <2> QED
      BY <2>1, <2>2
  <1> QED
    BY <1>5, <1>6, <1>7, <1>8, <1>9 DEF NewestInv

\* NewestInv holds initially: what an older program left bears the lowest number.
LEMMA InitNewest == Init => NewestInv
  <1> SUFFICES ASSUME Init PROVE NewestInv
    OBVIOUS
  <1>1. \A w \in Window : record[w] \in {0, 1} /\ bought[w] = record[w] /\ partial[w] = 0
    BY DEF Init, None, Old
  <1>2. \A p \in Process :
            /\ pc[p] = "idle"
            /\ \A w \in Window : /\ results[p][w] = 0 /\ answer[p][w] = 0
                                 /\ future[p][w] = "none"
    BY DEF Init, None
  <1>3. Unasked /\ HeldAsWritten
    BY <1>2 DEF Unasked, HeldAsWritten, In
  <1>4. Numbered /\ NoneOlder
    BY <1>1, <1>2 DEF Numbered, NoneOlder, Old
  <1> QED
    BY <1>3, <1>4 DEF NewestInv

\* Every step keeps NewestInv.
LEMMA NextNewest ==
    ASSUME Alone
    PROVE  TypeOK /\ WholeInv /\ KeptInv /\ NewestInv /\ [Next]_vars => NewestInv'
  <1> SUFFICES ASSUME TypeOK, WholeInv, KeptInv, NewestInv, [Next]_vars
               PROVE  NewestInv'
    OBVIOUS
  <1>0. Unasked'
    BY NextUnasked DEF NewestInv
  <1>1. ASSUME NEW p \in Process, StartRun(p) PROVE NewestInv'
    <2>1. \A q \in Process : q = p
      BY DEF Alone
    <2>2. PICK plan \in Plans : results'[p] = Only(partial, Watched(plan))
      BY <1>1 DEF StartRun, TypeOK
    <2>3. /\ UNCHANGED <<record, partial, future, answer, bought>>
          /\ pc'[p] = "carry"
      BY <1>1 DEF StartRun, TypeOK, disk, pool
    <2>4. \A w \in Window : results'[p][w] = partial[w]
      BY <2>2 DEF KeptInv, PartialPlanned, Held, Only, TypeOK
    <2>5. Numbered'
      BY <2>1, <2>3, <2>4 DEF NewestInv, Numbered
    <2>6. NoneOlder'
      BY <2>1, <2>3, <2>4 DEF NewestInv, NoneOlder
    <2>7. HeldAsWritten'
      BY <2>1, <2>3, <2>4 DEF HeldAsWritten, Held
    <2> QED
      BY <1>0, <2>5, <2>6, <2>7 DEF NewestInv
  <1>2. ASSUME NEW p \in Process, Carry(p) PROVE NewestInv'
    <2>1. \A q \in Process : q = p
      BY DEF Alone
    <2>2. /\ UNCHANGED <<record, partial, answer, bought>>
          /\ pc[p] = "carry" /\ pc'[p] = "judging"
          /\ results'[p] = CarriedOver(p)
          /\ future'[p] = Submitted(p, CarriedOver(p))
      BY <1>2 DEF Carry, TypeOK, disk, ledger
    <2>3. \A w \in Window :
            /\ results[p][w] # 0 => results'[p][w] = results[p][w]
            /\ results'[p][w] \in {results[p][w], record[w]}
            /\ future'[p][w] # "answered"
      BY <2>2 DEF CarriedOver, Submitted
    <2>4. Numbered'
      <3> SUFFICES ASSUME NEW w \in Window PROVE results'[p][w] <= bought[w] + Old
        BY <2>1, <2>2 DEF NewestInv, Numbered
      <3> QED
        BY <2>3 DEF NewestInv, Numbered
    <2>5. NoneOlder'
      <3> SUFFICES ASSUME NEW w \in Window, results'[p][w] # 0
                   PROVE  record[w] <= results'[p][w]
        BY <2>1, <2>2, <2>3 DEF NewestInv, NoneOlder
      <3> QED
        BY <2>3, NumbersType DEF NewestInv, NoneOlder
    <2>6. HeldAsWritten'
      BY <2>1, <2>2, <2>3 DEF NewestInv, HeldAsWritten, Held
    <2> QED
      BY <1>0, <2>4, <2>5, <2>6 DEF NewestInv
  <1>3. ASSUME NEW p \in Process, NEW w \in Window, Judge(p, w) PROVE NewestInv'
    BY <1>3, JudgeNewest
  <1>4. ASSUME NEW p \in Process, CancelPending(p) PROVE NewestInv'
    <2>1. /\ UNCHANGED <<disk, pc, judging, results, answer, bought>>
          /\ \A q \in Process, w \in Window :
                 future'[q][w] \in {future[q][w], "cancelled"}
      BY <1>4 DEF CancelPending, asked, ledger, TypeOK
    <2>2. \A w \in Window : bought'[w] \in Nat /\ bought[w] <= bought'[w]
      BY <2>1, NumbersType
    <2> QED
      BY <1>0, <2>1, <2>2, QuietNewest
  <1>5. ASSUME NEW p \in Process, RunFails(p) \/ WriteRecordFails(p) \/ Unlink(p)
                                    \/ Crash(p)
        PROVE NewestInv'
    <2>1. Forget(p) /\ UNCHANGED record /\ (partial' = partial \/ partial' = None)
      BY <1>5 DEF RunFails, WriteRecordFails, Unlink, Crash, disk
    <2>2. bought' = bought \/ \E billed : bought' = Charged(bought, billed)
      BY <1>5 DEF RunFails, WriteRecordFails, Unlink, Crash, ledger
    <2>3. \A w \in Window : bought'[w] \in Nat /\ bought[w] <= bought'[w]
      BY <2>2, NumbersType DEF Charged
    <2> QED
      BY <2>1, <2>3, ForgetNewest
  <1>6. ASSUME NEW p \in Process, WriteRecord(p) PROVE NewestInv'
    BY <1>6, RecordNewest
  <1>7. CASE UNCHANGED vars
    <2>1. UNCHANGED <<disk, pc, judging, results, answer, bought, future>>
      BY <1>7 DEF vars, pool, asked, ledger
    <2>2. \A w \in Window : bought'[w] \in Nat /\ bought[w] <= bought'[w]
      BY <2>1, NumbersType
    <2> QED
      BY <1>0, <2>1, <2>2, QuietNewest
  <1> QED
    BY <1>1, <1>2, <1>3, <1>4, <1>5, <1>6, <1>7 DEF Next, Proceed

\* What a rerun would carry of a window is never replaced by what is older: by
\* the running total, the record or the removal of the running total.
LEMMA StepNewest ==
    ASSUME Alone, TypeOK, WholeInv, KeptInv, NewestInv, [Next]_vars, NEW w \in Window
    PROVE  WouldCarry(w)' >= WouldCarry(w)
  <1>1. /\ record[w] \in Nat /\ partial[w] \in Nat
        /\ \A p \in Process : results[p][w] \in Nat
    BY NumbersType
  <1>2. ASSUME UNCHANGED <<record, partial>>
        PROVE  WouldCarry(w)' >= WouldCarry(w)
    BY <1>1, <1>2 DEF WouldCarry
  <1>3. ASSUME NEW p \in Process, NEW v \in Window, Replace(p, v)
        PROVE  WouldCarry(w)' >= WouldCarry(w)
    <2>1. v \in In(p, {"writing"})
      BY <1>3 DEF Replace, In
    <2>2. /\ record' = record
          /\ partial'[w] = IF w \in snapshot[p][v] THEN results[p][w] ELSE 0
      BY <1>3 DEF Replace, Only
    <2>3. CASE partial[w] # 0
      <3>1. w \in snapshot[p][v]
        BY <2>1, <2>3 DEF KeptInv, WriterCovers, Held
      <3>2. pc[p] # "idle"
        BY <2>1 DEF WholeInv, Unsubmitted, In
      <3>3. results[p][w] = partial[w]
        BY <2>3, <3>2 DEF NewestInv, HeldAsWritten, Held
      <3> QED
        BY <1>1, <2>2, <2>3, <3>1, <3>3 DEF WouldCarry
    <2>4. CASE partial[w] = 0
      <3>1. partial'[w] # 0 => record[w] <= partial'[w]
        BY <2>2 DEF NewestInv, NoneOlder
      <3>2. partial'[w] \in Nat
        BY <1>1, <2>2
      <3> QED
        BY <1>1, <2>2, <2>4, <3>1, <3>2 DEF WouldCarry
    <2> QED
      BY <2>3, <2>4
  <1>4. ASSUME NEW p \in Process, WriteRecord(p)
        PROVE  WouldCarry(w)' >= WouldCarry(w)
    <2>1. /\ partial' = partial
          /\ partial[w] = 0 => record[w] <= record'[w]
      BY <1>4, RecordNewest DEF WriteRecord
    <2>2. record'[w] \in Nat
      BY NextType DEF TypeOK
    <2> QED
      BY <1>1, <2>1, <2>2 DEF WouldCarry
  <1>5. ASSUME NEW p \in Process, Unlink(p)
        PROVE  WouldCarry(w)' >= WouldCarry(w)
    <2>1. /\ record' = record /\ partial'[w] = 0
          /\ pc[p] = "unlinking"
      BY <1>5 DEF Unlink, None
    <2>2. partial[w] # 0 => record[w] = partial[w]
      <3> SUFFICES ASSUME partial[w] # 0 PROVE record[w] = partial[w]
        OBVIOUS
      <3>1. results[p][w] = partial[w] /\ record = Analysed(p)
        BY <2>1 DEF NewestInv, HeldAsWritten, Held
      <3>2. w \in judging[p]
        BY <3>1 DEF KeptInv, ResultsPlanned, Held
      <3> QED
        BY <3>1, <3>2 DEF Analysed, Only
    <2> QED
      BY <1>1, <2>1, <2>2 DEF WouldCarry
  <1>6. ASSUME NEW p \in Process, NEW v \in Window, Judge(p, v), ~Replace(p, v)
        PROVE  UNCHANGED <<record, partial>>
    <2>1. CASE TakeLock(p, v)
      BY <2>1 DEF TakeLock, disk
    <2>2. CASE ~TakeLock(p, v)
      BY <1>6, <2>2, QuietFrame, JudgeFrame
    <2> QED
      BY <2>1, <2>2
  <1>7. ASSUME NEW p \in Process,
               \/ StartRun(p) \/ Carry(p) \/ CancelPending(p) \/ RunFails(p)
               \/ WriteRecordFails(p) \/ Crash(p)
        PROVE  UNCHANGED <<record, partial>>
    BY <1>7 DEF StartRun, Carry, CancelPending, RunFails, WriteRecordFails, Crash,
                disk
  <1>8. CASE UNCHANGED vars
    BY <1>2, <1>8 DEF vars, disk
  <1> QED
    BY <1>2, <1>3, <1>4, <1>5, <1>6, <1>7, <1>8 DEF Next, Proceed

\* While one process judges, and plans agree on what is watched, the judgement a
\* refresh bought is not replaced by the one it replaced, whatever fails between
\* the two files.
THEOREM NewestIsKept ==
    ASSUME Alone
    PROVE  Spec => NewestStays
  <1>1. Init => TypeOK /\ WholeInv /\ KeptInv /\ NewestInv
    BY InitType, InitWhole, InitKept, InitNewest
  <1>2. TypeOK /\ WholeInv /\ KeptInv /\ NewestInv /\ [Next]_vars
            => (TypeOK /\ WholeInv /\ KeptInv /\ NewestInv)'
    BY NextType, NextWhole, NextKept, NextNewest
  <1>3. TypeOK /\ WholeInv /\ KeptInv /\ NewestInv /\ [Next]_vars
            => [\A w \in Window : WouldCarry(w)' >= WouldCarry(w)]_vars
    BY StepNewest
  <1> QED
    BY <1>1, <1>2, <1>3, PTL DEF Spec, NewestStays

-----------------------------------------------------------------------------

(***************************************************************************)
(* The ledger: while one process judges and plans agree on what is         *)
(* watched, AnalysisRun implements Purchase, for every set of windows and  *)
(* every size of the pool.                                                 *)
(***************************************************************************)

(***************************************************************************)
(* Charging an account.                                                    *)
(***************************************************************************)

\* The windows charged owe one more, the others what they owed.
LEMMA ChargedAt ==
    ASSUME NEW account \in [Window -> Nat], NEW S, NEW w \in Window
    PROVE  /\ w \in S => Charged(account, S)[w] = account[w] + 1
           /\ w \notin S => Charged(account, S)[w] = account[w]
  BY DEF Charged

\* A request that failed was billed and lost, or neither.
LEMMA PerhapsBilledAt ==
    ASSUME TypeOK, NEW w \in Window, PerhapsBilled(w), UNCHANGED refreshes,
           NEW v \in Window
    PROVE  \/ bought'[v] = bought[v] /\ Excuses(v)' = Excuses(v)
           \/ bought'[v] = bought[v] + 1 /\ Excuses(v)' = Excuses(v) + 1
  <1>1. bought[v] \in Nat /\ lost[v] \in Nat /\ refreshes[v] \in Nat
    BY DEF TypeOK
  <1>2. CASE UNCHANGED <<bought, lost>>
    BY <1>2 DEF Excuses
  <1>3. CASE bought' = Charged(bought, {w}) /\ lost' = Charged(lost, {w})
    <2>1. /\ bought'[v] = IF v = w THEN bought[v] + 1 ELSE bought[v]
          /\ lost'[v] = IF v = w THEN lost[v] + 1 ELSE lost[v]
          /\ refreshes'[v] = refreshes[v]
      BY <1>3 DEF Charged
    <2>2. /\ Excuses(v)' = lost'[v] + refreshes'[v]
          /\ Excuses(v) = lost[v] + refreshes[v]
      BY DEF Excuses
    <2> QED
      BY <1>1, <2>1, <2>2
  <1> QED
    BY <1>2, <1>3 DEF PerhapsBilled

(***************************************************************************)
(* The ledger's invariant.                                                 *)
(***************************************************************************)

\* Everything TLC found inductive, together.
Inv == TypeOK /\ WholeInv /\ KeptInv /\ LedgerInv

\* At the start what is held is an older program's record, bought once.
LEMMA InitLedger == Init => LedgerInv
  <1> SUFFICES ASSUME Init PROVE LedgerInv
    OBVIOUS
  <1>1. \A w \in Window : /\ lost[w] = 0 /\ refreshes[w] = 0 /\ partial[w] = 0
                          /\ bought[w] = record[w] /\ record[w] \in {0, 1}
    BY DEF Init, None, Old
  <1>2. \A p \in Process :
            /\ pc[p] = "idle"
            /\ \A w \in Window : /\ answer[p][w] = 0 /\ results[p][w] = 0
                                  /\ future[p][w] = "none"
    BY DEF Init, None
  <1>3. ChargedOnce
    BY <1>1 DEF ChargedOnce, Excuses
  <1>4. DueIsExcused
    BY <1>1, <1>2 DEF DueIsExcused, Due, Excuses, OnDisk
  <1>5. AnswersInHand /\ UnlinkWhole
    BY <1>2 DEF AnswersInHand, UnlinkWhole
  <1>6. HeldIsBought
    BY <1>1, <1>2 DEF HeldIsBought, OnDisk
  <1> QED
    BY <1>3, <1>4, <1>5, <1>6 DEF LedgerInv

\* A step that buys nothing, forgives nothing and takes no answer in hand
\* away keeps what is due excused, as long as it submits nothing.
LEMMA QuietLedger ==
    ASSUME Alone, Inv, [Next]_vars,
           UNCHANGED <<ledger, answer>>,
           \A p \in Process, w \in Window : Due(p, w)' => Due(p, w)
    PROVE  ChargedOnce' /\ DueIsExcused'
  <1>1. \A w \in Window : Excuses(w)' = Excuses(w) /\ bought'[w] = bought[w]
    BY DEF Excuses, ledger
  <1>2. \A w \in Window : OnDisk(w) => OnDisk(w)'
    BY StepKeeps DEF Inv
  <1>3. ChargedOnce'
    BY <1>1 DEF Inv, LedgerInv, ChargedOnce
  <1>4. DueIsExcused'
    BY <1>1, <1>2 DEF Inv, LedgerInv, DueIsExcused
  <1> QED
    BY <1>3, <1>4

\* A step of a window's judgement: where its process is, and what the step
\* leaves alone of the other windows.
LEMMA JudgeLocal ==
    ASSUME Alone, Inv, NEW p \in Process, NEW w \in Window, Judge(p, w)
    PROVE  /\ pc[p] \notin {"idle", "carry", "unlinking"}
           /\ UNCHANGED <<record, pc, judging, refresh, refreshes>>
           /\ future' = [future EXCEPT ![p][w] = future'[p][w]]
           /\ future'[p][w] \in FutureState
           /\ future[p][w] \in Running \cup {"queued"}
  <1>1. UNCHANGED <<record, pc, judging>>
    BY JudgeFrame
  <1>2. UNCHANGED <<refresh, refreshes>>
    BY DEF Judge, Claim, Upload, CopyOrUploadFails, Answered, AskAgain, AskFails,
           TakeLock, Replace, ReplaceFails, asked, ledger
  <1>3. /\ future[p][w] \in Running \cup {"queued"}
        /\ \E state \in FutureState : future' = [future EXCEPT ![p][w] = state]
    BY JudgeFuture DEF Inv
  <1>4. pc[p] \notin {"idle", "carry"}
    BY <1>3 DEF Inv, WholeInv, Unsubmitted, Running
  <1>5. pc[p] # "unlinking"
    BY <1>3 DEF Inv, KeptInv, UnlinkCovered, In
  <1>6. /\ future' = [future EXCEPT ![p][w] = future'[p][w]]
        /\ future'[p][w] \in FutureState
    <2>1. PICK state \in FutureState : future' = [future EXCEPT ![p][w] = state]
      BY <1>3
    <2>2. future'[p][w] = state
      BY <2>1 DEF Inv, TypeOK
    <2> QED
      BY <2>1, <2>2
  <1> QED
    BY <1>1, <1>2, <1>3, <1>4, <1>5, <1>6

\* What it does to the answers: only an answer puts one in hand.
LEMMA JudgeAnswers ==
    ASSUME Alone, Inv, NEW p \in Process, NEW w \in Window, Judge(p, w)
    PROVE  AnswersInHand' /\ UnlinkWhole'
  <1>1. /\ pc[p] # "unlinking"
        /\ UNCHANGED <<record, pc, judging>>
        /\ future' = [future EXCEPT ![p][w] = future'[p][w]]
    BY JudgeLocal
  <1>2. \A q \in Process : q = p
    BY DEF Alone
  <1>3. UnlinkWhole'
    BY <1>1, <1>2 DEF UnlinkWhole
  <1>4. \A v \in Window : v # w => future'[p][v] = future[p][v]
    BY <1>1 DEF Inv, TypeOK
  <1>5. \A v \in Window : answer[p][v] # 0
            => future[p][v] \in {"answered", "writing", "kept", "failed"}
    BY DEF Inv, LedgerInv, AnswersInHand
  <1>6. SUFFICES ASSUME NEW v \in Window, answer'[p][v] # 0
                 PROVE  future'[p][v] \in {"answered", "writing", "kept", "failed"}
    BY <1>2, <1>3 DEF AnswersInHand
  <1>7. CASE Answered(p, w)
    <2>1. future'[p][w] = "answered"
      BY <1>7 DEF Answered, Becomes, Inv, TypeOK
    <2>2. v # w => answer'[p][v] = answer[p][v]
      BY <1>7 DEF Answered, Inv, TypeOK
    <2> QED
      BY <1>4, <1>5, <1>6, <2>1, <2>2
  <1>8. CASE ~Answered(p, w)
    <2>1. answer' = answer
      BY <1>8 DEF Judge, Claim, Upload, CopyOrUploadFails, AskAgain, AskFails,
                  TakeLock, Replace, ReplaceFails, pool
    <2>2. \/ future[p][w] \in {"queued", "copying", "asking"}
          \/ TakeLock(p, w) \/ Replace(p, w) \/ ReplaceFails(p, w)
      BY <1>8 DEF Judge, Claim, NextQueued, Upload, CopyOrUploadFails, AskAgain,
                  AskFails
    <2>3. CASE TakeLock(p, w) \/ Replace(p, w) \/ ReplaceFails(p, w)
      <3>1. future'[p][w] \in {"writing", "kept", "failed"}
        BY <2>3 DEF TakeLock, Replace, ReplaceFails, Becomes, Inv, TypeOK
      <3> QED
        BY <1>4, <1>5, <1>6, <2>1, <3>1
    <2>4. CASE future[p][w] \in {"queued", "copying", "asking"}
      <3>1. answer[p][w] = 0
        BY <1>5, <2>4
      <3> QED
        BY <1>4, <1>5, <1>6, <2>1, <3>1
    <2> QED
      BY <2>2, <2>3, <2>4
  <1> QED
    BY <1>7, <1>8

\* A step that asks nothing leaves the ledger alone.
LEMMA JudgeQuiet ==
    ASSUME Alone, Inv, NEW p \in Process, NEW w \in Window, Judge(p, w),
           ~Answered(p, w), ~AskAgain(p, w), ~AskFails(p, w)
    PROVE  UNCHANGED <<ledger, answer>> /\ ChargedOnce' /\ DueIsExcused'
  <1>1. UNCHANGED <<ledger, answer>>
    BY DEF Judge, Claim, Upload, CopyOrUploadFails, TakeLock, Replace,
           ReplaceFails, pool
  <1>2. \A q \in Process : q = p
    BY DEF Alone
  <1>3. pc[p] # "carry" /\ UNCHANGED pc
    BY JudgeLocal
  <1>4. \A v \in Window : v # w => future'[p][v] = future[p][v]
    BY JudgeLocal DEF Inv, TypeOK
  <1>5. future'[p][w] \in {"queued", "copying", "asking"}
            => future[p][w] \in {"queued", "copying", "asking"}
    BY DEF Judge, Claim, NextQueued, Upload, CopyOrUploadFails, TakeLock, Replace,
           ReplaceFails, Becomes, Inv, TypeOK
  <1>6. \A q \in Process, v \in Window : Due(q, v)' => Due(q, v)
    BY <1>2, <1>3, <1>4, <1>5 DEF Due
  <1>7. [Next]_vars
    BY DEF Next, Proceed
  <1> QED
    BY <1>1, <1>6, <1>7, QuietLedger

\* A window that is being asked about may be billed once more: there was an
\* excuse to spare.
LEMMA JudgeBilled ==
    ASSUME Alone, Inv, NEW p \in Process, NEW w \in Window, Judge(p, w)
    PROVE  ChargedOnce' /\ DueIsExcused'
  <1> DEFINE Is(v) == bought[v] \in Nat /\ Excuses(v) \in Nat
  <1>1. \A v \in Window : Is(v)
    BY DEF Inv, TypeOK, Excuses
  <1>2. \A q \in Process : q = p
    BY DEF Alone
  <1>3. pc[p] # "carry" /\ UNCHANGED pc
    BY JudgeLocal
  <1>4. \A v \in Window : v # w => future'[p][v] = future[p][v]
    BY JudgeLocal DEF Inv, TypeOK
  <1>5. \A v \in Window : OnDisk(v) => OnDisk(v)'
    BY StepKeeps DEF Inv, Next, Proceed
  <1>6. CASE Answered(p, w)
    <2>1. /\ future[p][w] = "asking"
          /\ UNCHANGED <<lost, refreshes>>
          /\ bought' = Charged(bought, {w})
          /\ future'[p][w] = "answered"
          /\ answer'[p][w] = bought[w] + 1 + Old
          /\ \A v \in Window : v # w => answer'[p][v] = answer[p][v]
      BY <1>6 DEF Answered, Becomes, Inv, TypeOK
    <2>2. \A v \in Window : /\ Excuses(v)' = Excuses(v)
                            /\ v # w => bought'[v] = bought[v]
                            /\ v = w => bought'[v] = bought[v] + 1
      BY <2>1 DEF Excuses, Charged
    <2>3. bought[w] <= Excuses(w)
      BY <2>1 DEF Inv, LedgerInv, DueIsExcused, Due
    <2>4. ChargedOnce'
      BY <1>1, <2>2, <2>3 DEF ChargedOnce, Inv, LedgerInv
    <2>5. answer'[p][w] # 0 /\ ~Due(p, w)'
      BY <1>1, <1>3, <2>1 DEF Due, Old
    <2>6. \A v \in Window : v # w => (Due(p, v)' => Due(p, v))
      BY <1>3, <1>4 DEF Due
    <2>7. DueIsExcused'
      <3>1. SUFFICES ASSUME NEW v \in Window,
                            \/ \E q \in Process : Due(q, v)'
                            \/ ~OnDisk(v)' /\ \A q \in Process : answer'[q][v] = 0
                     PROVE  bought'[v] <= Excuses(v)'
        BY DEF DueIsExcused
      <3>2. v # w
        BY <1>2, <2>5, <3>1
      <3>3. \/ \E q \in Process : Due(q, v)
            \/ ~OnDisk(v) /\ \A q \in Process : answer[q][v] = 0
        BY <1>2, <1>5, <2>1, <2>6, <3>1, <3>2
      <3> QED
        BY <2>2, <3>2, <3>3 DEF Inv, LedgerInv, DueIsExcused
    <2> QED
      BY <2>4, <2>7
  <1>7. CASE AskAgain(p, w) \/ AskFails(p, w)
    <2>1. PerhapsBilled(w) /\ UNCHANGED <<refreshes, answer>>
      BY <1>7 DEF AskAgain, AskFails
    <2>2. \A v \in Window :
            \/ bought'[v] = bought[v] /\ Excuses(v)' = Excuses(v)
            \/ bought'[v] = bought[v] + 1 /\ Excuses(v)' = Excuses(v) + 1
      BY <2>1, PerhapsBilledAt DEF Inv
    <2>3. \A q \in Process, v \in Window : Due(q, v)' => Due(q, v)
      BY <1>2, <1>3, <1>4, <1>7 DEF Due, AskAgain, AskFails, Becomes
    <2>4. ChargedOnce'
      BY <1>1, <2>2 DEF ChargedOnce, Inv, LedgerInv
    <2>5. DueIsExcused'
      BY <1>1, <1>5, <2>1, <2>2, <2>3 DEF DueIsExcused, Inv, LedgerInv
    <2> QED
      BY <2>4, <2>5
  <1> QED
    BY <1>6, <1>7, JudgeQuiet

\* What a step of a judgement holds of a window was bought.
LEMMA JudgeHeld ==
    ASSUME Alone, Inv, NEW p \in Process, NEW w \in Window, Judge(p, w)
    PROVE  HeldIsBought'
  <1>1. \A q \in Process : q = p
    BY DEF Alone
  <1>2. SUFFICES ASSUME NEW v \in Window,
                        OnDisk(v)' \/ answer'[p][v] # 0 \/ results'[p][v] # 0
                 PROVE  bought'[v] > 0
    BY <1>1 DEF HeldIsBought
  <1>3. /\ bought[v] \in Nat
        /\ bought'[v] \in {bought[v], bought[v] + 1}
    <2>1. bought' = bought \/ bought' = Charged(bought, {w})
      BY DEF Judge, Claim, Upload, CopyOrUploadFails, Answered, AskAgain, AskFails,
             TakeLock, Replace, ReplaceFails, PerhapsBilled, ledger
    <2> QED
      BY <2>1 DEF Charged, Inv, TypeOK
  <1>4. /\ UNCHANGED record
        /\ OnDisk(v) \/ answer[p][v] # 0 \/ results[p][v] # 0 => bought'[v] > 0
    <2>1. OnDisk(v) \/ answer[p][v] # 0 \/ results[p][v] # 0 => bought[v] > 0
      BY DEF Inv, LedgerInv, HeldIsBought
    <2> QED
      BY <1>3, <2>1, JudgeFrame
  <1>5. CASE Answered(p, w)
    <2>1. CASE v = w
      BY <1>3, <1>5, <2>1 DEF Answered, Charged, Inv, TypeOK
    <2>2. CASE v # w
      <3>1. OnDisk(v) \/ answer[p][v] # 0 \/ results[p][v] # 0
        BY <1>2, <1>5, <2>2 DEF Answered, disk, OnDisk, Inv, TypeOK
      <3> QED
        BY <1>4, <3>1
    <2> QED
      BY <2>1, <2>2
  <1>6. CASE TakeLock(p, w)
    <2>1. OnDisk(v) \/ answer[p][v] # 0 \/ results[p][v] # 0
      BY <1>2, <1>6 DEF TakeLock, disk, OnDisk, Inv, TypeOK
    <2> QED
      BY <1>4, <2>1
  <1>7. CASE Replace(p, w)
    <2>1. OnDisk(v) \/ answer[p][v] # 0 \/ results[p][v] # 0
      BY <1>2, <1>7 DEF Replace, OnDisk, Only
    <2> QED
      BY <1>4, <2>1
  <1>8. CASE ~Answered(p, w) /\ ~TakeLock(p, w) /\ ~Replace(p, w)
    <2>1. UNCHANGED <<partial, results>>
      BY <1>8, QuietFrame DEF Inv
    <2>2. answer' = answer
      BY <1>8 DEF Judge, Claim, Upload, CopyOrUploadFails, AskAgain, AskFails,
                  ReplaceFails, pool
    <2>3. OnDisk(v) \/ answer[p][v] # 0 \/ results[p][v] # 0
      BY <1>2, <1>4, <2>1, <2>2 DEF OnDisk
    <2> QED
      BY <1>4, <2>3
  <1> QED
    BY <1>5, <1>6, <1>7, <1>8

\* A step of a window's judgement keeps the ledger.
LEMMA JudgeLedger ==
    ASSUME Alone, Inv, NEW p \in Process, NEW w \in Window, Judge(p, w)
    PROVE  LedgerInv'
  BY JudgeAnswers, JudgeBilled, JudgeHeld DEF LedgerInv

\* Starting a run: what is asked for again is forgiven, and nothing is due
\* beside it.
LEMMA StartLedger ==
    ASSUME Alone, Inv, NEW p \in Process, StartRun(p)
    PROVE  LedgerInv'
  <1>1. \A q \in Process : q = p
    BY DEF Alone
  <1>2. PICK again \in SUBSET Window :
          /\ refresh' = [refresh EXCEPT ![p] = again]
          /\ refreshes' = Charged(refreshes, again)
    <2>1. PICK plan \in Plans, overwrite \in BOOLEAN :
            \E again \in SUBSET MayRefresh(plan, overwrite) :
              /\ refresh' = [refresh EXCEPT ![p] = again]
              /\ refreshes' = Charged(refreshes, again)
      BY DEF StartRun
    <2>2. MayRefresh(plan, overwrite) \subseteq Window
      BY PlanAssumption DEF MayRefresh
    <2> QED
      BY <2>1, <2>2
  <1>3. /\ UNCHANGED <<record, partial, future, answer, bought, lost>>
        /\ pc[p] = "idle" /\ pc'[p] = "carry" /\ refresh'[p] = again
    BY <1>2 DEF StartRun, disk, pool, Inv, TypeOK
  <1>4. \A w \in Window : future[p][w] = "none"
    BY <1>3 DEF Inv, WholeInv, Unsubmitted
  <1>5. \A w \in Window :
          /\ bought[w] \in Nat /\ Excuses(w) \in Nat /\ bought'[w] = bought[w]
          /\ Excuses(w)' = IF w \in again THEN Excuses(w) + 1 ELSE Excuses(w)
    BY <1>2, <1>3 DEF Excuses, Charged, Inv, TypeOK
  <1>6. ChargedOnce'
    BY <1>5 DEF ChargedOnce, Inv, LedgerInv
  <1>7. DueIsExcused'
    <2>1. SUFFICES ASSUME NEW w \in Window,
                          \/ Due(p, w)'
                          \/ ~OnDisk(w)' /\ answer'[p][w] = 0
                   PROVE  bought'[w] <= Excuses(w)'
      BY <1>1 DEF DueIsExcused
    <2>2. CASE w \in again
      BY <1>5, <2>2 DEF Inv, LedgerInv, ChargedOnce
    <2>3. CASE w \notin again
      <3>1. ~Due(p, w)'
        BY <1>3, <1>4, <2>3 DEF Due
      <3>2. ~OnDisk(w) /\ answer[p][w] = 0
        BY <1>3, <2>1, <3>1 DEF OnDisk
      <3> QED
        BY <1>1, <1>5, <2>3, <3>2 DEF Inv, LedgerInv, DueIsExcused
    <2> QED
      BY <2>2, <2>3
  <1>8. AnswersInHand' /\ UnlinkWhole'
    BY <1>1, <1>3 DEF AnswersInHand, UnlinkWhole, Inv, LedgerInv
  <1>9. HeldIsBought'
    <2>1. \A w \in Window : results'[p][w] # 0 => OnDisk(w)
      BY DEF StartRun, Only, OnDisk, Inv, TypeOK
    <2> QED
      BY <1>1, <1>3, <2>1 DEF HeldIsBought, OnDisk, Inv, LedgerInv
  <1> QED
    BY <1>6, <1>7, <1>8, <1>9 DEF LedgerInv

\* Carrying over: what is submitted is what was asked for again or what
\* nobody holds.
LEMMA CarryLedger ==
    ASSUME Alone, Inv, NEW p \in Process, Carry(p)
    PROVE  LedgerInv'
  <1>1. \A q \in Process : q = p
    BY DEF Alone
  <1>2. /\ pc[p] = "carry" /\ pc'[p] = "judging"
        /\ future'[p] = Submitted(p, CarriedOver(p))
        /\ results'[p] = CarriedOver(p)
        /\ UNCHANGED <<record, partial, answer, bought, lost, refreshes, judging>>
    BY DEF Carry, disk, asked, ledger, Inv, TypeOK
  <1>3. \A w \in Window : future[p][w] = "none" /\ answer[p][w] = 0
    BY <1>2 DEF Inv, WholeInv, Unsubmitted, LedgerInv, AnswersInHand
  <1>4. \A w \in Window : Excuses(w)' = Excuses(w) /\ OnDisk(w)' = OnDisk(w)
    BY <1>2 DEF Excuses, OnDisk
  <1>5. ChargedOnce'
    BY <1>2, <1>4 DEF ChargedOnce, Inv, LedgerInv
  <1>6. DueIsExcused'
    <2>1. SUFFICES ASSUME NEW w \in Window,
                          \/ Due(p, w)'
                          \/ ~OnDisk(w)' /\ answer'[p][w] = 0
                   PROVE  bought[w] <= Excuses(w)
      BY <1>1, <1>2, <1>4 DEF DueIsExcused
    <2>2. CASE ~OnDisk(w)
      BY <1>1, <1>3, <2>2 DEF Inv, LedgerInv, DueIsExcused
    <2>3. CASE OnDisk(w)
      <3>1. w \in judging[p] /\ CarriedOver(p)[w] = 0
        BY <1>2, <1>4, <2>1, <2>3 DEF Due, Submitted
      <3>2. results[p][w] = 0
        BY <3>1 DEF CarriedOver
      <3>3. partial[w] = 0
        BY <1>2, <3>2 DEF Inv, KeptInv, PartialCarried, Held
      <3>4. w \in refresh[p]
        BY <2>3, <3>1, <3>2, <3>3 DEF CarriedOver, OnDisk
      <3> QED
        BY <1>2, <3>4 DEF Due, Inv, LedgerInv, DueIsExcused
    <2> QED
      BY <2>2, <2>3
  <1>7. AnswersInHand' /\ UnlinkWhole'
    BY <1>1, <1>2, <1>3 DEF AnswersInHand, UnlinkWhole
  <1>8. HeldIsBought'
    <2>1. \A w \in Window : results'[p][w] # 0 => results[p][w] # 0 \/ OnDisk(w)
      BY <1>2 DEF CarriedOver, OnDisk
    <2> QED
      BY <1>1, <1>2, <1>4, <2>1 DEF HeldIsBought, Inv, LedgerInv
  <1> QED
    BY <1>5, <1>6, <1>7, <1>8 DEF LedgerInv

\* A process that ends accounts for what it leaves unwritten.
LEMMA ForgetLedger ==
    ASSUME Alone, Inv, NEW p \in Process, Forget(p),
           NEW billed \in SUBSET In(p, {"asking"}), NEW gone \in SUBSET Window,
           billed \cup Unwritten(p) = gone,
           bought' = Charged(bought, billed), lost' = Charged(lost, gone),
           UNCHANGED <<record, partial, refreshes>>
    PROVE  LedgerInv'
  <1>1. \A q \in Process : q = p
    BY DEF Alone
  <1>2. pc'[p] = "idle" /\ \A w \in Window : /\ future'[p][w] = "none"
                                            /\ answer'[p][w] = 0
                                            /\ results'[p][w] = 0
    BY DEF Forget, None, Inv, TypeOK
  <1>3. \A w \in Window : ~Due(p, w)' /\ OnDisk(w)' = OnDisk(w)
    BY <1>2 DEF Due, OnDisk
  <1>4. \A w \in Window :
          /\ bought[w] \in Nat /\ Excuses(w) \in Nat
          /\ bought'[w] = IF w \in billed THEN bought[w] + 1 ELSE bought[w]
          /\ Excuses(w)' = IF w \in gone THEN Excuses(w) + 1 ELSE Excuses(w)
    BY DEF Excuses, Charged, Inv, TypeOK
  <1>5. billed \subseteq gone
    OBVIOUS
  <1>6. ChargedOnce'
    BY <1>4, <1>5 DEF ChargedOnce, Inv, LedgerInv
  <1>7. DueIsExcused'
    <2>1. SUFFICES ASSUME NEW w \in Window, ~OnDisk(w)
                   PROVE  bought'[w] <= Excuses(w)'
      BY <1>1, <1>3 DEF DueIsExcused
    <2>2. CASE w \in billed
      <3>1. bought[w] <= Excuses(w)
        BY <2>2 DEF In, Due, Inv, LedgerInv, DueIsExcused
      <3> QED
        BY <1>4, <1>5, <2>2, <3>1
    <2>3. CASE w \notin billed /\ answer[p][w] = 0
      <3>1. bought[w] <= Excuses(w)
        BY <1>1, <2>1, <2>3 DEF Inv, LedgerInv, DueIsExcused
      <3> QED
        BY <1>4, <2>3, <3>1
    <2>4. CASE w \notin billed /\ answer[p][w] # 0
      <3>1. w \in gone
        BY <2>1, <2>4 DEF Unwritten, OnDisk
      <3>2. bought[w] <= 1 + Excuses(w)
        BY DEF Inv, LedgerInv, ChargedOnce
      <3> QED
        BY <1>4, <2>4, <3>1, <3>2
    <2> QED
      BY <2>2, <2>3, <2>4
  <1>8. AnswersInHand' /\ UnlinkWhole'
    BY <1>1, <1>2 DEF AnswersInHand, UnlinkWhole
  <1>9. HeldIsBought'
    BY <1>1, <1>2, <1>3, <1>4 DEF HeldIsBought, Inv, LedgerInv
  <1> QED
    BY <1>6, <1>7, <1>8, <1>9 DEF LedgerInv

\* A run that stops short of its record, or is killed, loses what it had not
\* written, and what of the requests in flight was billed.
LEMMA StopLedger ==
    ASSUME Alone, Inv, NEW p \in Process,
           RunFails(p) \/ WriteRecordFails(p) \/ Crash(p)
    PROVE  LedgerInv'
  <1>1. Unwritten(p) \subseteq Window
    BY DEF Unwritten
  <1>2. CASE RunFails(p) \/ WriteRecordFails(p)
    <2>1. /\ Forget(p) /\ lost' = Charged(lost, Unwritten(p))
          /\ UNCHANGED <<record, partial, bought, refreshes>>
      BY <1>2 DEF RunFails, WriteRecordFails, disk
    <2>2. bought' = Charged(bought, {})
      BY <2>1 DEF Charged, Inv, TypeOK
    <2> QED
      BY <1>1, <2>1, <2>2, ForgetLedger
  <1>3. CASE Crash(p)
    <2>1. PICK billed \in SUBSET In(p, {"asking"}) :
            /\ bought' = Charged(bought, billed)
            /\ lost' = Charged(lost, billed \cup Unwritten(p))
      BY <1>3 DEF Crash
    <2>2. Forget(p) /\ UNCHANGED <<record, partial, refreshes>>
      BY <1>3 DEF Crash, disk
    <2>3. billed \cup Unwritten(p) \in SUBSET Window
      BY <1>1, <2>1 DEF In
    <2> QED
      BY <2>1, <2>2, <2>3, ForgetLedger
  <1> QED
    BY <1>2, <1>3

\* A run that has its record removes a running total it has no more need of.
LEMMA UnlinkLedger ==
    ASSUME Alone, Inv, NEW p \in Process, Unlink(p)
    PROVE  LedgerInv'
  <1>1. \A q \in Process : q = p
    BY DEF Alone
  <1>2. /\ pc[p] = "unlinking" /\ pc'[p] = "idle"
        /\ \A w \in Window : /\ future'[p][w] = "none" /\ answer'[p][w] = 0
                             /\ results'[p][w] = 0
        /\ UNCHANGED <<record, bought, lost, refreshes>>
    BY DEF Unlink, Forget, None, ledger, Inv, TypeOK
  <1>3. \A w \in Window : Excuses(w)' = Excuses(w) /\ ~Due(p, w)'
    BY <1>2 DEF Excuses, Due
  <1>4. \A w \in Window : OnDisk(w)' <=> OnDisk(w)
    <2>1. Held(partial) \subseteq Held(record)
      BY <1>2 DEF Inv, KeptInv, UnlinkCovered
    <2> QED
      BY <1>2, <2>1 DEF Unlink, OnDisk, Held, None
  <1>5. \A w \in Window : answer[p][w] # 0 => OnDisk(w)
    <2>1. Held(record) = judging[p]
      BY <1>2 DEF Inv, LedgerInv, UnlinkWhole
    <2>2. \A w \in Window : answer[p][w] # 0 => w \in In(p, FutureState \ {"none"})
      BY DEF In, FutureState, Running, Inv, LedgerInv, AnswersInHand
    <2> QED
      BY <2>1, <2>2 DEF Inv, KeptInv, ResultsPlanned, OnDisk, Held
  <1>6. ChargedOnce'
    BY <1>2, <1>3 DEF ChargedOnce, Inv, LedgerInv
  <1>7. DueIsExcused'
    BY <1>1, <1>2, <1>3, <1>4, <1>5 DEF DueIsExcused, Inv, LedgerInv
  <1>8. AnswersInHand' /\ UnlinkWhole'
    BY <1>1, <1>2 DEF AnswersInHand, UnlinkWhole
  <1>9. HeldIsBought'
    BY <1>1, <1>2, <1>4 DEF HeldIsBought, Inv, LedgerInv
  <1> QED
    BY <1>6, <1>7, <1>8, <1>9 DEF LedgerInv

\* Writing the record, and cancelling what is queued, buy nothing.
LEMMA SettleLedger ==
    ASSUME Alone, Inv, NEW p \in Process, WriteRecord(p) \/ CancelPending(p)
    PROVE  LedgerInv'
  <1>1. \A q \in Process : q = p
    BY DEF Alone
  <1>2. /\ pc[p] = "judging" /\ pc'[p] # "carry"
        /\ UNCHANGED <<answer, results, judging, partial>>
        /\ UNCHANGED ledger /\ UNCHANGED bought
    BY DEF WriteRecord, CancelPending, disk, pool, asked, ledger, Inv, TypeOK
  <1>3. \A w \in Window : \/ future'[p][w] = future[p][w]
                          \/ future[p][w] = "queued" /\ future'[p][w] = "cancelled"
    BY DEF WriteRecord, CancelPending, pool, Inv, TypeOK
  <1>4. ChargedOnce' /\ DueIsExcused'
    <2>1. \A q \in Process, w \in Window : Due(q, w)' => Due(q, w)
      BY <1>1, <1>2, <1>3 DEF Due
    <2>2. [Next]_vars
      BY DEF Next, Proceed
    <2> QED
      BY <1>2, <2>1, <2>2, QuietLedger
  <1>5. AnswersInHand'
    BY <1>1, <1>2, <1>3 DEF AnswersInHand, Inv, LedgerInv
  <1>6. UnlinkWhole'
    <2>1. CASE WriteRecord(p)
      BY <1>1, <1>2, <2>1, WriteRecordWhole DEF UnlinkWhole, Held, Inv
    <2>2. CASE CancelPending(p)
      BY <1>1, <1>2, <2>2 DEF UnlinkWhole, CancelPending
    <2> QED
      BY <2>1, <2>2
  <1>7. HeldIsBought'
    <2>1. \A w \in Window : OnDisk(w)' => OnDisk(w) \/ results[p][w] # 0
      BY <1>2 DEF WriteRecord, CancelPending, disk, Analysed, Only, OnDisk
    <2> QED
      BY <1>1, <1>2, <2>1 DEF HeldIsBought, Inv, LedgerInv
  <1> QED
    BY <1>4, <1>5, <1>6, <1>7 DEF LedgerInv

\* Every step keeps the ledger.
LEMMA NextLedger ==
    ASSUME Alone
    PROVE  Inv /\ [Next]_vars => LedgerInv'
  <1> SUFFICES ASSUME Inv, [Next]_vars PROVE LedgerInv'
    OBVIOUS
  <1>1. ASSUME NEW p \in Process, StartRun(p) \/ Proceed(p) \/ Crash(p)
        PROVE  LedgerInv'
    BY <1>1, StartLedger, CarryLedger, JudgeLedger, StopLedger, UnlinkLedger,
       SettleLedger DEF Proceed
  <1>2. CASE UNCHANGED vars
    BY <1>2 DEF vars, disk, pool, asked, ledger, Inv, LedgerInv, ChargedOnce,
                DueIsExcused, Due, AnswersInHand, UnlinkWhole, HeldIsBought, Excuses,
                OnDisk, Held
  <1> QED
    BY <1>1, <1>2 DEF Next

\* Every step keeps everything.
LEMMA NextInv ==
    ASSUME Alone
    PROVE  Inv /\ [Next]_vars => Inv'
  BY NextType, NextWhole, NextKept, NextLedger DEF Inv

(***************************************************************************)
(* The refinement.                                                         *)
(***************************************************************************)

\* What the module promises begins where AnalysisRun begins.
LEMMA InitImplements == Init => Judged!Begin
  <1> SUFFICES ASSUME Init PROVE Judged!Begin
    OBVIOUS
  <1>1. Held(record) \in {{}} \cup {Watched(plan) : plan \in Plans}
    BY InitWhole DEF WholeInv, RecordWhole, Exists
  <1>2. {w \in Window : OnDisk(w)} = Held(record)
    BY DEF Init, OnDisk, Held, None
  <1>3. bought = [w \in Window |-> IF w \in Held(record) THEN 1 ELSE 0]
    <2>1. /\ record \in [Window -> Nat] /\ bought = record
          /\ \A w \in Window : record[w] \in {0, 1}
      BY InitType DEF Init, TypeOK, None, Old
    <2> QED
      BY <2>1 DEF Held
  <1>4. [w \in Window |-> lost[w] + refreshes[w]] = [w \in Window |-> 0]
    BY DEF Init, None
  <1> QED
    BY <1>1, <1>2, <1>3, <1>4 DEF Judged!Begin

\* What the module promises of held, finished, spent and excused is promised of
\* these.
OnDiskNow == {w \in Window : OnDisk(w)}
ExcusesNow == [w \in Window |-> lost[w] + refreshes[w]]
Promised == <<OnDiskNow, Held(record), bought, ExcusesNow>>

\* A run that ends short of its record accounts for what is lost: an Excuse.
LEMMA StopExcuses ==
    ASSUME Alone, Inv, NEW p \in Process,
           NEW billed \in SUBSET In(p, {"asking"}),
           bought' = Charged(bought, billed),
           lost' = Charged(lost, billed \cup Unwritten(p)),
           UNCHANGED <<record, partial, refreshes>>
    PROVE  Judged!Excuse
  <1>1. billed \subseteq Window /\ Unwritten(p) \subseteq Window
    BY DEF In, Unwritten
  <1>2. bought' = Judged!Once(bought, billed)
    BY DEF Charged, Judged!Once
  <1>3. ExcusesNow' = Judged!Once(ExcusesNow, billed \cup Unwritten(p))
    BY DEF ExcusesNow, Charged, Judged!Once, Inv, TypeOK
  <1>4. \A w \in (billed \cup Unwritten(p)) \ billed : bought[w] > 0
    BY DEF Unwritten, Inv, LedgerInv, HeldIsBought
  <1>5. OnDiskNow' = OnDiskNow /\ Held(record)' = Held(record)
    BY DEF OnDiskNow, OnDisk, Held
  <1> QED
    BY <1>1, <1>2, <1>3, <1>4, <1>5 DEF Judged!Excuse, OnDiskNow, ExcusesNow

\* A request that failed is an Excuse, or nothing.
LEMMA AskImplements ==
    ASSUME Alone, Inv, NEW p \in Process, NEW w \in Window,
           AskAgain(p, w) \/ AskFails(p, w)
    PROVE  Judged!Excuse \/ UNCHANGED Promised
  <1>1. PerhapsBilled(w) /\ UNCHANGED <<record, partial, refreshes>>
    BY DEF AskAgain, AskFails, disk
  <1>2. OnDiskNow' = OnDiskNow /\ Held(record)' = Held(record)
    BY <1>1 DEF OnDiskNow, OnDisk, Held
  <1>3. CASE UNCHANGED <<bought, lost>>
    BY <1>1, <1>2, <1>3 DEF Promised, ExcusesNow
  <1>4. CASE bought' = Charged(bought, {w}) /\ lost' = Charged(lost, {w})
    <2>1. bought' = Judged!Once(bought, {w})
      BY <1>4 DEF Charged, Judged!Once
    <2>2. ExcusesNow' = Judged!Once(ExcusesNow, {w})
      BY <1>1, <1>4 DEF ExcusesNow, Charged, Judged!Once, Inv, TypeOK
    <2>3. {w} \in SUBSET Window /\ {w} \ {w} = {}
      OBVIOUS
    <2> QED
      BY <1>2, <2>1, <2>2, <2>3 DEF Judged!Excuse, OnDiskNow, ExcusesNow
  <1> QED
    BY <1>1, <1>3, <1>4 DEF PerhapsBilled

\* A step of a window's judgement pays for it, accounts for a loss, keeps an
\* answer, or shows nothing.
LEMMA JudgeImplements ==
    ASSUME Alone, Inv, NEW p \in Process, NEW w \in Window, Judge(p, w)
    PROVE  Judged!Step \/ UNCHANGED Promised
  <1>1. \A v \in Window : OnDisk(v) => OnDisk(v)'
    BY StepKeeps DEF Inv, Next, Proceed
  <1>2. CASE Answered(p, w)
    <2>1. /\ UNCHANGED <<record, partial, lost, refreshes>>
          /\ bought' = Charged(bought, {w})
          /\ future[p][w] = "asking"
      BY <1>2 DEF Answered, disk
    <2>2. bought[w] <= ExcusesNow[w]
      BY <2>1 DEF Due, Excuses, ExcusesNow, Inv, LedgerInv, DueIsExcused
    <2>3. bought' = Judged!Once(bought, {w})
      BY <2>1 DEF Charged, Judged!Once
    <2>4. /\ OnDiskNow' = OnDiskNow /\ Held(record)' = Held(record)
          /\ ExcusesNow' = ExcusesNow
      BY <2>1 DEF OnDiskNow, OnDisk, Held, ExcusesNow
    <2>5. Judged!Pay(w)
      BY <2>2, <2>3, <2>4 DEF Judged!Pay, OnDiskNow, ExcusesNow
    <2> QED
      BY <2>5 DEF Judged!Step
  <1>3. CASE AskAgain(p, w) \/ AskFails(p, w)
    BY <1>3, AskImplements DEF Judged!Step
  <1>4. CASE Replace(p, w)
    <2>1. UNCHANGED <<record, bought, lost, refreshes>>
      BY <1>4 DEF Replace, ledger
    <2>2. \A v \in OnDiskNow' : bought[v] > 0
      BY <2>1, JudgeHeld DEF HeldIsBought, OnDiskNow
    <2>3. OnDiskNow' = OnDiskNow \cup OnDiskNow' /\ OnDiskNow' \in SUBSET Window
      BY <1>1 DEF OnDiskNow
    <2>4. Held(record)' = Held(record) /\ ExcusesNow' = ExcusesNow
      BY <2>1 DEF Held, ExcusesNow
    <2>5. Judged!Keep
      BY <2>1, <2>2, <2>3, <2>4 DEF Judged!Keep, OnDiskNow, ExcusesNow
    <2> QED
      BY <2>5 DEF Judged!Step
  <1>5. CASE ~Answered(p, w) /\ ~AskAgain(p, w) /\ ~AskFails(p, w) /\ ~Replace(p, w)
    <2>1. UNCHANGED <<record, partial, ledger>>
      BY <1>5 DEF Judge, Claim, Upload, CopyOrUploadFails, TakeLock, ReplaceFails,
                  disk
    <2> QED
      BY <2>1 DEF Promised, OnDiskNow, OnDisk, Held, ExcusesNow, ledger
  <1> QED
    BY <1>2, <1>3, <1>4, <1>5

\* Every step is a step of what the module promises, or shows nothing.
LEMMA StepImplements ==
    ASSUME Alone, Inv, [Next]_vars
    PROVE  Judged!Step \/ UNCHANGED Promised
  <1>1. ASSUME NEW p \in Process, StartRun(p) PROVE Judged!Step
    <2>1. PICK plan \in Plans, overwrite \in BOOLEAN :
            \E again \in SUBSET MayRefresh(plan, overwrite) :
              refreshes' = Charged(refreshes, again)
      BY <1>1 DEF StartRun
    <2>2. PICK again \in SUBSET MayRefresh(plan, overwrite) :
            refreshes' = Charged(refreshes, again)
      BY <2>1
    <2>3. again \subseteq Window /\ \A w \in again : record[w] # 0
      BY PlanAssumption DEF MayRefresh, Old
    <2>4. UNCHANGED <<record, partial, bought, lost>>
      BY <1>1 DEF StartRun, disk
    <2>5. bought' = Judged!Once(bought, {})
      BY <2>4 DEF Judged!Once, Inv, TypeOK
    <2>6. ExcusesNow' = Judged!Once(ExcusesNow, again)
      BY <2>2, <2>4 DEF ExcusesNow, Charged, Judged!Once, Inv, TypeOK
    <2>7. \A w \in again \ {} : bought[w] > 0
      BY <2>3 DEF OnDisk, Inv, LedgerInv, HeldIsBought
    <2>8. OnDiskNow' = OnDiskNow /\ Held(record)' = Held(record)
      BY <2>4 DEF OnDiskNow, OnDisk, Held
    <2>9. Judged!Excuse
      BY <2>3, <2>5, <2>6, <2>7, <2>8 DEF Judged!Excuse, OnDiskNow, ExcusesNow
    <2> QED
      BY <2>9 DEF Judged!Step
  <1>2. ASSUME NEW p \in Process, Carry(p) \/ CancelPending(p)
        PROVE  UNCHANGED Promised
    <2>1. UNCHANGED <<record, partial, ledger>>
      BY <1>2 DEF Carry, CancelPending, disk
    <2> QED
      BY <2>1 DEF Promised, OnDiskNow, OnDisk, Held, ExcusesNow, ledger
  <1>3. ASSUME NEW p \in Process, RunFails(p) \/ WriteRecordFails(p) \/ Crash(p)
        PROVE  Judged!Step
    <2>1. CASE RunFails(p) \/ WriteRecordFails(p)
      <3>1. /\ lost' = Charged(lost, {} \cup Unwritten(p))
            /\ UNCHANGED <<record, partial, bought, refreshes>>
        BY <2>1 DEF RunFails, WriteRecordFails, disk
      <3>2. bought' = Charged(bought, {})
        BY <3>1 DEF Charged, Inv, TypeOK
      <3> QED
        BY <3>1, <3>2, StopExcuses DEF Judged!Step
    <2>2. CASE Crash(p)
      BY <2>2, StopExcuses DEF Crash, disk, Judged!Step
    <2> QED
      BY <1>3, <2>1, <2>2
  <1>4. ASSUME NEW p \in Process, WriteRecord(p) PROVE Judged!Step
    <2>1. Held(record') = judging[p]
      BY <1>4, WriteRecordWhole DEF Inv
    <2>2. UNCHANGED <<partial, bought, lost, refreshes>> /\ pc[p] = "judging"
      BY <1>4 DEF WriteRecord, ledger
    <2>3. judging[p] \in {Watched(plan) : plan \in Plans}
      BY <2>2 DEF Inv, WholeInv, Planned
    <2>4. HeldIsBought'
      BY <1>4, SettleLedger DEF LedgerInv
    <2>5. \A w \in judging[p] : bought[w] > 0
      BY <2>1, <2>2, <2>4 DEF HeldIsBought, OnDisk, Held
    <2>6. Held(record) \subseteq judging[p]
      BY <2>2 DEF Inv, WholeInv, Planned, RecordWhole, Exists, Alone
    <2>7. OnDiskNow' = OnDiskNow \cup judging[p]
      BY <2>1, <2>2, <2>6 DEF OnDiskNow, OnDisk, Held
    <2>8. ExcusesNow' = ExcusesNow
      BY <2>2 DEF ExcusesNow
    <2>9. Judged!Finish
      BY <2>1, <2>2, <2>3, <2>5, <2>7, <2>8
      DEF Judged!Finish, OnDiskNow, ExcusesNow, Held
    <2> QED
      BY <2>9 DEF Judged!Step
  <1>5. ASSUME NEW p \in Process, Unlink(p) PROVE UNCHANGED Promised
    <2>1. Held(partial) \subseteq Held(record)
      BY <1>5 DEF Unlink, Inv, KeptInv, UnlinkCovered
    <2>2. UNCHANGED <<record, ledger>> /\ partial' = None
      BY <1>5 DEF Unlink
    <2> QED
      BY <2>1, <2>2 DEF Promised, OnDiskNow, OnDisk, Held, ExcusesNow, ledger, None
  <1>6. CASE UNCHANGED vars
    BY <1>6 DEF vars, disk, ledger, Promised, OnDiskNow, OnDisk, Held, ExcusesNow
  <1> QED
    BY <1>1, <1>2, <1>3, <1>4, <1>5, <1>6, JudgeImplements DEF Next, Proceed

\* While one process judges, and plans agree on what is watched, buying through
\* files, threads, failures and crashes is the buying the module Purchase
\* promises: nothing is paid for again without an excuse, and nothing kept goes.
THEOREM BuyingIsPurchase ==
    ASSUME Alone
    PROVE  Spec => Implements
  <1>1. Init => Inv /\ Judged!Begin
    BY InitType, InitWhole, InitKept, InitLedger, InitImplements DEF Inv
  <1>2. Inv /\ [Next]_vars => Inv'
    BY NextInv
  <1>3. Inv /\ [Next]_vars
            => [Judged!Step]_<<{w \in Window : OnDisk(w)}, Held(record), bought,
                               [w \in Window |-> lost[w] + refreshes[w]]>>
    BY StepImplements DEF Promised, OnDiskNow, ExcusesNow
  <1> QED
    BY <1>1, <1>2, <1>3, PTL DEF Spec, Implements, Judged!Promise
=============================================================================
