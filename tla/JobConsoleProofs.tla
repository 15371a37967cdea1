------------------------- MODULE JobConsoleProofs ---------------------------
(***************************************************************************)
(* What TLAPS proves of JobConsole for every set of packages, tabs and     *)
(* strides, every table of costs and any number of presses and restarts.   *)
(***************************************************************************)
EXTENDS JobConsole, FiniteSetTheorems, TLAPS

(***************************************************************************)
(* Type correctness.                                                       *)
(***************************************************************************)

\* A figure is an amount, whatever the package and the stride.
LEMMA FigureType ==
    ASSUME NEW p \in Package, NEW s \in Setting
    PROVE  Cost[p][s] \in Amounts
  BY DEF Amounts, Figures

\* What is shown of no package, asked by nobody and worked at by no thread.
LEMMA EmptyTypes ==
    NoThread \in Threads /\ NoRequest \in Requests /\ Blank \in Views /\ Idle \in JobStates
  BY HomeAssumption, DefaultAssumption, PageAssumption
     DEF NoThread, NoRequest, Blank, Idle, Threads, Requests, Views, JobStates,
         Jobs, Actions, Reasons, Amounts

\* The next action is one of those a page knows, and a stage is busy or not.
LEMMA ConsoleType ==
    ASSUME TypeOK, NEW p \in Package
    PROVE  Figure(p) \in Amounts /\ NextAction(p) \in Actions /\ Busy(p) \in BOOLEAN
  <1>1. Figure(p) \in Amounts
    BY FigureType DEF Figure, TypeOK
  <1>2. NextAction(p) \in Actions
    BY DEF NextAction, Actions, TypeOK
  <1>3. Busy(p) \in BOOLEAN
    BY DEF Busy, TypeOK
  <1> QED
    BY <1>1, <1>2, <1>3

\* A thread that begins is one of those the console knows.
LEMMA ThreadType ==
    ASSUME NEW kind \in Jobs, NEW p \in Package, NEW offer \in Amounts,
           NEW meanwhile \in SUBSET Setting
    PROVE  Thread(kind, p, offer, meanwhile) \in Threads
  BY EmptyTypes DEF Thread, NoThread, Threads

\* A job that begins is running.
LEMMA BeginType ==
    ASSUME NEW kind \in Jobs, Begin(kind)
    PROVE  job' \in JobStates
  BY DEF Begin, JobStates, Reasons

\* What a purchase comes to is a bill.
LEMMA BilledType ==
    ASSUME TypeOK, NEW n \in Press
    PROVE  Billed(n) \subseteq Bills
  <1>1. work[n] \in Threads
    BY DEF TypeOK
  <1>2. Cost[work[n].package][work[n].setting] \in Amounts
    BY <1>1, FigureType DEF Threads
  <1>3. /\ work[n].package \in Package /\ work[n].offer \in Amounts
        /\ work[n].meanwhile \in SUBSET Setting
    BY <1>1 DEF Threads
  <1>4. bills \subseteq Bills
    BY DEF TypeOK
  <1> QED
    BY <1>2, <1>3, <1>4 DEF Billed, Bills

\* The initial states are well typed.
LEMMA InitType == Init => TypeOK
  <1> SUFFICES ASSUME Init PROVE TypeOK
    OBVIOUS
  <1>1. copies \in [Package -> [Setting -> {"none", "some", "all"}]]
    BY DEF Init
  <1>2. shelf \in [Package -> {"none", "half", "whole"}]
    BY DEF Init
  <1>3. /\ 0 \in 0..MaxPosts /\ 0 \in 0..MaxEdits /\ 0 \in 0..MaxFaults
    BY BoundsAssumption
  <1> QED
    BY <1>1, <1>2, <1>3, EmptyTypes, HomeAssumption, DefaultAssumption DEF Init, TypeOK

\* Reading the console, and handling a request, keep the types.
LEMMA RequestType ==
    ASSUME TypeOK, Handle \/ \E g \in Page : Read(g)
    PROVE  TypeOK'
  <1> USE DEF TypeOK, files, counts
  <1>1. request \in Requests
    OBVIOUS
  <1>2. ASSUME NEW g \in Page, Read(g) PROVE TypeOK'
    <2>1. request' \in Requests
      BY <1>2, EmptyTypes, ConsoleType DEF Read, Requests
    <2> QED
      BY <1>2, <2>1 DEF Read
  <1>3. CASE Show
    <2>1. pages' \in [Page -> Views]
      BY <1>1, <1>3 DEF Show, Reread, Requests, Views
    <2> QED
      BY <1>3, <2>1, EmptyTypes DEF Show
  <1>4. CASE Start
    <2>1. Thread(request.kind, request.package, request.offer, request.meanwhile) \in Threads
      BY <1>1, <1>4, ThreadType DEF Start, Requests
    <2>2. pages' \in [Page -> Views]
      BY <1>1, <1>4 DEF Start, Requests, Views
    <2> QED
      BY <1>4, <2>1, <2>2, EmptyTypes, BeginType DEF Start
  <1>5. CASE Refuse
    BY <1>5, EmptyTypes DEF Refuse
  <1> QED
    BY <1>2, <1>3, <1>4, <1>5 DEF Handle

\* Pressing a button keeps the types.
LEMMA PressType ==
    ASSUME TypeOK, NEW g \in Page
    PROVE  /\ \A p \in Package : Select(g, p) \/ PostIntake(g, p) => TypeOK'
           /\ \A kind \in Jobs, offer \in Amounts : Post(g, kind, offer) => TypeOK'
  <1> USE BoundsAssumption DEF TypeOK, files
  <1>1. ASSUME posts < MaxPosts PROVE posts + 1 \in 0..MaxPosts
    BY <1>1
  <1>2. [pages EXCEPT ![g].due = TRUE] \in [Page -> Views]
    BY DEF Views
  <1>3. ASSUME NEW p \in Package, Select(g, p) PROVE TypeOK'
    BY <1>1, <1>2, <1>3 DEF Select
  <1>4. ASSUME NEW p \in Package, PostIntake(g, p) PROVE TypeOK'
    <2>1. Thread("intake", p, 0, {}) \in Threads /\ job' \in JobStates
      BY <1>4, ThreadType, BeginType DEF PostIntake, Jobs, Amounts
    <2> QED
      BY <1>1, <1>2, <1>4, <2>1 DEF PostIntake
  <1>5. ASSUME NEW kind \in Jobs, NEW offer \in Amounts, Post(g, kind, offer) PROVE TypeOK'
    <2>1. request' \in Requests
      BY <1>5, EmptyTypes, ConsoleType DEF Post, Requests
    <2> QED
      BY <1>1, <1>5, <2>1 DEF Post
  <1> QED
    BY <1>3, <1>4, <1>5

\* A thread that goes on, or that is over for some reason, is still a thread.
LEMMA PhaseType ==
    ASSUME TypeOK, NEW n \in Press, NEW reason \in Reasons,
           NEW phase \in {"off", "begun", "planned", "buying", "over"}
    PROVE  /\ [work EXCEPT ![n].phase = phase] \in [Press -> Threads]
           /\ [work EXCEPT ![n].phase = phase, ![n].reason = reason] \in [Press -> Threads]
  BY DEF TypeOK, Threads

\* Nothing else of it, and nothing of the other threads, changes.
LEMMA PhaseAt ==
    ASSUME work \in [Press -> Threads], NEW n \in Press, NEW phase, NEW reason
    PROVE  LET on   == [work EXCEPT ![n].phase = phase]
               over == [work EXCEPT ![n].phase = phase, ![n].reason = reason]
           IN  /\ on[n] = [work[n] EXCEPT !.phase = phase] /\ on[n].phase = phase
               /\ over[n] = [work[n] EXCEPT !.phase = phase, !.reason = reason]
               /\ over[n].phase = phase
               /\ \A m \in Press \ {n} : on[m] = work[m] /\ over[m] = work[m]
  BY DEF Threads

\* So is the shelf of copies with some more of them.
LEMMA CopiesType ==
    ASSUME copies \in [Package -> [Setting -> {"none", "some", "all"}]],
           NEW p \in Package, NEW s \in Setting, NEW amount \in {"none", "some", "all"}
    PROVE  [copies EXCEPT ![p][s] = amount] \in [Package -> [Setting -> {"none", "some", "all"}]]
  OBVIOUS

\* A step of a job's thread keeps the types.
LEMMA WorkType ==
    ASSUME TypeOK, NEW n \in Press, Work(n) \/ WorkFails(n)
    PROVE  TypeOK'
  <1> USE DEF TypeOK, files, counts, Doing
  <1>1. work[n] \in Threads
    OBVIOUS
  <1>2. CASE PlanWork(n)
    BY <1>1, <1>2 DEF PlanWork, Threads
  <1>3. CASE MakeCopies(n)
    <2>1. [work EXCEPT ![n].phase = "over"] \in [Press -> Threads]
      BY PhaseType DEF Reasons
    <2> DEFINE p == work[n].package
               s == work[n].setting
    <2>a. p \in Package /\ s \in Setting
      BY <1>1 DEF Threads
    <2>b. PICK amount \in {"some", "all"} : copies' = [copies EXCEPT ![p][s] = amount]
      BY <1>3 DEF MakeCopies
    <2>2. copies' \in [Package -> [Setting -> {"none", "some", "all"}]]
      BY <2>a, <2>b, CopiesType
    <2> QED
      BY <1>3, <2>1, <2>2 DEF MakeCopies
  <1>4. CASE CheckUnbought(n)
    BY <1>1, <1>4 DEF CheckUnbought, Threads, Reasons
  <1>5. CASE BuySome(n)
    BY <1>1, <1>5, BilledType DEF BuySome, Threads
  <1>6. CASE BuyRest(n)
    BY <1>1, <1>6, BilledType DEF BuyRest, Threads
  <1>7. CASE CutFilm(n)
    BY <1>1, <1>7 DEF CutFilm, Threads
  <1>8. CASE MakePackage(n)
    <2>1. [work EXCEPT ![n].phase = "planned"] \in [Press -> Threads]
      BY PhaseType DEF Reasons
    <2>2. [work EXCEPT ![n].phase = "over", ![n].reason = "package_already_exists"]
            \in [Press -> Threads]
      BY PhaseType DEF Reasons
    <2>3. shelf' \in [Package -> {"none", "half", "whole"}]
      BY <1>8 DEF MakePackage
    <2> QED
      BY <1>8, <2>1, <2>2, <2>3 DEF MakePackage
  <1>9. CASE FillPackage(n)
    BY <1>1, <1>9 DEF FillPackage, Threads
  <1>10. CASE Finish(n)
    BY <1>1, <1>10, EmptyTypes DEF Finish, Threads, JobStates
  <1>11. CASE WorkFails(n)
    <2>1. [work EXCEPT ![n].phase = "over", ![n].reason = "job_failed"] \in [Press -> Threads]
      BY PhaseType DEF Reasons
    <2>2. faults' \in 0..MaxFaults
      BY <1>11, BoundsAssumption DEF WorkFails
    <2> QED
      BY <1>11, <2>1, <2>2 DEF WorkFails
  <1> QED
    BY <1>2, <1>3, <1>4, <1>5, <1>6, <1>7, <1>8, <1>9, <1>10, <1>11 DEF Work

\* Every step keeps the types.
LEMMA NextType == TypeOK /\ [Next]_vars => TypeOK'
  <1> SUFFICES ASSUME TypeOK, [Next]_vars PROVE TypeOK'
    OBVIOUS
  <1>1. ASSUME NEW p \in Package, NEW s \in Setting, WriteAnalysisSettings(p, s) PROVE TypeOK'
    <2>1. request' \in Requests
      BY <1>1 DEF WriteAnalysisSettings, TypeOK, Requests
    <2>2. work' \in [Press -> Threads]
      <3>1. \A n \in Press : [work[n] EXCEPT !.meanwhile = @ \cup {s}] \in Threads
        BY DEF TypeOK, Threads
      <3> QED
        BY <1>1, <3>1 DEF WriteAnalysisSettings, TypeOK
    <2> QED
      BY <1>1, <2>1, <2>2, BoundsAssumption DEF WriteAnalysisSettings, TypeOK
  <1>2. CASE Restart
    <2>1. pages' \in [Page -> Views]
      <3>1. Unanswered \in Views
        BY EmptyTypes DEF Unanswered, Blank, Views
      <3> QED
        BY <1>2, <3>1 DEF Restart, TypeOK
    <2> QED
      BY <1>2, <2>1, EmptyTypes, HomeAssumption, BoundsAssumption DEF Restart, TypeOK, files
  <1>3. CASE UNCHANGED vars
    BY <1>3 DEF TypeOK, vars, files, counts
  <1> QED
    BY <1>1, <1>2, <1>3, RequestType, PressType, WorkType DEF Next

\* Every variable of the console stays in its type.
THEOREM TypeCorrect == Spec => []TypeOK
  BY InitType, NextType, PTL DEF Spec

(***************************************************************************)
(* One job at a time.  The number of threads at work is not what a step    *)
(* keeps: it keeps which thread is the one.  A thread is entered under the *)
(* number of a press, so a request that is to start one has been counted.  *)
(***************************************************************************)

OneThread ==
  IF job.state = "running"
  THEN \E n \in Press : /\ work[n].phase # "off"
                       /\ \A m \in Press \ {n} : work[m].phase = "off"
  ELSE \A n \in Press : work[n].phase = "off"

PressCounted == request.kind \in Jobs => posts \in Press

JobInv == TypeOK /\ OneThread /\ PressCounted

\* At the start nothing is at work.
LEMMA InitJob == Init => JobInv
  <1> SUFFICES ASSUME Init PROVE JobInv
    OBVIOUS
  <1>1. OneThread
    BY DEF Init, OneThread, Idle, NoThread
  <1>2. PressCounted
    BY DEF Init, PressCounted, NoRequest, Jobs
  <1> QED
    BY <1>1, <1>2, InitType DEF JobInv

\* A thread that takes a step, other than its last one, is still at work.
LEMMA StillAtWork ==
    ASSUME TypeOK, NEW n \in Press, Work(n) \/ WorkFails(n), ~Finish(n)
    PROVE  /\ job' = job /\ request' = request /\ posts' = posts
           /\ \A m \in Press : work'[m].phase = "off" <=> work[m].phase = "off"
  <1>1. work \in [Press -> Threads]
    BY DEF TypeOK
  <1>2. job' = job /\ request' = request /\ posts' = posts
    BY DEF Work, PlanWork, MakeCopies, CheckUnbought, BuySome, BuyRest, CutFilm, MakePackage,
           FillPackage, WorkFails, counts
  <1>3. \/ work' = work
        \/ /\ work[n].phase # "off" /\ work'[n].phase # "off"
           /\ \A m \in Press \ {n} : work'[m] = work[m]
    <2> DEFINE over == [work EXCEPT ![n].phase = "over"]
    <2>a. over[n].phase = "over" /\ \A m \in Press \ {n} : over[m] = work[m]
      BY <1>1, PhaseAt
    <2>1. CASE PlanWork(n)
      BY <1>1, <2>1 DEF PlanWork, Threads
    <2>2. CASE MakeCopies(n)
      <3>1. work[n].phase # "off" /\ (work' = work \/ work' = over)
        BY <2>2 DEF MakeCopies, Doing
      <3> QED
        BY <3>1, <2>a
    <2>3. CASE CheckUnbought(n)
      BY <1>1, <2>3, PhaseAt DEF CheckUnbought, Doing
    <2>4. CASE BuySome(n) \/ BuyRest(n)
      BY <2>4, <2>a DEF BuySome, BuyRest, Doing
    <2>5. CASE CutFilm(n) \/ FillPackage(n)
      BY <2>5, <2>a DEF CutFilm, FillPackage, Doing
    <2>6. CASE MakePackage(n)
      <3>1. LET on == [work EXCEPT ![n].phase = "planned"]
            IN  on[n].phase = "planned" /\ \A m \in Press \ {n} : on[m] = work[m]
        BY <1>1, PhaseAt
      <3>2. LET on == [work EXCEPT ![n].phase = "over", ![n].reason = "package_already_exists"]
            IN  on[n].phase = "over" /\ \A m \in Press \ {n} : on[m] = work[m]
        BY <1>1, PhaseAt
      <3> QED
        BY <2>6, <3>1, <3>2 DEF MakePackage, Doing
    <2>7. CASE WorkFails(n)
      <3>1. LET on == [work EXCEPT ![n].phase = "over", ![n].reason = "job_failed"]
            IN  on[n].phase = "over" /\ \A m \in Press \ {n} : on[m] = work[m]
        BY <1>1, PhaseAt
      <3> QED
        BY <2>7, <3>1 DEF WorkFails
    <2> QED
      BY <2>1, <2>2, <2>3, <2>4, <2>5, <2>6, <2>7 DEF Work
  <1> QED
    BY <1>2, <1>3

\* The last step of the one thread leaves none.
LEMMA LastAtWork ==
    ASSUME JobInv, NEW n \in Press, Finish(n)
    PROVE  OneThread'
  <1>1. work[n].phase # "off" /\ work \in [Press -> Threads] /\ job \in JobStates
    BY DEF Finish, JobInv, TypeOK
  <1>2. \A m \in Press \ {n} : work[m].phase = "off"
    BY <1>1 DEF JobInv, OneThread
  <1>3. \A m \in Press : work'[m].phase = "off"
    BY <1>1, <1>2 DEF Finish, NoThread
  <1>4. job'.state # "running"
    BY <1>1 DEF Finish, JobStates
  <1> QED
    BY <1>3, <1>4 DEF OneThread

\* A thread that starts is the only one, since no job was running.
LEMMA FirstAtWork ==
    ASSUME JobInv, NEW kind \in Jobs, Begin(kind), NEW n \in Press,
           NEW p, NEW offer, NEW meanwhile,
           work' = [work EXCEPT ![n] = Thread(kind, p, offer, meanwhile)]
    PROVE  OneThread'
  <1>1. \A m \in Press : work[m].phase = "off"
    BY DEF Begin, JobInv, OneThread
  <1>2. work \in [Press -> Threads]
    BY DEF JobInv, TypeOK
  <1>3. work'[n].phase # "off" /\ \A m \in Press \ {n} : work'[m].phase = "off"
    BY <1>1, <1>2 DEF Thread, NoThread
  <1>4. job'.state = "running"
    BY DEF Begin
  <1> QED
    BY <1>3, <1>4 DEF OneThread

\* A press that is still allowed has a number.
LEMMA PressNumber ==
    ASSUME TypeOK, posts < MaxPosts
    PROVE  posts + 1 \in Press
  <1>1. posts \in Nat /\ MaxPosts \in Nat
    BY BoundsAssumption DEF TypeOK
  <1> QED
    BY <1>1 DEF Press

\* Strides written meanwhile are noted by the request and the threads that
\* await a plan, and nothing else of them changes.
LEMMA StrideNoted ==
    ASSUME TypeOK, NEW p \in Package, NEW s \in Setting, WriteAnalysisSettings(p, s)
    PROVE  /\ setting' = [setting EXCEPT ![p] = s]
           /\ job' = job /\ record' = record /\ posts' = posts /\ bills' = bills
           /\ request'.kind = request.kind /\ request'.package = request.package
           /\ request'.figure = request.figure
           /\ request'.meanwhile =
                IF Checked(p) THEN request.meanwhile \cup {s} ELSE request.meanwhile
           /\ \A n \in Press :
                /\ work'[n].kind = work[n].kind /\ work'[n].phase = work[n].phase
                /\ work'[n].package = work[n].package /\ work'[n].setting = work[n].setting
                /\ work'[n].offer = work[n].offer
                /\ work'[n].meanwhile =
                     IF Planless(n, p) THEN work[n].meanwhile \cup {s} ELSE work[n].meanwhile
  <1>1. request \in Requests /\ work \in [Press -> Threads]
    BY DEF TypeOK
  <1>2. /\ setting' = [setting EXCEPT ![p] = s]
        /\ job' = job /\ record' = record /\ posts' = posts /\ bills' = bills
    BY DEF WriteAnalysisSettings
  <1>3. /\ request'.kind = request.kind /\ request'.package = request.package
        /\ request'.figure = request.figure
        /\ request'.meanwhile =
             IF Checked(p) THEN request.meanwhile \cup {s} ELSE request.meanwhile
    BY <1>1 DEF WriteAnalysisSettings, Requests
  <1>4. ASSUME NEW n \in Press
        PROVE  /\ work'[n].kind = work[n].kind /\ work'[n].phase = work[n].phase
               /\ work'[n].package = work[n].package /\ work'[n].setting = work[n].setting
               /\ work'[n].offer = work[n].offer
               /\ work'[n].meanwhile =
                    IF Planless(n, p) THEN work[n].meanwhile \cup {s} ELSE work[n].meanwhile
    <2>1. work[n] \in Threads
      BY <1>1
    <2>2. work'[n] = IF Planless(n, p) THEN [work[n] EXCEPT !.meanwhile = @ \cup {s}] ELSE work[n]
      BY DEF WriteAnalysisSettings
    <2> QED
      BY <2>1, <2>2 DEF Threads
  <1> QED
    BY <1>2, <1>3, <1>4

\* Every step leaves one thread of the running job, or none.
LEMMA NextJob == JobInv /\ [Next]_vars => JobInv'
  <1> SUFFICES ASSUME JobInv, [Next]_vars PROVE OneThread' /\ PressCounted'
    BY NextType DEF JobInv
  <1>1. TypeOK /\ OneThread /\ PressCounted
    BY DEF JobInv
  <1>2. ASSUME UNCHANGED <<job, work>> PROVE OneThread'
    BY <1>1, <1>2 DEF OneThread
  <1>3. ASSUME request' = NoRequest PROVE PressCounted'
    BY <1>3 DEF PressCounted, NoRequest, Jobs
  <1>4. ASSUME posts < MaxPosts, posts' = posts + 1 PROVE posts' \in Press /\ PressCounted'
    BY <1>1, <1>4, PressNumber DEF PressCounted
  <1>5. CASE Handle
    <2>1. CASE Show \/ Refuse
      BY <1>2, <1>3, <2>1 DEF Show, Refuse
    <2>2. CASE Start
      <3>1. posts \in Press /\ request.package \in Package /\ request.offer \in Amounts
        BY <1>1, <2>2 DEF Start, PressCounted, TypeOK, Requests
      <3> QED
        BY <1>3, <2>2, <3>1, FirstAtWork DEF Start
    <2> QED
      BY <1>5, <2>1, <2>2 DEF Handle
  <1>6. ASSUME NEW n \in Press, Work(n) \/ WorkFails(n) PROVE OneThread' /\ PressCounted'
    <2>1. CASE Finish(n)
      <3>1. PressCounted'
        BY <1>1, <2>1 DEF Finish, PressCounted, counts
      <3> QED
        BY <2>1, <3>1, LastAtWork
    <2>2. CASE ~Finish(n)
      <3>1. /\ job' = job /\ request' = request /\ posts' = posts
            /\ \A m \in Press : work'[m].phase = "off" <=> work[m].phase = "off"
        BY <1>1, <1>6, <2>2, StillAtWork
      <3> QED
        BY <1>1, <3>1 DEF OneThread, PressCounted
    <2> QED
      BY <2>1, <2>2
  <1>7. ASSUME NEW g \in Page, Read(g) PROVE OneThread' /\ PressCounted'
    <2>1. request'.kind = "load"
      BY <1>7 DEF Read, NoRequest
    <2> QED
      BY <1>2, <1>7, <2>1 DEF Read, PressCounted, Jobs
  <1>8. ASSUME NEW g \in Page, NEW p \in Package, Select(g, p) PROVE OneThread' /\ PressCounted'
    BY <1>2, <1>4, <1>8 DEF Select
  <1>9. ASSUME NEW g \in Page, NEW p \in Package, PostIntake(g, p) PROVE OneThread' /\ PressCounted'
    <2>1. posts + 1 \in Press /\ PressCounted'
      BY <1>4, <1>9 DEF PostIntake
    <2>2. "intake" \in Jobs /\ 0 \in Amounts
      BY DEF Jobs, Amounts
    <2> QED
      BY <1>9, <2>1, <2>2, FirstAtWork DEF PostIntake
  <1>10. ASSUME NEW g \in Page, NEW kind \in Jobs, NEW offer \in Amounts, Post(g, kind, offer)
         PROVE  OneThread' /\ PressCounted'
    BY <1>2, <1>4, <1>10 DEF Post
  <1>11. ASSUME NEW p \in Package, NEW s \in Setting, WriteAnalysisSettings(p, s)
         PROVE  OneThread' /\ PressCounted'
    <2>1. /\ job' = job /\ posts' = posts /\ request'.kind = request.kind
          /\ \A n \in Press : work'[n].phase = work[n].phase
      BY <1>1, <1>11, StrideNoted
    <2> QED
      BY <1>1, <2>1 DEF OneThread, PressCounted
  <1>12. CASE Restart
    <2>1. OneThread'
      BY <1>12 DEF Restart, OneThread, Idle, NoThread
    <2> QED
      BY <1>3, <1>12, <2>1 DEF Restart
  <1>13. CASE UNCHANGED vars
    BY <1>1, <1>2, <1>13 DEF vars, PressCounted, counts
  <1> QED
    BY <1>5, <1>6, <1>7, <1>8, <1>9, <1>10, <1>11, <1>12, <1>13 DEF Next

\* Where one thread is at work and no other, their number is one.
LEMMA ThreadsCounted == JobInv => OneJob
  <1> SUFFICES ASSUME JobInv PROVE OneJob
    OBVIOUS
  <1> DEFINE atWork == {n \in Press : work[n].phase # "off"}
  <1>1. CASE job.state = "running"
    <2>1. \E n \in Press : atWork = {n}
      BY <1>1 DEF JobInv, OneThread
    <2> QED
      BY <1>1, <2>1, FS_Singleton DEF OneJob
  <1>2. CASE job.state # "running"
    <2>1. atWork = {}
      BY <1>2 DEF JobInv, OneThread
    <2> QED
      BY <1>2, <2>1, FS_EmptySet DEF OneJob
  <1> QED
    BY <1>1, <1>2

\* "One job at a time, for one process": PrivateJourneyJobs says a job runs
\* exactly while one thread is at work.
THEOREM OneJobAtATime == Spec => []OneJob
  <1>1. Spec => []JobInv
    BY InitJob, NextJob, PTL DEF Spec
  <1> QED
    BY <1>1, ThreadsCounted, PTL

(***************************************************************************)
(* What a thread carries from the press to the bill.                       *)
(***************************************************************************)

\* The one thread a step is of keeps what it was asked to do; it plans once,
\* and goes on to buy what is not bought yet.
GoesOn(n) ==
  /\ work'[n].kind = work[n].kind
  /\ work'[n].package = work[n].package
  /\ work'[n].offer = work[n].offer
  /\ work'[n].meanwhile = work[n].meanwhile
  /\ \/ work'[n].phase = "over"
     \/ work'[n] = work[n]
     \/ /\ work'[n].phase = "planned"
        /\ work'[n].setting = setting[work[n].package] /\ work[n].phase = "begun"
     \/ work'[n].phase = "planned" /\ work[n].kind = "intake"
     \/ /\ work'[n].phase = "buying" /\ work'[n].setting = work[n].setting
        /\ work[n].phase = "planned" /\ ~record[work[n].package]

LEMMA ThreadGoesOn ==
    ASSUME TypeOK, NEW n \in Press, Work(n) \/ WorkFails(n)
    PROVE  /\ setting' = setting /\ request' = request
           /\ \A m \in Press \ {n} : work'[m] = work[m]
           /\ work'[n] = NoThread \/ GoesOn(n)
  <1>1. work \in [Press -> Threads]
    BY DEF TypeOK
  <1>2. setting' = setting /\ request' = request
    BY DEF Work, PlanWork, MakeCopies, CheckUnbought, BuySome, BuyRest, CutFilm, MakePackage,
           FillPackage, Finish, WorkFails, files
  <1> DEFINE Others(with) == \A m \in Press \ {n} : with[m] = work[m]
             Kept(with)   == /\ with[n].kind = work[n].kind /\ with[n].package = work[n].package
                             /\ with[n].offer = work[n].offer
                             /\ with[n].meanwhile = work[n].meanwhile
  <1>3. ASSUME NEW phase
        PROVE  LET on == [work EXCEPT ![n].phase = phase]
               IN  Others(on) /\ Kept(on) /\ on[n].phase = phase /\ on[n].setting = work[n].setting
    BY <1>1 DEF Threads
  <1>4. ASSUME NEW phase, NEW reason
        PROVE  LET on == [work EXCEPT ![n].phase = phase, ![n].reason = reason]
               IN  Others(on) /\ Kept(on) /\ on[n].phase = phase
    BY <1>1 DEF Threads
  <1> HIDE DEF Others, Kept
  <1> SUFFICES Others(work') /\ (work'[n] = NoThread \/ GoesOn(n))
    BY <1>2 DEF Others
  <1>5. Others(work)
    BY DEF Others
  <1>6. CASE PlanWork(n)
    <2>1. Others(work') /\ Kept(work') /\ work'[n].phase = "planned"
          /\ work'[n].setting = setting[work[n].package]
      BY <1>1, <1>6 DEF PlanWork, Threads, Others, Kept
    <2> QED
      BY <1>6, <2>1 DEF PlanWork, GoesOn, Kept
  <1>7. CASE work' = [work EXCEPT ![n].phase = "over"]
    <2>1. Others(work') /\ Kept(work') /\ work'[n].phase = "over"
      BY <1>3, <1>7
    <2> QED
      BY <2>1 DEF GoesOn, Kept
  <1>8. CASE \E reason \in Reasons : work' = [work EXCEPT ![n].phase = "over", ![n].reason = reason]
    <2>1. Others(work') /\ Kept(work') /\ work'[n].phase = "over"
      <3>1. PICK reason \in Reasons : work' = [work EXCEPT ![n].phase = "over", ![n].reason = reason]
        BY <1>8
      <3> QED
        BY <1>4, <3>1
    <2> QED
      BY <2>1 DEF GoesOn, Kept
  <1>9. CASE work' = work
    BY <1>5, <1>9 DEF GoesOn
  <1>10. CASE CheckUnbought(n) /\ ~record[work[n].package]
    <2>1. work' = [work EXCEPT ![n].phase = "buying"] /\ work[n].phase = "planned"
      BY <1>10 DEF CheckUnbought, Doing
    <2>2. Others(work') /\ Kept(work') /\ work'[n].phase = "buying" /\ work'[n].setting = work[n].setting
      BY <1>3, <2>1
    <2> QED
      BY <1>10, <2>1, <2>2 DEF GoesOn, Kept
  <1>11. CASE MakePackage(n) /\ shelf[work[n].package] = "none"
    <2>1. work' = [work EXCEPT ![n].phase = "planned"] /\ work[n].kind = "intake"
      BY <1>11 DEF MakePackage, Doing
    <2>2. Others(work') /\ Kept(work') /\ work'[n].phase = "planned"
      BY <1>3, <2>1
    <2> QED
      BY <2>1, <2>2 DEF GoesOn, Kept
  <1>12. CASE Finish(n)
    BY <1>1, <1>12 DEF Finish, Others
  <1>13. CASE CheckUnbought(n) /\ record[work[n].package]
    BY <1>8, <1>13 DEF CheckUnbought, Reasons
  <1>14. CASE MakePackage(n) /\ shelf[work[n].package] # "none"
    BY <1>8, <1>14 DEF MakePackage, Reasons
  <1>15. CASE WorkFails(n)
    BY <1>8, <1>15 DEF WorkFails, Reasons
  <1>16. CASE MakeCopies(n)
    BY <1>7, <1>9, <1>16 DEF MakeCopies
  <1>17. CASE BuySome(n) \/ BuyRest(n) \/ CutFilm(n) \/ FillPackage(n)
    BY <1>7, <1>9, <1>17 DEF BuySome, BuyRest, CutFilm, FillPackage
  <1> QED
    BY <1>6, <1>10, <1>11, <1>12, <1>13, <1>14, <1>15, <1>16, <1>17 DEF Work

\* A thread that starts has what the request carried, and nothing else starts.
LEMMA ThreadStarts ==
    ASSUME TypeOK, NEW kind, NEW p, NEW offer, NEW meanwhile, NEW n \in Press
    PROVE  LET started == [work EXCEPT ![n] = Thread(kind, p, offer, meanwhile)]
           IN  /\ \A m \in Press \ {n} : started[m] = work[m]
               /\ started[n].kind = kind /\ started[n].phase = "begun"
               /\ started[n].package = p /\ started[n].offer = offer
               /\ started[n].meanwhile = meanwhile
  <1>1. work \in [Press -> Threads]
    BY DEF TypeOK
  <1> QED
    BY <1>1 DEF Thread, NoThread

(***************************************************************************)
(* No judgement is bought twice.                                           *)
(***************************************************************************)

\* A judgement is finished by the one thread at work, and only a thread that
\* found none sets about buying one.
LEMMA NextBought == JobInv /\ BoughtOnce /\ [Next]_vars => BoughtOnce'
  <1> SUFFICES ASSUME JobInv, BoughtOnce, [Next]_vars,
                      NEW n \in Press, work'[n].phase = "buying"
               PROVE  ~record'[work'[n].package]
    BY DEF BoughtOnce
  <1>1. TypeOK /\ work \in [Press -> Threads]
    BY DEF JobInv, TypeOK
  <1>2. ASSUME UNCHANGED <<work, record>> PROVE ~record'[work'[n].package]
    BY <1>2 DEF BoughtOnce
  <1>3. ASSUME NEW m \in Press, Work(m) \/ WorkFails(m) PROVE ~record'[work'[n].package]
    <2>1. /\ \A k \in Press \ {m} : work'[k] = work[k]
          /\ work'[m] = NoThread \/ GoesOn(m)
      BY <1>1, <1>3, ThreadGoesOn
    <2>2. CASE n = m /\ ~BuyRest(m)
      <3>1. record' = record
        BY <1>3, <2>2 DEF Work, PlanWork, MakeCopies, CheckUnbought, BuySome, CutFilm, MakePackage,
                          FillPackage, Finish, WorkFails, files
      <3>2. NoThread.phase # "buying"
        BY DEF NoThread
      <3>3. GoesOn(m)
        BY <2>1, <2>2, <3>2
      <3> QED
        BY <2>2, <3>1, <3>3 DEF GoesOn, BoughtOnce
    <2>3. CASE n = m /\ BuyRest(m)
      BY <1>1, <2>3 DEF BuyRest, Threads
    <2>4. CASE n # m
      <3>1. work[m].phase # "off"
        BY <1>3 DEF Work, PlanWork, MakeCopies, CheckUnbought, BuySome, BuyRest, CutFilm, MakePackage,
                    FillPackage, Finish, WorkFails, Doing
      <3>2. work[n].phase = "off"
        BY <2>4, <3>1 DEF JobInv, OneThread
      <3> QED
        BY <2>1, <2>4, <3>2
    <2> QED
      BY <2>2, <2>3, <2>4
  <1>4. CASE Handle
    <2>1. CASE Show \/ Refuse
      BY <1>2, <2>1 DEF Show, Refuse, files
    <2>2. CASE Start
      <3>1. posts \in Press /\ request.package \in Package /\ request.offer \in Amounts
        BY <1>1, <2>2 DEF Start, JobInv, PressCounted, TypeOK, Requests
      <3>2. work'[n] = work[n] \/ work'[n].phase = "begun"
        BY <1>1, <2>2, <3>1, ThreadStarts DEF Start
      <3>3. record' = record
        BY <2>2 DEF Start, files
      <3> QED
        BY <3>2, <3>3 DEF BoughtOnce
    <2> QED
      BY <1>4, <2>1, <2>2 DEF Handle
  <1>5. ASSUME NEW g \in Page, NEW p \in Package, PostIntake(g, p) PROVE ~record'[work'[n].package]
    <2>1. posts + 1 \in Press
      BY <1>1, <1>5, PressNumber DEF PostIntake
    <2>2. "intake" \in Jobs /\ 0 \in Amounts
      BY DEF Jobs, Amounts
    <2>3. work'[n] = work[n] \/ work'[n].phase = "begun"
      <3>1. work' = [work EXCEPT ![posts + 1] = Thread("intake", p, 0, {})]
        BY <1>5 DEF PostIntake
      <3>2. work'[posts + 1].phase = "begun" /\ \A m \in Press \ {posts + 1} : work'[m] = work[m]
        BY <1>1, <2>1, <3>1 DEF Thread, NoThread
      <3> QED
        BY <3>2
    <2>4. record' = record
      BY <1>5 DEF PostIntake, files
    <2> QED
      BY <2>3, <2>4 DEF BoughtOnce
  <1>6. CASE Restart
    BY <1>6 DEF Restart, NoThread
  <1>7. ASSUME NEW g \in Page,
               \/ Read(g)
               \/ \E p \in Package : Select(g, p)
               \/ \E kind \in Jobs, offer \in Amounts : Post(g, kind, offer)
        PROVE  ~record'[work'[n].package]
    BY <1>2, <1>7 DEF Read, Select, Post, files
  <1>8. CASE \E p \in Package, s \in Setting : WriteAnalysisSettings(p, s)
    <2>1. PICK p \in Package, s \in Setting : WriteAnalysisSettings(p, s)
      BY <1>8
    <2>2. work'[n].phase = work[n].phase /\ work'[n].package = work[n].package /\ record' = record
      BY <1>1, <2>1, StrideNoted
    <2> QED
      BY <2>2 DEF BoughtOnce
  <1>9. CASE UNCHANGED vars
    BY <1>2, <1>9 DEF vars, files
  <1> QED
    BY <1>3, <1>4, <1>5, <1>6, <1>7, <1>8, <1>9 DEF Next

\* No press of any button sets about buying a judgement that is there
\* (run_analysis without overwrite), through failures and restarts.
THEOREM JudgementBoughtOnce == Spec => []BoughtOnce
  <1>1. Init => BoughtOnce
    <2> SUFFICES ASSUME Init PROVE BoughtOnce
      OBVIOUS
    <2>1. NoThread.phase # "buying"
      BY DEF NoThread
    <2>2. \A n \in Press : work[n] = NoThread
      BY DEF Init
    <2> QED
      BY <2>1, <2>2 DEF BoughtOnce
  <1> QED
    BY <1>1, InitJob, NextJob, NextBought, PTL DEF Spec

(***************************************************************************)
(* The figure that is approved is the figure that is billed, unless strides *)
(* are written between its check and the job's own plan.                   *)
(***************************************************************************)

\* The figure is that of the stride, or the stride was written meanwhile.
Agreed(p, s, figure, meanwhile) == figure = Cost[p][s] \/ s \in meanwhile

\* What a thread will buy: at the stride its package has until it plans, at the
\* one it planned with since.
Holding(x, fixed) ==
  x.kind = "judge" =>
    /\ x.phase = "begun" => Agreed(x.package, fixed[x.package], x.offer, x.meanwhile)
    /\ x.phase \in {"planned", "buying"} =>
         Agreed(x.package, x.setting, x.offer, x.meanwhile)

\* What a request has checked, of the stride its package has.
Carrying(x, fixed) ==
  x.kind = "judge" => Agreed(x.package, fixed[x.package], x.figure, x.meanwhile)

FigureHeld ==
  /\ Carrying(request, setting)
  /\ \A n \in Press : Holding(work[n], setting)

LEMMA NextFigure ==
    ASSUME JobInv, FigureHeld, [Next]_vars
    PROVE  FigureHeld'
  <1>1. TypeOK /\ work \in [Press -> Threads] /\ request \in Requests
    BY DEF JobInv, TypeOK
  <1> DEFINE Holds(n) == Holding(work[n], setting)
             Carried  == Carrying(request, setting)
  <1>2. Carried /\ \A n \in Press : Holds(n)
    BY DEF FigureHeld
  <1> SUFFICES Carried' /\ \A n \in Press : Holds(n)'
    BY DEF FigureHeld
  <1>3. ASSUME UNCHANGED <<setting, work>> PROVE \A n \in Press : Holds(n)'
    BY <1>2, <1>3
  <1>4. ASSUME request' = NoRequest PROVE Carried'
    BY <1>4 DEF NoRequest, Carrying
  <1>5. ASSUME UNCHANGED <<setting, request>> PROVE Carried'
    BY <1>2, <1>5
  <1>6. ASSUME NEW kind \in Jobs, NEW p \in Package, NEW offer \in Amounts, NEW n \in Press,
               NEW meanwhile, setting' = setting,
               work' = [work EXCEPT ![n] = Thread(kind, p, offer, meanwhile)],
               kind = "judge" => Agreed(p, setting[p], offer, meanwhile)
        PROVE  \A m \in Press : Holds(m)'
    <2>1. /\ \A m \in Press \ {n} : work'[m] = work[m]
          /\ work'[n].kind = kind /\ work'[n].phase = "begun"
          /\ work'[n].package = p /\ work'[n].offer = offer /\ work'[n].meanwhile = meanwhile
      BY <1>1, <1>6 DEF Thread, NoThread
    <2>2. \A m \in Press \ {n} : Holds(m)'
      BY <1>2, <1>6, <2>1
    <2>3. Holds(n)'
      BY <1>6, <2>1 DEF Holding
    <2> QED
      BY <2>2, <2>3
  <1>7. CASE Handle
    <2>1. CASE Show \/ Refuse
      BY <1>3, <1>4, <2>1 DEF Show, Refuse, files
    <2>2. CASE Start
      <3>1. posts \in Press /\ request.package \in Package /\ request.offer \in Amounts
        BY <1>1, <2>2 DEF Start, JobInv, PressCounted, Requests
      <3>2. request.kind = "judge" =>
              Agreed(request.package, setting[request.package], request.offer, request.meanwhile)
        BY <1>2, <2>2 DEF Start, ApproveJudgement, Carrying
      <3> QED
        BY <1>4, <1>6, <2>2, <3>1, <3>2 DEF Start, files
    <2> QED
      BY <1>7, <2>1, <2>2 DEF Handle
  <1>8. ASSUME NEW n \in Press, Work(n) \/ WorkFails(n) PROVE Carried' /\ \A m \in Press : Holds(m)'
    <2>1. /\ setting' = setting /\ request' = request
          /\ \A m \in Press \ {n} : work'[m] = work[m]
          /\ work'[n] = NoThread \/ GoesOn(n)
      BY <1>1, <1>8, ThreadGoesOn
    <2>2. \A m \in Press \ {n} : Holds(m)'
      BY <1>2, <2>1
    <2>3. CASE GoesOn(n)
      <3>1. Holds(n)'
        <4> SUFFICES ASSUME work'[n].kind = "judge" PROVE Holds(n)'
          BY DEF Holding
        <4>1. Holds(n) /\ work[n].kind = "judge"
          BY <1>2, <2>3 DEF GoesOn
        <4>2. CASE work'[n].phase = "over"
          BY <4>2 DEF Holding
        <4>3. CASE work'[n] = work[n]
          BY <2>1, <4>1, <4>3
        <4>4. CASE /\ work'[n].phase = "planned" /\ work[n].phase = "begun"
                   /\ work'[n].setting = setting[work[n].package]
          BY <2>3, <4>1, <4>4 DEF Holding, GoesOn
        <4>5. CASE /\ work'[n].phase = "buying" /\ work[n].phase = "planned"
                   /\ work'[n].setting = work[n].setting
          BY <2>3, <4>1, <4>5 DEF Holding, GoesOn
        <4> QED
          BY <2>3, <4>1, <4>2, <4>3, <4>4, <4>5 DEF GoesOn
      <3> QED
        BY <1>5, <2>1, <2>2, <3>1
    <2>4. CASE work'[n] = NoThread
      <3>0. NoThread.kind # "judge"
        BY DEF NoThread
      <3>1. Holds(n)'
        BY <2>4, <3>0 DEF Holding
      <3> QED
        BY <1>5, <2>1, <2>2, <3>1
    <2> QED
      BY <2>1, <2>3, <2>4
  <1>9. ASSUME NEW g \in Page, Read(g) PROVE Carried' /\ \A m \in Press : Holds(m)'
    <2>1. request'.kind = "load"
      BY <1>9 DEF Read, NoRequest
    <2> QED
      BY <1>3, <1>9, <2>1 DEF Read, files, Carrying
  <1>10. ASSUME NEW g \in Page, NEW p \in Package, Select(g, p)
         PROVE  Carried' /\ \A m \in Press : Holds(m)'
    BY <1>3, <1>5, <1>10 DEF Select, files
  <1>11. ASSUME NEW g \in Page, NEW p \in Package, PostIntake(g, p)
         PROVE  Carried' /\ \A m \in Press : Holds(m)'
    <2>1. posts + 1 \in Press
      BY <1>1, <1>11, PressNumber DEF PostIntake
    <2> QED
      BY <1>5, <1>6, <1>11, <2>1 DEF PostIntake, files, Jobs, Amounts
  <1>12. ASSUME NEW g \in Page, NEW kind \in Jobs, NEW offer \in Amounts, Post(g, kind, offer)
         PROVE  Carried' /\ \A m \in Press : Holds(m)'
    <2>1. request'.figure = Figure(current) /\ request'.package = current /\ setting' = setting
      BY <1>12 DEF Post, NoRequest, files
    <2> QED
      BY <1>3, <1>12, <2>1 DEF Post, Figure, files, Carrying, Agreed
  <1>13. ASSUME NEW p \in Package, NEW s \in Setting, WriteAnalysisSettings(p, s)
         PROVE  Carried' /\ \A m \in Press : Holds(m)'
    <2>1. setting \in [Package -> Setting] /\ setting' = [setting EXCEPT ![p] = s]
      BY <1>1, <1>13 DEF WriteAnalysisSettings, TypeOK
    <2>2. Carried'
      <3>1. /\ request'.kind = request.kind /\ request'.package = request.package
            /\ request'.figure = request.figure
            /\ request'.meanwhile =
                 IF Checked(p) THEN request.meanwhile \cup {s} ELSE request.meanwhile
        BY <1>1, <1>13, StrideNoted
      <3>2. request.package \in Package /\ Carried
        BY <1>1, <1>2 DEF Requests
      <3> QED
        BY <2>1, <3>1, <3>2 DEF Carrying, Agreed, Checked
    <2>3. ASSUME NEW n \in Press PROVE Holds(n)'
      <3>1. work[n] \in Threads /\ Holds(n)
        BY <1>1, <1>2
      <3>2. /\ work'[n].kind = work[n].kind /\ work'[n].phase = work[n].phase
            /\ work'[n].package = work[n].package /\ work'[n].setting = work[n].setting
            /\ work'[n].offer = work[n].offer
            /\ work'[n].meanwhile =
                 IF Planless(n, p) THEN work[n].meanwhile \cup {s} ELSE work[n].meanwhile
        BY <1>1, <1>13, StrideNoted
      <3> QED
        BY <2>1, <3>1, <3>2 DEF Holding, Agreed, Planless, Threads
    <2> QED
      BY <2>2, <2>3
  <1>14. CASE Restart
    BY <1>4, <1>14 DEF Restart, NoThread, Holding
  <1>15. CASE UNCHANGED vars
    BY <1>3, <1>5, <1>15 DEF vars, files
  <1> QED
    BY <1>7, <1>8, <1>9, <1>10, <1>11, <1>12, <1>13, <1>14, <1>15 DEF Next

\* A bill is written by a thread at work on a judgement, of the figure it holds.
LEMMA NextBill ==
    ASSUME JobInv, FigureHeld, ApprovedIsBilled, [Next]_vars
    PROVE  ApprovedIsBilled'
  <1>1. ASSUME NEW n \in Press, BuySome(n) \/ BuyRest(n) PROVE ApprovedIsBilled'
    <2>1. bills' = Billed(n) /\ work[n].kind = "judge" /\ work[n].phase = "buying"
      BY <1>1 DEF BuySome, BuyRest, Doing
    <2>2. Agreed(work[n].package, work[n].setting, work[n].offer, work[n].meanwhile)
      BY <2>1 DEF FigureHeld, Holding
    <2> QED
      BY <2>1, <2>2 DEF Billed, Agreed, ApprovedIsBilled
  <1>2. ASSUME bills' = bills PROVE ApprovedIsBilled'
    BY <1>2 DEF ApprovedIsBilled
  <1>3. ASSUME NEW n \in Press, Work(n) \/ WorkFails(n), ~BuySome(n), ~BuyRest(n) PROVE bills' = bills
    BY <1>3 DEF Work, PlanWork, MakeCopies, CheckUnbought, CutFilm, MakePackage, FillPackage,
                Finish, WorkFails
  <1>4. CASE Handle
    BY <1>2, <1>4 DEF Handle, Show, Start, Refuse
  <1>5. ASSUME NEW g \in Page,
               \/ Read(g)
               \/ \E p \in Package : Select(g, p) \/ PostIntake(g, p)
               \/ \E kind \in Jobs, offer \in Amounts : Post(g, kind, offer)
        PROVE  bills' = bills
    BY <1>5 DEF Read, Select, PostIntake, Post
  <1>6. CASE Restart \/ UNCHANGED vars \/ \E p \in Package, s \in Setting : WriteAnalysisSettings(p, s)
    BY <1>2, <1>6 DEF Restart, vars, WriteAnalysisSettings
  <1> QED
    BY <1>1, <1>2, <1>3, <1>4, <1>5, <1>6 DEF Next

\* private_journey_actions.py: "The number a person approves is the number they
\* were shown", and what the job buys comes to it, though the job plans again:
\* unless the owner writes another stride of the package after the figure was
\* checked and before that plan, in which case it comes to one so written.
THEOREM ApprovedIsTheBill == Spec => []ApprovedIsBilled
  <1>1. Init => FigureHeld /\ ApprovedIsBilled
    <2> SUFFICES ASSUME Init PROVE FigureHeld /\ ApprovedIsBilled
      OBVIOUS
    <2>1. NoThread.kind # "judge" /\ NoRequest.kind # "judge"
      BY DEF NoThread, NoRequest
    <2>2. request = NoRequest /\ bills = {} /\ \A n \in Press : work[n] = NoThread
      BY DEF Init
    <2> QED
      BY <2>1, <2>2 DEF FigureHeld, Carrying, Holding, ApprovedIsBilled
  <1>2. JobInv /\ FigureHeld /\ [Next]_vars => FigureHeld'
    BY NextFigure
  <1>3. JobInv /\ FigureHeld /\ ApprovedIsBilled /\ [Next]_vars => ApprovedIsBilled'
    BY NextBill
  <1> QED
    BY <1>1, <1>2, <1>3, InitJob, NextJob, PTL DEF Spec
=============================================================================
