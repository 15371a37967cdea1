----------------------------- MODULE JobConsole -----------------------------
(***************************************************************************)
(* The private console: a page in the owner's browser, the web server that *)
(* answers it, and the one background job a person can set going from it.  *)
(*                                                                         *)
(* wsgiref serves one request at a time, so at most one request is being   *)
(* handled; the job runs in a daemon thread beside it, and the two meet at *)
(* PrivateJourneyJobs._current (under its lock), at the files of a package *)
(* and at the server's notion of which package it is looking at.  A        *)
(* handler reads the console first and starts the job afterwards, and a    *)
(* page read computes its stages first and takes the job's state after.    *)
(*                                                                         *)
(* The buying inside a judge job is module AnalysisRun; here a purchase is *)
(* its first answers (a partial record) and its completion (the record).   *)
(***************************************************************************)
EXTENDS Integers, FiniteSets

CONSTANTS
  Package,     \* the directories the work root can hold
  Home,        \* the package the environment names
  Page,        \* browser tabs that have the console open
  Setting,     \* the strides a package's analysis can be fixed at
  Default,     \* DEFAULT_STRIDE_S, of a package nobody fixed one for
  Cost,        \* Cost[p][s]: the figure a plan of p at stride s comes to
  MaxPosts,    \* bound: buttons pressed
  MaxEdits,    \* bound: changes of a stride from the command line
  MaxFaults    \* bound: jobs that fail and restarts of the server

ASSUME PageAssumption == Page # {}
ASSUME HomeAssumption == Home \in Package
ASSUME DefaultAssumption == Default \in Setting
ASSUME CostAssumption == Cost \in [Package -> [Setting -> Nat]]
ASSUME BoundsAssumption == /\ MaxPosts \in Nat \ {0}
                           /\ MaxEdits \in Nat
                           /\ MaxFaults \in Nat

VARIABLES
  shelf,    \* shelf[p]: no directory, one an intake is filling, a package
  setting,  \* setting[p]: the stride written in the package
  copies,   \* copies[p][s]: the copies to send that exist, of those wanted at s
  partial,  \* partial[p]: judgements bought so far are on disk
  record,   \* record[p]: the finished judgement is on disk
  film,     \* film[p]: a film is on disk
  current,  \* _CURRENT_PACKAGE
  job,      \* PrivateJourneyJobs._current
  work,     \* work[n]: the thread the nth button press started
  request,  \* the request the server is handling
  pages,    \* pages[g]: what tab g offers to do, and whether it will read again
            \* (a person may type any figure, so the one it shows is left out)
  bills,    \* ledger: what was approved and what it bought, purchase by purchase,
            \* and the strides written between the approval and the job's plan
  posts, edits, faults

files == <<shelf, setting, copies, partial, record, film>>
counts == <<posts, edits, faults>>
vars == <<files, current, job, work, request, pages, bills, counts>>

Jobs == {"preflight", "judge", "film", "intake"}
Reasons == {"", "judgement_already_bought", "package_already_exists", "job_failed"}
Actions == {"", "resolve_blocking_reasons", "prepare_the_copies",
            "approve_and_judge", "wait_for_the_judgement", "make_the_film",
            "watch_the_film"}
Press == 1..MaxPosts
Figures == UNION {{Cost[p][s] : s \in Setting} : p \in Package}
Amounts == Figures \cup {0}

Idle == [kind |-> "", state |-> "idle", reason |-> ""]
NoThread == [kind |-> "", phase |-> "off", package |-> Home,
             setting |-> Default, offer |-> 0, reason |-> "", meanwhile |-> {}]
NoRequest == [kind |-> "", page |-> CHOOSE g \in Page : TRUE, package |-> Home,
              figure |-> 0, offer |-> 0, action |-> "", busy |-> FALSE, meanwhile |-> {}]
Blank == [action |-> "", running |-> FALSE, due |-> TRUE]

JobStates == [kind : Jobs \cup {""}, state : {"idle", "running", "done", "failed"},
              reason : Reasons]
Threads == [kind : Jobs \cup {""}, phase : {"off", "begun", "planned", "buying", "over"},
            package : Package, setting : Setting, offer : Amounts, reason : Reasons,
            meanwhile : SUBSET Setting]
Requests == [kind : Jobs \cup {"", "load"}, page : Page, package : Package,
             figure : Amounts, offer : Amounts, action : Actions, busy : BOOLEAN,
             meanwhile : SUBSET Setting]
Views == [action : Actions, running : BOOLEAN, due : BOOLEAN]
Bills == [package : Package, approved : Amounts, billed : Amounts, meanwhile : SUBSET Setting]

TypeOK ==
  /\ shelf \in [Package -> {"none", "half", "whole"}]
  /\ setting \in [Package -> Setting]
  /\ copies \in [Package -> [Setting -> {"none", "some", "all"}]]
  /\ partial \in [Package -> BOOLEAN]
  /\ record \in [Package -> BOOLEAN]
  /\ film \in [Package -> BOOLEAN]
  /\ current \in Package
  /\ job \in JobStates
  /\ work \in [Press -> Threads]
  /\ request \in Requests
  /\ pages \in [Page -> Views]
  /\ bills \subseteq Bills
  /\ posts \in 0..MaxPosts /\ edits \in 0..MaxEdits /\ faults \in 0..MaxFaults

-----------------------------------------------------------------------------
(* What the console says of a package.                                     *)

Figure(p) == Cost[p][setting[p]]

\* _next_action, over the three stages of the judged path and the film's own.
NextAction(p) ==
  CASE shelf[p] # "whole" -> "resolve_blocking_reasons"
    [] record[p] /\ film[p] -> "watch_the_film"
    [] record[p] -> "make_the_film"
    [] partial[p] -> "wait_for_the_judgement"
    [] copies[p][setting[p]] # "all" -> "prepare_the_copies"
    [] OTHER -> "approve_and_judge"

\* A stage that is in progress: some of the copies, or some of the judgements.
Busy(p) == \/ copies[p][setting[p]] = "some"
           \/ partial[p] /\ ~record[p]

\* controls(): the button a tab offers beside the package switcher.
Offered(g) ==
  IF pages[g].running THEN {}
  ELSE CASE pages[g].action = "prepare_the_copies" -> {"preflight"}
         [] pages[g].action = "approve_and_judge" -> {"judge"}
         [] pages[g].action = "make_the_film" -> {"film"}
         [] OTHER -> {}

-----------------------------------------------------------------------------
\* Packages are on the shelf, some of them with their copies made earlier.
Init ==
  /\ shelf \in [Package -> {"none", "whole"}] /\ shelf[Home] = "whole"
  /\ setting = [p \in Package |-> Default]
  /\ \E ready \in SUBSET {p \in Package : shelf[p] = "whole"} :
       copies = [p \in Package |->
                  [s \in Setting |-> IF p \in ready THEN "all" ELSE "none"]]
  /\ partial = [p \in Package |-> FALSE]
  /\ record = [p \in Package |-> FALSE]
  /\ film = [p \in Package |-> FALSE]
  /\ current = Home
  /\ job = Idle
  /\ work = [n \in Press |-> NoThread]
  /\ request = NoRequest
  /\ pages = [g \in Page |-> Blank]
  /\ bills = {}
  /\ posts = 0 /\ edits = 0 /\ faults = 0

-----------------------------------------------------------------------------
(* Reading the page: the stages first, the job's state after them.         *)

Read(g) ==
  /\ request.kind = ""
  /\ request' = [NoRequest EXCEPT !.kind = "load", !.page = g,
                                  !.action = NextAction(current),
                                  !.busy = Busy(current)]
  /\ UNCHANGED <<files, current, job, work, pages, bills, counts>>

\* A page goes on re-reading itself while a job runs or a stage is in progress.
RereadOnlyBusy(running, busy) == busy
Reread(running, busy) == running \/ busy

Show ==
  /\ request.kind = "load"
  /\ LET running == job.state = "running"
     IN pages' = [pages EXCEPT ![request.page] =
                    [action |-> request.action, running |-> running,
                     due |-> Reread(running, request.busy)]]
  /\ request' = NoRequest
  /\ UNCHANGED <<files, current, job, work, bills, counts>>

-----------------------------------------------------------------------------
(* Pressing a button: the handler reads the console, then starts the job.  *)

\* The person types a figure; the server works out the one it has to match.
Post(g, kind, offer) ==
  /\ request.kind = "" /\ posts < MaxPosts
  /\ kind \in Offered(g)
  /\ kind = "judge" \/ offer = 0
  /\ posts' = posts + 1
  /\ request' = [NoRequest EXCEPT !.kind = kind, !.page = g, !.package = current,
                                  !.figure = Figure(current), !.offer = offer]
  /\ UNCHANGED <<files, current, job, work, pages, bills, edits, faults>>

\* approve_judgement
ApproveJudgement(figure, offer) == offer = figure

\* PrivateJourneyJobs._begin: refused while another job is running.
BeginUnchecked(kind) == job' = [kind |-> kind, state |-> "running", reason |-> ""]
Begin(kind) ==
  /\ job.state # "running"
  /\ job' = [kind |-> kind, state |-> "running", reason |-> ""]

Thread(kind, p, offer, meanwhile) ==
  [NoThread EXCEPT !.kind = kind, !.phase = "begun", !.package = p, !.offer = offer,
                   !.meanwhile = meanwhile]

\* The tab that was answered 202 reads the console again.
Start ==
  /\ request.kind \in Jobs
  /\ request.kind = "judge" => ApproveJudgement(request.figure, request.offer)
  /\ Begin(request.kind)
  /\ work' = [work EXCEPT ![posts] = Thread(request.kind, request.package, request.offer,
                                           request.meanwhile)]
  /\ pages' = [pages EXCEPT ![request.page].due = TRUE]
  /\ request' = NoRequest
  /\ UNCHANGED <<files, current, bills, counts>>

Refuse ==
  /\ request.kind \in Jobs
  /\ \/ job.state = "running"
     \/ request.kind = "judge" /\ ~ApproveJudgement(request.figure, request.offer)
  /\ request' = NoRequest
  /\ UNCHANGED <<files, current, job, work, pages, bills, counts>>

\* The switcher offers the directories that are whole packages.
Select(g, p) ==
  /\ request.kind = "" /\ posts < MaxPosts
  /\ shelf[p] = "whole"
  /\ posts' = posts + 1
  /\ current' = p
  /\ pages' = [pages EXCEPT ![g].due = TRUE]
  /\ UNCHANGED <<files, job, work, request, bills, edits, faults>>

\* start_intake: a name that is taken is refused before any job exists.
PostIntake(g, p) ==
  /\ request.kind = "" /\ posts < MaxPosts
  /\ shelf[p] = "none"
  /\ Begin("intake")
  /\ posts' = posts + 1
  /\ work' = [work EXCEPT ![posts + 1] = Thread("intake", p, 0, {})]
  /\ pages' = [pages EXCEPT ![g].due = TRUE]
  /\ UNCHANGED <<files, current, request, bills, edits, faults>>

-----------------------------------------------------------------------------
(* The job's thread.                                                       *)

Doing(n, kind, phase) == work[n].kind = kind /\ work[n].phase = phase

\* The job plans for itself, from the package as it is by now.
PlanWork(n) ==
  /\ work[n].phase = "begun" /\ work[n].kind # "intake"
  /\ work' = [work EXCEPT ![n].phase = "planned",
                          ![n].setting = setting[work[n].package]]
  /\ UNCHANGED <<files, current, job, request, pages, bills, counts>>

\* run_preflight: copies that exist are measured, the missing ones are made.
MakeCopies(n) ==
  LET p == work[n].package
      s == work[n].setting
  IN /\ Doing(n, "preflight", "planned")
     /\ \/ /\ copies[p][s] = "none"
           /\ copies' = [copies EXCEPT ![p][s] = "some"]
           /\ UNCHANGED work
        \/ /\ copies' = [copies EXCEPT ![p][s] = "all"]
           /\ work' = [work EXCEPT ![n].phase = "over"]
     /\ UNCHANGED <<shelf, setting, partial, record, film, current, job, request,
                    pages, bills, counts>>

\* run_analysis refuses to replace a finished judgement: the console never
\* asks it to.
BuyRegardless(n) ==
  /\ Doing(n, "judge", "planned")
  /\ work' = [work EXCEPT ![n].phase = "buying"]
  /\ UNCHANGED <<files, current, job, request, pages, bills, counts>>

CheckUnbought(n) ==
  /\ Doing(n, "judge", "planned")
  /\ work' = IF record[work[n].package]
             THEN [work EXCEPT ![n].phase = "over",
                               ![n].reason = "judgement_already_bought"]
             ELSE [work EXCEPT ![n].phase = "buying"]
  /\ UNCHANGED <<files, current, job, request, pages, bills, counts>>

\* A variant of Billed: the strides are read once more when it comes to buying.
BilledAnew(n) == bills \cup {[package |-> work[n].package, approved |-> work[n].offer,
                              billed |-> Figure(work[n].package), meanwhile |-> work[n].meanwhile]}
Billed(n) == bills \cup {[package |-> work[n].package, approved |-> work[n].offer,
                          billed |-> Cost[work[n].package][work[n].setting],
                          meanwhile |-> work[n].meanwhile]}

BuySome(n) ==
  LET p == work[n].package
      s == work[n].setting
  IN /\ Doing(n, "judge", "buying")
     /\ ~partial[p]
     /\ partial' = [partial EXCEPT ![p] = TRUE]
     /\ copies' = [copies EXCEPT ![p][s] = IF @ = "none" THEN "some" ELSE @]
     /\ bills' = Billed(n)
     /\ UNCHANGED <<shelf, setting, record, film, current, job, work, request,
                    pages, counts>>

BuyRest(n) ==
  LET p == work[n].package
  IN /\ Doing(n, "judge", "buying")
     /\ record' = [record EXCEPT ![p] = TRUE]
     /\ partial' = [partial EXCEPT ![p] = FALSE]
     /\ copies' = [copies EXCEPT ![p][work[n].setting] = "all"]
     /\ bills' = Billed(n)
     /\ work' = [work EXCEPT ![n].phase = "over"]
     /\ UNCHANGED <<shelf, setting, film, current, job, request, pages, counts>>

\* Module FilmCut is this step, file by file.
CutFilm(n) ==
  /\ Doing(n, "film", "planned")
  /\ film' = [film EXCEPT ![work[n].package] = TRUE]
  /\ work' = [work EXCEPT ![n].phase = "over"]
  /\ UNCHANGED <<shelf, setting, copies, partial, record, current, job, request,
                 pages, bills, counts>>

\* create_package: the name is checked again, the directory is filled, and the
\* console turns to the new package.
MakePackage(n) ==
  LET p == work[n].package
  IN /\ Doing(n, "intake", "begun")
     /\ IF shelf[p] = "none"
        THEN /\ shelf' = [shelf EXCEPT ![p] = "half"]
             /\ work' = [work EXCEPT ![n].phase = "planned"]
        ELSE /\ work' = [work EXCEPT ![n].phase = "over",
                                     ![n].reason = "package_already_exists"]
             /\ UNCHANGED shelf
     /\ UNCHANGED <<setting, copies, partial, record, film, current, job, request,
                    pages, bills, counts>>

FillPackage(n) ==
  LET p == work[n].package
  IN /\ Doing(n, "intake", "planned")
     /\ shelf' = [shelf EXCEPT ![p] = "whole"]
     /\ current' = p
     /\ work' = [work EXCEPT ![n].phase = "over"]
     /\ UNCHANGED <<setting, copies, partial, record, film, job, request, pages,
                    bills, counts>>

\* FFmpeg, the network, an expired sign-in, a full disk: the work raises.
WorkFails(n) ==
  /\ work[n].phase \in {"begun", "planned", "buying"}
  /\ faults < MaxFaults
  /\ faults' = faults + 1
  /\ work' = [work EXCEPT ![n].phase = "over", ![n].reason = "job_failed"]
  /\ UNCHANGED <<files, current, job, request, pages, bills, posts, edits>>

\* PrivateJourneyJobs._finish
Finish(n) ==
  /\ work[n].phase = "over"
  /\ job' = [job EXCEPT !.state = IF work[n].reason = "" THEN "done" ELSE "failed",
                        !.reason = work[n].reason]
  /\ work' = [work EXCEPT ![n] = NoThread]
  /\ UNCHANGED <<files, current, request, pages, bills, counts>>

-----------------------------------------------------------------------------
(* The command line beside the console, and the server going away.         *)

\* A figure of p that has been checked, and a job that has not planned yet.
Checked(p) == request.kind = "judge" /\ request.package = p
Planless(n, p) == work[n].kind = "judge" /\ work[n].phase = "begun" /\ work[n].package = p

\* `analysis_cli plan --stride` writes the package's settings, whenever it is run.
WriteAnalysisSettings(p, s) ==
  /\ edits < MaxEdits
  /\ shelf[p] = "whole" /\ setting[p] # s
  /\ edits' = edits + 1
  /\ setting' = [setting EXCEPT ![p] = s]
  /\ request' = IF Checked(p) THEN [request EXCEPT !.meanwhile = @ \cup {s}] ELSE request
  /\ work' = [n \in Press |->
               IF Planless(n, p) THEN [work[n] EXCEPT !.meanwhile = @ \cup {s}] ELSE work[n]]
  /\ UNCHANGED <<shelf, copies, partial, record, film, current, job, pages, bills,
                 posts, faults>>

\* The job's thread is a daemon: it dies with the server.  A tab whose read
\* finds no server says so and sets no timer.
Unanswered == [Blank EXCEPT !.due = FALSE]

Restart ==
  /\ faults < MaxFaults
  /\ faults' = faults + 1
  /\ current' = Home
  /\ job' = Idle
  /\ work' = [n \in Press |-> NoThread]
  /\ request' = NoRequest
  /\ \E lost \in SUBSET {g \in Page : pages[g].due} :
       pages' = [g \in Page |->
                  IF g \in lost \/ (request.kind = "load" /\ request.page = g)
                  THEN Unanswered ELSE pages[g]]
  /\ UNCHANGED <<files, bills, posts, edits>>

Work(n) ==
  \/ PlanWork(n) \/ MakeCopies(n) \/ CheckUnbought(n) \/ BuySome(n) \/ BuyRest(n)
  \/ CutFilm(n) \/ MakePackage(n) \/ FillPackage(n) \/ Finish(n)

Handle == Show \/ Start \/ Refuse

Next ==
  \/ Handle
  \/ \E n \in Press : Work(n) \/ WorkFails(n)
  \/ \E g \in Page : \/ Read(g)
                     \/ \E p \in Package : Select(g, p) \/ PostIntake(g, p)
                     \/ \E kind \in Jobs, offer \in Amounts : Post(g, kind, offer)
  \/ \E p \in Package, s \in Setting : WriteAnalysisSettings(p, s)
  \/ Restart

Spec == Init /\ [][Next]_vars

(***************************************************************************)
(* A started thread is scheduled, a request being handled is answered, and *)
(* a tab whose timer is set reads the console again (however often other   *)
(* requests get in first: hence strong fairness on that read).             *)
(***************************************************************************)
FairSpec ==
  /\ Spec
  /\ \A n \in Press : WF_vars(Work(n))
  /\ WF_vars(Handle)
  /\ \A g \in Page : SF_vars(pages[g].due /\ Read(g))

-----------------------------------------------------------------------------
(* Properties.                                                             *)

\* "One job at a time, for one process": the state the console polls says a
\* job is running exactly while one thread is at work, whatever its failures.
OneJob ==
  Cardinality({n \in Press : work[n].phase # "off"})
    = IF job.state = "running" THEN 1 ELSE 0

\* The gate: what a purchase comes to is the figure that was approved.
\* (private_journey_actions.py: "The number a person approves is the number
\* they were shown.")  The job plans again, of the package as it is by then: if
\* the owner has written other strides since the figure was checked, and not
\* otherwise, the purchase is of one of those.  A stride written earlier, or of
\* another package, or after the job has planned, changes nothing.
ApprovedIsBilled ==
  \A b \in bills : \/ b.billed = b.approved
                   \/ \E s \in b.meanwhile : b.billed = Cost[b.package][s]

\* No press of any button, from however stale a tab, sets about buying the
\* judgement of a package that already has one.
BoughtOnce ==
  \A n \in Press : work[n].phase = "buying" => ~record[work[n].package]

\* A tab that says a job is running stops saying so: jobs end, failed ones
\* too, and a tab that shows one goes on re-reading until it has.
RunningShownEnds == \A g \in Page : pages[g].running ~> ~pages[g].running

\* Of the code's own words, tested: "The judgement is being bought. This page
\* re-reads itself." -- said only while a judge job is at work.
WaitingMeansBuying ==
  NextAction(current) = "wait_for_the_judgement"
    => \E n \in Press : work[n].kind = "judge" /\ work[n].package = current
=============================================================================
