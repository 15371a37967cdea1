----------------------------- MODULE WebService -----------------------------
(***************************************************************************)
(* The web service of app/web/server.py as one request meets it: the rate  *)
(* limiter of its worker (app/web/rate_limit.py), the credentials and the  *)
(* rules of the public demo (app/web/deployment.py), then the routes.  A   *)
(* route is named by its family and what it gives of it.  What a handler   *)
(* does once it is reached is the subject of other modules: here it is     *)
(* what it touches, and the status it answers with.                        *)
(***************************************************************************)
EXTENDS Integers, Sequences, FiniteSets

CONSTANTS
    Workers,      \* processes of the service, each with a limiter of its own
    MaxRequests,  \* requests a worker admits in a window
    Window,       \* length of a window, in ticks
    Tick,         \* ticks to a second
    MaxTime,      \* bound on the clock
    MaxServed     \* bound on the requests admitted under the limiter

ASSUME ServiceAssumption == /\ {MaxRequests, Window, Tick, MaxTime, MaxServed} \subseteq Nat \ {0}
                            /\ IsFiniteSet(Workers)

VARIABLES
    deployment,  \* [demo, credentials]: the mode, and whether they are asked for
    ready,       \* the sources configured and readable on this machine
    clock,       \* now
    window,      \* of each worker: [from, count]
    admitted,    \* when requests were admitted: [worker, at], in order
    promised,    \* what a refused client was told: [worker, at, until]
    answer       \* the last answer: [status, touched]

webVars == <<deployment, ready, clock, window, admitted, promised, answer>>

Reviews  == {"highlight", "reinforcement", "evidence"}
Sources  == Reviews \cup {"director", "journey", "cloud"}
Methods  == {"GET", "POST", "PUT"}
Bodies   == {"none", "small", "large", "malformed"}

ReviewRoutes  == Reviews \X {"page", "api", "asset"}
ConsoleRoutes == {"journey"} \X {"preflight", "judge", "film", "propose", "create", "select",
                                 "story", "watch", "workflow", "page", "api"}
StatusRoutes  == {"status", "director"} \X {"page", "api"}
DemoRoutes    == {"demo"} \X {"page", "inventory", "run", "story", "candidates"}
ProbeRoutes   == {"probe"} \X {"settings", "preflight", "adk", "hosted", "director"}
Health        == {<<"health", "page">>}
Routes == UNION {ReviewRoutes, ConsoleRoutes, StatusRoutes, DemoRoutes, ProbeRoutes, Health,
                 {<<"gpx", "api">>, <<"nowhere", "page">>}}

\* A variant of Disabled: the story of a package was added and not shut off.
DisabledButStory ==
    ReviewRoutes \cup (ConsoleRoutes \ {<<"journey", "story">>}) \cup StatusRoutes
        \cup ProbeRoutes \cup {<<"gpx", "api">>}

\* _PUBLIC_DEMO_DISABLED_PATHS
Disabled == ReviewRoutes \cup ConsoleRoutes \cup StatusRoutes \cup ProbeRoutes \cup {<<"gpx", "api">>}

\* Whether the client is one of ours: it has the credentials, where they are
\* asked for, and where not its page is one of this machine.
Requests == [route : Routes, method : Methods, body : Bodies, ours : BOOLEAN]

-----------------------------------------------------------------------------

\* What a handler reads or calls once its method and its body are right.
NeedsPackage(route) ==
    CASE route \in ReviewRoutes \cup StatusRoutes \cup {<<"gpx", "api">>} -> "private"
      [] route = <<"journey", "workflow">> -> "nothing"
      [] route \in ConsoleRoutes -> "private"
      [] route \in ProbeRoutes -> "cloud"
      [] OTHER -> "nothing"

\* An update comes from a page of this machine, with a body of its own shape.
UpdateAnswers(r) == IF r.ours /\ r.body = "small" THEN {200, 400} ELSE {400}

\* The review pages: one that is not set up says how to set it up.
ReviewAnswers(r) ==
    LET set == r.route[1] \in ready IN
    CASE r.route[2] = "api" /\ ~set -> {400}
      [] r.route[2] = "api" /\ set /\ r.method = "GET"  -> {200}
      [] r.route[2] = "api" /\ set /\ r.method = "POST" -> UpdateAnswers(r)
      [] r.route[2] # "api" /\ r.method = "GET" ->
            IF r.route[2] = "page" THEN {200} ELSE IF set THEN {200, 404} ELSE {404}
      [] OTHER -> {405}

\* That of the highlights does not say how.
HighlightAnswers(r) ==
    IF r.route[2] = "page" /\ r.method = "GET" /\ "highlight" \notin ready THEN {503}
    ELSE ReviewAnswers(r)

ReadAnswers(r, source) ==
    IF r.method # "GET" THEN {405} ELSE IF source \in ready THEN {200, 503} ELSE {503}

PreviewAnswers(r) == ReadAnswers(r, "director")
StatusAnswers(r)  == ReadAnswers(r, "journey")

\* Starting work: the package first, then the body, then whether anything runs.
ActionAnswers(r) ==
    IF r.method # "POST" THEN {405}
    ELSE IF "journey" \notin ready THEN {503}
    ELSE IF r.body \in {"large", "malformed"} THEN {400}
    ELSE {202, 400, 409}

\* An intake needs no package that is there already.
IntakeAnswers(r) ==
    IF r.method # "POST" THEN {405}
    ELSE IF r.body \in {"large", "malformed"} THEN {400}
    ELSE CASE r.route[2] = "create" -> {202, 400, 409} [] OTHER -> {200, 400}

WatchAnswers(r) ==
    IF r.method # "GET" THEN {405}
    ELSE IF "journey" \in ready THEN {200, 206, 404, 416} ELSE {404}

ConsoleAnswers(r) ==
    CASE r.route[2] \in {"preflight", "judge", "film"}     -> ActionAnswers(r)
      [] r.route[2] \in {"propose", "create", "select"}    -> IntakeAnswers(r)
      [] r.route[2] = "watch"                              -> WatchAnswers(r)
      [] r.route[2] = "workflow" -> IF r.method = "GET" THEN {200} ELSE {405}
      [] r.route[2] \in {"page", "api", "story"} ->
            IF r.method # "GET" THEN {405}
            ELSE IF "journey" \notin ready THEN {503}
            ELSE IF r.route[2] = "story" THEN {200, 404} ELSE {200}

DemoAnswers(r) == IF r.route[2] = "run" THEN {200, 400} ELSE {200}

\* The probes send fixed synthetic events: they take no input.
ProbeAnswers(r) ==
    LET reached == IF "cloud" \in ready THEN {200, 503} ELSE {503} IN
    CASE r.route[2] \in {"settings", "preflight"} -> reached
      [] r.method # "POST" -> {405}
      [] r.body # "none"   -> {400}
      [] OTHER             -> reached

GpxAnswers(r) == IF r.body \in {"small", "large"} THEN {200, 400} ELSE {400}

Dispatch(r) ==
    CASE r.route \in Health        -> {200}
      [] r.route[1] = "highlight"  -> HighlightAnswers(r)
      [] r.route[1] \in {"reinforcement", "evidence"} -> ReviewAnswers(r)
      [] r.route[1] = "director"   -> PreviewAnswers(r)
      [] r.route[1] = "status"     -> StatusAnswers(r)
      [] r.route \in ConsoleRoutes -> ConsoleAnswers(r)
      [] r.route \in DemoRoutes    -> DemoAnswers(r)
      [] r.route \in ProbeRoutes   -> ProbeAnswers(r)
      [] r.route = <<"gpx", "api">> -> GpxAnswers(r)
      [] OTHER -> {404}

\* _public_demo_auth_error
NoSuchPage(r) == deployment.demo /\ deployment.credentials /\ ~r.ours

\* _public_demo_request_error
DemoRefusal(r) ==
    CASE r.body = "malformed"          -> {400}
      [] r.body \in {"small", "large"} -> {413}
      [] r.body = "none" /\ r.method # "GET" -> {405}
      [] OTHER                         -> {}

\* The first of these that has something to say answers.
Routed(r) ==
    IF r.route \notin Health /\ NoSuchPage(r) THEN {401}
    ELSE IF deployment.demo /\ r.route \notin Disabled /\ DemoRefusal(r) # {} THEN DemoRefusal(r)
    ELSE IF deployment.demo /\ r.route \in Disabled \ Health THEN {403}
    ELSE Dispatch(r)

Replies(requests) ==
    UNION {{[status |-> status,
             touched |-> IF status \in {401, 403, 405, 413} THEN "nothing" ELSE NeedsPackage(r.route)] :
                status \in Routed(r)} : r \in requests}

-----------------------------------------------------------------------------

Elapsed(w) == clock - window[w].from
Fresh(w)   == Elapsed(w) < 0 \/ Elapsed(w) >= Window

WebInit ==
    /\ deployment \in [demo : BOOLEAN, credentials : BOOLEAN]
    /\ ready \in {{}, Sources}
    /\ clock = 0
    /\ window = [w \in Workers |-> [from |-> 0, count |-> 0]]
    /\ admitted = <<>>
    /\ promised = {}
    /\ answer = [status |-> 0, touched |-> "nothing"]

MayAdmit(w) == Fresh(w) \/ window[w].count < MaxRequests

\* FixedWindowRateLimiter.allow, when it lets through
Admit(w) ==
    /\ MayAdmit(w)
    /\ Len(admitted) < MaxServed
    /\ window' = [window EXCEPT ![w] = IF Fresh(w) THEN [from |-> clock, count |-> 1]
                                       ELSE [from |-> window[w].from, count |-> window[w].count + 1]]
    /\ admitted' = Append(admitted, [worker |-> w, at |-> clock])
    /\ UNCHANGED promised

\* A variant of RetryAfter: whole seconds, rounded down.
RetryAfterDown(w) ==
    LET left == (Window - Elapsed(w)) \div Tick IN IF left < 1 THEN 1 ELSE left

\* Whole seconds, rounded up, one at least.
RetryAfter(w) ==
    LET left == (Window - Elapsed(w) + Tick - 1) \div Tick IN IF left < 1 THEN 1 ELSE left

TurnAway(w) ==
    /\ ~MayAdmit(w)
    /\ promised' = promised \cup {[worker |-> w, at |-> clock, until |-> clock + RetryAfter(w) * Tick]}
    /\ UNCHANGED <<window, admitted>>

\* The limiter stands before the credentials, and only in the public demo.
ServeHealth ==
    /\ answer' \in Replies({r \in Requests : r.route \in Health})
    /\ UNCHANGED <<deployment, ready, clock, window, admitted, promised>>

Serve(w) ==
    /\ \/ /\ deployment.demo /\ TurnAway(w)
          /\ answer' = [status |-> 429, touched |-> "nothing"]
       \/ /\ IF deployment.demo THEN Admit(w) ELSE UNCHANGED <<window, admitted, promised>>
          /\ answer' \in Replies({r \in Requests : r.route \notin Health})
    /\ UNCHANGED <<deployment, ready, clock>>

Pass ==
    /\ clock < MaxTime
    /\ clock' = clock + 1
    /\ UNCHANGED <<deployment, ready, window, admitted, promised, answer>>

WebNext == Pass \/ ServeHealth \/ \E w \in Workers : Serve(w)

WebSpec == WebInit /\ [][WebNext]_webVars

-----------------------------------------------------------------------------

\* The public demo reads nothing of a ride and calls nothing outside, whatever
\* it is asked and however it is asked.
DemoStaysSynthetic == deployment.demo => answer.touched = "nothing"

\* However the requests fall over the boundary of two windows, in no stretch of
\* time as long as a window do the workers admit more than two windows' worth.
RateBounded ==
    \A start \in 0 .. clock :
        Cardinality({i \in DOMAIN admitted : admitted[i].at \in start .. start + Window - 1})
            <= 2 * MaxRequests * Cardinality(Workers)

\* A client that waits as long as it was told finds a window that began since,
\* or one that is over.
RetryIsEnough ==
    \A p \in promised :
        clock >= p.until => Fresh(p.worker) \/ window[p.worker].from > p.at

\* The limit holds over any stretch of time, and so does what is said of it.
RateKept == RateBounded /\ RetryIsEnough
=============================================================================
