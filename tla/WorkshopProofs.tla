--------------------------- MODULE WorkshopProofs ---------------------------
(***************************************************************************)
(* What TLAPS proves of WebService, for every number of workers, limit,    *)
(* window and length of a second, and any requests; of Caches, for any     *)
(* processes; and of DemoVideo, for any packages, inputs and excerpts.     *)
(***************************************************************************)
EXTENDS WebService, Caches, DemoVideo, FiniteSetTheorems, WellFoundedInduction, TLAPS

-----------------------------------------------------------------------------
(* The public demo.                                                        *)

\* The way to the health page is not among those shut off.
LEMMA HealthIsOpen == Health \cap Disabled = {}
  BY DEF Health, Disabled, ReviewRoutes, Reviews, ConsoleRoutes, StatusRoutes, ProbeRoutes

\* A route that is not shut off reads nothing of a ride and calls nobody.
LEMMA OpenTouchesNothing ==
    ASSUME NEW route, route \notin Disabled
    PROVE  NeedsPackage(route) = "nothing"
  <1>1. /\ route \notin ReviewRoutes \cup StatusRoutes \cup {<<"gpx", "api">>}
        /\ route \notin ConsoleRoutes /\ route \notin ProbeRoutes
    BY DEF Disabled
  <1> QED BY <1>1 DEF NeedsPackage

\* In the demo a route that is shut off is refused before it is looked at.
LEMMA ShutOffIsRefused ==
    ASSUME deployment.demo, NEW r \in Requests, r.route \in Disabled
    PROVE  Routed(r) \subseteq {401, 403}
  BY HealthIsOpen DEF Routed

\* Whatever the demo replies, it touched nothing for it.
LEMMA DemoTouchesNothing ==
    ASSUME deployment.demo, NEW requests \in SUBSET Requests, NEW reply \in Replies(requests)
    PROVE  reply.touched = "nothing"
  <1>1. PICK r \in requests :
           \E status \in Routed(r) :
              reply = [status |-> status,
                       touched |-> IF status \in {401, 403, 405, 413} THEN "nothing"
                                   ELSE NeedsPackage(r.route)]
    BY DEF Replies
  <1>2. PICK status \in Routed(r) :
              reply = [status |-> status,
                       touched |-> IF status \in {401, 403, 405, 413} THEN "nothing"
                                   ELSE NeedsPackage(r.route)]
    BY <1>1
  <1>3. CASE r.route \in Disabled
    BY <1>2, <1>3, ShutOffIsRefused
  <1>4. CASE r.route \notin Disabled
    BY <1>2, <1>4, OpenTouchesNothing
  <1> QED BY <1>3, <1>4

\* The public demo reads nothing of a ride and calls nothing outside: whatever
\* the route, the method, the body and the credentials, before the limit and
\* past it.
THEOREM DemoIsSynthetic == WebSpec => []DemoStaysSynthetic
  <1>1. WebInit => DemoStaysSynthetic
    BY DEF WebInit, DemoStaysSynthetic
  <1>2. DemoStaysSynthetic /\ [WebNext]_webVars => DemoStaysSynthetic'
    <2> SUFFICES ASSUME DemoStaysSynthetic, [WebNext]_webVars, deployment'.demo
                 PROVE  answer'.touched = "nothing"
      BY DEF DemoStaysSynthetic
    <2>1. deployment' = deployment
      BY DEF WebNext, Pass, ServeHealth, Serve, webVars
    <2>2. CASE ServeHealth
      <3>1. {r \in Requests : r.route \in Health} \in SUBSET Requests
        OBVIOUS
      <3> QED BY <2>1, <2>2, <3>1, DemoTouchesNothing DEF ServeHealth
    <2>3. CASE \E w \in Workers : Serve(w)
      <3>1. {r \in Requests : r.route \notin Health} \in SUBSET Requests
        OBVIOUS
      <3>2. \/ answer' = [status |-> 429, touched |-> "nothing"]
            \/ answer' \in Replies({r \in Requests : r.route \notin Health})
        BY <2>3 DEF Serve
      <3> QED BY <2>1, <3>1, <3>2, DemoTouchesNothing
    <2>4. CASE Pass \/ UNCHANGED webVars
      BY <2>1, <2>4 DEF Pass, webVars, DemoStaysSynthetic
    <2> QED BY <2>2, <2>3, <2>4 DEF WebNext
  <1> QED BY <1>1, <1>2, PTL DEF WebSpec
-----------------------------------------------------------------------------
(* The limit.                                                              *)

Admissions == [worker : Workers, at : Nat]
Promises   == [worker : Workers, at : Nat, until : Nat]

WebType ==
  /\ clock \in Nat
  /\ window \in [Workers -> [from : Nat, count : Nat]]
  /\ admitted \in Seq(Admissions)
  /\ promised \in SUBSET Promises

\* The requests a worker admitted at some of the moments, by their number.
Mine(log, w, moments) == {i \in DOMAIN log : log[i].worker = w /\ log[i].at \in moments}

(***************************************************************************)
(* The inductive invariant, of each worker.  Nothing was admitted past the *)
(* end of its window; the window admitted no more than it counts; in the   *)
(* time before it that a stretch reaching into it can take in, no more     *)
(* than one window's worth was; so in no stretch as long as a window more  *)
(* than two windows' worth.  And who was turned away was told to come back *)
(* when the window is over, or a new one has begun since.                  *)
(***************************************************************************)
Counted(w, log, from, count, now) ==
  /\ from <= now /\ count <= MaxRequests
  /\ \A i \in DOMAIN log : log[i].worker = w => log[i].at <= now /\ log[i].at < from + Window
  /\ Cardinality(Mine(log, w, from .. now)) <= count
  /\ \A t \in Nat : t + Window > from => Cardinality(Mine(log, w, t .. from - 1)) <= MaxRequests
  /\ \A t \in Nat : Cardinality(Mine(log, w, t .. t + Window - 1)) <= 2 * MaxRequests

ToldEnough(p, from) ==
  from > p.at \/ (p.at < from + Window /\ p.until >= from + Window)

RateInv ==
  /\ WebType
  /\ \A w \in Workers : Counted(w, admitted, window[w].from, window[w].count, clock)
  /\ \A p \in promised : p.at <= clock /\ ToldEnough(p, window[p.worker].from)

\* Whatever a worker admitted at the one moments, it admitted at the others.
Within(log, w, S, T) == \A i \in DOMAIN log : log[i].worker = w /\ log[i].at \in S => log[i].at \in T

\* A worker's admissions are finitely many, and fewer at fewer moments.
LEMMA MineIsFinite ==
    ASSUME NEW log \in Seq(Admissions), NEW w, NEW S, NEW T, Within(log, w, S, T)
    PROVE  /\ IsFiniteSet(Mine(log, w, S)) /\ Cardinality(Mine(log, w, S)) \in Nat
           /\ Cardinality(Mine(log, w, S)) <= Cardinality(Mine(log, w, T))
           /\ Cardinality(Mine(log, w, T)) \in Nat
  <1>1. Len(log) \in Nat /\ IsFiniteSet(1 .. Len(log))
    BY FS_Interval
  <1>2. \A U : Mine(log, w, U) \in SUBSET (1 .. Len(log))
    BY DEF Mine
  <1>3. \A U : IsFiniteSet(Mine(log, w, U))
    BY <1>1, <1>2, FS_Subset
  <1>4. \A U : Cardinality(Mine(log, w, U)) \in Nat
    BY <1>3, FS_CardinalityType
  <1>5. Mine(log, w, S) \in SUBSET Mine(log, w, T)
    BY DEF Mine, Within
  <1>6. Cardinality(Mine(log, w, S)) <= Cardinality(Mine(log, w, T))
    BY <1>3, <1>5, FS_Subset
  <1> QED BY <1>3, <1>4, <1>6

\* Those at the moments of two sets are at most those of the one and the other.
LEMMA MineSplit ==
    ASSUME NEW log \in Seq(Admissions), NEW w, NEW S, NEW T, NEW U,
           Within(log, w, S, T \cup U)
    PROVE  Cardinality(Mine(log, w, S)) <= Cardinality(Mine(log, w, T)) + Cardinality(Mine(log, w, U))
  <1>1. Cardinality(Mine(log, w, S)) <= Cardinality(Mine(log, w, T \cup U))
        /\ Cardinality(Mine(log, w, S)) \in Nat /\ Cardinality(Mine(log, w, T \cup U)) \in Nat
    BY MineIsFinite
  <1>2. IsFiniteSet(Mine(log, w, T)) /\ IsFiniteSet(Mine(log, w, U))
        /\ Cardinality(Mine(log, w, T)) \in Nat /\ Cardinality(Mine(log, w, U)) \in Nat
    BY MineIsFinite DEF Within
  <1>3. Mine(log, w, T \cup U) = Mine(log, w, T) \cup Mine(log, w, U)
    BY DEF Mine
  <1>4. /\ Cardinality(Mine(log, w, T) \cup Mine(log, w, U))
              = Cardinality(Mine(log, w, T)) + Cardinality(Mine(log, w, U))
                - Cardinality(Mine(log, w, T) \cap Mine(log, w, U))
    BY <1>2, FS_Union
  <1>5. Cardinality(Mine(log, w, T) \cap Mine(log, w, U)) \in Nat
    <2>1. Mine(log, w, T) \cap Mine(log, w, U) \in SUBSET Mine(log, w, T)
      OBVIOUS
    <2> QED BY <1>2, <2>1, FS_Subset, FS_CardinalityType
  <1>6. Cardinality(Mine(log, w, T \cup U))
              = Cardinality(Mine(log, w, T)) + Cardinality(Mine(log, w, U))
                - Cardinality(Mine(log, w, T) \cap Mine(log, w, U))
    BY <1>3, <1>4
  <1>7. \A a, b, c, d, e \in Nat : a <= b /\ b = c + d - e => a <= c + d
    OBVIOUS
  <1> QED BY <1>1, <1>2, <1>5, <1>6, <1>7

\* One request more is one admission more of its worker, at its moment.
LEMMA MineAppended ==
    ASSUME NEW log \in Seq(Admissions), NEW v \in Workers, NEW now \in Nat, NEW w, NEW S
    PROVE  LET more == Append(log, [worker |-> v, at |-> now])
           IN  /\ more \in Seq(Admissions)
               /\ w # v \/ now \notin S => Mine(more, w, S) = Mine(log, w, S)
               /\ Cardinality(Mine(more, w, S)) <= Cardinality(Mine(log, w, S)) + 1
  <1> DEFINE more == Append(log, [worker |-> v, at |-> now])
             n    == Len(log) + 1
  <1>1. more \in Seq(Admissions) /\ DOMAIN more = 1 .. n /\ DOMAIN log = 1 .. Len(log) /\ n \in Nat
        /\ Len(log) \in Nat
    BY DEF Admissions
  <1>2. /\ \A i \in 1 .. Len(log) : more[i] = log[i]
        /\ more[n].worker = v /\ more[n].at = now
    BY <1>1
  <1> HIDE DEF more
  <1>3. \A i : i \in 1 .. n <=> (i \in 1 .. Len(log) \/ i = n)
    BY <1>1
  <1>4. Mine(more, w, S) \subseteq Mine(log, w, S) \cup {n} /\ Mine(log, w, S) \subseteq Mine(more, w, S)
    BY <1>1, <1>2, <1>3 DEF Mine
  <1>5. w # v \/ now \notin S => n \notin Mine(more, w, S)
    BY <1>2 DEF Mine
  <1>6. Cardinality(Mine(more, w, S)) <= Cardinality(Mine(log, w, S)) + 1
    <2>1. IsFiniteSet(Mine(log, w, S)) /\ Cardinality(Mine(log, w, S)) \in Nat
          /\ IsFiniteSet(Mine(more, w, S)) /\ Cardinality(Mine(more, w, S)) \in Nat
      BY <1>1, MineIsFinite DEF Within
    <2>2. /\ IsFiniteSet(Mine(log, w, S) \cup {n})
          /\ \/ Cardinality(Mine(log, w, S) \cup {n}) = Cardinality(Mine(log, w, S))
             \/ Cardinality(Mine(log, w, S) \cup {n}) = Cardinality(Mine(log, w, S)) + 1
      BY <2>1, FS_AddElement
    <2>3. Cardinality(Mine(more, w, S)) <= Cardinality(Mine(log, w, S) \cup {n})
      BY <1>4, <2>2, FS_Subset
    <2>4. Cardinality(Mine(log, w, S) \cup {n}) \in Nat
      BY <2>2, FS_CardinalityType
    <2> QED BY <2>1, <2>2, <2>3, <2>4
  <1>7. w # v \/ now \notin S => Mine(more, w, S) = Mine(log, w, S)
    BY <1>4, <1>5
  <1> QED BY <1>1, <1>6, <1>7 DEF more
\* A request more in a window that is not over and has room.
LEMMA CountedMore ==
    ASSUME NEW log \in Seq(Admissions), NEW w \in Workers, NEW from \in Nat, NEW count \in Nat,
           NEW now \in Nat, Counted(w, log, from, count, now),
           now < from + Window, count < MaxRequests
    PROVE  Counted(w, Append(log, [worker |-> w, at |-> now]), from, count + 1, now)
  <1> DEFINE more == Append(log, [worker |-> w, at |-> now])
  <1>0. MaxRequests \in Nat \ {0} /\ Window \in Nat \ {0} /\ from <= now
    BY ServiceAssumption DEF Counted
  <1>1. /\ more \in Seq(Admissions)
        /\ \A S : now \notin S => Mine(more, w, S) = Mine(log, w, S)
        /\ \A S : Cardinality(Mine(more, w, S)) <= Cardinality(Mine(log, w, S)) + 1
    BY MineAppended
  <1>2. \A S : Cardinality(Mine(log, w, S)) \in Nat /\ Cardinality(Mine(more, w, S)) \in Nat
    BY <1>1, MineIsFinite DEF Within
  <1>3. \A i \in DOMAIN more : more[i].worker = w => more[i].at <= now /\ more[i].at < from + Window
                                                     /\ more[i].at \in Nat
    <2>1. SUFFICES ASSUME NEW i \in DOMAIN more, more[i].worker = w
                   PROVE  more[i].at <= now /\ more[i].at < from + Window /\ more[i].at \in Nat
      OBVIOUS
    <2>2. i \in 1 .. Len(log) + 1
      OBVIOUS
    <2>3. CASE i \in 1 .. Len(log)
      <3>1. more[i] = log[i] /\ log[i] \in Admissions
        BY <2>3
      <3> QED BY <2>1, <2>3, <3>1 DEF Counted, Admissions
    <2>4. CASE i = Len(log) + 1
      <3>1. more[i] = [worker |-> w, at |-> now]
        BY <2>4
      <3> QED BY <1>0, <3>1
    <2> QED BY <2>2, <2>3, <2>4
  <1>4. Cardinality(Mine(more, w, from .. now)) <= count + 1
    <2>1. Cardinality(Mine(log, w, from .. now)) <= count
      BY DEF Counted
    <2>2. Cardinality(Mine(more, w, from .. now)) <= Cardinality(Mine(log, w, from .. now)) + 1
      BY <1>1
    <2> QED BY <1>2, <2>1, <2>2
  <1>5. \A t \in Nat : t + Window > from => Cardinality(Mine(more, w, t .. from - 1)) <= MaxRequests
    <2>1. SUFFICES ASSUME NEW t \in Nat, t + Window > from
                   PROVE  Cardinality(Mine(more, w, t .. from - 1)) <= MaxRequests
      OBVIOUS
    <2>2. now \notin t .. from - 1
      BY <1>0
    <2>3. Mine(more, w, t .. from - 1) = Mine(log, w, t .. from - 1)
      BY <1>1, <2>2
    <2> QED BY <2>1, <2>3 DEF Counted
  <1>6. ASSUME NEW t \in Nat
        PROVE  Cardinality(Mine(more, w, t .. t + Window - 1)) <= 2 * MaxRequests
    <2> DEFINE S == t .. t + Window - 1
    <2>1. CASE now \notin S
      <3>1. Mine(more, w, S) = Mine(log, w, S)
        BY <1>1, <2>1
      <3> QED BY <3>1 DEF Counted
    <2>2. CASE now \in S
      <3>1. t + Window > from
        BY <1>0, <2>2
      <3>2. Within(more, w, S, (t .. from - 1) \cup (from .. now))
        BY <1>0, <1>3 DEF Within
      <3>3. Cardinality(Mine(more, w, S)) <= Cardinality(Mine(more, w, t .. from - 1))
                                             + Cardinality(Mine(more, w, from .. now))
        BY <1>1, <3>2, MineSplit
      <3>4. Cardinality(Mine(more, w, t .. from - 1)) <= MaxRequests
        BY <1>5, <3>1
      <3>5. \A a, b, c, n, m \in Nat : a <= b + c /\ b <= m /\ c <= n + 1 /\ n < m => a <= 2 * m
        OBVIOUS
      <3> QED BY <1>0, <1>2, <1>4, <3>3, <3>4, <3>5
    <2> QED BY <2>1, <2>2
  <1> HIDE DEF more
  <1>7. count + 1 <= MaxRequests
    BY <1>0
  <1>8. Counted(w, more, from, count + 1, now)
    BY <1>0, <1>3, <1>4, <1>5, <1>6, <1>7 DEF Counted
  <1> QED BY <1>8 DEF more

\* A request after the window is over begins another.
LEMMA CountedFresh ==
    ASSUME NEW log \in Seq(Admissions), NEW w \in Workers, NEW from \in Nat, NEW count \in Nat,
           NEW now \in Nat, Counted(w, log, from, count, now), now >= from + Window
    PROVE  Counted(w, Append(log, [worker |-> w, at |-> now]), now, 1, now)
  <1> DEFINE more == Append(log, [worker |-> w, at |-> now])
  <1>0. MaxRequests \in Nat \ {0} /\ Window \in Nat \ {0} /\ from <= now /\ count <= MaxRequests
    BY ServiceAssumption DEF Counted
  <1>1. /\ more \in Seq(Admissions)
        /\ \A S : now \notin S => Mine(more, w, S) = Mine(log, w, S)
        /\ \A S : Cardinality(Mine(more, w, S)) <= Cardinality(Mine(log, w, S)) + 1
    BY MineAppended
  <1>2. \A S : Cardinality(Mine(log, w, S)) \in Nat /\ Cardinality(Mine(more, w, S)) \in Nat
    BY <1>1, MineIsFinite DEF Within
  <1>3. \A i \in DOMAIN log : log[i].worker = w => /\ log[i].at < from + Window /\ log[i].at <= now
                                                   /\ log[i].at \in Nat
    <2>1. \A i \in DOMAIN log : log[i] \in Admissions
      OBVIOUS
    <2>2. \A i \in DOMAIN log : log[i].at \in Nat
      BY <2>1 DEF Admissions
    <2> QED BY <2>2 DEF Counted
  <1>4. \A i \in DOMAIN more : more[i].worker = w => more[i].at <= now /\ more[i].at < now + Window
    <2>1. SUFFICES ASSUME NEW i \in DOMAIN more, more[i].worker = w
                   PROVE  more[i].at <= now /\ more[i].at < now + Window
      OBVIOUS
    <2>2. i \in 1 .. Len(log) + 1
      OBVIOUS
    <2>3. CASE i \in 1 .. Len(log)
      <3>1. more[i] = log[i] /\ log[i] \in Admissions
        BY <2>3
      <3> QED BY <1>0, <1>3, <2>1, <2>3, <3>1
    <2>4. CASE i = Len(log) + 1
      <3>1. more[i] = [worker |-> w, at |-> now]
        BY <2>4
      <3> QED BY <1>0, <3>1
    <2> QED BY <2>2, <2>3, <2>4
  <1> HIDE DEF more
  <1>5. Cardinality(Mine(more, w, now .. now)) <= 1
    <2>1. Mine(log, w, now .. now) = {}
      BY <1>0, <1>3 DEF Mine
    <2>2. Cardinality(Mine(log, w, now .. now)) = 0
      BY <2>1, FS_EmptySet
    <2> QED BY <1>1, <1>2, <2>2
  \* Of a stretch that reaches to now, what was admitted before is of the window.
  <1>6. \A t \in Nat : \A S : t + Window > now /\ S \subseteq t .. t + Window =>
                                 Cardinality(Mine(log, w, S)) <= MaxRequests
    <2>1. SUFFICES ASSUME NEW t \in Nat, NEW S, t + Window > now, S \subseteq t .. t + Window
                   PROVE  Cardinality(Mine(log, w, S)) <= MaxRequests
      OBVIOUS
    <2>2. Within(log, w, S, from .. now)
      BY <1>0, <1>3, <2>1 DEF Within
    <2>3. Cardinality(Mine(log, w, S)) <= Cardinality(Mine(log, w, from .. now))
      BY <2>2, MineIsFinite
    <2>4. Cardinality(Mine(log, w, from .. now)) <= count
      BY DEF Counted
    <2> QED BY <1>0, <1>2, <2>3, <2>4
  <1>7. ASSUME NEW t \in Nat, t + Window > now
        PROVE  Cardinality(Mine(more, w, t .. now - 1)) <= MaxRequests
    <2>1. now \notin t .. now - 1 /\ t .. now - 1 \subseteq t .. t + Window
      BY <1>0, <1>7
    <2>2. Mine(more, w, t .. now - 1) = Mine(log, w, t .. now - 1)
      BY <1>1, <2>1
    <2> QED BY <1>6, <1>7, <2>1, <2>2
  <1>8. ASSUME NEW t \in Nat
        PROVE  Cardinality(Mine(more, w, t .. t + Window - 1)) <= 2 * MaxRequests
    <2> DEFINE S == t .. t + Window - 1
    <2>1. CASE now \notin S
      <3>1. Mine(more, w, S) = Mine(log, w, S)
        BY <1>1, <2>1
      <3> QED BY <3>1 DEF Counted
    <2>2. CASE now \in S
      <3>1. t + Window > now /\ S \subseteq t .. t + Window
        BY <1>0, <2>2
      <3>2. Cardinality(Mine(log, w, S)) <= MaxRequests
        BY <1>6, <3>1
      <3>3. Cardinality(Mine(more, w, S)) <= Cardinality(Mine(log, w, S)) + 1
        BY <1>1
      <3>4. \A a, b, m \in Nat : a <= b + 1 /\ b <= m /\ m # 0 => a <= 2 * m
        OBVIOUS
      <3>5. Cardinality(Mine(more, w, S)) \in Nat /\ Cardinality(Mine(log, w, S)) \in Nat
            /\ MaxRequests \in Nat /\ MaxRequests # 0
        BY <1>0, <1>2
      <3> QED BY <3>2, <3>3, <3>4, <3>5
    <2> QED BY <2>1, <2>2
  <1>9. Counted(w, more, now, 1, now)
    BY <1>0, <1>4, <1>5, <1>7, <1>8 DEF Counted
  <1> QED BY <1>9 DEF more

\* A request of another worker is none of this one's; and time passes.
LEMMA CountedElse ==
    ASSUME NEW log \in Seq(Admissions), NEW w \in Workers, NEW from \in Nat, NEW count \in Nat,
           NEW now \in Nat, Counted(w, log, from, count, now)
    PROVE  /\ \A v \in Workers \ {w} :
                 Counted(w, Append(log, [worker |-> v, at |-> now]), from, count, now)
           /\ Counted(w, log, from, count, now + 1)
  <1>1. ASSUME NEW v \in Workers \ {w}
        PROVE  Counted(w, Append(log, [worker |-> v, at |-> now]), from, count, now)
    <2> DEFINE more == Append(log, [worker |-> v, at |-> now])
    <2>1. \A S : Mine(more, w, S) = Mine(log, w, S)
      BY MineAppended
    <2>2. \A i \in DOMAIN more : more[i].worker = w =>
             more[i].at <= now /\ more[i].at < from + Window
      <3>1. SUFFICES ASSUME NEW i \in DOMAIN more, more[i].worker = w
                     PROVE  more[i].at <= now /\ more[i].at < from + Window
        OBVIOUS
      <3>2. i \in 1 .. Len(log) + 1
        OBVIOUS
      <3>3. CASE i \in 1 .. Len(log)
        <4>1. more[i] = log[i]
          BY <3>3
        <4> QED BY <3>1, <3>3, <4>1 DEF Counted
      <3>4. CASE i = Len(log) + 1
        <4>1. more[i] = [worker |-> v, at |-> now]
          BY <3>4
        <4> QED BY <3>1, <4>1
      <3> QED BY <3>2, <3>3, <3>4
    <2> HIDE DEF more
    <2>3. Counted(w, more, from, count, now)
      BY <2>1, <2>2 DEF Counted
    <2> QED BY <2>3 DEF more
  <1>2. Counted(w, log, from, count, now + 1)
    <2>1. \A i \in DOMAIN log : log[i].worker = w => log[i].at <= now /\ log[i].at \in Nat
      <3>1. \A i \in DOMAIN log : log[i] \in Admissions
        OBVIOUS
      <3>2. \A i \in DOMAIN log : log[i].at \in Nat
        BY <3>1 DEF Admissions
      <3> QED BY <3>2 DEF Counted
    <2>2. Within(log, w, from .. now + 1, from .. now)
      BY <2>1 DEF Within
    <2>3. Cardinality(Mine(log, w, from .. now + 1)) <= Cardinality(Mine(log, w, from .. now))
          /\ Cardinality(Mine(log, w, from .. now + 1)) \in Nat
          /\ Cardinality(Mine(log, w, from .. now)) \in Nat
      BY <2>2, MineIsFinite
    <2>4. Cardinality(Mine(log, w, from .. now)) <= count
      BY DEF Counted
    <2>5. Cardinality(Mine(log, w, from .. now + 1)) <= count
      BY <2>3, <2>4
    <2>6. \A i \in DOMAIN log : log[i].worker = w => log[i].at <= now + 1
      BY <2>1
    <2> QED BY <2>5, <2>6 DEF Counted
  <1> QED BY <1>1, <1>2
\* As long as it was told to wait, the window is over: whole seconds, rounded up.
LEMMA RetryReaches ==
    ASSUME NEW left \in Nat, left > 0
    PROVE  LET seconds == (left + Tick - 1) \div Tick
           IN  (IF seconds < 1 THEN 1 ELSE seconds) * Tick >= left
  <1>1. Tick \in Nat \ {0}
    BY ServiceAssumption
  <1> DEFINE x == left + Tick - 1
             q == x \div Tick
  <1>2. x \in Nat
    BY <1>1
  <1>3. q \in Int /\ x = q * Tick + (x % Tick) /\ x % Tick \in 0 .. Tick - 1
    BY <1>1, <1>2, Z3
  <1>4. q * Tick >= left
    BY <1>1, <1>3
  <1>5. q >= 1
    BY <1>1, <1>2, <1>4
  <1> QED BY <1>1, <1>3, <1>4, <1>5
\* Nothing is admitted yet.
LEMMA RateInit == WebInit => RateInv
  <1> SUFFICES ASSUME WebInit PROVE RateInv
    OBVIOUS
  <1>1. /\ clock = 0 /\ admitted = <<>> /\ promised = {}
        /\ window = [w \in Workers |-> [from |-> 0, count |-> 0]]
    BY DEF WebInit
  <1>2. WebType
    BY <1>1 DEF WebType
  <1>3. ASSUME NEW w \in Workers PROVE Counted(w, admitted, window[w].from, window[w].count, clock)
    <2>1. \A S : Mine(admitted, w, S) = {}
      BY <1>1 DEF Mine
    <2>2. \A S : Cardinality(Mine(admitted, w, S)) = 0
      BY <2>1, FS_EmptySet
    <2>3. window[w].from = 0 /\ window[w].count = 0 /\ MaxRequests \in Nat
      BY <1>1, ServiceAssumption
    <2>4. DOMAIN admitted = {}
      BY <1>1
    <2> QED BY <1>1, <2>2, <2>3, <2>4 DEF Counted
  <1> QED BY <1>1, <1>2, <1>3 DEF RateInv

\* A request is let through, in a window with room or by a new one.
LEMMA RateAdmit ==
    ASSUME RateInv, NEW w \in Workers, Admit(w), clock' = clock
    PROVE  RateInv'
  <1> DEFINE new == IF Fresh(w) THEN [from |-> clock, count |-> 1]
                    ELSE [from |-> window[w].from, count |-> window[w].count + 1]
  <1>0. /\ clock \in Nat /\ window \in [Workers -> [from : Nat, count : Nat]]
        /\ admitted \in Seq(Admissions) /\ promised \in SUBSET Promises
        /\ Window \in Nat \ {0} /\ MaxRequests \in Nat \ {0}
        /\ \A v \in Workers : Counted(v, admitted, window[v].from, window[v].count, clock)
        /\ \A p \in promised : p.at <= clock /\ ToldEnough(p, window[p.worker].from)
    BY ServiceAssumption DEF RateInv, WebType
  <1>1. /\ window' = [window EXCEPT ![w] = new]
        /\ admitted' = Append(admitted, [worker |-> w, at |-> clock]) /\ promised' = promised
        /\ Fresh(w) \/ window[w].count < MaxRequests
    BY DEF Admit, MayAdmit
  <1>2. window[w].from \in Nat /\ window[w].count \in Nat /\ window[w].from <= clock
    BY <1>0 DEF Counted
  <1>3. Fresh(w) <=> clock >= window[w].from + Window
    BY <1>0, <1>2 DEF Fresh, Elapsed
  <1>4. /\ new \in [from : Nat, count : Nat]
        /\ IF Fresh(w) THEN new.from = clock /\ new.count = 1
           ELSE new.from = window[w].from /\ new.count = window[w].count + 1
    BY <1>0, <1>2
  <1> HIDE DEF new
  <1>5. WebType'
    BY <1>0, <1>1, <1>4 DEF WebType, Admissions
  <1>6. Counted(w, admitted', new.from, new.count, clock)
    <2>1. CASE Fresh(w)
      BY <1>0, <1>1, <1>2, <1>3, <1>4, <2>1, CountedFresh
    <2>2. CASE ~Fresh(w)
      <3>1. clock < window[w].from + Window /\ window[w].count < MaxRequests
        BY <1>0, <1>1, <1>2, <1>3, <2>2
      <3> QED BY <1>0, <1>1, <1>2, <1>4, <2>2, <3>1, CountedMore
    <2> QED BY <2>1, <2>2
  <1>7. ASSUME NEW v \in Workers
        PROVE  Counted(v, admitted', window'[v].from, window'[v].count, clock')
    <2>1. CASE v = w
      BY <1>0, <1>1, <1>6, <2>1
    <2>2. CASE v # w
      <3>1. window'[v] = window[v] /\ window[v].from \in Nat /\ window[v].count \in Nat
        BY <1>0, <1>1, <2>2
      <3>2. Counted(v, admitted, window[v].from, window[v].count, clock) /\ w \in Workers \ {v}
        BY <1>0, <2>2
      <3> QED BY <1>0, <1>1, <3>1, <3>2, CountedElse
    <2> QED BY <2>1, <2>2
  <1>8. ASSUME NEW p \in promised
        PROVE  p.at <= clock /\ ToldEnough(p, window'[p.worker].from)
    <2>1. p \in Promises /\ p.worker \in Workers /\ p.at \in Nat /\ p.until \in Nat
      BY <1>0 DEF Promises
    <2>2. p.at <= clock /\ ToldEnough(p, window[p.worker].from)
      BY <1>0
    <2>3. CASE p.worker # w \/ ~Fresh(w)
      <3>1. window'[p.worker].from = window[p.worker].from
        BY <1>0, <1>1, <1>4, <2>1, <2>3
      <3> QED BY <2>2, <3>1
    <2>4. CASE p.worker = w /\ Fresh(w)
      <3>1. window'[p.worker].from = clock /\ clock >= window[w].from + Window
        BY <1>0, <1>1, <1>3, <1>4, <2>4
      <3>2. clock > p.at
        BY <1>0, <1>2, <2>1, <2>2, <2>4, <3>1 DEF ToldEnough
      <3> QED BY <2>2, <3>1, <3>2 DEF ToldEnough
    <2> QED BY <2>3, <2>4
  <1> QED BY <1>1, <1>5, <1>7, <1>8 DEF RateInv

\* A request is turned away, and told when to come back.
LEMMA RateTurnAway ==
    ASSUME RateInv, NEW w \in Workers, TurnAway(w), clock' = clock
    PROVE  RateInv'
  <1>0. /\ clock \in Nat /\ window \in [Workers -> [from : Nat, count : Nat]]
        /\ promised \in SUBSET Promises
        /\ Window \in Nat \ {0} /\ Tick \in Nat \ {0}
        /\ \A v \in Workers : Counted(v, admitted, window[v].from, window[v].count, clock)
    BY ServiceAssumption DEF RateInv, WebType
  <1> DEFINE from == window[w].from
             left == Window - Elapsed(w)
  <1>1. from \in Nat /\ from <= clock
    BY <1>0 DEF Counted
  <1>2. left \in Nat /\ left > 0 /\ clock + left = from + Window
    BY <1>0, <1>1 DEF TurnAway, MayAdmit, Fresh, Elapsed
  <1>3. RetryAfter(w) * Tick >= left /\ RetryAfter(w) \in Nat
    <2>1. RetryAfter(w) * Tick >= left
      BY <1>2, RetryReaches DEF RetryAfter
    <2>2. (left + Tick - 1) \div Tick \in Int
      BY <1>0, <1>2
    <2>3. RetryAfter(w) \in Nat
      BY <2>2 DEF RetryAfter
    <2> QED BY <2>1, <2>3
  <1>4. RetryAfter(w) * Tick \in Nat
    BY <1>0, <1>3
  <1> DEFINE p == [worker |-> w, at |-> clock, until |-> clock + RetryAfter(w) * Tick]
  <1>5. p \in Promises /\ p.worker = w /\ p.at = clock /\ p.until >= from + Window /\ p.until \in Nat
    BY <1>0, <1>1, <1>2, <1>3, <1>4 DEF Promises
  <1>6. promised' = promised \cup {p} /\ UNCHANGED <<window, admitted>>
    BY DEF TurnAway
  <1> HIDE DEF p
  <1>7. ToldEnough(p, from)
    BY <1>0, <1>1, <1>2, <1>5 DEF ToldEnough
  <1>8. WebType'
    BY <1>5, <1>6 DEF WebType, RateInv
  <1>9. \A q \in promised' : q.at <= clock' /\ ToldEnough(q, window'[q.worker].from)
    BY <1>0, <1>5, <1>6, <1>7 DEF RateInv
  <1> QED BY <1>6, <1>8, <1>9 DEF RateInv

\* Time passes.
LEMMA RatePass ==
    ASSUME RateInv, Pass
    PROVE  RateInv'
  <1>1. /\ clock \in Nat /\ clock' = clock + 1 /\ UNCHANGED <<window, admitted, promised>>
        /\ window \in [Workers -> [from : Nat, count : Nat]] /\ admitted \in Seq(Admissions)
        /\ promised \in SUBSET Promises
    BY DEF Pass, RateInv, WebType
  <1>2. WebType'
    BY <1>1 DEF WebType
  <1>3. \A w \in Workers : Counted(w, admitted, window[w].from, window[w].count, clock + 1)
    BY <1>1, CountedElse DEF RateInv
  <1>4. \A p \in promised : p.at <= clock + 1
    BY <1>1 DEF RateInv, Promises
  <1> QED BY <1>1, <1>2, <1>3, <1>4 DEF RateInv

\* What the workers admitted at some moments together is at most their number
\* times what one did: the admissions of each are numbered, so all of them are
\* pairs of a worker and a number.
LEMMA AllWorkers ==
    ASSUME admitted \in Seq(Admissions), NEW S, NEW most \in Nat,
           \A w \in Workers : Cardinality(Mine(admitted, w, S)) <= most
    PROVE  Cardinality({i \in DOMAIN admitted : admitted[i].at \in S}) <= most * Cardinality(Workers)
  <1> DEFINE All == {i \in DOMAIN admitted : admitted[i].at \in S}
             Of(w) == Mine(admitted, w, S)
             number == [w \in Workers |->
                          CHOOSE f : f \in Bijection(1 .. Cardinality(Of(w)), Of(w))]
             rank(i) == CHOOSE k \in 1 .. most : /\ k \in 1 .. Cardinality(Of(admitted[i].worker))
                                                 /\ number[admitted[i].worker][k] = i
             place(i) == <<admitted[i].worker, rank(i)>>
  <1>1. ASSUME NEW w \in Workers
        PROVE  /\ Cardinality(Of(w)) \in Nat
               /\ number[w] \in Bijection(1 .. Cardinality(Of(w)), Of(w))
    <2>1. IsFiniteSet(Of(w)) /\ Cardinality(Of(w)) \in Nat
      BY MineIsFinite DEF Within
    <2>2. \E f : f \in Bijection(1 .. Cardinality(Of(w)), Of(w))
      BY <2>1, FS_CardinalityType DEF ExistsBijection
    <2> QED BY <2>1, <2>2
  <1>2. \A i \in All : admitted[i].worker \in Workers /\ i \in Of(admitted[i].worker)
    <2>1. \A i \in DOMAIN admitted : admitted[i] \in Admissions
      OBVIOUS
    <2> QED BY <2>1 DEF Mine, Admissions
  <1>3. ASSUME NEW i \in All
        PROVE  \E k \in 1 .. most : /\ k \in 1 .. Cardinality(Of(admitted[i].worker))
                                    /\ number[admitted[i].worker][k] = i
    <2> DEFINE w == admitted[i].worker
    <2>1. w \in Workers /\ i \in Of(w)
      BY <1>2, <1>3
    <2>2. number[w] \in Surjection(1 .. Cardinality(Of(w)), Of(w)) /\ Cardinality(Of(w)) \in Nat
      BY <1>1, <2>1 DEF Bijection
    <2>3. \E k \in 1 .. Cardinality(Of(w)) : number[w][k] = i
      BY <2>1, <2>2 DEF Surjection
    <2>4. Cardinality(Of(w)) <= most
      BY <2>1
    <2>5. PICK k \in 1 .. Cardinality(Of(w)) : number[w][k] = i
      BY <2>3
    <2>6. k \in 1 .. most
      BY <2>2, <2>4, <2>5
    <2> QED BY <2>5, <2>6
  <1>4. \A i \in All : rank(i) \in 1 .. most /\ number[admitted[i].worker][rank(i)] = i
    BY <1>3
  <1> HIDE DEF rank, number
  <1>5. \A i \in All : place(i) \in Workers \X (1 .. most)
    BY <1>2, <1>4
  <1> DEFINE f == [i \in All |-> place(i)]
  <1>6. \A i, j \in All : f[i] = f[j] => i = j
    BY <1>4
  <1>7. f \in Injection(All, Workers \X (1 .. most))
    BY <1>5, <1>6 DEF Injection, IsInjective
  <1>8. /\ IsFiniteSet(1 .. most) /\ Cardinality(1 .. most) = most
    BY FS_Interval
  <1>9. /\ IsFiniteSet(Workers \X (1 .. most))
        /\ Cardinality(Workers \X (1 .. most)) = Cardinality(Workers) * most
    BY <1>8, FS_Product, ServiceAssumption
  <1>10. Cardinality(All) <= Cardinality(Workers) * most
    BY <1>7, <1>9, FS_Injection
  <1>11. Cardinality(Workers) \in Nat
    BY FS_CardinalityType, ServiceAssumption
  <1>12. Cardinality(Workers) * most = most * Cardinality(Workers)
    BY <1>11
  <1> QED BY <1>10, <1>12

\* The service never admits more than its limit promises, in any stretch of time
\* as long as a window and however the requests fall; and who waits as long as
\* it was told to is let in, or another began a window since.
THEOREM LimitIsKept == WebSpec => []RateKept
  <1>1. WebInit => RateInv
    BY RateInit
  <1>2. RateInv /\ [WebNext]_webVars => RateInv'
    <2> SUFFICES ASSUME RateInv, [WebNext]_webVars PROVE RateInv'
      OBVIOUS
    <2>1. CASE Pass
      BY <2>1, RatePass
    <2>2. CASE UNCHANGED <<clock, window, admitted, promised>>
      BY <2>2 DEF RateInv, WebType
    <2>3. ASSUME NEW w \in Workers, Serve(w) PROVE RateInv'
      <3>1. clock' = clock
        BY <2>3 DEF Serve
      <3>2. \/ TurnAway(w) \/ Admit(w)
            \/ UNCHANGED <<clock, window, admitted, promised>>
        BY <2>3, <3>1 DEF Serve
      <3> QED BY <2>2, <3>1, <3>2, RateAdmit, RateTurnAway
    <2>4. ServeHealth \/ UNCHANGED webVars => UNCHANGED <<clock, window, admitted, promised>>
      BY DEF ServeHealth, webVars
    <2> QED BY <2>1, <2>2, <2>3, <2>4 DEF WebNext
  <1>3. RateInv => RateKept
    <2> SUFFICES ASSUME RateInv PROVE RateBounded /\ RetryIsEnough
      BY DEF RateKept
    <2>0. /\ clock \in Nat /\ window \in [Workers -> [from : Nat, count : Nat]]
          /\ admitted \in Seq(Admissions) /\ promised \in SUBSET Promises
          /\ Window \in Nat \ {0} /\ MaxRequests \in Nat \ {0}
      BY ServiceAssumption DEF RateInv, WebType
    <2>1. ASSUME NEW start \in 0 .. clock
          PROVE  Cardinality({i \in DOMAIN admitted : admitted[i].at \in start .. start + Window - 1})
                    <= 2 * MaxRequests * Cardinality(Workers)
      <3>1. start \in Nat /\ 2 * MaxRequests \in Nat
        BY <2>0
      <3>2. \A w \in Workers :
               Cardinality(Mine(admitted, w, start .. start + Window - 1)) <= 2 * MaxRequests
        BY <3>1 DEF RateInv, Counted
      <3> QED BY <2>0, <3>1, <3>2, AllWorkers
    <2>2. ASSUME NEW p \in promised, clock >= p.until
          PROVE  Fresh(p.worker) \/ window[p.worker].from > p.at
      <3>1. /\ p.worker \in Workers /\ p.at \in Nat /\ p.until \in Nat
            /\ ToldEnough(p, window[p.worker].from)
        BY <2>0 DEF Promises, RateInv
      <3>2. window[p.worker].from \in Nat
        BY <2>0, <3>1
      <3> QED BY <2>0, <2>2, <3>1, <3>2 DEF ToldEnough, Fresh, Elapsed
    <2> QED BY <2>1, <2>2 DEF RateBounded, RetryIsEnough
  <1> QED BY <1>1, <1>2, <1>3, PTL DEF WebSpec
-----------------------------------------------------------------------------
(* What is kept.                                                           *)

IsRun(run) ==
  run = [field \in {"step", "left", "known", "names", "named", "target", "fd", "content"} |-> run[field]]

\* What a run that is no film has to do asks for no name.
Chores  == {Sole(kind) : kind \in {"look", "map", "metrics", "copy", "mirror", "last"}}
Writing == {"open", "fill", "replace"}

\* Written beside itself under a name of the process's own; or safe because no
\* other film of the package is being made.
Solitary(target) == target \notin {Names, Sole("map"), Sole("reference")}
SafeIf(target, shared) == Solitary(target) \/ (target = Names /\ ~shared)
Safe(target)           == SafeIf(target, raced)

(***************************************************************************)
(* The inductive invariant.  A run that writes something safe has the file *)
(* beside it to itself, from when it is opened until it is put in its      *)
(* place.  A film that makes a map or a reference may find its own moved   *)
(* away by another, and then writes on in it under its name.               *)
(***************************************************************************)
PlacedIn(run, p, disk, shared) ==
  LET temp == TempOf(p, run.target) IN
  /\ run.step \notin {"fill", "replace"} => run.fd = <<>>
  /\ run.fd \in {<<>>, temp, Named(run.target)}
  /\ SafeIf(run.target, shared) => run.fd # Named(run.target)
  /\ SafeIf(run.target, shared) /\ run.step = "fill" =>
        run.fd = temp /\ temp \in DOMAIN disk /\ disk[temp].content = {}
  /\ SafeIf(run.target, shared) /\ run.step = "replace" =>
        temp \in DOMAIN disk /\ disk[temp].whole /\ disk[temp].content = run.content
  /\ ~run.named => run.target # Names /\ run.left \in Seq(Chores)
  /\ run.target = Names => run.step \in Writing

\* Of a film: it knows the names on file, and what it knows besides it is writing.
Making(run) == run.step # "away" /\ run.named
Knows(run) ==
  Making(run) =>
     /\ Published(Names) \subseteq run.names
     /\ IF run.target = Names THEN run.content = run.names ELSE run.names \subseteq Published(Names)

Told(place) == place \in Published(Names) \/ \E p \in Processes : MakingAFilm(p) /\ place \in proc[p].names

KeptType ==
  /\ DOMAIN proc = Processes /\ \A p \in Processes : IsRun(proc[p]) /\ proc[p].named \in BOOLEAN
  /\ answered \in [Places -> Nat] /\ lost \in [Places -> Nat]
FilesWhole  == \A target : Safe(target) /\ OnFile(target) => files[Named(target)].whole
OneFilm     == \A p, q \in Processes : MakingAFilm(p) /\ MakingAFilm(q) => p = q
AnswersKept == \A place \in Places : answered[place] <= lost[place] + (IF Told(place) THEN 1 ELSE 0)

CachesInv ==
  /\ KeptType
  /\ \A p \in Processes : PlacedIn(proc[p], p, files, raced)
  /\ FilesWhole
  /\ ~raced => OneFilm /\ AnswersKept /\ \A p \in Processes : Knows(proc[p])

\* Which targets are safe, and that what is beside one is not what it is itself.
LEMMA PathsApart ==
    ASSUME NEW p \in Processes, NEW q \in Processes, NEW s, NEW t
    PROVE  /\ TempOf(p, t) # Named(s) /\ TempOf(p, t) # <<>> /\ Named(t) # <<>>
           /\ Named(s) = Named(t) <=> s = t
           /\ Safe(t) => t \notin {Sole("map"), Sole("reference")}
           /\ TempOf(p, s) = TempOf(q, t) => s = t /\ (Solitary(t) => p = q)
           /\ Solitary(t) => TempOf(p, t) = <<t, p>>
  <1>1. p \notin {"name", ".part"} /\ q \notin {"name", ".part"}
    BY CachesAssumption
  <1>2. Named(t) = <<t, "name">> /\ Named(s) = <<s, "name">>
    BY DEF Named
  <1>8. PICK x \in {p, ".part"} : TempOf(p, t) = <<t, x>>
    <2>1. CASE Solitary(t)
      BY <2>1 DEF TempOf, Solitary
    <2>2. CASE ~Solitary(t)
      BY <2>2 DEF TempOf, Solitary
    <2> QED BY <2>1, <2>2
  <1>3. TempOf(p, t) # Named(s) /\ (Named(s) = Named(t) <=> s = t)
    <2>1. \A y, z : <<y, z>>[1] = y /\ <<y, z>>[2] = z
      OBVIOUS
    <2>4. TempOf(p, t)[2] = x
      BY <1>8, <2>1
    <2>5. Named(s)[2] = "name"
      BY <1>2, <2>1
    <2>6. Named(s)[1] = s
      BY <1>2, <2>1
    <2>7. Named(t)[1] = t
      BY <1>2, <2>1
    <2>2. TempOf(p, t)[2] = x /\ Named(s)[2] = "name" /\ Named(s)[1] = s /\ Named(t)[1] = t
      BY <2>4, <2>5, <2>6, <2>7
    <2>3. x # "name"
      BY <1>1
    <2> QED BY <2>2, <2>3
  <1>4. TempOf(p, t) # <<>> /\ Named(t) # <<>>
    <2>1. \A y, z : Len(<<y, z>>) = 2
      OBVIOUS
    <2>2. Len(<<>>) = 0
      OBVIOUS
    <2>3. \A y, z : <<y, z>> # <<>>
      BY <2>1, <2>2
    <2> QED BY <1>2, <1>8, <2>3
  <1>5. Safe(t) => t \notin {Sole("map"), Sole("reference")}
    <2>1. Sole("map")[1] = "map" /\ Sole("reference")[1] = "reference" /\ Names[1] = "names"
      BY DEF Names, Sole
    <2> QED BY <2>1 DEF Solitary, Safe, SafeIf
  <1>6. Solitary(t) => TempOf(p, t) = <<t, p>> /\ TempOf(q, t) = <<t, q>>
    BY DEF TempOf, Solitary
  <1>7. TempOf(p, s) = TempOf(q, t) => s = t /\ (Solitary(t) => p = q)
    BY <1>6 DEF TempOf
  <1> QED BY <1>3, <1>4, <1>5, <1>6, <1>7

\* A step that moves one run on and no file.
LEMMA RunMovesOn ==
    ASSUME CachesInv, NEW p \in Processes, NEW run, Goes(p, run),
           IsRun(run), run.named \in BOOLEAN, UNCHANGED <<files, answered, lost, raced>>,
           PlacedIn(run, p, files, raced), ~raced => Knows(run),
           Making(run) => Making(proc[p]),
           ~raced /\ Making(proc[p]) =>
              proc[p].names \subseteq (Published(Names) \cup IF Making(run) THEN run.names ELSE {})
    PROVE  CachesInv'
  <1>1. /\ DOMAIN proc' = Processes /\ proc'[p] = run
        /\ \A q \in Processes : q # p => proc'[q] = proc[q]
    BY DEF Goes, CachesInv, KeptType
  <1>2. KeptType'
    BY <1>1 DEF CachesInv, KeptType
  <1>3. \A q \in Processes : PlacedIn(proc'[q], q, files', raced') 
    BY <1>1 DEF CachesInv, PlacedIn, Safe, SafeIf
  <1>4. FilesWhole'
    BY DEF CachesInv, FilesWhole, Safe, SafeIf, OnFile
  <1>5. Published(Names)' = Published(Names)
    BY DEF Published, OnFile
  <1>6. ASSUME ~raced PROVE OneFilm' /\ AnswersKept' /\ \A q \in Processes : Knows(proc[q])'
    <2>1. OneFilm /\ AnswersKept /\ \A q \in Processes : Knows(proc[q])
      BY <1>6 DEF CachesInv
    <2>2. OneFilm'
      BY <1>1, <2>1 DEF OneFilm, MakingAFilm, Making
    <2>3. \A q \in Processes : Knows(proc[q])'
      BY <1>1, <1>5, <1>6, <2>1 DEF Knows, Making
    <2>4. \A place \in Places : Told(place) => Told(place)'
      BY <1>1, <1>5, <1>6 DEF Told, MakingAFilm, Making
    <2>5. AnswersKept'
      <3>1. SUFFICES ASSUME NEW place \in Places
                     PROVE  answered[place] <= lost[place] + (IF Told(place)' THEN 1 ELSE 0)
        BY DEF AnswersKept
      <3>2. /\ answered[place] \in Nat /\ lost[place] \in Nat
            /\ answered[place] <= lost[place] + (IF Told(place) THEN 1 ELSE 0)
        BY <2>1 DEF CachesInv, KeptType, AnswersKept
      <3> QED BY <2>4, <3>2
    <2> QED BY <2>2, <2>3, <2>5
  <1> QED BY <1>2, <1>3, <1>4, <1>6 DEF CachesInv

\* A step that opens no file, begins no film and writes no name.
LEMMA QuietStep ==
    ASSUME CachesInv, NEW p \in Processes, NEW run, OnlyGoes(p, run),
           IsRun(run), run.named \in BOOLEAN,
           run.step \in {"away", "late", "next", "analysed", "open"}, run.fd = <<>>, run.target # Names,
           ~run.named => run.left \in Seq(Chores),
           Making(run) => Making(proc[p]) /\ run.names = proc[p].names,
           ~raced => proc[p].target # Names
    PROVE  CachesInv'
  <1>1. Goes(p, run) /\ UNCHANGED <<files, answered, lost, raced>>
    BY DEF OnlyGoes
  <1>2. PlacedIn(run, p, files, raced)
    <2>1. <<>> # Named(run.target)
      BY PathsApart
    <2> QED BY <2>1 DEF PlacedIn, Writing
  <1>3. ~raced => Knows(proc[p])
    BY DEF CachesInv
  <1>4. ~raced => Knows(run)
    BY <1>3 DEF Knows
  <1>5. ~raced /\ Making(proc[p]) =>
              proc[p].names \subseteq (Published(Names) \cup IF Making(run) THEN run.names ELSE {})
    BY <1>3 DEF Knows
  <1> QED BY <1>1, <1>2, <1>4, <1>5, RunMovesOn

\* What the runs are like that the actions make of one.
LEMMA RunsMade ==
    ASSUME NEW p, IsRun(proc[p]), NEW target, NEW content
    PROVE  /\ IsRun(Away) /\ Away.step = "away" /\ Away.fd = <<>> /\ Away.target = Sole("none")
           /\ Away.named = FALSE /\ Away.left = <<>> /\ Away.names = {}
           /\ LET run == Next1(p)
              IN  /\ IsRun(run) /\ run.step = "next" /\ run.fd = <<>> /\ run.target = Sole("none")
                  /\ run.named = proc[p].named /\ run.names = proc[p].names
                  /\ run.left = Tail(proc[p].left)
           /\ LET run == Write(p, target, content)
              IN  /\ IsRun(run) /\ run.step = "open" /\ run.fd = proc[p].fd /\ run.target = target
                  /\ run.named = proc[p].named /\ run.names = proc[p].names
                  /\ run.left = proc[p].left /\ run.content = content
           /\ LET run == [Away EXCEPT !.step = "late"]
              IN  /\ IsRun(run) /\ run.step = "late" /\ run.fd = <<>> /\ run.target = Sole("none")
                  /\ run.named = FALSE /\ run.left = <<>> /\ run.names = {}
  <1>1. /\ IsRun(Away) /\ Away.step = "away" /\ Away.fd = <<>> /\ Away.target = Sole("none")
        /\ Away.named = FALSE /\ Away.left = <<>> /\ Away.names = {}
    BY DEF IsRun, Away
  <1>2. LET run == Next1(p)
        IN  /\ IsRun(run) /\ run.step = "next" /\ run.fd = <<>> /\ run.target = Sole("none")
            /\ run.named = proc[p].named /\ run.names = proc[p].names
            /\ run.left = Tail(proc[p].left)
    BY DEF IsRun, Next1
  <1>3. LET run == Write(p, target, content)
        IN  /\ IsRun(run) /\ run.step = "open" /\ run.fd = proc[p].fd /\ run.target = target
            /\ run.named = proc[p].named /\ run.names = proc[p].names
            /\ run.left = proc[p].left /\ run.content = content
    BY DEF IsRun, Write
  <1>4. LET run == [Away EXCEPT !.step = "late"]
        IN  /\ IsRun(run) /\ run.step = "late" /\ run.fd = <<>> /\ run.target = Sole("none")
            /\ run.named = FALSE /\ run.left = <<>> /\ run.names = {}
    BY <1>1 DEF IsRun, Away
  <1> QED BY <1>1, <1>2, <1>3, <1>4

\* Where a run stands when no file is open, of the invariant.
LEMMA BetweenFiles ==
    ASSUME CachesInv, NEW p \in Processes, proc[p].step \in {"away", "late", "next", "analysed"}
    PROVE  /\ IsRun(proc[p]) /\ proc[p].named \in BOOLEAN /\ proc[p].fd = <<>> /\ proc[p].target # Names
           /\ ~proc[p].named => proc[p].left \in Seq(Chores)
  BY DEF CachesInv, KeptType, PlacedIn, Writing

\* Sole things are told apart by their kind.
LEMMA SolesApart ==
    /\ \A kind \in {"none", "look", "map", "copy", "reference"} : Sole(kind) # Names
    /\ \A version : Metrics(version) # Names
    /\ \A kind \in {"look", "map", "metrics", "copy", "mirror", "last"} : Sole(kind) \in Chores
    /\ \A place : <<"name", place>> \notin Chores
  <1>1. \A x, y : <<x, y>>[1] = x
    OBVIOUS
  <1>2. \A kind : Sole(kind)[1] = kind
    BY <1>1 DEF Sole
  <1>3. /\ Names[1] = "names" /\ \A version : Metrics(version)[1] = "metrics"
        /\ \A place : <<"name", place>>[1] = "name"
    BY <1>1, <1>2 DEF Names, Metrics
  <1>4. \A kind \in {"none", "look", "map", "copy", "reference"} : Sole(kind) # Names
    BY <1>2, <1>3
  <1>5. \A chore \in Chores : chore[1] \in {"look", "map", "metrics", "copy", "mirror", "last"}
    BY <1>2 DEF Chores
  <1>6. \A place : <<"name", place>> \notin Chores
    BY <1>3, <1>5
  <1>7. \A version : Metrics(version) # Names
    BY <1>3
  <1> QED BY <1>4, <1>6, <1>7 DEF Chores

\* A run goes on to what it has to do next.
LEMMA GoesOnward ==
    ASSUME CachesInv, NEW p \in Processes, proc[p].step = "next", proc[p].left # <<>>,
           OnlyGoes(p, Next1(p))
    PROVE  CachesInv'
  <1> DEFINE run == Next1(p)
  <1>1. /\ IsRun(proc[p]) /\ proc[p].named \in BOOLEAN /\ proc[p].target # Names
        /\ ~proc[p].named => proc[p].left \in Seq(Chores)
    BY BetweenFiles
  <1>2. /\ IsRun(run) /\ run.step = "next" /\ run.fd = <<>> /\ run.target = Sole("none")
        /\ run.named = proc[p].named /\ run.names = proc[p].names
        /\ run.left = Tail(proc[p].left)
    BY <1>1, RunsMade
  <1> HIDE DEF run
  <1>3. ~run.named => run.left \in Seq(Chores)
    BY <1>1, <1>2
  <1>4. Making(run) => Making(proc[p])
    BY <1>2 DEF Making
  <1>5. OnlyGoes(p, run)
    BY DEF run
  <1> QED BY <1>1, <1>2, <1>3, <1>4, <1>5, QuietStep, SolesApart

\* A run has something to write that is no name, and may have less left to do.
LEMMA BeginsToWrite ==
    ASSUME CachesInv, NEW p \in Processes, proc[p].step \in {"next", "analysed"},
           NEW target, target # Names, NEW content, NEW left, left = proc[p].left \/ left \in Seq(Chores),
           NEW run, OnlyGoes(p, run),
           \/ run = Write(p, target, content) /\ left = proc[p].left
           \/ run = [Write(p, target, content) EXCEPT !.left = left]
    PROVE  CachesInv'
  <1>1. /\ IsRun(proc[p]) /\ proc[p].named \in BOOLEAN /\ proc[p].target # Names /\ proc[p].fd = <<>>
        /\ ~proc[p].named => proc[p].left \in Seq(Chores)
    BY BetweenFiles
  <1> DEFINE new == Write(p, target, content)
  <1>2. /\ IsRun(new) /\ new.step = "open" /\ new.fd = proc[p].fd /\ new.target = target
        /\ new.named = proc[p].named /\ new.names = proc[p].names
        /\ new.left = proc[p].left
    BY <1>1 DEF IsRun, Write
  <1>3. \/ run = new /\ left = proc[p].left
        \/ run = [new EXCEPT !.left = left]
    OBVIOUS
  <1> HIDE DEF new
  <1>4. /\ IsRun(run) /\ run.step = "open" /\ run.fd = <<>> /\ run.target = target
        /\ run.named = proc[p].named /\ run.names = proc[p].names /\ run.left = left
    <2>1. CASE run = new /\ left = proc[p].left
      BY <1>1, <1>2, <2>1
    <2>2. CASE run = [new EXCEPT !.left = left]
      BY <1>1, <1>2, <2>2 DEF IsRun
    <2> QED BY <1>3, <2>1, <2>2
  <1>5. ~run.named => run.left \in Seq(Chores)
    BY <1>1, <1>4
  <1>6. Making(run) => Making(proc[p])
    BY <1>4 DEF Making
  <1> QED BY <1>1, <1>4, <1>5, <1>6, QuietStep

\* A run ends, or its film does: nothing it learnt is on its way to the file.
LEMMA GoesAway ==
    ASSUME CachesInv, NEW p \in Processes, ~raced => proc[p].target # Names,
           NEW run, run = Away \/ run = [Away EXCEPT !.step = "late"], OnlyGoes(p, run)
    PROVE  CachesInv'
  <1>1. IsRun(proc[p])
    BY DEF CachesInv, KeptType
  <1>2. /\ IsRun(run) /\ run.step \in {"away", "late"} /\ run.fd = <<>> /\ run.target = Sole("none")
        /\ run.named = FALSE /\ run.left = <<>> /\ run.names = {}
    BY <1>1, RunsMade
  <1>3. run.left \in Seq(Chores)
    BY <1>2
  <1>4. ~Making(run)
    BY <1>2 DEF Making
  <1> QED BY <1>2, <1>3, <1>4, QuietStep, SolesApart

\* A run that is no film begins.
LEMMA RunBegins ==
    ASSUME CachesInv, NEW p \in Processes, NEW items \in Seq(Chores), Launch(p, items, FALSE),
           UNCHANGED <<files, recording, answered, lost, raced>>
    PROVE  CachesInv'
  <1> DEFINE run == [Away EXCEPT !.step = "next", !.left = items, !.named = FALSE,
                                 !.names = IF FALSE THEN Published(Names) ELSE {}]
  <1>1. IsRun(proc[p]) /\ proc[p].target # Names
    BY BetweenFiles DEF Launch
  <1>2. /\ IsRun(run) /\ run.step = "next" /\ run.left = items /\ run.named = FALSE
        /\ run.fd = <<>> /\ run.target = Sole("none")
    BY <1>1, RunsMade DEF IsRun
  <1>3. Goes(p, run)
    BY DEF Launch, Goes
  <1> HIDE DEF run
  <1>4. ~Making(run)
    BY <1>2 DEF Making
  <1>5. PlacedIn(run, p, files, raced)
    <2>1. <<>> # Named(run.target)
      BY PathsApart
    <2> QED BY <1>2, <2>1, SolesApart DEF PlacedIn
  <1>6. ~raced /\ Making(proc[p]) => FALSE
    BY DEF Launch, Making
  <1> QED BY <1>2, <1>3, <1>4, <1>5, <1>6, RunMovesOn DEF Knows

\* The actions that open no file, begin no film and write no name.
LEMMA QuietActions ==
    ASSUME CachesInv, NEW p \in Processes,
           \/ StartNameless(p) \/ StartResearch(p) \/ StartFetch(p) \/ StartPreflight(p)
           \/ CompareLooks(p) \/ CopyWindow(p) \/ DrawMap(p) \/ AskMirror(p)
           \/ MetricsKnown(p) \/ AnalyseRecording(p) \/ KeepMetrics(p)
           \/ (\E place \in Places : NameKnown(p, place))
           \/ EndRun(p) \/ ReplaceNothing(p)
    PROVE  CachesInv'
  <1>1. ASSUME NEW kind \in {"look", "map", "metrics", "copy", "mirror", "last"}
        PROVE  Sole(kind) \in Chores
    BY <1>1, SolesApart
  <1>2. CASE StartNameless(p)
    <2>1. <<Sole("look"), Sole("map")>> \in Seq(Chores)
      BY <1>1
    <2> QED BY <1>2, <2>1, RunBegins DEF StartNameless
  <1>3. CASE StartResearch(p)
    <2>1. <<Sole("metrics")>> \in Seq(Chores)
      BY <1>1
    <2> QED BY <1>3, <2>1, RunBegins DEF StartResearch
  <1>4. CASE StartPreflight(p)
    <2>1. <<Sole("copy")>> \in Seq(Chores)
      BY <1>1
    <2> QED BY <1>4, <2>1, RunBegins DEF StartPreflight
  <1>5. CASE StartFetch(p)
    <2>1. [i \in 1 .. Mirrors |-> Sole("mirror")] \in Seq(Chores)
      BY <1>1, CachesAssumption
    <2> QED BY <1>5, <2>1, RunBegins DEF StartFetch
  <1>6. CASE CompareLooks(p)
    <2>1. CASE OnlyGoes(p, Next1(p))
      BY <1>6, <2>1, GoesOnward DEF CompareLooks, Reached
    <2>2. ASSUME NEW wanted, OnlyGoes(p, Write(p, Sole("look"), Published(Sole("look")) \cup wanted))
          PROVE  CachesInv'
      BY <1>6, <2>2, BeginsToWrite, SolesApart DEF CompareLooks, Reached
    <2> QED BY <1>6, <2>1, <2>2 DEF CompareLooks, MeasureLooks
  <1>7. CASE CopyWindow(p)
    <2>1. CASE OnlyGoes(p, Next1(p))
      BY <1>7, <2>1, GoesOnward DEF CopyWindow, Reached
    <2>2. CASE OnlyGoes(p, Write(p, Sole("copy"), CopyMade))
      BY <1>7, <2>2, BeginsToWrite, SolesApart DEF CopyWindow, Reached
    <2> QED BY <1>7, <2>1, <2>2 DEF CopyWindow
  <1>8. CASE DrawMap(p)
    <2>1. CASE OnlyGoes(p, Next1(p))
      BY <1>8, <2>1, GoesOnward DEF DrawMap, Reached
    <2>2. CASE OnlyGoes(p, Write(p, Sole("map"), {"png"}))
      BY <1>8, <2>2, BeginsToWrite, SolesApart DEF DrawMap, Reached
    <2>3. CASE OnlyGoes(p, [Away EXCEPT !.step = "late"])
      <3>1. proc[p].target # Names
        BY <1>8, BetweenFiles DEF DrawMap, Reached
      <3> QED BY <2>3, <3>1, GoesAway
    <2> QED BY <1>8, <2>1, <2>2, <2>3 DEF DrawMap
  <1>9. CASE AskMirror(p)
    <2>1. CASE OnlyGoes(p, Next1(p))
      BY <1>9, <2>1, GoesOnward DEF AskMirror, Reached
    <2>2. ASSUME NEW content,
                 OnlyGoes(p, [Write(p, Sole("reference"), content) EXCEPT !.left = <<Sole("last")>>])
          PROVE  CachesInv'
      <3>1. <<Sole("last")>> \in Seq(Chores)
        BY <1>1
      <3> QED BY <1>9, <2>2, <3>1, BeginsToWrite, SolesApart DEF AskMirror, Reached
    <2> QED BY <1>9, <2>1, <2>2 DEF AskMirror
  <1>10. CASE MetricsKnown(p)
    BY <1>10, GoesOnward DEF MetricsKnown, Reached
  <1>11. CASE AnalyseRecording(p)
    <2> DEFINE run == [proc[p] EXCEPT !.step = "analysed", !.known = {ToString(recording)}]
    <2>1. /\ IsRun(proc[p]) /\ proc[p].named \in BOOLEAN /\ proc[p].fd = <<>> /\ proc[p].target # Names
          /\ ~proc[p].named => proc[p].left \in Seq(Chores)
          /\ proc[p].step = "next"
      BY <1>11, BetweenFiles DEF AnalyseRecording, Reached
    <2>2. /\ IsRun(run) /\ run.step = "analysed" /\ run.fd = proc[p].fd /\ run.target = proc[p].target
          /\ run.named = proc[p].named /\ run.names = proc[p].names /\ run.left = proc[p].left
      BY <2>1 DEF IsRun
    <2>3. OnlyGoes(p, run)
      BY <1>11 DEF AnalyseRecording
    <2> HIDE DEF run
    <2>4. Making(run) => Making(proc[p])
      BY <2>1, <2>2 DEF Making
    <2> QED BY <2>1, <2>2, <2>3, <2>4, QuietStep
  <1>12. CASE KeepMetrics(p)
    BY <1>12, BeginsToWrite, SolesApart DEF KeepMetrics
  <1>13. ASSUME NEW place \in Places, NameKnown(p, place) PROVE CachesInv'
    BY <1>13, GoesOnward DEF NameKnown, Reached
  <1>14. CASE EndRun(p)
    <2>1. proc[p].target # Names
      BY <1>14, BetweenFiles DEF EndRun
    <2> QED BY <1>14, <2>1, GoesAway DEF EndRun
  <1>15. CASE ReplaceNothing(p)
    <2>1. ~raced => proc[p].target # Names
      BY <1>15 DEF ReplaceNothing, CachesInv, PlacedIn, Safe, SafeIf
    <2> QED BY <1>15, <2>1, GoesAway DEF ReplaceNothing
  <1> QED BY <1>2, <1>3, <1>4, <1>5, <1>6, <1>7, <1>8, <1>9, <1>10, <1>11, <1>12, <1>13, <1>14, <1>15

\* What a run writes that is safe, no other run has in hand.
LEMMA OwnTemp ==
    ASSUME CachesInv, NEW p \in Processes, NEW q \in Processes, p # q, Safe(proc[q].target)
    PROVE  /\ TempOf(q, proc[q].target) # TempOf(p, proc[p].target)
           /\ TempOf(q, proc[q].target) # Named(proc[p].target)
  <1>1. TempOf(q, proc[q].target) # Named(proc[p].target)
    BY PathsApart
  <1>2. SUFFICES ASSUME TempOf(p, proc[p].target) = TempOf(q, proc[q].target) PROVE FALSE
    BY <1>1
  <1>3. proc[p].target = proc[q].target /\ ~Solitary(proc[q].target)
    BY <1>2, PathsApart
  <1>4. proc[p].target = Names /\ proc[q].target = Names /\ ~raced
    BY <1>3 DEF Safe, SafeIf
  <1>5. MakingAFilm(p) /\ MakingAFilm(q)
    BY <1>4 DEF CachesInv, PlacedIn, Writing, MakingAFilm
  <1> QED BY <1>4, <1>5 DEF CachesInv, OneFilm

\* A run on whose file no other lays hands stands as it stood; what it has in
\* hand is moved from under it only if it was not safe.
LEMMA OthersStay ==
    ASSUME CachesInv, NEW p \in Processes, NEW q \in Processes, p # q, raced' = raced,
           \A path : path \notin {TempOf(p, proc[p].target), Named(proc[p].target)} =>
              /\ path \in DOMAIN files' <=> path \in DOMAIN files
              /\ path \in DOMAIN files => files'[path] = files[path],
           NEW run, run.step = proc[q].step, run.target = proc[q].target,
           run.content = proc[q].content, run.left = proc[q].left, run.named = proc[q].named,
           \/ run.fd = proc[q].fd
           \/ /\ ~Safe(proc[q].target) /\ proc[q].fd # <<>>
              /\ run.fd \in {<<>>, Named(proc[q].target)}
    PROVE  PlacedIn(run, q, files', raced')
  <1>1. PlacedIn(proc[q], q, files, raced)
    BY DEF CachesInv
  <1>2. PlacedIn(run, q, files, raced)
    BY <1>1 DEF PlacedIn, Safe
  <1>3. Safe(run.target) => /\ TempOf(q, run.target) # TempOf(p, proc[p].target)
                            /\ TempOf(q, run.target) # Named(proc[p].target)
    BY OwnTemp
  <1>5. Safe(run.target) => /\ TempOf(q, run.target) \in DOMAIN files' <=> TempOf(q, run.target) \in DOMAIN files
                            /\ TempOf(q, run.target) \in DOMAIN files =>
                                  files'[TempOf(q, run.target)] = files[TempOf(q, run.target)]
    BY <1>3
  <1> QED BY <1>2, <1>5 DEF PlacedIn, Safe

\* Where nothing is learnt, lost, written down or forgotten, what is known stays.
LEMMA SameNames ==
    ASSUME CachesInv, ~raced, UNCHANGED <<raced, answered, lost>>, Published(Names)' = Published(Names),
           \A p \in Processes :
              /\ MakingAFilm(p)' <=> MakingAFilm(p)
              /\ proc'[p].names = proc[p].names /\ proc'[p].target = proc[p].target
              /\ proc'[p].content = proc[p].content
    PROVE  OneFilm' /\ AnswersKept' /\ \A p \in Processes : Knows(proc[p])'
  <1>1. OneFilm /\ AnswersKept /\ \A p \in Processes : Knows(proc[p])
    BY DEF CachesInv
  <1>2. OneFilm'
    BY <1>1 DEF OneFilm
  <1>3. \A place : Told(place)' <=> Told(place)
    BY DEF Told
  <1>4. AnswersKept'
    BY <1>1, <1>3 DEF AnswersKept
  <1>5. \A p \in Processes : Knows(proc[p])'
    BY <1>1 DEF Knows, Making, MakingAFilm
  <1> QED BY <1>2, <1>4, <1>5

\* The file beside a name is opened.
LEMMA Opens ==
    ASSUME CachesInv, NEW p \in Processes, OpenTemp(p)
    PROVE  CachesInv'
  <1> DEFINE t    == proc[p].target
             temp == TempOf(p, t)
             run  == [proc[p] EXCEPT !.step = "fill", !.fd = temp]
  <1>1. /\ IsRun(proc[p]) /\ proc[p].named \in BOOLEAN /\ PlacedIn(proc[p], p, files, raced) /\ proc[p].step = "open"
        /\ DOMAIN proc = Processes
    BY DEF CachesInv, KeptType, OpenTemp
  <1>2. /\ IsRun(run) /\ run.step = "fill" /\ run.fd = temp /\ run.target = t
        /\ run.named = proc[p].named /\ run.names = proc[p].names /\ run.left = proc[p].left
        /\ run.content = proc[p].content
    BY <1>1 DEF IsRun
  <1>3. /\ files' = With(temp, {}, FALSE) /\ proc' = [proc EXCEPT ![p] = run]
        /\ UNCHANGED <<answered, lost, raced>>
    BY DEF OpenTemp, Goes
  <1> HIDE DEF run
  <1>4. /\ DOMAIN files' = DOMAIN files \cup {temp}
        /\ files'[temp] = [content |-> {}, whole |-> FALSE]
        /\ \A path \in DOMAIN files : path # temp => files'[path] = files[path]
    BY <1>3 DEF With
  <1>5. \A path : path # temp => /\ path \in DOMAIN files' <=> path \in DOMAIN files
                                 /\ path \in DOMAIN files => files'[path] = files[path]
    BY <1>4
  <1>6. /\ proc'[p] = run /\ DOMAIN proc' = Processes
        /\ \A q \in Processes : q # p => proc'[q] = proc[q]
    BY <1>1, <1>3
  <1>7. KeptType'
    BY <1>1, <1>2, <1>3, <1>6 DEF CachesInv, KeptType
  <1>8. PlacedIn(run, p, files', raced')
    <2>1. /\ temp # Named(t) /\ raced' = raced
          /\ ~run.named => run.target # Names /\ run.left \in Seq(Chores)
      BY <1>1, <1>2, <1>3, PathsApart DEF PlacedIn
    <2>2. temp \in DOMAIN files' /\ files'[temp].content = {}
      BY <1>4
    <2> HIDE DEF t, temp
    <2> QED BY <1>2, <2>1, <2>2 DEF PlacedIn, Writing, t, temp
  <1>9. ASSUME NEW q \in Processes PROVE PlacedIn(proc'[q], q, files', raced')
    <2>1. CASE q = p
      BY <1>6, <1>8, <2>1
    <2>2. CASE q # p
      BY <1>3, <1>5, <1>6, <2>2, OthersStay
    <2> QED BY <2>1, <2>2
  <1>10. FilesWhole'
    <2>1. SUFFICES ASSUME NEW target, SafeIf(target, raced), Named(target) \in DOMAIN files'
                   PROVE  files'[Named(target)].whole
      BY <1>3 DEF FilesWhole, Safe, OnFile
    <2>2. Named(target) # temp
      BY PathsApart
    <2> QED BY <1>5, <2>1, <2>2 DEF CachesInv, FilesWhole, Safe, OnFile
  <1>11. ASSUME ~raced PROVE OneFilm' /\ AnswersKept' /\ \A q \in Processes : Knows(proc[q])'
    <2>1. Named(Names) # temp
      BY PathsApart
    <2>2. Published(Names)' = Published(Names)
      BY <1>5, <2>1 DEF Published, OnFile
    <2>3. \A q \in Processes : MakingAFilm(q)' <=> MakingAFilm(q)
      BY <1>1, <1>2, <1>6 DEF MakingAFilm
    <2>4. \A q \in Processes : /\ proc'[q].names = proc[q].names /\ proc'[q].target = proc[q].target
                               /\ proc'[q].content = proc[q].content
      BY <1>2, <1>6
    <2> QED BY <1>3, <1>11, <2>2, <2>3, <2>4, SameNames
  <1> QED BY <1>3, <1>7, <1>9, <1>10, <1>11 DEF CachesInv

\* What is open is written; over a longer text in another's file, its end stays.
LEMMA Fills ==
    ASSUME CachesInv, NEW p \in Processes, FillTemp(p)
    PROVE  CachesInv'
  <1> DEFINE t    == proc[p].target
             temp == TempOf(p, t)
             fd   == proc[p].fd
             run  == [proc[p] EXCEPT !.step = "replace"]
  <1>1. /\ IsRun(proc[p]) /\ proc[p].named \in BOOLEAN /\ PlacedIn(proc[p], p, files, raced)
        /\ proc[p].step = "fill" /\ DOMAIN proc = Processes
    BY DEF CachesInv, KeptType, FillTemp
  <1>2. /\ IsRun(run) /\ run.step = "replace" /\ run.fd = fd /\ run.target = t
        /\ run.named = proc[p].named /\ run.names = proc[p].names /\ run.left = proc[p].left
        /\ run.content = proc[p].content
    BY <1>1 DEF IsRun
  <1>3. /\ proc' = [proc EXCEPT ![p] = run] /\ UNCHANGED <<answered, lost, raced>>
        /\ files' = IF fd = <<>> THEN files
                    ELSE With(fd, proc[p].content, files[fd].content \subseteq proc[p].content)
    BY DEF FillTemp, Goes
  <1> HIDE DEF run
  <1>4. /\ \A path : path # fd => /\ path \in DOMAIN files' <=> path \in DOMAIN files
                                  /\ path \in DOMAIN files => files'[path] = files[path]
        /\ fd # <<>> => /\ fd \in DOMAIN files'
                        /\ files'[fd].content = proc[p].content
                        /\ files'[fd].whole = (files[fd].content \subseteq proc[p].content)
    BY <1>3 DEF With
  <1>5. fd \in {<<>>, temp, Named(t)} /\ (Safe(t) => fd = temp /\ files[temp].content = {} /\ fd # Named(t))
    BY <1>1 DEF PlacedIn, Safe
  <1>6. /\ proc'[p] = run /\ DOMAIN proc' = Processes
        /\ \A q \in Processes : q # p => proc'[q] = proc[q]
    BY <1>1, <1>3
  <1>7. KeptType'
    BY <1>1, <1>2, <1>3, <1>6 DEF CachesInv, KeptType
  <1>8. PlacedIn(run, p, files', raced')
    <2>1. /\ raced' = raced /\ temp # <<>>
          /\ ~run.named => run.target # Names /\ run.left \in Seq(Chores)
      BY <1>1, <1>2, <1>3, PathsApart DEF PlacedIn
    <2>2. Safe(t) => temp \in DOMAIN files' /\ files'[temp].whole /\ files'[temp].content = run.content
      <3> SUFFICES ASSUME Safe(t)
                   PROVE  temp \in DOMAIN files' /\ files'[temp].whole /\ files'[temp].content = run.content
        OBVIOUS
      <3>4. fd = temp /\ files[temp].content = {}
        BY <1>5
      <3>5. files[fd].content = {}
        BY <3>4
      <3>1. fd = temp /\ files[fd].content = {} /\ fd # <<>>
        BY <2>1, <3>4, <3>5
      <3>2. {} \subseteq proc[p].content
        OBVIOUS
      <3>3. fd \in DOMAIN files' /\ files'[fd].whole /\ files'[fd].content = proc[p].content
        BY <1>4, <3>1, <3>2
      <3> QED BY <1>2, <3>1, <3>3
    <2>3. run.fd \in {<<>>, temp, Named(t)} /\ (Safe(t) => run.fd # Named(t))
      BY <1>2, <1>5
    <2>4. run.target = Names => run.step \in Writing
      BY <1>2 DEF Writing
    <2>5. Safe(run.target) <=> SafeIf(run.target, raced')
      BY <2>1 DEF Safe
    <2>6. TempOf(p, run.target) = temp
      BY <1>2
    <2>7. Safe(run.target) <=> Safe(t)
      BY <1>2
    <2> HIDE DEF t, temp, fd
    <2> QED BY <1>2, <2>1, <2>2, <2>3, <2>4, <2>5, <2>6, <2>7 DEF PlacedIn
  <1>9. \A path : path \notin {temp, Named(t)} => /\ path \in DOMAIN files' <=> path \in DOMAIN files
                                                  /\ path \in DOMAIN files => files'[path] = files[path]
    <2>1. CASE fd = <<>>
      BY <1>3, <2>1
    <2>2. CASE fd # <<>>
      BY <1>4, <1>5, <2>2
    <2> QED BY <2>1, <2>2
  <1>10. ASSUME NEW q \in Processes PROVE PlacedIn(proc'[q], q, files', raced')
    <2>1. CASE q = p
      BY <1>6, <1>8, <2>1
    <2>2. CASE q # p
      BY <1>3, <1>6, <1>9, <2>2, OthersStay
    <2> QED BY <2>1, <2>2
  <1>11. ASSUME NEW target, Safe(target)
         PROVE  /\ Named(target) \in DOMAIN files' <=> Named(target) \in DOMAIN files
                /\ Named(target) \in DOMAIN files => files'[Named(target)] = files[Named(target)]
    <2>1. Named(target) # temp /\ Named(target) # <<>> /\ (Named(target) = Named(t) => target = t)
      BY PathsApart
    <2>2. Named(target) # fd
      BY <1>5, <1>11, <2>1
    <2> QED BY <1>4, <2>2
  <1>12. FilesWhole'
    BY <1>3, <1>11 DEF CachesInv, FilesWhole, Safe, SafeIf, OnFile
  <1>13. ASSUME ~raced PROVE OneFilm' /\ AnswersKept' /\ \A q \in Processes : Knows(proc[q])'
    <2>1. Safe(Names)
      BY <1>13 DEF Safe, SafeIf
    <2>2. Published(Names)' = Published(Names)
      BY <1>11, <2>1 DEF Published, OnFile
    <2>3. \A q \in Processes : MakingAFilm(q)' <=> MakingAFilm(q)
      BY <1>1, <1>2, <1>6 DEF MakingAFilm
    <2>4. \A q \in Processes : /\ proc'[q].names = proc[q].names /\ proc'[q].target = proc[q].target
                               /\ proc'[q].content = proc[q].content
      BY <1>2, <1>6
    <2> QED BY <1>3, <1>13, <2>2, <2>3, <2>4, SameNames
  <1> QED BY <1>3, <1>7, <1>10, <1>12, <1>13 DEF CachesInv

\* The file beside the name is put in its place.
LEMMA Replaces ==
    ASSUME CachesInv, NEW p \in Processes, ReplaceTemp(p)
    PROVE  CachesInv'
  <1> DEFINE t    == proc[p].target
             temp == TempOf(p, t)
             run  == Next1(p)
             Moved(q) == CASE proc[q].fd = temp -> Named(t)
                           [] proc[q].fd = Named(t) -> <<>>
                           [] OTHER -> proc[q].fd
             other(q) == [proc[q] EXCEPT !.fd = Moved(q)]
  <1>1. /\ IsRun(proc[p]) /\ proc[p].named \in BOOLEAN /\ PlacedIn(proc[p], p, files, raced)
        /\ proc[p].step = "replace" /\ DOMAIN proc = Processes
    BY DEF CachesInv, KeptType, ReplaceTemp
  <1>2. /\ IsRun(run) /\ run.step = "next" /\ run.fd = <<>> /\ run.target = Sole("none")
        /\ run.named = proc[p].named /\ run.names = proc[p].names /\ run.left = Tail(proc[p].left)
    BY <1>1, RunsMade
  <1>3. /\ temp \in DOMAIN files /\ UNCHANGED <<answered, lost, raced>>
        /\ files' = Restrict(With(Named(t), files[temp].content, files[temp].whole),
                             (DOMAIN files \cup {Named(t)}) \ {temp})
        /\ proc' = [q \in Processes |-> IF q = p THEN run ELSE other(q)]
    BY DEF ReplaceTemp
  <1> HIDE DEF run
  <1>4. temp # Named(t) /\ temp # <<>>
    BY PathsApart
  <1>5. /\ DOMAIN files' = (DOMAIN files \cup {Named(t)}) \ {temp}
        /\ files'[Named(t)].whole = files[temp].whole
        /\ files'[Named(t)].content = files[temp].content
        /\ \A path \in DOMAIN files' : path # Named(t) => files'[path] = files[path]
    BY <1>3, <1>4 DEF Restrict, With
  <1>6. \A path : path \notin {temp, Named(t)} => /\ path \in DOMAIN files' <=> path \in DOMAIN files
                                                  /\ path \in DOMAIN files => files'[path] = files[path]
    BY <1>5
  <1>7. \A q \in Processes : IsRun(proc[q]) /\ proc[q].named \in BOOLEAN /\ PlacedIn(proc[q], q, files, raced)
    BY DEF CachesInv, KeptType
  <1>8. ASSUME NEW q \in Processes
        PROVE  /\ IsRun(other(q)) /\ other(q).step = proc[q].step /\ other(q).target = proc[q].target
               /\ other(q).content = proc[q].content /\ other(q).left = proc[q].left
               /\ other(q).named = proc[q].named /\ other(q).names = proc[q].names
               /\ other(q).fd = Moved(q)
    <2> HIDE DEF Moved
    <2>1. IsRun(proc[q])
      BY <1>7
    <2> QED BY <2>1 DEF IsRun
  <1> HIDE DEF other, Moved
  <1>9. /\ proc'[p] = run /\ DOMAIN proc' = Processes
        /\ \A q \in Processes : q # p => proc'[q] = other(q)
    BY <1>3
  <1>10. KeptType'
    BY <1>1, <1>2, <1>3, <1>7, <1>8, <1>9 DEF CachesInv, KeptType
  <1>11. PlacedIn(run, p, files', raced')
    <2>1. <<>> # Named(Sole("none")) /\ Sole("none") # Names
      BY PathsApart, SolesApart
    <2>2. ~run.named => run.left \in Seq(Chores)
      <3>1. ~proc[p].named => proc[p].left \in Seq(Chores)
        BY <1>1 DEF PlacedIn
      <3>2. CASE proc[p].left = <<>>
        BY <1>2, <3>1, <3>2
      <3>3. CASE proc[p].left # <<>>
        BY <1>2, <3>1, <3>3
      <3> QED BY <3>2, <3>3
    <2> QED BY <1>2, <2>1, <2>2 DEF PlacedIn
  <1>12. ASSUME NEW q \in Processes, q # p
         PROVE  PlacedIn(other(q), q, files', raced')
    <2>1. /\ proc[q].fd \in {<<>>, TempOf(q, proc[q].target), Named(proc[q].target)}
          /\ Safe(proc[q].target) => proc[q].fd # Named(proc[q].target)
      BY <1>7 DEF PlacedIn, Safe
    <2>2. /\ TempOf(q, proc[q].target) # Named(t) /\ Named(proc[q].target) # temp
          /\ TempOf(q, proc[q].target) = temp => proc[q].target = t
          /\ Named(proc[q].target) = Named(t) => proc[q].target = t
          /\ Named(t) # <<>>
      BY PathsApart
    <2>3. Safe(proc[q].target) => TempOf(q, proc[q].target) # temp
      BY <1>12, OwnTemp
    <2>4. CASE proc[q].fd = temp
      <3>1. Moved(q) = Named(t)
        BY <1>4, <2>4 DEF Moved
      <3>2. proc[q].fd = TempOf(q, proc[q].target)
        BY <1>4, <2>1, <2>2, <2>4
      <3>3. proc[q].target = t /\ ~Safe(proc[q].target) /\ proc[q].fd # <<>>
        BY <1>4, <2>2, <2>3, <2>4, <3>2
      <3> QED BY <1>3, <1>6, <1>8, <1>12, <3>1, <3>3, OthersStay
    <2>5. CASE proc[q].fd = Named(t)
      <3>1. Moved(q) = <<>>
        BY <1>4, <2>5 DEF Moved
      <3>2. proc[q].fd = Named(proc[q].target)
        BY <2>1, <2>2, <2>5
      <3>3. ~Safe(proc[q].target) /\ proc[q].fd # <<>>
        BY <2>1, <2>2, <2>5, <3>2
      <3> QED BY <1>3, <1>6, <1>8, <1>12, <3>1, <3>3, OthersStay
    <2>6. CASE proc[q].fd # temp /\ proc[q].fd # Named(t)
      <3>1. Moved(q) = proc[q].fd
        BY <2>6 DEF Moved
      <3> QED BY <1>3, <1>6, <1>8, <1>12, <3>1, OthersStay
    <2> QED BY <2>4, <2>5, <2>6
  <1>13. \A q \in Processes : PlacedIn(proc'[q], q, files', raced')
    BY <1>9, <1>11, <1>12
  <1>14. FilesWhole'
    <2>1. SUFFICES ASSUME NEW target, Safe(target), Named(target) \in DOMAIN files'
                   PROVE  files'[Named(target)].whole
      BY <1>3 DEF FilesWhole, Safe, SafeIf, OnFile
    <2>2. Named(target) # temp /\ (Named(target) = Named(t) => target = t)
      BY PathsApart
    <2>3. CASE target = t
      <3>1. files[temp].whole
        BY <1>1, <2>1, <2>3 DEF PlacedIn, Safe
      <3> QED BY <1>5, <2>3, <3>1
    <2>4. CASE target # t
      <3>1. Named(target) \in DOMAIN files /\ files'[Named(target)] = files[Named(target)]
        BY <1>6, <2>1, <2>2, <2>4
      <3> QED BY <2>1, <3>1 DEF CachesInv, FilesWhole, OnFile
    <2> QED BY <2>3, <2>4
  <1>15. ASSUME ~raced PROVE OneFilm' /\ AnswersKept' /\ \A q \in Processes : Knows(proc[q])'
    <2>1. OneFilm /\ AnswersKept /\ \A q \in Processes : Knows(proc[q])
      BY <1>15 DEF CachesInv
    <2>2. \A q \in Processes : (MakingAFilm(q)' <=> MakingAFilm(q)) /\ proc'[q].names = proc[q].names
      BY <1>1, <1>2, <1>8, <1>9 DEF MakingAFilm
    <2>3. OneFilm'
      BY <2>1, <2>2 DEF OneFilm
    <2>4. /\ t # Names => Published(Names)' = Published(Names)
          /\ t = Names => MakingAFilm(p) /\ Published(Names)' = proc[p].names
      <3>1. CASE t # Names
        <4>1. Named(Names) # temp /\ Named(Names) # Named(t)
          BY <3>1, PathsApart
        <4> QED BY <1>6, <3>1, <4>1 DEF Published, OnFile
      <3>2. CASE t = Names
        <4>1. Safe(t)
          BY <1>15, <3>2 DEF Safe, SafeIf
        <4>2. files[temp].content = proc[p].content /\ MakingAFilm(p)
          BY <1>1, <3>2, <4>1 DEF PlacedIn, Safe, MakingAFilm
        <4>3. proc[p].content = proc[p].names
          BY <2>1, <3>2, <4>2 DEF Knows, Making, MakingAFilm
        <4> QED BY <1>4, <1>5, <3>2, <4>2, <4>3 DEF Published, OnFile
      <3> QED BY <3>1, <3>2
    <2>5. \A place : Told(place)' <=> Told(place)
      <3>1. CASE t # Names
        BY <2>2, <2>4, <3>1 DEF Told
      <3>2. CASE t = Names
        <4>1. Published(Names) \subseteq proc[p].names
          BY <2>1, <2>4, <3>2 DEF Knows, Making, MakingAFilm
        <4> QED BY <2>2, <2>4, <3>2, <4>1 DEF Told
      <3> QED BY <3>1, <3>2
    <2>6. AnswersKept'
      BY <1>3, <2>1, <2>5 DEF AnswersKept
    <2>7. ASSUME NEW q \in Processes PROVE Knows(proc[q])'
      <3>1. CASE q = p
        <4>1. /\ run.target # Names /\ proc'[q] = run /\ run.names = proc[p].names
              /\ Making(proc[p]) <=> Making(run)
          BY <1>1, <1>2, <1>9, <3>1, SolesApart DEF Making
        <4> QED BY <2>1, <2>4, <3>1, <4>1 DEF Knows, Making
      <3>2. CASE q # p
        <4>1. /\ proc'[q].names = proc[q].names /\ proc'[q].target = proc[q].target
              /\ proc'[q].content = proc[q].content /\ (Making(proc[q])' <=> Making(proc[q]))
          BY <1>8, <1>9, <3>2 DEF Making
        <4>2. t = Names => ~Making(proc[q])
          BY <2>1, <2>4, <3>2 DEF OneFilm, MakingAFilm, Making
        <4> QED BY <2>1, <2>4, <4>1, <4>2 DEF Knows
      <3> QED BY <3>1, <3>2
    <2> QED BY <2>3, <2>6, <2>7
  <1> QED BY <1>3, <1>10, <1>13, <1>14, <1>15 DEF CachesInv

\* A name is asked for and answered.
LEMMA LearnsAName ==
    ASSUME CachesInv, NEW p \in Processes, NEW place \in Places,
           Reached(p, <<"name", place>>), place \notin proc[p].names,
           answered' = [answered EXCEPT ![place] = @ + 1],
           Goes(p, [Write(p, Names, NamesToWrite(p, place)) EXCEPT !.names = @ \cup {place}]),
           UNCHANGED <<files, recording, lost, raced, starts>>
    PROVE  CachesInv'
  <1> DEFINE new == Write(p, Names, NamesToWrite(p, place))
             run == [new EXCEPT !.names = @ \cup {place}]
  <1>1. /\ IsRun(proc[p]) /\ proc[p].named \in BOOLEAN /\ proc[p].fd = <<>> /\ proc[p].target # Names
        /\ ~proc[p].named => proc[p].left \in Seq(Chores)
        /\ proc[p].step = "next" /\ DOMAIN proc = Processes
        /\ answered \in [Places -> Nat] /\ lost \in [Places -> Nat]
    BY BetweenFiles DEF Reached, CachesInv, KeptType
  <1>2. /\ IsRun(new) /\ new.step = "open" /\ new.fd = <<>> /\ new.target = Names
        /\ new.named = proc[p].named /\ new.names = proc[p].names
        /\ new.left = proc[p].left /\ new.content = proc[p].names \cup {place}
    BY <1>1 DEF IsRun, Write, NamesToWrite
  <1> HIDE DEF new
  <1>3. /\ IsRun(run) /\ run.step = "open" /\ run.fd = <<>> /\ run.target = Names
        /\ run.named = proc[p].named /\ run.names = proc[p].names \cup {place}
        /\ run.left = proc[p].left /\ run.content = run.names
    BY <1>2 DEF IsRun
  <1>4. proc' = [proc EXCEPT ![p] = run]
    BY DEF Goes, new
  <1> HIDE DEF run
  <1>5. /\ proc'[p] = run /\ DOMAIN proc' = Processes
        /\ \A q \in Processes : q # p => proc'[q] = proc[q]
    BY <1>1, <1>4
  <1>6. proc[p].named
    <2>1. SUFFICES ASSUME ~proc[p].named PROVE FALSE
      BY <1>1
    <2>2. proc[p].left \in Seq(Chores) /\ proc[p].left # <<>> /\ Head(proc[p].left) = <<"name", place>>
      BY <1>1, <2>1 DEF Reached
    <2>3. Head(proc[p].left) \in Chores
      BY <2>2
    <2> QED BY <2>2, <2>3, SolesApart
  <1>7. KeptType'
    BY <1>1, <1>3, <1>5 DEF CachesInv, KeptType
  <1>8. PlacedIn(run, p, files', raced')
    <2>1. <<>> # Named(run.target)
      BY PathsApart
    <2> QED BY <1>3, <1>6, <2>1 DEF PlacedIn, Writing
  <1>9. \A q \in Processes : PlacedIn(proc'[q], q, files', raced')
    BY <1>5, <1>8 DEF CachesInv
  <1>10. FilesWhole' /\ Published(Names)' = Published(Names)
    BY DEF CachesInv, FilesWhole, Safe, SafeIf, OnFile, Published
  <1>11. ASSUME ~raced PROVE OneFilm' /\ AnswersKept' /\ \A q \in Processes : Knows(proc[q])'
    <2>1. OneFilm /\ AnswersKept /\ \A q \in Processes : Knows(proc[q])
      BY <1>11 DEF CachesInv
    <2>2. MakingAFilm(p) /\ \A q \in Processes : MakingAFilm(q)' <=> MakingAFilm(q)
      BY <1>1, <1>3, <1>5, <1>6 DEF MakingAFilm
    <2>3. OneFilm'
      BY <2>1, <2>2 DEF OneFilm
    <2>4. Published(Names) \subseteq proc[p].names /\ proc[p].names \subseteq Published(Names)
      BY <1>1, <2>1, <2>2 DEF Knows, Making, MakingAFilm
    <2>5. ASSUME NEW q \in Processes PROVE Knows(proc[q])'
      <3>1. CASE q = p
        BY <1>3, <1>5, <1>10, <2>4, <3>1 DEF Knows
      <3>2. CASE q # p
        BY <1>5, <1>10, <2>1, <3>2 DEF Knows, Making
      <3> QED BY <3>1, <3>2
    <2>6. \A q \in Processes : MakingAFilm(q) => q = p
      BY <2>1, <2>2 DEF OneFilm
    <2>7. ~Told(place) /\ Told(place)'
      BY <1>3, <1>5, <2>2, <2>4, <2>6 DEF Told
    <2>8. \A x \in Places : Told(x) => Told(x)'
      BY <1>3, <1>5, <1>10, <2>2 DEF Told
    <2>9. AnswersKept'
      <3>1. SUFFICES ASSUME NEW x \in Places
                     PROVE  answered'[x] <= lost[x] + (IF Told(x)' THEN 1 ELSE 0)
        BY DEF AnswersKept
      <3>2. /\ answered[x] \in Nat /\ lost[x] \in Nat
            /\ answered[x] <= lost[x] + (IF Told(x) THEN 1 ELSE 0)
        BY <1>1, <2>1 DEF AnswersKept
      <3>3. CASE x = place
        BY <1>1, <2>7, <3>2, <3>3
      <3>4. CASE x # place
        BY <1>1, <2>8, <3>2, <3>4
      <3> QED BY <3>3, <3>4
    <2> QED BY <2>3, <2>5, <2>9
  <1> QED BY <1>7, <1>9, <1>10, <1>11 DEF CachesInv

\* A film begins: with what is on file, and alone or not.
LEMMA FilmBegins ==
    ASSUME CachesInv, NEW p \in Processes, StartFilm(p)
    PROVE  CachesInv'
  <1>1. PICK items : Launch(p, items, TRUE)
    BY DEF StartFilm
  <1> DEFINE run == [Away EXCEPT !.step = "next", !.left = items, !.named = TRUE,
                                 !.names = IF TRUE THEN Published(Names) ELSE {}]
  <1>2. /\ IsRun(proc[p]) /\ proc[p].step = "away" /\ DOMAIN proc = Processes
        /\ answered \in [Places -> Nat] /\ lost \in [Places -> Nat]
    BY <1>1 DEF Launch, CachesInv, KeptType
  <1>3. /\ IsRun(run) /\ run.step = "next" /\ run.left = items /\ run.named = TRUE
        /\ run.fd = <<>> /\ run.target = Sole("none") /\ run.names = Published(Names)
    BY <1>2, RunsMade DEF IsRun
  <1>4. proc' = [proc EXCEPT ![p] = run]
    BY <1>1 DEF Launch
  <1>5. /\ raced' = (raced \/ \E q \in Processes : MakingAFilm(q))
        /\ UNCHANGED <<files, answered, lost>>
    BY DEF StartFilm
  <1> HIDE DEF run
  <1>6. /\ proc'[p] = run /\ DOMAIN proc' = Processes
        /\ \A q \in Processes : q # p => proc'[q] = proc[q]
    BY <1>2, <1>4
  <1>7. KeptType'
    BY <1>3, <1>5, <1>6 DEF CachesInv, KeptType
  <1>8. \A target : SafeIf(target, raced') => SafeIf(target, raced)
    BY <1>5 DEF SafeIf
  <1>9. PlacedIn(run, p, files', raced')
    <2>1. <<>> # Named(run.target)
      BY PathsApart
    <2> QED BY <1>3, <2>1, SolesApart DEF PlacedIn
  <1>10. ASSUME NEW q \in Processes PROVE PlacedIn(proc'[q], q, files', raced')
    <2>1. CASE q = p
      BY <1>6, <1>9, <2>1
    <2>2. CASE q # p
      <3>1. PlacedIn(proc[q], q, files, raced)
        BY DEF CachesInv
      <3>2. PlacedIn(proc[q], q, files, raced')
        BY <1>8, <3>1 DEF PlacedIn
      <3> QED BY <1>5, <1>6, <2>2, <3>2
    <2> QED BY <2>1, <2>2
  <1>11. FilesWhole' /\ Published(Names)' = Published(Names)
    BY <1>5, <1>8 DEF CachesInv, FilesWhole, Safe, OnFile, Published
  <1>12. ASSUME ~raced' PROVE OneFilm' /\ AnswersKept' /\ \A q \in Processes : Knows(proc[q])'
    <2>1. ~raced /\ \A q \in Processes : ~MakingAFilm(q)
      BY <1>5, <1>12
    <2>2. AnswersKept
      BY <2>1 DEF CachesInv
    <2>3. \A q \in Processes : q # p => ~MakingAFilm(q)'
      BY <1>6, <2>1 DEF MakingAFilm
    <2>4. OneFilm'
      BY <2>3 DEF OneFilm
    <2>5. \A place : Told(place)' <=> Told(place)
      BY <1>3, <1>6, <1>11, <2>1, <2>3 DEF Told
    <2>6. AnswersKept'
      BY <1>5, <2>2, <2>5 DEF AnswersKept
    <2>7. Knows(proc[p])'
      BY <1>3, <1>6, <1>11, SolesApart DEF Knows
    <2>8. \A q \in Processes : Knows(proc[q])'
      BY <2>3, <2>7 DEF Knows, Making, MakingAFilm
    <2> QED BY <2>4, <2>6, <2>8
  <1> QED BY <1>7, <1>10, <1>11, <1>12 DEF CachesInv

\* A run is stopped, and what it learnt and had not written down is lost.
LEMMA Stops ==
    ASSUME CachesInv, NEW p \in Processes, StopRun(p)
    PROVE  CachesInv'
  <1>1. /\ IsRun(proc[p]) /\ DOMAIN proc = Processes
        /\ answered \in [Places -> Nat] /\ lost \in [Places -> Nat]
    BY DEF CachesInv, KeptType
  <1>2. /\ IsRun(Away) /\ Away.step = "away" /\ Away.fd = <<>> /\ Away.target = Sole("none")
        /\ Away.named = FALSE /\ Away.left = <<>> /\ Away.names = {}
    BY <1>1, RunsMade
  <1>3. /\ lost' = [x \in Places |-> lost[x] + (IF x \in proc[p].names \ Published(Names) THEN 1 ELSE 0)]
        /\ proc' = [proc EXCEPT ![p] = Away] /\ UNCHANGED <<files, answered, raced>>
    BY DEF StopRun, Goes
  <1>4. /\ proc'[p] = Away /\ DOMAIN proc' = Processes
        /\ \A q \in Processes : q # p => proc'[q] = proc[q]
    BY <1>1, <1>3
  <1>5. KeptType'
    <2>1. lost' \in [Places -> Nat]
      <3>1. \A x \in Places : lost[x] + (IF x \in proc[p].names \ Published(Names) THEN 1 ELSE 0) \in Nat
        BY <1>1
      <3> QED BY <1>3, <3>1
    <2>2. \A q \in Processes : IsRun(proc'[q]) /\ proc'[q].named \in BOOLEAN
      BY <1>2, <1>4 DEF CachesInv, KeptType
    <2> QED BY <1>1, <1>3, <1>4, <2>1, <2>2 DEF KeptType
  <1>6. PlacedIn(Away, p, files', raced')
    <2>1. <<>> # Named(Away.target) /\ <<>> \in Seq(Chores)
      BY PathsApart
    <2> QED BY <1>2, <2>1, SolesApart DEF PlacedIn
  <1>7. \A q \in Processes : PlacedIn(proc'[q], q, files', raced')
    BY <1>3, <1>4, <1>6 DEF CachesInv
  <1>8. FilesWhole' /\ Published(Names)' = Published(Names)
    BY <1>3 DEF CachesInv, FilesWhole, Safe, SafeIf, OnFile, Published
  <1>9. ASSUME ~raced PROVE OneFilm' /\ AnswersKept' /\ \A q \in Processes : Knows(proc[q])'
    <2>1. OneFilm /\ AnswersKept /\ \A q \in Processes : Knows(proc[q])
      BY <1>9 DEF CachesInv
    <2>2. ~MakingAFilm(p)' /\ \A q \in Processes : q # p => (MakingAFilm(q)' <=> MakingAFilm(q))
      BY <1>2, <1>4 DEF MakingAFilm
    <2>3. OneFilm'
      BY <2>1, <2>2 DEF OneFilm
    <2>4. \A q \in Processes : Knows(proc[q])'
      BY <1>4, <1>8, <2>1, <2>2 DEF Knows, Making, MakingAFilm
    <2>5. \A x : Told(x) /\ x \notin proc[p].names \ Published(Names) => Told(x)'
      BY <1>4, <1>8, <2>2 DEF Told
    <2>6. AnswersKept'
      <3>1. SUFFICES ASSUME NEW x \in Places
                     PROVE  answered[x] <= lost'[x] + (IF Told(x)' THEN 1 ELSE 0)
        BY <1>3 DEF AnswersKept
      <3>2. /\ answered[x] \in Nat /\ lost[x] \in Nat
            /\ answered[x] <= lost[x] + (IF Told(x) THEN 1 ELSE 0)
        BY <1>1, <2>1 DEF AnswersKept
      <3>3. lost'[x] = lost[x] + (IF x \in proc[p].names \ Published(Names) THEN 1 ELSE 0)
        BY <1>3
      <3>4. CASE x \in proc[p].names \ Published(Names)
        BY <3>2, <3>3, <3>4
      <3>5. CASE x \notin proc[p].names \ Published(Names)
        BY <2>5, <3>2, <3>3, <3>5
      <3> QED BY <3>4, <3>5
    <2> QED BY <2>3, <2>4, <2>6
  <1> QED BY <1>5, <1>7, <1>8, <1>9, <1>3 DEF CachesInv

\* At the start there is one file, of an older form, and nobody at work.
LEMMA CachesBegin == CachesInit => CachesInv
  <1> SUFFICES ASSUME CachesInit PROVE CachesInv
    OBVIOUS
  <1>1. /\ files = [f \in {Named(Metrics(1))} |-> [content |-> Older, whole |-> TRUE]]
        /\ proc = [p \in Processes |-> Away]
        /\ answered = [x \in Places |-> 0] /\ lost = [x \in Places |-> 0]
    BY DEF CachesInit
  <1>2. /\ IsRun(Away) /\ Away.step = "away" /\ Away.fd = <<>> /\ Away.target = Sole("none")
        /\ Away.named = FALSE /\ Away.left = <<>>
    BY DEF IsRun, Away
  <1>3. KeptType
    BY <1>1, <1>2 DEF KeptType
  <1>4. ASSUME NEW p \in Processes PROVE PlacedIn(proc[p], p, files, raced)
    <2>1. <<>> # Named(Away.target) /\ <<>> \in Seq(Chores)
      BY PathsApart
    <2> QED BY <1>1, <1>2, <2>1, SolesApart DEF PlacedIn
  <1>5. FilesWhole
    BY <1>1 DEF FilesWhole, OnFile
  <1>6. OneFilm /\ \A p \in Processes : Knows(proc[p])
    BY <1>1, <1>2 DEF OneFilm, Knows, Making, MakingAFilm
  <1>7. AnswersKept
    BY <1>1 DEF AnswersKept
  <1> QED BY <1>3, <1>4, <1>5, <1>6, <1>7 DEF CachesInv

\* Every step of the runs over the caches keeps the invariant.
LEMMA CachesGoOn == CachesInv /\ [CachesNext]_cacheVars => CachesInv'
  <1> SUFFICES ASSUME CachesInv, [CachesNext]_cacheVars PROVE CachesInv'
    OBVIOUS
  <1>1. CASE RecordAgain \/ UNCHANGED cacheVars
    <2>1. UNCHANGED <<files, proc, answered, lost, raced>>
      BY <1>1 DEF RecordAgain, cacheVars
    <2>2. Published(Names)' = Published(Names)
      BY <2>1 DEF Published, OnFile
    <2>3. KeptType' /\ FilesWhole'
      BY <2>1 DEF CachesInv, KeptType, FilesWhole, Safe, SafeIf, OnFile
    <2>4. \A p \in Processes : PlacedIn(proc'[p], p, files', raced')
      BY <2>1 DEF CachesInv
    <2>5. ~raced => OneFilm' /\ AnswersKept' /\ \A p \in Processes : Knows(proc[p])'
      BY <2>1, <2>2, SameNames DEF MakingAFilm
    <2> QED BY <2>1, <2>3, <2>4, <2>5 DEF CachesInv
  <1>2. ASSUME NEW p \in Processes, NEW place \in Places, AskName(p, place) PROVE CachesInv'
    <2>1. CASE OnlyGoes(p, Next1(p))
      BY <1>2, <2>1, GoesOnward DEF AskName, Reached
    <2>2. CASE OnlyGoes(p, [Away EXCEPT !.step = "late"])
      <3>1. proc[p].target # Names
        BY <1>2, BetweenFiles DEF AskName, Reached
      <3> QED BY <2>2, <3>1, GoesAway
    <2>3. CASE ~OnlyGoes(p, Next1(p)) /\ ~OnlyGoes(p, [Away EXCEPT !.step = "late"])
      BY <1>2, <2>3, LearnsAName DEF AskName
    <2> QED BY <2>1, <2>2, <2>3
  <1>3. CASE \E p \in Processes : OpenTemp(p) \/ FillTemp(p) \/ ReplaceTemp(p) \/ StopRun(p) \/ StartFilm(p)
    BY <1>3, Opens, Fills, Replaces, Stops, FilmBegins
  <1>4. CASE \E p \in Processes :
                \/ StartNameless(p) \/ StartResearch(p) \/ StartFetch(p) \/ StartPreflight(p)
                \/ CompareLooks(p) \/ CopyWindow(p) \/ DrawMap(p) \/ AskMirror(p)
                \/ MetricsKnown(p) \/ AnalyseRecording(p) \/ KeepMetrics(p)
                \/ (\E place \in Places : NameKnown(p, place))
                \/ EndRun(p) \/ ReplaceNothing(p)
    BY <1>4, QuietActions
  <1> QED BY <1>1, <1>2, <1>3, <1>4 DEF CachesNext

\* What stands under its own name is whole, whoever was stopped where: always
\* for what is written beside it under a name of one's own, and for the names of
\* places unless two films of the package were being made at once.
THEOREM WhatIsKeptIsWhole == CachesSpec => []PublishedIsWhole
  <1>1. CachesInv => PublishedIsWhole
    <2> SUFFICES ASSUME CachesInv,
                        NEW target \in {Sole("look"), Sole("copy")} \cup {Metrics(v) : v \in 1 .. MaxShots}
                                       \cup (IF raced THEN {} ELSE {Names}),
                        OnFile(target)
                 PROVE  files[Named(target)].whole
      BY DEF PublishedIsWhole
    <2>1. \A x, y : <<x, y>>[1] = x
      OBVIOUS
    <2>2. \A kind : Sole(kind)[1] = kind
      BY <2>1 DEF Sole
    <2>3. \A v : Metrics(v)[1] = "metrics"
      BY <2>1 DEF Metrics
    <2>4. Safe(target)
      BY <2>2, <2>3 DEF Safe, SafeIf, Solitary, Names
    <2> QED BY <2>4 DEF CachesInv, FilesWhole
  <1> QED BY <1>1, CachesBegin, CachesGoOn, PTL DEF CachesSpec

\* A film cut again asks nothing again: a place is asked for once, and once more
\* for each time its answer was lost with a run, as long as films of one package
\* are made one after another.
THEOREM PlacesAskedOnce == CachesSpec => []AskedOnce
  <1>1. CachesInv => AskedOnce
    <2> SUFFICES ASSUME CachesInv, ~raced, NEW place \in Places
                 PROVE  answered[place] <= 1 + lost[place]
      BY DEF AskedOnce
    <2>1. /\ answered[place] \in Nat /\ lost[place] \in Nat
          /\ answered[place] <= lost[place] + (IF Told(place) THEN 1 ELSE 0)
      BY DEF CachesInv, KeptType, AnswersKept
    <2> QED BY <2>1
  <1> QED BY <1>1, CachesBegin, CachesGoOn, PTL DEF CachesSpec

-----------------------------------------------------------------------------
(* The demo video.                                                         *)

\* Of numbers one is the least.
LEMMA LeastNatural ==
    ASSUME NEW T \in SUBSET Nat, T # {}
    PROVE  \E x \in T : \A y \in T : ~(y < x)
  <1>1. IsWellFoundedOn(OpToRel(<, Nat), Nat)
    BY NatLessThanWellFounded
  <1>2. PICK x \in T : \A y \in T : ~(<<y, x>> \in OpToRel(<, Nat))
    BY <1>1, WFMin
  <1>3. ASSUME NEW y \in T PROVE ~(y < x)
    BY <1>2, <1>3 DEF OpToRel
  <1> QED
    BY <1>3

\* What is built a step at a time, each from the one before.
Built(n, D, b, g, f) ==
    f \in [0 .. n -> D] /\ f[0] = b /\ \A k \in 1 .. n : f[k] = g[k][f[k - 1]]

\* It can be built to any length.
LEMMA StepByStep ==
    ASSUME NEW n \in Nat, NEW D, NEW b \in D, NEW g \in [1 .. n -> [D -> D]]
    PROVE  \E f : Built(n, D, b, g, f)
  <1> DEFINE bad == {m \in 0 .. n : ~\E f : Built(m, D, b, g, f)}
  <1>1. n \in 0 .. n
    OBVIOUS
  <1>2. SUFFICES ASSUME ~\E f : Built(n, D, b, g, f) PROVE FALSE
    OBVIOUS
  <1>3. PICK m \in bad : \A j \in bad : ~(j < m)
    <2>1. bad \in SUBSET Nat /\ bad # {}
      BY <1>1, <1>2
    <2> HIDE DEF bad
    <2> QED BY <2>1, LeastNatural
  <1>4. m \in 0 .. n /\ ~\E f : Built(m, D, b, g, f)
    BY <1>3
  <1>5. CASE m = 0
    <2> DEFINE f == [k \in 0 .. 0 |-> b]
    <2>1. f \in [0 .. 0 -> D] /\ f[0] = b /\ 1 .. 0 = {}
      OBVIOUS
    <2>2. Built(0, D, b, g, f)
      BY <2>1 DEF Built
    <2> QED BY <1>4, <1>5, <2>2
  <1>6. CASE m # 0
    <2>1. m \in Nat /\ m - 1 \in 0 .. n /\ m - 1 < m /\ m \in 1 .. n
      BY <1>4, <1>6
    <2>2. \E f : Built(m - 1, D, b, g, f)
      BY <1>3, <2>1
    <2>3. PICK f : Built(m - 1, D, b, g, f)
      BY <2>2
    <2> DEFINE h == [k \in 0 .. m |-> IF k = m THEN g[m][f[m - 1]] ELSE f[k]]
    <2>4. f[m - 1] \in D /\ g[m][f[m - 1]] \in D
      BY <2>1, <2>3 DEF Built
    <2>5. \A k \in 0 .. m : k # m => k \in 0 .. (m - 1)
      BY <2>1
    <2>6. h \in [0 .. m -> D]
      BY <2>3, <2>4, <2>5 DEF Built
    <2>7. h[0] = b
      BY <1>6, <2>1, <2>3 DEF Built
    <2>8. ASSUME NEW k \in 1 .. m PROVE h[k] = g[k][h[k - 1]]
      <3>1. k \in 0 .. m /\ k - 1 \in 0 .. m /\ k - 1 # m /\ h[k - 1] = f[k - 1]
        BY <2>1
      <3>2. CASE k = m
        BY <3>1, <3>2
      <3>3. CASE k # m
        <4>1. k \in 1 .. (m - 1) /\ h[k] = f[k]
          BY <2>1, <3>1, <3>3
        <4> QED BY <2>3, <3>1, <4>1 DEF Built
      <3> QED BY <3>2, <3>3
    <2> HIDE DEF h
    <2>9. Built(m, D, b, g, h)
      BY <2>6, <2>7, <2>8 DEF Built
    <2> QED BY <1>4, <2>9
  <1> QED BY <1>5, <1>6

\* A list, of whatever it is of.
Listed(s) == \E S : s \in Seq(S)

LEMMA ListsAre ==
    ASSUME NEW s, Listed(s)
    PROVE  Len(s) \in Nat /\ DOMAIN s = 1 .. Len(s) /\ s = [i \in 1 .. Len(s) |-> s[i]]
  <1> PICK S : s \in Seq(S)
    BY DEF Listed
  <1> QED OBVIOUS

\* A list with one more at its end.
LEMMA LongerList ==
    ASSUME NEW s, Listed(s), NEW e
    PROVE  /\ Listed(Append(s, e)) /\ Len(Append(s, e)) = Len(s) + 1
           /\ Append(s, e)[Len(s) + 1] = e
           /\ \A i \in 1 .. Len(s) : Append(s, e)[i] = s[i]
  <1> PICK S : s \in Seq(S)
    BY DEF Listed
  <1>1. s \in Seq(S \cup {e})
    OBVIOUS
  <1>2. Append(s, e) \in Seq(S \cup {e})
    BY <1>1
  <1> QED BY <1>1, <1>2 DEF Listed

\* A segment that can be timed.
Timed(segments) ==
    /\ Listed(segments)
    /\ \A i \in 1 .. Len(segments) : segments[i].seconds \in Nat

Captions(segments) == {segments[i].caption : i \in 1 .. Len(segments)}

\* Segments that each are on for some time.
Lasting(segments) ==
    Timed(segments) /\ \A i \in 1 .. Len(segments) : segments[i].seconds > 0

\* The first n segments play for the sum of what each does.
LEMMA RunTimeIs ==
    ASSUME NEW segments, Timed(segments)
    PROVE  /\ RunTime(segments) \in [0 .. Len(segments) -> Nat]
           /\ RunTime(segments)[0] = 0
           /\ \A k \in 1 .. Len(segments) :
                RunTime(segments)[k] = RunTime(segments)[k - 1] + segments[k].seconds
  <1> DEFINE n == Len(segments)
             g == [k \in 1 .. n |-> [x \in Nat |-> x + segments[k].seconds]]
  <1>1. n \in Nat
    BY ListsAre DEF Timed
  <1>2. g \in [1 .. n -> [Nat -> Nat]]
    BY DEF Timed
  <1>3. \E f : Built(n, Nat, 0, g, f)
    <2> HIDE DEF n, g
    <2> QED BY <1>1, <1>2, StepByStep
  <1>4. PICK f : Built(n, Nat, 0, g, f)
    BY <1>3
  <1>5. f \in [0 .. n -> Nat] /\ f[0] = 0
    BY <1>4 DEF Built
  <1>6. \A k \in 1 .. n : f[k] = f[k - 1] + segments[k].seconds
    <2> TAKE k \in 1 .. n
    <2>1. f[k] = g[k][f[k - 1]] /\ k - 1 \in 0 .. n
      BY <1>1, <1>4 DEF Built
    <2> QED BY <1>5, <2>1
  <1> DEFINE full(h) == [k \in 0 .. n |-> IF k = 0 THEN 0 ELSE h[k - 1] + segments[k].seconds]
  <1>7. f = full(f)
    <2>1. \A k \in 0 .. n : f[k] = full(f)[k]
      BY <1>1, <1>5, <1>6
    <2> HIDE DEF n
    <2> QED BY <1>5, <2>1
  <1>8. RunTime(segments) = full(RunTime(segments))
    BY <1>7 DEF RunTime
  <1> DEFINE e == RunTime(segments)
  <1> HIDE DEF e
  <1>9. e[0] = 0 /\ \A k \in 1 .. n : e[k] = e[k - 1] + segments[k].seconds
    BY <1>1, <1>8 DEF e
  <1>10. e \in [0 .. n -> Nat]
    <2> DEFINE bad == {k \in 0 .. n : e[k] \notin Nat}
    <2> SUFFICES bad = {}
      <3>1. e = [k \in 0 .. n |-> e[k]]
        BY <1>8 DEF e
      <3> HIDE DEF n
      <3> QED BY <3>1
    <2> SUFFICES ASSUME bad # {} PROVE FALSE
      OBVIOUS
    <2>1. PICK k \in bad : \A j \in bad : ~(j < k)
      <3>1. bad \in SUBSET Nat
        BY <1>1
      <3> HIDE DEF bad
      <3> QED BY <3>1, LeastNatural
    <2>2. k \in 0 .. n /\ k # 0
      BY <1>9, <2>1
    <2>3. k \in 1 .. n /\ k - 1 \in 0 .. n /\ k - 1 < k
      BY <1>1, <2>2
    <2>4. e[k - 1] \in Nat
      BY <2>1, <2>3
    <2>5. segments[k].seconds \in Nat
      BY <2>3 DEF Timed
    <2> QED BY <1>9, <2>1, <2>3, <2>4, <2>5
  <1> QED BY <1>9, <1>10 DEF e

\* Time does not go back, and over segments that last it goes on.
LEMMA TimeGoesOn ==
    ASSUME NEW segments, Lasting(segments),
           NEW i \in 0 .. Len(segments), NEW j \in 0 .. Len(segments), i < j
    PROVE  RunTime(segments)[i] < RunTime(segments)[j]
  <1> DEFINE n == Len(segments)
             e == RunTime(segments)
             bad == {k \in 0 .. n : i < k /\ ~(e[i] < e[k])}
  <1>1. n \in Nat
    BY ListsAre DEF Timed, Lasting
  <1>2. /\ e \in [0 .. n -> Nat]
        /\ \A k \in 1 .. n : e[k] = e[k - 1] + segments[k].seconds
    BY RunTimeIs DEF Lasting
  <1>3. \A k \in 1 .. n : segments[k].seconds \in Nat /\ segments[k].seconds > 0
    BY DEF Lasting, Timed
  <1> HIDE DEF n, e
  <1>4. SUFFICES ASSUME bad # {} PROVE FALSE
    BY DEF n, e
  <1>5. PICK k \in bad : \A m \in bad : ~(m < k)
    <2>1. bad \in SUBSET Nat
      BY <1>1
    <2> HIDE DEF bad
    <2> QED BY <1>4, <2>1, LeastNatural
  <1>6. k \in 1 .. n /\ k - 1 \in 0 .. n /\ i \in 0 .. n /\ i <= k - 1
    BY <1>1, <1>5 DEF n
  <1>7. e[k] \in Nat /\ e[k - 1] \in Nat /\ e[i] \in Nat /\ e[k - 1] < e[k]
    BY <1>2, <1>3, <1>6
  <1>8. e[i] <= e[k - 1]
    BY <1>5, <1>6, <1>7
  <1> QED BY <1>5, <1>7, <1>8

\* Segments of the same length as others begin when they do.  Here the others
\* may each be longer, and are all in all as long.
LEMMA SameLengths ==
    ASSUME NEW parts, NEW segments, Timed(parts), Timed(segments), Len(parts) = Len(segments),
           \A i \in 1 .. Len(parts) : parts[i].seconds <= segments[i].seconds,
           TimelineDuration(parts) = TimelineDuration(segments)
    PROVE  \A i \in 0 .. Len(parts) : RunTime(parts)[i] = RunTime(segments)[i]
  <1> DEFINE n == Len(parts)
             p == RunTime(parts)
             s == RunTime(segments)
             lag == [k \in 0 .. n |-> s[k] - p[k]]
  <1>1. n \in Nat /\ n \in 0 .. n
    BY ListsAre DEF Timed
  <1>2. p \in [0 .. n -> Nat] /\ s \in [0 .. n -> Nat] /\ p[0] = 0 /\ s[0] = 0
    BY RunTimeIs
  <1>3. \A k \in 1 .. n : /\ p[k] = p[k - 1] + parts[k].seconds
                          /\ s[k] = s[k - 1] + segments[k].seconds
    BY RunTimeIs
  <1>4. \A k \in 1 .. n : /\ parts[k].seconds \in Nat /\ segments[k].seconds \in Nat
                          /\ parts[k].seconds <= segments[k].seconds
    BY DEF Timed
  <1>5. p[n] = s[n]
    BY DEF TimelineDuration
  <1> HIDE DEF n, p, s
  <1>6. \A k \in 1 .. n : lag[k] >= lag[k - 1]
    <2> TAKE k \in 1 .. n
    <2>1. k \in 0 .. n /\ k - 1 \in 0 .. n
      BY <1>1
    <2>2. p[k] \in Nat /\ p[k - 1] \in Nat /\ s[k] \in Nat /\ s[k - 1] \in Nat
      BY <1>2, <2>1
    <2>3. lag[k] = s[k] - p[k] /\ lag[k - 1] = s[k - 1] - p[k - 1]
      BY <2>1
    <2>4. /\ p[k] = p[k - 1] + parts[k].seconds /\ s[k] = s[k - 1] + segments[k].seconds
          /\ parts[k].seconds \in Nat /\ segments[k].seconds \in Nat
          /\ parts[k].seconds <= segments[k].seconds
      BY <1>3, <1>4
    <2> HIDE DEF lag
    <2> QED BY <2>2, <2>3, <2>4
  <1>7. lag \in [0 .. n -> Int] /\ lag[0] = 0 /\ lag[n] = 0
    BY <1>1, <1>2, <1>5
  <1>8. SUFFICES \A k \in 0 .. n : lag[k] = 0
    BY <1>2 DEF n, p, s
  <1> HIDE DEF lag
  <1>9. \A k \in 0 .. n : lag[k] >= 0
    <2> DEFINE bad == {k \in 0 .. n : ~(lag[k] >= 0)}
    <2> SUFFICES ASSUME bad # {} PROVE FALSE
      OBVIOUS
    <2>1. PICK k \in bad : \A j \in bad : ~(j < k)
      <3>1. bad \in SUBSET Nat
        BY <1>1
      <3> HIDE DEF bad
      <3> QED BY <3>1, LeastNatural
    <2>2. k \in 1 .. n /\ k - 1 \in 0 .. n /\ k - 1 < k
      BY <1>1, <1>7, <2>1
    <2> QED BY <1>6, <1>7, <2>1, <2>2
  <1>10. \A k \in 0 .. n : lag[k] <= 0
    <2> DEFINE bad == {m \in 0 .. n : ~(lag[n - m] <= 0)}
    <2> SUFFICES bad = {}
      <3> TAKE k \in 0 .. n
      <3>1. n - k \in 0 .. n /\ n - (n - k) = k
        BY <1>1
      <3> QED BY <3>1
    <2> SUFFICES ASSUME bad # {} PROVE FALSE
      OBVIOUS
    <2>1. PICK k \in bad : \A j \in bad : ~(j < k)
      <3>1. bad \in SUBSET Nat
        BY <1>1
      <3> HIDE DEF bad
      <3> QED BY <3>1, LeastNatural
    <2>2. k # 0
      BY <1>1, <1>7, <2>1
    <2>3. k - 1 \in 0 .. n /\ k - 1 < k /\ n - (k - 1) \in 1 .. n /\ (n - (k - 1)) - 1 = n - k
          /\ n - k \in 0 .. n
      BY <1>1, <2>1, <2>2
    <2>4. lag[n - (k - 1)] <= 0
      BY <2>1, <2>3
    <2>5. lag[n - (k - 1)] >= lag[n - k]
      BY <1>6, <2>3
    <2>6. lag[n - (k - 1)] \in Int /\ lag[n - k] \in Int
      BY <1>1, <1>7, <2>3
    <2> QED BY <2>1, <2>4, <2>5, <2>6
  <1> QED BY <1>7, <1>9, <1>10

\* What is said in a cue: the words of segments i to j and of no more.
Says(segments, cue, i, j, k) ==
    /\ i <= j /\ cue[3] # ""
    /\ cue[1] = RunTime(segments)[i - 1] /\ cue[2] = RunTime(segments)[j]
    /\ \A m \in i .. j : segments[m].caption = cue[3]
    /\ i # 1 => segments[i - 1].caption # cue[3]
    /\ j # k => segments[j + 1].caption # cue[3]

\* The cues of the first k segments: each caption is in one, each says the
\* captions of a stretch of segments, and only the last ends where they do.
CuesUpTo(segments, k, cues) ==
    /\ cues \in Seq(Nat \X Nat \X Captions(segments))
    /\ \A i \in 1 .. k : segments[i].caption # "" =>
         \E c \in 1 .. Len(cues) : /\ cues[c][3] = segments[i].caption
                                   /\ cues[c][1] <= RunTime(segments)[i - 1]
                                   /\ RunTime(segments)[i] <= cues[c][2]
    /\ \A c \in 1 .. Len(cues) : \E i, j \in 1 .. k : Says(segments, cues[c], i, j, k)
    /\ \A c \in 1 .. Len(cues) : cues[c][2] = RunTime(segments)[k] => c = Len(cues)

\* The cues' ends are ends of segments.
LEMMA CuesEnd ==
    ASSUME NEW segments, Lasting(segments), NEW k \in 0 .. Len(segments),
           NEW cues, CuesUpTo(segments, k, cues), NEW c \in 1 .. Len(cues)
    PROVE  /\ cues[c] \in Nat \X Nat \X Captions(segments)
           /\ cues[c][2] <= RunTime(segments)[k]
           /\ \A i, j \in 1 .. k : Says(segments, cues[c], i, j, k) /\
                cues[c][2] = RunTime(segments)[k] => j = k
  <1>1. Len(segments) \in Nat /\ RunTime(segments) \in [0 .. Len(segments) -> Nat]
    BY ListsAre, RunTimeIs DEF Lasting, Timed
  <1>2. cues[c] \in Nat \X Nat \X Captions(segments)
    <2>1. cues \in Seq(Nat \X Nat \X Captions(segments))
      BY DEF CuesUpTo
    <2> QED BY <2>1
  <1>3. ASSUME NEW i \in 1 .. k, NEW j \in 1 .. k, Says(segments, cues[c], i, j, k)
        PROVE  cues[c][2] <= RunTime(segments)[k]
               /\ (cues[c][2] = RunTime(segments)[k] => j = k)
    <2>1. cues[c][2] = RunTime(segments)[j]
      BY <1>3 DEF Says
    <2>2. j \in 0 .. Len(segments) /\ (j < k \/ j = k)
      BY <1>1
    <2>3. j < k => RunTime(segments)[j] < RunTime(segments)[k]
      BY <2>2, TimeGoesOn
    <2>4. RunTime(segments)[j] \in Nat /\ RunTime(segments)[k] \in Nat
      BY <1>1, <2>2
    <2> QED BY <2>1, <2>2, <2>3, <2>4
  <1>4. \E i, j \in 1 .. k : Says(segments, cues[c], i, j, k)
    BY DEF CuesUpTo
  <1> QED BY <1>2, <1>3, <1>4

\* One more segment: it says nothing, what the cue before says, or a new one.
LEMMA CueTakenIs ==
    ASSUME NEW segments, Lasting(segments), NEW k \in 1 .. Len(segments),
           NEW cues, CuesUpTo(segments, k - 1, cues)
    PROVE  CuesUpTo(segments, k, CueTaken(cues, RunTime(segments)[k - 1], segments[k]))
  <1> DEFINE e == RunTime(segments)
             said == segments[k].caption
             end == Len(cues)
             taken == CueTaken(cues, e[k - 1], segments[k])
             Cue == Nat \X Nat \X Captions(segments)
  <1>1. /\ Len(segments) \in Nat /\ e \in [0 .. Len(segments) -> Nat]
        /\ k - 1 \in 0 .. Len(segments) /\ k \in 0 .. Len(segments) /\ k - 1 < k
        /\ e[k] = e[k - 1] + segments[k].seconds
    BY ListsAre, RunTimeIs DEF Lasting, Timed
  <1>2. /\ said \in Captions(segments) /\ e[k] \in Nat /\ e[k - 1] \in Nat /\ e[k - 1] < e[k]
        /\ e[k - 1] + segments[k].seconds = e[k]
    <2>1. segments[k].seconds \in Nat /\ segments[k].seconds > 0 /\ said \in Captions(segments)
      BY DEF Lasting, Timed, Captions
    <2>2. e[k] \in Nat /\ e[k - 1] \in Nat
      BY <1>1
    <2> QED BY <1>1, <2>1, <2>2
  <1>3. cues \in Seq(Cue) /\ end \in Nat /\ \A c \in 1 .. end : cues[c] \in Cue
    <2>1. cues \in Seq(Cue)
      BY DEF CuesUpTo
    <2> HIDE DEF Cue
    <2> QED BY <2>1
  <1>4. \A i \in 1 .. k : i = k \/ i \in 1 .. (k - 1)
    BY <1>1
  <1>5. \A i \in 1 .. (k - 1) : segments[i].caption # "" =>
          \E c \in 1 .. end : /\ cues[c][3] = segments[i].caption
                              /\ cues[c][1] <= e[i - 1] /\ e[i] <= cues[c][2]
    BY DEF CuesUpTo
  <1>6. \A c \in 1 .. end : \E i, j \in 1 .. (k - 1) : Says(segments, cues[c], i, j, k - 1)
    BY DEF CuesUpTo
  <1>7. \A c \in 1 .. end :
          /\ cues[c][2] <= e[k - 1]
          /\ cues[c][2] = e[k - 1] => c = end
          /\ \A i, j \in 1 .. (k - 1) : Says(segments, cues[c], i, j, k - 1) /\
               cues[c][2] = e[k - 1] => j = k - 1
    BY <1>1, CuesEnd DEF CuesUpTo
  \* A stretch that ends before the segment, or one that says something else.
  <1>8. ASSUME NEW c \in 1 .. end, NEW i \in 1 .. (k - 1), NEW j \in 1 .. (k - 1),
               Says(segments, cues[c], i, j, k - 1),
               cues[c][2] = e[k - 1] => cues[c][3] # said
        PROVE  i \in 1 .. k /\ j \in 1 .. k /\ Says(segments, cues[c], i, j, k)
    <2>1. i \in 1 .. k /\ j \in 1 .. k /\ j # k
      BY <1>1
    <2>2. j # k - 1 => segments[j + 1].caption # cues[c][3]
      BY <1>8 DEF Says
    <2>3. j = k - 1 => cues[c][2] = e[k - 1] /\ j + 1 = k
      <3>1. cues[c][2] = e[j]
        BY <1>8 DEF Says
      <3> QED BY <1>1, <3>1
    <2> QED BY <1>8, <2>1, <2>2, <2>3 DEF Says
  <1> HIDE DEF e, end
  <1>9. CASE said = ""
    <2>1. taken = cues
      BY <1>9 DEF CueTaken
    <2>2. ASSUME NEW c \in 1 .. end PROVE \E i, j \in 1 .. k : Says(segments, cues[c], i, j, k)
      <3>1. PICK i \in 1 .. (k - 1), j \in 1 .. (k - 1) : Says(segments, cues[c], i, j, k - 1)
        BY <1>6
      <3>2. cues[c][3] # said
        BY <1>9, <3>1 DEF Says
      <3> HIDE DEF said
      <3> QED BY <1>8, <3>1, <3>2
    <2>3. \A i \in 1 .. k : segments[i].caption # "" =>
            \E c \in 1 .. end : /\ cues[c][3] = segments[i].caption
                                /\ cues[c][1] <= e[i - 1] /\ e[i] <= cues[c][2]
      BY <1>4, <1>5, <1>9
    <2>4. \A c \in 1 .. end : cues[c][2] = e[k] => c = end
      <3> TAKE c \in 1 .. end
      <3>1. cues[c][2] \in Nat /\ cues[c][2] <= e[k - 1]
        BY <1>3, <1>7
      <3> QED BY <1>2, <3>1
    <2>5. CuesUpTo(segments, k, cues)
      BY <1>3, <2>2, <2>3, <2>4 DEF CuesUpTo, e, end
    <2> QED BY <2>1, <2>5 DEF e
  <1>10. CASE said # "" /\ end > 0 /\ cues[end][3] = said /\ cues[end][2] = e[k - 1]
    <2> DEFINE longer == <<cues[end][1], e[k], said>>
               more == [cues EXCEPT ![end] = longer]
    <2>1. taken = more
      BY <1>2, <1>10 DEF CueTaken, end
    <2>2. end \in 1 .. end /\ cues[end] \in Cue
      <3>1. end > 0 /\ end \in Nat
        <4> HIDE DEF Cue, said
        <4> QED BY <1>3, <1>10
      <3>2. end \in 1 .. end
        BY ONLY <3>1
      <3> QED BY <1>3, <3>2
    <2>3. longer \in Cue
      BY <1>2, <2>2
    <2>4. more \in Seq(Cue) /\ Len(more) = end
      BY <1>3, <2>2, <2>3 DEF end
    <2>5. more[end] = longer /\ \A c \in 1 .. end : c # end => more[c] = cues[c]
      BY <1>3, <2>2 DEF end
    <2>6. longer[1] = cues[end][1] /\ longer[2] = e[k] /\ longer[3] = said
      OBVIOUS
    <2> HIDE DEF longer, more
    <2>7. PICK i \in 1 .. (k - 1), j \in 1 .. (k - 1) : Says(segments, cues[end], i, j, k - 1)
      BY <1>6, <2>2
    <2>8. j = k - 1
      BY <1>7, <1>10, <2>2, <2>7
    <2>9. Says(segments, longer, i, k, k)
      <3>1. i <= k /\ cues[end][3] # "" /\ cues[end][1] = e[i - 1]
        <4>1. cues[end][3] # "" /\ cues[end][1] = e[i - 1]
          BY <2>7 DEF Says, e
        <4>2. i <= k /\ j <= k
          BY <1>1
        <4> QED BY <4>1, <4>2
      <3>2. \A m \in i .. k : segments[m].caption = said
        <4> TAKE m \in i .. k
        <4>1. m = k \/ m \in i .. j
          BY <1>1, <2>8
        <4>2. m \in i .. j => segments[m].caption = cues[end][3]
          BY <2>7 DEF Says
        <4> QED BY <1>10, <4>1, <4>2
      <3>3. i # 1 => segments[i - 1].caption # said
        BY <1>10, <2>7 DEF Says
      <3> HIDE DEF said
      <3> QED BY <1>10, <2>6, <3>1, <3>2, <3>3 DEF Says, e
    <2>10. ASSUME NEW c \in 1 .. end PROVE \E a, b \in 1 .. k : Says(segments, more[c], a, b, k)
      <3>1. CASE c = end
        <4>1. i \in 1 .. k /\ k \in 1 .. k
          BY <1>1
        <4> QED BY <2>5, <2>9, <3>1, <4>1
      <3>2. CASE c # end
        <4>1. PICK a \in 1 .. (k - 1), b \in 1 .. (k - 1) : Says(segments, cues[c], a, b, k - 1)
          BY <1>6
        <4>2. cues[c][2] # e[k - 1]
          BY <1>7, <3>2
        <4>3. a \in 1 .. k /\ b \in 1 .. k /\ Says(segments, cues[c], a, b, k)
          BY <1>8, <4>1, <4>2
        <4> QED BY <2>5, <3>2, <4>3
      <3> QED BY <3>1, <3>2
    <2>11. ASSUME NEW m \in 1 .. k, segments[m].caption # ""
           PROVE  \E c \in 1 .. end : /\ more[c][3] = segments[m].caption
                                      /\ more[c][1] <= e[m - 1] /\ e[m] <= more[c][2]
      <3>1. CASE m = k
        <4>1. cues[end][1] \in Nat /\ cues[end][1] <= e[k - 1]
          <5>1. cues[end][1] = e[i - 1] /\ i - 1 \in 0 .. Len(segments) /\ i - 1 < k - 1
            <6>1. cues[end][1] = e[i - 1]
              BY <2>7 DEF Says, e
            <6> QED BY <1>1, <6>1
          <5>2. e[i - 1] < e[k - 1]
            BY <1>1, <5>1, TimeGoesOn DEF e
          <5>3. e[i - 1] \in Nat
            BY <1>1, <5>1
          <5> QED BY <1>2, <5>1, <5>2, <5>3
        <4> QED BY <1>2, <2>2, <2>5, <2>6, <3>1, <4>1
      <3>2. CASE m # k
        <4>1. m \in 1 .. (k - 1) /\ m \in 0 .. Len(segments)
          BY <1>1, <1>4, <3>2
        <4>2. PICK c \in 1 .. end : /\ cues[c][3] = segments[m].caption
                                    /\ cues[c][1] <= e[m - 1] /\ e[m] <= cues[c][2]
          BY <1>5, <2>11, <4>1
        <4>3. CASE c # end
          BY <2>5, <4>2, <4>3
        <4>4. CASE c = end
          <5>1. e[m] < e[k]
            <6>1. k \in 0 .. Len(segments) /\ m < k
              BY <1>1, <4>1
            <6>2. m \in 0 .. Len(segments) /\ e = RunTime(segments)
              BY <4>1 DEF e
            <6>3. RunTime(segments)[m] < RunTime(segments)[k]
              BY <6>1, <6>2, TimeGoesOn
            <6> QED BY <6>2, <6>3
          <5>2. e[m] \in Nat
            BY <1>1, <4>1
          <5>3. e[m] <= e[k]
            BY <1>2, <5>1, <5>2
          <5> HIDE DEF said
          <5> QED BY <1>10, <2>2, <2>5, <2>6, <4>2, <4>4, <5>3
        <4> QED BY <4>3, <4>4
      <3> QED BY <3>1, <3>2
    <2>12. ASSUME NEW c \in 1 .. end, more[c][2] = e[k] PROVE c = end
      <3> SUFFICES ASSUME c # end PROVE FALSE
        OBVIOUS
      <3>1. cues[c] \in Cue /\ cues[c][2] <= e[k - 1] /\ more[c] = cues[c]
        BY <1>3, <1>7, <2>5
      <3>2. cues[c][2] \in Nat
        BY <3>1
      <3> HIDE DEF said, Cue
      <3> QED BY <1>2, <2>12, <3>1, <3>2
    <2>13. CuesUpTo(segments, k, more)
      BY <2>4, <2>10, <2>11, <2>12 DEF CuesUpTo, e
    <2> QED BY <2>1, <2>13 DEF e
  <1>11. CASE said # "" /\ ~(end > 0 /\ cues[end][3] = said /\ cues[end][2] = e[k - 1])
    <2> DEFINE new == <<e[k - 1], e[k], said>>
               more == Append(cues, new)
    <2>1. taken = more
      BY <1>2, <1>11 DEF CueTaken, end
    <2>2. new \in Cue /\ new[1] = e[k - 1] /\ new[2] = e[k] /\ new[3] = said
      BY <1>2
    <2> HIDE DEF new
    <2>3. /\ more \in Seq(Cue) /\ Len(more) = end + 1
          /\ more[end + 1] = new /\ \A c \in 1 .. end : more[c] = cues[c]
      BY <1>3, <2>2 DEF end
    <2>4. end + 1 \in 1 .. (end + 1) /\ \A c \in 1 .. (end + 1) : c = end + 1 \/ c \in 1 .. end
      BY <1>3
    <2>5. \A c \in 1 .. end : c \in 1 .. (end + 1)
      BY <1>3
    <2> HIDE DEF more
    <2>6. k # 1 => segments[k - 1].caption # said
      <3> SUFFICES ASSUME k # 1, segments[k - 1].caption = said PROVE FALSE
        OBVIOUS
      <3>1. k - 1 \in 1 .. (k - 1)
        BY <1>1
      <3>2. PICK c \in 1 .. end : /\ cues[c][3] = said /\ e[k - 1] <= cues[c][2]
        BY <1>5, <1>11, <3>1
      <3>3. cues[c] \in Cue /\ cues[c][2] <= e[k - 1]
        BY <1>3, <1>7
      <3>4. cues[c][2] \in Nat
        BY <3>3
      <3>5. cues[c][2] = e[k - 1]
        BY <1>2, <3>2, <3>3, <3>4
      <3>6. c = end /\ end > 0
        BY <1>3, <1>7, <3>5
      <3> QED BY <1>11, <3>2, <3>5, <3>6
    <2>7. Says(segments, new, k, k, k)
      <3>1. \A m \in k .. k : m = k
        BY <1>1
      <3>2. k <= k
        BY <1>1
      <3> QED BY <1>11, <2>2, <2>6, <3>1, <3>2 DEF Says, e
    <2>8. ASSUME NEW c \in 1 .. (end + 1) PROVE \E a, b \in 1 .. k : Says(segments, more[c], a, b, k)
      <3>1. CASE c = end + 1
        <4>1. k \in 1 .. k
          BY <1>1
        <4> QED BY <2>3, <2>7, <3>1, <4>1
      <3>2. CASE c \in 1 .. end
        <4>1. PICK a \in 1 .. (k - 1), b \in 1 .. (k - 1) : Says(segments, cues[c], a, b, k - 1)
          BY <1>6, <3>2
        <4>2. cues[c][2] = e[k - 1] => cues[c][3] # said
          <5> SUFFICES ASSUME cues[c][2] = e[k - 1], cues[c][3] = said PROVE FALSE
            OBVIOUS
          <5>1. c = end /\ end > 0
            BY <1>3, <1>7, <3>2
          <5> QED BY <1>11, <5>1
        <4>3. a \in 1 .. k /\ b \in 1 .. k /\ Says(segments, cues[c], a, b, k)
          <5> HIDE DEF said
          <5> QED BY <1>8, <3>2, <4>1, <4>2
        <4> QED BY <2>3, <3>2, <4>3
      <3> QED BY <2>4, <3>1, <3>2
    <2>9. ASSUME NEW m \in 1 .. k, segments[m].caption # ""
          PROVE  \E c \in 1 .. (end + 1) : /\ more[c][3] = segments[m].caption
                                           /\ more[c][1] <= e[m - 1] /\ e[m] <= more[c][2]
      <3>1. CASE m = k
        <4>1. /\ more[end + 1][3] = segments[m].caption
              /\ more[end + 1][1] <= e[m - 1] /\ e[m] <= more[end + 1][2]
          BY <1>2, <2>2, <2>3, <3>1
        <4> QED BY <2>4, <4>1
      <3>2. CASE m # k
        <4>1. m \in 1 .. (k - 1)
          BY <1>4, <3>2
        <4>2. PICK c \in 1 .. end : /\ cues[c][3] = segments[m].caption
                                    /\ cues[c][1] <= e[m - 1] /\ e[m] <= cues[c][2]
          BY <1>5, <2>9, <4>1
        <4> QED BY <2>3, <2>5, <4>2
      <3> QED BY <3>1, <3>2
    <2>10. ASSUME NEW c \in 1 .. (end + 1), more[c][2] = e[k] PROVE c = end + 1
      <3> SUFFICES ASSUME c \in 1 .. end PROVE FALSE
        BY <2>4
      <3>1. cues[c] \in Cue /\ cues[c][2] <= e[k - 1] /\ more[c] = cues[c]
        BY <1>3, <1>7, <2>3
      <3>2. cues[c][2] \in Nat
        BY <3>1
      <3> HIDE DEF said, Cue
      <3> QED BY <1>2, <2>10, <3>1, <3>2
    <2>11. CuesUpTo(segments, k, more)
      BY <2>3, <2>8, <2>9, <2>10 DEF CuesUpTo, e
    <2> QED BY <2>1, <2>11 DEF e
  <1> QED BY <1>9, <1>10, <1>11

\* Begins is when each segment begins.
LEMMA BeginsIs ==
    ASSUME NEW segments, Timed(segments)
    PROVE  \A i \in 1 .. Len(segments) :
             /\ Begins(segments)[i] = RunTime(segments)[i - 1]
             /\ Begins(segments)[i] \in Nat
             /\ Begins(segments)[i] + segments[i].seconds = RunTime(segments)[i]
  <1> TAKE i \in 1 .. Len(segments)
  <1>1. Begins(segments)[i] = RunTime(segments)[i - 1]
    BY DEF Begins
  <1>2. i - 1 \in 0 .. Len(segments)
    BY ListsAre DEF Timed
  <1> QED BY <1>1, <1>2, RunTimeIs

\* The cues of a timeline are those of all its segments.
LEMMA DemoCuesAre ==
    ASSUME NEW segments, Lasting(segments)
    PROVE  CuesUpTo(segments, Len(segments), DemoCues(segments))
  <1> DEFINE n == Len(segments)
             at == Begins(segments)
             D == Seq(Nat \X Nat \X Captions(segments))
             g == [k \in 1 .. n |-> [c \in D |-> CueTaken(c, at[k], segments[k])]]
  <1>1. n \in Nat
    BY ListsAre DEF Timed, Lasting
  <1>2. \A k \in 1 .. n : /\ at[k] \in Nat /\ at[k] = RunTime(segments)[k - 1]
                          /\ at[k] + segments[k].seconds \in Nat /\ segments[k].caption \in Captions(segments)
    <2>1. \A k \in 1 .. n : segments[k].seconds \in Nat /\ segments[k].caption \in Captions(segments)
      BY DEF Lasting, Timed, Captions
    <2>2. \A k \in 1 .. n : at[k] \in Nat /\ at[k] = RunTime(segments)[k - 1]
      BY BeginsIs DEF Lasting
    <2> HIDE DEF at, n
    <2> QED BY <2>1, <2>2
  <1>3. ASSUME NEW k \in 1 .. n, NEW c \in D PROVE CueTaken(c, at[k], segments[k]) \in D
    <2> DEFINE till == at[k] + segments[k].seconds
               said == segments[k].caption
               from == at[k]
    <2>1. from \in Nat /\ till \in Nat /\ said \in Captions(segments)
      BY <1>2
    <2>2. CueTaken(c, from, segments[k]) =
            IF said = "" THEN c
            ELSE IF Len(c) > 0 /\ c[Len(c)][3] = said /\ c[Len(c)][2] = from
            THEN [c EXCEPT ![Len(c)] = <<@[1], till, said>>]
            ELSE Append(c, <<from, till, said>>)
      BY DEF CueTaken
    <2> HIDE DEF till, said, from
    <2>3. <<from, till, said>> \in Nat \X Nat \X Captions(segments)
      BY <2>1
    <2>4. Append(c, <<from, till, said>>) \in D
      BY <2>3
    <2>5. ASSUME Len(c) > 0 PROVE [c EXCEPT ![Len(c)] = <<@[1], till, said>>] \in D
      <3>1. Len(c) \in Nat /\ c \in Seq(Nat \X Nat \X Captions(segments))
        OBVIOUS
      <3>2. Len(c) \in 1 .. Len(c)
        BY <2>5, <3>1
      <3>3. c[Len(c)] \in Nat \X Nat \X Captions(segments)
        BY <3>1, <3>2
      <3>4. <<c[Len(c)][1], till, said>> \in Nat \X Nat \X Captions(segments)
        BY <2>1, <3>3
      <3> DEFINE x == <<c[Len(c)][1], till, said>>
      <3>5. [c EXCEPT ![Len(c)] = x] \in Seq(Nat \X Nat \X Captions(segments))
        <4>1. x \in Nat \X Nat \X Captions(segments)
          BY <3>4
        <4> HIDE DEF x
        <4> QED BY <3>1, <3>2, <4>1
      <3>6. [c EXCEPT ![Len(c)] = <<@[1], till, said>>] = [c EXCEPT ![Len(c)] = x]
        OBVIOUS
      <3> QED BY <3>5, <3>6
    <2>6. CueTaken(c, from, segments[k]) \in D
      <3> HIDE DEF D
      <3> QED BY <2>2, <2>4, <2>5
    <2> QED BY <2>6 DEF from
  <1>4. g \in [1 .. n -> [D -> D]]
    <2> HIDE DEF n, D, at
    <2> QED BY <1>3
  <1>5. PICK f : Built(n, D, <<>>, g, f)
    <2>1. <<>> \in D
      OBVIOUS
    <2> HIDE DEF n, g, D
    <2> QED BY <1>1, <1>4, <2>1, StepByStep
  <1> DEFINE full(h) == [k \in 0 .. n |-> IF k = 0 THEN <<>>
                                          ELSE CueTaken(h[k - 1], at[k], segments[k])]
  <1>6. f = full(f)
    <2>1. f \in [0 .. n -> D] /\ f[0] = <<>>
      BY <1>5 DEF Built
    <2>2. \A k \in 1 .. n : f[k] = CueTaken(f[k - 1], at[k], segments[k])
      <3> TAKE k \in 1 .. n
      <3>1. f[k] = g[k][f[k - 1]]
        <4> HIDE DEF g, n, D
        <4> QED BY <1>5 DEF Built
      <3>2. k - 1 \in 0 .. n
        BY <1>1
      <3> HIDE DEF D, at, n
      <3> QED BY <2>1, <3>1, <3>2
    <2>3. \A k \in 0 .. n : f[k] = full(f)[k]
      <3> HIDE DEF D, at
      <3> QED BY <1>1, <2>1, <2>2
    <2> HIDE DEF n, D, at
    <2> QED BY <2>1, <2>3
  <1> DEFINE cues == CHOOSE h : h = full(h)
  <1>7. cues = full(cues)
    BY <1>6
  <1>8. DemoCues(segments) = cues[n]
    BY DEF DemoCues
  <1> HIDE DEF cues
  <1>9. cues[0] = <<>> /\ \A k \in 1 .. n : cues[k] = CueTaken(cues[k - 1], at[k], segments[k])
    <2> HIDE DEF at
    <2> QED BY <1>1, <1>7
  <1>10. \A k \in 0 .. n : CuesUpTo(segments, k, cues[k])
    <2> DEFINE bad == {k \in 0 .. n : ~CuesUpTo(segments, k, cues[k])}
    <2> SUFFICES ASSUME bad # {} PROVE FALSE
      OBVIOUS
    <2>1. PICK k \in bad : \A j \in bad : ~(j < k)
      <3>1. bad \in SUBSET Nat
        BY <1>1
      <3> HIDE DEF bad
      <3> QED BY <3>1, LeastNatural
    <2>2. k \in 0 .. n /\ ~CuesUpTo(segments, k, cues[k])
      BY <2>1
    <2>3. CASE k = 0
      <3>1. CuesUpTo(segments, 0, <<>>)
        <4>1. <<>> \in Seq(Nat \X Nat \X Captions(segments)) /\ Len(<<>>) = 0 /\ 1 .. 0 = {}
          OBVIOUS
        <4> QED BY <4>1 DEF CuesUpTo
      <3> QED BY <1>9, <2>2, <2>3, <3>1
    <2>4. CASE k # 0
      <3>1. k \in 1 .. n /\ k - 1 \in 0 .. n /\ k - 1 < k
        BY <1>1, <2>2, <2>4
      <3>2. CuesUpTo(segments, k - 1, cues[k - 1])
        BY <2>1, <3>1
      <3>3. CuesUpTo(segments, k, CueTaken(cues[k - 1], RunTime(segments)[k - 1], segments[k]))
        BY <3>1, <3>2, CueTakenIs
      <3>4. cues[k] = CueTaken(cues[k - 1], RunTime(segments)[k - 1], segments[k])
        BY <1>2, <1>9, <3>1
      <3> QED BY <2>2, <3>3, <3>4
    <2> QED BY <2>3, <2>4
  <1> HIDE DEF n
  <1>11. n \in 0 .. n
    BY <1>1
  <1> QED BY <1>8, <1>10, <1>11 DEF n

\* What a segment leaves a part of it: no other words and no more time.
PartOf(part, segment) ==
    /\ part.caption = segment.caption /\ part.panel = segment.panel
    /\ part.seconds \in Nat /\ part.seconds <= segment.seconds
    /\ part.hold \in Nat /\ part.hold <= part.seconds
    /\ part.seconds = segment.seconds => part = segment

\* Parts that are all in all as long as their segments are their segments.
LEMMA WholePartsAre ==
    ASSUME NEW segments, Timed(segments), NEW parts, Listed(parts),
           Len(parts) = Len(segments),
           \A i \in 1 .. Len(parts) : PartOf(parts[i], segments[i]),
           TimelineDuration(parts) = TimelineDuration(segments)
    PROVE  parts = segments
  <1>1. Timed(parts)
    BY DEF Timed, PartOf
  <1>2. \A i \in 1 .. Len(parts) : parts[i].seconds <= segments[i].seconds
    BY DEF PartOf
  <1>3. \A i \in 0 .. Len(parts) : RunTime(parts)[i] = RunTime(segments)[i]
    BY <1>1, <1>2, SameLengths
  <1>4. ASSUME NEW i \in 1 .. Len(parts) PROVE parts[i] = segments[i]
    <2>1. Len(parts) \in Nat
      BY ListsAre
    <2>2. i - 1 \in 0 .. Len(parts) /\ i \in 0 .. Len(parts)
      BY <2>1
    <2>3. /\ RunTime(parts)[i] = RunTime(parts)[i - 1] + parts[i].seconds
          /\ RunTime(segments)[i] = RunTime(segments)[i - 1] + segments[i].seconds
      BY <1>1, RunTimeIs
    <2>4. RunTime(parts)[i - 1] \in Nat /\ parts[i].seconds \in Nat /\ segments[i].seconds \in Nat
      BY <1>1, <2>2, RunTimeIs DEF Timed
    <2>5. parts[i].seconds = segments[i].seconds
      <3>1. /\ RunTime(parts)[i] = RunTime(segments)[i]
            /\ RunTime(parts)[i - 1] = RunTime(segments)[i - 1]
        BY <1>3, <2>2
      <3> QED BY <2>3, <2>4, <3>1
    <2> QED BY <2>5 DEF PartOf
  <1>5. parts = [i \in 1 .. Len(parts) |-> parts[i]]
    BY ListsAre
  <1>6. segments = [i \in 1 .. Len(segments) |-> segments[i]]
    BY ListsAre DEF Timed
  <1> QED BY <1>4, <1>5, <1>6

\* Parts that are all in all as long as their segments are cued as they are.
LEMMA PartsAreCued ==
    ASSUME NEW segments, Lasting(segments), NEW parts, Listed(parts),
           Len(parts) = Len(segments),
           \A i \in 1 .. Len(parts) : PartOf(parts[i], segments[i]),
           TimelineDuration(parts) = TimelineDuration(segments), NEW by
    PROVE  CaptionsAreCued([parts |-> parts, by |-> by], DemoCues(segments))
  <1> DEFINE n == Len(segments)
             cues == DemoCues(segments)
             at == Begins(parts)
             e == RunTime(segments)
  <1>1. Timed(parts) /\ Timed(segments)
    BY DEF Timed, Lasting, PartOf
  <1>2. \A i \in 0 .. n : RunTime(parts)[i] = e[i]
    <2>1. \A i \in 1 .. Len(parts) : parts[i].seconds <= segments[i].seconds
      BY DEF PartOf
    <2> QED BY <1>1, <2>1, SameLengths
  <1>3. CuesUpTo(segments, n, cues)
    BY DemoCuesAre
  <1>4. n \in Nat
    BY <1>1, ListsAre DEF Timed
  <1> HIDE DEF cues, n
  <1>5. ASSUME NEW i \in 1 .. n, parts[i].caption # ""
        PROVE  \E cue \in ToSet(cues) :
                 cue[3] = parts[i].caption /\ cue[1] <= at[i] /\ at[i] + parts[i].hold <= cue[2]
    <2>1. segments[i].caption = parts[i].caption /\ PartOf(parts[i], segments[i])
      BY DEF PartOf, n
    <2>2. PICK c \in 1 .. Len(cues) : /\ cues[c][3] = segments[i].caption
                                      /\ cues[c][1] <= e[i - 1] /\ e[i] <= cues[c][2]
      BY <1>3, <1>5, <2>1 DEF CuesUpTo
    <2>3. cues \in Seq(Nat \X Nat \X Captions(segments))
      BY <1>3 DEF CuesUpTo
    <2>4. cues[c] \in ToSet(cues) /\ cues[c] \in Nat \X Nat \X Captions(segments)
      BY <2>3 DEF ToSet
    <2>5. i - 1 \in 0 .. n /\ i \in 0 .. n
      BY <1>4
    <2>6. /\ at[i] = RunTime(parts)[i - 1] /\ at[i] \in Nat
          /\ at[i] + parts[i].seconds = RunTime(parts)[i]
      BY <1>1, BeginsIs DEF n
    <2>7. at[i] = e[i - 1] /\ at[i] + parts[i].seconds = e[i]
      BY <1>2, <2>5, <2>6
    <2>8. parts[i].hold \in Nat /\ parts[i].seconds \in Nat /\ parts[i].hold <= parts[i].seconds
      BY <2>1 DEF PartOf
    <2>9. cues[c][2] \in Nat /\ cues[c][1] \in Nat
      BY <2>4
    <2> HIDE DEF at, e
    <2>10. at[i] + parts[i].hold <= cues[c][2]
      <3>1. at[i] + parts[i].seconds <= cues[c][2]
        BY <2>2, <2>7
      <3>2. at[i] \in Nat
        BY <2>6
      <3> QED BY <2>8, <2>9, <3>1, <3>2
    <2> QED BY <2>1, <2>2, <2>4, <2>7, <2>10
  <1> QED BY <1>5 DEF CaptionsAreCued, cues, n

\* A timeline whose captions are held as long as they are seen, and fade where
\* they begin and end.
Fading(segments) ==
    \A i \in 1 .. Len(segments) : segments[i].caption # "" =>
      /\ segments[i].hold = segments[i].seconds
      /\ segments[i].fades =
           <<i = 1 \/ segments[i - 1].caption # segments[i].caption,
             i = Len(segments) \/ segments[i + 1].caption # segments[i].caption>>

LEMMA CuesAreSeenWhole ==
    ASSUME NEW segments, Lasting(segments), Fading(segments), NEW by
    PROVE  CuesAreSeen([parts |-> segments, by |-> by], DemoCues(segments))
  <1> DEFINE n == Len(segments)
             cues == DemoCues(segments)
             at == Begins(segments)
             e == RunTime(segments)
             till(i) == at[i] + segments[i].seconds
  <1>1. n \in Nat /\ e \in [0 .. n -> Nat]
    BY ListsAre, RunTimeIs DEF Timed, Lasting
  <1>2. CuesUpTo(segments, n, cues)
    BY DemoCuesAre
  <1>3. \A m \in 1 .. n : at[m] = e[m - 1] /\ till(m) = e[m]
    BY BeginsIs DEF Lasting
  <1>4. \A a, b \in 0 .. n : a < b => e[a] < e[b]
    BY TimeGoesOn
  <1>5. \A a, b \in 0 .. n : /\ e[a] < e[b] => a < b
                             /\ e[a] = e[b] => a = b
    <2> TAKE a, b \in 0 .. n
    <2>1. e[a] \in Nat /\ e[b] \in Nat /\ a \in Int /\ b \in Int
      BY <1>1
    <2>2. (a < b => e[a] < e[b]) /\ (b < a => e[b] < e[a])
      BY <1>4
    <2> HIDE DEF e, n
    <2> QED BY <2>1, <2>2
  <1> HIDE DEF cues, n, e, at
  <1>6. ASSUME NEW cue \in ToSet(cues), NEW m \in 1 .. n, at[m] < cue[2], cue[1] < till(m)
        PROVE  /\ segments[m].caption = cue[3] /\ segments[m].hold = segments[m].seconds
               /\ segments[m].fades = <<at[m] = cue[1], till(m) = cue[2]>>
    <2>1. cues \in Seq(Nat \X Nat \X Captions(segments))
      BY <1>2 DEF CuesUpTo
    <2>2. PICK c \in 1 .. Len(cues) : cue = cues[c]
      BY <2>1 DEF ToSet
    <2>3. PICK i \in 1 .. n, j \in 1 .. n : Says(segments, cue, i, j, n)
      BY <1>2, <2>2 DEF CuesUpTo
    <2>4. /\ i <= j /\ cue[3] # "" /\ cue[1] = e[i - 1] /\ cue[2] = e[j]
          /\ \A q \in i .. j : segments[q].caption = cue[3]
          /\ i # 1 => segments[i - 1].caption # cue[3]
          /\ j # n => segments[j + 1].caption # cue[3]
      BY <2>3 DEF Says, e
    <2>5. i - 1 \in 0 .. n /\ j \in 0 .. n /\ m - 1 \in 0 .. n /\ m \in 0 .. n
      BY <1>1
    <2>6. m - 1 < j /\ i - 1 < m
      <3>1. e[m - 1] < e[j] /\ e[i - 1] < e[m]
        BY <1>3, <1>6, <2>4, Zenon
      <3> QED BY <1>5, <2>5, <3>1
    <2>7. m \in i .. j
      BY <2>6
    <2>8. segments[m].caption = cue[3]
      BY <2>4, <2>7
    <2>9. (at[m] = cue[1]) <=> (m = i)
      <3>1. (e[m - 1] = e[i - 1]) <=> (m - 1 = i - 1)
        BY <1>5, <2>5
      <3>2. (m - 1 = i - 1) <=> (m = i)
        OBVIOUS
      <3> QED BY <1>3, <2>4, <3>1, <3>2
    <2>10. (till(m) = cue[2]) <=> (m = j)
      <3>1. (e[m] = e[j]) <=> (m = j)
        BY <1>5, <2>5
      <3>2. till(m) = e[m] /\ cue[2] = e[j]
        BY <1>3, <2>4
      <3> HIDE DEF till
      <3> QED BY <3>1, <3>2
    <2>11. (m = i) <=> (m = 1 \/ segments[m - 1].caption # segments[m].caption)
      <3>1. CASE m = i
        BY <2>4, <2>8, <3>1
      <3>2. CASE m # i
        <4>1. m - 1 \in i .. j /\ m # 1
          BY <2>7, <3>2
        <4> QED BY <2>4, <2>8, <3>2, <4>1
      <3> QED BY <3>1, <3>2
    <2>12. (m = j) <=> (m = n \/ segments[m + 1].caption # segments[m].caption)
      <3>1. CASE m = j
        BY <2>4, <2>8, <3>1
      <3>2. CASE m # j
        <4>1. m + 1 \in i .. j /\ m # n
          BY <1>1, <2>7, <3>2
        <4> QED BY <2>4, <2>8, <3>2, <4>1
      <3> QED BY <3>1, <3>2
    <2>13. /\ segments[m].hold = segments[m].seconds
           /\ segments[m].fades =
                <<m = 1 \/ segments[m - 1].caption # segments[m].caption,
                  m = n \/ segments[m + 1].caption # segments[m].caption>>
      BY <2>4, <2>8 DEF Fading, n
    <2>14. <<m = 1 \/ segments[m - 1].caption # segments[m].caption,
             m = n \/ segments[m + 1].caption # segments[m].caption>>
             = <<at[m] = cue[1], till(m) = cue[2]>>
      <3>1. (m = 1 \/ segments[m - 1].caption # segments[m].caption) = (at[m] = cue[1])
        BY <2>9, <2>11, Zenon
      <3>2. (m = n \/ segments[m + 1].caption # segments[m].caption) = (till(m) = cue[2])
        BY <2>10, <2>12, Zenon
      <3> HIDE DEF till
      <3> QED BY <3>1, <3>2, Zenon
    <2> HIDE DEF till
    <2> QED BY <2>8, <2>13, <2>14
  <1> QED BY <1>6 DEF CuesAreSeen, cues, n, at

\* What a segment is.
SegmentFields == {"shows", "start", "seconds", "caption", "hold", "fades", "panel"}

IsSegment(s) ==
    /\ DOMAIN s = SegmentFields /\ s = [f \in SegmentFields |-> s[f]]
    /\ s.start \in Nat /\ s.seconds \in Nat /\ s.seconds > 0
    /\ s.hold \in Nat /\ s.hold <= s.seconds
    /\ s.panel \notin {"name", "plate", "nothing"}

Laid(segments) == Listed(segments) /\ \A i \in 1 .. Len(segments) : IsSegment(segments[i])

LEMMA LaidLasts ==
    ASSUME NEW segments, Laid(segments)
    PROVE  Lasting(segments)
  BY DEF Laid, Lasting, Timed, IsSegment

LEMMA SegmentIs ==
    ASSUME NEW shows, NEW start \in Nat, NEW seconds \in Nat, seconds > 0, NEW caption
    PROVE  IsSegment(Segment(shows, start, seconds, caption))
  <1> DEFINE s == Segment(shows, start, seconds, caption)
  <1>1. DOMAIN s = SegmentFields /\ s = [f \in SegmentFields |-> s[f]]
    BY DEF Segment, SegmentFields
  <1>2. /\ s.start = start /\ s.seconds = seconds /\ s.caption = caption
        /\ s.hold = seconds /\ s.panel = "none"
    BY DEF Segment
  <1> HIDE DEF s
  <1>3. IsSegment(s)
    BY <1>1, <1>2 DEF IsSegment
  <1> QED BY <1>3 DEF s

\* The first version's script lasts as long as a demo does.
LEMMA Timeline1Is ==
    ASSUME NEW start \in Nat
    PROVE  Laid(Timeline1(start)) /\ TimelineDuration(Timeline1(start)) = DemoTotal
  <1> DEFINE t == Timeline1(start)
             close == [OfFilm(start + 180, 34, "close") EXCEPT !.hold = 16]
             a1 == OfFilm(start, 40, "problem")
             a2 == OfFilm(start + 40, 50, "evidence")
             a3 == OfFilm(start + 90, 40, "clock")
             a4 == Still(30, "")
             a6 == Still(50, "figures")
             a7 == OfFilm(start + 130, 50, "gemini")
  <1>1. t = <<a1, a2, a3, a4, a4, a6, a7, a4, close>>
    BY DEF Timeline1
  <1>2. /\ IsSegment(a1) /\ IsSegment(a2) /\ IsSegment(a3) /\ IsSegment(a4)
        /\ IsSegment(a6) /\ IsSegment(a7)
    <2>1. IsSegment(a1) /\ IsSegment(a2) /\ IsSegment(a3) /\ IsSegment(a7)
      <3>1. /\ start \in Nat /\ start + 40 \in Nat /\ start + 90 \in Nat /\ start + 130 \in Nat
            /\ 40 \in Nat /\ 50 \in Nat /\ 40 > 0 /\ 50 > 0
        OBVIOUS
      <3> QED BY <3>1, SegmentIs, Zenon DEF OfFilm
    <2>2. IsSegment(a4) /\ IsSegment(a6)
      <3>1. 0 \in Nat /\ 30 \in Nat /\ 50 \in Nat /\ 30 > 0 /\ 50 > 0
        OBVIOUS
      <3> QED BY <3>1, SegmentIs, Zenon DEF Still
    <2> QED BY <2>1, <2>2
  <1>3. /\ a1.seconds = 40 /\ a2.seconds = 50 /\ a3.seconds = 40 /\ a4.seconds = 30
        /\ a6.seconds = 50 /\ a7.seconds = 50
    BY DEF OfFilm, Still, Segment
  <1>4. IsSegment(close) /\ close.seconds = 34
    <2> DEFINE s == OfFilm(start + 180, 34, "close")
    <2>1. IsSegment(s) /\ s.seconds = 34
      <3>1. IsSegment(s)
        <4>1. start + 180 \in Nat /\ 34 \in Nat /\ 34 > 0
          OBVIOUS
        <4> QED BY <4>1, SegmentIs, Zenon DEF OfFilm
      <3> QED BY <3>1 DEF OfFilm, Segment
    <2>2. close = [s EXCEPT !.hold = 16]
      OBVIOUS
    <2> HIDE DEF s, close
    <2>3. /\ DOMAIN close = SegmentFields /\ close = [f \in SegmentFields |-> close[f]]
          /\ close.hold = 16
      BY <2>1, <2>2 DEF IsSegment, SegmentFields
    <2>4. /\ close.start = s.start /\ close.seconds = s.seconds /\ close.caption = s.caption
          /\ close.panel = s.panel
      BY <2>1, <2>2 DEF IsSegment, SegmentFields
    <2> QED BY <2>1, <2>3, <2>4 DEF IsSegment
  <1> HIDE DEF a1, a2, a3, a4, a6, a7, close, t
  <1>5. t \in Seq({a1, a2, a3, a4, a6, a7, close}) /\ Len(t) = 9
    BY <1>1
  <1>6. /\ t[1] = a1 /\ t[2] = a2 /\ t[3] = a3 /\ t[4] = a4 /\ t[5] = a4 /\ t[6] = a6
        /\ t[7] = a7 /\ t[8] = a4 /\ t[9] = close
    BY <1>1
  <1>7. Listed(t)
    BY <1>5 DEF Listed
  <1>8. \A i \in 1 .. 9 : t[i] \in {a1, a2, a3, a4, a6, a7, close}
    BY <1>5, <1>6
  <1>9. Laid(t)
    BY <1>2, <1>4, <1>5, <1>7, <1>8 DEF Laid
  <1>10. Timed(t)
    BY <1>9, LaidLasts DEF Lasting
  <1> DEFINE e == RunTime(t)
  <1>11. e[0] = 0 /\ \A k \in 1 .. 9 : e[k] = e[k - 1] + t[k].seconds
    BY <1>5, <1>10, RunTimeIs
  <1> HIDE DEF e
  <1>12. e[1] = 40
    BY <1>3, <1>6, <1>11
  <1>13. e[2] = 90
    BY <1>3, <1>6, <1>11, <1>12
  <1>14. e[3] = 130
    BY <1>3, <1>6, <1>11, <1>13
  <1>15. e[4] = 160
    BY <1>3, <1>6, <1>11, <1>14
  <1>16. e[5] = 190
    BY <1>3, <1>6, <1>11, <1>15
  <1>17. e[6] = 240
    BY <1>3, <1>6, <1>11, <1>16
  <1>18. e[7] = 290
    BY <1>3, <1>6, <1>11, <1>17
  <1>19. e[8] = 320
    BY <1>3, <1>6, <1>11, <1>18
  <1>20. e[9] = 354
    BY <1>4, <1>6, <1>11, <1>19
  <1> QED BY <1>5, <1>9, <1>20 DEF TimelineDuration, DemoTotal, e, t

\* Three lists behind one another.
LEMMA ThreeLists ==
    ASSUME NEW a, NEW b, NEW c, Listed(a), Listed(b), Listed(c)
    PROVE  /\ Listed(a \o b \o c) /\ Len(a \o b \o c) = Len(a) + Len(b) + Len(c)
           /\ \A i \in 1 .. Len(a) : (a \o b \o c)[i] = a[i]
           /\ \A i \in 1 .. Len(b) : (a \o b \o c)[Len(a) + i] = b[i]
           /\ \A i \in 1 .. Len(c) : (a \o b \o c)[Len(a) + Len(b) + i] = c[i]
  <1> PICK A : a \in Seq(A)
    BY DEF Listed
  <1> PICK B : b \in Seq(B)
    BY DEF Listed
  <1> PICK C : c \in Seq(C)
    BY DEF Listed
  <1> DEFINE S == A \cup B \cup C
  <1>1. a \in Seq(S) /\ b \in Seq(S) /\ c \in Seq(S)
    OBVIOUS
  <1> HIDE DEF S
  <1>2. /\ a \o b \in Seq(S) /\ Len(a \o b) = Len(a) + Len(b)
        /\ Len(a) \in Nat /\ Len(b) \in Nat /\ Len(c) \in Nat
        /\ \A i \in 1 .. Len(a) : (a \o b)[i] = a[i]
        /\ \A i \in 1 .. Len(b) : (a \o b)[Len(a) + i] = b[i]
    BY <1>1
  <1> DEFINE ab == a \o b
  <1> HIDE DEF ab
  <1>3. ab \in Seq(S)
    BY <1>2 DEF ab
  <1>4. /\ ab \o c \in Seq(S) /\ Len(ab \o c) = Len(ab) + Len(c)
        /\ \A i \in 1 .. Len(ab) : (ab \o c)[i] = ab[i]
        /\ \A i \in 1 .. Len(c) : (ab \o c)[Len(ab) + i] = c[i]
    BY <1>1, <1>3
  <1>5. /\ \A i \in 1 .. Len(a) : i \in 1 .. (Len(a) + Len(b))
        /\ \A i \in 1 .. Len(b) : Len(a) + i \in 1 .. (Len(a) + Len(b))
    BY <1>2
  <1>6. \A i \in 1 .. Len(a) : (ab \o c)[i] = a[i]
    BY <1>2, <1>4, <1>5 DEF ab
  <1>7. \A i \in 1 .. Len(b) : (ab \o c)[Len(a) + i] = b[i]
    BY <1>2, <1>4, <1>5 DEF ab
  <1>8. Listed(ab \o c)
    BY <1>4 DEF Listed
  <1> QED BY <1>2, <1>4, <1>6, <1>7, <1>8 DEF ab

\* The judged windows share their scene, none for no time.
LEMMA ShareIs == SceneSeconds[7] \div JudgedCount \in Nat /\ SceneSeconds[7] \div JudgedCount > 0
  <1> DEFINE q == 60 \div JudgedCount
             r == 60 % JudgedCount
  <1>1. JudgedCount \in 1 .. 60
    BY JudgedAssumption DEF SceneSeconds
  <1>2. q \in Int /\ r \in Int /\ 60 = JudgedCount * q + r /\ 0 <= r /\ r < JudgedCount
    BY <1>1
  <1> HIDE DEF q, r
  <1>3. q <= 0 => JudgedCount * q <= 0
    BY <1>1, <1>2
  <1>4. JudgedCount * q \in Int
    BY <1>1, <1>2
  <1>5. q > 0
    BY <1>1, <1>2, <1>3, <1>4
  <1> QED BY <1>2, <1>5 DEF SceneSeconds, q

\* The scenes of the second version before the judged windows and after them.
Before(opening) ==
    <<OfFilm(opening, SceneSeconds[1], "made-by"),
      Segment("copies", 0, SceneSeconds[2], "mosaic"),
      Segment("copies", 0, SceneSeconds[3], "single"),
      Still(SceneSeconds[4], "chapters"), Still(SceneSeconds[5], "copies"),
      Still(SceneSeconds[6], "cost")>>
After(result) ==
    <<Still(SceneSeconds[8], "planner"), OfFilm(result, ResultFramed, "result"),
      OfFilm(result + ResultFramed, ResultFullScreen, ""), Still(SceneSeconds[10], "close")>>

\* A segment that stands for itself: it is held and fades.
Plain(s, shows, start, seconds, caption) ==
    /\ IsSegment(s) /\ s.shows = shows /\ s.start = start /\ s.seconds = seconds
    /\ s.caption = caption /\ s.hold = seconds /\ s.fades = <<TRUE, TRUE>>

LEMMA PlainIs ==
    ASSUME NEW shows, NEW start \in Nat, NEW seconds \in Nat, seconds > 0, NEW caption
    PROVE  Plain(Segment(shows, start, seconds, caption), shows, start, seconds, caption)
  <1>1. IsSegment(Segment(shows, start, seconds, caption))
    BY SegmentIs
  <1> QED BY <1>1 DEF Plain, Segment

LEMMA BeforeIs ==
    ASSUME NEW opening \in Nat
    PROVE  /\ Listed(Before(opening)) /\ Len(Before(opening)) = 6
           /\ Plain(Before(opening)[1], "film", opening, 16, "made-by")
           /\ Plain(Before(opening)[2], "copies", 0, 24, "mosaic")
           /\ Plain(Before(opening)[3], "copies", 0, 24, "single")
           /\ Plain(Before(opening)[4], "still", 0, 30, "chapters")
           /\ Plain(Before(opening)[5], "still", 0, 36, "copies")
           /\ Plain(Before(opening)[6], "still", 0, 30, "cost")
  <1> DEFINE a1 == Segment("film", opening, 16, "made-by")
             a2 == Segment("copies", 0, 24, "mosaic")
             a3 == Segment("copies", 0, 24, "single")
             a4 == Segment("still", 0, 30, "chapters")
             a5 == Segment("still", 0, 36, "copies")
             a6 == Segment("still", 0, 30, "cost")
  <1>1. /\ Plain(a1, "film", opening, 16, "made-by") /\ Plain(a2, "copies", 0, 24, "mosaic")
        /\ Plain(a3, "copies", 0, 24, "single") /\ Plain(a4, "still", 0, 30, "chapters")
        /\ Plain(a5, "still", 0, 36, "copies") /\ Plain(a6, "still", 0, 30, "cost")
    <2>1. /\ 0 \in Nat /\ 16 \in Nat /\ 24 \in Nat /\ 30 \in Nat /\ 36 \in Nat
          /\ 16 > 0 /\ 24 > 0 /\ 30 > 0 /\ 36 > 0
      OBVIOUS
    <2> QED BY <2>1, PlainIs, Zenon
  <1>2. Before(opening) = <<a1, a2, a3, a4, a5, a6>>
    BY DEF Before, OfFilm, Still, SceneSeconds
  <1> HIDE DEF a1, a2, a3, a4, a5, a6
  <1> DEFINE s == <<a1, a2, a3, a4, a5, a6>>
  <1>3. /\ s \in Seq({a1, a2, a3, a4, a5, a6}) /\ Len(s) = 6
        /\ s[1] = a1 /\ s[2] = a2 /\ s[3] = a3 /\ s[4] = a4 /\ s[5] = a5 /\ s[6] = a6
    OBVIOUS
  <1> HIDE DEF s
  <1>4. Before(opening) = s
    BY <1>2 DEF s
  <1>5. Listed(s)
    BY <1>3 DEF Listed
  <1> QED BY <1>1, <1>3, <1>4, <1>5

LEMMA AfterIs ==
    ASSUME NEW result \in Nat
    PROVE  /\ Listed(After(result)) /\ Len(After(result)) = 4
           /\ Plain(After(result)[1], "still", 0, 30, "planner")
           /\ Plain(After(result)[2], "film", result, 60, "result")
           /\ Plain(After(result)[3], "film", result + 60, 20, "")
           /\ Plain(After(result)[4], "still", 0, 24, "close")
  <1> DEFINE a1 == Segment("still", 0, 30, "planner")
             a2 == Segment("film", result, 60, "result")
             a3 == Segment("film", result + 60, 20, "")
             a4 == Segment("still", 0, 24, "close")
  <1>1. /\ Plain(a1, "still", 0, 30, "planner") /\ Plain(a2, "film", result, 60, "result")
        /\ Plain(a3, "film", result + 60, 20, "") /\ Plain(a4, "still", 0, 24, "close")
    <2>1. /\ 0 \in Nat /\ 60 \in Nat /\ 24 \in Nat /\ 30 \in Nat /\ 20 \in Nat
          /\ 20 > 0 /\ 24 > 0 /\ 30 > 0 /\ 60 > 0 /\ result + 60 \in Nat
      OBVIOUS
    <2> QED BY <2>1, PlainIs, Zenon
  <1>2. After(result) = <<a1, a2, a3, a4>>
    BY DEF After, OfFilm, Still, SceneSeconds, ResultFramed, ResultFullScreen
  <1> HIDE DEF a1, a2, a3, a4
  <1> DEFINE s == <<a1, a2, a3, a4>>
  <1>3. /\ s \in Seq({a1, a2, a3, a4}) /\ Len(s) = 4
        /\ s[1] = a1 /\ s[2] = a2 /\ s[3] = a3 /\ s[4] = a4
    OBVIOUS
  <1> HIDE DEF s
  <1>4. After(result) = s
    BY <1>2 DEF s
  <1>5. Listed(s)
    BY <1>3 DEF Listed
  <1> QED BY <1>1, <1>3, <1>4, <1>5

\* What is said of a judged window, but for what its panel says, which the
\* preflight looks at.
LEMMA JudgedIs ==
    ASSUME NEW given, NEW says
    PROVE  /\ Listed(JudgedScene(given, says)) /\ Len(JudgedScene(given, says)) = JudgedCount
           /\ \A i \in 1 .. JudgedCount : LET s == JudgedScene(given, says)[i] IN
                /\ s.panel = says[given.judged[i]]
                /\ s.panel \notin {"name", "plate", "nothing"} => IsSegment(s)
                /\ s.shows = "copies" /\ s.caption = "judged" /\ s.hold = s.seconds
                /\ s.fades = <<i = 1, i = JudgedCount>>
  <1> DEFINE j == JudgedScene(given, says)
             q == SceneSeconds[7] \div JudgedCount
             base == Segment("copies", 0, q, "judged")
             one(i) == [base EXCEPT !.fades = <<i = 1, i = JudgedCount>>,
                                    !.panel = says[given.judged[i]]]
             S == {one(i) : i \in 1 .. JudgedCount}
  <1>1. j = [i \in 1 .. JudgedCount |-> one(i)]
    BY DEF JudgedScene
  <1>2. Plain(base, "copies", 0, q, "judged")
    <2>1. 0 \in Nat /\ q \in Nat /\ q > 0
      BY ShareIs
    <2> HIDE DEF q
    <2> QED BY <2>1, PlainIs
  <1>3. JudgedCount \in Nat
    BY JudgedAssumption DEF SceneSeconds
  <1>4. j \in Seq(S) /\ Len(j) = JudgedCount
    <2>1. j \in [1 .. JudgedCount -> S]
      <3>1. \A i \in 1 .. JudgedCount : one(i) \in S
        OBVIOUS
      <3> HIDE DEF one, S
      <3> QED BY <1>1, <3>1
    <2> HIDE DEF j, S
    <2> QED BY <1>3, <2>1
  <1> HIDE DEF base, j, q
  <1>5. ASSUME NEW i \in 1 .. JudgedCount
        PROVE  LET s == j[i] IN
                /\ s.panel = says[given.judged[i]]
                /\ s.panel \notin {"name", "plate", "nothing"} => IsSegment(s)
                /\ s.shows = "copies" /\ s.caption = "judged" /\ s.hold = s.seconds
                /\ s.fades = <<i = 1, i = JudgedCount>>
    <2> DEFINE f == <<i = 1, i = JudgedCount>>
               p == says[given.judged[i]]
               s == one(i)
    <2>1. s = [base EXCEPT !.fades = f, !.panel = p]
      OBVIOUS
    <2>2. IsSegment(base)
      BY <1>2 DEF Plain
    <2> HIDE DEF f, p, s
    <2>3. DOMAIN base = SegmentFields
      BY <2>2 DEF IsSegment
    <2>4. DOMAIN s = SegmentFields /\ s = [x \in SegmentFields |-> s[x]]
      BY <2>1, <2>3
    <2>5. s.fades = f /\ s.panel = p
      BY <2>1, <2>3 DEF SegmentFields
    <2>6. /\ s.shows = base.shows /\ s.start = base.start /\ s.seconds = base.seconds
          /\ s.caption = base.caption /\ s.hold = base.hold
      BY <2>1, <2>3 DEF SegmentFields
    <2>7. p \notin {"name", "plate", "nothing"} => IsSegment(s)
      BY <2>2, <2>4, <2>5, <2>6 DEF IsSegment
    <2>8. s.shows = "copies" /\ s.caption = "judged" /\ s.hold = s.seconds
      BY <1>2, <2>6 DEF Plain
    <2>9. j[i] = s
      BY <1>1 DEF s
    <2> QED BY <2>5, <2>7, <2>8, <2>9 DEF f, p
  <1>6. Listed(j)
    BY <1>4 DEF Listed
  <1> QED BY <1>4, <1>5, <1>6 DEF j

\* The second version's ten scenes: each caption fades where it begins and
\* ends, and the judged windows are under one.
LEMMA Timeline2Is ==
    ASSUME NEW given, NEW says, NEW opening \in Nat, NEW result \in Nat,
           given.judged \in Seq(ToSet(given.judged)), InputsRead(given),
           LoadJudgements(says, EventIds(given)),
           NothingPrivate(Timeline2(given, says, opening, result))
    PROVE  LET t == Timeline2(given, says, opening, result) IN
           /\ Laid(t) /\ Fading(t)
           /\ \A i \in 1 .. Len(t) : t[i].shows = "film" =>
                \/ t[i].start = opening /\ t[i].seconds = 16
                \/ t[i].start = result /\ t[i].seconds = 60
                \/ t[i].start = result + 60 /\ t[i].seconds = 20
  <1> DEFINE t == Timeline2(given, says, opening, result)
             a == Before(opening)
             j == JudgedScene(given, says)
             c == After(result)
             n == JudgedCount
  <1>1. t = a \o j \o c
    BY DEF Timeline2, Before, After
  <1>2. n \in Nat /\ n >= 1
    BY JudgedAssumption DEF SceneSeconds
  <1>3. /\ Listed(a) /\ Len(a) = 6 /\ Listed(j) /\ Len(j) = n /\ Listed(c) /\ Len(c) = 4
    <2>1. Listed(a) /\ Len(a) = 6
      BY BeforeIs
    <2>2. Listed(j) /\ Len(j) = n
      BY JudgedIs
    <2>3. Listed(c) /\ Len(c) = 4
      BY AfterIs
    <2> QED BY <2>1, <2>2, <2>3
  <1>4. /\ Listed(t) /\ Len(t) = 6 + n + 4
        /\ \A i \in 1 .. 6 : t[i] = a[i]
        /\ \A i \in 1 .. n : t[6 + i] = j[i]
        /\ \A i \in 1 .. 4 : t[6 + n + i] = c[i]
    <2> HIDE DEF a, j, c, n, t
    <2>1. /\ Listed(t) /\ Len(t) = Len(a) + Len(j) + Len(c)
          /\ \A i \in 1 .. Len(a) : t[i] = a[i]
          /\ \A i \in 1 .. Len(j) : t[Len(a) + i] = j[i]
          /\ \A i \in 1 .. Len(c) : t[Len(a) + Len(j) + i] = c[i]
      <3> DEFINE u == a \o j \o c
      <3>1. /\ Listed(u) /\ Len(u) = Len(a) + Len(j) + Len(c)
            /\ \A i \in 1 .. Len(a) : u[i] = a[i]
            /\ \A i \in 1 .. Len(j) : u[Len(a) + i] = j[i]
            /\ \A i \in 1 .. Len(c) : u[Len(a) + Len(j) + i] = c[i]
        <4>1. Listed(a) /\ Listed(j) /\ Listed(c)
          BY <1>3
        <4> HIDE DEF u
        <4>2. u = a \o j \o c
          BY DEF u
        <4> QED BY <4>1, <4>2, ThreeLists
      <3> HIDE DEF u
      <3>2. t = u
        BY <1>1 DEF u
      <3> QED BY <3>1, <3>2
    <2> QED BY <1>3, <2>1
  <1>5. /\ Plain(t[1], "film", opening, 16, "made-by") /\ Plain(t[2], "copies", 0, 24, "mosaic")
        /\ Plain(t[3], "copies", 0, 24, "single") /\ Plain(t[4], "still", 0, 30, "chapters")
        /\ Plain(t[5], "still", 0, 36, "copies") /\ Plain(t[6], "still", 0, 30, "cost")
    <2>1. t[1] = a[1] /\ t[2] = a[2] /\ t[3] = a[3] /\ t[4] = a[4] /\ t[5] = a[5] /\ t[6] = a[6]
      <3> HIDE DEF a, t
      <3> QED BY <1>4
    <2> HIDE DEF t
    <2> QED BY <2>1, BeforeIs
  <1>6. /\ Plain(t[7 + n], "still", 0, 30, "planner") /\ Plain(t[8 + n], "film", result, 60, "result")
        /\ Plain(t[9 + n], "film", result + 60, 20, "") /\ Plain(t[10 + n], "still", 0, 24, "close")
    <2>1. t[7 + n] = c[1] /\ t[8 + n] = c[2] /\ t[9 + n] = c[3] /\ t[10 + n] = c[4]
      <3> HIDE DEF c, t, n
      <3>1. /\ t[6 + n + 1] = c[1] /\ t[6 + n + 2] = c[2] /\ t[6 + n + 3] = c[3]
            /\ t[6 + n + 4] = c[4]
        BY <1>4
      <3>2. 6 + n + 1 = 7 + n /\ 6 + n + 2 = 8 + n /\ 6 + n + 3 = 9 + n /\ 6 + n + 4 = 10 + n
        BY <1>2
      <3> QED BY <3>1, <3>2
    <2> HIDE DEF t
    <2> QED BY <2>1, AfterIs
  <1>7. ASSUME NEW i \in 1 .. n
        PROVE  /\ IsSegment(t[6 + i]) /\ t[6 + i].shows = "copies"
               /\ t[6 + i].caption = "judged" /\ t[6 + i].hold = t[6 + i].seconds
               /\ t[6 + i].fades = <<i = 1, i = n>>
    <2>1. t[6 + i] = j[i]
      <3> HIDE DEF t, j, n
      <3> QED BY <1>4
    <2>2. /\ j[i].panel = says[given.judged[i]]
          /\ j[i].panel \notin {"name", "plate", "nothing"} => IsSegment(j[i])
          /\ j[i].shows = "copies" /\ j[i].caption = "judged" /\ j[i].hold = j[i].seconds
          /\ j[i].fades = <<i = 1, i = n>>
      BY JudgedIs
    <2>3. given.judged[i] \in ToSet(given.judged)
      BY DEF InputsRead
    <2>4. j[i].panel \notin {"plate", "nothing"}
      BY <2>2, <2>3 DEF LoadJudgements, EventIds
    <2>5. j[i].panel # "name"
      <3>1. 6 + i \in DOMAIN t
        <4>1. 6 + i \in 1 .. Len(t)
          <5> HIDE DEF t, n
          <5> QED BY <1>2, <1>4
        <4> HIDE DEF t
        <4> QED BY <1>4, <4>1, ListsAre
      <3>2. t[6 + i].panel \in OnScreenTexts(t)
        <4> HIDE DEF t
        <4> QED BY <3>1 DEF OnScreenTexts, ToSet
      <3>3. "name" \notin OnScreenTexts(t)
        BY DEF NothingPrivate
      <3> HIDE DEF t, j
      <3> QED BY <2>1, <3>2, <3>3
    <2> HIDE DEF t, j, n
    <2> QED BY <2>1, <2>2, <2>4, <2>5
  <1> HIDE DEF t, a, j, c, n
  <1>8. \A i \in 1 .. Len(t) :
          \/ i = 1 \/ i = 2 \/ i = 3 \/ i = 4 \/ i = 5 \/ i = 6
          \/ \E k \in 1 .. n : i = 6 + k
          \/ i = 7 + n \/ i = 8 + n \/ i = 9 + n \/ i = 10 + n
    <2> TAKE i \in 1 .. Len(t)
    <2>1. i \in Nat /\ i >= 1 /\ i <= 10 + n
      BY <1>2, <1>4
    <2>2. CASE i > 6 /\ i <= 6 + n
      <3>1. i - 6 \in 1 .. n /\ i = 6 + (i - 6)
        BY <1>2, <2>1, <2>2
      <3> QED BY <3>1
    <2>3. CASE ~(i > 6 /\ i <= 6 + n)
      BY <1>2, <2>1, <2>3
    <2> QED BY <2>2, <2>3
  <1>9. \A i \in 1 .. Len(t) : IsSegment(t[i])
    BY <1>5, <1>6, <1>7, <1>8 DEF Plain
  <1>10. Laid(t)
    BY <1>4, <1>9 DEF Laid
  \* Next to a plain segment is none that says the same.
  <1>11. /\ t[1].caption = "made-by" /\ t[2].caption = "mosaic" /\ t[3].caption = "single"
         /\ t[4].caption = "chapters" /\ t[5].caption = "copies" /\ t[6].caption = "cost"
         /\ t[7 + n].caption = "planner" /\ t[8 + n].caption = "result"
         /\ t[9 + n].caption = "" /\ t[10 + n].caption = "close"
         /\ \A k \in 1 .. n : t[6 + k].caption = "judged"
    BY <1>5, <1>6, <1>7 DEF Plain
  <1>12. /\ t[7].caption = "judged" /\ t[6 + n].caption = "judged"
    <2>1. 1 \in 1 .. n /\ n \in 1 .. n /\ 6 + 1 = 7
      BY <1>2
    <2>2. t[6 + 1].caption = "judged"
      BY <1>11, <2>1
    <2> QED BY <1>11, <2>1, <2>2
  <1> DEFINE apart(i) == /\ i = 1 \/ t[i - 1].caption # t[i].caption
                         /\ i = Len(t) \/ t[i + 1].caption # t[i].caption
  <1>13. /\ apart(1) /\ apart(2) /\ apart(3) /\ apart(4) /\ apart(5) /\ apart(6)
         /\ apart(7 + n) /\ apart(8 + n) /\ apart(10 + n)
    <2>1. apart(1) /\ apart(2) /\ apart(3) /\ apart(4) /\ apart(5) /\ apart(6)
      <3>1. 2 - 1 = 1 /\ 3 - 1 = 2 /\ 4 - 1 = 3 /\ 5 - 1 = 4 /\ 6 - 1 = 5
            /\ 1 + 1 = 2 /\ 2 + 1 = 3 /\ 3 + 1 = 4 /\ 4 + 1 = 5 /\ 5 + 1 = 6 /\ 6 + 1 = 7
        OBVIOUS
      <3>2. apart(1) /\ apart(2)
        BY <1>11, <3>1
      <3>3. apart(3) /\ apart(4)
        BY <1>11, <3>1
      <3>4. apart(5) /\ apart(6)
        BY <1>11, <1>12, <3>1
      <3> QED BY <3>2, <3>3, <3>4
    <2>2. /\ (7 + n) - 1 = 6 + n /\ (7 + n) + 1 = 8 + n /\ (8 + n) - 1 = 7 + n
          /\ (8 + n) + 1 = 9 + n /\ (10 + n) - 1 = 9 + n /\ 10 + n = Len(t)
      BY <1>2, <1>4
    <2>3. apart(7 + n)
      BY <1>11, <1>12, <2>2
    <2>4. apart(8 + n)
      BY <1>11, <2>2
    <2>5. apart(10 + n)
      BY <1>11, <2>2
    <2> QED BY <2>1, <2>3, <2>4, <2>5
  <1>14. ASSUME NEW i \in 1 .. Len(t), t[i].caption # ""
         PROVE  /\ t[i].hold = t[i].seconds
                /\ t[i].fades = <<i = 1 \/ t[i - 1].caption # t[i].caption,
                                  i = Len(t) \/ t[i + 1].caption # t[i].caption>>
    <2>1. CASE \E k \in 1 .. n : i = 6 + k
      <3>1. PICK k \in 1 .. n : i = 6 + k
        BY <2>1
      <3>2. /\ t[i].caption = "judged" /\ t[i].hold = t[i].seconds
            /\ t[i].fades = <<k = 1, k = n>>
        BY <1>7, <3>1
      <3>3. (k = 1) = (i = 1 \/ t[i - 1].caption # t[i].caption)
        <4>1. i # 1
          BY <1>2, <3>1
        <4>2. CASE k = 1
          <5>1. i - 1 = 6
            BY <3>1, <4>2
          <5> QED BY <1>11, <3>2, <4>2, <5>1
        <4>3. CASE k # 1
          <5>1. k - 1 \in 1 .. n /\ i - 1 = 6 + (k - 1)
            BY <1>2, <3>1, <4>3
          <5>2. t[i - 1].caption = "judged"
            BY <1>11, <5>1
          <5> QED BY <3>2, <4>1, <4>3, <5>2
        <4> QED BY <4>2, <4>3
      <3>4. (k = n) = (i = Len(t) \/ t[i + 1].caption # t[i].caption)
        <4>1. i # Len(t)
          BY <1>2, <1>4, <3>1
        <4>2. CASE k = n
          <5>1. i + 1 = 7 + n
            BY <1>2, <3>1, <4>2
          <5> QED BY <1>11, <3>2, <4>2, <5>1
        <4>3. CASE k # n
          <5>1. k + 1 \in 1 .. n /\ i + 1 = 6 + (k + 1)
            BY <1>2, <3>1, <4>3
          <5>2. t[i + 1].caption = "judged"
            BY <1>11, <5>1
          <5> QED BY <3>2, <4>1, <4>3, <5>2
        <4> QED BY <4>2, <4>3
      <3> QED BY <3>2, <3>3, <3>4, Zenon
    <2>2. CASE ~\E k \in 1 .. n : i = 6 + k
      <3>1. apart(i) /\ t[i].hold = t[i].seconds /\ t[i].fades = <<TRUE, TRUE>>
        <4>1. i # 9 + n
          BY <1>11, <1>14
        <4>2. \/ i = 1 \/ i = 2 \/ i = 3 \/ i = 4 \/ i = 5 \/ i = 6
              \/ i = 7 + n \/ i = 8 + n \/ i = 10 + n
          BY <1>8, <2>2, <4>1
        <4>3. t[i].hold = t[i].seconds /\ t[i].fades = <<TRUE, TRUE>>
          <5> DEFINE held(s) == s.hold = s.seconds /\ s.fades = <<TRUE, TRUE>>
          <5>1. /\ held(t[1]) /\ held(t[2]) /\ held(t[3]) /\ held(t[4]) /\ held(t[5])
                /\ held(t[6]) /\ held(t[7 + n]) /\ held(t[8 + n]) /\ held(t[10 + n])
            BY <1>5, <1>6 DEF Plain
          <5> QED BY <4>2, <5>1, Zenon
        <4>4. apart(i)
          <5> HIDE DEF apart
          <5> QED BY <1>13, <4>2, Zenon
        <4> QED BY <4>3, <4>4
      <3>2. (i = 1 \/ t[i - 1].caption # t[i].caption) = TRUE
        BY <3>1, Zenon
      <3>3. (i = Len(t) \/ t[i + 1].caption # t[i].caption) = TRUE
        BY <3>1, Zenon
      <3> HIDE DEF apart
      <3> QED BY <3>1, <3>2, <3>3, Zenon
    <2> QED BY <2>1, <2>2
  <1>15. Fading(t)
    BY <1>14 DEF Fading
  <1>16. \A i \in 1 .. Len(t) : t[i].shows = "film" =>
           \/ t[i].start = opening /\ t[i].seconds = 16
           \/ t[i].start = result /\ t[i].seconds = 60
           \/ t[i].start = result + 60 /\ t[i].seconds = 20
    <2> TAKE i \in 1 .. Len(t)
    <2>1. CASE \E k \in 1 .. n : i = 6 + k
      BY <1>7, <2>1
    <2>2. CASE ~\E k \in 1 .. n : i = 6 + k
      BY <1>5, <1>6, <1>8, <2>2 DEF Plain
    <2> QED BY <2>1, <2>2
  <1> QED BY <1>10, <1>15, <1>16 DEF t

\* What an assembly is of: a version's script, which lasts as long as a demo
\* does; of the second, with the figures it was given and the console it read.
ScriptIs ==
    making.step # "idle" =>
      /\ Laid(making.segments) /\ TimelineDuration(making.segments) = DemoTotal
      /\ making.version = "v2" =>
           /\ Fading(making.segments)
           /\ making.console.judged = 0 \/ making.console.judged = making.figures.windows

\* What has been drawn of it.  The second version asks for a film that reaches,
\* and as long as none comes that does not, it is all drawn in full.
PartsAre ==
    making.step # "idle" =>
      /\ Listed(making.parts) /\ Len(making.parts) <= Len(making.segments)
      /\ \A i \in 1 .. Len(making.parts) : PartOf(making.parts[i], making.segments[i])
      /\ making.version = "v2" /\ ~making.cutShort =>
           /\ Reaches(found.film)
           /\ \A i \in 1 .. Len(making.parts) : making.parts[i] = making.segments[i]

\* What has come of it: a video of its parts, then its cues, or nothing.
MadeIs ==
    making.step \in {"joined", "inspecting", "done"} =>
      LET demo == demos[making.version] IN
      /\ Len(making.parts) = Len(making.segments)
      /\ making.step = "joined" \/ demo.video # NoVideo =>
           demo.video = [parts |-> making.parts, by |-> spent.demos]
      /\ making.step # "joined" /\ demo.video # NoVideo =>
           demo.subtitles = [cues |-> DemoCues(making.segments), by |-> spent.demos]

\* Each version's demo says itself, and no demo is of an assembly to come.
Said == \A v \in Versions : SaysItself(v)
ByThen ==
    \A v \in Versions :
      /\ demos[v].subtitles.by \in Nat
      /\ demos[v].subtitles.by <= spent.demos
      /\ making.step = "drawing" => demos[v].subtitles.by < spent.demos

\* What an assembly keeps, and of which kinds.
MakingFields ==
    {"step", "version", "segments", "parts", "cutShort", "console", "figures"}

DemoTypeInv ==
    /\ found \in Packages
    /\ DOMAIN making = MakingFields /\ making.version \in Versions
    /\ making.step \in {"idle", "drawing", "joined", "inspecting", "done"}
    /\ making.step = "inspecting" => making.version = "v2"
    /\ making.cutShort \in BOOLEAN
    /\ DOMAIN demos = Versions /\ \A v \in Versions : DOMAIN demos[v] = {"video", "subtitles"}
    /\ spent \in [demos : Nat, changes : Nat, torn : SUBSET Nat]

\* The inductive invariant of the assemblies.
DemoInv == DemoTypeInv /\ ScriptIs /\ PartsAre /\ MadeIs /\ Said /\ ByThen

\* A step that puts nothing in place, and forgets no demo torn.
LEMMA SaidStays ==
    ASSUME Said, demos' = demos, spent.torn \subseteq spent'.torn,
           \A v \in Versions :
             making.step = "joined" /\ making.version = v /\ demos[v].video.by = spent.demos =>
               \/ demos[v].video.by \in spent'.torn
               \/ /\ making'.step = "joined" /\ making'.version = v
                  /\ demos[v].video.by = spent'.demos
    PROVE  Said'
  <1> SUFFICES ASSUME NEW v \in Versions PROVE SaysItself(v)'
    BY DEF Said
  <1>1. SaysItself(v)
    BY DEF Said
  <1> DEFINE cued(video, subtitles) == subtitles.by = video.by /\ TimelineDuration(video.parts) = DemoTotal =>
                 /\ CaptionsAreCued(video, subtitles.cues)
                 /\ v = "v2" => CuesAreSeen(video, subtitles.cues)
             read(video) == \A part \in ToSet(video.parts) : part.panel \notin {"name", "plate", "nothing"}
  <1>2. demos[v].video # NoVideo =>
          /\ read(demos[v].video) /\ cued(demos[v].video, demos[v].subtitles)
          /\ demos[v].subtitles.by # demos[v].video.by =>
               /\ demos[v].subtitles.by < demos[v].video.by
               /\ \/ demos[v].video.by \in spent.torn
                  \/ making.step = "joined" /\ making.version = v /\ demos[v].video.by = spent.demos
    BY <1>1 DEF SaysItself
  <1> HIDE DEF cued, read
  <1>3. demos[v].video # NoVideo =>
          /\ read(demos[v].video) /\ cued(demos[v].video, demos[v].subtitles)
          /\ demos[v].subtitles.by # demos[v].video.by =>
               /\ demos[v].subtitles.by < demos[v].video.by
               /\ \/ demos[v].video.by \in spent'.torn
                  \/ /\ making'.step = "joined" /\ making'.version = v
                     /\ demos[v].video.by = spent'.demos
    BY <1>2
  <1> QED BY <1>3 DEF SaysItself, cued, read

LEMMA DemoStarts ==
    ASSUME DemoInit
    PROVE  DemoInv
  <1>1. making.step = "idle" /\ making.version = "v1" /\ making.cutShort = FALSE
    BY DEF DemoInit, Nobody
  <1>2. DOMAIN making = MakingFields
    BY DEF DemoInit, Nobody, MakingFields
  <1>3. /\ DOMAIN demos = Versions
        /\ \A v \in Versions : /\ DOMAIN demos[v] = {"video", "subtitles"}
                               /\ demos[v].video = NoVideo /\ demos[v].subtitles.by = 0
    BY DEF DemoInit, NoCues
  <1>4. spent \in [demos : Nat, changes : Nat, torn : SUBSET Nat] /\ spent.demos = 0
    BY DEF DemoInit
  <1>5. DemoTypeInv
    BY <1>1, <1>2, <1>3, <1>4 DEF DemoInit, DemoTypeInv, Versions
  <1>6. Said /\ ByThen
    BY <1>1, <1>3, <1>4 DEF Said, SaysItself, ByThen
  <1> QED BY <1>1, <1>5, <1>6 DEF DemoInv, ScriptIs, PartsAre, MadeIs

\* What begins an assembly: a script, and if it is the second version's a film
\* that reaches for it.
LEMMA AssembleKeeps ==
    ASSUME DemoInv, NEW version \in Versions, NEW segments, NEW overwrite, NEW figures,
           Assemble(version, segments, overwrite, figures),
           Laid(segments), TimelineDuration(segments) = DemoTotal,
           version = "v2" =>
             /\ Fading(segments)
             /\ found.console.judged = 0 \/ found.console.judged = figures.windows
             /\ \A i \in 1 .. Len(segments) : segments[i].shows = "film" =>
                  segments[i].start + segments[i].seconds <= found.film.length
    PROVE  DemoInv'
  <1>1. /\ making' = [Nobody EXCEPT !.step = "drawing", !.version = version,
                                    !.segments = segments, !.console = found.console,
                                    !.figures = figures]
        /\ spent' = [spent EXCEPT !.demos = @ + 1] /\ found' = found /\ demos' = demos
    BY DEF Assemble
  <1>2. DOMAIN Nobody = MakingFields
    BY DEF Nobody, MakingFields
  <1>3. /\ DOMAIN making' = MakingFields
        /\ making'.step = "drawing" /\ making'.version = version
        /\ making'.segments = segments /\ making'.console = found.console
        /\ making'.figures = figures /\ making'.parts = <<>>
        /\ making'.cutShort = FALSE
    BY <1>1 DEF Nobody, MakingFields
  <1>4. /\ spent' \in [demos : Nat, changes : Nat, torn : SUBSET Nat]
        /\ spent'.demos = spent.demos + 1 /\ spent'.torn = spent.torn /\ spent.demos \in Nat
    BY <1>1 DEF DemoInv, DemoTypeInv
  <1>5. DemoTypeInv'
    BY <1>1, <1>3, <1>4 DEF DemoInv, DemoTypeInv
  <1>6. ScriptIs'
    BY <1>3 DEF ScriptIs
  <1>7. PartsAre'
    <2>1. Listed(<<>>) /\ Len(<<>>) = 0 /\ 1 .. 0 = {}
      <3>1. <<>> \in Seq({})
        OBVIOUS
      <3> QED BY <3>1 DEF Listed
    <2>2. Len(segments) \in Nat
      BY ListsAre DEF Laid
    <2>3. 0 <= Len(segments)
      BY <2>2
    <2>4. found' = found
      BY <1>1
    <2>5. ASSUME version = "v2" PROVE Reaches(found.film)'
      <3>1. /\ making'.segments = segments /\ making'.parts = <<>> /\ found'.film = found.film
            /\ Len(<<>>) = 0
        BY <1>3, <2>1, <2>4
      <3>2. \A i \in 0 + 1 .. Len(segments) : i \in 1 .. Len(segments)
        OBVIOUS
      <3> QED BY <2>5, <3>1, <3>2 DEF Reaches
    <2> QED BY <1>3, <2>1, <2>3, <2>5 DEF PartsAre
  <1>8. MadeIs'
    BY <1>3 DEF MadeIs
  <1>9. making.step = "idle"
    BY DEF Assemble
  <1>10. Said'
    BY <1>1, <1>4, <1>9, SaidStays DEF DemoInv
  <1>11. ByThen'
    <2> SUFFICES ASSUME NEW v \in Versions
                 PROVE  /\ demos[v].subtitles.by \in Nat
                        /\ demos[v].subtitles.by <= spent.demos + 1
                        /\ demos[v].subtitles.by < spent.demos + 1
      BY <1>1, <1>3, <1>4 DEF ByThen
    <2>1. demos[v].subtitles.by \in Nat /\ demos[v].subtitles.by <= spent.demos
      BY DEF DemoInv, ByThen
    <2> QED BY <1>4, <2>1
  <1> QED BY <1>5, <1>6, <1>7, <1>8, <1>10, <1>11 DEF DemoInv

\* A cut of a segment is part of it, and all of it where the film reaches.
LEMMA CutIs ==
    ASSUME found \in Packages, NEW s, IsSegment(s)
    PROVE  /\ PartOf(Cut(s), s)
           /\ (s.shows = "film" => s.start + s.seconds <= found.film.length) => Cut(s) = s
  <1>1. found.film.length \in Nat
    BY DemoAssumption
  <1> DEFINE length == found.film.length
             plays == Plays(s)
  <1>2. /\ DOMAIN s = SegmentFields /\ s = [f \in SegmentFields |-> s[f]]
        /\ s.start \in Nat /\ s.seconds \in Nat /\ s.hold \in Nat /\ s.hold <= s.seconds
    BY DEF IsSegment
  <1>3. /\ plays \in Nat /\ plays <= s.seconds
        /\ s.start + s.seconds <= length => plays = s.seconds
    BY <1>1, <1>2 DEF Plays
  <1> HIDE DEF plays
  <1>4. CASE s.shows # "film"
    <2>1. Cut(s) = s
      BY <1>4 DEF Cut
    <2> QED BY <1>2, <2>1 DEF PartOf
  <1>5. CASE s.shows = "film"
    <2> DEFINE held == IF plays < s.hold THEN plays ELSE s.hold
               c == [s EXCEPT !.seconds = plays, !.hold = held]
    <2>1. Cut(s) = c
      BY <1>2, <1>5 DEF Cut, plays, SegmentFields
    <2>2. held \in Nat /\ held <= plays
      BY <1>2, <1>3
    <2>3. plays = s.seconds => held = s.hold
      BY <1>2, <1>3
    <2> HIDE DEF held
    <2>4. /\ c.seconds = plays /\ c.hold = held /\ c.caption = s.caption /\ c.panel = s.panel
      BY <1>2 DEF SegmentFields
    <2>5. plays = s.seconds => c = s
      BY <1>2, <2>3 DEF SegmentFields
    <2> HIDE DEF c
    <2>6. PartOf(c, s)
      BY <1>3, <2>2, <2>4, <2>5 DEF PartOf
    <2> QED BY <1>3, <1>5, <2>1, <2>5, <2>6
  <1> QED BY <1>4, <1>5

LEMMA Assemble1Keeps ==
    ASSUME DemoInv, NEW start \in From, NEW overwrite, Assemble1(start, overwrite)
    PROVE  DemoInv'
  <1>1. start \in Nat
    BY DemoAssumption
  <1> DEFINE figures == [windows |-> found.console.count, cost |-> found.console.cost,
                         size |-> found.console.size, beats |-> found.console.beats,
                         lasts |-> found.console.lasts]
  <1>2. Assemble("v1", Timeline1(start), overwrite, figures)
    BY DEF Assemble1
  <1> HIDE DEF figures
  <1>3. Laid(Timeline1(start)) /\ TimelineDuration(Timeline1(start)) = DemoTotal
    BY <1>1, Timeline1Is
  <1>4. "v1" \in Versions /\ "v1" # "v2"
    BY DEF Versions
  <1> QED BY <1>2, <1>3, <1>4, AssembleKeeps

LEMMA Assemble2Keeps ==
    ASSUME DemoInv, NEW given \in Handed, NEW opening \in From, NEW result \in From,
           NEW overwrite, Assemble2(given, opening, result, overwrite)
    PROVE  DemoInv'
  <1> DEFINE t == Timeline2(given, found.says, opening, result)
  <1>1. /\ opening \in Nat /\ result \in Nat /\ given.judged \in Seq(ToSet(given.judged))
        /\ found \in Packages /\ found.film.length \in Nat
    BY DemoAssumption DEF DemoInv, DemoTypeInv
  <1>2. /\ InputsRead(given) /\ Preflight(given, opening, result)
        /\ TimelineDuration(t) = DemoTotal /\ Assemble("v2", t, overwrite, given.figures)
    BY DEF Assemble2
  <1>3. LoadJudgements(found.says, EventIds(given)) /\ CheckFigures(given.figures, found.console)
    BY <1>2 DEF Preflight
  <1>4. NothingPrivate(t)
    BY <1>2 DEF Assemble
  <1>5. /\ Laid(t) /\ Fading(t)
        /\ \A i \in 1 .. Len(t) : t[i].shows = "film" =>
             \/ t[i].start = opening /\ t[i].seconds = 16
             \/ t[i].start = result /\ t[i].seconds = 60
             \/ t[i].start = result + 60 /\ t[i].seconds = 20
    BY <1>1, <1>2, <1>3, <1>4, Timeline2Is
  <1> HIDE DEF t
  <1>6. found.film.length >= opening + 16 /\ found.film.length >= result + 80
    BY <1>2 DEF Preflight, SceneSeconds
  <1>7. \A i \in 1 .. Len(t) : t[i].shows = "film" =>
          t[i].start + t[i].seconds <= found.film.length
    BY <1>1, <1>5, <1>6
  <1>8. found.console.judged = 0 \/ found.console.judged = given.figures.windows
    BY <1>3 DEF CheckFigures
  <1>9. "v2" \in Versions
    BY DEF Versions
  <1> QED BY <1>2, <1>5, <1>7, <1>8, <1>9, AssembleKeeps

LEMMA DrawSegmentKeeps ==
    ASSUME DemoInv, DrawSegment
    PROVE  DemoInv'
  <1> DEFINE segments == making.segments
             parts == making.parts
             part == Cut(segments[Len(parts) + 1])
             n == Len(parts)
  <1>1. /\ making.step = "drawing" /\ n < Len(segments)
        /\ making' = [making EXCEPT !.parts = Append(parts, part)]
        /\ found' = found /\ demos' = demos /\ spent' = spent
    <2>1. making.step = "drawing" /\ n < Len(segments) /\ UNCHANGED <<found, demos, spent>>
      BY DEF DrawSegment
    <2>2. making' = [making EXCEPT !.parts = Append(parts, part)]
      BY DEF DrawSegment, DemoInv, DemoTypeInv, MakingFields
    <2> QED BY <2>1, <2>2
  <1>2. DOMAIN making = MakingFields /\ found \in Packages
    BY DEF DemoInv, DemoTypeInv
  <1>3. /\ DOMAIN making' = MakingFields /\ making'.parts = Append(parts, part)
        /\ making'.step = "drawing" /\ making'.version = making.version
        /\ making'.segments = segments /\ making'.cutShort = making.cutShort
        /\ making'.console = making.console /\ making'.figures = making.figures
    <2> HIDE DEF part
    <2> QED BY <1>1, <1>2 DEF MakingFields
  <1>4. DemoTypeInv'
    BY <1>1, <1>3 DEF DemoInv, DemoTypeInv
  <1>5. ScriptIs'
    BY <1>1, <1>3 DEF DemoInv, ScriptIs
  <1>6. MadeIs'
    BY <1>3 DEF MadeIs
  <1>7. /\ Laid(segments) /\ Listed(parts) /\ \A i \in 1 .. n : PartOf(parts[i], segments[i])
    BY <1>1 DEF DemoInv, ScriptIs, PartsAre
  <1>8. Len(segments) \in Nat /\ n \in Nat
    BY <1>7, ListsAre DEF Laid
  <1>9. n + 1 \in 1 .. Len(segments)
    BY <1>1, <1>8
  <1>10. PartOf(part, segments[n + 1])
    BY <1>2, <1>7, <1>9, CutIs DEF Laid
  <1> DEFINE more == Append(parts, part)
  <1>11. /\ Listed(more) /\ Len(more) = n + 1 /\ more[n + 1] = part
         /\ \A i \in 1 .. n : more[i] = parts[i]
    BY <1>7, LongerList
  <1>12. \A i \in 1 .. (n + 1) : i = n + 1 \/ i \in 1 .. n
    BY <1>8
  <1> HIDE DEF more, n
  <1>13. \A i \in 1 .. Len(more) : PartOf(more[i], segments[i])
    <2> HIDE DEF segments, parts, part
    <2> QED BY <1>7, <1>10, <1>11, <1>12
  <1>14. ASSUME making.version = "v2", ~making.cutShort
         PROVE  /\ Reaches(found.film)'
                /\ \A i \in 1 .. Len(more) : more[i] = segments[i]
    <2>1. Reaches(found.film) /\ \A i \in 1 .. n : parts[i] = segments[i]
      BY <1>1, <1>14 DEF DemoInv, PartsAre, n
    <2>2. \A i \in n + 1 .. Len(segments) : segments[i].shows = "film" =>
            segments[i].start + segments[i].seconds <= found.film.length
      BY <2>1 DEF Reaches, n
    <2>3. part = segments[n + 1]
      <3>1. IsSegment(segments[n + 1])
        BY <1>7, <1>9 DEF Laid
      <3>2. n + 1 \in n + 1 .. Len(segments)
        BY <1>8, <1>9
      <3>3. segments[n + 1].shows = "film" =>
              segments[n + 1].start + segments[n + 1].seconds <= found.film.length
        BY <2>2, <3>2
      <3> QED BY <1>2, <3>1, <3>3, CutIs DEF n
    <2>4. Reaches(found.film)'
      <3>1. /\ making'.segments = segments /\ making'.parts = more /\ Len(more) = n + 1
            /\ found'.film = found.film
        BY <1>1, <1>3, <1>11 DEF more
      <3>2. \A i \in (n + 1) + 1 .. Len(segments) : i \in n + 1 .. Len(segments)
        BY <1>8
      <3> HIDE DEF segments
      <3> QED BY <2>2, <3>1, <3>2 DEF Reaches
    <2> HIDE DEF segments, parts, part
    <2> QED BY <1>11, <1>12, <2>1, <2>3, <2>4
  <1>15. PartsAre'
    <2>1. making'.segments = making.segments /\ making'.parts = more
      BY <1>3 DEF more
    <2>2. Listed(more) /\ Len(more) <= Len(segments)
      BY <1>1, <1>8, <1>9, <1>11 DEF n
    <2> QED BY <1>3, <1>13, <1>14, <2>1, <2>2 DEF PartsAre
  <1>16. Said'
    BY <1>1, SaidStays DEF DemoInv
  <1>17. ByThen'
    BY <1>1, <1>3 DEF DemoInv, ByThen
  <1> QED BY <1>4, <1>5, <1>6, <1>15, <1>16, <1>17 DEF DemoInv

\* A step that adds nothing to what was drawn.
LEMMA NextStage ==
    ASSUME DemoInv, making.step # "idle",
           NEW step \in {"joined", "inspecting", "done"}, step = "inspecting" => making.version = "v2",
           making' = [making EXCEPT !.step = step], found' = found, spent' = spent,
           DOMAIN demos' = Versions, \A v \in Versions : DOMAIN demos'[v] = {"video", "subtitles"}
    PROVE  /\ DemoTypeInv' /\ ScriptIs' /\ PartsAre'
           /\ making'.step = step /\ making'.version = making.version
           /\ making'.segments = making.segments /\ making'.parts = making.parts
  <1>1. DOMAIN making = MakingFields
    BY DEF DemoInv, DemoTypeInv
  <1>2. /\ DOMAIN making' = MakingFields
        /\ making'.step = step /\ making'.version = making.version
        /\ making'.segments = making.segments /\ making'.parts = making.parts
        /\ making'.cutShort = making.cutShort /\ making'.console = making.console
        /\ making'.figures = making.figures
    BY <1>1 DEF MakingFields
  <1>3. DemoTypeInv'
    BY <1>2 DEF DemoInv, DemoTypeInv
  <1>4. ScriptIs'
    BY <1>2 DEF DemoInv, ScriptIs
  <1>5. PartsAre'
    <2>1. Reaches(found.film) => Reaches(found.film)'
      BY <1>2 DEF Reaches
    <2> QED BY <1>2, <2>1 DEF DemoInv, PartsAre
  <1> QED BY <1>2, <1>3, <1>4, <1>5

\* Nothing is read on parts that is not read in the script.
LEMMA PartsAreRead ==
    ASSUME NEW segments, Laid(segments), NEW parts, Listed(parts), Len(parts) = Len(segments),
           \A i \in 1 .. Len(parts) : PartOf(parts[i], segments[i])
    PROVE  \A part \in ToSet(parts) : part.panel \notin {"name", "plate", "nothing"}
  <1> TAKE part \in ToSet(parts)
  <1>1. PICK i \in 1 .. Len(parts) : part = parts[i]
    BY ListsAre DEF ToSet
  <1>2. IsSegment(segments[i]) /\ part.panel = segments[i].panel
    BY <1>1 DEF Laid, PartOf
  <1> QED BY <1>2 DEF IsSegment

LEMMA JoinAndReplaceKeeps ==
    ASSUME DemoInv, JoinAndReplace
    PROVE  DemoInv'
  <1> DEFINE v == making.version
             video == [parts |-> making.parts, by |-> spent.demos]
  <1>1. v \in Versions /\ DOMAIN demos = Versions
        /\ \A w \in Versions : DOMAIN demos[w] = {"video", "subtitles"}
    BY DEF DemoInv, DemoTypeInv
  <1>2. /\ making.step = "drawing" /\ Len(making.parts) = Len(making.segments)
        /\ making' = [making EXCEPT !.step = "joined"] /\ found' = found /\ spent' = spent
        /\ demos' = [demos EXCEPT ![v].video = video]
    BY DEF JoinAndReplace
  <1> HIDE DEF v, video
  <1>3. /\ DOMAIN demos' = Versions /\ \A w \in Versions : DOMAIN demos'[w] = {"video", "subtitles"}
        /\ demos'[v].video = video /\ demos'[v].subtitles = demos[v].subtitles
        /\ \A w \in Versions \ {v} : demos'[w] = demos[w]
    BY <1>1, <1>2
  <1>4. /\ DemoTypeInv' /\ ScriptIs' /\ PartsAre'
        /\ making'.step = "joined" /\ making'.version = v
        /\ making'.segments = making.segments /\ making'.parts = making.parts
    BY <1>2, <1>3, NextStage DEF v
  <1>5. MadeIs'
    BY <1>2, <1>3, <1>4 DEF MadeIs, video
  <1>6. \A w \in Versions : /\ demos[w].subtitles.by \in Nat
                            /\ demos[w].subtitles.by < spent.demos
    BY <1>2 DEF DemoInv, ByThen
  <1>7. Said'
    <2> SUFFICES ASSUME NEW w \in Versions PROVE SaysItself(w)'
      BY DEF Said
    <2>1. SaysItself(w)
      BY DEF DemoInv, Said
    <2>2. CASE w = v
      <3>1. \A part \in ToSet(making.parts) : part.panel \notin {"name", "plate", "nothing"}
        BY <1>2, PartsAreRead DEF DemoInv, ScriptIs, PartsAre
      <3>2. /\ video.parts = making.parts /\ video.by = spent.demos
        BY DEF video
      <3>3. demos[v].subtitles.by # spent.demos /\ demos[v].subtitles.by < spent.demos
        BY <1>1, <1>6, <1>2 DEF DemoInv, DemoTypeInv
      <3> QED BY <1>2, <1>3, <1>4, <2>2, <3>1, <3>2, <3>3 DEF SaysItself
    <2>3. CASE w # v
      <3>1. demos'[w] = demos[w] /\ spent' = spent
        BY <1>2, <1>3, <2>3
      <3> QED BY <1>2, <2>1, <3>1 DEF SaysItself
    <2> QED BY <2>2, <2>3
  <1>8. ByThen'
    <2> SUFFICES ASSUME NEW w \in Versions
                 PROVE  /\ demos'[w].subtitles.by \in Nat
                        /\ demos'[w].subtitles.by <= spent.demos
      BY <1>2, <1>4 DEF ByThen
    <2>1. demos'[w].subtitles = demos[w].subtitles
      BY <1>3
    <2> QED BY <1>6, <2>1 DEF DemoInv, DemoTypeInv
  <1> QED BY <1>4, <1>5, <1>7, <1>8 DEF DemoInv

LEMMA WriteDemoSubtitlesKeeps ==
    ASSUME DemoInv, WriteDemoSubtitles
    PROVE  DemoInv'
  <1> DEFINE v == making.version
             cues == [cues |-> DemoCues(making.segments), by |-> spent.demos]
             step == IF v = "v1" THEN "done" ELSE "inspecting"
  <1>1. v \in Versions /\ DOMAIN demos = Versions
        /\ \A w \in Versions : DOMAIN demos[w] = {"video", "subtitles"}
    BY DEF DemoInv, DemoTypeInv
  <1>2. /\ making.step = "joined" /\ making' = [making EXCEPT !.step = step]
        /\ found' = found /\ spent' = spent /\ demos' = [demos EXCEPT ![v].subtitles = cues]
    BY DEF WriteDemoSubtitles
  <1>3. step \in {"joined", "inspecting", "done"} /\ step # "joined"
        /\ (step = "inspecting" => v = "v2")
    BY <1>1 DEF Versions
  <1>4. Len(making.parts) = Len(making.segments)
        /\ demos[v].video = [parts |-> making.parts, by |-> spent.demos]
    BY <1>2 DEF DemoInv, MadeIs
  <1> HIDE DEF v, cues, step
  <1>5. /\ DOMAIN demos' = Versions /\ \A w \in Versions : DOMAIN demos'[w] = {"video", "subtitles"}
        /\ demos'[v].video = demos[v].video /\ demos'[v].subtitles = cues
        /\ \A w \in Versions \ {v} : demos'[w] = demos[w]
    BY <1>1, <1>2
  <1>6. /\ DemoTypeInv' /\ ScriptIs' /\ PartsAre'
        /\ making'.step = step /\ making'.version = v
        /\ making'.segments = making.segments /\ making'.parts = making.parts
    BY <1>2, <1>3, <1>5, NextStage DEF v
  <1>7. cues = [cues |-> DemoCues(making.segments)', by |-> spent'.demos]
    BY <1>2, <1>6 DEF cues, DemoCues, Begins, RunTime
  <1>8. MadeIs'
    BY <1>2, <1>3, <1>4, <1>5, <1>6, <1>7 DEF MadeIs
  <1>9. cues.by = spent.demos /\ cues.cues = DemoCues(making.segments)
    BY DEF cues
  <1>10. Said'
    <2> SUFFICES ASSUME NEW w \in Versions PROVE SaysItself(w)'
      BY DEF Said
    <2>1. SaysItself(w)
      BY DEF DemoInv, Said
    <2>2. CASE w = v
      <3> DEFINE video == [parts |-> making.parts, by |-> spent.demos]
      <3>1. /\ Laid(making.segments) /\ TimelineDuration(making.segments) = DemoTotal
            /\ v = "v2" => Fading(making.segments)
        BY <1>2 DEF DemoInv, ScriptIs, v
      <3>2. /\ Listed(making.parts)
            /\ \A i \in 1 .. Len(making.parts) : PartOf(making.parts[i], making.segments[i])
        BY <1>2 DEF DemoInv, PartsAre
      <3>3. Lasting(making.segments)
        BY <3>1, LaidLasts
      <3>4. \A part \in ToSet(making.parts) : part.panel \notin {"name", "plate", "nothing"}
        BY <1>4, <3>1, <3>2, PartsAreRead
      <3>5. ASSUME TimelineDuration(making.parts) = DemoTotal
            PROVE  /\ CaptionsAreCued(video, DemoCues(making.segments))
                   /\ v = "v2" => CuesAreSeen(video, DemoCues(making.segments))
        <4>1. CaptionsAreCued(video, DemoCues(making.segments))
          BY <1>4, <3>1, <3>2, <3>3, <3>5, PartsAreCued
        <4>2. making.parts = making.segments
          BY <1>4, <3>1, <3>2, <3>3, <3>5, WholePartsAre DEF Lasting
        <4>3. ASSUME v = "v2" PROVE CuesAreSeen(video, DemoCues(making.segments))
          <5>1. CuesAreSeen([parts |-> making.segments, by |-> spent.demos], DemoCues(making.segments))
            BY <3>1, <3>3, <4>3, CuesAreSeenWhole
          <5> QED BY <4>2, <5>1
        <4> QED BY <4>1, <4>3
      <3>6. video.parts = making.parts /\ video.by = spent.demos
        OBVIOUS
      <3>7. demos'[w].video = video /\ demos'[w].subtitles = cues
        BY <1>4, <1>5, <2>2
      <3> HIDE DEF video
      <3> QED BY <1>9, <2>2, <3>4, <3>5, <3>6, <3>7 DEF SaysItself
    <2>3. CASE w # v
      <3>1. demos'[w] = demos[w] /\ spent' = spent /\ making.version # w
        BY <1>2, <1>5, <2>3 DEF v
      <3> QED BY <2>1, <3>1 DEF SaysItself
    <2> QED BY <2>2, <2>3
  <1>11. ByThen'
    <2> SUFFICES ASSUME NEW w \in Versions
                 PROVE  /\ demos'[w].subtitles.by \in Nat
                        /\ demos'[w].subtitles.by <= spent.demos
      BY <1>2, <1>3, <1>6 DEF ByThen
    <2>1. /\ demos[w].subtitles.by \in Nat /\ demos[w].subtitles.by <= spent.demos
          /\ spent.demos \in Nat
      BY DEF DemoInv, ByThen, DemoTypeInv
    <2>2. demos'[w].subtitles = cues \/ demos'[w] = demos[w]
      BY <1>5
    <2> QED BY <1>9, <2>1, <2>2
  <1> QED BY <1>6, <1>8, <1>10, <1>11 DEF DemoInv

LEMMA InspectKeeps ==
    ASSUME DemoInv, Inspect
    PROVE  DemoInv'
  <1> DEFINE none == [video |-> NoVideo, subtitles |-> NoCues]
             v == making.version
  <1>1. v = "v2" /\ v \in Versions /\ DOMAIN demos = Versions
        /\ \A w \in Versions : DOMAIN demos[w] = {"video", "subtitles"}
    BY DEF DemoInv, DemoTypeInv, Inspect
  <1>2. /\ making.step = "inspecting" /\ making' = [making EXCEPT !.step = "done"]
        /\ found' = found /\ spent' = spent
        /\ demos' = demos \/ demos' = [demos EXCEPT !["v2"] = none]
    BY DEF Inspect
  <1>3. none.video = NoVideo /\ none.subtitles.by = 0 /\ DOMAIN none = {"video", "subtitles"}
    BY DEF NoCues
  <1> HIDE DEF none, v
  <1>4. /\ DOMAIN demos' = Versions /\ \A w \in Versions : DOMAIN demos'[w] = {"video", "subtitles"}
        /\ demos'[v] = demos[v] \/ demos'[v].video = NoVideo
        /\ \A w \in Versions :
             \/ demos'[w] = demos[w]
             \/ demos'[w].video = NoVideo /\ demos'[w].subtitles.by = 0
    BY <1>1, <1>2, <1>3
  <1>5. /\ DemoTypeInv' /\ ScriptIs' /\ PartsAre'
        /\ making'.step = "done" /\ making'.version = v
        /\ making'.segments = making.segments /\ making'.parts = making.parts
    BY <1>2, <1>4, NextStage DEF v
  <1>6. /\ Len(making.parts) = Len(making.segments)
        /\ demos[v].video # NoVideo =>
             /\ demos[v].video = [parts |-> making.parts, by |-> spent.demos]
             /\ demos[v].subtitles = [cues |-> DemoCues(making.segments), by |-> spent.demos]
    BY <1>2 DEF DemoInv, MadeIs, v
  <1>7. [cues |-> DemoCues(making.segments), by |-> spent.demos]
          = [cues |-> DemoCues(making.segments)', by |-> spent'.demos]
    BY <1>2, <1>5 DEF DemoCues, Begins, RunTime
  <1>8. MadeIs'
    BY <1>2, <1>4, <1>5, <1>6, <1>7 DEF MadeIs, NoVideo
  <1>9. Said'
    <2> SUFFICES ASSUME NEW w \in Versions PROVE SaysItself(w)'
      BY DEF Said
    <2>1. CASE demos'[w] = demos[w]
      <3>1. SaysItself(w)
        BY DEF DemoInv, Said
      <3> QED BY <1>2, <2>1, <3>1 DEF SaysItself
    <2>2. CASE demos'[w].video = NoVideo
      BY <2>2 DEF SaysItself, NoVideo
    <2> QED BY <1>4, <2>1, <2>2
  <1>10. ByThen'
    <2> SUFFICES ASSUME NEW w \in Versions
                 PROVE  /\ demos'[w].subtitles.by \in Nat
                        /\ demos'[w].subtitles.by <= spent.demos
      BY <1>2, <1>5 DEF ByThen
    <2>1. /\ demos[w].subtitles.by \in Nat /\ demos[w].subtitles.by <= spent.demos
          /\ spent.demos \in Nat
      BY DEF DemoInv, ByThen, DemoTypeInv
    <2> QED BY <1>4, <2>1
  <1> QED BY <1>5, <1>8, <1>9, <1>10 DEF DemoInv

LEMMA AssemblyEndsKeeps ==
    ASSUME DemoInv, AssemblyEnds
    PROVE  DemoInv'
  <1> DEFINE torn == IF making.step = "joined" THEN spent.torn \cup {spent.demos} ELSE spent.torn
  <1>1. making' = Nobody /\ found' = found /\ demos' = demos
    BY DEF AssemblyEnds
  <1>2. /\ DOMAIN making' = MakingFields /\ making'.cutShort = FALSE
        /\ making'.step = "idle" /\ making'.version = "v1"
    BY <1>1 DEF Nobody, MakingFields
  <1>3. spent \in [demos : Nat, changes : Nat, torn : SUBSET Nat]
    BY DEF DemoInv, DemoTypeInv
  <1>4. spent' = [spent EXCEPT !.torn = torn]
    BY <1>3 DEF AssemblyEnds
  <1>5. torn \in SUBSET Nat /\ spent.torn \subseteq torn
        /\ (making.step = "joined" => spent.demos \in torn)
    BY <1>3
  <1> HIDE DEF torn
  <1>6. /\ spent' \in [demos : Nat, changes : Nat, torn : SUBSET Nat]
        /\ spent'.demos = spent.demos /\ spent'.torn = torn
    BY <1>3, <1>4, <1>5
  <1>7. DemoTypeInv'
    BY <1>1, <1>2, <1>6 DEF DemoInv, DemoTypeInv, Versions
  <1>8. Said'
    BY <1>1, <1>5, <1>6, SaidStays DEF DemoInv
  <1>9. ByThen'
    BY <1>1, <1>2, <1>6 DEF DemoInv, ByThen
  <1> QED BY <1>2, <1>7, <1>8, <1>9 DEF DemoInv, ScriptIs, PartsAre, MadeIs

LEMMA PackageChangesKeeps ==
    ASSUME DemoInv, PackageChanges
    PROVE  DemoInv'
  <1> DEFINE cutShort == making.cutShort \/ ~Reaches(found'.film)
  <1>1. /\ found' \in Packages /\ demos' = demos
        /\ spent' = [spent EXCEPT !.changes = @ + 1]
    BY DEF PackageChanges
  <1>2. /\ DOMAIN making = MakingFields
        /\ spent \in [demos : Nat, changes : Nat, torn : SUBSET Nat]
    BY DEF DemoInv, DemoTypeInv
  <1>3. making' = [making EXCEPT !.cutShort = cutShort]
    BY <1>2 DEF PackageChanges, MakingFields
  <1>4. cutShort \in BOOLEAN /\ (~cutShort => Reaches(found'.film) /\ ~making.cutShort)
    OBVIOUS
  <1> HIDE DEF cutShort
  <1>5. /\ DOMAIN making' = MakingFields /\ making'.cutShort = cutShort
        /\ making'.step = making.step /\ making'.version = making.version
        /\ making'.segments = making.segments /\ making'.parts = making.parts
        /\ making'.console = making.console /\ making'.figures = making.figures
    BY <1>2, <1>3 DEF MakingFields
  <1>6. /\ spent' \in [demos : Nat, changes : Nat, torn : SUBSET Nat]
        /\ spent'.demos = spent.demos /\ spent'.torn = spent.torn
    BY <1>1, <1>2
  <1>7. DemoTypeInv'
    BY <1>1, <1>4, <1>5, <1>6 DEF DemoInv, DemoTypeInv
  <1>8. ScriptIs'
    BY <1>5 DEF DemoInv, ScriptIs
  <1>9. PartsAre'
    <2>1. Reaches(found'.film) => Reaches(found.film)'
      BY <1>5 DEF Reaches
    <2> QED BY <1>4, <1>5, <2>1 DEF DemoInv, PartsAre
  <1>10. [cues |-> DemoCues(making.segments), by |-> spent.demos]
           = [cues |-> DemoCues(making.segments)', by |-> spent'.demos]
    BY <1>5, <1>6 DEF DemoCues, Begins, RunTime
  <1>11. MadeIs'
    BY <1>1, <1>5, <1>6, <1>10 DEF DemoInv, MadeIs, NoVideo
  <1>12. Said'
    BY <1>1, <1>5, <1>6, SaidStays DEF DemoInv
  <1>13. ByThen'
    BY <1>1, <1>5, <1>6 DEF DemoInv, ByThen
  <1> QED BY <1>7, <1>8, <1>9, <1>11, <1>12, <1>13 DEF DemoInv

LEMMA DemoSteps ==
    ASSUME DemoInv, [DemoNext]_demoVars
    PROVE  DemoInv'
  <1>1. ASSUME NEW start \in From, NEW overwrite \in BOOLEAN, Assemble1(start, overwrite)
        PROVE  DemoInv'
    BY <1>1, Assemble1Keeps
  <1>2. ASSUME NEW given \in Handed, NEW opening \in From, NEW result \in From,
               NEW overwrite \in BOOLEAN, Assemble2(given, opening, result, overwrite)
        PROVE  DemoInv'
    BY <1>2, Assemble2Keeps
  <1>3. CASE DrawSegment
    BY <1>3, DrawSegmentKeeps
  <1>4. CASE JoinAndReplace
    BY <1>4, JoinAndReplaceKeeps
  <1>5. CASE WriteDemoSubtitles
    BY <1>5, WriteDemoSubtitlesKeeps
  <1>6. CASE Inspect
    BY <1>6, InspectKeeps
  <1>7. CASE AssemblyEnds
    BY <1>7, AssemblyEndsKeeps
  <1>8. CASE PackageChanges
    BY <1>8, PackageChangesKeeps
  <1>9. CASE UNCHANGED demoVars
    <2>1. found' = found /\ making' = making /\ demos' = demos /\ spent' = spent
      BY <1>9 DEF demoVars
    <2>2. Said'
      BY <2>1, SaidStays DEF DemoInv
    <2> QED BY <2>1, <2>2 DEF DemoInv, DemoTypeInv, ScriptIs, PartsAre, Reaches, MadeIs, ByThen
  <1> QED BY <1>1, <1>2, <1>3, <1>4, <1>5, <1>6, <1>7, <1>8, <1>9 DEF DemoNext

\* What the invariant promises of a finished assembly.
LEMMA InvSaysItself ==
    ASSUME DemoInv
    PROVE  DemoSaysItself
  <1> SUFFICES ASSUME making.step = "done", making.version = "v2", demos["v2"].video # NoVideo
               PROVE  /\ ~making.cutShort => TimelineDuration(demos["v2"].video.parts) = DemoTotal
                      /\ making.console.judged \in {0, making.figures.windows}
    BY DEF DemoSaysItself, SecondIsWhole, DemoInv, Said
  <1>1. /\ demos["v2"].video = [parts |-> making.parts, by |-> spent.demos]
        /\ Len(making.parts) = Len(making.segments)
    BY DEF DemoInv, MadeIs
  <1>2. /\ Laid(making.segments) /\ TimelineDuration(making.segments) = DemoTotal
        /\ making.console.judged = 0 \/ making.console.judged = making.figures.windows
    BY DEF DemoInv, ScriptIs
  <1>3. ASSUME ~making.cutShort PROVE making.parts = making.segments
    <2>1. /\ Listed(making.parts)
          /\ \A i \in 1 .. Len(making.parts) : making.parts[i] = making.segments[i]
      BY <1>3 DEF DemoInv, PartsAre
    <2>2. /\ making.parts = [i \in 1 .. Len(making.parts) |-> making.parts[i]]
          /\ making.segments = [i \in 1 .. Len(making.segments) |-> making.segments[i]]
      BY <1>2, <2>1, ListsAre DEF Laid
    <2> QED BY <1>1, <2>1, <2>2
  <1> QED BY <1>1, <1>2, <1>3

\* A demo in place says itself: its subtitles are what is on the screen and when
\* it is, unless its assembly ended, or stands, between the two, and it shows no
\* name or plate, whatever becomes of the package meanwhile; a finished second
\* version has the figures the console had, and is whole unless a film came
\* that is too short for what was left to draw.
THEOREM DemosSayThemselves == DemoSpec => []DemoSaysItself
  <1>1. DemoInit => DemoInv
    BY DemoStarts
  <1>2. DemoInv /\ [DemoNext]_demoVars => DemoInv'
    BY DemoSteps
  <1>3. DemoInv => DemoSaysItself
    BY InvSaysItself
  <1> QED BY <1>1, <1>2, <1>3, PTL DEF DemoSpec
=============================================================================
