--------------------------- MODULE HighlightPick ---------------------------
(***************************************************************************)
(* Choosing the highlights of a ride from windows measured on the owner's  *)
(* own computer (rank_highlight_windows of app/video/highlight_discovery,  *)
(* the gates, scores and select_quality_highlights of                      *)
(* app/video/highlight_quality.py).                                        *)
(*                                                                         *)
(* A window is admitted by gates, scored, and picked greedily: a ranking   *)
(* takes the best that stands apart in time, a selection weighs relevance  *)
(* against how different a window looks from what is already picked and    *)
(* favours a part of the route nothing was picked from.  Measurements are  *)
(* kept to what the gates and scores make of them: truth values, and       *)
(* scores and distances in tenths.  Windows are numbered in the order of   *)
(* their recordings.                                                       *)
(***************************************************************************)
EXTENDS Integers, FiniteSets, Sequences, FiniteSetsExt, SequencesExt

CONSTANTS
    Footages,       \* what may have been filmed: sequences of windows
    Looks,          \* how far apart any two windows may look: [pairs -> tenths]
    TopK,           \* picks wanted
    Separation,     \* minimum_separation_s
    Duplicate,      \* below this distance two windows look the same
    MinSamples,     \* frames a window must have been measured on
    MinGyro         \* MINIMUM_GYRO_SUSTAINED and its centre, as one level

ASSUME PickAssumption ==
    /\ TopK \in Nat \ {0}
    /\ {Separation, Duplicate, MinSamples, MinGyro} \subseteq Nat

\* What a window was measured to be.
Measurement == [time : Nat, samples : Nat, fixes : Nat, moving : BOOLEAN,
                turn : BOOLEAN, event : BOOLEAN, covered : BOOLEAN, gyro : Nat,
                road : Nat, utility : Nat, rel : Nat, bal : Nat]

\* Two windows of a footage always look some way apart.
ASSUME FootageAssumption ==
    /\ Footages \subseteq Seq(Measurement)
    /\ \A f \in Footages, l \in Looks :
          \A i, j \in DOMAIN f : i # j => l[{i, j}] \in Nat

VARIABLES
    way,        \* "ranked", "focused" or "balanced"
    film,       \* the windows, each a Measurement
    look,       \* how far apart two windows look
    admitted,   \* the windows the gates let through
    picks,      \* the windows picked, in order
    stage       \* "gating", "picking", "picked" or "refused"

pickVars == <<way, film, look, admitted, picks, stage>>

-----------------------------------------------------------------------------
(* Gates.                                                                  *)

\* _features_for_source, _gps_features: a window is measured when enough of
\* its frames were and the track has two points with a speed in it.
Measured(w) == w.samples >= MinSamples /\ w.fixes >= 2

\* _passes_common_interest_gate.
CommonGate(w) == w.moving /\ w.turn

\* evaluate_interest_gate: the independent reasons a window is interesting.
Lanes(w) == IF ~w.moving THEN {}
            ELSE (IF w.turn THEN {"strong_turn"} ELSE {})
                 \cup (IF w.event THEN {"visual_event"} ELSE {})

\* _build_complete_evidence, passes_complete_evidence_gate: the camera's own
\* sensors cover three quarters of the window; road is how many of its three
\* frames show one, the middle one first, utility how many are no picture to keep.
EvidenceGate(w) == /\ w.covered
                   /\ Lanes(w) # {}
                   /\ w.gyro >= MinGyro
                   /\ w.road >= 2
                   /\ w.utility <= 1

Admitted == {i \in DOMAIN film :
                /\ Measured(film[i])
                /\ IF way = "ranked" THEN CommonGate(film[i])
                   ELSE EvidenceGate(film[i])}

-----------------------------------------------------------------------------
(* Picking.                                                                *)

Time(i) == film[i].time
Picked  == Range(picks)

\* A variant of Apart: only the pick before is stood apart from.
ApartFromLast(i) ==
    picks # <<>> => LET t == Time(Last(picks))
                    IN  (IF Time(i) > t THEN Time(i) - t ELSE t - Time(i)) >= Separation

\* A window stands apart in time from everything picked.
Apart(i) == \A j \in Picked :
               (IF Time(i) > Time(j) THEN Time(i) - Time(j) ELSE Time(j) - Time(i))
                   >= Separation

Distance(i, j) == look[{i, j}]
Distances(i)   == {Distance(i, j) : j \in Picked}

\* A window that looks like one already picked is not picked.
Distinct(i) == way = "ranked" \/ \A d \in Distances(i) : d >= Duplicate

Free == {i \in admitted \ Picked : Apart(i) /\ Distinct(i)}

\* _route_bucket: a fifth of the way between the first and last admitted.
Bucket(i) ==
    LET first == Min({Time(j) : j \in admitted})
        last  == Max({Time(j) : j \in admitted})
    IN  IF first = last THEN 0
        ELSE Min({4, ((Time(i) - first) * 5) \div (last - first)})

Buckets == {Bucket(i) : i \in Picked}

\* The farthest any two admitted windows look apart, one when there is one.
DistanceHigh ==
    LET all == {Distance(p[1], p[2]) : p \in {q \in admitted \X admitted : q[1] # q[2]}}
    IN  IF all = {} THEN 10 ELSE Max(all)

\* How different a window looks from what is picked, in tenths of the most.
Diversity(i) ==
    LET d == IF picks = <<>> THEN DistanceHigh ELSE Min(Distances(i))
    IN  IF DistanceHigh = 0 THEN 0 ELSE Min({10, (10 * d) \div DistanceHigh})

Weight == IF way = "balanced" THEN 68 ELSE 82

Gain(i) == Weight * film[i].rel + (100 - Weight) * Diversity(i)
           + (IF Bucket(i) \in Buckets THEN 0 ELSE 80)

\* What a pick is made from: a balanced selection first fills the parts of
\* the route nothing was picked from, while a window there is free.
Offered ==
    LET uncovered == {i \in Free : Bucket(i) \notin Buckets}
    IN  IF way = "balanced" /\ Cardinality(Buckets) < 5 /\ uncovered # {}
        THEN uncovered ELSE Free

\* The order in which offered windows are preferred.
Before(i, j) ==
    IF way = "ranked"
    THEN \/ film[i].rel > film[j].rel
         \/ film[i].rel = film[j].rel /\ Time(i) < Time(j)
         \/ film[i].rel = film[j].rel /\ Time(i) = Time(j) /\ i < j
    ELSE \/ Gain(i) > Gain(j)
         \/ /\ Gain(i) = Gain(j)
            /\ \/ film[i].bal > film[j].bal
               \/ film[i].bal = film[j].bal /\ Diversity(i) > Diversity(j)
               \/ film[i].bal = film[j].bal /\ Diversity(i) = Diversity(j) /\ i < j

Best(S) == CHOOSE i \in S : \A j \in S \ {i} : Before(i, j)

-----------------------------------------------------------------------------

PickInit ==
    /\ way \in {"ranked", "focused", "balanced"}
    /\ film \in Footages
    /\ look \in Looks
    /\ admitted = {}
    /\ picks = <<>>
    /\ stage = "gating"

\* A comparison wants one window at least, a selection enough for its picks.
Gate ==
    /\ stage = "gating"
    /\ admitted' = Admitted
    /\ stage' = IF Cardinality(Admitted) < (IF way = "ranked" THEN 1 ELSE TopK)
                THEN "refused" ELSE "picking"
    /\ UNCHANGED <<way, film, look, picks>>

PickNext ==
    /\ stage = "picking"
    /\ Len(picks) < TopK
    /\ Free # {}
    /\ picks' = Append(picks, Best(Offered))
    /\ UNCHANGED <<way, film, look, admitted, stage>>

\* A ranking may come out short; a selection that does is refused.
PickingEnds ==
    /\ stage = "picking"
    /\ Len(picks) = TopK \/ Free = {}
    /\ stage' = IF way # "ranked" /\ Len(picks) < TopK THEN "refused" ELSE "picked"
    /\ UNCHANGED <<way, film, look, admitted, picks>>

PickStep == Gate \/ PickNext \/ PickingEnds

PickSpec == PickInit /\ [][PickStep]_pickVars

-----------------------------------------------------------------------------
(* What a pick promises.                                                   *)

\* However a window came to be picked, it stands apart in time from every
\* other pick and, in a selection, does not look like one.
PicksStandApart ==
    \A m, n \in DOMAIN picks : m < n =>
        LET early == Min({Time(picks[m]), Time(picks[n])})
            late  == Max({Time(picks[m]), Time(picks[n])})
        IN  /\ picks[m] # picks[n]
            /\ late - early >= Separation
            /\ way # "ranked" => Distance(picks[m], picks[n]) >= Duplicate

\* A selection that comes out short was not short of picks by its own
\* order alone: each window left out stands too near something picked.
ShortIsFull ==
    stage \in {"picked", "refused"} /\ admitted # {} /\ Len(picks) < TopK
        /\ Cardinality(admitted) >= TopK =>
        \A i \in admitted \ Picked : \E j \in Picked :
            \/ Time(i) - Time(j) \in -(Separation - 1) .. Separation - 1
            \/ way # "ranked" /\ Distance(i, j) < Duplicate

\* A balanced selection that took two windows from one part of the route
\* had nothing left to take from a part it took none from.
RouteIsSpread ==
    stage = "picked" /\ way = "balanced" /\ Cardinality(Buckets) < Len(picks) =>
        \A i \in admitted \ Picked : Bucket(i) \notin Buckets =>
            \E j \in Picked :
                \/ Time(i) - Time(j) \in -(Separation - 1) .. Separation - 1
                \/ Distance(i, j) < Duplicate

\* The most relevant admitted window is always the first pick.
BestIsFirst ==
    picks # <<>> => \A i \in admitted : film[i].rel <= film[picks[1]].rel

\* What is picked stands apart, fills its number where it can, spreads over the
\* route and begins with the best (select_quality_highlights, rank_highlight_windows).
PicksAreSound == PicksStandApart /\ ShortIsFull /\ RouteIsSpread /\ BestIsFirst
=============================================================================
