--------------------------- MODULE JudgementPlan ---------------------------
(***************************************************************************)
(* What judging a ride would send and cost (plan_analysis_run of           *)
(* app/analysis_run.py, the windows of app/footage_candidates.py, the      *)
(* cascade of app/analysis_budget.py and the counts command_judge reports).*)
(*                                                                         *)
(* A plan is made in steps: the stride's windows of every recording, a     *)
(* window round each sharp turn the stride missed, one at each moment the  *)
(* track proves, and then a cascade of stages narrowed until its estimate  *)
(* fits the money.  Nothing is sent.  Times are whole seconds on the       *)
(* ride's clock, which starts at 0; keep ratios are in parts of Unit.      *)
(***************************************************************************)
EXTENDS Integers, FiniteSets, Sequences, FiniteSetsExt, SequencesExt

CONSTANTS
    Rides,      \* [end, recordings, turns, moments, stride]: what is on disk
    Budgets,    \* the ceilings a caller may name
    WindowS,    \* seconds of a window, even
    MaxTurns,   \* DEFAULT_MAX_TURN_CANDIDATES
    Tolerance,  \* seconds within which a window is the shot of a moment
    Unit,       \* parts a keep ratio is counted in
    MinKeep,    \* minimum_keep_ratio, in those parts
    WatchCost,  \* what watching one window costs
    StillCost   \* what looking at one window's stills costs

ASSUME NumbersAssumption ==
    /\ {WindowS, Unit, MinKeep, WatchCost} \subseteq Nat \ {0}
    /\ {MaxTurns, Tolerance, StillCost} \subseteq Nat
    /\ MinKeep <= Unit

\* Recordings are placed on the ride's clock; the track's turns and moments are
\* times of it.
ASSUME RideAssumption ==
    /\ Rides \subseteq [end : Nat, recordings : Seq([start : Int, duration : Nat]),
                       turns : Seq(Int), moments : Seq(Int), stride : Nat \ {0}]
    /\ Budgets \subseteq Nat

VARIABLES
    ride,       \* the package planned for
    budget,     \* the ceiling
    windows,    \* the candidates so far: [start, recording]
    stages,     \* the cascade being fitted: a sequence of [keep, cost]
    tightened,  \* whether a stage of it was narrowed
    step        \* what the planner does next

planVars == <<ride, budget, windows, stages, tightened, step>>

(***************************************************************************)
(* The windows.                                                            *)
(***************************************************************************)

Starts(found) == {w.start : w \in found}

StartOf(r, i) == r.recordings[i].start
EndOf(r, i)   == StartOf(r, i) + r.recordings[i].duration

\* Whole windows of recording i, a stride apart from its beginning.
StrideSlots(r, i) == {s \in StartOf(r, i) .. EndOf(r, i) - WindowS :
                    /\ (s - StartOf(r, i)) % r.stride = 0
                    /\ s >= 0
                    /\ s + WindowS <= r.end}

\* A span filmed by two recordings is one window, the first recording's.
StrideWindows(r) ==
    UNION {{[start |-> s, recording |-> i] :
                s \in StrideSlots(r, i) \ UNION {StrideSlots(r, j) : j \in 1 .. i - 1}} :
           i \in DOMAIN r.recordings}

\* The first recording that was running at t, 0 when none was.
Filming(r, t) ==
    LET running == {i \in DOMAIN r.recordings :
                        StartOf(r, i) <= t /\ t <= EndOf(r, i)}
    IN  IF running = {} THEN 0 ELSE Min(running)

Earliest(r, i) == Max({StartOf(r, i), 0})
Latest(r, i)   == Min({EndOf(r, i), r.end}) - WindowS

\* The window wanted there, kept whole inside its recording and the ride;
\* none when nothing was filming or there is no room for a whole one.
Placed(r, t, wanted) ==
    LET i == Filming(r, t)
    IN  IF i = 0 \/ Latest(r, i) < Earliest(r, i) THEN {}
        ELSE {[start |-> Min({Max({wanted, Earliest(r, i)}), Latest(r, i)}),
               recording |-> i]}

\* What is not already among the windows found.
Unknown(new, found) == {w \in new : w.start \notin Starts(found)}

Covered(found, t) == \E w \in found : w.start <= t /\ t <= w.start + WindowS

\* turn_candidates: one window centred on each turn the existing ones miss,
\* the sharpest first, at most MaxTurns of them.
WithTurn(r, existing, added, t) ==
    IF Cardinality(added) >= MaxTurns \/ Covered(existing, t) THEN added
    ELSE added \cup Unknown(Placed(r, t, t - WindowS \div 2), existing \cup added)

TurnWindows(r, existing) ==
    LET added[k \in 0 .. Len(r.turns)] ==
            IF k = 0 THEN {} ELSE WithTurn(r, existing, added[k - 1], r.turns[k])
    IN  added[Len(r.turns)]

\* A window that starts within the tolerance already is the moment's shot.
ShotThere(found, t) == \E w \in found : w.start - t \in -Tolerance .. Tolerance

\* windows_at: a window beginning at each moment where none already does.
WithMoment(r, existing, added, t) ==
    IF ShotThere(existing, t) THEN added
    ELSE added \cup Unknown(Placed(r, t, t), existing \cup added)

MomentWindows(r, existing) ==
    LET added[k \in 0 .. Len(r.moments)] ==
            IF k = 0 THEN {} ELSE WithMoment(r, existing, added[k - 1], r.moments[k])
    IN  added[Len(r.moments)]

\* stride_filtered_candidates: of the windows drawn every r.stride seconds,
\* those a coarser stride would have drawn, and those no stride drew.
Previewed(r, found, coarser) ==
    {w \in found : LET offset == w.start - StartOf(r, w.recording)
                   IN  offset % r.stride = 0 => offset % coarser = 0}

(***************************************************************************)
(* The cascade.                                                            *)
(***************************************************************************)

\* n / d to the nearest whole number, a half to the even one.
Rounded(n, d) ==
    LET q == n \div d
        r == n % d
    IN  IF 2 * r > d \/ (2 * r = d /\ q % 2 = 1) THEN q + 1 ELSE q

\* A variant of Survivors: nothing keeps a stage from passing on none.
SurvivorsOrNone(n, keep) == Rounded(n * keep, Unit)

\* How many of n a stage passes on: at least one of any.
Survivors(n, keep) == IF n = 0 THEN 0 ELSE Max({1, Rounded(n * keep, Unit)})

\* How many candidates reach each stage.
Reaching(cascade, n) ==
    LET reach[k \in 1 .. Len(cascade)] ==
            IF k = 1 THEN n ELSE Survivors(reach[k - 1], cascade[k - 1].keep)
    IN  reach

\* What a cascade over n candidates costs.
Estimate(cascade, n) ==
    LET reach == Reaching(cascade, n)
        cost[k \in 0 .. Len(cascade)] ==
            IF k = 0 THEN 0 ELSE cost[k - 1] + reach[k] * cascade[k].cost
    IN  cost[Len(cascade)]

DirectCascade == <<[keep |-> Unit, cost |-> 0], [keep |-> Unit, cost |-> WatchCost]>>
ScreenedCascade == <<[keep |-> Unit, cost |-> 0], [keep |-> Unit, cost |-> StillCost],
                     [keep |-> Unit, cost |-> WatchCost]>>

Fits == Estimate(stages, Cardinality(windows)) <= budget

\* The stages that may still be narrowed: any but the last.
Feeders(cascade) == {k \in 1 .. Len(cascade) - 1 : cascade[k].keep > MinKeep}

Halved(keep) == Max({MinKeep, keep \div 2})

\* The stage that watches is the last; the stages named before it feed it.
WatchedCount == Reaching(stages, Cardinality(windows))[Len(stages)]

\* watched_candidates: the places, in ride order, of the windows judged.
WatchedPlaces(n, keep) ==
    IF keep >= n THEN 0 .. n - 1 ELSE {(i * n) \div keep : i \in 0 .. keep - 1}

Place(w) == Cardinality({v \in windows : v.start < w.start})
Watched  == {w \in windows :
                Place(w) \in WatchedPlaces(Cardinality(windows), WatchedCount)}

-----------------------------------------------------------------------------

PlanInit ==
    /\ ride \in Rides
    /\ budget \in Budgets
    /\ windows = {}
    /\ stages = DirectCascade
    /\ tightened = FALSE
    /\ step = "stride"

EnumerateStride ==
    /\ step = "stride"
    /\ windows' = StrideWindows(ride)
    /\ step' = "turns"
    /\ UNCHANGED <<ride, budget, stages, tightened>>

AddTurns ==
    /\ step = "turns"
    /\ windows' = windows \cup TurnWindows(ride, windows)
    /\ step' = "moments"
    /\ UNCHANGED <<ride, budget, stages, tightened>>

\* A package with no footage inside the ride is refused here.
AddMoments ==
    /\ step = "moments"
    /\ windows' = windows \cup MomentWindows(ride, windows)
    /\ step' = IF windows' = {} THEN "nofootage" ELSE "fit"
    /\ UNCHANGED <<ride, budget, stages, tightened>>

\* The estimate fits: the plan is this cascade, unless it is the direct one
\* and had to be narrowed, which is when a cheap look at all is planned.
Accept ==
    /\ step = "fit"
    /\ Fits
    /\ IF Len(stages) = 2 /\ tightened
       THEN stages' = ScreenedCascade /\ tightened' = FALSE /\ UNCHANGED step
       ELSE step' = "planned" /\ UNCHANGED <<stages, tightened>>
    /\ UNCHANGED <<ride, budget, windows>>

\* It does not: the latest stage that can feed less passes half on.
Narrow ==
    /\ step = "fit"
    /\ ~Fits
    /\ Feeders(stages) # {}
    /\ stages' = [stages EXCEPT ![Max(Feeders(stages))].keep = Halved(@)]
    /\ tightened' = TRUE
    /\ UNCHANGED <<ride, budget, windows, step>>

\* Even the tightest does not fit: nothing is started.
Refuse ==
    /\ step = "fit"
    /\ ~Fits
    /\ Feeders(stages) = {}
    /\ step' = "refused"
    /\ UNCHANGED <<ride, budget, windows, stages, tightened>>

PlanNext == EnumerateStride \/ AddTurns \/ AddMoments \/ Accept \/ Narrow \/ Refuse

PlanSpec == PlanInit /\ [][PlanNext]_planVars

-----------------------------------------------------------------------------
(* What a plan promises.                                                   *)

\* Recordings that no clock correction laid over one another.
LaidApart(r) == \A i, j \in DOMAIN r.recordings :
               i < j => EndOf(r, i) < StartOf(r, j)

\* Every candidate is a whole window of one recording inside the ride, and
\* no moment of it is offered twice (FootageCandidate, candidate_id_for):
\* a window cut short, or bought twice under two names, is money for nothing.
WindowsAreFilmedRide ==
    /\ \A w \in windows :
          /\ Earliest(ride, w.recording) <= w.start
          /\ w.start <= Latest(ride, w.recording)
    /\ Cardinality(Starts(windows)) = Cardinality(windows)

\* Once the windows are drawn, whatever the track proves can be shown: a
\* moment that was filmed with room for a window has one that starts there,
\* or the last that fits its recording (windows_at).
MomentsCanBeShown ==
    step \in {"fit", "planned", "refused"} =>
        \A k \in DOMAIN ride.moments :
            LET t == ride.moments[k]
            IN  \/ ShotThere(windows, t)
                \/ Placed(ride, t, t) = {}
                \/ Starts(Placed(ride, t, t)) \subseteq Starts(windows)

\* What stride-preview keeps of the stride's windows is what a plan at twice
\* the stride draws, so its figures are those of a ride judged that way.
PreviewIsThatPlan ==
    step = "turns" /\ LaidApart(ride) =>
        Previewed(ride, windows, 2 * ride.stride) =
            StrideWindows([ride EXCEPT !.stride = 2 * @])

\* The three above: the windows a plan offers are the ride's.
WindowsAreTheRides ==
    WindowsAreFilmedRide /\ MomentsCanBeShown /\ PreviewIsThatPlan

\* What is judged is what was priced, no window more or fewer, and it costs
\* no more than was approved, however the rounding of each stage and the
\* minimum of one survivor fall (plan_cascade_within_budget,
\* AnalysisRunPlan.watched_candidates).
JudgedIsPriced ==
    step = "planned" =>
        /\ Cardinality(Watched) = WatchedCount
        /\ Cardinality(Watched) * WatchCost <= budget
        /\ Watched # {}

\* A cascade is refused only when its tightest form does not fit: with every
\* feeder at the floor and the watching stage as given, the estimate is
\* still above the budget (AnalysisBudgetError).
RefusedAtTightest ==
    step = "refused" =>
        LET last     == Len(stages)
            tightest == [k \in 1 .. last |->
                            IF k = last THEN stages[k]
                            ELSE [stages[k] EXCEPT !.keep = MinKeep]]
        IN  /\ Estimate(tightest, Cardinality(windows)) > budget
            /\ stages[last].keep = Unit

\* A plan is sound (footage_candidates.py, analysis_budget.py): its windows are
\* the ride's, what is judged of them is what was approved, and nothing that
\* could have been made to fit is refused.
PlanIsSound == WindowsAreTheRides /\ JudgedIsPriced /\ RefusedAtTightest
=============================================================================
