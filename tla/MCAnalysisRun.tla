--------------------------- MODULE MCAnalysisRun ---------------------------
(* Small instances of AnalysisRun for TLC. *)
EXTENDS AnalysisRun

\* One plan that pays for all three windows of the ride.
OnePlan == {[candidates |-> {1, 2, 3}, keep |-> 3]}

\* A budget that binds: two of three windows are watched, then all of them.
TwoBudgets == {[candidates |-> {1, 2, 3}, keep |-> k] : k \in {2, 3}}

\* Two windows, of which one budget pays for the first only.
SmallBudgets == {[candidates |-> {1, 2}, keep |-> k] : k \in {1, 2}}
=============================================================================
