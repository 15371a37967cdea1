---------------------------- MODULE MCJobConsole ----------------------------
(* An instance of JobConsole for TLC. *)
EXTENDS JobConsole, TLC

CONSTANTS ride, trip

\* Every package and every stride comes to a figure of its own.
OwnFigures == ride :> [s \in Setting |-> 10 * s] @@ trip :> [s \in Setting |-> 10 * s + 5]
=============================================================================
