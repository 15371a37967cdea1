--------------------------- MODULE MCUploadBucket ---------------------------
(* An instance of UploadBucket for TLC: accounts and clients are            *)
(* interchangeable.                                                         *)
EXTENDS UploadBucket, TLC

\* Commands beside each other, listings that stray, stamps that run ahead; or
\* one command at a time over three days, with links handed out.
MCHabits ==
  {[days |-> {1}, link |-> 0, careful |-> FALSE, skew |-> 1, clock |-> 1, commands |-> 2, strays |-> 1],
   [days |-> {2}, link |-> 2, careful |-> TRUE, skew |-> 0, clock |-> 3, commands |-> 3, strays |-> 0]}

\* Two commands, one at a time, over three days.
OneAfterAnother ==
  {[days |-> {2}, link |-> 0, careful |-> FALSE, skew |-> 0, clock |-> 3, commands |-> 2, strays |-> 0]}

Symmetry == Permutations(Account \ Migrators) \cup Permutations(Client)
=============================================================================
