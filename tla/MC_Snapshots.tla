----------------------------- MODULE MC_Snapshots -----------------------------
(***************************************************************************)
(* Model checking of Snapshots on small instances.  Runs and hosts are     *)
(* interchangeable model values, and so are databases whose files have     *)
(* names of their own, or the same name.                                   *)
(***************************************************************************)
EXTENDS Snapshots, TLC

CONSTANTS d1, d2, d3

\* a_b, a-b and c, say: the files of the first two have the same name.
SharedName == [d \in Db |-> IF d = d3 THEN "c" ELSE "a_b"]
SharedNameSymmetry ==
  Permutations(Proc) \cup Permutations(Host) \cup Permutations({d1, d2})

\* No two databases share a name.
OwnName == [d \in Db |-> d]
OwnNameSymmetry == Permutations(Proc) \cup Permutations(Host) \cup Permutations(Db)

\* The properties promise nothing of a host two checks were numbering at once.
UntilTogether == together = {}
===============================================================================
