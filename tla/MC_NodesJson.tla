----------------------------- MODULE MC_NodesJson -----------------------------
(***************************************************************************)
(* Model checking of NodesJson on small instances.  Runs, hosts and epochs *)
(* are interchangeable model values.                                       *)
(***************************************************************************)
EXTENDS NodesJson, TLC

Symmetry == Permutations(Proc) \cup Permutations(Host) \cup Permutations(Epoch)

\* The properties of the concurrent instance promise nothing after two runs met
\* inside update_nodes_json: the states after that need not be explored.
UntilOverlap == ~overlap
===============================================================================
