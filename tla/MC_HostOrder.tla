---------------------------- MODULE MC_HostOrder ----------------------------
(***************************************************************************)
(* Model checking of HostOrder; hosts are interchangeable model values.    *)
(***************************************************************************)
EXTENDS HostOrder, TLC

Symmetry == Permutations(Host)
=============================================================================
