------------------------------ MODULE MC_Reports ------------------------------
(***************************************************************************)
(* Model checking of Reports on small instances.  A check is a model       *)
(* value; hosts and runs are interchangeable.                              *)
(***************************************************************************)
EXTENDS Reports, TLC

CONSTANTS A002, F004, F005     \* three checks, in the order of their file names

ThreeChecks == <<A002, F004, F005>>
TwoChecks == <<A002, F004>>
OneCheck == <<A002>>

Symmetry == Permutations(Proc) \cup Permutations(Host)

\* The properties promise nothing of a report two runs wrote at once.
UntilClash == clash = {}

\* All but the file a run was started for, which no step reads afterwards.
WithoutFile ==
  <<server, nodes, report, [p \in Proc |-> [run[p] EXCEPT !.file = Unknown]],
    flips, lapses, torn, clash, overlap>>
===============================================================================
