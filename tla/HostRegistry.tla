---------------------------- MODULE HostRegistry ----------------------------
(***************************************************************************)
(* What nodes.json promises about host numbers, with none of the file      *)
(* handling: every host of a project gets one number, forever, and a new   *)
(* host gets the number after the largest one in use.  The alias of a host *)
(* is "node" followed by its number, so it is unique and stable too.       *)
(* Reports order the replicas, and the K000 check names its snapshots, by  *)
(* this number.                                                            *)
(***************************************************************************)
EXTENDS Naturals

CONSTANT Host          \* the host names of the project
VARIABLE number        \* number[h]: the number of host h, 0 while it has none

NoNumber == 0

Init == number = [h \in Host |-> NoNumber]

\* Host h, met for the first time, gets the number after the largest in use.
Register(h) ==
  /\ number[h] = NoNumber
  /\ \E g \in Host :
       /\ \A k \in Host : number[k] <= number[g]
       /\ number' = [number EXCEPT ![h] = number[g] + 1]

Next == \E h \in Host : Register(h)

Spec == Init /\ [][Next]_number
=============================================================================
