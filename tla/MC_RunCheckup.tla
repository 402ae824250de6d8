---------------------------- MODULE MC_RunCheckup ----------------------------
(***************************************************************************)
(* Model checking of run_checkup.sh with two hosts and one database.       *)
(***************************************************************************)
EXTENDS RunCheckup

OwnName == [d \in Db |-> d]
==============================================================================
