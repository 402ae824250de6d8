----------------------------- MODULE JsonReports -----------------------------
(***************************************************************************)
(* What `checkup process` promises to the JSON reports it rewrites, with   *)
(* none of the file handling: a collection adds a result, and to write     *)
(* conclusions into a report is one step, which keeps its results and      *)
(* draws the conclusions from all of them.                                 *)
(*                                                                         *)
(* Two things weaken it.  Conclusions can be behind the results, or fall   *)
(* back, once a collection of the check has met a `process`: each works on *)
(* what it has read.  Of a torn report, one that was collected while its   *)
(* conclusions were being written, or was never written to the end,        *)
(* nothing is promised any more.                                           *)
(***************************************************************************)
EXTENDS Naturals

CONSTANTS
  Check,        \* the checks, each with a JSON report
  Concluding    \* those that conclusions are drawn for

VARIABLES
  results,      \* results[c]: how many collections are in the report of c
  concl,        \* concl[c]: how many of them its conclusions were drawn from
  met,          \* the checks that were collected during a `process`
  torn          \* those whose report is torn

Init ==
  /\ results = [c \in Check |-> 0]
  /\ concl = [c \in Check |-> 0]
  /\ met = {}
  /\ torn = {}

\* Check c is collected once more.
Collected(c) ==
  /\ c \notin torn
  /\ results' = [results EXCEPT ![c] = @ + 1]
  /\ \E n \in 0 .. results[c] :
       /\ n = concl[c] \/ c \in met
       /\ concl' = [concl EXCEPT ![c] = n]
  /\ UNCHANGED <<met, torn>>

\* Conclusions are written into the report of c.
Concluded(c) ==
  /\ c \in Concluding \ torn
  /\ \E n \in 0 .. results[c] :
       /\ n = results[c] \/ c \in met
       /\ concl' = [concl EXCEPT ![c] = n]
  /\ UNCHANGED <<results, met, torn>>

Meet(c) ==
  /\ met' = met \cup {c}
  /\ UNCHANGED <<results, concl, torn>>

\* The report of c is torn, or was before and is replaced by another that may be.
Tear(c) ==
  /\ torn' = torn \cup {c}
  /\ results' \in [Check -> Nat] /\ concl' \in [Check -> Nat]
  /\ \A d \in Check \ {c} : results'[d] = results[d] /\ concl'[d] = concl[d]
  /\ UNCHANGED met

Next == \E c \in Check : Collected(c) \/ Concluded(c) \/ Meet(c) \/ Tear(c)

Spec == Init /\ [][Next]_<<results, concl, met, torn>>
=============================================================================
