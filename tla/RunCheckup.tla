------------------------------ MODULE RunCheckup ------------------------------
(***************************************************************************)
(* run_checkup.sh: K000 on every host, a pause, then all checks, K000      *)
(* among them, on every host; then process and upload, which modules of    *)
(* their own describe: here they only follow, and may never end.  The      *)
(* module composes the script with the K000 check of Snapshots; the rest   *)
(* of `checkup collect` does not touch the snapshots.  One host at a time, *)
(* in any order; the script goes on with the next command when one fails,  *)
(* and may be started again for the same epoch.                            *)
(***************************************************************************)
EXTENDS Snapshots

VARIABLES
  stage,      \* what the script is doing
  hosts,      \* the hosts the present loop has not come to yet
  failed      \* history: the hosts on which something failed

driverVars == <<vars, stage, hosts, failed>>

AllIdle == \A p \in Proc : run[p].pc = "idle"

RunInit ==
  /\ Init
  /\ stage = "first"
  /\ hosts = Host
  /\ failed = {}

\* Seeded fault: a loop tries a host again as long as its collection fails.
CollectAgain(p, h, d) ==
  /\ stage \in {"first", "second"} /\ AllIdle
  /\ h \in hosts \cup failed
  /\ Begin(p, h, d)
  /\ hosts' = hosts \ {h}
  /\ failed' = failed \ {h}
  /\ UNCHANGED stage

\* The body of both loops.
Collect(p, h, d) ==
  /\ stage \in {"first", "second"} /\ AllIdle
  /\ h \in hosts
  /\ Begin(p, h, d)
  /\ hosts' = hosts \ {h}
  /\ UNCHANGED <<stage, failed>>

\* A step of the check; queries may fail.
Work(p) ==
  /\ CheckStep(p)
  /\ LET h == run[p].host IN
       failed' = IF \/ NoExtension(p)
                    \/ run'[p].pc = "compare" /\ run'[p].cur = Empty
                    \/ /\ Compare(p) /\ report'[h] = EmptyData
                       /\ run[p].prev # Empty /\ run[p].cur # Empty
                 THEN failed \cup {h} ELSE failed
  /\ UNCHANGED <<stage, hosts>>

Killed(p) ==
  /\ Die(p)
  /\ failed' = failed \cup {run[p].host}
  /\ UNCHANGED <<stage, hosts>>

EndOfLoop ==
  /\ hosts = {} /\ AllIdle
  /\ \/ stage = "first" /\ stage' = "pause"
     \/ stage = "second" /\ stage' = "process"
  /\ UNCHANGED <<vars, hosts, failed>>

\* Seeded fault: no pause.
PauseSkipped ==
  /\ stage = "pause"
  /\ stage' = "second" /\ hosts' = Host
  /\ UNCHANGED <<vars, failed>>

\* sleep CHECKUP_SNAPSHOT_DISTANCE_SECONDS, at least one second.
Pause ==
  /\ stage = "pause"
  /\ Tick
  /\ stage' = "second" /\ hosts' = Host
  /\ UNCHANGED failed

\* ./checkup process: how it ends makes no difference to the script.
Process ==
  /\ stage = "process"
  /\ stage' = "upload"
  /\ UNCHANGED <<vars, hosts, failed>>

\* ./checkup upload
Upload ==
  /\ stage = "upload"
  /\ stage' = "done"
  /\ UNCHANGED <<vars, hosts, failed>>

\* Later the script is started again; the bounds leave room for two snapshots.
Again ==
  /\ stage = "done"
  /\ \A h \in Host : Cardinality(FilesOf(h)) + 2 <= MaxSnap
  /\ clock < MaxClock
  /\ Tick
  /\ stage' = "first" /\ hosts' = Host /\ failed' = {}

CollectStep ==
  \/ \E p \in Proc : (\E h \in Host, d \in Db : Collect(p, h, d)) \/ Work(p)
  \/ EndOfLoop
  \/ Pause

RunNext == CollectStep \/ (\E p \in Proc : Killed(p)) \/ Process \/ Upload \/ Again

\* The shell runs the next command when the last one has ended.  The queries have a
\* time-out; http.Get and http.Post of process and upload have none, so that
\* neither of these need end.
RunSpec == RunInit /\ [][RunNext]_driverVars /\ WF_driverVars(CollectStep)

-----------------------------------------------------------------------------
\* When the reports are processed, every host on which nothing failed has a K000 result
\* that compares the snapshot of the second loop with that of the first.
TwoLoopsSuffice ==
  stage \in {"process", "upload", "done"} => \A h \in Host \ failed :
    /\ report[h] \notin {NoData, EmptyData}
    /\ \E f \in FilesOf(h) :
         f.n = Cardinality(FilesOf(h)) /\ snaps[f] = report[h].to

\* Whatever fails on the way, the collected reports get processed: a check has no loop
\* that waits for something, and a loop over the hosts never comes back to a host.
ReportsProcessed == stage = "first" ~> stage = "process"
=============================================================================
