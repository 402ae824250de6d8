------------------------------- MODULE Reports -------------------------------
(***************************************************************************)
(* The loop of `checkup collect` over the checks, and the JSON report each *)
(* check leaves in the epoch directory: run_checks and                     *)
(* generate_report_json (src/checkup).                                     *)
(*                                                                         *)
(* One report file per check collects the results of all hosts.  A run     *)
(* adds the result of its host in three rounds of "jq reads the file, mv   *)
(* replaces it": the result, the nodes.json attached to the result, and    *)
(* last_nodes_json, from which `checkup process` takes the master and the  *)
(* replicas.  nodes.json is rewritten the same way before each check, by   *)
(* update_nodes_json.  No lock is held, so each jq and each mv is an       *)
(* action.                                                                 *)
(*                                                                         *)
(* Abstracted: what a check finds (a result is the role its nodes.json     *)
(* gives to the host), the numbers of the hosts and the choice of the      *)
(* directory, which are in NodesJson.                                      *)
(***************************************************************************)
EXTENDS Naturals, Sequences

CONSTANTS
  Proc,         \* the places a `checkup collect` can run in, at the same time
  Host,         \* the host names given by --hostname
  Check,        \* the scripts resources/checks/*_*.sh
  MasterOnly,   \* the checks listed in skip_on_replica
  Order,        \* the checks in the order of the file names
  MaxFlips      \* bound: the failovers of a server during one run

ASSUME CheckAssumption ==
  /\ MasterOnly \subseteq Check
  /\ Order \in Seq(Check)
  /\ \A c \in Check : \E i \in 1 .. Len(Order) : Order[i] = c
ASSUME FlipsAssumption == MaxFlips \in Nat

VARIABLES
  server,    \* server[h]: the role of the Postgres server of h
  nodes,     \* nodes[h]: the role of h in nodes.json
  report,    \* report[c]: the file <check_id>_<check_name>.json
  run,       \* run[p]: the run of the script in p
  flips,     \* history: flips[p], the failovers of run p's server during the run
  lapses,    \* history: lapses[p], the master-only checks p started on a standby
  torn,      \* history: torn[c], the hosts whose run died inside the report of c
  clash,     \* history: the reports two runs were writing at once
  overlap    \* history: two runs were rewriting nodes.json at once

vars == <<server, nodes, report, run, flips, lapses, torn, clash, overlap>>

-----------------------------------------------------------------------------
Role == {"master", "standby"}
Unknown == "null"                                \* jq: no such host, no such key
NodesContent == [Host -> Role \cup {Unknown}]
NoNodes == [h \in Host |-> Unknown]

\* A result: there is none, it has no "nodes.json" yet, or it has one, which
\* gives this role to the host, or does not know the host.
Result == {"none", "bare", Unknown} \cup Role
\* resources/templates/report.json: no result, last_nodes_json is null.
EmptyReport == [results |-> [h \in Host |-> "none"], last |-> NoNodes]
Report == [results : [Host -> Result], last : NodesContent]

Command == {"idle", "next", "jqNodes", "mvNodes", "check",
            "jq1", "mv1", "jq2", "mv2", "jq3", "mv3"}
Run == [pc : Command,                            \* the next command
        host : Host \cup {Unknown},              \* HOST
        role : Role \cup {Unknown},              \* ROLE
        file : Check \cup {Unknown},             \* FILE
        todo : Seq(Check),                       \* the checks that are left
        failed : SUBSET Check,                   \* check_failed_json_stack
        found : BOOLEAN,                         \* nodes.json was there: jq reads it
       draft : NodesContent,                    \* nodes.json.tmp_XXXXXX
        tmp : Report]                            \* the output of jq for a report
NoRun == [pc |-> "idle", host |-> Unknown, role |-> Unknown, file |-> Unknown,
          todo |-> <<>>, failed |-> {}, found |-> FALSE, draft |-> NoNodes,
          tmp |-> EmptyReport]

Current(p) == Head(run[p].todo)
Writing(p) == run[p].pc \in {"mv1", "jq2", "mv2", "jq3", "mv3"}
Collides(p) == \E q \in Proc \ {p} : Writing(q) /\ Current(q) = Current(p)
Updating(p) == run[p].pc \in {"jqNodes", "mvNodes"}

\* Without a file name, all checks; with --file, that one.
Plan(file) == IF file = Unknown THEN Order ELSE <<file>>

-----------------------------------------------------------------------------
Init ==
  /\ server \in [Host -> Role]
  /\ nodes = NoNodes
  /\ report = [c \in Check |-> EmptyReport]
  /\ run = [p \in Proc |-> NoRun]
  /\ flips = [p \in Proc |-> 0]
  /\ lapses = [p \in Proc |-> 0]
  /\ torn = [c \in Check |-> {}]
  /\ clash = {}
  /\ overlap = FALSE

\* run_checks begins by asking the server for its role.
Start(p, h, file) ==
  /\ run[p].pc = "idle"
  /\ run' = [run EXCEPT ![p] = [NoRun EXCEPT
                !.pc = "next", !.host = h, !.role = server[h],
                !.file = file, !.todo = Plan(file)]]
  /\ flips' = [flips EXCEPT ![p] = 0]
  /\ lapses' = [lapses EXCEPT ![p] = 0]
  /\ UNCHANGED <<server, nodes, report, torn, clash, overlap>>

\* A check of skip_on_replica, and ROLE, set by the previous check, is standby.
SkipReport(p) == run[p].role = "standby" /\ Current(p) \in MasterOnly

Skip(p) ==
  /\ run[p].pc = "next" /\ run[p].todo # <<>>
  /\ SkipReport(p)
  /\ run' = [run EXCEPT ![p].todo = Tail(@)]
  /\ UNCHANGED <<server, nodes, report, flips, lapses, torn, clash, overlap>>

\* Seeded fault: ROLE is local to update_nodes_json.
AskRoleLocal(p) ==
  /\ run[p].pc = "next" /\ run[p].todo # <<>>
  /\ ~SkipReport(p)
  /\ LET role == server[run[p].host] IN
       /\ run' = [run EXCEPT ![p].pc = "jqNodes", ![p].found = nodes # NoNodes]
       /\ lapses' = IF Current(p) \in MasterOnly /\ role = "standby"
                    THEN [lapses EXCEPT ![p] = @ + 1] ELSE lapses
  /\ overlap' = (overlap \/ \E q \in Proc \ {p} : Updating(q))
  /\ UNCHANGED <<server, nodes, report, flips, torn, clash>>

\* update_nodes_json asks again for the role and keeps it in ROLE, and looks for
\* nodes.json; the check will be performed whatever the answer is.
AskRole(p) ==
  /\ run[p].pc = "next" /\ run[p].todo # <<>>
  /\ ~SkipReport(p)
  /\ LET role == server[run[p].host] IN
       /\ run' = [run EXCEPT ![p].pc = "jqNodes", ![p].role = role,
                             ![p].found = nodes # NoNodes]
       /\ lapses' = IF Current(p) \in MasterOnly /\ role = "standby"
                    THEN [lapses EXCEPT ![p] = @ + 1] ELSE lapses
  /\ overlap' = (overlap \/ \E q \in Proc \ {p} : Updating(q))
  /\ UNCHANGED <<server, nodes, report, flips, torn, clash>>

\* jq reads nodes.json, or the template if there was none when the script looked,
\* whatever has been installed since; it writes a temporary file.
DraftNodes(p) ==
  /\ run[p].pc = "jqNodes"
  /\ LET input == IF run[p].found THEN nodes ELSE NoNodes IN
       run' = [run EXCEPT ![p].pc = "mvNodes", ![p].found = FALSE,
                          ![p].draft = [input EXCEPT ![run[p].host] = run[p].role]]
  /\ UNCHANGED <<server, nodes, report, flips, lapses, torn, clash, overlap>>

\* mv: the temporary file becomes nodes.json; what another run has added since it
\* was drafted is lost.
InstallNodesJson(p) ==
  /\ run[p].pc = "mvNodes"
  /\ nodes' = run[p].draft
  /\ run' = [run EXCEPT ![p].pc = "check", ![p].draft = NoNodes]
  /\ UNCHANGED <<server, report, flips, lapses, torn, clash, overlap>>

\* Seeded fault: the failed check is not put on the stack.
CheckFailsUnnoted(p) ==
  /\ run[p].pc = "check"
  /\ run' = [run EXCEPT ![p].pc = "next", ![p].todo = Tail(@)]
  /\ UNCHANGED <<server, nodes, report, flips, lapses, torn, clash, overlap>>

\* Seeded fault: the loop advances in the middle of the failed check.
CheckFailsEarly(p) ==
  /\ run[p].pc = "check"
  /\ run' = [run EXCEPT ![p].todo = Tail(@), ![p].failed = @ \cup {Current(p)}]
  /\ UNCHANGED <<server, nodes, report, flips, lapses, torn, clash, overlap>>

\* The script of the check fails: its report stays as it is, and the loop goes on
\* with the next check (with --file, it ends: nothing is left to do).
CheckFails(p) ==
  /\ run[p].pc = "check"
  /\ run' = [run EXCEPT ![p].pc = "next", ![p].todo = Tail(@),
                        ![p].failed = @ \cup {Current(p)}]
  /\ UNCHANGED <<server, nodes, report, flips, lapses, torn, clash, overlap>>

CheckPasses(p) ==
  /\ run[p].pc = "check"
  /\ run' = [run EXCEPT ![p].pc = "jq1"]
  /\ UNCHANGED <<server, nodes, report, flips, lapses, torn, clash, overlap>>

\* jq reads the report of the current check and writes a temporary file.
Draft(p, from, to, new) ==
  /\ run[p].pc = from
  /\ run' = [run EXCEPT ![p].pc = to, ![p].tmp = new]
  /\ UNCHANGED <<server, nodes, report, flips, lapses, torn, overlap>>

\* Seeded fault: `.results =` where the filter has `.results +=`.
AddResultReplace(p) ==
  /\ Draft(p, "jq1", "mv1",
           [report[Current(p)] EXCEPT !.results = [EmptyReport.results EXCEPT
                                                     ![run[p].host] = "bare"]])
  /\ clash' = IF Collides(p) THEN clash \cup {Current(p)} ELSE clash

\* .results += { HOST: { data } }: an older result of the host is replaced.
AddResult(p) ==
  /\ Draft(p, "jq1", "mv1",
           [report[Current(p)] EXCEPT !.results[run[p].host] = "bare"])
  /\ clash' = IF Collides(p) THEN clash \cup {Current(p)} ELSE clash

\* .results.HOST."nodes.json" = nodes.json
AddNodes(p) ==
  /\ Draft(p, "jq2", "mv2", [report[Current(p)] EXCEPT
                               !.results[run[p].host] = nodes[run[p].host]])
  /\ UNCHANGED clash

\* Seeded fault: last_nodes_json is written once, when it is still null.
AddLastNodesOnce(p) ==
  /\ Draft(p, "jq3", "mv3", [report[Current(p)] EXCEPT
                               !.last = IF @ = NoNodes THEN nodes ELSE @])
  /\ UNCHANGED clash

\* .last_nodes_json = nodes.json
AddLastNodes(p) ==
  /\ Draft(p, "jq3", "mv3", [report[Current(p)] EXCEPT !.last = nodes])
  /\ UNCHANGED clash

\* mv: the temporary file becomes the report.
Install(p, from, to) ==
  /\ run[p].pc = from
  /\ report' = [report EXCEPT ![Current(p)] = run[p].tmp]
  /\ run' = [run EXCEPT ![p].pc = to, ![p].tmp = EmptyReport]
  /\ UNCHANGED <<server, nodes, flips, lapses, torn, clash, overlap>>

InstallResult(p) == Install(p, "mv1", "jq2")

\* Seeded fault: the second mv is missing.
InstallNodesLost(p) ==
  /\ run[p].pc = "mv2"
  /\ run' = [run EXCEPT ![p].pc = "jq3", ![p].tmp = EmptyReport]
  /\ UNCHANGED <<server, nodes, report, flips, lapses, torn, clash, overlap>>

InstallNodes(p) == Install(p, "mv2", "jq3")

\* The last mv; the loop goes on with the next check, or, with --file, ends.
InstallLastNodes(p) ==
  /\ run[p].pc = "mv3"
  /\ report' = [report EXCEPT ![Current(p)] = run[p].tmp]
  /\ run' = [run EXCEPT ![p].pc = "next", ![p].todo = Tail(@), ![p].tmp = EmptyReport]
  /\ torn' = [torn EXCEPT ![Current(p)] = @ \ {run[p].host}]
  /\ UNCHANGED <<server, nodes, flips, lapses, clash, overlap>>

Finish(p) ==
  /\ run[p].pc = "next" /\ run[p].todo = <<>>
  /\ run' = [run EXCEPT ![p] = NoRun]
  /\ UNCHANGED <<server, nodes, report, flips, lapses, torn, clash, overlap>>

\* The run stops where it is.
Die(p) ==
  /\ run[p].pc # "idle"
  /\ run' = [run EXCEPT ![p] = NoRun]
  /\ torn' = IF run[p].pc \in {"jq2", "mv2", "jq3", "mv3"}
             THEN [torn EXCEPT ![Current(p)] = @ \cup {run[p].host}] ELSE torn
  /\ UNCHANGED <<server, nodes, report, flips, lapses, clash, overlap>>

\* The server of h becomes a master, or a standby.
Failover(h) ==
  /\ \A p \in Proc : run[p].host = h => flips[p] < MaxFlips
  /\ server' = [server EXCEPT ![h] = CHOOSE r \in Role : r # @]
  /\ flips' = [p \in Proc |-> IF run[p].host = h THEN flips[p] + 1 ELSE flips[p]]
  /\ UNCHANGED <<nodes, report, run, lapses, torn, clash, overlap>>

Next ==
  \/ \E p \in Proc :
       \/ \E h \in Host, file \in Check \cup {Unknown} : Start(p, h, file)
       \/ Skip(p) \/ AskRole(p) \/ DraftNodes(p) \/ InstallNodesJson(p)
       \/ CheckFails(p) \/ CheckPasses(p)
       \/ AddResult(p) \/ InstallResult(p) \/ AddNodes(p) \/ InstallNodes(p)
       \/ AddLastNodes(p) \/ InstallLastNodes(p)
       \/ Finish(p) \/ Die(p)
  \/ \E h \in Host : Failover(h)

Spec == Init /\ [][Next]_vars

-----------------------------------------------------------------------------
(* Properties.                                                             *)

\* Every variable has its type, and a run that performs a check has one to
\* perform, on a host.
TypeOK ==
  /\ server \in [Host -> Role]
  /\ nodes \in NodesContent
  /\ report \in [Check -> Report]
  /\ run \in [Proc -> Run]
  /\ flips \in [Proc -> Nat]
  /\ lapses \in [Proc -> Nat]
  /\ torn \in [Check -> SUBSET Host]
  /\ clash \subseteq Check
  /\ overlap \in BOOLEAN
  /\ \A p \in Proc :
       /\ run[p].pc # "idle" => run[p].host \in Host /\ run[p].role \in Role
       /\ run[p].pc \notin {"idle", "next"} => run[p].todo # <<>>

Settled(c) ==
  /\ c \notin clash
  /\ \A p \in Proc : Writing(p) => Current(p) # c

\* The result of a host never leaves a report, unless two runs wrote the report
\* at once: each of the three rounds replaces the whole file.
ResultKept ==
  [][\A c \in Check \ clash', h \in Host :
       report[c].results[h] # "none" => report'[c].results[h] # "none"]_vars

\* In a report nobody is writing, every host that has a result is among the
\* hosts of last_nodes_json: `checkup process` looks for results only there.
\* Excluded are reports two runs wrote at once, or inside which a run died, and
\* all reports once two runs have rewritten nodes.json at once: the second mv may
\* drop the host the first run has added.
ResultsNamed ==
  \A c \in Check : Settled(c) /\ torn[c] = {} /\ ~overlap =>
    \A h \in Host : report[c].results[h] # "none" => report[c].last[h] # Unknown

\* In a report nobody is writing, a result has its nodes.json, unless a run for
\* that host died inside the report and the check has not been completed since;
\* and that nodes.json knows the host, unless two runs have rewritten nodes.json
\* at once.
ResultsComplete ==
  \A c \in Check, h \in Host : Settled(c) /\ h \notin torn[c] =>
    /\ report[c].results[h] # "bare"
    /\ ~overlap => report[c].results[h] # Unknown

\* ROLE lags one check behind, so a failover can let a master-only check start on
\* a standby; but every such check takes a failover of its own.
LapsesBounded == \A p \in Proc : lapses[p] <= flips[p]

\* A run that has come to its end has, for every check, a result in the report, an
\* entry in the list of failed checks, or a reason to skip it: the server is a
\* standby or was one during the run.
AccountedFor ==
  \A p \in Proc : run[p].pc = "next" =>
    \A c \in Check \ clash : run[p].file \in {c, Unknown} =>
      \/ report[c].results[run[p].host] # "none"
      \/ c \in run[p].failed
      \/ \E i \in 1 .. Len(run[p].todo) : run[p].todo[i] = c
      \/ c \in MasterOnly /\ (server[run[p].host] = "standby" \/ flips[p] > 0)
=============================================================================
