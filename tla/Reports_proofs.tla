---------------------------- MODULE Reports_proofs ----------------------------
(***************************************************************************)
(* The safety properties of Reports, for every set of runs, hosts and      *)
(* checks.                                                                 *)
(*                                                                         *)
(* The argument. A report is replaced three times for one result, each     *)
(* time by what jq made of the report and left in a temporary file. As     *)
(* long as two runs have not written the same report at once (it is not in *)
(* clash), the report is still the one jq has read when the file takes its *)
(* place; Drafted says so, command by command, and Exclusive that nobody   *)
(* else is inside. NodesInv says the same of nodes.json, until two runs    *)
(* have rewritten it at once (overlap): hosts never leave it. From there,  *)
(* Named and Complete say what a report lacks while a run is inside it, or *)
(* has died there. RoleLags counts the failovers a run knows of: they pay  *)
(* for its lapses. Planned follows a check from the list of those that are *)
(* left to a result, a failure, or a reason to skip it.                    *)
(*                                                                         *)
(* Most proofs do not look at the actions: WriteSteps classifies the steps *)
(* by what they do to reports and temporary files, and the invariants are  *)
(* proved for each kind of step.                                           *)
(***************************************************************************)
EXTENDS Reports, SequenceTheorems, TLAPS

\* The run in p performs a check.
Performing(p) == run[p].pc \notin {"idle", "next"}

\* In step p, the run in p comes to command pc with these checks left and this
\* temporary file; the other runs do not change.
Moves(p, pc, todo, tmp) ==
  /\ \A q \in Proc : q # p => run'[q] = run[q]
  /\ run'[p].pc = pc /\ run'[p].todo = todo /\ run'[p].tmp = tmp

\* The run keeps its host and its file.
Keeps(p) == run'[p].host = run[p].host /\ run'[p].file = run[p].file

\* A role, or none: what nodes.json may say of a host.
Attached == Role \cup {Unknown}

\* The temporary file for nodes.json has the host, and all the hosts of
\* nodes.json.
Extends(draft, host) ==
  draft[host] # Unknown /\ \A g \in Host : nodes[g] # Unknown => draft[g] # Unknown

\* As long as no two runs rewrite nodes.json at once, a run that is about to
\* replace it loses no host, and the host of a run that is past that is there.
NodesInv == ~overlap =>
  /\ \A p, q \in Proc : Updating(p) /\ Updating(q) => p = q
  /\ \A p \in Proc : run[p].pc = "jqNodes" /\ ~run[p].found => nodes = NoNodes
  /\ \A p \in Proc : run[p].pc = "mvNodes" => Extends(run[p].draft, run[p].host)
  /\ \A p \in Proc : Performing(p) /\ ~Updating(p) => nodes[run[p].host] # Unknown

\* The part of the invariant the other parts rest on.
TypeInv == TypeOK /\ NodesInv

\* The first of the three rounds is over, the last is not.
Inside(p) == run[p].pc \in {"jq2", "mv2", "jq3", "mv3"}

\* A host that is not in nodes.json has no result, in no report and in no
\* temporary file, and the nodes.json of a result knows its host, unless two runs
\* have rewritten nodes.json at once.
ResultsKnown == ~overlap => \A h \in Host :
   /\ \A c \in Check : /\ nodes[h] = Unknown => report[c].results[h] = "none"
                       /\ report[c].results[h] # Unknown
   /\ \A p \in Proc : /\ nodes[h] = Unknown => run[p].tmp.results[h] = "none"
                      /\ run[p].tmp.results[h] # Unknown

\* Two runs that write the same report have been noticed.
Exclusive == \A p, q \in Proc :
   Writing(p) /\ Writing(q) /\ p # q /\ Current(p) = Current(q) => Current(p) \in clash

\* t is r, with a result of h from X in place of the one r has.
Adds(t, r, h, X) ==
  /\ t.results[h] \in X /\ t.last = r.last
  /\ \A g \in Host : g # h => t.results[g] = r.results[g]

\* The temporary file of the first round is the report with the new result ...
Draft1(p) == run[p].pc = "mv1" => Adds(run[p].tmp, report[Current(p)], run[p].host, {"bare"})

\* ... that of the second with a result that has its nodes.json ...
Draft2(p) == run[p].pc = "mv2" => Adds(run[p].tmp, report[Current(p)], run[p].host, Attached)

\* ... and that of the third has all the hosts of the results in
\* last_nodes_json.
Draft3(p) == run[p].pc = "mv3" =>
   /\ run[p].tmp.results = report[Current(p)].results
   /\ ~overlap => \A h \in Host : run[p].tmp.results[h] # "none" => run[p].tmp.last[h] # Unknown

\* After the first round, the result is there; after the second, with its
\* nodes.json.
Added(p) ==
  /\ Inside(p) => report[Current(p)].results[run[p].host] # "none"
  /\ run[p].pc \in {"jq3", "mv3"} => report[Current(p)].results[run[p].host] # "bare"

\* All of it, for a run that is inside a report nobody else has been in.
DraftedIn(p) == Writing(p) /\ Current(p) \notin clash =>
   Draft1(p) /\ Draft2(p) /\ Draft3(p) /\ Added(p)

\* All of it, for every run.
Drafted == \A p \in Proc : DraftedIn(p)

\* In a report no run is inside of, and inside which no run has died, the hosts
\* of the results are in last_nodes_json, unless two runs have rewritten
\* nodes.json at once.
Named == ~overlap => \A c \in Check \ clash : torn[c] = {} /\ (\A p \in Proc : Inside(p) => Current(p) # c) =>
   \A h \in Host : report[c].results[h] # "none" => report[c].last[h] # Unknown

\* A result without its nodes.json is one some run is about to complete, or one
\* whose run has died.
Complete == \A c \in Check \ clash, h \in Host : report[c].results[h] = "bare" /\ h \notin torn[c] =>
   \E p \in Proc : run[p].pc \in {"jq2", "mv2"} /\ Current(p) = c /\ run[p].host = h

\* Every lapse of a run took a failover of its server, and so did a ROLE that is
\* not the server's.
RoleLags == \A p \in Proc : run[p].pc # "idle" =>
   lapses[p] + (IF run[p].role = server[run[p].host] THEN 0 ELSE 1) <= flips[p]

\* The check is in the list.
InList(c, s) == \E i \in 1 .. Len(s) : s[i] = c

\* Of check c, run p has a result or a failure, or has it still before it, or
\* has a reason to skip it.
Accounted(p, c) ==
  run[p].pc # "idle" /\ run[p].file \in {c, Unknown} =>
    \/ report[c].results[run[p].host] # "none"
    \/ c \in run[p].failed
    \/ InList(c, run[p].todo)
    \/ c \in MasterOnly /\ (server[run[p].host] = "standby" \/ flips[p] > 0)

\* All runs account for all checks, but for those whose report two runs wrote at
\* once.
Planned == \A p \in Proc, c \in Check \ clash : Accounted(p, c)

\* In a step of run p, the other runs do not change.
Alone(p) == \A q \in Proc : q # p => run'[q] = run[q]

\* A step of a run that is not inside a report, before or after it.
Outside(p) ==
  /\ Alone(p) /\ ~Writing(p) /\ run'[p].pc \notin {"mv1", "jq2", "mv2", "jq3", "mv3"}
  /\ run'[p].tmp \in {run[p].tmp, EmptyReport}
  /\ overlap => overlap'
  /\ ~overlap => \A h \in Host : nodes[h] # Unknown => nodes'[h] # Unknown
  /\ UNCHANGED <<report, torn, clash>>

\* jq has read the report of the current check and written a temporary file.
Drafts(p, from, to) ==
  /\ Alone(p) /\ run[p].pc = from /\ run'[p].pc = to
  /\ run'[p].todo = run[p].todo /\ run'[p].host = run[p].host
  /\ Current(p) \in Check /\ run[p].host \in Host
  /\ nodes[run[p].host] \in Attached /\ (~overlap => nodes[run[p].host] \in Role)
  /\ UNCHANGED <<nodes, report, torn, overlap>>

\* The temporary file takes the place of the report.
Replaces(p, from, to) ==
  /\ Alone(p) /\ run[p].pc = from /\ run'[p].pc = to
  /\ run'[p].tmp = EmptyReport /\ run'[p].host = run[p].host
  /\ Current(p) \in Check /\ run[p].host \in Host
  /\ report'[Current(p)] = run[p].tmp
  /\ \A c \in Check : c # Current(p) => report'[c] = report[c]
  /\ UNCHANGED <<nodes, clash, overlap>>

\* A run dies inside a report.
Stops(p) ==
  /\ Alone(p) /\ Writing(p) /\ Current(p) \in Check /\ run[p].host \in Host
  /\ run'[p].pc = "idle" /\ run'[p].tmp = EmptyReport
  /\ torn'[Current(p)] = IF Inside(p) THEN torn[Current(p)] \cup {run[p].host} ELSE torn[Current(p)]
  /\ \A c \in Check : c # Current(p) => torn'[c] = torn[c]
  /\ UNCHANGED <<nodes, report, clash, overlap>>

\* What a step of run p may do to reports and temporary files.
WriteStep(p) ==
  \/ Outside(p)
  \/ /\ Drafts(p, "jq1", "mv1")
     /\ Adds(run'[p].tmp, report[Current(p)], run[p].host, {"bare"})
     /\ clash' = IF Collides(p) THEN clash \cup {Current(p)} ELSE clash
  \/ /\ Replaces(p, "mv1", "jq2") /\ run'[p].todo = run[p].todo
     /\ UNCHANGED torn
  \/ /\ Drafts(p, "jq2", "mv2") /\ UNCHANGED clash
     /\ Adds(run'[p].tmp, report[Current(p)], run[p].host, {nodes[run[p].host]})
  \/ /\ Replaces(p, "mv2", "jq3") /\ run'[p].todo = run[p].todo
     /\ UNCHANGED torn
  \/ /\ Drafts(p, "jq3", "mv3") /\ UNCHANGED clash
     /\ run'[p].tmp.results = report[Current(p)].results /\ run'[p].tmp.last = nodes
  \/ /\ Replaces(p, "mv3", "next")
     /\ torn'[Current(p)] = torn[Current(p)] \ {run[p].host}
     /\ \A c \in Check : c # Current(p) => torn'[c] = torn[c]
  \/ Stops(p)

\* The constant reports and roles have their types.
LEMMA Constants ==
  /\ NoNodes \in NodesContent
  /\ EmptyReport \in Report /\ \A h \in Host : EmptyReport.results[h] = "none"
  /\ Unknown \notin Role /\ Attached \subseteq Result /\ "bare" \in Result
  /\ Unknown \notin {"none", "bare"} /\ Attached = Role \cup {Unknown}
  /\ "none" \notin Attached /\ "bare" \notin Attached
  BY DEF Attached, NoNodes, NodesContent, EmptyReport, Report, Result, Role, Unknown

\* A place in which nothing runs has its type.
LEMMA NoRunFields ==
  NoRun \in Run /\ NoRun.pc = "idle" /\ NoRun.tmp = EmptyReport
  <1>1. "idle" \in Command /\ <<>> \in Seq(Check)
    BY DEF Command
  <1> QED
    BY <1>1, Constants DEF NoRun, Run

\* Start, field by field.
LEMMA StartFields ==
  ASSUME TypeOK, NEW p \in Proc, NEW h \in Host, NEW file \in Check \cup {Unknown},
         Start(p, h, file)
  PROVE  /\ run' \in [Proc -> Run]
         /\ Moves(p, "next", Plan(file), EmptyReport)
         /\ run'[p].host = h /\ run'[p].file = file /\ run'[p].role = server[h]
         /\ run'[p].failed = {}
  <1> DEFINE r == [NoRun EXCEPT !.pc = "next", !.host = h, !.role = server[h],
                                !.file = file, !.todo = Plan(file)]
  <1>1. Plan(file) \in Seq(Check)
    BY CheckAssumption DEF Plan
  <1>2. /\ r \in Run /\ r.pc = "next" /\ r.host = h /\ r.role = server[h] /\ r.file = file
        /\ r.todo = Plan(file) /\ r.tmp = EmptyReport /\ r.failed = {}
    BY <1>1, Constants DEF TypeOK, NoRun, Run, Command
  <1>3. run' = [run EXCEPT ![p] = r]
    BY DEF Start
  <1> HIDE DEF r
  <1> QED
    BY <1>2, <1>3 DEF Moves, TypeOK

\* Skip, field by field.
LEMMA SkipFields ==
  ASSUME TypeOK, NEW p \in Proc, Skip(p)
  PROVE  /\ run' \in [Proc -> Run]
         /\ Moves(p, "next", Tail(run[p].todo), run[p].tmp) /\ Keeps(p)
         /\ run'[p].role = run[p].role /\ run'[p].failed = run[p].failed
  <1> DEFINE r == [run[p] EXCEPT !.todo = Tail(@)]
  <1>1. run[p] \in Run /\ run[p].todo \in Seq(Check)
    BY DEF TypeOK, Run
  <1>2. Tail(run[p].todo) \in Seq(Check)
    BY <1>1, HeadTailProperties DEF Skip
  <1>3. /\ r \in Run /\ r.pc = "next" /\ r.host = run[p].host /\ r.file = run[p].file
        /\ r.todo = Tail(run[p].todo) /\ r.tmp = run[p].tmp /\ r.role = run[p].role /\ r.failed = run[p].failed
    BY <1>1, <1>2 DEF Run, Command, Skip
  <1>4. run' = [run EXCEPT ![p] = r]
    BY DEF Skip
  <1> HIDE DEF r
  <1> QED
    BY <1>3, <1>4 DEF Moves, Keeps, TypeOK

\* AskRole, field by field.
LEMMA AskRoleFields ==
  ASSUME TypeOK, NEW p \in Proc, AskRole(p)
  PROVE  /\ run' \in [Proc -> Run]
         /\ Moves(p, "jqNodes", run[p].todo, run[p].tmp) /\ Keeps(p)
         /\ run'[p].role = server[run[p].host] /\ run'[p].failed = run[p].failed
         /\ run'[p].found = (nodes # NoNodes)
  <1> DEFINE f == nodes # NoNodes
             r == [run[p] EXCEPT !.pc = "jqNodes", !.role = server[run[p].host], !.found = f]
  <1>1. run[p] \in Run /\ run[p].todo \in Seq(Check)
    BY DEF TypeOK, Run
  <1>2. server[run[p].host] \in Role
    BY DEF TypeOK, AskRole
  <1>4. run' = [run EXCEPT ![p] = r]
    BY DEF AskRole
  <1>5. f \in BOOLEAN
    OBVIOUS
  <1> HIDE DEF f
  <1>3. /\ r \in Run /\ r.pc = "jqNodes" /\ r.host = run[p].host /\ r.file = run[p].file
        /\ r.todo = run[p].todo /\ r.tmp = run[p].tmp /\ r.role = server[run[p].host] /\ r.failed = run[p].failed
        /\ r.found = f
    BY <1>1, <1>2, <1>5 DEF Run, Command
  <1> HIDE DEF r
  <1> QED
    BY <1>3, <1>4 DEF Moves, Keeps, TypeOK, f

\* DraftNodes, field by field.
LEMMA DraftNodesFields ==
  ASSUME TypeOK, NEW p \in Proc, DraftNodes(p)
  PROVE  /\ run' \in [Proc -> Run]
         /\ Moves(p, "mvNodes", run[p].todo, run[p].tmp) /\ Keeps(p)
         /\ run'[p].role = run[p].role /\ run'[p].failed = run[p].failed
         /\ run'[p].draft[run[p].host] = run[p].role
         /\ \A g \in Host : g # run[p].host =>
              run'[p].draft[g] = IF run[p].found THEN nodes[g] ELSE NoNodes[g]
  <1> DEFINE i == IF run[p].found THEN nodes ELSE NoNodes
             d == [i EXCEPT ![run[p].host] = run[p].role]
             r == [run[p] EXCEPT !.pc = "mvNodes", !.found = FALSE, !.draft = d]
  <1>1. run[p] \in Run /\ run[p].todo \in Seq(Check)
    BY DEF TypeOK, Run
  <1>2. run[p].host \in Host /\ run[p].role \in Role /\ nodes \in NodesContent
    BY DEF TypeOK, DraftNodes
  <1>6. i \in NodesContent
    BY <1>2, Constants
  <1>7. \A g \in Host : i[g] = IF run[p].found THEN nodes[g] ELSE NoNodes[g]
    OBVIOUS
  <1>8. run' = [run EXCEPT ![p] = r]
    BY DEF DraftNodes
  <1> HIDE DEF i
  <1>3. /\ d \in NodesContent /\ d[run[p].host] = run[p].role
        /\ \A g \in Host : g # run[p].host => d[g] = i[g]
    BY <1>2, <1>6 DEF NodesContent
  <1> HIDE DEF d
  <1>5. /\ r \in Run /\ r.pc = "mvNodes" /\ r.host = run[p].host /\ r.file = run[p].file
        /\ r.todo = run[p].todo /\ r.tmp = run[p].tmp /\ r.role = run[p].role /\ r.failed = run[p].failed
        /\ r.draft = d
    BY <1>1, <1>3 DEF Run, Command
  <1> HIDE DEF r
  <1> QED
    BY <1>3, <1>5, <1>7, <1>8 DEF Moves, Keeps, TypeOK

\* InstallNodesJson, field by field.
LEMMA InstallNodesJsonFields ==
  ASSUME TypeOK, NEW p \in Proc, InstallNodesJson(p)
  PROVE  /\ run' \in [Proc -> Run]
         /\ Moves(p, "check", run[p].todo, run[p].tmp) /\ Keeps(p)
         /\ run'[p].role = run[p].role /\ run'[p].failed = run[p].failed
  <1> DEFINE r == [run[p] EXCEPT !.pc = "check", !.draft = NoNodes]
  <1>1. run[p] \in Run /\ run[p].todo \in Seq(Check)
    BY DEF TypeOK, Run
  <1>2. /\ r \in Run /\ r.pc = "check" /\ r.host = run[p].host /\ r.file = run[p].file
        /\ r.todo = run[p].todo /\ r.tmp = run[p].tmp /\ r.role = run[p].role /\ r.failed = run[p].failed
    BY <1>1, Constants DEF Run, Command
  <1>3. run' = [run EXCEPT ![p] = r]
    BY DEF InstallNodesJson
  <1> HIDE DEF r
  <1> QED
    BY <1>2, <1>3 DEF Moves, Keeps, TypeOK

\* CheckFails, field by field.
LEMMA CheckFailsFields ==
  ASSUME TypeOK, NEW p \in Proc, CheckFails(p)
  PROVE  /\ run' \in [Proc -> Run]
         /\ Moves(p, "next", Tail(run[p].todo), run[p].tmp) /\ Keeps(p)
         /\ run'[p].role = run[p].role /\ run'[p].failed = run[p].failed \cup {Current(p)}
  <1> DEFINE r == [run[p] EXCEPT !.pc = "next", !.todo = Tail(@),
                                  !.failed = @ \cup {Current(p)}]
  <1>1. run[p] \in Run /\ run[p].todo \in Seq(Check)
    BY DEF TypeOK, Run
  <1>2. Tail(run[p].todo) \in Seq(Check) /\ Current(p) \in Check
    BY <1>1, HeadTailProperties DEF TypeOK, CheckFails, Current
  <1>3. /\ r \in Run /\ r.pc = "next" /\ r.host = run[p].host /\ r.file = run[p].file
        /\ r.todo = Tail(run[p].todo) /\ r.tmp = run[p].tmp /\ r.role = run[p].role /\ r.failed = run[p].failed \cup {Current(p)}
    BY <1>1, <1>2 DEF Run, Command, CheckFails
  <1>4. run' = [run EXCEPT ![p] = r]
    BY DEF CheckFails
  <1> HIDE DEF r
  <1> QED
    BY <1>3, <1>4 DEF Moves, Keeps, TypeOK

\* CheckPasses, field by field.
LEMMA CheckPassesFields ==
  ASSUME TypeOK, NEW p \in Proc, CheckPasses(p)
  PROVE  /\ run' \in [Proc -> Run]
         /\ Moves(p, "jq1", run[p].todo, run[p].tmp) /\ Keeps(p)
         /\ run'[p].role = run[p].role /\ run'[p].failed = run[p].failed
  <1> DEFINE r == [run[p] EXCEPT !.pc = "jq1"]
  <1>1. run[p] \in Run /\ run[p].todo \in Seq(Check)
    BY DEF TypeOK, Run
  <1>3. /\ r \in Run /\ r.pc = "jq1" /\ r.host = run[p].host /\ r.file = run[p].file
        /\ r.todo = run[p].todo /\ r.tmp = run[p].tmp /\ r.role = run[p].role /\ r.failed = run[p].failed
    BY <1>1 DEF Run, Command, CheckPasses
  <1>4. run' = [run EXCEPT ![p] = r]
    BY DEF CheckPasses
  <1> HIDE DEF r
  <1> QED
    BY <1>3, <1>4 DEF Moves, Keeps, TypeOK

\* A call of jq, field by field.
LEMMA DraftFields ==
  ASSUME TypeOK, NEW p \in Proc, NEW from, NEW to \in Command, NEW new \in Report,
         Draft(p, from, to, new)
  PROVE  /\ run' \in [Proc -> Run]
         /\ Moves(p, to, run[p].todo, new) /\ Keeps(p)
         /\ run'[p].role = run[p].role /\ run'[p].failed = run[p].failed
  <1> DEFINE r == [run[p] EXCEPT !.pc = to, !.tmp = new]
  <1>1. run[p] \in Run /\ run[p].todo \in Seq(Check)
    BY DEF TypeOK, Run
  <1>3. /\ r \in Run /\ r.pc = to /\ r.host = run[p].host /\ r.file = run[p].file
        /\ r.todo = run[p].todo /\ r.tmp = new /\ r.role = run[p].role /\ r.failed = run[p].failed
    BY <1>1 DEF Run, Command
  <1>4. run' = [run EXCEPT ![p] = r]
    BY DEF Draft
  <1> HIDE DEF r
  <1> QED
    BY <1>3, <1>4 DEF Moves, Keeps, TypeOK

\* An mv, field by field.
LEMMA InstallFields ==
  ASSUME TypeOK, NEW p \in Proc, NEW from, NEW to \in Command, Install(p, from, to)
  PROVE  /\ run' \in [Proc -> Run]
         /\ Moves(p, to, run[p].todo, EmptyReport) /\ Keeps(p)
         /\ run'[p].role = run[p].role /\ run'[p].failed = run[p].failed
  <1> DEFINE r == [run[p] EXCEPT !.pc = to, !.tmp = EmptyReport]
  <1>1. run[p] \in Run /\ run[p].todo \in Seq(Check)
    BY DEF TypeOK, Run
  <1>3. /\ r \in Run /\ r.pc = to /\ r.host = run[p].host /\ r.file = run[p].file
        /\ r.todo = run[p].todo /\ r.tmp = EmptyReport /\ r.role = run[p].role /\ r.failed = run[p].failed
    BY <1>1, Constants DEF Run, Command
  <1>4. run' = [run EXCEPT ![p] = r]
    BY DEF Install
  <1> HIDE DEF r
  <1> QED
    BY <1>3, <1>4 DEF Moves, Keeps, TypeOK

\* The last mv, field by field.
LEMMA InstallLastNodesFields ==
  ASSUME TypeOK, NEW p \in Proc, InstallLastNodes(p)
  PROVE  /\ run' \in [Proc -> Run]
         /\ Moves(p, "next", Tail(run[p].todo), EmptyReport) /\ Keeps(p)
         /\ run'[p].role = run[p].role /\ run'[p].failed = run[p].failed
  <1> DEFINE r == [run[p] EXCEPT !.pc = "next", !.todo = Tail(@), !.tmp = EmptyReport]
  <1>1. run[p] \in Run /\ run[p].todo \in Seq(Check)
    BY DEF TypeOK, Run
  <1>2. Tail(run[p].todo) \in Seq(Check)
    BY <1>1, HeadTailProperties DEF TypeOK, InstallLastNodes
  <1>3. /\ r \in Run /\ r.pc = "next" /\ r.host = run[p].host /\ r.file = run[p].file
        /\ r.todo = Tail(run[p].todo) /\ r.tmp = EmptyReport /\ r.role = run[p].role /\ r.failed = run[p].failed
    BY <1>1, <1>2, Constants DEF Run, Command, InstallLastNodes
  <1>4. run' = [run EXCEPT ![p] = r]
    BY DEF InstallLastNodes
  <1> HIDE DEF r
  <1> QED
    BY <1>3, <1>4 DEF Moves, Keeps, TypeOK

\* The end of a run, field by field.
LEMMA StopFields ==
  ASSUME TypeOK, NEW p \in Proc, Finish(p) \/ Die(p)
  PROVE  run' \in [Proc -> Run] /\ Moves(p, "idle", <<>>, EmptyReport)
  <1>1. run' = [run EXCEPT ![p] = NoRun]
    BY DEF Finish, Die
  <1> QED
    BY <1>1, NoRunFields DEF TypeOK, Moves, NoRun

\* What a run that performs a check works on.
LEMMA DraftTypes ==
  ASSUME TypeInv, NEW p \in Proc, Performing(p)
  PROVE  /\ Current(p) \in Check /\ report[Current(p)] \in Report
         /\ run[p].host \in Host /\ nodes[run[p].host] \in Attached
         /\ ~overlap /\ ~Updating(p) => nodes[run[p].host] \in Role
         /\ run[p].todo \in Seq(Check) /\ run[p].todo # <<>>
         /\ run[p].tmp \in Report
  <1>1. run[p] \in Run /\ run[p].todo # <<>> /\ run[p].host \in Host
    BY DEF TypeInv, TypeOK, Performing
  <1>2. run[p].todo \in Seq(Check) /\ run[p].tmp \in Report
    BY <1>1 DEF Run
  <1>3. Current(p) \in Check
    BY <1>1, <1>2, HeadTailProperties DEF Current
  <1> QED
    BY <1>1, <1>2, <1>3 DEF TypeInv, TypeOK, NodesInv, NodesContent, Attached

\* A report with another result is a report.
LEMMA WithResultType ==
  ASSUME NEW r \in Report, NEW h \in Host, NEW x \in Result
  PROVE  [r EXCEPT !.results[h] = x] \in Report
  BY DEF Report

\* Every step preserves the types.
LEMMA TypeInductive ==
  ASSUME TypeInv, [Next]_vars
  PROVE  TypeOK'
  <1>0. TypeOK
    BY DEF TypeInv
  <1> USE Constants
  <1> DEFINE Rest == /\ server' \in [Host -> Role] /\ nodes' \in NodesContent
                     /\ report' \in [Check -> Report] /\ flips' \in [Proc -> Nat]
                     /\ lapses' \in [Proc -> Nat] /\ torn' \in [Check -> SUBSET Host]
                     /\ clash' \subseteq Check /\ overlap' \in BOOLEAN
  <1>a. ASSUME NEW p \in Proc, NEW pc, NEW todo, NEW tmp, Moves(p, pc, todo, tmp),
               run' \in [Proc -> Run], Rest,
               pc # "idle" => run'[p].host \in Host /\ run'[p].role \in Role,
               pc \notin {"idle", "next"} => todo # <<>>
        PROVE  TypeOK'
    BY <1>0, <1>a DEF TypeOK, Moves
  <1>b. ASSUME NEW p \in Proc, run[p].pc # "idle", Keeps(p), run'[p].role = run[p].role
        PROVE  run'[p].host \in Host /\ run'[p].role \in Role /\ run'[p].host = run[p].host
    BY <1>0, <1>b DEF TypeOK, Keeps
  <1>1. ASSUME NEW p \in Proc, NEW h \in Host, NEW file \in Check \cup {Unknown}, Start(p, h, file)
        PROVE TypeOK'
    <2>1. Rest /\ server[h] \in Role
      BY <1>0, <1>1 DEF TypeOK, Start
    <2>2. /\ run' \in [Proc -> Run] /\ Moves(p, "next", Plan(file), EmptyReport)
          /\ run'[p].host = h /\ run'[p].role = server[h]
      BY <1>0, <1>1, StartFields
    <2> QED
      BY <2>1, <2>2, <1>a
  <1>2. ASSUME NEW p \in Proc, Skip(p) PROVE TypeOK'
    <2>1. Rest /\ run[p].pc = "next"
      BY <1>0, <1>2 DEF TypeOK, Skip
    <2> QED
      BY <2>1, <1>0, <1>2, <1>a, <1>b, SkipFields
  <1>3. ASSUME NEW p \in Proc, AskRole(p) PROVE TypeOK'
    <2>1. server[run[p].host] \in Role /\ run[p].todo # <<>> /\ run[p].host \in Host
      BY <1>0, <1>3 DEF TypeOK, AskRole
    <2>2. Rest
      BY <1>0, <1>3 DEF TypeOK, AskRole
    <2>3. /\ run' \in [Proc -> Run] /\ Moves(p, "jqNodes", run[p].todo, run[p].tmp)
          /\ run'[p].host = run[p].host /\ run'[p].role = server[run[p].host]
      BY <1>0, <1>3, AskRoleFields DEF Keeps
    <2> QED
      BY <2>1, <2>2, <2>3, <1>a
  <1>12. ASSUME NEW p \in Proc, DraftNodes(p) PROVE TypeOK'
    <2>1. Rest /\ run[p].pc # "idle" /\ run[p].todo # <<>>
      BY <1>0, <1>12 DEF TypeOK, DraftNodes
    <2> QED
      BY <2>1, <1>12, <1>0, <1>a, <1>b, DraftNodesFields
  <1>13. ASSUME NEW p \in Proc, InstallNodesJson(p) PROVE TypeOK'
    <2>1. nodes' \in NodesContent
      BY <1>0, <1>13 DEF TypeOK, Run, InstallNodesJson
    <2>2. Rest /\ run[p].pc # "idle" /\ run[p].todo # <<>>
      BY <2>1, <1>0, <1>13 DEF TypeOK, InstallNodesJson
    <2> QED
      BY <2>2, <1>13, <1>0, <1>a, <1>b, InstallNodesJsonFields
  <1>4. ASSUME NEW p \in Proc, CheckFails(p) PROVE TypeOK'
    <2>1. Rest /\ run[p].pc = "check"
      BY <1>0, <1>4 DEF TypeOK, CheckFails
    <2> QED
      BY <2>1, <1>0, <1>4, <1>a, <1>b, CheckFailsFields
  <1>5. ASSUME NEW p \in Proc, CheckPasses(p) PROVE TypeOK'
    <2>1. Rest /\ run[p].pc = "check"
      BY <1>0, <1>5 DEF TypeOK, CheckPasses
    <2>2. run[p].todo # <<>>
      BY <2>1, <1>0, <1>5, DraftTypes DEF Performing, CheckPasses
    <2> QED
      BY <2>1, <2>2, <1>0, <1>5, <1>a, <1>b, CheckPassesFields
  <1>6. ASSUME NEW p \in Proc, AddResult(p) \/ AddNodes(p) \/ AddLastNodes(p) PROVE TypeOK'
    <2>1. PICK from \in {"jq1", "jq2", "jq3"}, to \in {"mv1", "mv2", "mv3"}, new \in Report :
            Draft(p, from, to, new)
      <3>0. Performing(p)
        BY <1>6 DEF AddResult, AddNodes, AddLastNodes, Draft, Performing
      <3>1. CASE AddResult(p)
        BY <3>0, <3>1, DraftTypes, WithResultType DEF AddResult
      <3>2. CASE AddNodes(p)
        BY <3>0, <3>2, DraftTypes, WithResultType DEF AddNodes
      <3>3. CASE AddLastNodes(p)
        <4>1. [report[Current(p)] EXCEPT !.last = nodes] \in Report
          BY <3>0, <1>0, DraftTypes DEF TypeOK, Report
        <4> QED
          BY <3>3, <4>1 DEF AddLastNodes
      <3> QED
        BY <1>6, <3>1, <3>2, <3>3
    <2>2. to \in Command /\ Performing(p) /\ to \notin {"idle", "next"}
      BY <2>1 DEF Command, Performing, Draft
    <2>3. Current(p) \in Check /\ run[p].todo # <<>>
      BY <2>1, <2>2, DraftTypes DEF Draft
    <2>4. Rest /\ run[p].pc # "idle"
      BY <2>1, <2>2, <2>3, <1>0, <1>6 DEF TypeOK, AddResult, AddNodes, AddLastNodes, Draft
    <2>5. /\ run' \in [Proc -> Run] /\ Moves(p, to, run[p].todo, new) /\ Keeps(p)
          /\ run'[p].role = run[p].role
      BY <2>1, <2>2, <1>0, DraftFields
    <2> QED
      BY <2>2, <2>3, <2>4, <2>5, <1>a, <1>b
  <1>7. ASSUME NEW p \in Proc, InstallResult(p) \/ InstallNodes(p) PROVE TypeOK'
    <2>1. PICK from \in {"mv1", "mv2"}, to \in {"jq2", "jq3"} : Install(p, from, to)
      BY <1>7 DEF InstallResult, InstallNodes
    <2>2. to \in Command /\ Performing(p)
      BY <2>1 DEF Command, Performing, Install
    <2>3. run[p].todo # <<>>
      BY <2>1, <2>2, DraftTypes DEF Install
    <2>4. Rest /\ run[p].pc # "idle"
      BY <2>1, <2>2, <1>0, DraftTypes DEF TypeOK, Install
    <2>5. /\ run' \in [Proc -> Run] /\ Moves(p, to, run[p].todo, EmptyReport) /\ Keeps(p)
          /\ run'[p].role = run[p].role
      BY <2>1, <2>2, <1>0, InstallFields
    <2> QED
      BY <2>3, <2>4, <2>5, <1>a, <1>b
  <1>8. ASSUME NEW p \in Proc, InstallLastNodes(p) PROVE TypeOK'
    <2>1. Performing(p) /\ run[p].pc = "mv3"
      BY <1>8 DEF InstallLastNodes, Performing
    <2>2. Rest
      BY <2>1, <1>0, <1>8, DraftTypes DEF TypeOK, InstallLastNodes
    <2> QED
      BY <2>1, <2>2, <1>0, <1>8, <1>a, <1>b, InstallLastNodesFields
  <1>9. ASSUME NEW p \in Proc, Finish(p) \/ Die(p) PROVE TypeOK'
    <2>1. torn' \in [Check -> SUBSET Host]
      <3>1. torn' # torn => Performing(p) /\ torn' = [torn EXCEPT ![Current(p)] = @ \cup {run[p].host}]
        BY <1>9 DEF Finish, Die, Performing
      <3>2. torn \in [Check -> SUBSET Host]
        BY <1>0 DEF TypeOK
      <3> QED
        BY <3>1, <3>2, DraftTypes
    <2>2. Rest
      BY <2>1, <1>0, <1>9 DEF TypeOK, Finish, Die
    <2> QED
      BY <2>2, <1>0, <1>9, <1>a, StopFields
  <1>10. ASSUME NEW h \in Host, Failover(h) PROVE TypeOK'
    <2>1. server' \in [Host -> Role]
      BY <1>0, <1>10 DEF TypeOK, Failover, Role
    <2>2. flips' \in [Proc -> Nat]
      BY <1>0, <1>10 DEF TypeOK, Failover
    <2> QED
      BY <2>1, <2>2, <1>0, <1>10 DEF TypeOK, Failover
  <1>11. CASE UNCHANGED vars
    BY <1>0, <1>11 DEF TypeOK, vars
  <1> QED
    BY <1>1, <1>2, <1>3, <1>4, <1>5, <1>6, <1>7, <1>8, <1>9, <1>10, <1>11,
       <1>12, <1>13
    DEF Next

\* The three calls of jq, with what they make of the report.
LEMMA AddFields ==
  ASSUME TypeInv, NEW p \in Proc
  PROVE  /\ AddResult(p) =>
              \E new \in Report :
                /\ Moves(p, "mv1", run[p].todo, new)
                /\ Adds(new, report[Current(p)], run[p].host, {"bare"})
         /\ AddNodes(p) =>
              \E new \in Report :
                /\ Moves(p, "mv2", run[p].todo, new)
                /\ Adds(new, report[Current(p)], run[p].host, {nodes[run[p].host]})
         /\ AddLastNodes(p) =>
              \E new \in Report :
                /\ Moves(p, "mv3", run[p].todo, new)
                /\ new.results = report[Current(p)].results /\ new.last = nodes
         /\ AddResult(p) \/ AddNodes(p) \/ AddLastNodes(p) =>
              /\ Keeps(p) /\ run'[p].role = run[p].role /\ run'[p].failed = run[p].failed
              /\ Performing(p) /\ Current(p) \in Check /\ run[p].host \in Host
              /\ nodes[run[p].host] \in Attached /\ (~overlap => nodes[run[p].host] \in Role)
  <1> USE Constants
  <1>1. TypeOK
    BY DEF TypeInv
  <1>2. AddResult(p) \/ AddNodes(p) \/ AddLastNodes(p) => Performing(p) /\ ~Updating(p)
    BY DEF AddResult, AddNodes, AddLastNodes, Draft, Performing, Updating
  <1> DEFINE r == report[Current(p)]
             h == run[p].host
  <1>3. Performing(p) => /\ r \in Report /\ h \in Host /\ nodes[h] \in Attached
                         /\ Current(p) \in Check
                         /\ ~overlap /\ ~Updating(p) => nodes[h] \in Role
    BY DraftTypes
  <1>4. ASSUME Performing(p), NEW x \in Result
        PROVE  /\ [r EXCEPT !.results[h] = x] \in Report
               /\ Adds([r EXCEPT !.results[h] = x], r, h, {x})
    BY <1>3, <1>4 DEF Report, Adds
  <1>5. Performing(p) => /\ [r EXCEPT !.last = nodes] \in Report
                         /\ [r EXCEPT !.last = nodes].results = r.results
                         /\ [r EXCEPT !.last = nodes].last = nodes
    BY <1>1, <1>3 DEF Report, TypeOK
  <1>6. "mv1" \in Command /\ "mv2" \in Command /\ "mv3" \in Command
    BY DEF Command
  <1>7. AddResult(p) => /\ \E new \in Report :
                             /\ Moves(p, "mv1", run[p].todo, new)
                             /\ Adds(new, r, h, {"bare"})
                        /\ Keeps(p) /\ run'[p].role = run[p].role /\ run'[p].failed = run[p].failed
    BY <1>1, <1>2, <1>4, <1>6, DraftFields DEF AddResult
  <1>8. AddNodes(p) => /\ \E new \in Report :
                             /\ Moves(p, "mv2", run[p].todo, new)
                             /\ Adds(new, r, h, {nodes[h]})
                       /\ Keeps(p) /\ run'[p].role = run[p].role /\ run'[p].failed = run[p].failed
    <2> SUFFICES ASSUME AddNodes(p)
                 PROVE  /\ \E new \in Report :
                             /\ Moves(p, "mv2", run[p].todo, new)
                             /\ Adds(new, r, h, {nodes[h]})
                        /\ Keeps(p) /\ run'[p].role = run[p].role /\ run'[p].failed = run[p].failed
      OBVIOUS
    <2> DEFINE new == [r EXCEPT !.results[h] = nodes[h]]
    <2>1. new \in Report /\ Adds(new, r, h, {nodes[h]})
      BY <1>2, <1>3, <1>4
    <2>2. Draft(p, "jq2", "mv2", new)
      BY DEF AddNodes
    <2> HIDE DEF new
    <2> QED
      BY <2>1, <2>2, <1>1, <1>6, DraftFields
  <1>9. AddLastNodes(p) => /\ \E new \in Report :
                                /\ Moves(p, "mv3", run[p].todo, new)
                                /\ new.results = r.results /\ new.last = nodes
                           /\ Keeps(p) /\ run'[p].role = run[p].role /\ run'[p].failed = run[p].failed
    BY <1>1, <1>2, <1>5, <1>6, DraftFields DEF AddLastNodes
  <1> QED
    BY <1>2, <1>3, <1>7, <1>8, <1>9

\* The first two mv.
LEMMA InstFields ==
  ASSUME TypeInv, NEW p \in Proc
  PROVE  /\ InstallResult(p) => Moves(p, "jq2", run[p].todo, EmptyReport)
         /\ InstallNodes(p) => Moves(p, "jq3", run[p].todo, EmptyReport)
         /\ InstallResult(p) \/ InstallNodes(p) =>
              Keeps(p) /\ run'[p].role = run[p].role /\ run'[p].failed = run[p].failed
  <1>1. "jq2" \in Command /\ "jq3" \in Command
    BY DEF Command
  <1> QED
    BY <1>1, InstallFields DEF TypeInv, InstallResult, InstallNodes

\* Every step preserves NodesInv: only the run that is alone inside
\* update_nodes_json replaces nodes.json.
LEMMA NodesInductive ==
  ASSUME TypeInv, [Next]_vars
  PROVE  NodesInv'
  <1>0. TypeOK /\ NodesInv
    BY DEF TypeInv
  <1>a. ASSUME NEW p \in Proc, NEW pc, NEW todo, NEW tmp, Moves(p, pc, todo, tmp),
               UNCHANGED <<nodes, overlap>>, pc \notin {"jqNodes", "mvNodes"},
               pc \notin {"idle", "next"} => Performing(p) /\ ~Updating(p) /\ Keeps(p)
        PROVE  NodesInv'
    BY <1>0, <1>a DEF NodesInv, Extends, Performing, Updating, Moves, Keeps
  <1>1. ASSUME NEW p \in Proc, AskRole(p) PROVE NodesInv'
    <2>1. Moves(p, "jqNodes", run[p].todo, run[p].tmp) /\ run'[p].found = (nodes # NoNodes)
      BY <1>0, <1>1, AskRoleFields
    <2>2. nodes' = nodes /\ overlap' = (overlap \/ \E q \in Proc \ {p} : Updating(q))
      BY <1>1 DEF AskRole
    <2> QED
      BY <2>1, <2>2, <1>0 DEF NodesInv, Extends, Performing, Updating, Moves
  <1>2. ASSUME NEW p \in Proc, DraftNodes(p) PROVE NodesInv'
    <2>1. /\ Moves(p, "mvNodes", run[p].todo, run[p].tmp) /\ Keeps(p)
          /\ run'[p].draft[run[p].host] = run[p].role
          /\ \A g \in Host : g # run[p].host =>
               run'[p].draft[g] = IF run[p].found THEN nodes[g] ELSE NoNodes[g]
      BY <1>0, <1>2, DraftNodesFields
    <2>2. /\ UNCHANGED <<nodes, overlap>> /\ Updating(p)
          /\ run[p].role \in Role /\ run[p].pc = "jqNodes"
      BY <1>0, <1>2 DEF DraftNodes, Updating, TypeOK
    <2>4. ~overlap /\ ~run[p].found => nodes = NoNodes
      BY <2>2, <1>0 DEF NodesInv
    <2>5. ~overlap => \A g \in Host : g # run[p].host => run'[p].draft[g] = nodes[g]
      BY <2>1, <2>4
    <2>3. ~overlap => Extends(run[p].draft, run[p].host)'
      BY <2>1, <2>2, <2>5, Constants DEF Extends, Keeps
    <2> QED
      BY <2>1, <2>2, <2>3, <1>0 DEF NodesInv, Extends, Performing, Updating, Moves
  <1>3. ASSUME NEW p \in Proc, InstallNodesJson(p) PROVE NodesInv'
    <2>1. Moves(p, "check", run[p].todo, run[p].tmp) /\ Keeps(p)
      BY <1>0, <1>3, InstallNodesJsonFields
    <2>2. nodes' = run[p].draft /\ overlap' = overlap /\ run[p].pc = "mvNodes"
      BY <1>3 DEF InstallNodesJson
    <2>3. \A q \in Proc : Performing(q) => run[q].host \in Host
      BY <1>0 DEF TypeOK, Performing
    <2> QED
      BY <2>1, <2>2, <2>3, <1>0 DEF NodesInv, Extends, Performing, Updating, Moves, Keeps
  <1>4. ASSUME NEW p \in Proc, NEW h \in Host, NEW file \in Check \cup {Unknown}, Start(p, h, file)
        PROVE NodesInv'
    BY <1>0, <1>4, <1>a, StartFields DEF Start
  <1>5. ASSUME NEW p \in Proc, Skip(p) \/ CheckFails(p) \/ CheckPasses(p) PROVE NodesInv'
    <2>1. CASE Skip(p)
      BY <1>0, <2>1, <1>a, SkipFields DEF Skip
    <2>2. CASE CheckFails(p)
      BY <1>0, <2>2, <1>a, CheckFailsFields DEF CheckFails
    <2>3. CASE CheckPasses(p)
      <3>1. Performing(p) /\ ~Updating(p) /\ UNCHANGED <<nodes, overlap>>
        BY <2>3 DEF CheckPasses, Performing, Updating
      <3> QED
        BY <1>0, <2>3, <3>1, <1>a, CheckPassesFields
    <2> QED
      BY <1>5, <2>1, <2>2, <2>3
  <1>6. ASSUME NEW p \in Proc, AddResult(p) \/ AddNodes(p) \/ AddLastNodes(p) PROVE NodesInv'
    <2>1. /\ Performing(p) /\ ~Updating(p) /\ UNCHANGED <<nodes, overlap>>
      BY <1>6 DEF AddResult, AddNodes, AddLastNodes, Draft, Performing, Updating
    <2>2. /\ Keeps(p)
          /\ \E pc \in {"mv1", "mv2", "mv3"}, new \in Report : Moves(p, pc, run[p].todo, new)
      BY <1>6, AddFields
    <2> QED
      BY <2>1, <2>2, <1>a
  <1>7. ASSUME NEW p \in Proc, InstallResult(p) \/ InstallNodes(p) PROVE NodesInv'
    <2>1. /\ Performing(p) /\ ~Updating(p) /\ UNCHANGED <<nodes, overlap>>
      BY <1>7 DEF InstallResult, InstallNodes, Install, Performing, Updating
    <2> QED
      BY <2>1, <1>7, <1>a, InstFields
  <1>8. ASSUME NEW p \in Proc, InstallLastNodes(p) PROVE NodesInv'
    BY <1>0, <1>8, <1>a, InstallLastNodesFields DEF InstallLastNodes
  <1>9. ASSUME NEW p \in Proc, Finish(p) \/ Die(p) PROVE NodesInv'
    BY <1>0, <1>9, <1>a, StopFields DEF Finish, Die
  <1>10. CASE UNCHANGED <<nodes, run, overlap>>
    BY <1>0, <1>10 DEF NodesInv, Extends, Performing, Updating
  <1> QED
    BY <1>1, <1>2, <1>3, <1>4, <1>5, <1>6, <1>7, <1>8, <1>9, <1>10 DEF Next, Failover, vars

\* Every step preserves the types and NodesInv.
LEMMA TypeInvInductive == TypeInv /\ [Next]_vars => TypeInv'
  BY TypeInductive, NodesInductive DEF TypeInv

\* Every step is of one of the kinds of WriteStep, or does not touch reports and
\* runs.
LEMMA WriteSteps ==
  ASSUME TypeInv, [Next]_vars
  PROVE  \/ \E p \in Proc : WriteStep(p)
         \/ UNCHANGED <<nodes, report, run, torn, clash, overlap>>
  <1> USE Constants
  <1>0. TypeOK
    BY DEF TypeInv
  <1>1. ASSUME NEW p \in Proc, NEW h \in Host, NEW file \in Check \cup {Unknown}, Start(p, h, file)
        PROVE Outside(p)
    <2>1. Moves(p, "next", Plan(file), EmptyReport)
      BY <1>0, <1>1, StartFields
    <2> QED
      BY <2>1, <1>1 DEF Moves, Start, Outside, Alone, Writing
  <1>2. ASSUME NEW p \in Proc, Skip(p) PROVE Outside(p)
    <2>1. Moves(p, "next", Tail(run[p].todo), run[p].tmp)
      BY <1>0, <1>2, SkipFields
    <2> QED
      BY <2>1, <1>2 DEF Moves, Skip, Outside, Alone, Writing
  <1>3. ASSUME NEW p \in Proc, AskRole(p) PROVE Outside(p)
    <2>1. Moves(p, "jqNodes", run[p].todo, run[p].tmp)
      BY <1>0, <1>3, AskRoleFields
    <2> QED
      BY <2>1, <1>3 DEF Moves, AskRole, Outside, Alone, Writing
  <1>b. ASSUME NEW p \in Proc, DraftNodes(p) PROVE Outside(p)
    <2>1. Moves(p, "mvNodes", run[p].todo, run[p].tmp)
      BY <1>0, <1>b, DraftNodesFields
    <2> QED
      BY <2>1, <1>b DEF Moves, DraftNodes, Outside, Alone, Writing
  <1>c. ASSUME NEW p \in Proc, InstallNodesJson(p) PROVE Outside(p)
    <2>1. Moves(p, "check", run[p].todo, run[p].tmp)
      BY <1>0, <1>c, InstallNodesJsonFields
    <2>2. ~overlap => \A h \in Host : nodes[h] # Unknown => nodes'[h] # Unknown
      BY <1>c DEF TypeInv, NodesInv, Extends, InstallNodesJson
    <2> QED
      BY <2>1, <2>2, <1>c DEF Moves, InstallNodesJson, Outside, Alone, Writing
  <1>4. ASSUME NEW p \in Proc, CheckFails(p) PROVE Outside(p)
    <2>1. Moves(p, "next", Tail(run[p].todo), run[p].tmp)
      BY <1>0, <1>4, CheckFailsFields
    <2> QED
      BY <2>1, <1>4 DEF Moves, CheckFails, Outside, Alone, Writing
  <1>5. ASSUME NEW p \in Proc, CheckPasses(p) PROVE Outside(p)
    <2>1. Moves(p, "jq1", run[p].todo, run[p].tmp)
      BY <1>0, <1>5, CheckPassesFields
    <2> QED
      BY <2>1, <1>5 DEF Moves, CheckPasses, Outside, Alone, Writing
  <1>6. ASSUME NEW p \in Proc, AddResult(p) PROVE WriteStep(p)
    BY <1>6, AddFields, ZenonT(60) DEF WriteStep, Drafts, AddResult, Draft, Moves, Keeps, Alone
  <1>7. ASSUME NEW p \in Proc, AddNodes(p) PROVE WriteStep(p)
    BY <1>7, AddFields, ZenonT(60) DEF WriteStep, Drafts, AddNodes, Draft, Moves, Keeps, Alone
  <1>8. ASSUME NEW p \in Proc, AddLastNodes(p) PROVE WriteStep(p)
    BY <1>8, AddFields, ZenonT(60) DEF WriteStep, Drafts, AddLastNodes, Draft, Moves, Keeps, Alone
  <1>a. ASSUME NEW p \in Proc, Performing(p), report' = [report EXCEPT ![Current(p)] = run[p].tmp]
        PROVE  /\ report'[Current(p)] = run[p].tmp
               /\ \A c \in Check : c # Current(p) => report'[c] = report[c]
               /\ Current(p) \in Check /\ run[p].host \in Host
    BY <1>0, <1>a, DraftTypes DEF TypeOK
  <1>9. ASSUME NEW p \in Proc, InstallResult(p) PROVE WriteStep(p)
    <2>1. Moves(p, "jq2", run[p].todo, EmptyReport) /\ Keeps(p)
      BY <1>9, InstFields
    <2>2. /\ report'[Current(p)] = run[p].tmp
          /\ \A c \in Check : c # Current(p) => report'[c] = report[c]
          /\ Current(p) \in Check /\ run[p].host \in Host
      BY <1>9, <1>a DEF InstallResult, Install, Performing
    <2> QED
      BY <2>1, <2>2, <1>9
      DEF WriteStep, Replaces, InstallResult, Install, Moves, Keeps, Alone
  <1>10. ASSUME NEW p \in Proc, InstallNodes(p) PROVE WriteStep(p)
    <2>1. Moves(p, "jq3", run[p].todo, EmptyReport) /\ Keeps(p)
      BY <1>10, InstFields
    <2>2. /\ report'[Current(p)] = run[p].tmp
          /\ \A c \in Check : c # Current(p) => report'[c] = report[c]
          /\ Current(p) \in Check /\ run[p].host \in Host
      BY <1>10, <1>a DEF InstallNodes, Install, Performing
    <2> QED
      BY <2>1, <2>2, <1>10
      DEF WriteStep, Replaces, InstallNodes, Install, Moves, Keeps, Alone
  <1>11. ASSUME NEW p \in Proc, InstallLastNodes(p) PROVE WriteStep(p)
    <2>1. Moves(p, "next", Tail(run[p].todo), EmptyReport) /\ Keeps(p)
      BY <1>0, <1>11, InstallLastNodesFields
    <2>2. /\ report'[Current(p)] = run[p].tmp
          /\ \A c \in Check : c # Current(p) => report'[c] = report[c]
          /\ Current(p) \in Check /\ run[p].host \in Host
      BY <1>11, <1>a DEF InstallLastNodes, Performing
    <2>3. /\ torn'[Current(p)] = torn[Current(p)] \ {run[p].host}
          /\ \A c \in Check : c # Current(p) => torn'[c] = torn[c]
      BY <2>2, <1>0, <1>11 DEF TypeOK, InstallLastNodes
    <2> QED
      BY <2>1, <2>2, <2>3, <1>11
      DEF WriteStep, Replaces, InstallLastNodes, Moves, Keeps, Alone
  <1>12. ASSUME NEW p \in Proc, Finish(p) \/ Die(p) PROVE WriteStep(p)
    <2>1. Moves(p, "idle", <<>>, EmptyReport)
      BY <1>0, <1>12, StopFields
    <2>2. CASE ~Writing(p)
      BY <2>1, <2>2, <1>12 DEF WriteStep, Outside, Writing, Finish, Die, Moves, Alone
    <2>3. CASE Writing(p)
      <3>1. Die(p) /\ Current(p) \in Check /\ run[p].host \in Host
        BY <2>3, <1>12, DraftTypes DEF Writing, Performing, Finish
      <3>2. /\ torn'[Current(p)] = IF Inside(p) THEN torn[Current(p)] \cup {run[p].host}
                                    ELSE torn[Current(p)]
            /\ \A c \in Check : c # Current(p) => torn'[c] = torn[c]
        BY <3>1, <1>0 DEF TypeOK, Die, Inside
      <3> QED
        BY <2>1, <2>3, <3>1, <3>2 DEF WriteStep, Stops, Die, Moves, Alone
    <2> QED
      BY <2>2, <2>3
  <1>13. ASSUME NEW h \in Host, Failover(h) PROVE UNCHANGED <<nodes, report, run, torn, clash, overlap>>
    BY <1>13 DEF Failover
  <1>14. CASE UNCHANGED vars
    BY <1>14 DEF vars
  <1>15. \A p \in Proc : Outside(p) => WriteStep(p)
    BY DEF WriteStep
  <1> QED
    BY <1>1, <1>2, <1>3, <1>4, <1>5, <1>6, <1>7, <1>8, <1>9, <1>10, <1>11, <1>12, <1>13,
       <1>14, <1>15, <1>b, <1>c
    DEF Next

\* Every step preserves ResultsKnown.
LEMMA ResultsKnownInductive ==
  ASSUME TypeInv, ResultsKnown, [Next]_vars
  PROVE  ResultsKnown'
  <1>1. ASSUME NEW p \in Proc, WriteStep(p) PROVE ResultsKnown'
    <2>1. CASE Outside(p)
      BY <2>1, Constants DEF ResultsKnown, Outside, Alone
    <2>2. CASE /\ Drafts(p, "jq1", "mv1")
               /\ Adds(run'[p].tmp, report[Current(p)], run[p].host, {"bare"})
               /\ clash' = IF Collides(p) THEN clash \cup {Current(p)} ELSE clash
      BY <2>2, Constants DEF ResultsKnown, Drafts, Adds, Collides, Alone
    <2>3. CASE /\ Replaces(p, "mv1", "jq2")
               /\ run'[p].todo = run[p].todo
               /\ UNCHANGED torn
      BY <2>3, Constants DEF ResultsKnown, Replaces, Alone
    <2>4. CASE /\ Drafts(p, "jq2", "mv2")
               /\ Adds(run'[p].tmp, report[Current(p)], run[p].host, {nodes[run[p].host]})
               /\ UNCHANGED clash
      BY <2>4, Constants DEF ResultsKnown, Drafts, Adds, Alone
    <2>5. CASE /\ Replaces(p, "mv2", "jq3")
               /\ run'[p].todo = run[p].todo
               /\ UNCHANGED torn
      BY <2>5, Constants DEF ResultsKnown, Replaces, Alone
    <2>6. CASE /\ Drafts(p, "jq3", "mv3")
               /\ run'[p].tmp.results = report[Current(p)].results
               /\ run'[p].tmp.last = nodes
               /\ UNCHANGED clash
      BY <2>6, Constants DEF ResultsKnown, Drafts, Alone
    <2>7. CASE /\ Replaces(p, "mv3", "next")
               /\ torn'[Current(p)] = torn[Current(p)] \ {run[p].host}
               /\ \A c \in Check : c # Current(p) => torn'[c] = torn[c]
      BY <2>7, Constants DEF ResultsKnown, Replaces, Alone
    <2>8. CASE Stops(p)
      BY <2>8, Constants DEF ResultsKnown, Stops, Alone
    <2> QED
      BY <1>1, <2>1, <2>2, <2>3, <2>4, <2>5, <2>6, <2>7, <2>8 DEF WriteStep
  <1>2. CASE UNCHANGED <<nodes, report, run, torn, clash, overlap>>
    BY <1>2 DEF ResultsKnown
  <1> QED
    BY <1>1, <1>2, WriteSteps

\* Every step preserves Exclusive.
LEMMA ExclusiveInductive ==
  ASSUME TypeInv, Exclusive, [Next]_vars
  PROVE  Exclusive'
  <1>1. ASSUME NEW p \in Proc, WriteStep(p) PROVE Exclusive'
    <2>1. CASE Outside(p)
      BY <2>1, Constants DEF Exclusive, Writing, Current, Outside, Alone
    <2>2. CASE /\ Drafts(p, "jq1", "mv1")
               /\ Adds(run'[p].tmp, report[Current(p)], run[p].host, {"bare"})
               /\ clash' = IF Collides(p) THEN clash \cup {Current(p)} ELSE clash
      BY <2>2, Constants DEF Exclusive, Writing, Current, Drafts, Adds, Collides, Alone
    <2>3. CASE /\ Replaces(p, "mv1", "jq2")
               /\ run'[p].todo = run[p].todo
               /\ UNCHANGED torn
      BY <2>3, Constants DEF Exclusive, Writing, Current, Replaces, Alone
    <2>4. CASE /\ Drafts(p, "jq2", "mv2")
               /\ Adds(run'[p].tmp, report[Current(p)], run[p].host, {nodes[run[p].host]})
               /\ UNCHANGED clash
      BY <2>4, Constants DEF Exclusive, Writing, Current, Drafts, Adds, Alone
    <2>5. CASE /\ Replaces(p, "mv2", "jq3")
               /\ run'[p].todo = run[p].todo
               /\ UNCHANGED torn
      BY <2>5, Constants DEF Exclusive, Writing, Current, Replaces, Alone
    <2>6. CASE /\ Drafts(p, "jq3", "mv3")
               /\ run'[p].tmp.results = report[Current(p)].results
               /\ run'[p].tmp.last = nodes
               /\ UNCHANGED clash
      BY <2>6, Constants DEF Exclusive, Writing, Current, Drafts, Alone
    <2>7. CASE /\ Replaces(p, "mv3", "next")
               /\ torn'[Current(p)] = torn[Current(p)] \ {run[p].host}
               /\ \A c \in Check : c # Current(p) => torn'[c] = torn[c]
      BY <2>7, Constants DEF Exclusive, Writing, Current, Replaces, Alone
    <2>8. CASE Stops(p)
      BY <2>8, Constants DEF Exclusive, Writing, Current, Stops, Alone
    <2> QED
      BY <1>1, <2>1, <2>2, <2>3, <2>4, <2>5, <2>6, <2>7, <2>8 DEF WriteStep
  <1>2. CASE UNCHANGED <<nodes, report, run, torn, clash, overlap>>
    BY <1>2 DEF Exclusive, Writing, Current
  <1> QED
    BY <1>1, <1>2, WriteSteps

\* A step of run p leaves what the other runs have drafted as true as it was.
LEMMA OthersDrafted ==
  ASSUME TypeInv, Exclusive, Drafted, NEW p \in Proc, Alone(p), NEW q \in Proc, q # p,
         clash \subseteq clash', overlap => overlap',
         \/ UNCHANGED report
         \/ Writing(p) /\ \A c \in Check : c # Current(p) => report'[c] = report[c]
  PROVE  DraftedIn(q)'
  <1>1. run'[q] = run[q]
    BY DEF Alone
  <1>2. Writing(q) /\ Current(q) \notin clash => report'[Current(q)] = report[Current(q)]
    <2>1. Writing(q) => Current(q) \in Check
      BY DraftTypes DEF Writing, Performing
    <2> QED
      BY <2>1 DEF Exclusive
  <1>3. DraftedIn(q)
    BY DEF Drafted
  <1> QED
    BY <1>1, <1>2, <1>3
    DEF DraftedIn, Draft1, Draft2, Draft3, Added, Adds, Writing, Inside, Current

\* Every step preserves Drafted.
LEMMA DraftedInductive ==
  ASSUME TypeInv, ResultsKnown, Exclusive, Drafted, [Next]_vars
  PROVE  Drafted'
  <1>1. ASSUME NEW p \in Proc, WriteStep(p) PROVE Drafted'
    <2>1. CASE Outside(p)
      BY <2>1, Constants
      DEF Drafted, DraftedIn, Draft1, Draft2, Draft3, Added, Adds, Exclusive, ResultsKnown,
          Writing, Inside, Current, Outside, Alone
    <2>2. CASE /\ Drafts(p, "jq1", "mv1")
               /\ Adds(run'[p].tmp, report[Current(p)], run[p].host, {"bare"})
               /\ clash' = IF Collides(p) THEN clash \cup {Current(p)} ELSE clash
      <3>1. \A q \in Proc \ {p} : DraftedIn(q)'
        BY <2>2, OthersDrafted DEF Drafts, Collides, Writing
      <3>2. DraftedIn(p)'
        BY <2>2, Constants
        DEF Drafted, DraftedIn, Draft1, Draft2, Draft3, Added, Adds, Writing, Inside,
            Current, Drafts, Collides, ResultsKnown
      <3> QED
        BY <3>1, <3>2 DEF Drafted
    <2>3. CASE /\ Replaces(p, "mv1", "jq2")
               /\ run'[p].todo = run[p].todo
               /\ UNCHANGED torn
      <3>1. \A q \in Proc \ {p} : DraftedIn(q)'
        BY <2>3, OthersDrafted DEF Replaces, Writing
      <3>2. DraftedIn(p)'
        BY <2>3, Constants
        DEF Drafted, DraftedIn, Draft1, Draft2, Draft3, Added, Adds, Writing, Inside,
            Current, Replaces, ResultsKnown
      <3> QED
        BY <3>1, <3>2 DEF Drafted
    <2>4. CASE /\ Drafts(p, "jq2", "mv2")
               /\ Adds(run'[p].tmp, report[Current(p)], run[p].host, {nodes[run[p].host]})
               /\ UNCHANGED clash
      <3>1. \A q \in Proc \ {p} : DraftedIn(q)'
        BY <2>4, OthersDrafted DEF Drafts, Writing
      <3>2. DraftedIn(p)'
        BY <2>4, Constants
        DEF Drafted, DraftedIn, Draft1, Draft2, Draft3, Added, Adds, Writing, Inside,
            Current, Drafts, ResultsKnown
      <3> QED
        BY <3>1, <3>2 DEF Drafted
    <2>5. CASE /\ Replaces(p, "mv2", "jq3")
               /\ run'[p].todo = run[p].todo
               /\ UNCHANGED torn
      <3>1. \A q \in Proc \ {p} : DraftedIn(q)'
        BY <2>5, OthersDrafted DEF Replaces, Writing
      <3>2. DraftedIn(p)'
        <4>1. Current(p)' = Current(p) /\ run'[p].host = run[p].host /\ run'[p].pc = "jq3"
          BY <2>5 DEF Current, Replaces
        <4>2. Current(p) \notin clash => run[p].tmp.results[run[p].host] \in Attached
          BY <2>5 DEF Drafted, DraftedIn, Draft2, Adds, Writing, Replaces
        <4>3. Current(p) \notin clash => Added(p)'
          BY <2>5, <4>1, <4>2 DEF Added, Replaces, Attached, Role, Unknown
        <4> QED
          BY <2>5, <4>1, <4>3 DEF DraftedIn, Draft1, Draft2, Draft3, Replaces
      <3> QED
        BY <3>1, <3>2 DEF Drafted
    <2>6. CASE /\ Drafts(p, "jq3", "mv3")
               /\ run'[p].tmp.results = report[Current(p)].results
               /\ run'[p].tmp.last = nodes
               /\ UNCHANGED clash
      <3>1. \A q \in Proc \ {p} : DraftedIn(q)'
        BY <2>6, OthersDrafted DEF Drafts, Writing
      <3>2. /\ run'[p].pc = "mv3" /\ Current(p)' = Current(p) /\ Current(p) \in Check
            /\ run'[p].host = run[p].host /\ report' = report
        BY <2>6 DEF Drafts, Current
      <3>3. Draft3(p)'
        BY <2>6, <3>2 DEF Draft3, ResultsKnown, Drafts
      <3>4. Current(p) \notin clash => Added(p)'
        BY <2>6, <3>2 DEF Drafted, DraftedIn, Added, Drafts, Writing, Inside
      <3>5. DraftedIn(p)'
        BY <2>6, <3>2, <3>3, <3>4 DEF DraftedIn, Draft1, Draft2
      <3> QED
        BY <3>1, <3>5 DEF Drafted
    <2>7. CASE /\ Replaces(p, "mv3", "next")
               /\ torn'[Current(p)] = torn[Current(p)] \ {run[p].host}
               /\ \A c \in Check : c # Current(p) => torn'[c] = torn[c]
      <3>1. \A q \in Proc \ {p} : DraftedIn(q)'
        BY <2>7, OthersDrafted DEF Replaces, Writing
      <3>2. DraftedIn(p)'
        BY <2>7 DEF DraftedIn, Writing, Replaces
      <3> QED
        BY <3>1, <3>2 DEF Drafted
    <2>8. CASE Stops(p)
      BY <2>8, Constants
      DEF Drafted, DraftedIn, Draft1, Draft2, Draft3, Added, Adds, Exclusive, ResultsKnown,
          Writing, Inside, Current, Stops, Alone
    <2> QED
      BY <1>1, <2>1, <2>2, <2>3, <2>4, <2>5, <2>6, <2>7, <2>8 DEF WriteStep
  <1>2. CASE UNCHANGED <<nodes, report, run, torn, clash, overlap>>
    BY <1>2
    DEF Drafted, DraftedIn, Draft1, Draft2, Draft3, Added, Adds, Exclusive, ResultsKnown,
        Writing, Inside, Current
  <1> QED
    BY <1>1, <1>2, WriteSteps

\* Every step preserves Named.
LEMMA NamedInductive ==
  ASSUME TypeInv, Drafted, Named, [Next]_vars
  PROVE  Named'
  <1>1. ASSUME NEW p \in Proc, WriteStep(p) PROVE Named'
    <2>1. CASE Outside(p)
      BY <2>1, Constants
      DEF Named, Drafted, DraftedIn, Draft3, Writing, Inside, Current, Outside, Alone
    <2>2. CASE /\ Drafts(p, "jq1", "mv1")
               /\ Adds(run'[p].tmp, report[Current(p)], run[p].host, {"bare"})
               /\ clash' = IF Collides(p) THEN clash \cup {Current(p)} ELSE clash
      BY <2>2, Constants
      DEF Named, Drafted, DraftedIn, Draft3, Writing, Inside, Current, Drafts, Adds,
          Collides, Alone
    <2>3. CASE /\ Replaces(p, "mv1", "jq2")
               /\ run'[p].todo = run[p].todo
               /\ UNCHANGED torn
      BY <2>3, Constants
      DEF Named, Drafted, DraftedIn, Draft3, Writing, Inside, Current, Replaces, Alone
    <2>4. CASE /\ Drafts(p, "jq2", "mv2")
               /\ Adds(run'[p].tmp, report[Current(p)], run[p].host, {nodes[run[p].host]})
               /\ UNCHANGED clash
      BY <2>4, Constants
      DEF Named, Drafted, DraftedIn, Draft3, Writing, Inside, Current, Drafts, Adds, Alone
    <2>5. CASE /\ Replaces(p, "mv2", "jq3")
               /\ run'[p].todo = run[p].todo
               /\ UNCHANGED torn
      BY <2>5, Constants
      DEF Named, Drafted, DraftedIn, Draft3, Writing, Inside, Current, Replaces, Alone
    <2>6. CASE /\ Drafts(p, "jq3", "mv3")
               /\ run'[p].tmp.results = report[Current(p)].results
               /\ run'[p].tmp.last = nodes
               /\ UNCHANGED clash
      BY <2>6, Constants
      DEF Named, Drafted, DraftedIn, Draft3, Writing, Inside, Current, Drafts, Alone
    <2>7. CASE /\ Replaces(p, "mv3", "next")
               /\ torn'[Current(p)] = torn[Current(p)] \ {run[p].host}
               /\ \A c \in Check : c # Current(p) => torn'[c] = torn[c]
      BY <2>7, Constants
      DEF Named, Drafted, DraftedIn, Draft3, Writing, Inside, Current, Replaces, Alone
    <2>8. CASE Stops(p)
      <3>1. torn'[Current(p)] = {} => ~Inside(p) /\ torn[Current(p)] = {}
        BY <2>8 DEF Stops
      <3> QED
        BY <2>8, <3>1 DEF Named, Inside, Current, Stops, Alone
    <2> QED
      BY <1>1, <2>1, <2>2, <2>3, <2>4, <2>5, <2>6, <2>7, <2>8 DEF WriteStep
  <1>2. CASE UNCHANGED <<nodes, report, run, torn, clash, overlap>>
    BY <1>2 DEF Named, Drafted, DraftedIn, Draft3, Writing, Inside, Current
  <1> QED
    BY <1>1, <1>2, WriteSteps

\* Every step preserves Complete.
LEMMA CompleteInductive ==
  ASSUME TypeInv, Exclusive, Drafted, Complete, [Next]_vars
  PROVE  Complete'
  <1>1. ASSUME NEW p \in Proc, WriteStep(p) PROVE Complete'
    <2>1. CASE Outside(p)
      BY <2>1, Constants
      DEF Complete, Exclusive, Drafted, DraftedIn, Draft1, Draft2, Draft3, Added, Adds,
          Writing, Inside, Current, Outside, Alone
    <2>2. CASE /\ Drafts(p, "jq1", "mv1")
               /\ Adds(run'[p].tmp, report[Current(p)], run[p].host, {"bare"})
               /\ clash' = IF Collides(p) THEN clash \cup {Current(p)} ELSE clash
      BY <2>2, Constants
      DEF Complete, Exclusive, Drafted, DraftedIn, Draft1, Draft2, Draft3, Added, Adds,
          Writing, Inside, Current, Drafts, Adds, Collides, Alone
    <2>3. CASE /\ Replaces(p, "mv1", "jq2")
               /\ run'[p].todo = run[p].todo
               /\ UNCHANGED torn
      BY <2>3, Constants
      DEF Complete, Exclusive, Drafted, DraftedIn, Draft1, Draft2, Draft3, Added, Adds,
          Writing, Inside, Current, Replaces, Alone
    <2>4. CASE /\ Drafts(p, "jq2", "mv2")
               /\ Adds(run'[p].tmp, report[Current(p)], run[p].host, {nodes[run[p].host]})
               /\ UNCHANGED clash
      BY <2>4, Constants
      DEF Complete, Exclusive, Drafted, DraftedIn, Draft1, Draft2, Draft3, Added, Adds,
          Writing, Inside, Current, Drafts, Adds, Alone
    <2>5. CASE /\ Replaces(p, "mv2", "jq3")
               /\ run'[p].todo = run[p].todo
               /\ UNCHANGED torn
      <3> SUFFICES ASSUME NEW c \in Check \ clash', NEW h \in Host,
                          report'[c].results[h] = "bare", h \notin torn'[c]
                   PROVE  \E q \in Proc : /\ run'[q].pc \in {"jq2", "mv2"} /\ Current(q)' = c
                                          /\ run'[q].host = h
        BY DEF Complete
      <3>1. DraftedIn(p) /\ Current(p) \in Check
        BY <2>5 DEF Drafted, Replaces
      <3>2. c = Current(p) => Adds(run[p].tmp, report[c], run[p].host, Attached)
        BY <2>5, <3>1 DEF DraftedIn, Draft2, Replaces, Writing
      <3>3. c = Current(p) => h # run[p].host
        BY <2>5, <3>2, Constants DEF Replaces, Adds
      <3>4. report[c].results[h] = "bare"
        BY <2>5, <3>2, <3>3 DEF Replaces, Adds
      <3>5. PICK q \in Proc : /\ run[q].pc \in {"jq2", "mv2"} /\ Current(q) = c
                              /\ run[q].host = h
        BY <2>5, <3>4 DEF Complete, Replaces
      <3>6. q # p
        BY <3>3, <3>5
      <3> QED
        BY <2>5, <3>5, <3>6 DEF Replaces, Alone, Current
    <2>6. CASE /\ Drafts(p, "jq3", "mv3")
               /\ run'[p].tmp.results = report[Current(p)].results
               /\ run'[p].tmp.last = nodes
               /\ UNCHANGED clash
      BY <2>6, Constants
      DEF Complete, Exclusive, Drafted, DraftedIn, Draft1, Draft2, Draft3, Added, Adds,
          Writing, Inside, Current, Drafts, Alone
    <2>7. CASE /\ Replaces(p, "mv3", "next")
               /\ torn'[Current(p)] = torn[Current(p)] \ {run[p].host}
               /\ \A c \in Check : c # Current(p) => torn'[c] = torn[c]
      BY <2>7, Constants
      DEF Complete, Exclusive, Drafted, DraftedIn, Draft1, Draft2, Draft3, Added, Adds,
          Writing, Inside, Current, Replaces, Alone
    <2>8. CASE Stops(p)
      BY <2>8, Constants
      DEF Complete, Exclusive, Drafted, DraftedIn, Draft1, Draft2, Draft3, Added, Adds,
          Writing, Inside, Current, Stops, Alone
    <2> QED
      BY <1>1, <2>1, <2>2, <2>3, <2>4, <2>5, <2>6, <2>7, <2>8 DEF WriteStep
  <1>2. CASE UNCHANGED <<nodes, report, run, torn, clash, overlap>>
    BY <1>2
    DEF Complete, Exclusive, Drafted, DraftedIn, Draft1, Draft2, Draft3, Added, Adds,
        Writing, Inside, Current
  <1> QED
    BY <1>1, <1>2, WriteSteps

\* No step removes a result from a report, unless two runs wrote it at once.
LEMMA NoResultLost ==
  ASSUME TypeInv, Drafted, [Next]_vars, NEW c \in Check \ clash', NEW h \in Host,
         report[c].results[h] # "none"
  PROVE  report'[c].results[h] # "none"
  <1>1. ASSUME NEW p \in Proc, WriteStep(p) PROVE report'[c].results[h] # "none"
    <2>1. CASE \/ Replaces(p, "mv1", "jq2")
               \/ Replaces(p, "mv2", "jq3")
               \/ Replaces(p, "mv3", "next")
      <3>1. c \notin clash /\ DraftedIn(p)
        BY <2>1 DEF Replaces, Drafted
      <3>2. c = Current(p) => report'[c].results[h] # "none"
        BY <2>1, <3>1 DEF Replaces, DraftedIn, Draft1, Draft2, Draft3, Adds, Writing, Attached, Role, Unknown
      <3> QED
        BY <2>1, <3>2 DEF Replaces
    <2>2. CASE UNCHANGED report
      BY <2>2
    <2> QED
      BY <1>1, <2>1, <2>2 DEF WriteStep, Outside, Drafts, Stops
  <1>2. CASE UNCHANGED report
    BY <1>2
  <1> QED
    BY <1>1, <1>2, WriteSteps

\* A check that is not the first in the list is in the rest of it.
LEMMA TailInList ==
  ASSUME NEW s \in Seq(Check), s # <<>>, NEW c, InList(c, s), c # Head(s)
  PROVE  InList(c, Tail(s))
  <1>1. PICK i \in 1 .. Len(s) : s[i] = c
    BY DEF InList
  <1>2. i # 1
    BY <1>1
  <1>3. i - 1 \in 1 .. Len(Tail(s)) /\ Tail(s)[i - 1] = s[i]
    BY <1>2, HeadTailProperties
  <1> QED
    BY <1>1, <1>3 DEF InList

\* Every step preserves RoleLags.
LEMMA RoleLagsInductive ==
  ASSUME TypeInv, RoleLags, [Next]_vars
  PROVE  RoleLags'
  <1>0. TypeOK
    BY DEF TypeInv
  <1>a. ASSUME NEW p \in Proc, Alone(p), UNCHANGED <<server, flips, lapses>>,
               run'[p].pc # "idle" => /\ run[p].pc # "idle" /\ run'[p].host = run[p].host
                                      /\ run'[p].role = run[p].role
        PROVE  RoleLags'
    BY <1>a DEF RoleLags, Alone
  <1>1. ASSUME NEW p \in Proc, NEW h \in Host, NEW file \in Check \cup {Unknown}, Start(p, h, file)
        PROVE RoleLags'
    <2>1. Alone(p) /\ run'[p].role = server[h] /\ run'[p].host = h
      BY <1>0, <1>1, StartFields DEF Moves, Alone
    <2>2. /\ server' = server /\ flips'[p] = 0 /\ lapses'[p] = 0
          /\ \A q \in Proc : q # p => flips'[q] = flips[q] /\ lapses'[q] = lapses[q]
      BY <1>0, <1>1 DEF TypeOK, Start
    <2> QED
      BY <2>1, <2>2 DEF RoleLags, Alone
  <1>2. ASSUME NEW p \in Proc, AskRole(p) PROVE RoleLags'
    <2>1. /\ Alone(p) /\ run'[p].role = server[run[p].host] /\ run'[p].host = run[p].host
      BY <1>0, <1>2, AskRoleFields DEF Moves, Keeps, Alone
    <2>2. /\ server' = server /\ flips' = flips
          /\ \A q \in Proc : q # p => lapses'[q] = lapses[q]
          /\ \/ lapses'[p] = lapses[p]
             \/ /\ server[run[p].host] = "standby" /\ run[p].role # "standby"
                /\ lapses'[p] = lapses[p] + 1
      <3>1. /\ server' = server /\ flips' = flips
            /\ \/ lapses' = lapses
               \/ /\ server[run[p].host] = "standby" /\ run[p].role # "standby"
                  /\ lapses' = [lapses EXCEPT ![p] = @ + 1]
        BY <1>2 DEF AskRole, SkipReport
      <3>2. lapses \in [Proc -> Nat]
        BY <1>0 DEF TypeOK
      <3> QED
        BY <3>1, <3>2
    <2>3. run[p].pc # "idle" /\ flips[p] \in Nat /\ lapses[p] \in Nat
      BY <1>0, <1>2 DEF TypeOK, AskRole
    <2> QED
      BY <2>1, <2>2, <2>3 DEF RoleLags, Alone
  <1>3. ASSUME NEW p \in Proc,
               \/ Skip(p) \/ DraftNodes(p) \/ InstallNodesJson(p)
               \/ CheckFails(p) \/ CheckPasses(p)
        PROVE  RoleLags'
    <2>1. Alone(p) /\ Keeps(p) /\ run'[p].role = run[p].role
      BY <1>0, <1>3, SkipFields, DraftNodesFields, InstallNodesJsonFields, CheckFailsFields,
         CheckPassesFields
      DEF Moves, Alone
    <2>2. UNCHANGED <<server, flips, lapses>> /\ run[p].pc # "idle"
      BY <1>3 DEF Skip, DraftNodes, InstallNodesJson, CheckFails, CheckPasses
    <2> QED
      BY <2>1, <2>2, <1>a DEF Keeps
  <1>4. ASSUME NEW p \in Proc, AddResult(p) \/ AddNodes(p) \/ AddLastNodes(p) PROVE RoleLags'
    <2>1. Alone(p) /\ Keeps(p) /\ run'[p].role = run[p].role
      BY <1>4, AddFields DEF Moves, Alone
    <2>2. UNCHANGED <<server, flips, lapses>> /\ run[p].pc # "idle"
      BY <1>4 DEF AddResult, AddNodes, AddLastNodes, Draft
    <2> QED
      BY <2>1, <2>2, <1>a DEF Keeps
  <1>5. ASSUME NEW p \in Proc, InstallResult(p) \/ InstallNodes(p) \/ InstallLastNodes(p)
        PROVE RoleLags'
    <2>1. Alone(p) /\ Keeps(p) /\ run'[p].role = run[p].role
      BY <1>0, <1>5, InstFields, InstallLastNodesFields DEF Moves, Alone
    <2>2. UNCHANGED <<server, flips, lapses>> /\ run[p].pc # "idle"
      BY <1>5 DEF InstallResult, InstallNodes, InstallLastNodes, Install
    <2> QED
      BY <2>1, <2>2, <1>a DEF Keeps
  <1>6. ASSUME NEW p \in Proc, Finish(p) \/ Die(p) PROVE RoleLags'
    <2>1. Alone(p) /\ run'[p].pc = "idle"
      BY <1>0, <1>6, StopFields DEF Moves, Alone
    <2> QED
      BY <2>1, <1>6, <1>a DEF Finish, Die
  <1>7. ASSUME NEW h \in Host, Failover(h) PROVE RoleLags'
    <2>1. \A p \in Proc : /\ flips[p] \in Nat /\ lapses[p] \in Nat
                          /\ flips'[p] = IF run[p].host = h THEN flips[p] + 1 ELSE flips[p]
                          /\ run[p].host # h => server'[run[p].host] = server[run[p].host]
      BY <1>0, <1>7 DEF TypeOK, Failover
    <2>2. UNCHANGED <<run, lapses>>
      BY <1>7 DEF Failover
    <2> QED
      BY <2>1, <2>2 DEF RoleLags
  <1>8. CASE UNCHANGED vars
    BY <1>8 DEF RoleLags, vars
  <1> QED
    BY <1>1, <1>2, <1>3, <1>4, <1>5, <1>6, <1>7, <1>8 DEF Next

\* Every step preserves LapsesBounded: after a lapse the ROLE is right again, so
\* that RoleLags gives the bound.
LEMMA LapsesInductive ==
  ASSUME TypeInv, RoleLags, LapsesBounded, [Next]_vars
  PROVE  LapsesBounded'
  <1>0. TypeOK
    BY DEF TypeInv
  <1>1. ASSUME NEW p \in Proc, NEW h \in Host, NEW file \in Check \cup {Unknown}, Start(p, h, file)
        PROVE LapsesBounded'
    BY <1>0, <1>1 DEF TypeOK, Start, LapsesBounded
  <1>2. ASSUME NEW p \in Proc, AskRole(p) PROVE LapsesBounded'
    <2>1. RoleLags'
      BY RoleLagsInductive
    <2>2. run'[p].pc = "jqNodes"
      BY <1>0, <1>2, AskRoleFields DEF Moves
    <2>3. \A q \in Proc : q # p => lapses'[q] = lapses[q]
      BY <1>0, <1>2 DEF TypeOK, AskRole
    <2>4. flips' = flips /\ flips'[p] \in Nat /\ lapses'[p] \in Nat
      BY <1>0, <1>2, TypeInvInductive DEF TypeInv, TypeOK, AskRole
    <2> QED
      BY <2>1, <2>2, <2>3, <2>4 DEF RoleLags, LapsesBounded
  <1>3. ASSUME NEW h \in Host, Failover(h) PROVE LapsesBounded'
    BY <1>0, <1>3 DEF TypeOK, Failover, LapsesBounded
  <1>4. CASE UNCHANGED <<flips, lapses>>
    BY <1>4 DEF LapsesBounded
  <1> QED
    BY <1>1, <1>2, <1>3, <1>4
    DEF Next, vars, Skip, DraftNodes, InstallNodesJson, CheckFails, CheckPasses, AddResult, AddNodes,
       AddLastNodes, Draft, InstallResult, InstallNodes, Install, InstallLastNodes, Finish, Die

\* Every step preserves Planned.
LEMMA PlannedInductive ==
  ASSUME TypeInv, Drafted, RoleLags, Planned, [Next]_vars
  PROVE  Planned'
  <1>0. TypeOK
    BY DEF TypeInv
  <1>a. clash \subseteq clash'
    <2>1. \A p \in Proc : WriteStep(p) => clash \subseteq clash'
      BY DEF WriteStep, Outside, Drafts, Replaces, Stops
    <2> QED
      BY <2>1, WriteSteps
  <1>b. ASSUME NEW p \in Proc, NEW c \in Check \ clash', run[p].pc # "idle", run[p].file \in {c, Unknown}
        PROVE  \/ report'[c].results[run[p].host] # "none"
               \/ c \in run[p].failed
               \/ InList(c, run[p].todo)
               \/ c \in MasterOnly /\ (server[run[p].host] = "standby" \/ flips[p] > 0)
    <2>1. c \in Check \ clash /\ run[p].host \in Host
      BY <1>a, <1>b, <1>0 DEF TypeOK
    <2> QED
      BY <1>b, <2>1, NoResultLost DEF Planned, Accounted
  <1>c. ASSUME NEW p \in Proc, Alone(p), UNCHANGED server,
               \A q \in Proc : q # p => flips'[q] = flips[q],
               \A c \in Check \ clash' : Accounted(p, c)'
        PROVE  Planned'
    <2>1. ASSUME NEW q \in Proc, q # p, NEW c \in Check \ clash' PROVE Accounted(q, c)'
      BY <1>b, <1>c, <2>1 DEF Accounted, Alone
    <2> QED
      BY <1>c, <2>1 DEF Planned
  <1>d. ASSUME NEW p \in Proc, run[p].todo # <<>>, run[p].pc # "idle", NEW c, InList(c, run[p].todo)
        PROVE  c = Current(p) \/ InList(c, Tail(run[p].todo))
    BY <1>0, <1>d, TailInList DEF TypeOK, Run, Current
  <1>1. ASSUME NEW p \in Proc, NEW h \in Host, NEW file \in Check \cup {Unknown}, Start(p, h, file)
        PROVE Planned'
    <2>1. Alone(p) /\ run'[p].todo = Plan(file) /\ run'[p].file = file
      BY <1>0, <1>1, StartFields DEF Moves, Alone
    <2>2. ASSUME NEW c \in Check, file \in {c, Unknown} PROVE InList(c, Plan(file))
      BY <2>2, CheckAssumption DEF Plan, InList
    <2>3. server' = server /\ \A q \in Proc : q # p => flips'[q] = flips[q]
      BY <1>0, <1>1 DEF TypeOK, Start
    <2> QED
      BY <2>1, <2>2, <2>3, <1>c DEF Accounted
  <1>2. ASSUME NEW p \in Proc, Skip(p) PROVE Planned'
    <2>1. /\ Alone(p) /\ Keeps(p) /\ run'[p].failed = run[p].failed
          /\ run'[p].todo = Tail(run[p].todo)
      BY <1>0, <1>2, SkipFields DEF Moves, Alone
    <2>2. /\ UNCHANGED <<server, flips>> /\ run[p].pc # "idle" /\ run[p].todo # <<>>
          /\ run[p].role = "standby" /\ Current(p) \in MasterOnly
      BY <1>2 DEF Skip, SkipReport
    <2>3. server[run[p].host] = "standby" \/ flips[p] > 0
      BY <1>0, <2>2 DEF RoleLags, TypeOK
    <2>4. ASSUME NEW c \in Check \ clash' PROVE Accounted(p, c)'
      BY <2>1, <2>2, <2>3, <1>b, <1>d DEF Accounted, Keeps
    <2> QED
      BY <2>1, <2>2, <2>4, <1>c
  <1>3. ASSUME NEW p \in Proc, CheckFails(p) PROVE Planned'
    <2>1. /\ Alone(p) /\ Keeps(p) /\ run'[p].failed = run[p].failed \cup {Current(p)}
          /\ run'[p].todo = Tail(run[p].todo)
      BY <1>0, <1>3, CheckFailsFields DEF Moves, Alone
    <2>2. UNCHANGED <<server, flips>> /\ run[p].pc # "idle" /\ run[p].todo # <<>>
      BY <1>0, <1>3 DEF CheckFails, TypeOK
    <2>3. ASSUME NEW c \in Check \ clash' PROVE Accounted(p, c)'
      BY <2>1, <2>2, <1>b, <1>d DEF Accounted, Keeps
    <2> QED
      BY <2>1, <2>2, <2>3, <1>c
  <1>4. ASSUME NEW p \in Proc, InstallLastNodes(p) PROVE Planned'
    <2>1. /\ Alone(p) /\ Keeps(p) /\ run'[p].failed = run[p].failed
          /\ run'[p].todo = Tail(run[p].todo)
      BY <1>0, <1>4, InstallLastNodesFields DEF Moves, Alone
    <2>2. UNCHANGED <<server, flips>> /\ run[p].pc # "idle" /\ run[p].todo # <<>>
      BY <1>0, <1>4 DEF InstallLastNodes, TypeOK
    <2>3. Current(p) \notin clash' => report'[Current(p)].results[run[p].host] # "none"
      <3>1. Writing(p) /\ Inside(p) /\ Current(p) \in Check /\ run[p].host \in Host
        BY <1>4, DraftTypes DEF InstallLastNodes, Writing, Inside, Performing
      <3>2. Current(p) \notin clash => report[Current(p)].results[run[p].host] # "none"
        BY <3>1 DEF Drafted, DraftedIn, Added
      <3> QED
        BY <3>1, <3>2, <1>a, NoResultLost
    <2>4. ASSUME NEW c \in Check \ clash' PROVE Accounted(p, c)'
      BY <2>1, <2>2, <2>3, <1>b, <1>d DEF Accounted, Keeps
    <2> QED
      BY <2>1, <2>2, <2>4, <1>c
  <1>5. ASSUME NEW p \in Proc,
               \/ AskRole(p) \/ DraftNodes(p) \/ InstallNodesJson(p) \/ CheckPasses(p)
               \/ AddResult(p) \/ AddNodes(p) \/ AddLastNodes(p)
               \/ InstallResult(p) \/ InstallNodes(p)
        PROVE  Planned'
    <2>1. /\ Alone(p) /\ Keeps(p) /\ run'[p].failed = run[p].failed
          /\ run'[p].todo = run[p].todo
      <3>1. CASE AskRole(p) \/ DraftNodes(p) \/ InstallNodesJson(p)
        BY <1>0, <3>1, AskRoleFields, DraftNodesFields, InstallNodesJsonFields DEF Moves, Alone
      <3>2. CASE CheckPasses(p)
        BY <1>0, <3>2, CheckPassesFields DEF Moves, Alone
      <3>3. CASE AddResult(p) \/ AddNodes(p) \/ AddLastNodes(p)
        BY <3>3, AddFields DEF Moves, Alone
      <3>4. CASE InstallResult(p) \/ InstallNodes(p)
        BY <3>4, InstFields DEF Moves, Alone
      <3> QED
        BY <1>5, <3>1, <3>2, <3>3, <3>4
    <2>2. UNCHANGED <<server, flips>> /\ run[p].pc # "idle"
      BY <1>5 DEF AskRole, DraftNodes, InstallNodesJson, CheckPasses, AddResult, AddNodes, AddLastNodes, Draft,
         InstallResult, InstallNodes, Install
    <2>3. ASSUME NEW c \in Check \ clash' PROVE Accounted(p, c)'
      BY <2>1, <2>2, <1>b DEF Accounted, Keeps
    <2> QED
      BY <2>1, <2>2, <2>3, <1>c
  <1>6. ASSUME NEW p \in Proc, Finish(p) \/ Die(p) PROVE Planned'
    <2>1. Alone(p) /\ run'[p].pc = "idle"
      BY <1>0, <1>6, StopFields DEF Moves, Alone
    <2>2. UNCHANGED <<server, flips>>
      BY <1>6 DEF Finish, Die
    <2> QED
      BY <2>1, <2>2, <1>c DEF Accounted
  <1>7. ASSUME NEW h \in Host, Failover(h) PROVE Planned'
    <2>1. \A p \in Proc : /\ flips[p] \in Nat
                          /\ flips'[p] = IF run[p].host = h THEN flips[p] + 1 ELSE flips[p]
                          /\ run[p].host # h => server'[run[p].host] = server[run[p].host]
      BY <1>0, <1>7 DEF TypeOK, Failover
    <2>2. UNCHANGED run
      BY <1>7 DEF Failover
    <2>3. ASSUME NEW p \in Proc, NEW c \in Check \ clash' PROVE Accounted(p, c)'
      BY <2>1, <2>2, <1>b DEF Accounted
    <2> QED
      BY <2>3 DEF Planned
  <1>8. CASE UNCHANGED vars
    BY <1>8, Zenon DEF Planned, Accounted, vars
  <1> QED
    BY <1>1, <1>2, <1>3, <1>4, <1>5, <1>6, <1>7, <1>8 DEF Next

-----------------------------------------------------------------------------

\* The inductive invariant.
Inv ==
  /\ TypeInv /\ ResultsKnown /\ Exclusive /\ Drafted /\ Named /\ Complete
  /\ RoleLags /\ LapsesBounded /\ Planned

\* Inv holds initially.
LEMMA InvInit == Init => Inv
  <1> SUFFICES ASSUME Init PROVE Inv
    OBVIOUS
  <1>1. \A p \in Proc : run[p] = NoRun /\ run[p].pc = "idle" /\ run[p].tmp = EmptyReport
    BY NoRunFields DEF Init
  <1>2. TypeInv
    BY <1>1, Constants, NoRunFields DEF Init, TypeInv, TypeOK, NodesInv, Performing, Updating
  <1>3. ResultsKnown /\ Named /\ Complete
    BY <1>1, Constants DEF Init, ResultsKnown, Named, Complete
  <1>4. Exclusive /\ Drafted
    BY <1>1 DEF Exclusive, Drafted, DraftedIn, Writing
  <1>5. RoleLags /\ LapsesBounded /\ Planned
    BY <1>1 DEF Init, RoleLags, LapsesBounded, Planned, Accounted
  <1> QED
    BY <1>2, <1>3, <1>4, <1>5 DEF Inv

\* Every step preserves Inv.
LEMMA InvInductive == Inv /\ [Next]_vars => Inv'
  <1> SUFFICES ASSUME Inv, [Next]_vars PROVE Inv'
    OBVIOUS
  <1>1. TypeInv' /\ ResultsKnown' /\ Exclusive' /\ Drafted'
    BY TypeInvInductive, ResultsKnownInductive, ExclusiveInductive, DraftedInductive DEF Inv
  <1>2. Named' /\ Complete'
    BY NamedInductive, CompleteInductive DEF Inv
  <1>3. RoleLags' /\ LapsesBounded' /\ Planned'
    BY RoleLagsInductive, LapsesInductive, PlannedInductive DEF Inv
  <1> QED
    BY <1>1, <1>2, <1>3 DEF Inv

\* Inv holds in every behaviour.
THEOREM InvCorrect == Spec => []Inv
  BY InvInit, InvInductive, PTL DEF Spec

\* Every variable has its type in every behaviour, and a run that performs a
\* check has one to perform, on a host.
THEOREM TypeCorrect == Spec => []TypeOK
  <1>1. Inv => TypeOK
    BY DEF Inv, TypeInv
  <1> QED
    BY <1>1, InvCorrect, PTL

\* LapsesBounded: run_checks starts a master-only check on a standby no more
\* often than the server has changed its role during the run.
THEOREM LapsesCorrect == Spec => []LapsesBounded
  <1>1. Inv => LapsesBounded
    BY DEF Inv
  <1> QED
    BY <1>1, InvCorrect, PTL

\* ResultsNamed: in a report nobody is writing, every host with a result is in
\* last_nodes_json, unless two runs wrote the report at once or a run died
\* inside it (generate_report_json), or two runs have rewritten nodes.json at
\* once (update_nodes_json).
THEOREM NamedCorrect == Spec => []ResultsNamed
  <1>1. Inv => ResultsNamed
    BY DEF Inv, Named, ResultsNamed, Settled, Inside, Writing
  <1> QED
    BY <1>1, InvCorrect, PTL

\* ResultsComplete: in a report nobody is writing, a result has its nodes.json,
\* unless a run for its host died inside the report; it knows the host, unless
\* two runs have rewritten nodes.json at once.
THEOREM CompleteCorrect == Spec => []ResultsComplete
  <1>1. Inv => ResultsComplete
    BY DEF Inv, Complete, ResultsKnown, ResultsComplete, Settled, Writing
  <1> QED
    BY <1>1, InvCorrect, PTL

\* AccountedFor: a run of run_checks has a result, a failure or a reason to skip
\* it for every check it is done with.
THEOREM AccountedCorrect == Spec => []AccountedFor
  <1>1. Inv => AccountedFor
    BY DEF Inv, Planned, Accounted, InList, AccountedFor
  <1> QED
    BY <1>1, InvCorrect, PTL

\* ResultKept: none of the three replacements of a report loses the result of a
\* host, unless two runs write the report at once.
THEOREM ResultKeptCorrect == Spec => ResultKept
  <1> DEFINE Kept == \A c \in Check \ clash', h \in Host :
                       report[c].results[h] # "none" => report'[c].results[h] # "none"
  <1>1. Inv /\ [Next]_vars => Kept
    BY NoResultLost DEF Inv
  <1>2. [][Kept]_vars => ResultKept
    BY DEF ResultKept
  <1> HIDE DEF Kept
  <1> QED
    BY <1>1, <1>2, InvCorrect, PTL DEF Spec
===============================================================================
