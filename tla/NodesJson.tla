------------------------------ MODULE NodesJson ------------------------------
(***************************************************************************)
(* The project state that every run of `checkup collect` shares: the file  *)
(* artifacts/<project>/nodes.json and the epoch directories under          *)
(* json_reports/, as update_nodes_json (src/checkup) reads and writes them *)
(* before every single check.                                              *)
(*                                                                         *)
(* A process p is one `checkup` run at a time.  update_nodes_json is a     *)
(* sequence of separate commands (test, find, jq, mkdir, jq, mv), none of  *)
(* them under a lock, so each access to the shared files is an action of   *)
(* its own.  Only mv, which renames the finished temporary file over       *)
(* nodes.json, changes nodes.json; it is atomic.  With one process the     *)
(* module is the documented use, one host after the other; with more it is *)
(* several runs started side by side.                                      *)
(***************************************************************************)
EXTENDS Naturals

CONSTANTS
  Proc,      \* the places a `checkup collect` can run in, at the same time
  Host,      \* the host names given by --hostname
  Epoch,     \* the epochs given by --epoch
  MaxClock   \* bound: the last second of the clock

ASSUME ClockAssumption == MaxClock \in Nat

VARIABLES
  nodes,       \* content of nodes.json (of the template while there is no file)
  dirs,        \* the directories <epoch>_<timestamp> under json_reports/
  clock,       \* the time of day, in the seconds `date` prints
  pc,          \* pc[p]: the next command of the run in p
  loc,         \* loc[p]: the shell variables of the run in p
  overlap,     \* history: two runs were inside update_nodes_json at once
  orphan       \* history: a run died after mkdir, before the first nodes.json

vars == <<nodes, dirs, clock, pc, loc, overlap, orphan>>

-----------------------------------------------------------------------------
(* Values.                                                                 *)

Role == {"master", "standby"}
Never == 0                                    \* role_change_detected_at
Time == 1 .. (MaxClock + 1)
Dir == [epoch : Epoch, ts : Time]
NoDir == [epoch |-> "null", ts |-> 0]         \* last_check of the template

\* What `jq -r` prints for a host that is not in the file.
NullEntry == [index |-> 0, role |-> "null", changedAt |-> Never]
Entry == [index : Nat, role : Role \cup {"null"}, changedAt : Nat]

\* resources/templates/nodes.json
Template == [exists |-> FALSE, hosts |-> [h \in Host |-> NullEntry], last |-> NoDir]
Nodes == [exists : BOOLEAN, hosts : [Host -> Entry], last : Dir \cup {NoDir}]

Recorded(n, h) == n.hosts[h].index # 0
DirOf(e) == {d \in Dir : d.epoch = e}
DirsOf(e) == {d \in dirs : d.epoch = e}

Command == {"idle", "probe", "test", "count", "read", "find", "mkdir", "max",
            "jq", "mv", "check"}
\* The commands of update_nodes_json after its first look at the shared files.
InUpdate(p) == pc[p] \in {"count", "read", "find", "mkdir", "max", "jq", "mv"}

\* The variables of a run that update_nodes_json reads or sets.
Unset == "null"
Locals == [host : Host \cup {Unset},          \* HOST
           epoch : Epoch \cup {Unset},        \* EPOCH
           ts : Nat,                          \* TIMESTAMP_DIR, TIMESTAMPTZ
           role : Role \cup {Unset},          \* ROLE
           prev : Role \cup {Unset},          \* prev_role
           fresh : BOOLEAN,                   \* nodes.json did not exist
           index : Nat,                       \* ALIAS_INDEX
           dir : Dir \cup {NoDir},            \* JSON_REPORTS_DIR
           draft : Nodes]                     \* nodes.json.tmp_XXXXXX

NullLocals == [host |-> Unset, epoch |-> Unset, ts |-> 0, role |-> Unset,
               prev |-> Unset, fresh |-> FALSE, index |-> 0, dir |-> NoDir,
               draft |-> Template]

-----------------------------------------------------------------------------
Init ==
  /\ nodes = Template
  /\ dirs = {}
  /\ clock = 1
  /\ pc = [p \in Proc |-> "idle"]
  /\ loc = [p \in Proc |-> NullLocals]
  /\ overlap = FALSE
  /\ orphan = FALSE

Goto(p, c) == pc' = [pc EXCEPT ![p] = c]
Set(p, l) == loc' = [loc EXCEPT ![p] = l]

\* `checkup collect -h h -e e`: a new run of the script begins.
Start(p, h, e) ==
  /\ pc[p] = "idle"
  /\ Goto(p, "probe")
  /\ Set(p, [loc[p] EXCEPT !.host = h, !.epoch = e])
  /\ UNCHANGED <<nodes, dirs, clock, overlap, orphan>>

\* run_checks fixes the timestamps of the next check, then update_nodes_json
\* asks the server for its role, which a failover may have changed.
Probe(p) ==
  /\ pc[p] = "probe"
  /\ Goto(p, "test")
  /\ \E r \in Role : Set(p, [loc[p] EXCEPT !.ts = clock, !.role = r, !.index = 0])
  /\ UNCHANGED <<nodes, dirs, clock, overlap, orphan>>

\* Seeded fault: the directory name is built before EPOCH is known.
OwnDirNoEpoch(l) == [epoch |-> Unset, ts |-> l.ts]

\* The directory of the run's epoch and timestamp: <epoch>_<timestamp>.
OwnDir(l) == [epoch |-> l.epoch, ts |-> l.ts]

\* [[ ! -f nodes.json ]]: the first host of a project is node1.
TestNodes(p) ==
  /\ pc[p] = "test"
  /\ overlap' = (overlap \/ \E q \in Proc \ {p} : InUpdate(q))
  /\ \/ /\ ~nodes.exists
        /\ Goto(p, "mkdir")
        /\ Set(p, [loc[p] EXCEPT !.fresh = TRUE, !.index = 1,
                                 !.prev = loc[p].role, !.dir = OwnDir(loc[p])])
     \/ /\ nodes.exists
        /\ Goto(p, "count")
        /\ Set(p, [loc[p] EXCEPT !.fresh = FALSE])
  /\ UNCHANGED <<nodes, dirs, clock, orphan>>

\* The run refuses to go on when its epoch has two directories.
CountDirs(p) ==
  /\ pc[p] = "count"
  /\ \/ /\ \E d1, d2 \in DirsOf(loc[p].epoch) : d1 # d2
        /\ Goto(p, "idle")
        /\ Set(p, NullLocals)
     \/ /\ \A d1, d2 \in DirsOf(loc[p].epoch) : d1 = d2
        /\ Goto(p, "read")
        /\ UNCHANGED loc
  /\ UNCHANGED <<nodes, dirs, clock, overlap, orphan>>

\* internal_alias, index and role of HOST; "null" for a new host.
ReadHost(p) ==
  /\ pc[p] = "read"
  /\ Goto(p, "find")
  /\ LET entry == nodes.hosts[loc[p].host] IN
       Set(p, [loc[p] EXCEPT !.index = entry.index, !.prev = entry.role])
  /\ UNCHANGED <<nodes, dirs, clock, overlap, orphan>>

\* Seeded fault: every check makes a directory of its own.
FindDirAlwaysNew(p) ==
  /\ pc[p] = "find"
  /\ Goto(p, "mkdir")
  /\ Set(p, [loc[p] EXCEPT !.dir = OwnDir(loc[p])])
  /\ UNCHANGED <<nodes, dirs, clock, overlap, orphan>>

\* `test -d <epoch>_*`: go on with the directory of the epoch, or make one.  With
\* two matches `test` is an error, and the run makes one of its own, too.
FindDir(p) ==
  /\ pc[p] = "find"
  /\ Goto(p, "mkdir")
  /\ \/ \E d \in dirs :
          /\ DirsOf(loc[p].epoch) = {d}
          /\ Set(p, [loc[p] EXCEPT !.dir = d])
     \/ /\ \A d \in dirs : DirsOf(loc[p].epoch) # {d}
        /\ Set(p, [loc[p] EXCEPT !.dir = OwnDir(loc[p])])
  /\ UNCHANGED <<nodes, dirs, clock, overlap, orphan>>

\* Seeded fault: the test for a new host is missing, so every host is numbered.
MkdirRenumber(p) ==
  /\ pc[p] = "mkdir"
  /\ dirs' = dirs \cup {loc[p].dir}
  /\ Goto(p, IF nodes.exists THEN "max" ELSE "jq")
  /\ UNCHANGED <<nodes, clock, loc, overlap, orphan>>

\* mkdir -p: a new host still needs a number.
Mkdir(p) ==
  /\ pc[p] = "mkdir"
  /\ dirs' = dirs \cup {loc[p].dir}
  /\ Goto(p, IF loc[p].index = 0 THEN "max" ELSE "jq")
  /\ UNCHANGED <<nodes, clock, loc, overlap, orphan>>

\* Seeded fault: the largest number itself.
NextIndexNoIncrement(p) ==
  /\ pc[p] = "max"
  /\ Goto(p, "jq")
  /\ \E g \in Host :
       /\ \A k \in Host : nodes.hosts[k].index <= nodes.hosts[g].index
       /\ Set(p, [loc[p] EXCEPT !.index = nodes.hosts[g].index])
  /\ UNCHANGED <<nodes, dirs, clock, overlap, orphan>>

\* The number of a new host: the largest in the file, plus one.
NextIndex(p) ==
  /\ pc[p] = "max"
  /\ Goto(p, "jq")
  /\ \E g \in Host :
       /\ \A k \in Host : nodes.hosts[k].index <= nodes.hosts[g].index
       /\ Set(p, [loc[p] EXCEPT !.index = nodes.hosts[g].index + 1])
  /\ UNCHANGED <<nodes, dirs, clock, overlap, orphan>>

\* Seeded fault: only a host that was a standby can change its role.
RoleChangedAtPromotion(l) ==
  IF l.prev = "standby" /\ l.role = "master" THEN l.ts ELSE Never

\* role_changed_at: a host seen for the first time has not changed its role.
RoleChangedAt(l) ==
  IF l.prev \in {l.role, Unset} THEN Never ELSE l.ts

\* Seeded fault: `.hosts =` where the filter has `.hosts +=`.
FilledReplace(n, l) ==
  [exists |-> TRUE,
   hosts |-> [Template.hosts EXCEPT ![l.host] =
                [index |-> l.index, role |-> l.role, changedAt |-> RoleChangedAt(l)]],
   last |-> l.dir]

\* Seeded fault: last_check.dir is the name a new directory would have.
FilledOwnDir(n, l) ==
  [exists |-> TRUE,
   hosts |-> [n.hosts EXCEPT ![l.host] =
                [index |-> l.index, role |-> l.role, changedAt |-> RoleChangedAt(l)]],
   last |-> OwnDir(l)]

\* The jq filter that fills nodes.json, applied to the content n.
Filled(n, l) ==
  [exists |-> TRUE,
   hosts |-> [n.hosts EXCEPT ![l.host] =
                [index |-> l.index, role |-> l.role, changedAt |-> RoleChangedAt(l)]],
   last |-> l.dir]

\* jq reads nodes.json again (or the template) and writes the temporary file.
WriteDraft(p) ==
  /\ pc[p] = "jq"
  /\ Goto(p, "mv")
  /\ LET input == IF loc[p].fresh THEN Template ELSE nodes IN
       Set(p, [loc[p] EXCEPT !.draft = Filled(input, loc[p])])
  /\ UNCHANGED <<nodes, dirs, clock, overlap, orphan>>

\* mv: the temporary file becomes nodes.json, and the locals of
\* update_nodes_json are gone.
Install(p) ==
  /\ pc[p] = "mv"
  /\ nodes' = loc[p].draft
  /\ Goto(p, "check")
  /\ Set(p, [loc[p] EXCEPT !.prev = Unset, !.fresh = FALSE, !.draft = Template])
  /\ UNCHANGED <<dirs, clock, overlap, orphan>>

\* The check has been performed: the loop of run_checks goes on, or ends.
NextCheck(p) ==
  /\ pc[p] = "check"
  /\ Goto(p, "probe")
  /\ UNCHANGED <<nodes, dirs, clock, loc, overlap, orphan>>

Finish(p) ==
  /\ pc[p] = "check"
  /\ Goto(p, "idle")
  /\ Set(p, NullLocals)
  /\ UNCHANGED <<nodes, dirs, clock, overlap, orphan>>

\* The run stops where it is: a signal, a full disk, or, in is_in_recovery, a
\* server that does not answer.  Nothing of what it did is undone.
Die(p) ==
  /\ pc[p] # "idle"
  /\ Goto(p, "idle")
  /\ Set(p, NullLocals)
  /\ orphan' = (orphan \/ (~nodes.exists /\ pc[p] \in {"jq", "mv"}))
  /\ UNCHANGED <<nodes, dirs, clock, overlap>>

\* Time passes.
Tick ==
  /\ clock <= MaxClock
  /\ clock' = clock + 1
  /\ UNCHANGED <<nodes, dirs, pc, loc, overlap, orphan>>

UpdateStep(p) ==
  \/ Probe(p) \/ TestNodes(p) \/ CountDirs(p) \/ ReadHost(p) \/ FindDir(p)
  \/ Mkdir(p) \/ NextIndex(p) \/ WriteDraft(p) \/ Install(p)

Next ==
  \/ \E p \in Proc :
       \/ \E h \in Host, e \in Epoch : Start(p, h, e)
       \/ UpdateStep(p)
       \/ NextCheck(p)
       \/ Finish(p)
       \/ Die(p)
  \/ Tick

Spec == Init /\ [][Next]_vars

-----------------------------------------------------------------------------
(* Properties.  A run may be inside update_nodes_json while another one    *)
(* performs a check; `overlap` tells whether two were ever inside it.      *)

\* What has been set when command c comes next.
LocalsSet(c, l) ==
  /\ c # "idle" => l.host \in Host /\ l.epoch \in Epoch
  /\ c \notin {"idle", "probe"} => l.ts \in Time /\ l.role \in Role
  /\ c \in {"mkdir", "max", "jq", "mv", "check"} => l.dir \in DirOf(l.epoch)

RunTypeOK ==
  /\ pc \in [Proc -> Command]
  /\ loc \in [Proc -> Locals]
  /\ \A p \in Proc : LocalsSet(pc[p], loc[p])

\* Every variable has its type, and a run that has got past `find` has a
\* directory of its own epoch.
TypeOK ==
  /\ nodes \in Nodes
  /\ dirs \subseteq Dir
  /\ clock \in Time
  /\ overlap \in BOOLEAN
  /\ orphan \in BOOLEAN
  /\ RunTypeOK

\* The directory nodes.json points `checkup process` and `checkup upload` to
\* exists, however many runs work on the project and wherever they die
\* (mkdir at src/checkup:1149 comes before the jq that names the directory).
LastDirExists == nodes.exists => nodes.last \in dirs

\* Unless two runs were inside update_nodes_json at once, no two hosts share a
\* number, hence an alias, a place among the replicas and K000 snapshot files.
UniqueIndex ==
  ~overlap => \A g, h \in Host :
    Recorded(nodes, g) /\ nodes.hosts[g].index = nodes.hosts[h].index => g = h

\* Unless two runs were inside update_nodes_json at once, a host that is in
\* nodes.json stays there and keeps its number, whatever other runs write and
\* wherever they die.
IndexStable ==
  [][~overlap' => \A h \in Host :
       Recorded(nodes, h) => nodes'.hosts[h].index = nodes.hosts[h].index]_vars

\* An epoch has one directory, so the reports of all its hosts meet there,
\* unless two runs were inside update_nodes_json at once or the very first run
\* of the project died between mkdir and mv.
OneDirPerEpoch ==
  ~overlap /\ ~orphan => \A d1, d2 \in dirs : d1.epoch = d2.epoch => d1 = d2

\* Unless two runs were inside update_nodes_json at once, whenever the role
\* written for a known host differs from the one that was there, the same write
\* says when (the old role was read several commands before the write).
RoleChangeStamped ==
  [][~overlap' => \A h \in Host :
       /\ Recorded(nodes, h)
       /\ nodes'.hosts[h].role # nodes.hosts[h].role
       => nodes'.hosts[h].changedAt # Never]_vars

\* With one run at a time, nodes.json implements the registry of host numbers.
Registry == INSTANCE HostRegistry WITH number <- [h \in Host |-> nodes.hosts[h].index]
RegistrySpec == Registry!Spec
=============================================================================
