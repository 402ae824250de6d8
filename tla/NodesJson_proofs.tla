-------------------------- MODULE NodesJson_proofs --------------------------
(***************************************************************************)
(* NodesJson, for every set of runs, hosts and epochs: its types, its      *)
(* safety properties, and that it implements HostRegistry.                 *)
(*                                                                         *)
(* TypeOK is inductive as it stands.  All actions but Tick are a step of   *)
(* one run, which goes to a command c with locals l; RunStepType is the    *)
(* argument they share.                                                    *)
(*                                                                         *)
(* The argument for the others: as long as two runs are never inside       *)
(* update_nodes_json together (~overlap), what a run has read there still  *)
(* describes nodes.json when it writes the file, because nobody else can   *)
(* have written it in between.  Knows says so, command by command.  The    *)
(* inductive invariant has three layers, each proved on top of the last:   *)
(*   NamedDirsExist                     holds in every behaviour;          *)
(*   ~overlap => SerialInv              gives the numbers and the roles;   *)
(*   ~overlap /\ ~orphan => DirInv      gives the directories.             *)
(***************************************************************************)
EXTENDS NodesJson, TLAPS

\* Filling nodes.json gives a nodes.json again.
LEMMA FilledType ==
  ASSUME NEW n \in Nodes, NEW l \in Locals,
         l.host \in Host, l.role \in Role, l.dir \in Dir
  PROVE  Filled(n, l) \in Nodes
  <1>1. RoleChangedAt(l) \in Nat
    BY DEF RoleChangedAt, Locals, Never
  <1>2. [index |-> l.index, role |-> l.role, changedAt |-> RoleChangedAt(l)] \in Entry
    BY <1>1 DEF Locals, Entry
  <1>3. n.hosts \in [Host -> Entry]
    BY DEF Nodes
  <1> QED
    BY <1>2, <1>3 DEF Filled, Nodes

LEMMA TemplateType == Template \in Nodes
  BY DEF Template, Nodes, NullEntry, Entry, Never

LEMMA NullLocalsType == NullLocals \in Locals
  BY TemplateType DEF NullLocals, Locals

LEMMA IdleRun == "idle" \in Command /\ LocalsSet("idle", NullLocals)
  BY DEF Command, LocalsSet

\* A run that goes to command c with locals l keeps the types of pc and loc, if
\* l has the type of the locals and sets what c needs.
LEMMA RunStepType ==
  ASSUME RunTypeOK, NEW p \in Proc, NEW c \in Command, NEW l \in Locals,
         LocalsSet(c, l), Goto(p, c), Set(p, l)
  PROVE  RunTypeOK'
  BY Zenon DEF RunTypeOK, Goto, Set

\* Every action keeps every variable in its type.
THEOREM TypeCorrect == Spec => []TypeOK
  <1>1. Init => TypeOK
    <2> SUFFICES ASSUME Init PROVE TypeOK
      OBVIOUS
    <2>1. nodes \in Nodes /\ dirs \subseteq Dir /\ clock \in Time
      BY TemplateType, ClockAssumption DEF Init, Time
    <2>2. RunTypeOK
      BY NullLocalsType DEF Init, RunTypeOK, Command, LocalsSet
    <2>3. overlap \in BOOLEAN /\ orphan \in BOOLEAN
      BY Zenon DEF Init
    <2> QED
      BY <2>1, <2>2, <2>3 DEF TypeOK
  <1>2. TypeOK /\ [Next]_vars => TypeOK'
    <2> SUFFICES ASSUME TypeOK, [Next]_vars PROVE TypeOK'
      OBVIOUS
    <2>0. RunTypeOK /\ nodes \in Nodes /\ NullLocals \in Locals /\ Template \in Nodes
      BY NullLocalsType, TemplateType DEF TypeOK
    <2>1. ASSUME NEW p \in Proc, NEW h \in Host, NEW e \in Epoch, Start(p, h, e)
          PROVE  TypeOK'
      <3> DEFINE l == [loc[p] EXCEPT !.host = h, !.epoch = e]
      <3>1. l \in Locals /\ LocalsSet("probe", l)
        BY <2>0, <2>1 DEF RunTypeOK, Locals, LocalsSet
      <3>2. Goto(p, "probe") /\ Set(p, l) /\ "probe" \in Command
        BY <2>1, Zenon DEF Start, Command
      <3> HIDE DEF l
      <3>3. RunTypeOK'
        BY <2>0, <3>1, <3>2, RunStepType
      <3> QED
        BY <2>1, <3>3, Zenon DEF Start, TypeOK
    <2>2. ASSUME NEW p \in Proc, Probe(p)
          PROVE  TypeOK'
      <3> PICK r \in Role :
            Set(p, [loc[p] EXCEPT !.ts = clock, !.role = r, !.index = 0])
        BY <2>2, Zenon DEF Probe
      <3> DEFINE l == [loc[p] EXCEPT !.ts = clock, !.role = r, !.index = 0]
      <3>1. clock \in Time /\ clock \in Nat
        BY ClockAssumption DEF TypeOK, Time
      <3>2. l \in Locals /\ LocalsSet("test", l)
        BY <2>0, <2>2, <3>1 DEF Probe, RunTypeOK, Locals, LocalsSet
      <3>3. Goto(p, "test") /\ Set(p, l) /\ "test" \in Command
        BY <2>2, Zenon DEF Probe, Command
      <3> HIDE DEF l
      <3>4. RunTypeOK'
        BY <2>0, <3>2, <3>3, RunStepType
      <3> QED
        BY <2>2, <3>4, Zenon DEF Probe, TypeOK
    <2>3. ASSUME NEW p \in Proc, TestNodes(p)
          PROVE  TypeOK'
      <3>1. ASSUME ~nodes.exists PROVE RunTypeOK'
        <4> DEFINE l == [loc[p] EXCEPT !.fresh = TRUE, !.index = 1,
                                       !.prev = loc[p].role, !.dir = OwnDir(loc[p])]
        <4>1. l \in Locals /\ LocalsSet("mkdir", l)
          BY <2>0, <2>3 DEF TestNodes, RunTypeOK, Locals, LocalsSet, OwnDir, Dir, DirOf
        <4>2. "mkdir" \in Command
          BY DEF Command
        <4>3. Goto(p, "mkdir") /\ Set(p, l)
          BY <2>3, <3>1, Zenon DEF TestNodes
        <4> HIDE DEF l
        <4> QED
          BY <2>0, <4>1, <4>2, <4>3, RunStepType
      <3>2. ASSUME nodes.exists PROVE RunTypeOK'
        <4> DEFINE l == [loc[p] EXCEPT !.fresh = FALSE]
        <4>1. l \in Locals /\ LocalsSet("count", l)
          BY <2>0, <2>3 DEF TestNodes, RunTypeOK, Locals, LocalsSet
        <4>2. "count" \in Command
          BY DEF Command
        <4>3. Goto(p, "count") /\ Set(p, l)
          BY <2>3, <3>2, Zenon DEF TestNodes
        <4> HIDE DEF l
        <4> QED
          BY <2>0, <4>1, <4>2, <4>3, RunStepType
      <3>3. RunTypeOK'
        BY <3>1, <3>2
      <3>4. overlap' \in BOOLEAN
        BY <2>3, Zenon DEF TestNodes
      <3> QED
        BY <2>3, <3>3, <3>4, Zenon DEF TestNodes, TypeOK
    <2>4. ASSUME NEW p \in Proc, CountDirs(p)
          PROVE  TypeOK'
      <3>1. ASSUME Set(p, NullLocals), Goto(p, "idle")
            PROVE  RunTypeOK'
        BY <2>0, <3>1, RunStepType, IdleRun
      <3>2. ASSUME Goto(p, "read"), UNCHANGED loc
            PROVE  RunTypeOK'
        BY <2>0, <2>4, <3>2 DEF CountDirs, Goto, RunTypeOK, LocalsSet, Command
      <3>3. RunTypeOK'
        BY <2>4, <3>1, <3>2, Zenon DEF CountDirs
      <3> QED
        BY <2>4, <3>3, Zenon DEF CountDirs, TypeOK
    <2>5. ASSUME NEW p \in Proc, ReadHost(p)
          PROVE  TypeOK'
      <3> DEFINE entry == nodes.hosts[loc[p].host]
      <3> DEFINE l == [loc[p] EXCEPT !.index = entry.index, !.prev = entry.role]
      <3>1. entry \in Entry
        BY <2>0, <2>5 DEF ReadHost, RunTypeOK, LocalsSet, Nodes
      <3>2. l \in Locals /\ LocalsSet("find", l)
        BY <2>0, <2>5, <3>1 DEF ReadHost, RunTypeOK, Locals, LocalsSet, Entry, Unset
      <3>3. Goto(p, "find") /\ Set(p, l) /\ "find" \in Command
        BY <2>5, Zenon DEF ReadHost, Command
      <3> HIDE DEF l
      <3>4. RunTypeOK'
        BY <2>0, <3>2, <3>3, RunStepType
      <3> QED
        BY <2>5, <3>4, Zenon DEF ReadHost, TypeOK
    <2>6. ASSUME NEW p \in Proc, FindDir(p)
          PROVE  TypeOK'
      <3>1. PICK d \in DirOf(loc[p].epoch) : Set(p, [loc[p] EXCEPT !.dir = d])
        <4>1. OwnDir(loc[p]) \in DirOf(loc[p].epoch)
          BY <2>0, <2>6 DEF FindDir, RunTypeOK, LocalsSet, OwnDir, Dir, DirOf
        <4>2. \A d \in dirs : DirsOf(loc[p].epoch) = {d} => d \in DirOf(loc[p].epoch)
          BY DEF TypeOK, DirsOf, DirOf
        <4> QED
          BY <2>6, <4>1, <4>2, Zenon DEF FindDir
      <3> DEFINE l == [loc[p] EXCEPT !.dir = d]
      <3>2. l \in Locals /\ LocalsSet("mkdir", l)
        BY <2>0, <2>6, <3>1 DEF FindDir, RunTypeOK, Locals, LocalsSet, DirOf
      <3>3. Goto(p, "mkdir") /\ Set(p, l) /\ "mkdir" \in Command
        BY <2>6, <3>1, Zenon DEF FindDir, Command
      <3> HIDE DEF l
      <3>4. RunTypeOK'
        BY <2>0, <3>2, <3>3, RunStepType
      <3> QED
        BY <2>6, <3>4, Zenon DEF FindDir, TypeOK
    <2>7. ASSUME NEW p \in Proc, Mkdir(p)
          PROVE  TypeOK'
      <3>1. dirs' \subseteq Dir
        BY <2>0, <2>7 DEF Mkdir, TypeOK, RunTypeOK, LocalsSet, DirOf
      <3>2. RunTypeOK'
        BY <2>0, <2>7 DEF Mkdir, Goto, RunTypeOK, LocalsSet, Command
      <3> QED
        BY <2>7, <3>1, <3>2, Zenon DEF Mkdir, TypeOK
    <2>8. ASSUME NEW p \in Proc, NextIndex(p)
          PROVE  TypeOK'
      <3>1. PICK g \in Host :
              Set(p, [loc[p] EXCEPT !.index = nodes.hosts[g].index + 1])
        BY <2>8, Zenon DEF NextIndex
      <3> DEFINE l == [loc[p] EXCEPT !.index = nodes.hosts[g].index + 1]
      <3>2. nodes.hosts[g].index + 1 \in Nat
        BY <2>0 DEF Nodes, Entry
      <3>3. l \in Locals /\ LocalsSet("jq", l)
        BY <2>0, <2>8, <3>2 DEF NextIndex, RunTypeOK, Locals, LocalsSet
      <3>4. Goto(p, "jq") /\ Set(p, l) /\ "jq" \in Command
        BY <2>8, <3>1, Zenon DEF NextIndex, Command
      <3> HIDE DEF l
      <3>5. RunTypeOK'
        BY <2>0, <3>3, <3>4, RunStepType
      <3> QED
        BY <2>8, <3>5, Zenon DEF NextIndex, TypeOK
    <2>9. ASSUME NEW p \in Proc, WriteDraft(p)
          PROVE  TypeOK'
      <3> DEFINE input == IF loc[p].fresh THEN Template ELSE nodes
      <3> DEFINE l == [loc[p] EXCEPT !.draft = Filled(input, loc[p])]
      <3>1. Filled(input, loc[p]) \in Nodes
        BY <2>0, <2>9, FilledType DEF WriteDraft, RunTypeOK, LocalsSet, DirOf
      <3>2. l \in Locals /\ LocalsSet("mv", l)
        BY <2>0, <2>9, <3>1 DEF WriteDraft, RunTypeOK, Locals, LocalsSet
      <3>3. Goto(p, "mv") /\ Set(p, l) /\ "mv" \in Command
        BY <2>9, Zenon DEF WriteDraft, Command
      <3> HIDE DEF l
      <3>4. RunTypeOK'
        BY <2>0, <3>2, <3>3, RunStepType
      <3> QED
        BY <2>9, <3>4, Zenon DEF WriteDraft, TypeOK
    <2>10. ASSUME NEW p \in Proc, Install(p)
          PROVE  TypeOK'
      <3> DEFINE l == [loc[p] EXCEPT !.prev = Unset, !.fresh = FALSE, !.draft = Template]
      <3>1. l \in Locals /\ LocalsSet("check", l)
        BY <2>0, <2>10 DEF Install, RunTypeOK, Locals, LocalsSet
      <3>2. Goto(p, "check") /\ Set(p, l) /\ "check" \in Command
        BY <2>10, Zenon DEF Install, Command
      <3> HIDE DEF l
      <3>3. RunTypeOK'
        BY <2>0, <3>1, <3>2, RunStepType
      <3>4. nodes' \in Nodes
        BY <2>0, <2>10 DEF Install, RunTypeOK, Locals
      <3> QED
        BY <2>10, <3>3, <3>4, Zenon DEF Install, TypeOK
    <2>11. ASSUME NEW p \in Proc, NextCheck(p)
          PROVE  TypeOK'
      <3>1. RunTypeOK'
        BY <2>0, <2>11 DEF NextCheck, Goto, RunTypeOK, LocalsSet, Command
      <3> QED
        BY <2>11, <3>1, Zenon DEF NextCheck, TypeOK
    <2>12. ASSUME NEW p \in Proc, Set(p, NullLocals), Goto(p, "idle"),
                  UNCHANGED <<nodes, dirs, clock, overlap>>, orphan' \in BOOLEAN
          PROVE  TypeOK'
      <3>1. RunTypeOK'
        BY <2>0, <2>12, RunStepType, IdleRun
      <3> QED
        BY <2>12, <3>1, Zenon DEF TypeOK
    <2>13. ASSUME NEW p \in Proc, Finish(p)
          PROVE  TypeOK'
      BY <2>12, <2>13, Zenon DEF Finish, TypeOK
    <2>14. ASSUME NEW p \in Proc, Die(p)
          PROVE  TypeOK'
      BY <2>12, <2>14, Zenon DEF Die
    <2>15. ASSUME Tick
          PROVE  TypeOK'
      <3>1. clock' \in Time
        BY <2>15, ClockAssumption DEF Tick, TypeOK, Time
      <3>2. RunTypeOK'
        BY <2>0, <2>15, Zenon DEF Tick, RunTypeOK
      <3> QED
        BY <2>15, <3>1, <3>2, Zenon DEF Tick, TypeOK
    <2>16. CASE UNCHANGED vars
      <3>1. RunTypeOK'
        BY <2>0, <2>16, Zenon DEF vars, RunTypeOK
      <3> QED
        BY <2>16, <3>1, Zenon DEF vars, TypeOK
    <2> QED
      BY <2>1, <2>2, <2>3, <2>4, <2>5, <2>6, <2>7, <2>8, <2>9, <2>10, <2>11,
         <2>13, <2>14, <2>15, <2>16 DEF Next, UpdateStep
  <1> QED
    BY <1>1, <1>2, PTL DEF Spec

-----------------------------------------------------------------------------
\* The number in l is the right one for the host of l in the file n.
RightIndex(n, l) ==
  IF Recorded(n, l.host)
  THEN l.index = n.hosts[l.host].index
  ELSE \E g \in Host :
         /\ \A k \in Host : n.hosts[k].index <= n.hosts[g].index
         /\ l.index = n.hosts[g].index + 1

\* What a run inside update_nodes_json, with locals l and about to execute c,
\* knows of the file n.
Knows(n, c, l) ==
  /\ l.fresh <=> ~n.exists
  /\ c \in {"find", "mkdir", "max"} /\ n.exists => l.index = n.hosts[l.host].index
  /\ c \in {"count", "read", "find", "max"} => n.exists
  /\ c = "max" => ~Recorded(n, l.host)
  /\ c = "mkdir" /\ ~n.exists => l.index = 1
  /\ c \in {"jq", "mv"} => RightIndex(n, l)
  /\ c \in {"find", "mkdir", "max", "jq", "mv"} /\ n.exists =>
       l.prev = n.hosts[l.host].role
  /\ c = "mv" => l.draft = Filled(n, l)

\* The file itself: the template, or hosts with roles and numbers of their own.
FileInv(n) ==
  /\ ~n.exists => n = Template
  /\ \A h \in Host : Recorded(n, h) => n.hosts[h].role \in Role
  /\ \A g, h \in Host : Recorded(n, g) /\ n.hosts[g].index = n.hosts[h].index => g = h

\* One run at a time is inside update_nodes_json, and knows the file.
SerialInv ==
  /\ \A p, q \in Proc : InUpdate(p) /\ InUpdate(q) => p = q
  /\ FileInv(nodes)
  /\ \A p \in Proc : InUpdate(p) => Knows(nodes, pc[p], loc[p])

\* A directory is made only for an epoch that has none.
DirInv ==
  /\ \A d1, d2 \in dirs : d1.epoch = d2.epoch => d1 = d2
  /\ ~nodes.exists /\ (\A p \in Proc : pc[p] \notin {"jq", "mv"}) => dirs = {}
  /\ \A p \in Proc : pc[p] = "mkdir" =>
       \A d \in dirs : d.epoch = loc[p].epoch => d = loc[p].dir

\* The directories a run at command c with locals l names are in ds.
Names(c, l, ds) ==
  /\ c \in {"max", "jq", "mv", "check"} => l.dir \in ds
  /\ c = "mv" => l.draft.last \in ds

\* No directory that nodes.json or a run names is missing.
NamedDirsExist ==
  /\ LastDirExists
  /\ \A p \in Proc : Names(pc[p], loc[p], dirs)

-----------------------------------------------------------------------------
(* Steps of a run, in general.                                             *)

\* A step of run p sets its own command and locals and no other's.
LEMMA RunStep ==
  ASSUME RunTypeOK, NEW p \in Proc, NEW c, NEW l, Goto(p, c), Set(p, l)
  PROVE  /\ pc'[p] = c /\ loc'[p] = l
         /\ \A q \in Proc \ {p} : pc'[q] = pc[q] /\ loc'[q] = loc[q]
  BY Zenon DEF RunTypeOK, Goto, Set

\* A command that assigns nothing sets the locals to what they were.
LEMMA SameLocals ==
  ASSUME RunTypeOK, NEW p \in Proc, UNCHANGED loc
  PROVE  Set(p, loc[p])
  BY DEF RunTypeOK, Set

\* A step of run p that leaves nodes.json alone keeps the named directories.
LEMMA NamesStep ==
  ASSUME RunTypeOK, NamedDirsExist, NEW p \in Proc, NEW c, NEW l, Goto(p, c), Set(p, l),
         nodes' = nodes, dirs \subseteq dirs', Names(c, l, dirs')
  PROVE  NamedDirsExist'
  <1>1. /\ pc'[p] = c /\ loc'[p] = l
        /\ \A q \in Proc \ {p} : pc'[q] = pc[q] /\ loc'[q] = loc[q]
    BY RunStep
  <1>2. ASSUME NEW q \in Proc PROVE Names(pc'[q], loc'[q], dirs')
    <2>1. CASE q = p
      BY <1>1, <2>1
    <2>2. CASE q # p
      BY <1>1, <2>2 DEF NamedDirsExist, Names
    <2> QED
      BY <2>1, <2>2
  <1>3. LastDirExists'
    BY DEF NamedDirsExist, LastDirExists
  <1> QED
    BY <1>2, <1>3 DEF NamedDirsExist

\* Before any run, and as long as nothing happens.
LEMMA InitNames == Init => NamedDirsExist
  BY DEF Init, NamedDirsExist, LastDirExists, Names, Template

-----------------------------------------------------------------------------
(* nodes.json names a directory that exists.                               *)

LEMMA NamesNext ==
  ASSUME TypeOK, NamedDirsExist, [Next]_vars
  PROVE  NamedDirsExist'
  <1>0. RunTypeOK
    BY DEF TypeOK
  <1>1. ASSUME NEW p \in Proc, NEW c \in Command, NEW l, Goto(p, c), Set(p, l),
               nodes' = nodes, dirs' = dirs, Names(c, l, dirs)
        PROVE  NamedDirsExist'
    <2>1. Names(c, l, dirs') /\ dirs \subseteq dirs'
      BY <1>1
    <2> QED
      BY <1>0, <1>1, <2>1, NamesStep
  \* Commands that no directory need exist for.
  <1>2. ASSUME NEW p \in Proc,
               NEW c \in {"idle", "probe", "test", "count", "read", "find", "mkdir"},
               NEW l, Goto(p, c), Set(p, l), nodes' = nodes, dirs' = dirs
        PROVE  NamedDirsExist'
    <2>1. Names(c, l, dirs) /\ c \in Command
      BY DEF Names, Command
    <2> QED
      BY <1>1, <1>2, <2>1
  <1>3. ASSUME NEW p \in Proc, NEW h \in Host, NEW e \in Epoch, Start(p, h, e)
        PROVE  NamedDirsExist'
    BY <1>2, <1>3, Zenon DEF Start
  <1>4. ASSUME NEW p \in Proc, Probe(p)
        PROVE  NamedDirsExist'
    BY <1>2, <1>4, Zenon DEF Probe
  <1>5. ASSUME NEW p \in Proc, TestNodes(p)
        PROVE  NamedDirsExist'
    BY <1>2, <1>5, Zenon DEF TestNodes
  <1>6. ASSUME NEW p \in Proc, CountDirs(p)
        PROVE  NamedDirsExist'
    BY <1>0, <1>2, <1>6, SameLocals, Zenon DEF CountDirs
  <1>7. ASSUME NEW p \in Proc, ReadHost(p)
        PROVE  NamedDirsExist'
    BY <1>2, <1>7, Zenon DEF ReadHost
  <1>8. ASSUME NEW p \in Proc, FindDir(p)
        PROVE  NamedDirsExist'
    BY <1>2, <1>8, Zenon DEF FindDir
  <1>9. ASSUME NEW p \in Proc, Mkdir(p)
        PROVE  NamedDirsExist'
    <2> DEFINE c == IF loc[p].index = 0 THEN "max" ELSE "jq"
    <2>1. Goto(p, c) /\ Set(p, loc[p]) /\ nodes' = nodes /\ dirs' = dirs \cup {loc[p].dir}
      BY <1>0, <1>9, SameLocals, Zenon DEF Mkdir
    <2>2. Names(c, loc[p], dirs') /\ dirs \subseteq dirs'
      BY <2>1 DEF Names
    <2> HIDE DEF c
    <2> QED
      BY <1>0, <2>1, <2>2, NamesStep
  <1>10. ASSUME NEW p \in Proc, NextIndex(p)
         PROVE  NamedDirsExist'
    <2>1. PICK g \in Host : Set(p, [loc[p] EXCEPT !.index = nodes.hosts[g].index + 1])
      BY <1>10, Zenon DEF NextIndex
    <2> DEFINE l == [loc[p] EXCEPT !.index = nodes.hosts[g].index + 1]
    <2>2. Goto(p, "jq") /\ Set(p, l) /\ nodes' = nodes /\ dirs' = dirs
      BY <1>10, <2>1, Zenon DEF NextIndex
    <2>3. Names("jq", l, dirs)
      BY <1>0, <1>10 DEF NextIndex, NamedDirsExist, Names, RunTypeOK, Locals
    <2>4. "jq" \in Command
      BY DEF Command
    <2> HIDE DEF l
    <2> QED
      BY <1>1, <2>2, <2>3, <2>4
  <1>11. ASSUME NEW p \in Proc, WriteDraft(p)
         PROVE  NamedDirsExist'
    <2> DEFINE input == IF loc[p].fresh THEN Template ELSE nodes
    <2> DEFINE l == [loc[p] EXCEPT !.draft = Filled(input, loc[p])]
    <2>1. Goto(p, "mv") /\ Set(p, l) /\ nodes' = nodes /\ dirs' = dirs
      BY <1>11, Zenon DEF WriteDraft
    <2>2. Filled(input, loc[p]).last = loc[p].dir
      BY DEF Filled
    <2>3. l.dir = loc[p].dir /\ l.draft.last = loc[p].dir
      BY <1>0, <2>2 DEF RunTypeOK, Locals
    <2>4. Names("mv", l, dirs)
      BY <1>11, <2>3 DEF WriteDraft, NamedDirsExist, Names
    <2>5. "mv" \in Command
      BY DEF Command
    <2> HIDE DEF l
    <2> QED
      BY <1>1, <2>1, <2>4, <2>5
  \* What mv installs names the directory the run has made.
  <1>12. ASSUME NEW p \in Proc, Install(p)
         PROVE  NamedDirsExist'
    <2> DEFINE l == [loc[p] EXCEPT !.prev = Unset, !.fresh = FALSE, !.draft = Template]
    <2>1. Goto(p, "check") /\ Set(p, l) /\ nodes' = loc[p].draft /\ dirs' = dirs
      BY <1>12, Zenon DEF Install
    <2>2. l.dir = loc[p].dir
      BY <1>0 DEF RunTypeOK, Locals
    <2>3. Names("mv", loc[p], dirs)
      BY <1>12 DEF Install, NamedDirsExist
    <2> HIDE DEF l
    <2>4. /\ pc'[p] = "check" /\ loc'[p] = l
          /\ \A q \in Proc \ {p} : pc'[q] = pc[q] /\ loc'[q] = loc[q]
      BY <1>0, <2>1, RunStep
    <2>5. \A q \in Proc : Names(pc'[q], loc'[q], dirs')
      BY <2>1, <2>2, <2>3, <2>4 DEF NamedDirsExist, Names
    <2>6. LastDirExists'
      BY <2>1, <2>3 DEF LastDirExists, Names
    <2> QED
      BY <2>5, <2>6 DEF NamedDirsExist
  <1>13. ASSUME NEW p \in Proc, NextCheck(p)
         PROVE  NamedDirsExist'
    BY <1>0, <1>2, <1>13, SameLocals, Zenon DEF NextCheck
  <1>14. ASSUME NEW p \in Proc, Finish(p)
         PROVE  NamedDirsExist'
    BY <1>2, <1>14, Zenon DEF Finish
  <1>15. ASSUME NEW p \in Proc, Die(p)
         PROVE  NamedDirsExist'
    BY <1>2, <1>15, Zenon DEF Die
  <1>16. ASSUME UNCHANGED <<nodes, dirs, pc, loc>>
         PROVE  NamedDirsExist'
    BY <1>16 DEF NamedDirsExist, LastDirExists, Names
  <1> QED
    BY <1>3, <1>4, <1>5, <1>6, <1>7, <1>8, <1>9, <1>10, <1>11, <1>12, <1>13, <1>14,
       <1>15, <1>16 DEF Next, UpdateStep, Tick, vars

\* The directory nodes.json names exists, however many runs work on the project
\* and wherever they die.
THEOREM DirExists == Spec => []LastDirExists
  <1>1. NamedDirsExist => LastDirExists
    BY DEF NamedDirsExist
  <1> QED
    BY <1>1, InitNames, NamesNext, TypeCorrect, PTL DEF Spec

-----------------------------------------------------------------------------
(* Serial runs.  All this is about behaviours up to the first overlap.     *)

\* What has not happened after a step had not happened before it.
LEMMA NoHistory ==
  ASSUME TypeOK, [Next]_vars
  PROVE  (overlap => overlap') /\ (orphan => orphan')
  <1>0. overlap \in BOOLEAN /\ orphan \in BOOLEAN
    BY DEF TypeOK
  <1>1. \A p \in Proc :
          TestNodes(p) \/ Die(p) => (overlap => overlap') /\ (orphan => orphan')
    BY <1>0, SMT DEF TestNodes, Die
  <1>2. \A p \in Proc, h \in Host, e \in Epoch :
          Start(p, h, e) => UNCHANGED <<overlap, orphan>>
    BY Zenon DEF Start
  <1>3. \A p \in Proc :
          \/ Probe(p) \/ CountDirs(p) \/ ReadHost(p) \/ FindDir(p) \/ Mkdir(p)
          \/ NextIndex(p) \/ WriteDraft(p) \/ Install(p) \/ NextCheck(p) \/ Finish(p)
          => UNCHANGED <<overlap, orphan>>
    BY Zenon DEF Probe, CountDirs, ReadHost, FindDir, Mkdir, NextIndex, WriteDraft,
       Install, NextCheck, Finish
  <1>4. Tick \/ UNCHANGED vars => UNCHANGED <<overlap, orphan>>
    BY Zenon DEF Tick, vars
  <1>5. UNCHANGED <<overlap, orphan>> => (overlap => overlap') /\ (orphan => orphan')
    BY <1>0, SMT
  <1> QED
    BY <1>1, <1>2, <1>3, <1>4, <1>5, Zenon DEF Next, UpdateStep

\* A step of run p that leaves nodes.json alone.  A run gets into
\* update_nodes_json only when no other is there.
LEMMA SerialStep ==
  ASSUME RunTypeOK, SerialInv, NEW p \in Proc, NEW c, NEW l, Goto(p, c), Set(p, l),
         nodes' = nodes,
         InUpdate(p)' => Knows(nodes, c, l),
         InUpdate(p)' => InUpdate(p) \/ \A q \in Proc \ {p} : ~InUpdate(q)
  PROVE  SerialInv'
  <1>1. /\ pc'[p] = c /\ loc'[p] = l
        /\ \A q \in Proc \ {p} : pc'[q] = pc[q] /\ loc'[q] = loc[q]
    BY RunStep
  <1>2. \A q \in Proc \ {p} : InUpdate(q)' <=> InUpdate(q)
    BY <1>1 DEF InUpdate
  <1>3. \A q, r \in Proc : InUpdate(q)' /\ InUpdate(r)' => q = r
    BY <1>2 DEF SerialInv
  <1>4. FileInv(nodes')
    BY DEF SerialInv
  <1>5. \A q \in Proc : InUpdate(q)' => Knows(nodes', pc'[q], loc'[q])
    BY <1>1, <1>2 DEF SerialInv
  <1> QED
    BY <1>3, <1>4, <1>5 DEF SerialInv, InUpdate

\* The number of a host is right, and stays the host's own in the new file.
LEMMA FilledFile ==
  ASSUME NEW n \in Nodes, FileInv(n), NEW l \in Locals,
         l.host \in Host, l.role \in Role, RightIndex(n, l)
  PROVE  FileInv(Filled(n, l))
  <1> DEFINE m == Filled(n, l)
  <1>1. n.hosts \in [Host -> Entry]
    BY DEF Nodes
  <1>2. /\ m.exists = TRUE
        /\ m.hosts[l.host].role = l.role /\ m.hosts[l.host].index = l.index
        /\ \A h \in Host \ {l.host} : m.hosts[h] = n.hosts[h]
    BY <1>1 DEF Filled
  <1>3. \A h \in Host : n.hosts[h].index \in Nat
    BY <1>1 DEF Entry
  <1>4. \A h \in Host \ {l.host} : Recorded(n, h) => n.hosts[h].index # l.index
    <2>1. CASE Recorded(n, l.host)
      BY <2>1 DEF RightIndex, FileInv
    <2>2. CASE ~Recorded(n, l.host)
      BY <1>3, <2>2 DEF RightIndex
    <2> QED
      BY <2>1, <2>2
  <1>5. l.index # 0
    BY <1>3 DEF RightIndex, Recorded
  <1> HIDE DEF m
  <1>6. \A h \in Host : Recorded(m, h) => m.hosts[h].role \in Role
    BY <1>2 DEF FileInv, Recorded
  <1>7. \A g, h \in Host : Recorded(m, g) /\ m.hosts[g].index = m.hosts[h].index => g = h
    BY <1>2, <1>4, <1>5 DEF FileInv, Recorded
  <1> QED
    BY <1>2, <1>6, <1>7 DEF FileInv, m

LEMMA InitSerial == Init => SerialInv
  BY DEF Init, SerialInv, InUpdate, FileInv, Template, NullEntry, Recorded

LEMMA SerialNext ==
  ASSUME TypeOK, ~overlap => SerialInv, [Next]_vars, ~overlap'
  PROVE  SerialInv'
  <1>0. RunTypeOK /\ nodes \in Nodes
    BY DEF TypeOK
  <1>1. ~overlap
    BY NoHistory
  <1>2. SerialInv
    BY <1>1
  \* Commands outside update_nodes_json.
  <1>3. ASSUME NEW p \in Proc, NEW c \in {"idle", "probe", "test", "check"}, NEW l,
               Goto(p, c), Set(p, l), nodes' = nodes
        PROVE  SerialInv'
    <2>1. ~InUpdate(p)'
      BY <1>0, <1>3, RunStep DEF InUpdate
    <2> QED
      BY <1>0, <1>2, <1>3, <2>1, SerialStep
  \* A step inside update_nodes_json.
  <1>4. ASSUME NEW p \in Proc, NEW c, NEW l, Goto(p, c), Set(p, l), nodes' = nodes,
               InUpdate(p), Knows(nodes, c, l)
        PROVE  SerialInv'
    BY <1>0, <1>2, <1>4, SerialStep
  <1>5. ASSUME NEW p \in Proc, InUpdate(p)
        PROVE  Knows(nodes, pc[p], loc[p])
    BY <1>2, <1>5 DEF SerialInv
  <1>6. ASSUME NEW p \in Proc, NEW h \in Host, NEW e \in Epoch, Start(p, h, e)
        PROVE  SerialInv'
    BY <1>3, <1>6, Zenon DEF Start
  <1>7. ASSUME NEW p \in Proc, Probe(p)
        PROVE  SerialInv'
    BY <1>3, <1>7, Zenon DEF Probe
  <1>8. ASSUME NEW p \in Proc, TestNodes(p)
        PROVE  SerialInv'
    <2>1. \A q \in Proc \ {p} : ~InUpdate(q)
      BY <1>8 DEF TestNodes
    <2>2. ASSUME ~nodes.exists PROVE SerialInv'
      <3> DEFINE l == [loc[p] EXCEPT !.fresh = TRUE, !.index = 1,
                                     !.prev = loc[p].role, !.dir = OwnDir(loc[p])]
      <3>1. l.fresh = TRUE /\ l.index = 1
        BY <1>0 DEF RunTypeOK, Locals
      <3>2. Goto(p, "mkdir") /\ Set(p, l) /\ nodes' = nodes
        BY <1>8, <2>2, Zenon DEF TestNodes
      <3> HIDE DEF l
      <3>3. Knows(nodes, "mkdir", l)
        BY <2>2, <3>1 DEF Knows
      <3> QED
        BY <1>0, <1>2, <2>1, <3>2, <3>3, SerialStep
    <2>3. ASSUME nodes.exists PROVE SerialInv'
      <3> DEFINE l == [loc[p] EXCEPT !.fresh = FALSE]
      <3>1. l.fresh = FALSE
        BY <1>0 DEF RunTypeOK, Locals
      <3>2. Goto(p, "count") /\ Set(p, l) /\ nodes' = nodes
        BY <1>8, <2>3, Zenon DEF TestNodes
      <3> HIDE DEF l
      <3>3. Knows(nodes, "count", l)
        BY <2>3, <3>1 DEF Knows
      <3> QED
        BY <1>0, <1>2, <2>1, <3>2, <3>3, SerialStep
    <2> QED
      BY <2>2, <2>3
  <1>9. ASSUME NEW p \in Proc, CountDirs(p)
        PROVE  SerialInv'
    <2>1. ASSUME Goto(p, "idle"), Set(p, NullLocals), nodes' = nodes PROVE SerialInv'
      BY <1>3, <2>1
    <2>2. ASSUME Goto(p, "read"), Set(p, loc[p]), nodes' = nodes PROVE SerialInv'
      <3>1. pc[p] = "count" /\ InUpdate(p)
        BY <1>9 DEF CountDirs, InUpdate
      <3>2. Knows(nodes, "read", loc[p])
        BY <1>5, <3>1 DEF Knows
      <3> QED
        BY <1>4, <2>2, <3>1, <3>2
    <2> QED
      BY <1>0, <1>9, <2>1, <2>2, SameLocals, Zenon DEF CountDirs
  <1>10. ASSUME NEW p \in Proc, ReadHost(p)
         PROVE  SerialInv'
    <2> DEFINE entry == nodes.hosts[loc[p].host]
    <2> DEFINE l == [loc[p] EXCEPT !.index = entry.index, !.prev = entry.role]
    <2>1. pc[p] = "read" /\ InUpdate(p)
      BY <1>10 DEF ReadHost, InUpdate
    <2>2. /\ l.fresh = loc[p].fresh /\ l.host = loc[p].host
          /\ l.index = nodes.hosts[l.host].index /\ l.prev = nodes.hosts[l.host].role
      BY <1>0 DEF RunTypeOK, Locals
    <2>3. Goto(p, "find") /\ Set(p, l) /\ nodes' = nodes
      BY <1>10, Zenon DEF ReadHost
    <2> HIDE DEF l
    <2>4. Knows(nodes, "find", l)
      BY <1>5, <2>1, <2>2 DEF Knows
    <2> QED
      BY <1>4, <2>1, <2>3, <2>4
  <1>11. ASSUME NEW p \in Proc, FindDir(p)
         PROVE  SerialInv'
    <2>1. PICK d : Set(p, [loc[p] EXCEPT !.dir = d])
      BY <1>11, Zenon DEF FindDir
    <2> DEFINE l == [loc[p] EXCEPT !.dir = d]
    <2>2. pc[p] = "find" /\ InUpdate(p)
      BY <1>11 DEF FindDir, InUpdate
    <2>3. /\ l.fresh = loc[p].fresh /\ l.host = loc[p].host
          /\ l.index = loc[p].index /\ l.prev = loc[p].prev
      BY <1>0 DEF RunTypeOK, Locals
    <2>4. Goto(p, "mkdir") /\ Set(p, l) /\ nodes' = nodes
      BY <1>11, <2>1, Zenon DEF FindDir
    <2> HIDE DEF l
    <2>5. Knows(nodes, "mkdir", l)
      BY <1>5, <2>2, <2>3 DEF Knows
    <2> QED
      BY <1>4, <2>2, <2>4, <2>5
  <1>12. ASSUME NEW p \in Proc, Mkdir(p)
         PROVE  SerialInv'
    <2>1. pc[p] = "mkdir" /\ InUpdate(p)
      BY <1>12 DEF Mkdir, InUpdate
    <2>2. Knows(nodes, "mkdir", loc[p])
      BY <1>5, <2>1
    <2>3. Set(p, loc[p]) /\ nodes' = nodes
      BY <1>0, <1>12, SameLocals DEF Mkdir
    <2>4. ASSUME loc[p].index = 0, Goto(p, "max") PROVE SerialInv'
      <3>1. nodes.exists /\ ~Recorded(nodes, loc[p].host)
        BY <2>2, <2>4 DEF Knows, Recorded
      <3>2. Knows(nodes, "max", loc[p])
        BY <2>2, <3>1 DEF Knows
      <3> QED
        BY <1>4, <2>1, <2>3, <2>4, <3>2
    <2>5. ASSUME loc[p].index # 0, Goto(p, "jq") PROVE SerialInv'
      <3>1. CASE nodes.exists
        <4>1. RightIndex(nodes, loc[p])
          BY <2>2, <2>5, <3>1 DEF Knows, RightIndex, Recorded
        <4>2. Knows(nodes, "jq", loc[p])
          BY <2>2, <4>1 DEF Knows
        <4> QED
          BY <1>4, <2>1, <2>3, <2>5, <4>2
      <3>2. CASE ~nodes.exists
        <4>1. \A h \in Host : nodes.hosts[h].index = 0
          BY <1>2, <3>2 DEF SerialInv, FileInv, Template, NullEntry
        <4>2. loc[p].host \in Host /\ loc[p].index = 1
          BY <1>0, <2>1, <2>2, <3>2 DEF RunTypeOK, LocalsSet, Knows
        <4>3. RightIndex(nodes, loc[p])
          BY <4>1, <4>2 DEF RightIndex, Recorded
        <4>4. Knows(nodes, "jq", loc[p])
          BY <2>2, <3>2, <4>3 DEF Knows
        <4> QED
          BY <1>4, <2>1, <2>3, <2>5, <4>4
      <3> QED
        BY <3>1, <3>2
    <2>6. Goto(p, IF loc[p].index = 0 THEN "max" ELSE "jq")
      BY <1>12 DEF Mkdir
    <2> QED
      BY <2>4, <2>5, <2>6
  <1>13. ASSUME NEW p \in Proc, NextIndex(p)
         PROVE  SerialInv'
    <2>1. PICK g \in Host :
            /\ \A k \in Host : nodes.hosts[k].index <= nodes.hosts[g].index
            /\ Set(p, [loc[p] EXCEPT !.index = nodes.hosts[g].index + 1])
      BY <1>13, Zenon DEF NextIndex
    <2> DEFINE l == [loc[p] EXCEPT !.index = nodes.hosts[g].index + 1]
    <2>2. pc[p] = "max" /\ InUpdate(p)
      BY <1>13 DEF NextIndex, InUpdate
    <2>3. /\ l.fresh = loc[p].fresh /\ l.host = loc[p].host
          /\ l.index = nodes.hosts[g].index + 1 /\ l.prev = loc[p].prev
      BY <1>0 DEF RunTypeOK, Locals
    <2>4. Goto(p, "jq") /\ Set(p, l) /\ nodes' = nodes
      BY <1>13, <2>1, Zenon DEF NextIndex
    <2> HIDE DEF l
    <2>5. Knows(nodes, "max", loc[p])
      BY <1>5, <2>2
    <2>6. RightIndex(nodes, l)
      BY <2>1, <2>3, <2>5 DEF Knows, RightIndex
    <2>7. Knows(nodes, "jq", l)
      BY <2>3, <2>5, <2>6 DEF Knows
    <2> QED
      BY <1>4, <2>2, <2>4, <2>7
  <1>14. ASSUME NEW p \in Proc, WriteDraft(p)
         PROVE  SerialInv'
    <2> DEFINE input == IF loc[p].fresh THEN Template ELSE nodes
    <2> DEFINE l == [loc[p] EXCEPT !.draft = Filled(input, loc[p])]
    <2>1. pc[p] = "jq" /\ InUpdate(p)
      BY <1>14 DEF WriteDraft, InUpdate
    <2>2. Knows(nodes, "jq", loc[p])
      BY <1>5, <2>1
    <2>3. input = nodes
      BY <1>2, <2>2 DEF SerialInv, FileInv, Knows
    <2>4. Goto(p, "mv") /\ Set(p, l) /\ nodes' = nodes
      BY <1>14, Zenon DEF WriteDraft
    <2> HIDE DEF input
    <2>5. /\ l.fresh = loc[p].fresh /\ l.host = loc[p].host /\ l.index = loc[p].index
          /\ l.prev = loc[p].prev /\ l.role = loc[p].role /\ l.ts = loc[p].ts
          /\ l.dir = loc[p].dir /\ l.draft = Filled(nodes, loc[p])
      BY <1>0, <2>3 DEF RunTypeOK, Locals
    <2> HIDE DEF l
    <2>6. l.draft = Filled(nodes, l)
      BY <2>5 DEF Filled, RoleChangedAt
    <2>7. RightIndex(nodes, l)
      BY <2>2, <2>5 DEF Knows, RightIndex
    <2>8. Knows(nodes, "mv", l)
      BY <2>2, <2>5, <2>6, <2>7 DEF Knows
    <2> QED
      BY <1>4, <2>1, <2>4, <2>8
  \* mv, the only step that changes nodes.json, is the run's last one inside.
  <1>15. ASSUME NEW p \in Proc, Install(p)
         PROVE  SerialInv'
    <2>1. pc[p] = "mv" /\ InUpdate(p)
      BY <1>15 DEF Install, InUpdate
    <2>2. Knows(nodes, "mv", loc[p])
      BY <1>5, <2>1
    <2>3. nodes' = Filled(nodes, loc[p]) /\ RightIndex(nodes, loc[p])
      BY <1>15, <2>2 DEF Install, Knows
    <2>4. loc[p] \in Locals /\ loc[p].host \in Host /\ loc[p].role \in Role
      BY <1>0, <2>1 DEF RunTypeOK, LocalsSet
    <2>5. FileInv(nodes')
      BY <1>0, <1>2, <2>3, <2>4, FilledFile DEF SerialInv
    <2>6. PICK l : Goto(p, "check") /\ Set(p, l)
      BY <1>15, Zenon DEF Install
    <2>7. pc'[p] = "check" /\ \A q \in Proc \ {p} : pc'[q] = pc[q]
      BY <1>0, <2>6, RunStep
    <2>8. \A q \in Proc : ~InUpdate(q)'
      BY <1>2, <2>1, <2>7 DEF SerialInv, InUpdate
    <2> QED
      BY <2>5, <2>8 DEF SerialInv, InUpdate
  <1>16. ASSUME NEW p \in Proc, NextCheck(p)
         PROVE  SerialInv'
    BY <1>0, <1>3, <1>16, SameLocals, Zenon DEF NextCheck
  <1>17. ASSUME NEW p \in Proc, Finish(p)
         PROVE  SerialInv'
    BY <1>3, <1>17, Zenon DEF Finish
  <1>18. ASSUME NEW p \in Proc, Die(p)
         PROVE  SerialInv'
    BY <1>3, <1>18, Zenon DEF Die
  <1>19. ASSUME UNCHANGED <<nodes, pc, loc>>
         PROVE  SerialInv'
    BY <1>2, <1>19 DEF SerialInv, InUpdate
  <1> QED
    BY <1>6, <1>7, <1>8, <1>9, <1>10, <1>11, <1>12, <1>13, <1>14, <1>15, <1>16, <1>17,
       <1>18, <1>19 DEF Next, UpdateStep, Tick, vars

\* Until two runs overlap, SerialInv holds.
LEMMA SerialAlways == Spec => [](TypeOK /\ (~overlap => SerialInv))
  <1>1. Init => (~overlap => SerialInv)
    BY InitSerial
  <1>2. TypeOK /\ (~overlap => SerialInv) /\ [Next]_vars => (~overlap => SerialInv)'
    BY SerialNext
  <1> QED
    BY <1>1, <1>2, TypeCorrect, PTL DEF Spec

\* No two hosts ever share a number, unless two runs were inside
\* update_nodes_json at once.
THEOREM NumbersUnique == Spec => []UniqueIndex
  <1>1. (~overlap => SerialInv) => UniqueIndex
    BY DEF SerialInv, FileInv, UniqueIndex
  <1> QED
    BY <1>1, SerialAlways, PTL

\* A step changes nodes.json only by filling in, for its host, what a run knows.
LEMMA NodesStep ==
  ASSUME TypeOK, ~overlap => SerialInv, [Next]_vars, ~overlap'
  PROVE  \/ nodes' = nodes
         \/ \E p \in Proc : /\ pc[p] = "mv"
                            /\ nodes' = Filled(nodes, loc[p])
                            /\ Knows(nodes, "mv", loc[p])
  <1>1. ASSUME NEW p \in Proc, Install(p)
        PROVE  /\ pc[p] = "mv"
               /\ nodes' = Filled(nodes, loc[p])
               /\ Knows(nodes, "mv", loc[p])
    <2>1. pc[p] = "mv" /\ InUpdate(p) /\ nodes' = loc[p].draft /\ ~overlap
      BY <1>1 DEF Install, InUpdate
    <2>2. Knows(nodes, "mv", loc[p])
      BY <2>1 DEF SerialInv
    <2> QED
      BY <2>1, <2>2 DEF Knows
  <1> QED
    BY <1>1 DEF Next, UpdateStep, vars, Start, Probe, TestNodes, CountDirs, ReadHost,
       FindDir, Mkdir, NextIndex, WriteDraft, NextCheck, Finish, Die, Tick

\* A host that is in nodes.json stays there and keeps its number, unless two runs
\* were inside update_nodes_json at once.
THEOREM NumbersStable == Spec => IndexStable
  <1>1. ASSUME TypeOK, ~overlap => SerialInv, [Next]_vars, ~overlap',
               NEW h \in Host, Recorded(nodes, h)
        PROVE  nodes'.hosts[h].index = nodes.hosts[h].index
    <2>1. ASSUME NEW p \in Proc, nodes' = Filled(nodes, loc[p]),
                 Knows(nodes, "mv", loc[p])
          PROVE  nodes'.hosts[h].index = nodes.hosts[h].index
      <3>1. h = loc[p].host => loc[p].index = nodes.hosts[h].index
        BY <1>1, <2>1 DEF Knows, RightIndex
      <3>2. nodes.hosts \in [Host -> Entry]
        BY <1>1 DEF TypeOK, Nodes
      <3> QED
        BY <1>1, <2>1, <3>1, <3>2 DEF Filled
    <2> QED
      BY <1>1, <2>1, NodesStep
  <1>2. TypeOK /\ (~overlap => SerialInv) /\ [Next]_vars
          => [~overlap' => \A h \in Host :
                Recorded(nodes, h) => nodes'.hosts[h].index = nodes.hosts[h].index]_vars
    BY <1>1
  <1> QED
    BY <1>2, SerialAlways, PTL DEF Spec, IndexStable

\* Whenever the role written for a known host differs from the one that was there,
\* the same write says when, unless two runs were inside update_nodes_json at once.
THEOREM RoleChangesStamped == Spec => RoleChangeStamped
  <1>1. ASSUME TypeOK, ~overlap => SerialInv, [Next]_vars, ~overlap', NEW h \in Host,
               Recorded(nodes, h), nodes'.hosts[h].role # nodes.hosts[h].role
        PROVE  nodes'.hosts[h].changedAt # Never
    <2>1. PICK p \in Proc : /\ pc[p] = "mv"
                            /\ nodes' = Filled(nodes, loc[p])
                            /\ Knows(nodes, "mv", loc[p])
      BY <1>1, NodesStep
    <2>2. nodes.hosts \in [Host -> Entry] /\ SerialInv
      <3>1. ~overlap
        BY <1>1, NoHistory
      <3> QED
        BY <1>1, <3>1 DEF TypeOK, Nodes
    <2>3. h = loc[p].host /\ nodes'.hosts[h].role = loc[p].role
          /\ nodes'.hosts[h].changedAt = RoleChangedAt(loc[p])
      BY <1>1, <2>1, <2>2 DEF Filled
    <2>4. nodes.exists
      BY <1>1, <2>2 DEF SerialInv, FileInv, Template, NullEntry, Recorded
    <2>5. loc[p].prev = nodes.hosts[h].role /\ nodes.hosts[h].role \in Role
      BY <1>1, <2>1, <2>2, <2>3, <2>4 DEF Knows, SerialInv, FileInv
    <2>6. loc[p].ts \in Time
      BY <1>1, <2>1 DEF TypeOK, RunTypeOK, LocalsSet
    <2>7. loc[p].prev \notin {loc[p].role, Unset}
      BY <1>1, <2>3, <2>5 DEF Role, Unset
    <2> QED
      BY <2>3, <2>6, <2>7 DEF RoleChangedAt, Never, Time
  <1>2. TypeOK /\ (~overlap => SerialInv) /\ [Next]_vars
          => [~overlap' => \A h \in Host :
                /\ Recorded(nodes, h)
                /\ nodes'.hosts[h].role # nodes.hosts[h].role
                => nodes'.hosts[h].changedAt # Never]_vars
    BY <1>1
  <1> QED
    BY <1>2, SerialAlways, PTL DEF Spec, RoleChangeStamped

\* As long as runs do not overlap, nodes.json implements the registry of numbers.
THEOREM SerialImplementsRegistry == Spec /\ []~overlap => RegistrySpec
  <1> DEFINE number == [h \in Host |-> nodes.hosts[h].index]
  <1>1. Init => Registry!Init
    BY DEF Init, Template, NullEntry, Registry!Init, Registry!NoNumber
  <1>2. ASSUME TypeOK, ~overlap => SerialInv, [Next]_vars, ~overlap'
        PROVE  [Registry!Next]_number
    <2>1. nodes.hosts \in [Host -> Entry]
      BY <1>2 DEF TypeOK, Nodes
    <2>2. ASSUME NEW p \in Proc, pc[p] = "mv", nodes' = Filled(nodes, loc[p]),
                 Knows(nodes, "mv", loc[p])
          PROVE  [Registry!Next]_number
      <3> DEFINE h == loc[p].host
      <3>1. h \in Host
        BY <1>2, <2>2 DEF TypeOK, RunTypeOK, LocalsSet
      <3>2. number' = [number EXCEPT ![h] = loc[p].index]
        BY <2>1, <2>2, <3>1 DEF Filled
      <3>3. RightIndex(nodes, loc[p])
        BY <2>2 DEF Knows
      <3>4. ASSUME Recorded(nodes, h) PROVE number' = number
        BY <3>1, <3>2, <3>3, <3>4 DEF RightIndex
      <3>5. ASSUME ~Recorded(nodes, h) PROVE Registry!Register(h)
        <4>1. number[h] = 0
          BY <3>1, <3>5 DEF Recorded
        <4>2. PICK g \in Host : /\ \A k \in Host : number[k] <= number[g]
                                /\ loc[p].index = number[g] + 1
          BY <3>3, <3>5 DEF RightIndex
        <4> HIDE DEF number
        <4> QED
          BY <3>2, <4>1, <4>2 DEF Registry!Register, Registry!NoNumber, number
      <3>6. Registry!Register(h) => Registry!Next
        BY <3>1 DEF Registry!Next, Registry!Register
      <3> HIDE DEF h, number
      <3> QED
        BY <3>4, <3>5, <3>6, Zenon
    <2>3. ASSUME nodes' = nodes PROVE number' = number
      BY <2>3
    <2> QED
      BY <1>2, <2>2, <2>3, NodesStep
  <1> QED
    BY <1>1, <1>2, SerialAlways, PTL DEF Spec, RegistrySpec, Registry!Spec

\* One place to run in: the runs of the project come one after the other.
THEOREM OneRunImplementsRegistry ==
  ASSUME \A p, q \in Proc : p = q
  PROVE  Spec => RegistrySpec
  <1>1. Init => ~overlap
    BY DEF Init
  <1>2. ASSUME TypeOK, [Next]_vars, ~overlap PROVE ~overlap'
    <2>0. overlap = FALSE
      BY <1>2 DEF TypeOK
    <2>1. ASSUME NEW p \in Proc, TestNodes(p) PROVE overlap' = FALSE
      BY <2>0, <2>1 DEF TestNodes
    <2>2. ASSUME NEW p \in Proc, NEW h \in Host, NEW e \in Epoch, Start(p, h, e)
          PROVE  overlap' = FALSE
      BY <2>0, <2>2, Zenon DEF Start
    <2>3. ASSUME NEW p \in Proc,
                 \/ Probe(p) \/ CountDirs(p) \/ ReadHost(p) \/ FindDir(p) \/ Mkdir(p)
                 \/ NextIndex(p) \/ WriteDraft(p) \/ Install(p) \/ NextCheck(p)
                 \/ Finish(p) \/ Die(p)
          PROVE  overlap' = FALSE
      BY <2>0, <2>3, Zenon DEF Probe, CountDirs, ReadHost, FindDir, Mkdir, NextIndex,
         WriteDraft, Install, NextCheck, Finish, Die
    <2>4. ASSUME Tick \/ UNCHANGED vars PROVE overlap' = FALSE
      BY <2>0, <2>4, Zenon DEF Tick, vars
    <2> QED
      BY <1>2, <2>1, <2>2, <2>3, <2>4 DEF Next, UpdateStep
  <1> QED
    BY <1>1, <1>2, TypeCorrect, SerialImplementsRegistry, PTL DEF Spec

-----------------------------------------------------------------------------
(* One directory per epoch, as long as also no first run dies half-way.    *)

\* A step of run p that leaves json_reports/ and nodes.json alone.
LEMMA DirStep ==
  ASSUME RunTypeOK, DirInv, NEW p \in Proc, NEW c, NEW l, Goto(p, c), Set(p, l),
         nodes' = nodes, dirs' = dirs,
         c = "mkdir" => \A d \in dirs : d.epoch = l.epoch => d = l.dir,
         pc[p] \in {"jq", "mv"} => nodes.exists \/ c \in {"jq", "mv"}
  PROVE  DirInv'
  <1>1. /\ pc'[p] = c /\ loc'[p] = l
        /\ \A q \in Proc \ {p} : pc'[q] = pc[q] /\ loc'[q] = loc[q]
    BY RunStep
  <1>2. ASSUME ~nodes.exists, \A q \in Proc : pc'[q] \notin {"jq", "mv"}
        PROVE  dirs = {}
    BY <1>1, <1>2 DEF DirInv
  <1>3. ASSUME NEW q \in Proc, pc'[q] = "mkdir"
        PROVE  \A d \in dirs : d.epoch = loc'[q].epoch => d = loc'[q].dir
    BY <1>1, <1>3 DEF DirInv
  <1> QED
    BY <1>2, <1>3 DEF DirInv

LEMMA DirNext ==
  ASSUME TypeOK, ~overlap => SerialInv, ~overlap /\ ~orphan => DirInv,
         [Next]_vars, ~overlap', ~orphan'
  PROVE  DirInv'
  <1>0. RunTypeOK
    BY DEF TypeOK
  <1>1. ~overlap /\ ~orphan
    BY NoHistory
  <1>2. SerialInv /\ DirInv
    BY <1>1
  \* Steps that neither choose nor make a directory, nor give up half-way.
  <1>3. ASSUME NEW p \in Proc, pc[p] \notin {"jq", "mv"}, NEW c, c # "mkdir", NEW l,
               Goto(p, c), Set(p, l), nodes' = nodes, dirs' = dirs
        PROVE  DirInv'
    BY <1>0, <1>2, <1>3, DirStep
  <1>4. ASSUME NEW p \in Proc, NEW h \in Host, NEW e \in Epoch, Start(p, h, e)
        PROVE  DirInv'
    <2>1. pc[p] \notin {"jq", "mv"} /\ "probe" # "mkdir"
      BY <1>4 DEF Start
    <2> QED
      BY <1>3, <1>4, <2>1, Zenon DEF Start
  <1>5. ASSUME NEW p \in Proc, Probe(p)
        PROVE  DirInv'
    <2>1. pc[p] \notin {"jq", "mv"} /\ "test" # "mkdir"
      BY <1>5 DEF Probe
    <2> QED
      BY <1>3, <1>5, <2>1, Zenon DEF Probe
  \* Without nodes.json there is no directory yet.
  <1>6. ASSUME NEW p \in Proc, TestNodes(p)
        PROVE  DirInv'
    <2>1. pc[p] = "test" /\ \A q \in Proc \ {p} : ~InUpdate(q)
      BY <1>6 DEF TestNodes
    <2>2. PICK l : Set(p, l)
      BY <1>6, Zenon DEF TestNodes
    <2>3. ASSUME ~nodes.exists PROVE DirInv'
      <3>1. dirs = {}
        BY <1>2, <2>1, <2>3 DEF DirInv, InUpdate
      <3>2. Goto(p, "mkdir") /\ nodes' = nodes /\ dirs' = dirs
        BY <1>6, <2>3, Zenon DEF TestNodes
      <3> QED
        BY <1>0, <1>2, <2>1, <2>2, <3>1, <3>2, DirStep
    <2>4. ASSUME nodes.exists PROVE DirInv'
      <3>1. Goto(p, "count") /\ nodes' = nodes /\ dirs' = dirs
        BY <1>6, <2>4, Zenon DEF TestNodes
      <3> QED
        BY <1>3, <2>1, <2>2, <3>1
    <2> QED
      BY <2>3, <2>4
  <1>7. ASSUME NEW p \in Proc, CountDirs(p)
        PROVE  DirInv'
    <2>1. pc[p] = "count" /\ nodes' = nodes /\ dirs' = dirs
      BY <1>7 DEF CountDirs
    <2>2. PICK c, l : c \in {"idle", "read"} /\ Goto(p, c) /\ Set(p, l)
      BY <1>0, <1>7, SameLocals, Zenon DEF CountDirs
    <2>3. pc[p] \notin {"jq", "mv"} /\ c # "mkdir"
      BY <2>1, <2>2
    <2> QED
      BY <1>3, <2>1, <2>2, <2>3
  <1>8. ASSUME NEW p \in Proc, ReadHost(p)
        PROVE  DirInv'
    <2>1. pc[p] \notin {"jq", "mv"} /\ "find" # "mkdir"
      BY <1>8 DEF ReadHost
    <2> QED
      BY <1>3, <1>8, <2>1, Zenon DEF ReadHost
  \* An epoch that has a directory has one, which FindDir finds.
  <1>9. ASSUME NEW p \in Proc, FindDir(p)
        PROVE  DirInv'
    <2>1. PICK f : /\ Set(p, [loc[p] EXCEPT !.dir = f])
                   /\ \/ DirsOf(loc[p].epoch) = {f}
                      \/ \A d \in dirs : DirsOf(loc[p].epoch) # {d}
      BY <1>9, Zenon DEF FindDir
    <2> DEFINE l == [loc[p] EXCEPT !.dir = f]
    <2>2. l.dir = f /\ l.epoch = loc[p].epoch
      BY <1>0 DEF RunTypeOK, Locals
    <2>3. \A d \in dirs : d.epoch = loc[p].epoch => DirsOf(loc[p].epoch) = {d}
      BY <1>2 DEF DirInv, DirsOf
    <2>4. \A d \in dirs : d.epoch = loc[p].epoch => d = f
      BY <2>1, <2>3
    <2>5. /\ Goto(p, "mkdir") /\ Set(p, l) /\ nodes' = nodes /\ dirs' = dirs
          /\ pc[p] = "find"
      BY <1>9, <2>1, Zenon DEF FindDir
    <2> HIDE DEF l
    <2> QED
      BY <1>0, <1>2, <2>2, <2>4, <2>5, DirStep
  <1>10. ASSUME NEW p \in Proc, Mkdir(p)
         PROVE  DirInv'
    <2>1. pc[p] = "mkdir" /\ InUpdate(p) /\ loc[p].dir.epoch = loc[p].epoch
      BY <1>0, <1>10 DEF Mkdir, InUpdate, RunTypeOK, LocalsSet, DirOf
    <2>2. \A q \in Proc \ {p} : ~InUpdate(q)
      BY <1>2, <2>1 DEF SerialInv
    <2> DEFINE c == IF loc[p].index = 0 THEN "max" ELSE "jq"
    <2>3. /\ Goto(p, c) /\ Set(p, loc[p]) /\ nodes' = nodes
          /\ dirs' = dirs \cup {loc[p].dir}
      BY <1>0, <1>10, SameLocals, Zenon DEF Mkdir
    <2>4. c # "mkdir"
      OBVIOUS
    <2>5. ~nodes.exists => c = "jq"
      BY <1>2, <2>1 DEF SerialInv, Knows
    <2> HIDE DEF c
    <2>6. pc'[p] = c /\ \A q \in Proc \ {p} : pc'[q] = pc[q]
      BY <1>0, <2>3, RunStep
    <2>7. \A d1, d2 \in dirs' : d1.epoch = d2.epoch => d1 = d2
      BY <1>2, <2>1, <2>3 DEF DirInv
    <2>8. \A q \in Proc : pc'[q] # "mkdir"
      BY <2>2, <2>4, <2>6 DEF InUpdate
    <2> QED
      BY <2>3, <2>5, <2>6, <2>7, <2>8 DEF DirInv
  <1>11. ASSUME NEW p \in Proc, NextIndex(p)
         PROVE  DirInv'
    <2>1. pc[p] \notin {"jq", "mv"} /\ "jq" # "mkdir"
      BY <1>11 DEF NextIndex
    <2> QED
      BY <1>3, <1>11, <2>1, Zenon DEF NextIndex
  <1>12. ASSUME NEW p \in Proc, WriteDraft(p)
         PROVE  DirInv'
    <2>1. PICK l : Set(p, l)
      BY <1>12, Zenon DEF WriteDraft
    <2>2. Goto(p, "mv") /\ nodes' = nodes /\ dirs' = dirs
      BY <1>12, Zenon DEF WriteDraft
    <2> QED
      BY <1>0, <1>2, <2>1, <2>2, DirStep
  <1>13. ASSUME NEW p \in Proc, Install(p)
         PROVE  DirInv'
    <2>1. pc[p] = "mv" /\ InUpdate(p) /\ nodes' = loc[p].draft /\ dirs' = dirs
      BY <1>13 DEF Install, InUpdate
    <2>2. nodes' = Filled(nodes, loc[p]) /\ Filled(nodes, loc[p]).exists = TRUE
      BY <1>2, <2>1 DEF SerialInv, Knows, Filled
    <2>3. PICK l : Set(p, l) /\ Goto(p, "check")
      BY <1>13, Zenon DEF Install
    <2>4. /\ pc'[p] = "check"
          /\ \A q \in Proc \ {p} : pc'[q] = pc[q] /\ loc'[q] = loc[q]
      BY <1>0, <2>3, RunStep
    <2> QED
      BY <1>2, <2>1, <2>2, <2>4 DEF DirInv
  <1>14. ASSUME NEW p \in Proc, NextCheck(p)
         PROVE  DirInv'
    <2>1. pc[p] \notin {"jq", "mv"} /\ "probe" # "mkdir"
      BY <1>14 DEF NextCheck
    <2> QED
      BY <1>0, <1>3, <1>14, <2>1, SameLocals, Zenon DEF NextCheck
  <1>15. ASSUME NEW p \in Proc, Finish(p)
         PROVE  DirInv'
    <2>1. pc[p] \notin {"jq", "mv"} /\ "idle" # "mkdir"
      BY <1>15 DEF Finish
    <2> QED
      BY <1>3, <1>15, <2>1, Zenon DEF Finish
  \* A run that dies after mkdir, before the first nodes.json, sets orphan.
  <1>16. ASSUME NEW p \in Proc, Die(p)
         PROVE  DirInv'
    <2>1. /\ Goto(p, "idle") /\ Set(p, NullLocals) /\ nodes' = nodes /\ dirs' = dirs
          /\ pc[p] \in {"jq", "mv"} => nodes.exists
      BY <1>16 DEF Die
    <2> QED
      BY <1>0, <1>2, <2>1, DirStep
  <1>17. ASSUME UNCHANGED <<nodes, dirs, pc, loc>>
         PROVE  DirInv'
    BY <1>2, <1>17 DEF DirInv
  <1> QED
    BY <1>4, <1>5, <1>6, <1>7, <1>8, <1>9, <1>10, <1>11, <1>12, <1>13, <1>14, <1>15,
       <1>16, <1>17 DEF Next, UpdateStep, Tick, vars

\* An epoch has one directory, unless two runs were inside update_nodes_json at
\* once or a first run died between mkdir and mv.
THEOREM DirsUnique == Spec => []OneDirPerEpoch
  <1>1. Init => (~overlap /\ ~orphan => DirInv)
    BY DEF Init, DirInv
  <1>2. /\ TypeOK /\ (~overlap => SerialInv) /\ (~overlap /\ ~orphan => DirInv)
        /\ [Next]_vars
        => (~overlap /\ ~orphan => DirInv)'
    BY DirNext
  <1>3. (~overlap /\ ~orphan => DirInv) => OneDirPerEpoch
    BY DEF DirInv, OneDirPerEpoch
  <1> QED
    BY <1>1, <1>2, <1>3, SerialAlways, PTL DEF Spec
=============================================================================
