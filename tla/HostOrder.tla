------------------------------ MODULE HostOrder ------------------------------
(***************************************************************************)
(* From `checkup collect` to `checkup process`: which server a report      *)
(* presents as the master, and in which order it presents the replicas.    *)
(* The Go program pghrep takes both from last_nodes_json of the report     *)
(* (DetermineMasterReplica and ReorderHosts in                             *)
(* pghrep/internal/reportutils/templates.go); nodes.json keeps a host      *)
(* forever, with the role it had when it was last checked.                 *)
(*                                                                         *)
(* Collecting from a host is one action here: NodesJson and Reports show   *)
(* what is inside.  Numbers come from HostRegistry.  The Go program walks  *)
(* over the hosts in the random order of a Go map, one action per host.    *)
(***************************************************************************)
EXTENDS Naturals, FiniteSets, Sequences, Sublist

CONSTANT Host              \* the hosts of the project

VARIABLES
  primary,    \* the host whose Postgres server is the master, if there is one
  number,     \* number[h]: the index of h in nodes.json, 0 while it has none
  role,       \* role[h]: the role of h in nodes.json
  results,    \* the hosts that have a result in the report of the last epoch
  last,       \* last_nodes_json of that report
  pc,         \* what is going on: collecting, or the steps of pghrep
  left,       \* the hosts the loop of DetermineMasterReplica has not visited
  master,     \* hosts.master
  replicas,   \* the map from indexes to replicas
  ordered     \* reorderedHosts: the master, followed by the replicas

vars == <<primary, number, role, results, last, pc, left, master, replicas, ordered>>
project == <<primary, number, role, results, last>>

Role == {"master", "standby"}
Nil == "nil"               \* no host (nil), or no role

ASSUME NilAssumption == Nil \notin Host

Registry == INSTANCE HostRegistry

Recorded(n) == {h \in Host : n[h] # 0}
EmptyLast == [number |-> [h \in Host |-> 0], role |-> [h \in Host |-> Nil]]
NoReplicas == [i \in {} |-> Nil]

-----------------------------------------------------------------------------
Init ==
  /\ primary \in Host
  /\ Registry!Init
  /\ role = EmptyLast.role
  /\ results = {}
  /\ last = EmptyLast
  /\ pc = "collect"
  /\ left = {}
  /\ master = Nil
  /\ replicas = NoReplicas
  /\ ordered = <<>>

\* Seeded fault: another word for the role than the Go program compares with.
ServerRolePrimary(h) == IF primary = h THEN "primary" ELSE "standby"

\* is_in_recovery
ServerRole(h) == IF primary = h THEN "master" ELSE "standby"

\* The master is gone, or another server takes its place.
Failover ==
  /\ pc = "collect"
  /\ primary' \in (Host \cup {Nil}) \ {primary}
  /\ UNCHANGED <<number, role, results, last, pc, left, master, replicas, ordered>>

\* Seeded fault: the number of a host is asked for again, and is the smallest.
CollectRenumber(h) ==
  /\ pc = "collect"
  /\ number' = [number EXCEPT ![h] = 1]
  /\ role' = [role EXCEPT ![h] = ServerRole(h)]
  /\ results' = results \cup {h}
  /\ last' = [number |-> number', role |-> role']
  /\ UNCHANGED <<primary, pc, left, master, replicas, ordered>>

\* A check of the current epoch is performed on h: nodes.json is brought up to
\* date for h, and a copy of it goes into the report along with the result.
Collect(h) ==
  /\ pc = "collect"
  /\ IF number[h] = 0 THEN Registry!Register(h) ELSE UNCHANGED number
  /\ role' = [role EXCEPT ![h] = ServerRole(h)]
  /\ results' = results \cup {h}
  /\ last' = [number |-> number', role |-> role']
  /\ UNCHANGED <<primary, pc, left, master, replicas, ordered>>

\* A new epoch starts with a report of its own.
NewEpoch ==
  /\ pc = "collect"
  /\ results' = {}
  /\ last' = EmptyLast
  /\ UNCHANGED <<primary, number, role, pc, left, master, replicas, ordered>>

\* pghrep is started for a report.
Process ==
  /\ pc = "collect"
  /\ results # {}
  /\ pc' = "determine"
  /\ left' = Recorded(last.number)
  /\ master' = Nil
  /\ replicas' = NoReplicas
  /\ ordered' = <<>>
  /\ UNCHANGED project

\* Seeded fault: the first host of the loop is the master until one is found.
VisitFirst(h) ==
  /\ pc = "determine" /\ h \in left
  /\ left' = left \ {h}
  /\ IF last.role[h] = "master" \/ master = Nil
     THEN master' = h /\ UNCHANGED replicas
     ELSE /\ replicas' = [i \in DOMAIN replicas \cup {last.number[h]} |->
                            IF i = last.number[h] THEN h ELSE replicas[i]]
          /\ UNCHANGED master
  /\ UNCHANGED <<project, pc, ordered>>

\* The body of the loop over the hosts of last_nodes_json.
Visit(h) ==
  /\ pc = "determine" /\ h \in left
  /\ left' = left \ {h}
  /\ IF last.role[h] = "master"
     THEN master' = h /\ UNCHANGED replicas
     ELSE /\ replicas' = [i \in DOMAIN replicas \cup {last.number[h]} |->
                            IF i = last.number[h] THEN h ELSE replicas[i]]
          /\ UNCHANGED master
  /\ UNCHANGED <<project, pc, ordered>>

\* The indexes, sorted.
Ascending(S) ==
  CHOOSE seq \in [1 .. Cardinality(S) -> S] :
    \A i, j \in 1 .. Cardinality(S) : i < j => seq[i] < seq[j]

\* The replicas by index.
SortedReplicas ==
  LET indexes == Ascending(DOMAIN replicas)
  IN  [i \in 1 .. Cardinality(DOMAIN replicas) |-> replicas[indexes[i]]]

\* The master, if there is one, and the replicas; those that have data remain, so
\* the first replica takes the place of a master without data.
ReorderHosts ==
  /\ pc = "determine" /\ left = {}
  /\ LET allHosts == IF master = Nil THEN SortedReplicas
                     ELSE <<master>> \o SortedReplicas
     IN  ordered' = Sublist(allHosts, results)
  /\ pc' = "done"
  /\ UNCHANGED <<project, left, master, replicas>>

\* pghrep has ended; collecting may go on.
Exit ==
  /\ pc = "done"
  /\ pc' = "collect"
  /\ UNCHANGED <<project, left, master, replicas, ordered>>

Next ==
  \/ \E h \in Host : Collect(h) \/ Visit(h)
  \/ Failover \/ NewEpoch \/ Process \/ ReorderHosts \/ Exit

Spec == Init /\ [][Next]_vars

-----------------------------------------------------------------------------
\* Every variable has its type.
TypeOK ==
  /\ primary \in Host \cup {Nil}
  /\ number \in [Host -> Nat]
  /\ role \in [Host -> Role \cup {Nil}]
  /\ results \subseteq Host
  /\ last \in [number : [Host -> Nat], role : [Host -> Role \cup {Nil}]]
  /\ pc \in {"collect", "determine", "done"}
  /\ left \subseteq Host
  /\ master \in Host \cup {Nil}
  /\ \A i \in DOMAIN replicas : i \in Nat /\ replicas[i] \in Host
  /\ ordered \in Seq(Host)

Masters == {h \in Host : last.role[h] = "master"}

\* When the report knows at most one master, reorderedHosts holds the hosts with
\* data, each once, the master before the replicas and the replicas by number,
\* whatever the order of the map.
OrderedOnce ==
  pc = "done" /\ Cardinality(Masters) <= 1 =>
    /\ Len(ordered) = Cardinality(results)
    /\ {ordered[i] : i \in DOMAIN ordered} = results
    /\ \A i, j \in DOMAIN ordered : i < j =>
         /\ last.role[ordered[j]] # "master"
         /\ \/ last.role[ordered[i]] = "master"
            \/ last.number[ordered[i]] < last.number[ordered[j]]

\* A host with data that is missing from the report is one of several masters.
OnlyMastersMissing ==
  pc = "done" => \A h \in results :
    (\A i \in DOMAIN ordered : ordered[i] # h) => h \in Masters /\ master # h

\* "postgres-checkup is able to combine all the information from multiple nodes to
\* a single report" (README.md): every host with data is in the report.
AllHostsReported ==
  pc = "done" => \A h \in results : \E i \in DOMAIN ordered : ordered[i] = h
=============================================================================
