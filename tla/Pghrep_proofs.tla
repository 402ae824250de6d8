----------------------------- MODULE Pghrep_proofs -----------------------------
(***************************************************************************)
(* Two parts of pghrep that share no state: the hosts of a report          *)
(* (HostOrder), for every set of hosts, and how a report is written        *)
(* (OrderedMap), for every set of names, their classes and all bounds.     *)
(* What the checks conclude is in Conclusions_proofs.                      *)
(***************************************************************************)
EXTENDS HostOrder, OrderedMap, Sublist_proofs, FiniteSetTheorems

-----------------------------------------------------------------------------
(***************************************************************************)
(* The hosts of a report, for every set of hosts.                          *)
(*                                                                         *)
(* The argument. nodes.json, and the copy of it in a report, have          *)
(* different numbers for different hosts, and a host without a number has  *)
(* no role (ProjectInv). DetermineInv says, in whatever order the loop     *)
(* visits the hosts, what it knows of those it has visited: every replica  *)
(* is at its number in the map, and a master is remembered if there was    *)
(* one. So AllHosts, the list that is filtered for the hosts with data,    *)
(* has the master first and the replicas by number (AllHostsProperties);   *)
(* filtering it keeps the order (SublistPositions).                        *)
(*                                                                         *)
(* Assumed is that Nil, which stands for no host, is none of the hosts.    *)
(***************************************************************************)

\* In a nodes.json, finitely many hosts have numbers, which are their own; the
\* others have no role.
NumbersInv(numbers, roles) ==
  /\ IsFiniteSet(Recorded(numbers))
  /\ \A g, h \in Host : numbers[g] = numbers[h] /\ numbers[g] # 0 => g = h
  /\ \A h \in Host : numbers[h] = 0 => roles[h] = Nil

\* That is so in nodes.json and in the copy; hosts with data are in the copy,
\* and hosts in the copy are in nodes.json.
ProjectInv ==
  /\ NumbersInv(number, role)
  /\ NumbersInv(last.number, last.role)
  /\ results \subseteq Recorded(last.number)
  /\ Recorded(last.number) \subseteq Recorded(number)

\* The hosts the loop of DetermineMasterReplica has visited,
Visited == Recorded(last.number) \ left

\* and the replicas among them.
VisitedReplicas == {h \in Visited : last.role[h] # "master"}

\* What the loop knows of the hosts it has visited.
DetermineInv ==
  pc \in {"determine", "done"} =>
    /\ left \subseteq Recorded(last.number)
    /\ pc = "done" => left = {}
    /\ master # Nil => master \in Visited /\ last.role[master] = "master"
    /\ \A h \in Visited : last.role[h] = "master" => master # Nil
    /\ DOMAIN replicas = {last.number[h] : h \in VisitedReplicas}
    /\ \A h \in VisitedReplicas : replicas[last.number[h]] = h

\* What ReorderHosts filters.
AllHosts == IF master = Nil THEN SortedReplicas ELSE <<master>> \o SortedReplicas

\* What it arrives at.
DoneInv == pc = "done" => ordered = Sublist(AllHosts, results)

\* A new host gets a number that no other one has.
LEMMA RegisterNumbers ==
  ASSUME number \in [Host -> Nat], NumbersInv(number, role), NEW h \in Host, number[h] = 0,
         Registry!Register(h)
  PROVE  /\ number' \in [Host -> Nat] /\ number'[h] # 0
         /\ \A g \in Host \ {h} : number'[g] = number[g]
         /\ Recorded(number') = Recorded(number) \cup {h}
         /\ \A g, k \in Host : number'[g] = number'[k] /\ number'[g] # 0 => g = k
  <1>1. PICK g \in Host : /\ \A k \in Host : number[k] <= number[g]
                          /\ number' = [number EXCEPT ![h] = number[g] + 1]
    BY DEF Registry!Register
  <1>2. number[g] \in Nat
    OBVIOUS
  <1>3. /\ number' \in [Host -> Nat] /\ number'[h] = number[g] + 1
        /\ \A k \in Host \ {h} : number'[k] = number[k]
    BY <1>1, <1>2
  <1>4. number'[h] # 0 /\ \A k \in Host : number[k] # number'[h]
    BY <1>1, <1>2, <1>3
  <1>5. Recorded(number') = Recorded(number) \cup {h}
    BY <1>3, <1>4 DEF Recorded
  <1>6. \A e, k \in Host : number'[e] = number'[k] /\ number'[e] # 0 => e = k
    BY <1>3, <1>4 DEF NumbersInv
  <1> QED
    BY <1>3, <1>4, <1>5, <1>6

\* nodes.json after Collect.
LEMMA CollectNumbers ==
  ASSUME TypeOK, ProjectInv, NEW h \in Host, Collect(h)
  PROVE  /\ number' \in [Host -> Nat] /\ role' \in [Host -> Role \cup {Nil}]
         /\ NumbersInv(number', role')
         /\ Recorded(number) \subseteq Recorded(number') /\ h \in Recorded(number')
         /\ role'[h] \in Role
  <1>0. /\ number \in [Host -> Nat] /\ role \in [Host -> Role \cup {Nil}]
        /\ NumbersInv(number, role)
    BY DEF TypeOK, ProjectInv
  <1>1. /\ role' \in [Host -> Role \cup {Nil}] /\ role'[h] \in Role
        /\ \A g \in Host \ {h} : role'[g] = role[g]
    BY <1>0 DEF Collect, ServerRole, Role
  <1>2. /\ number' \in [Host -> Nat] /\ number'[h] # 0
        /\ \A g \in Host \ {h} : number'[g] = number[g]
        /\ Recorded(number') = Recorded(number) \cup {h}
        /\ \A g, k \in Host : number'[g] = number'[k] /\ number'[g] # 0 => g = k
    <2>1. CASE number[h] = 0
      BY <1>0, <2>1, RegisterNumbers DEF Collect
    <2>2. CASE number[h] # 0
      BY <1>0, <2>2 DEF Collect, NumbersInv, Recorded
    <2> QED
      BY <2>1, <2>2
  <1>3. IsFiniteSet(Recorded(number'))
    BY <1>0, <1>2, FS_AddElement DEF NumbersInv
  <1>4. \A g \in Host : number'[g] = 0 => role'[g] = Nil
    BY <1>0, <1>1, <1>2 DEF NumbersInv
  <1>5. NumbersInv(number', role')
    BY <1>2, <1>3, <1>4 DEF NumbersInv
  <1> QED
    BY <1>1, <1>2, <1>5

\* Every step preserves ProjectInv.
LEMMA ProjectInductive ==
  ASSUME TypeOK, ProjectInv, [Next]_vars
  PROVE  ProjectInv'
  <1>1. ASSUME NEW h \in Host, Collect(h) PROVE ProjectInv'
    <2>1. /\ NumbersInv(number', role') /\ h \in Recorded(number')
          /\ Recorded(number) \subseteq Recorded(number')
      BY <1>1, CollectNumbers
    <2>2. last'.number = number' /\ last'.role = role' /\ results' = results \cup {h}
      BY <1>1 DEF Collect
    <2> QED
      BY <2>1, <2>2 DEF ProjectInv
  <1>2. CASE NewEpoch
    <2>1. last'.number = [h \in Host |-> 0] /\ last'.role = [h \in Host |-> Nil] /\ results' = {}
          /\ number' = number /\ role' = role
      BY <1>2 DEF NewEpoch, EmptyLast
    <2>2. Recorded(last'.number) = {}
      BY <2>1 DEF Recorded
    <2>3. NumbersInv(last'.number, last'.role)
      BY <2>1, <2>2, FS_EmptySet DEF NumbersInv
    <2> QED
      BY <2>1, <2>2, <2>3 DEF ProjectInv
  <1>3. CASE UNCHANGED <<number, role, results, last>>
    BY <1>3 DEF ProjectInv
  <1> QED
    BY <1>1, <1>2, <1>3
    DEF Next, Visit, Failover, Process, ReorderHosts, Exit, vars, project

\* What a round of the loop does.
LEMMA VisitFields ==
  ASSUME TypeOK, ProjectInv, DetermineInv, NEW h \in Host, Visit(h)
  PROVE  /\ UNCHANGED <<project, pc, ordered>> /\ pc = "determine"
         /\ left' = left \ {h} /\ h \in left
         /\ Visited' = Visited \cup {h} /\ h \in Recorded(last.number)
         /\ \/ /\ last.role[h] = "master" /\ master' = h /\ replicas' = replicas
               /\ VisitedReplicas' = VisitedReplicas
            \/ /\ last.role[h] # "master" /\ master' = master
               /\ VisitedReplicas' = VisitedReplicas \cup {h}
               /\ replicas' = [i \in DOMAIN replicas \cup {last.number[h]} |->
                                  IF i = last.number[h] THEN h ELSE replicas[i]]
  <1>1. /\ UNCHANGED <<project, pc, ordered>> /\ last' = last /\ pc = "determine"
        /\ left' = left \ {h} /\ h \in left
    BY DEF Visit, project
  <1>2. h \in Recorded(last.number)
    BY <1>1 DEF DetermineInv
  <1>3. Visited' = Visited \cup {h}
    BY <1>1, <1>2 DEF Visited
  <1>4. VisitedReplicas' = IF last.role[h] = "master" THEN VisitedReplicas
                           ELSE VisitedReplicas \cup {h}
    BY <1>1, <1>3 DEF VisitedReplicas
  <1> QED
    BY <1>1, <1>2, <1>3, <1>4 DEF Visit

\* Every step preserves DetermineInv: two replicas never have one place in the
\* map.
LEMMA DetermineInductive ==
  ASSUME TypeOK, ProjectInv, DetermineInv, [Next]_vars
  PROVE  DetermineInv'
  <1>1. ASSUME NEW h \in Host, Visit(h) PROVE DetermineInv'
    <2>1. /\ last' = last /\ pc = "determine" /\ pc' = pc
          /\ left' = left \ {h} /\ h \in left
          /\ Visited' = Visited \cup {h} /\ h \in Recorded(last.number)
          /\ \/ /\ last.role[h] = "master" /\ master' = h /\ replicas' = replicas
                /\ VisitedReplicas' = VisitedReplicas
             \/ /\ last.role[h] # "master" /\ master' = master
                /\ VisitedReplicas' = VisitedReplicas \cup {h}
                /\ replicas' = [i \in DOMAIN replicas \cup {last.number[h]} |->
                                   IF i = last.number[h] THEN h ELSE replicas[i]]
      BY <1>1, VisitFields DEF project
    <2>2. /\ left \subseteq Recorded(last.number)
          /\ master # Nil => master \in Visited /\ last.role[master] = "master"
          /\ \A g \in Visited : last.role[g] = "master" => master # Nil
          /\ DOMAIN replicas = {last.number[g] : g \in VisitedReplicas}
          /\ \A g \in VisitedReplicas : replicas[last.number[g]] = g
      BY <2>1 DEF DetermineInv
    <2>3. h # Nil
      BY NilAssumption
    <2>4. /\ master' # Nil => master' \in Visited' /\ last.role[master'] = "master"
          /\ \A g \in Visited' : last.role[g] = "master" => master' # Nil
      BY <2>1, <2>2, <2>3
    <2>5. DOMAIN replicas' = {last.number[g] : g \in VisitedReplicas'}
      <3>1. CASE replicas' = replicas /\ VisitedReplicas' = VisitedReplicas
        BY <2>1, <2>2, <3>1
      <3>2. CASE /\ VisitedReplicas' = VisitedReplicas \cup {h}
                 /\ replicas' = [i \in DOMAIN replicas \cup {last.number[h]} |->
                                   IF i = last.number[h] THEN h ELSE replicas[i]]
        <4>1. DOMAIN replicas' = DOMAIN replicas \cup {last.number[h]}
          BY <3>2
        <4> QED
          BY <2>1, <2>2, <3>2, <4>1
      <3> QED
        BY <2>1, <3>1, <3>2
    <2>6. h \notin VisitedReplicas
      BY <2>1 DEF VisitedReplicas, Visited
    <2>7. \A g \in VisitedReplicas : g \in Host /\ last.number[g] # 0
      BY DEF VisitedReplicas, Visited, Recorded
    <2>8. \A g \in VisitedReplicas : last.number[g] # last.number[h]
      BY <2>6, <2>7 DEF ProjectInv, NumbersInv
    <2>9. ASSUME NEW g \in VisitedReplicas' PROVE replicas'[last.number[g]] = g
      <3>1. CASE last.role[h] = "master"
        BY <2>1, <2>2, <2>9, <3>1
      <3>2. CASE last.role[h] # "master" /\ g = h
        BY <2>1, <3>2
      <3>3. CASE last.role[h] # "master" /\ g # h
        <4>1. g \in VisitedReplicas /\ last.number[g] \in DOMAIN replicas
          BY <2>1, <2>2, <2>9, <3>3
        <4> QED
          BY <4>1, <2>1, <2>2, <2>8, <3>3
      <3> QED
        BY <3>1, <3>2, <3>3
    <2>10. left' \subseteq Recorded(last.number)
      BY <2>1, <2>2
    <2> QED
      BY <2>1, <2>4, <2>5, <2>9, <2>10 DEF DetermineInv
  <1>2. CASE Process
    <2>1. /\ last' = last /\ pc' = "determine" /\ left' = Recorded(last.number)
          /\ master' = Nil /\ DOMAIN replicas' = {}
      BY <1>2 DEF Process, project, NoReplicas
    <2>2. Visited' = {} /\ VisitedReplicas' = {}
      BY <2>1 DEF Visited, VisitedReplicas
    <2> QED
      BY <2>1, <2>2 DEF DetermineInv
  <1>3. CASE ReorderHosts
    <2>1. /\ last' = last /\ pc = "determine" /\ pc' = "done" /\ left = {}
          /\ UNCHANGED <<left, master, replicas>>
      BY <1>3 DEF ReorderHosts, project
    <2>2. Visited' = Visited /\ VisitedReplicas' = VisitedReplicas
      BY <2>1 DEF Visited, VisitedReplicas
    <2> QED
      BY <2>1, <2>2 DEF DetermineInv
  <1>4. ASSUME pc' = "collect" PROVE DetermineInv'
    BY <1>4 DEF DetermineInv
  <1>5. CASE UNCHANGED vars
    <2>1. Visited' = Visited /\ VisitedReplicas' = VisitedReplicas
      BY <1>5 DEF Visited, VisitedReplicas, vars
    <2> QED
      BY <1>5, <2>1 DEF DetermineInv, vars
  <1>6. ASSUME NEW h \in Host, Collect(h) PROVE DetermineInv'
    BY <1>4, <1>6 DEF Collect
  <1>7. CASE Failover \/ NewEpoch \/ Exit
    BY <1>4, <1>7 DEF Failover, NewEpoch, Exit
  <1> QED
    BY <1>1, <1>2, <1>3, <1>5, <1>6, <1>7 DEF Next

\* A finite set of numbers can be sorted: its least element goes first.
LEMMA AscendingExists ==
  ASSUME NEW n \in Nat, NEW D \in SUBSET Nat, IsFiniteSet(D), Cardinality(D) = n
  PROVE  \E seq \in [1 .. n -> D] : \A i, j \in 1 .. n : i < j => seq[i] < seq[j]
  <1> DEFINE Sorts(seq, k, E) == /\ seq \in [1 .. k -> E]
                                 /\ \A i, j \in 1 .. k : i < j => seq[i] < seq[j]
             G == {k \in Nat : \A E \in SUBSET Nat :
                                 IsFiniteSet(E) /\ Cardinality(E) = k => \E seq : Sorts(seq, k, E)}
  <1>1. 0 \in G
    <2> SUFFICES ASSUME NEW E \in SUBSET Nat PROVE \E seq : Sorts(seq, 0, E)
      OBVIOUS
    <2>1. Sorts([i \in 1 .. 0 |-> 0], 0, E)
      OBVIOUS
    <2> QED
      BY <2>1
  <1>2. ASSUME NEW k \in Nat, k \in G PROVE k + 1 \in G
    <2> SUFFICES ASSUME NEW E \in SUBSET Nat, IsFiniteSet(E), Cardinality(E) = k + 1
                 PROVE  \E seq : Sorts(seq, k + 1, E)
      OBVIOUS
    <2>1. E # {}
      BY FS_EmptySet
    <2>2. PICK m \in E : \A x \in E : m <= x
      BY <2>1, Least
    <2> DEFINE F == E \ {m}
    <2>3. F \in SUBSET Nat /\ IsFiniteSet(F) /\ Cardinality(F) = k
      <3>1. IsFiniteSet(F) /\ Cardinality(F) = Cardinality(E) - 1
        BY <2>2, FS_RemoveElement
      <3>2. Cardinality(E) - 1 = k
        OBVIOUS
      <3> QED
        BY <3>1, <3>2
    <2>4. PICK f : Sorts(f, k, F)
      BY <1>2, <2>3
    <2> DEFINE seq == [i \in 1 .. k + 1 |-> IF i = 1 THEN m ELSE f[i - 1]]
    <2>5. \A i \in 1 .. k + 1 : i = 1 \/ i - 1 \in 1 .. k
      OBVIOUS
    <2>6. f \in [1 .. k -> F] /\ \A i, j \in 1 .. k : i < j => f[i] < f[j]
      BY <2>4
    <2>7. \A i \in 1 .. k : f[i] \in E /\ m < f[i]
      <3> TAKE i \in 1 .. k
      <3>1. f[i] \in E /\ f[i] # m
        BY <2>6
      <3>2. m <= f[i] /\ m \in Nat /\ f[i] \in Nat
        BY <3>1, <2>2
      <3> HIDE DEF F
      <3> QED
        BY <3>1, <3>2
    <2>8. seq[1] = m /\ \A i \in 1 .. k + 1 : i # 1 => seq[i] = f[i - 1]
      OBVIOUS
    <2>9. seq \in [1 .. k + 1 -> E]
      BY <2>2, <2>5, <2>7
    <2> HIDE DEF seq, F
    <2>10. ASSUME NEW i \in 1 .. k + 1, NEW j \in 1 .. k + 1, i < j PROVE seq[i] < seq[j]
      <3>1. j # 1 /\ j - 1 \in 1 .. k
        BY <2>10
      <3>2. CASE i = 1
        BY <3>1, <3>2, <2>7, <2>8
      <3>3. CASE i # 1
        <4>1. i - 1 \in 1 .. k /\ i - 1 < j - 1
          BY <2>10, <3>3
        <4> QED
          BY <3>1, <3>3, <4>1, <2>6, <2>8
      <3> QED
        BY <3>2, <3>3
    <2>11. Sorts(seq, k + 1, E)
      BY <2>9, <2>10
    <2> QED
      BY <2>11
  <1>3. \A k \in 0 .. n - 1 : k \in G => k + 1 \in G
    BY <1>2
  <1>4. n \in G
    <2> HIDE DEF G
    <2> QED
      BY <1>1, <1>3, UpTo
  <1> QED
    BY <1>4

\* Ascending sorts: it is increasing, and has all of the set.
LEMMA AscendingProperties ==
  ASSUME NEW D \in SUBSET Nat, IsFiniteSet(D)
  PROVE  /\ Cardinality(D) \in Nat
         /\ Ascending(D) \in [1 .. Cardinality(D) -> D]
         /\ \A i, j \in 1 .. Cardinality(D) : i < j => Ascending(D)[i] < Ascending(D)[j]
         /\ \A x \in D : \E i \in 1 .. Cardinality(D) : Ascending(D)[i] = x
  <1> DEFINE n == Cardinality(D)
             seq == Ascending(D)
  <1>1. n \in Nat
    BY FS_CardinalityType
  <1>2. seq \in [1 .. n -> D] /\ \A i, j \in 1 .. n : i < j => seq[i] < seq[j]
    BY <1>1, AscendingExists DEF Ascending
  <1>3. \A x \in D : \E i \in 1 .. n : seq[i] = x
    <2> HIDE DEF seq
    <2>1. \A i, j \in 1 .. n : seq[i] = seq[j] => i = j
      <3> SUFFICES ASSUME NEW i \in 1 .. n, NEW j \in 1 .. n, i # j PROVE seq[i] # seq[j]
        OBVIOUS
      <3>1. seq[i] \in Nat /\ seq[j] \in Nat
        BY <1>2
      <3>2. i < j \/ j < i
        BY <1>1
      <3> QED
        BY <1>2, <3>1, <3>2
    <2>2. seq \in Injection(1 .. n, D)
      BY <1>2, <2>1 DEF Injection, IsInjective
    <2>3. Cardinality(1 .. n) = n
      BY <1>1, FS_Interval
    <2>4. seq \in Surjection(1 .. n, D)
      BY <2>2, <2>3, FS_Injection
    <2> QED
      BY <2>4 DEF Surjection
  <1> QED
    BY <1>1, <1>2, <1>3

\* The order of hosts in a report.
Precedes(g, h) ==
  /\ last.role[h] # "master"
  /\ last.role[g] = "master" \/ last.number[g] < last.number[h]

\* SortedReplicas has the replicas, all of them, in this order.
LEMMA SortedReplicasProperties ==
  ASSUME TypeOK, ProjectInv, DetermineInv, pc \in {"determine", "done"}
  PROVE  /\ SortedReplicas \in Seq(Host)
         /\ \A i \in 1 .. Len(SortedReplicas) : SortedReplicas[i] \in VisitedReplicas
         /\ \A i, j \in 1 .. Len(SortedReplicas) :
              i < j => Precedes(SortedReplicas[i], SortedReplicas[j])
         /\ \A h \in VisitedReplicas :
              \E i \in 1 .. Len(SortedReplicas) : SortedReplicas[i] = h
  <1> DEFINE D == DOMAIN replicas
             n == Cardinality(D)
             e == Ascending(D)
             s == SortedReplicas
  <1>1. /\ D = {last.number[h] : h \in VisitedReplicas}
        /\ \A h \in VisitedReplicas : replicas[last.number[h]] = h
    BY DEF DetermineInv
  <1>2. VisitedReplicas \in SUBSET Recorded(last.number) /\ VisitedReplicas \subseteq Host
    BY DEF VisitedReplicas, Visited, Recorded
  <1>3. last.number \in [Host -> Nat]
    BY DEF TypeOK
  <1>4. D \in SUBSET Nat
    BY <1>1, <1>2, <1>3
  <1>5. IsFiniteSet(D)
    <2> DEFINE f == [h \in VisitedReplicas |-> last.number[h]]
    <2>1. f \in Surjection(VisitedReplicas, D)
      BY <1>1 DEF Surjection
    <2>2. IsFiniteSet(VisitedReplicas)
      BY <1>2, FS_Subset DEF ProjectInv, NumbersInv
    <2> QED
      BY <2>1, <2>2, FS_Surjection
  <1>6. /\ n \in Nat /\ e \in [1 .. n -> D]
        /\ \A i, j \in 1 .. n : i < j => e[i] < e[j]
        /\ \A x \in D : \E i \in 1 .. n : e[i] = x
    BY <1>4, <1>5, AscendingProperties
  <1>7. s = [i \in 1 .. n |-> replicas[e[i]]]
    BY DEF SortedReplicas
  <1> HIDE DEF s, e, n, D
  <1>8. ASSUME NEW i \in 1 .. n
        PROVE  s[i] \in VisitedReplicas /\ last.number[s[i]] = e[i]
    <2>1. e[i] \in D
      BY <1>6
    <2>2. PICK h \in VisitedReplicas : e[i] = last.number[h]
      BY <2>1, <1>1
    <2>3. s[i] = h
      BY <2>2, <1>1, <1>7
    <2> QED
      BY <2>2, <2>3
  <1>9. s \in Seq(Host) /\ Len(s) = n
    <2>1. s \in [1 .. n -> Host]
      BY <1>2, <1>7, <1>8
    <2> QED
      BY <2>1, <1>6, SeqDef
  <1>10. ASSUME NEW i \in 1 .. n, NEW j \in 1 .. n, i < j PROVE Precedes(s[i], s[j])
    BY <1>6, <1>8, <1>10 DEF Precedes, VisitedReplicas
  <1>11. ASSUME NEW h \in VisitedReplicas PROVE \E i \in 1 .. n : s[i] = h
    <2>1. last.number[h] \in D
      BY <1>1
    <2>2. PICK i \in 1 .. n : e[i] = last.number[h]
      BY <2>1, <1>6
    <2>3. s[i] = h
      BY <2>2, <1>1, <1>7
    <2> QED
      BY <2>3
  <1>12. /\ s \in Seq(Host)
         /\ \A i \in 1 .. Len(s) : s[i] \in VisitedReplicas
         /\ \A i, j \in 1 .. Len(s) : i < j => Precedes(s[i], s[j])
         /\ \A h \in VisitedReplicas : \E i \in 1 .. Len(s) : s[i] = h
    BY <1>8, <1>9, <1>10, <1>11
  <1> QED
    BY <1>12 DEF s

\* So has AllHosts the hosts, but for masters other than the last one that was
\* visited.
LEMMA AllHostsProperties ==
  ASSUME TypeOK, ProjectInv, DetermineInv, pc \in {"determine", "done"}, left = {}
  PROVE  /\ AllHosts \in Seq(Host)
         /\ \A i, j \in 1 .. Len(AllHosts) : i < j => Precedes(AllHosts[i], AllHosts[j])
         /\ \A h \in Recorded(last.number) : last.role[h] # "master" \/ h = master =>
              \E i \in 1 .. Len(AllHosts) : AllHosts[i] = h
  <1> DEFINE s == SortedReplicas
             all == AllHosts
  <1>1. /\ s \in Seq(Host)
        /\ \A i \in 1 .. Len(s) : s[i] \in VisitedReplicas
        /\ \A i, j \in 1 .. Len(s) : i < j => Precedes(s[i], s[j])
        /\ \A h \in VisitedReplicas : \E i \in 1 .. Len(s) : s[i] = h
    BY SortedReplicasProperties
  <1>2. Visited = Recorded(last.number)
    BY DEF Visited
  <1>3. \A h \in Recorded(last.number) :
          /\ last.role[h] # "master" => h \in VisitedReplicas
          /\ last.role[h] = "master" => master # Nil
    BY <1>2 DEF VisitedReplicas, DetermineInv
  <1>4. CASE master = Nil
    <2>1. all = s
      BY <1>4 DEF AllHosts
    <2> HIDE DEF all, s
    <2>2. /\ all \in Seq(Host)
          /\ \A i, j \in 1 .. Len(all) : i < j => Precedes(all[i], all[j])
          /\ \A h \in Recorded(last.number) : last.role[h] # "master" \/ h = master =>
               \E i \in 1 .. Len(all) : all[i] = h
      BY <1>1, <1>3, <1>4, <2>1
    <2> QED
      BY <2>2 DEF all
  <1>5. CASE master # Nil
    <2>1. all = <<master>> \o s
      BY <1>5 DEF AllHosts
    <2>2. master \in Host /\ last.role[master] = "master"
      BY <1>5 DEF TypeOK, DetermineInv
    <2>3. \A h \in VisitedReplicas : last.role[h] # "master"
      BY DEF VisitedReplicas
    <2> HIDE DEF all, s
    <2>4. <<master>> \in Seq(Host) /\ Len(<<master>>) = 1 /\ <<master>>[1] = master
      BY <2>2
    <2>5. /\ all \in Seq(Host) /\ Len(all) = 1 + Len(s) /\ Len(s) \in Nat
          /\ \A i \in 1 .. Len(all) :
               all[i] = IF i <= 1 THEN <<master>>[i] ELSE s[i - 1]
      BY <1>1, <2>1, <2>4, ConcatProperties, LenProperties
    <2>6. all[1] = master /\ \A i \in 1 .. Len(s) : all[i + 1] = s[i]
      BY <2>4, <2>5
    <2>7. ASSUME NEW i \in 1 .. Len(all), NEW j \in 1 .. Len(all), i < j
          PROVE  Precedes(all[i], all[j])
      <3>1. j - 1 \in 1 .. Len(s) /\ (j - 1) + 1 = j
        BY <2>5, <2>7
      <3>2. all[j] = s[j - 1]
        BY <2>6, <3>1
      <3>3. CASE i = 1
        BY <1>1, <2>2, <2>3, <2>6, <3>1, <3>2, <3>3 DEF Precedes
      <3>4. CASE i # 1
        <4>1. i - 1 \in 1 .. Len(s) /\ (i - 1) + 1 = i /\ i - 1 < j - 1
          BY <2>5, <2>7, <3>4
        <4>2. all[i] = s[i - 1]
          BY <2>6, <4>1
        <4> QED
          BY <1>1, <3>1, <3>2, <4>1, <4>2
      <3> QED
        BY <3>3, <3>4
    <2>8. ASSUME NEW h \in Recorded(last.number), last.role[h] # "master" \/ h = master
          PROVE  \E i \in 1 .. Len(all) : all[i] = h
      <3>1. CASE h = master
        BY <2>5, <2>6, <3>1
      <3>2. CASE h # master
        <4>1. PICK i \in 1 .. Len(s) : s[i] = h
          BY <1>1, <1>3, <2>8, <3>2
        <4> QED
          BY <4>1, <2>5, <2>6
      <3> QED
        BY <3>1, <3>2
    <2> QED
      BY <2>5, <2>7, <2>8 DEF all
  <1> QED
    BY <1>4, <1>5

\* AllHosts depends on what the loop arrived at only.
LEMMA AllHostsUnchanged ==
  UNCHANGED <<last, left, master, replicas>> => AllHosts' = AllHosts
  BY DEF AllHosts, SortedReplicas, Ascending

\* Every step preserves DoneInv.
LEMMA DoneInductive ==
  ASSUME DoneInv, [Next]_vars
  PROVE  DoneInv'
  <1>1. CASE ReorderHosts
    <2>1. /\ ordered' = Sublist(AllHosts, results)
          /\ UNCHANGED <<last, left, master, replicas, results>>
      BY <1>1 DEF ReorderHosts, AllHosts, project
    <2> QED
      BY <2>1, AllHostsUnchanged DEF DoneInv
  <1>2. CASE UNCHANGED vars
    BY <1>2, AllHostsUnchanged DEF DoneInv, vars
  <1>3. CASE Process \/ (\E h \in Host : Collect(h) \/ Visit(h)) \/ Failover \/ NewEpoch \/ Exit
    BY <1>3 DEF Process, Collect, Visit, Failover, NewEpoch, Exit, DoneInv
  <1> QED
    BY <1>1, <1>2, <1>3 DEF Next

\* Every step preserves the types.
LEMMA TypeInductive ==
  ASSUME TypeOK, ProjectInv, DetermineInv, [Next]_vars
  PROVE  TypeOK'
  <1>1. ASSUME NEW h \in Host, Collect(h) PROVE TypeOK'
    <2>1. number' \in [Host -> Nat] /\ role' \in [Host -> Role \cup {Nil}]
      BY <1>1, CollectNumbers
    <2>2. last' \in [number : [Host -> Nat], role : [Host -> Role \cup {Nil}]]
      BY <1>1, <2>1 DEF Collect
    <2> QED
      BY <1>1, <2>1, <2>2 DEF TypeOK, Collect
  <1>2. ASSUME NEW h \in Host, Visit(h) PROVE TypeOK'
    <2>1. last.number[h] \in Nat
      BY DEF TypeOK
    <2>2. \/ replicas' = replicas
          \/ replicas' = [i \in DOMAIN replicas \cup {last.number[h]} |->
                             IF i = last.number[h] THEN h ELSE replicas[i]]
      BY <1>2 DEF Visit
    <2>3. \A i \in DOMAIN replicas : i \in Nat /\ replicas[i] \in Host
      BY DEF TypeOK
    <2>4. \A i \in DOMAIN replicas' : i \in Nat /\ replicas'[i] \in Host
      BY <2>1, <2>2, <2>3
    <2> QED
      BY <1>2, <2>4 DEF TypeOK, Visit, project
  <1>3. CASE ReorderHosts
    <2>1. AllHosts \in Seq(Host)
      BY <1>3, AllHostsProperties DEF ReorderHosts
    <2>2. ordered' = Sublist(AllHosts, results)
      BY <1>3 DEF ReorderHosts, AllHosts
    <2>3. ordered' \in Seq(Host)
      BY <2>1, <2>2, SublistProperties
    <2> QED
      BY <1>3, <2>3 DEF TypeOK, ReorderHosts, project
  <1>4. CASE Failover
    BY <1>4 DEF TypeOK, Failover
  <1>5. CASE NewEpoch
    BY <1>5 DEF TypeOK, NewEpoch, EmptyLast
  <1>6. CASE Process
    <2>1. Recorded(last.number) \subseteq Host
      BY DEF Recorded
    <2> QED
      BY <1>6, <2>1 DEF TypeOK, Process, project, NoReplicas
  <1>7. CASE Exit \/ UNCHANGED vars
    BY <1>7 DEF TypeOK, Exit, project, vars
  <1> QED
    BY <1>1, <1>2, <1>3, <1>4, <1>5, <1>6, <1>7 DEF Next

\* The inductive invariant.
Inv == TypeOK /\ ProjectInv /\ DetermineInv /\ DoneInv

\* Inv holds initially.
LEMMA InvInit == Init => Inv
  <1> SUFFICES ASSUME Init PROVE Inv
    OBVIOUS
  <1>1. /\ number = [h \in Host |-> 0] /\ role = [h \in Host |-> Nil]
        /\ last.number = number /\ last.role = role /\ results = {} /\ pc = "collect"
    BY DEF Init, EmptyLast, Registry!Init, Registry!NoNumber
  <1>2. Recorded(number) = {}
    BY <1>1 DEF Recorded
  <1>3. NumbersInv(number, role)
    BY <1>1, <1>2, FS_EmptySet DEF NumbersInv
  <1>4. TypeOK
    <2>1. <<>> \in Seq(Host)
      OBVIOUS
    <2> QED
      BY <1>1, <2>1 DEF Init, TypeOK, EmptyLast, NoReplicas
  <1> QED
    BY <1>1, <1>2, <1>3, <1>4 DEF Inv, ProjectInv, DetermineInv, DoneInv

\* Inv holds in every behaviour.
THEOREM InvCorrect == Spec => []Inv
  <1>1. Inv /\ [Next]_vars => Inv'
    BY TypeInductive, ProjectInductive, DetermineInductive, DoneInductive DEF Inv
  <1> QED
    BY <1>1, InvInit, PTL DEF Spec

\* Every variable has its type in every behaviour (DetermineMasterReplica,
\* ReorderHosts).
THEOREM TypeCorrect == Spec => []TypeOK
  <1>1. Inv => TypeOK
    BY DEF Inv
  <1> QED
    BY <1>1, InvCorrect, PTL

\* reorderedHosts, when pghrep has it.
LEMMA OrderedProperties ==
  ASSUME Inv, pc = "done"
  PROVE  /\ ordered \in Seq(Host)
         /\ \A i, j \in 1 .. Len(ordered) : i < j => Precedes(ordered[i], ordered[j])
         /\ \A i \in 1 .. Len(ordered) : ordered[i] \in results
         /\ \A h \in results : last.role[h] # "master" \/ h = master =>
              \E i \in 1 .. Len(ordered) : ordered[i] = h
  <1> DEFINE all == AllHosts
  <1>1. left = {} /\ ordered = Sublist(all, results)
    BY DEF Inv, DetermineInv, DoneInv
  <1>2. /\ all \in Seq(Host)
        /\ \A i, j \in 1 .. Len(all) : i < j => Precedes(all[i], all[j])
        /\ \A h \in Recorded(last.number) : last.role[h] # "master" \/ h = master =>
             \E i \in 1 .. Len(all) : all[i] = h
    BY <1>1, AllHostsProperties DEF Inv
  <1>3. results \subseteq Recorded(last.number)
    BY DEF Inv, ProjectInv
  <1> HIDE DEF all
  <1>4. ordered \in Seq(Host) /\ Range(ordered) = Range(all) \cap results
    BY <1>1, <1>2, SublistProperties
  <1>5. PICK pos \in [1 .. Len(ordered) -> 1 .. Len(all)] :
          /\ \A k \in 1 .. Len(ordered) : ordered[k] = all[pos[k]]
          /\ \A j, k \in 1 .. Len(ordered) : j < k => pos[j] < pos[k]
    BY <1>1, <1>2, SublistPositions
  <1>6. /\ Range(ordered) = {ordered[i] : i \in 1 .. Len(ordered)}
        /\ Range(all) = {all[i] : i \in 1 .. Len(all)}
    BY <1>2, <1>4, RangeEquality
  <1>7. \A i, j \in 1 .. Len(ordered) : i < j => Precedes(ordered[i], ordered[j])
    BY <1>2, <1>5
  <1>8. \A i \in 1 .. Len(ordered) : ordered[i] \in results
    BY <1>4, <1>6
  <1>9. ASSUME NEW h \in results, last.role[h] # "master" \/ h = master
        PROVE  \E i \in 1 .. Len(ordered) : ordered[i] = h
    <2>1. h \in Range(all)
      BY <1>2, <1>3, <1>6, <1>9
    <2> QED
      BY <2>1, <1>4, <1>6, <1>9
  <1> QED
    BY <1>4, <1>7, <1>8, <1>9

\* OnlyMastersMissing: a host with data that is missing from the report is a
\* master, and not the one the report presents.
THEOREM OnlyMastersMissingCorrect == Spec => []OnlyMastersMissing
  <1>1. Inv => OnlyMastersMissing
    <2> SUFFICES ASSUME Inv, pc = "done", NEW h \in results,
                        \A i \in DOMAIN ordered : ordered[i] # h
                 PROVE  h \in Masters /\ master # h
      BY DEF OnlyMastersMissing
    <2>1. DOMAIN ordered = 1 .. Len(ordered)
      BY OrderedProperties, LenProperties
    <2>2. ~(last.role[h] # "master" \/ h = master)
      BY <2>1, OrderedProperties
    <2>3. h \in Host
      BY DEF Inv, TypeOK
    <2> QED
      BY <2>2, <2>3 DEF Masters
  <1> QED
    BY <1>1, InvCorrect, PTL

\* If the report knows one master at most, that is the one the loop remembers.
LEMMA OnlyMaster ==
  ASSUME Inv, pc = "done", Cardinality(Masters) <= 1, NEW h \in Masters
  PROVE  h = master
  <1>1. Masters \in SUBSET Recorded(last.number)
    <2> SUFFICES ASSUME NEW g \in Masters PROVE g \in Recorded(last.number)
      OBVIOUS
    <2>1. g \in Host /\ last.role[g] # Nil
      BY DEF Masters, Nil
    <2> QED
      BY <2>1 DEF Inv, ProjectInv, NumbersInv, Recorded
  <1>2. IsFiniteSet(Masters) /\ Cardinality(Masters) \in Nat
    BY <1>1, FS_Subset, FS_CardinalityType DEF Inv, ProjectInv, NumbersInv
  <1>3. Cardinality(Masters) = 1
    BY <1>2, FS_EmptySet
  <1>4. PICK g : Masters = {g}
    BY <1>2, <1>3, FS_Singleton
  <1>5. left = {} /\ Visited = Recorded(last.number)
    BY DEF Inv, DetermineInv, Visited
  <1>6. h \in Visited /\ last.role[h] = "master"
    BY <1>1, <1>5 DEF Masters
  <1>7. master \in Visited /\ last.role[master] = "master"
    BY <1>6 DEF Inv, DetermineInv
  <1>8. master \in Masters
    BY <1>7 DEF Masters, Visited, Recorded
  <1> QED
    BY <1>4, <1>8

\* OrderedOnce: with one master at most, the report has all hosts with data,
\* each once, the master first and the replicas by number, whatever the order of
\* the Go map.
THEOREM OrderedOnceCorrect == Spec => []OrderedOnce
  <1>1. Inv => OrderedOnce
    <2> SUFFICES ASSUME Inv, pc = "done", Cardinality(Masters) <= 1 PROVE OrderedOnce
      BY DEF OrderedOnce
    <2>1. /\ ordered \in Seq(Host)
          /\ \A i, j \in 1 .. Len(ordered) : i < j => Precedes(ordered[i], ordered[j])
          /\ \A i \in 1 .. Len(ordered) : ordered[i] \in results
          /\ \A h \in results : last.role[h] # "master" \/ h = master =>
               \E i \in 1 .. Len(ordered) : ordered[i] = h
      BY OrderedProperties
    <2>2. DOMAIN ordered = 1 .. Len(ordered) /\ Len(ordered) \in Nat
      BY <2>1, LenProperties
    <2>3. \A h \in results : last.role[h] # "master" \/ h = master
      BY OnlyMaster DEF Masters, Inv, TypeOK
    <2>4. {ordered[i] : i \in DOMAIN ordered} = results
      BY <2>1, <2>2, <2>3
    <2>5. last.number \in [Host -> Nat]
      BY DEF Inv, TypeOK
    <2>6. \A h \in Host : ~Precedes(h, h)
      BY <2>5 DEF Precedes
    <2>7. ASSUME NEW i \in 1 .. Len(ordered), NEW j \in 1 .. Len(ordered), ordered[i] = ordered[j]
          PROVE  i = j
      <3>1. ordered[i] \in Host
        BY <2>1, ElementOfSeq
      <3>2. ~(i < j) /\ ~(j < i)
        BY <2>1, <2>6, <2>7, <3>1
      <3> QED
        BY <2>2, <3>2
    <2>8. Len(ordered) = Cardinality(results)
      <3> DEFINE n == Len(ordered)
      <3>1. ordered \in Injection(1 .. n, results)
        BY <2>1, <2>2, <2>7 DEF Injection, IsInjective
      <3>2. ordered \in Surjection(1 .. n, results)
        BY <2>1, <2>2, <2>4 DEF Surjection
      <3>3. n \in Nat
        BY <2>2
      <3> HIDE DEF n
      <3>4. IsFiniteSet(1 .. n) /\ Cardinality(1 .. n) = n
        BY <3>3, FS_Interval
      <3>5. Cardinality(results) = n
        BY <3>1, <3>2, <3>4, FS_Surjection
      <3> QED
        BY <3>5 DEF n
    <2> QED
      BY <2>1, <2>2, <2>4, <2>8 DEF OrderedOnce, Precedes
  <1> QED
    BY <1>1, InvCorrect, PTL
-----------------------------------------------------------------------------
(***************************************************************************)
(* The safety properties of OrderedMap, for every set of names, their      *)
(* classes and all bounds.                                                 *)
(*                                                                         *)
(* The argument. Spelt says how an item can be spelled: as jq spells it,   *)
(* or, if its name has one of < > &, as encoding/json did when the report  *)
(* was saved. So a save loses an item only if its name has a backslash, or *)
(* if it was saved before.                                                 *)
(*                                                                         *)
(* The order is a matter of positions: the items that are kept stand at    *)
(* increasing positions among those of the file, and these among the       *)
(* collected ones (Sublist_proofs); what stands at increasing positions in *)
(* a sequence without repetitions is its Sublist (SublistUnique).          *)
(***************************************************************************)

\* An item has the spelling of jq, or that of a save.
SpeltOK(t, n) ==
  \/ t.spelling = JqSpelling[t.name]
  \/ ClassOf[t.name] = "angle" /\ t.spelling = "html" /\ n >= 1

Spelt == \A t \in Range(file.items) : SpeltOK(t, saves)

\* The inductive invariant.
MapInv ==
  /\ MapTypeOK
  /\ Once(collected)
  /\ Spelt
  /\ NothingLost

-----------------------------------------------------------------------------
(* Names and spellings.                                                    *)

\* The names of a text, one by one and as a set.
LEMMA NamesProperties ==
  ASSUME NEW text \in Seq(ItemText)
  PROVE  /\ Names(text) \in Seq(Key)
         /\ Len(Names(text)) = Len(text)
         /\ \A i \in 1 .. Len(text) : Names(text)[i] = text[i].name
         /\ Range(Names(text)) = {t.name : t \in Range(text)}
  <1>1. /\ Len(text) \in Nat /\ DOMAIN text = 1 .. Len(text)
        /\ text \in [1 .. Len(text) -> ItemText]
    BY LenProperties
  <1>2. \A t \in ItemText : t.name \in Key
    BY DEF ItemText
  <1>3. Names(text) \in [1 .. Len(text) -> Key]
    BY <1>1, <1>2 DEF Names
  <1>4. Names(text) \in Seq(Key)
    BY <1>1, <1>3, SeqDef
  <1>5. Len(Names(text)) = Len(text)
    BY <1>1, <1>3, <1>4, LenProperties
  <1>6. \A i \in 1 .. Len(text) : Names(text)[i] = text[i].name
    BY <1>1 DEF Names
  <1>7. Range(Names(text)) = {t.name : t \in Range(text)}
    BY <1>1, Zenon DEF Names, Range
  <1> QED
    BY <1>4, <1>5, <1>6, <1>7

\* A sequence of names that is written has these names, each in its spelling.
LEMMA WrittenProperties ==
  ASSUME NEW keys \in Seq(Key), NEW sp \in [Key -> Spelling]
  PROVE  /\ Written(keys, sp) \in Seq(ItemText)
         /\ Names(Written(keys, sp)) = keys
         /\ \A t \in Range(Written(keys, sp)) : t.name \in Range(keys) /\ t.spelling = sp[t.name]
  <1> DEFINE text == Written(keys, sp)
  <1>1. /\ Len(keys) \in Nat /\ DOMAIN keys = 1 .. Len(keys)
        /\ keys \in [1 .. Len(keys) -> Key]
    BY LenProperties
  <1>2. /\ DOMAIN text = 1 .. Len(keys)
        /\ \A i \in 1 .. Len(keys) : text[i] = [name |-> keys[i], spelling |-> sp[keys[i]]]
    BY <1>1 DEF Written, Spelled
  <1>3. text \in [1 .. Len(keys) -> ItemText]
    BY <1>1 DEF Written, Spelled, ItemText
  <1>4. text \in Seq(ItemText)
    BY <1>1, <1>3, SeqDef
  <1>5. Len(text) = Len(keys)
    BY <1>1, <1>2, <1>4, LenProperties
  <1>6. Names(text) = keys
    <2>1. /\ Names(text) \in Seq(Key) /\ Len(Names(text)) = Len(keys)
          /\ \A i \in 1 .. Len(keys) : Names(text)[i] = text[i].name
      BY <1>4, <1>5, NamesProperties
    <2>2. \A i \in 1 .. Len(keys) : Names(text)[i] = keys[i]
      BY <1>2, <2>1
    <2> HIDE DEF text
    <2> QED
      BY <2>1, <2>2, SeqEqual
  <1>7. \A t \in Range(text) : t.name \in Range(keys) /\ t.spelling = sp[t.name]
    BY <1>1, <1>2 DEF Range
  <1> QED
    BY <1>4, <1>6, <1>7

\* Every name has a spelling.
LEMMA SpellingTypes ==
  /\ JqSpelling \in [Key -> Spelling]
  /\ MarshalSpelling \in [Key -> Spelling]
  BY DEF JqSpelling, MarshalSpelling, Spelling

-----------------------------------------------------------------------------
(* What mapStringToOrderedMap finds.                                       *)

\* The pieces of text that are spelled as mapStringToOrderedMap expects.
Found == {t \in ItemText : t.spelling = Sought(t.name)}
KeysOf(text) == mapStringToOrderedMap(text).keys

\* The keys of a map are the names that are found, and are among its values.
LEMMA KeysFound ==
  ASSUME NEW text \in Seq(ItemText)
  PROVE  /\ KeysOf(text) = Names(Sublist(text, Found))
         /\ KeysOf(text) \in Seq(Key)
         /\ Range(KeysOf(text)) = {t.name : t \in Range(text) \cap Found}
         /\ Range(KeysOf(text)) \subseteq Range(Names(text))
         /\ mapStringToOrderedMap(text).values = Range(Names(text))
  <1>1. KeysOf(text) = Names(Sublist(text, Found))
    BY DEF KeysOf, mapStringToOrderedMap, Found
  <1>2. Sublist(text, Found) \in Seq(ItemText) /\ Range(Sublist(text, Found)) = Range(text) \cap Found
    BY SublistProperties
  <1>3. /\ KeysOf(text) \in Seq(Key)
        /\ Range(KeysOf(text)) = {t.name : t \in Range(text) \cap Found}
    BY <1>1, <1>2, NamesProperties
  <1>4. Range(Names(text)) = {t.name : t \in Range(text)}
    BY NamesProperties
  <1>5. mapStringToOrderedMap(text).values = Range(Names(text))
    BY DEF mapStringToOrderedMap
  <1> QED
    BY <1>1, <1>3, <1>4, <1>5

\* What is found of a text whose names are a Sublist of a sequence without
\* repetitions is one too.
LEMMA KeysInOrder ==
  ASSUME NEW text \in Seq(ItemText), NEW c \in Seq(Key), Once(c),
         Names(text) = Sublist(c, Range(Names(text)))
  PROVE  /\ KeysOf(text) = Sublist(c, Range(KeysOf(text)))
         /\ Once(KeysOf(text))
  <1> DEFINE names == Names(text)  kept == Sublist(text, Found)  u == KeysOf(text)
  <1>1. /\ names \in Seq(Key) /\ Len(names) = Len(text)
        /\ \A i \in 1 .. Len(text) : names[i] = text[i].name
    BY NamesProperties
  <1>2. kept \in Seq(ItemText)
    BY SublistProperties
  <1>3. /\ u \in Seq(Key) /\ Len(u) = Len(kept)
        /\ \A i \in 1 .. Len(kept) : u[i] = kept[i].name
    BY <1>2, KeysFound, NamesProperties
  <1>4. PICK p \in [1 .. Len(kept) -> 1 .. Len(text)] :
          /\ \A k \in 1 .. Len(kept) : kept[k] = text[p[k]]
          /\ \A j, k \in 1 .. Len(kept) : j < k => p[j] < p[k]
    BY SublistPositions
  <1>5. PICK q \in [1 .. Len(names) -> 1 .. Len(c)] :
          /\ \A k \in 1 .. Len(names) : names[k] = c[q[k]]
          /\ \A j, k \in 1 .. Len(names) : j < k => q[j] < q[k]
    <2>1. names = Sublist(c, Range(names))
      OBVIOUS
    <2> HIDE DEF names
    <2> QED
      BY <2>1, SublistPositions
  <1>6. /\ Len(c) \in Nat /\ DOMAIN c = 1 .. Len(c)
        /\ Len(u) \in Nat /\ DOMAIN u = 1 .. Len(u)
    BY <1>3, LenProperties
  <1> HIDE DEF names, kept, u
  <1> DEFINE pos == [k \in 1 .. Len(u) |-> q[p[k]]]
  <1>7. pos \in [1 .. Len(u) -> 1 .. Len(c)]
    BY <1>1, <1>3, <1>4, <1>5
  <1>8. \A k \in 1 .. Len(u) : u[k] = c[pos[k]]
    <2> TAKE k \in 1 .. Len(u)
    <2>1. p[k] \in 1 .. Len(text) /\ u[k] = kept[k].name /\ kept[k] = text[p[k]]
      BY <1>3, <1>4
    <2>2. u[k] = names[p[k]] /\ names[p[k]] = c[q[p[k]]]
      BY <1>1, <1>5, <2>1
    <2> QED
      BY <2>2
  <1>9. \A j, k \in 1 .. Len(u) : j < k => pos[j] < pos[k]
    BY <1>1, <1>3, <1>4, <1>5
  <1> HIDE DEF pos
  <1>10. \A i, j \in 1 .. Len(c) : c[i] = c[j] => i = j
    BY <1>6 DEF Once
  <1>11. u = Sublist(c, Range(u))
    BY <1>3, <1>7, <1>8, <1>9, <1>10, SublistUnique
  <1>12. Once(u)
    <2> SUFFICES ASSUME NEW i \in 1 .. Len(u), NEW j \in 1 .. Len(u), u[i] = u[j]
                 PROVE  i = j
      BY <1>6 DEF Once
    <2>0. pos[i] \in 1 .. Len(c) /\ pos[j] \in 1 .. Len(c)
      BY <1>7
    <2>1. pos[i] = pos[j]
      BY <1>8, <1>10, <2>0
    <2>2. ~(pos[i] < pos[j]) /\ ~(pos[j] < pos[i])
      BY <1>6, <2>0, <2>1
    <2> QED
      BY <1>6, <1>9, <2>2
  <1> QED
    BY <1>11, <1>12 DEF u

\* A sequence is its own Sublist.
LEMMA SublistWhole ==
  ASSUME NEW S, NEW c \in Seq(S), Once(c)
  PROVE  c = Sublist(c, Range(c))
  <1> DEFINE pos == [k \in 1 .. Len(c) |-> k]
  <1>1. Len(c) \in Nat /\ DOMAIN c = 1 .. Len(c)
    BY LenProperties
  <1>2. /\ pos \in [1 .. Len(c) -> 1 .. Len(c)]
        /\ \A k \in 1 .. Len(c) : c[k] = c[pos[k]]
        /\ \A j, k \in 1 .. Len(c) : j < k => pos[j] < pos[k]
    OBVIOUS
  <1>3. \A i, j \in 1 .. Len(c) : c[i] = c[j] => i = j
    BY <1>1 DEF Once
  <1> HIDE DEF pos
  <1> QED
    BY <1>2, <1>3, SublistUnique
-----------------------------------------------------------------------------
(* The fields of a report.                                                 *)

\* The fields of a report before and after it is saved.
Unsaved == <<"results">>
Saved == <<"results", "processed", "conclusions", "recommendations", "p1", "p2", "p3">>

\* The fields of a result.
LEMMA ResultRange ==
  Range(Result) = {"processed", "conclusions", "recommendations", "p1", "p2", "p3"}
  BY DEF Range, Result

\* Before or after, every field is there once.
LEMMA FieldsProperties ==
  /\ Saved = Unsaved \o Result
  /\ Unsaved \in Seq(Field) /\ Saved \in Seq(Field)
  /\ Once(Unsaved) /\ Once(Saved)
  /\ Range(Unsaved) = {"results"}
  /\ Range(Saved) = Field
  <1>1. Range(Result) = {"processed", "conclusions", "recommendations", "p1", "p2", "p3"}
    BY DEF Range, Result
  <1>2. Saved = Unsaved \o Result
    BY DEF Saved, Unsaved, Result
  <1>3. Unsaved \in Seq(Field) /\ Saved \in Seq(Field)
    BY <1>1 DEF Field, Unsaved, Saved
  <1>4. Once(Unsaved) /\ Once(Saved)
    BY DEF Once, Unsaved, Saved
  <1>5. Range(Unsaved) = {"results"}
    BY DEF Range, Unsaved
  <1>6. Range(Saved) = Field
    BY <1>1 DEF Range, Saved, Field
  <1> QED
    BY <1>2, <1>3, <1>4, <1>5, <1>6

\* The keys t are the keys s, and key after them.
Follows(t, s, key) ==
  /\ Len(t) = Len(s) + 1
  /\ \A i \in 1 .. Len(s) : t[i] = s[i]
  /\ t[Len(t)] = key

\* Set for a new key: keys that are those of the map and the key at the end are
\* what Append makes.
LEMMA SetNew ==
  ASSUME NEW S, NEW s \in Seq(S), NEW key \in S, NEW t \in Seq(S),
         Follows(t, s, key), NEW vs, key \notin vs
  PROVE  Set([keys |-> s, values |-> vs], key) = [keys |-> t, values |-> vs \cup {key}]
  <1>1. Len(s) \in Nat
    BY LenProperties
  <1> DEFINE a == Append(s, key)
  <1>2. /\ a \in Seq(S) /\ Len(a) = Len(s) + 1
        /\ \A i \in 1 .. Len(s) : a[i] = s[i]
        /\ a[Len(s) + 1] = key
    BY AppendProperties
  <1>3. Set([keys |-> s, values |-> vs], key) = [keys |-> a, values |-> vs \cup {key}]
    BY DEF Set
  <1> HIDE DEF a
  <1>4. Len(t) = Len(a) /\ \A i \in 1 .. Len(a) : a[i] = t[i]
    BY <1>1, <1>2 DEF Follows
  <1>5. a = t
    BY <1>2, <1>4, SeqEqual
  <1> QED
    BY <1>3, <1>5

\* Saving adds the six fields of a result, unless they are there.
LEMMA SetAllFields ==
  SetAll(Unsaved).keys = Saved /\ SetAll(Saved).keys = Saved
  <1>1. SetAll(Unsaved).keys = Saved
    <2> DEFINE F == {"results", "processed", "conclusions", "recommendations", "p1", "p2", "p3"}
               v0 == {"results"}
               v1 == v0 \cup {"processed"}
               v2 == v1 \cup {"conclusions"}
               v3 == v2 \cup {"recommendations"}
               v4 == v3 \cup {"p1"}
               v5 == v4 \cup {"p2"}
               v6 == v5 \cup {"p3"}
               k0 == <<"results">>
               k1 == <<"results", "processed">>
               k2 == <<"results", "processed", "conclusions">>
               k3 == <<"results", "processed", "conclusions", "recommendations">>
               k4 == <<"results", "processed", "conclusions", "recommendations", "p1">>
               k5 == <<"results", "processed", "conclusions", "recommendations", "p1", "p2">>
               k6 == <<"results", "processed", "conclusions", "recommendations", "p1", "p2", "p3">>
    <2>1. /\ k0 \in Seq(F) /\ k1 \in Seq(F) /\ k2 \in Seq(F) /\ k3 \in Seq(F)
          /\ k4 \in Seq(F) /\ k5 \in Seq(F) /\ k6 \in Seq(F)
      OBVIOUS
    <2>2. Set([keys |-> k0, values |-> v0], "processed") = [keys |-> k1, values |-> v1]
      <3>1. Follows(k1, k0, "processed")
        BY DEF Follows
      <3>2. "processed" \notin v0 /\ "processed" \in F
        OBVIOUS
      <3> HIDE DEF k0, k1, v0, F
      <3>3. k0 \in Seq(F) /\ k1 \in Seq(F)
        BY <2>1
      <3> QED
        BY <3>1, <3>2, <3>3, SetNew
    <2>3. Set([keys |-> k1, values |-> v1], "conclusions") = [keys |-> k2, values |-> v2]
      <3>1. Follows(k2, k1, "conclusions")
        BY DEF Follows
      <3>2. "conclusions" \notin v1 /\ "conclusions" \in F
        OBVIOUS
      <3> HIDE DEF k1, k2, v1, F
      <3>3. k1 \in Seq(F) /\ k2 \in Seq(F)
        BY <2>1
      <3> QED
        BY <3>1, <3>2, <3>3, SetNew
    <2>4. Set([keys |-> k2, values |-> v2], "recommendations") = [keys |-> k3, values |-> v3]
      <3>1. Follows(k3, k2, "recommendations")
        BY DEF Follows
      <3>2. "recommendations" \notin v2 /\ "recommendations" \in F
        OBVIOUS
      <3> HIDE DEF k2, k3, v2, F
      <3>3. k2 \in Seq(F) /\ k3 \in Seq(F)
        BY <2>1
      <3> QED
        BY <3>1, <3>2, <3>3, SetNew
    <2>5. Set([keys |-> k3, values |-> v3], "p1") = [keys |-> k4, values |-> v4]
      <3>1. Follows(k4, k3, "p1")
        BY DEF Follows
      <3>2. "p1" \notin v3 /\ "p1" \in F
        OBVIOUS
      <3> HIDE DEF k3, k4, v3, F
      <3>3. k3 \in Seq(F) /\ k4 \in Seq(F)
        BY <2>1
      <3> QED
        BY <3>1, <3>2, <3>3, SetNew
    <2>6. Set([keys |-> k4, values |-> v4], "p2") = [keys |-> k5, values |-> v5]
      <3>1. Follows(k5, k4, "p2")
        BY DEF Follows
      <3>2. "p2" \notin v4 /\ "p2" \in F
        OBVIOUS
      <3> HIDE DEF k4, k5, v4, F
      <3>3. k4 \in Seq(F) /\ k5 \in Seq(F)
        BY <2>1
      <3> QED
        BY <3>1, <3>2, <3>3, SetNew
    <2>7. Set([keys |-> k5, values |-> v5], "p3") = [keys |-> k6, values |-> v6]
      <3>1. Follows(k6, k5, "p3")
        BY DEF Follows
      <3>2. "p3" \notin v5 /\ "p3" \in F
        OBVIOUS
      <3> HIDE DEF k5, k6, v5, F
      <3>3. k5 \in Seq(F) /\ k6 \in Seq(F)
        BY <2>1
      <3> QED
        BY <3>1, <3>2, <3>3, SetNew
    <2>8. [keys |-> Unsaved, values |-> Range(Unsaved)] = [keys |-> k0, values |-> v0]
      BY FieldsProperties DEF Unsaved
    <2> HIDE DEF k0, k1, k2, k3, k4, k5, k6, v0, v1, v2, v3, v4, v5, v6
    <2>9. SetAll(Unsaved) = [keys |-> k6, values |-> v6]
      BY <2>2, <2>3, <2>4, <2>5, <2>6, <2>7, <2>8, Zenon DEF SetAll
    <2> QED
      BY <2>9 DEF Saved, k6
  <1>2. SetAll(Saved).keys = Saved
    <2> DEFINE m == [keys |-> Saved, values |-> Range(Saved)]
    <2>1. {"processed", "conclusions", "recommendations", "p1", "p2", "p3"} \subseteq m.values
      BY FieldsProperties, ResultRange DEF Field
    <2>2. \A key \in m.values : Set(m, key) = m
      BY DEF Set
    <2> HIDE DEF m
    <2>3. SetAll(Saved) = m
      BY <2>1, <2>2 DEF SetAll, m
    <2> QED
      BY <2>3 DEF m
  <1> QED
    BY <1>1, <1>2

-----------------------------------------------------------------------------
(* The steps.                                                              *)

\* MapInv holds initially.
LEMMA MapInvInit == MapInit => MapInv
  <1> SUFFICES ASSUME MapInit PROVE MapInv
    OBVIOUS
  <1>1. /\ <<>> \in Seq(Key) /\ <<>> \in Seq(ItemText) /\ Range(<<>>) = {}
        /\ Names(<<>>) = <<>> /\ Once(<<>>)
    BY DEF Range, Names, Once
  <1>2. /\ file = [fields |-> Unsaved, items |-> <<>>] /\ collected = <<>> /\ saves = 0
        /\ said = TRUE /\ data = [_keys |-> <<>>, items |-> {}]
    BY DEF MapInit, Unsaved, NotLoaded
  <1>3. MapTypeOK
    BY <1>1, <1>2, FieldsProperties, BoundAssumption DEF MapTypeOK
  <1>4. Spelt
    BY <1>1, <1>2 DEF Spelt
  <1>5. Names(file.items) = Sublist(collected, Range(Names(file.items)))
    <2>1. <<>> = Sublist(<<>>, Range(<<>>))
      BY <1>1, SublistWhole
    <2> QED
      BY <1>1, <1>2, <2>1
  <1>6. NothingLost
    BY <1>1, <1>2, <1>5 DEF NothingLost, Unsaved
  <1> QED
    BY <1>1, <1>2, <1>3, <1>4, <1>6 DEF MapInv

\* What jq writes of a sequence of names is spelled as jq spells.
LEMMA JqWritten ==
  ASSUME NEW keys \in Seq(Key), NEW n
  PROVE  /\ Written(keys, JqSpelling) \in Seq(ItemText)
         /\ Names(Written(keys, JqSpelling)) = keys
         /\ \A t \in Range(Written(keys, JqSpelling)) : SpeltOK(t, n)
  BY WrittenProperties, SpellingTypes DEF SpeltOK

\* A collection of the host preserves it: all its items are there, as jq spells them.
LEMMA CollectHostInv == MapInv /\ CollectHost => MapInv'
  <1> SUFFICES ASSUME MapInv, CollectHost PROVE MapInv'
    OBVIOUS
  <1>1. PICK n \in 0 .. MaxItems : \E items \in [1 .. n -> Key] :
          /\ Once(items)
          /\ file' = [file EXCEPT !.items = Written(items, JqSpelling)]
          /\ collected' = items
          /\ data' = NotLoaded /\ saves' = 0 /\ UNCHANGED said
    BY DEF CollectHost
  <1>2. PICK items \in [1 .. n -> Key] :
          /\ Once(items)
          /\ file' = [file EXCEPT !.items = Written(items, JqSpelling)]
          /\ collected' = items
          /\ data' = NotLoaded /\ saves' = 0 /\ UNCHANGED said
    BY <1>1
  <1>3. items \in Seq(Key)
    BY BoundAssumption, SeqDef
  <1> DEFINE text == Written(items, JqSpelling)
  <1>4. /\ text \in Seq(ItemText) /\ Names(text) = items
        /\ \A t \in Range(text) : SpeltOK(t, 0)
    BY <1>3, JqWritten
  <1>5. items = Sublist(items, Range(items))
    BY <1>2, <1>3, SublistWhole
  <1>6. /\ file'.items = text /\ file'.fields = file.fields
        /\ file' \in [fields : Seq(Field), items : Seq(ItemText)]
    BY <1>2, <1>4 DEF MapInv, MapTypeOK
  <1>7. /\ data' \in [_keys : Seq(Key), items : SUBSET Key] /\ Range(data'._keys) = data'.items
    <2>1. <<>> \in Seq(Key) /\ Range(<<>>) = {}
      BY DEF Range
    <2> QED
      BY <1>2, <2>1 DEF NotLoaded
  <1> HIDE DEF text
  <1>8. MapTypeOK'
    BY <1>2, <1>3, <1>4, <1>6, <1>7, BoundAssumption DEF MapInv, MapTypeOK
  <1>9. Spelt'
    BY <1>2, <1>4, <1>6 DEF Spelt
  <1>10. NothingLost'
    BY <1>2, <1>4, <1>5, <1>6 DEF MapInv, NothingLost
  <1> QED
    BY <1>2, <1>8, <1>9, <1>10 DEF MapInv

\* So does one of another host, which spells the items anew and leaves their names alone.
LEMMA CollectOtherInv == MapInv /\ CollectOther => MapInv'
  <1> SUFFICES ASSUME MapInv, CollectOther PROVE MapInv'
    OBVIOUS
  <1> DEFINE names == Names(file.items)  text == Written(names, JqSpelling)
  <1>1. file.items \in Seq(ItemText) /\ names \in Seq(Key) /\ Once(names)
    BY NamesProperties DEF MapInv, MapTypeOK
  <1> HIDE DEF names
  <1>2. /\ text \in Seq(ItemText) /\ Names(text) = names
        /\ \A t \in Range(text) : SpeltOK(t, saves)
    BY <1>1, JqWritten
  <1>3. /\ file'.items = text /\ file'.fields = file.fields
        /\ file' \in [fields : Seq(Field), items : Seq(ItemText)]
        /\ data' = NotLoaded
        /\ UNCHANGED <<collected, saves, said>>
    BY <1>2 DEF MapInv, MapTypeOK, CollectOther, names
  <1>4. /\ data' \in [_keys : Seq(Key), items : SUBSET Key] /\ Range(data'._keys) = data'.items
    <2>1. <<>> \in Seq(Key) /\ Range(<<>>) = {}
      BY DEF Range
    <2> QED
      BY <1>3, <2>1 DEF NotLoaded
  <1>5. Names(file'.items) = Names(file.items)
    BY <1>2, <1>3 DEF names
  <1> HIDE DEF text
  <1>6. MapTypeOK'
    BY <1>1, <1>2, <1>3, <1>4 DEF MapInv, MapTypeOK
  <1>7. Spelt'
    BY <1>2, <1>3 DEF Spelt
  <1>8. NothingLost'
    BY <1>3, <1>5 DEF MapInv, NothingLost
  <1> QED
    BY <1>3, <1>6, <1>7, <1>8 DEF MapInv

\* So does loading, which changes the data of the templates only: each key has a value.
LEMMA LoadInv == MapInv /\ LoadJsonFile => MapInv'
  <1> SUFFICES ASSUME MapInv, LoadJsonFile PROVE MapInv'
    OBVIOUS
  <1> DEFINE keys == KeysOf(file.items)
  <1>1. file.items \in Seq(ItemText)
    BY DEF MapInv, MapTypeOK
  <1>2. /\ data' = [_keys |-> keys, items |-> Range(keys) \cap mapStringToOrderedMap(file.items).values]
        /\ UNCHANGED <<file, collected, saves, said>>
    BY DEF LoadJsonFile, ToInterfaceArray, KeysOf
  <1>3. /\ keys \in Seq(Key)
        /\ Range(keys) \subseteq mapStringToOrderedMap(file.items).values
    BY <1>1, KeysFound
  <1>4. Range(keys) \subseteq Key
    BY <1>3, RangeEquality, ElementOfSeq
  <1> HIDE DEF keys
  <1>5. data' \in [_keys : Seq(Key), items : SUBSET Key] /\ Range(data'._keys) = data'.items
    BY <1>2, <1>3, <1>4
  <1>6. MapTypeOK'
    BY <1>2, <1>5 DEF MapInv, MapTypeOK
  <1>7. Spelt' /\ NothingLost' /\ Once(collected)'
    BY <1>2 DEF MapInv, Spelt, NothingLost
  <1> QED
    BY <1>6, <1>7 DEF MapInv

-----------------------------------------------------------------------------
(* A save.                                                                 *)

\* An item that is not found has a backslash in its name, or has been saved.
LEMMA NotFound ==
  ASSUME NEW t \in ItemText, NEW n, SpeltOK(t, n), t \notin Found
  PROVE  ClassOf[t.name] = "backslash" \/ (ClassOf[t.name] = "angle" /\ n >= 1)
  <1>1. t.name \in Key /\ ClassOf[t.name] \in Class
    BY ClassAssumption DEF ItemText
  <1>2. t.spelling # Sought(t.name)
    BY DEF Found
  <1>3. CASE t.spelling = JqSpelling[t.name]
    BY <1>1, <1>2, <1>3 DEF JqSpelling, Sought, Class
  <1>4. CASE ClassOf[t.name] = "angle" /\ n >= 1
    BY <1>4
  <1> QED
    BY <1>3, <1>4 DEF SpeltOK

\* With a newline in a name the report fails to marshal.
LEMMA NewlineStays ==
  ASSUME MapInv, NEW k \in Range(collected), ClassOf[k] = "newline"
  PROVE  ~Marshals(mapStringToOrderedMap(file.items))
  <1>1. file.items \in Seq(ItemText)
    BY DEF MapInv, MapTypeOK
  <1>2. Names(file.items) = collected
    BY DEF MapInv, NothingLost
  <1>3. PICK t \in Range(file.items) : t.name = k
    BY <1>1, <1>2, NamesProperties
  <1>4. t \in ItemText
    BY <1>1, RangeEquality, ElementOfSeq
  <1>5. SpeltOK(t, saves)
    BY DEF MapInv, Spelt
  <1>6. t \in Found
    BY <1>3, <1>4, <1>5, NotFound
  <1>7. k \in Range(KeysOf(file.items))
    BY <1>1, <1>3, <1>6, KeysFound
  <1> QED
    BY <1>7 DEF Marshals, KeysOf

\* A save that fails to marshal changes no file.
LEMMA SaveFails ==
  ASSUME MapInv, SaveJsonReportResults, ~Marshals(mapStringToOrderedMap(file.items))
  PROVE  MapInv'
  <1>1. /\ saves < MaxSaves /\ saves' = saves + 1 /\ said' = FALSE
        /\ UNCHANGED <<file, data, collected>>
    BY DEF SaveJsonReportResults, Marshals
  <1>2. saves \in 0 .. MaxSaves /\ saves' \in 0 .. MaxSaves /\ MaxSaves \in Nat
    BY <1>1, BoundAssumption DEF MapInv, MapTypeOK
  <1>3. MapTypeOK'
    BY <1>1, <1>2 DEF MapInv, MapTypeOK
  <1>4. Spelt'
    BY <1>1, <1>2 DEF MapInv, Spelt, SpeltOK
  <1>5. NothingLost'
    BY <1>1, <1>2 DEF MapInv, NothingLost
  <1> QED
    BY <1>1, <1>3, <1>4, <1>5 DEF MapInv

\* A save keeps what it finds, in its order, in the spelling of encoding/json.
LEMMA SaveWrites ==
  ASSUME MapInv, SaveJsonReportResults, Marshals(mapStringToOrderedMap(file.items))
  PROVE  MapInv'
  <1> DEFINE keys == KeysOf(file.items)  text == Written(keys, MarshalSpelling)
  <1>1. /\ saves < MaxSaves /\ saves' = saves + 1 /\ said' = TRUE
        /\ file' = [fields |-> SetAll(file.fields).keys, items |-> text]
        /\ UNCHANGED <<data, collected>>
    BY DEF SaveJsonReportResults, KeysOf, MarshalJSON, Marshals
  <1>2. saves \in 0 .. MaxSaves /\ saves' \in 0 .. MaxSaves /\ MaxSaves \in Nat
    BY <1>1, BoundAssumption DEF MapInv, MapTypeOK
  <1>3. /\ file.items \in Seq(ItemText) /\ collected \in Seq(Key) /\ Once(collected)
        /\ Names(file.items) = Sublist(collected, Range(Names(file.items)))
    BY DEF MapInv, MapTypeOK, NothingLost
  <1>4. /\ keys \in Seq(Key) /\ Once(keys) /\ keys = Sublist(collected, Range(keys))
        /\ Range(keys) = {t.name : t \in Range(file.items) \cap Found}
    BY <1>3, KeysFound, KeysInOrder
  <1>5. \A k \in Range(keys) : ClassOf[k] # "newline"
    BY DEF Marshals, KeysOf
  <1>6. \A k \in Range(collected) : ClassOf[k] # "newline"
    BY NewlineStays
  <1> HIDE DEF keys
  <1>7. /\ text \in Seq(ItemText) /\ Names(text) = keys
        /\ \A t \in Range(text) : t.name \in Range(keys) /\ t.spelling = MarshalSpelling[t.name]
    BY <1>4, WrittenProperties, SpellingTypes
  <1>8. /\ SetAll(file.fields).keys = Saved
        /\ Saved = Unsaved \o Result /\ Saved \in Seq(Field) /\ Once(Saved)
    <2>1. file.fields = Unsaved \/ file.fields = Saved
      BY FieldsProperties DEF MapInv, NothingLost, Unsaved
    <2> QED
      BY <2>1, FieldsProperties, SetAllFields
  <1> HIDE DEF text
  <1>9. MapTypeOK'
    <2>1. /\ file' \in [fields : Seq(Field), items : Seq(ItemText)]
          /\ Once(file'.fields) /\ Once(Names(file'.items))
      BY <1>1, <1>4, <1>7, <1>8
    <2> QED
      BY <1>1, <1>2, <2>1 DEF MapInv, MapTypeOK
  <1>10. Spelt'
    <2> SUFFICES ASSUME NEW t \in Range(text) PROVE SpeltOK(t, saves')
      BY <1>1 DEF Spelt
    <2>1. t.name \in Range(keys) /\ t.spelling = MarshalSpelling[t.name]
      BY <1>7
    <2>2. PICK x \in Range(file.items) \cap Found : x.name = t.name
      BY <1>4, <2>1
    <2>3. x \in ItemText /\ SpeltOK(x, saves)
      BY <1>3, RangeEquality, ElementOfSeq DEF MapInv, Spelt
    <2>4. t.name \in Key /\ ClassOf[t.name] \in Class /\ ClassOf[t.name] # "newline"
      BY <1>5, <2>1, <2>2, <2>3, ClassAssumption DEF ItemText
    <2>5. ClassOf[t.name] # "backslash"
      BY <2>2, <2>3, <2>4 DEF Found, Sought, SpeltOK, JqSpelling
    <2>6. saves' >= 1
      BY <1>1, <1>2
    <2> QED
      BY <2>1, <2>4, <2>5, <2>6 DEF SpeltOK, MarshalSpelling, JqSpelling, Class
  <1>11. NothingLost'
    <2>1. ASSUME NEW k \in Range(collected), k \notin Range(keys)
          PROVE  \/ ClassOf[k] = "backslash" /\ saves' >= 1
                 \/ ClassOf[k] = "angle" /\ saves' >= 2
      <3>1. CASE k \notin Range(Names(file.items))
        <4>1. \/ ClassOf[k] = "backslash" /\ saves >= 1
              \/ ClassOf[k] = "angle" /\ saves >= 2
          BY <2>1, <3>1 DEF MapInv, NothingLost
        <4> QED
          BY <1>1, <1>2, <4>1
      <3>2. CASE k \in Range(Names(file.items))
        <4>1. PICK t \in Range(file.items) : t.name = k
          BY <1>3, <3>2, NamesProperties
        <4>2. t \in ItemText /\ SpeltOK(t, saves) /\ t \notin Found
          BY <1>3, <1>4, <2>1, <4>1, RangeEquality, ElementOfSeq DEF MapInv, Spelt
        <4>3. ClassOf[k] = "backslash" \/ (ClassOf[k] = "angle" /\ saves >= 1)
          BY <4>1, <4>2, NotFound
        <4> QED
          BY <1>1, <1>2, <4>3
      <3> QED
        BY <3>1, <3>2
    <2>2. Names(file'.items) = keys /\ collected' = collected /\ file'.fields = Saved
      BY <1>1, <1>7, <1>8
    <2> QED
      BY <1>4, <1>6, <1>8, <2>1, <2>2 DEF NothingLost, Unsaved
  <1> QED
    BY <1>1, <1>3, <1>9, <1>10, <1>11 DEF MapInv

\* Every step preserves MapInv.
LEMMA MapInvInductive == MapInv /\ [MapNext]_mapVars => MapInv'
  <1> SUFFICES ASSUME MapInv, [MapNext]_mapVars PROVE MapInv'
    OBVIOUS
  <1>1. CASE CollectHost
    BY <1>1, CollectHostInv
  <1>2. CASE CollectOther
    BY <1>2, CollectOtherInv
  <1>3. CASE LoadJsonFile
    BY <1>3, LoadInv
  <1>4. CASE SaveJsonReportResults
    BY <1>4, SaveFails, SaveWrites
  <1>5. CASE UNCHANGED mapVars
    BY <1>5 DEF mapVars, MapInv, MapTypeOK, Spelt, NothingLost
  <1> QED
    BY <1>1, <1>2, <1>3, <1>4, <1>5 DEF MapNext

\* MapInv holds in every behaviour.
THEOREM MapInvCorrect == MapSpec => []MapInv
  BY MapInvInit, MapInvInductive, PTL DEF MapSpec

\* MapTypeOK: every step of collecting, loading and saving a report keeps every
\* variable in its type, and no field or item is ever there twice (Set,
\* mapStringToOrderedMap).
THEOREM MapTypeCorrect == MapSpec => []MapTypeOK
  <1>1. MapInv => MapTypeOK
    BY DEF MapInv
  <1> QED
    BY <1>1, MapInvCorrect, PTL

\* NothingLost: what a report says of an item stays in it, in the order of the collection,
\* however often it is saved, but for the names the writers spell otherwise.
THEOREM NothingLostCorrect == MapSpec => []NothingLost
  <1>1. MapInv => NothingLost
    BY DEF MapInv
  <1> QED
    BY <1>1, MapInvCorrect, PTL
==============================================================================
