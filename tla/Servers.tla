------------------------------- MODULE Servers -------------------------------
(***************************************************************************)
(* The checks that look at what servers do and how they are set up:        *)
(* long transactions (G002), expensive queries (K000) and settings that    *)
(* differ between the servers (A006), in                                   *)
(* src/pghrep/internal/checkup/{g002,k000,a006}.                           *)
(***************************************************************************)
EXTENDS ReportResult

G002Connection == [CurrentState : STRING, TxMore1h : Nat]
K00Query == [RatioTotalTime : Nat]
K000HostData(data) == IsMap(data.Queries, K00Query)

MAX_QUERY_TOTAL_TIME == 30

-----------------------------------------------------------------------------
\* A host for every one of its rows that counts; `rows` are those, by host.
HostPerRow(rows, order) ==
  FlattenSeq([i \in DOMAIN order |-> [j \in 1 .. Cardinality(rows[order[i]]) |-> order[i]]])

\* The query also gives rows that sum over the databases of a user: they have the
\* same states and count again.
G002Process(results, order) ==
  LET Old(row) == row.CurrentState \in {"idle in transaction", "active"} /\ row.TxMore1h > 0
      old == [h \in DOMAIN results |-> {id \in DOMAIN results[h] : Old(results[h][id])}]
      hosts == HostPerRow(old, order)
      said == AppendConclusion(Raise(NoResult, "P1"), "G002_TX_AGE_MORE_1H", <<hosts>>)
  IN IF hosts = <<>> THEN NoResult ELSE AppendRecommendation(said, "G002_TX_AGE_MORE_1H", Text)

K000Process(results, order) ==
  LET Slow(query) == query.RatioTotalTime > MAX_QUERY_TOTAL_TIME
      slow == [h \in DOMAIN results |-> {id \in DOMAIN results[h].Queries : Slow(results[h].Queries[id])}]
      hosts == HostPerRow(slow, order)
      said == AppendConclusion(Raise(NoResult, "P1"), "K000_EXCESS_QUERY_TOTAL_TIME", <<GetUniques(hosts)>>)
  IN IF hosts = <<>> THEN NoResult
     ELSE AppendRecommendation(said, "K000_EXCESS_QUERY_TOTAL_TIME", Text)

-----------------------------------------------------------------------------
(* A006.  The hosts are those of DetermineMasterReplica: hosts.master, ""  *)
(* if there is none, and hosts.replicas, a list.  The data are the JSON of *)
(* the report; ToString and ToInterfaceMap make "" and an empty map of     *)
(* what is not there.  A build option (pg_config) has no unit.             *)
Cell == [value : STRING, unit : STRING]
Blank == [value |-> "", unit |-> ""]
NoCell == [value |-> "null", unit |-> "null"]
Section == {"pg_settings", "pg_config"}

ToInterfaceMap(map, key, default) == IF key \in DOMAIN map THEN map[key] ELSE default

NoSection == [name \in {} |-> Blank]

\* The settings of one host; none if it has no result.
SectionOf(results, host, section) ==
  ToInterfaceMap(ToInterfaceMap(results, host, [s \in Section |-> NoSection]), section, NoSection)

\* getReplicaSettingValue and getReplicaConfigValue.
getReplicaValue(results, replica, section, name) ==
  IF replica \notin DOMAIN results THEN NoCell
  ELSE ToInterfaceMap(SectionOf(results, replica, section), name, Blank)

HasData(cell) == cell.value # "null" /\ cell.unit # "null"

\* Seeded fault: a replica without a result has no cell of its own.
RowSkipped(results, hosts, section, name) ==
  LET cell(r) == getReplicaValue(results, r, section, name)
      present == SelectSeq(hosts.replicas, LAMBDA r : HasData(cell(r)))
  IN <<SectionOf(results, hosts.master, section)[name]>> \o [i \in DOMAIN present |-> cell(present[i])]

\* The cells of one setting: the master's, then one per replica.
Row(results, hosts, section, name) ==
  LET cell(r) == getReplicaValue(results, r, section, name)
  IN <<SectionOf(results, hosts.master, section)[name]>> \o
       [i \in DOMAIN hosts.replicas |->
          IF HasData(cell(hosts.replicas[i])) THEN cell(hosts.replicas[i]) ELSE Blank]

\* Of the settings of the master, those that a replica with data has otherwise.
Differs(results, hosts, section, name) ==
  \E i \in DOMAIN hosts.replicas :
    LET cell == getReplicaValue(results, hosts.replicas[i], section, name)
    IN HasData(cell) /\ cell # SectionOf(results, hosts.master, section)[name]

compareHostsData(results, hosts) ==
  [section \in Section |->
     [name \in {n \in DOMAIN SectionOf(results, hosts.master, section) :
                  Differs(results, hosts, section, n)} |->
        Row(results, hosts, section, name)]]
=============================================================================
