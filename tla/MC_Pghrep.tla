------------------------------ MODULE MC_Pghrep ------------------------------
(***************************************************************************)
(* Model checking of pghrep: the hosts of a report (HostOrder), what the   *)
(* checks conclude (Conclusions) and how the report is written             *)
(* (OrderedMap).  The three share no state: a behaviour is one of one of   *)
(* them, and `part` says of which.                                         *)
(***************************************************************************)
EXTENDS HostOrder, ConclusionsSafety, OrderedMap

VARIABLE part

pghrepVars == <<vars, conclusionVars, mapVars, part>>

Symmetry == Permutations(Host)

MCClassOf == [k \in Key |-> CASE k = "t" -> "plain" [] k = "u" -> "plain" [] k = "a<b" -> "angle"
                              [] k = "a_tab" -> "backslash" [] k = "a_line" -> "newline"]

-----------------------------------------------------------------------------
(* Reports.  Servers are "a", "b" and "c".                                 *)
Reports(check, rs, with) ==
  {[check |-> check, results |-> r, readable |-> TRUE, with |-> w,
    roles |-> [h \in {"a", "b"} |-> IF h = "a" THEN "master" ELSE "standby"]] : r \in rs, w \in with}

None == {[none |-> {}]}
Two(Data) == HostMap({"a", "b"}, Data)

\* Roles of two servers that have been checked, with or without a master.
SomeRoles == HostMap({"a", "b"}, {"master", "standby"})
WithRoles(reports) == {[r EXCEPT !.roles = roles] : r \in reports, roles \in SomeRoles}
WithUnreadable(reports) == reports \cup {[(CHOOSE r \in reports : TRUE) EXCEPT !.readable = FALSE]}

\* 9.6.24, 13.2, 13.8, 14.2, 14.5, 12.12, 8.4 and 15.1, which the table does not have.
Nums(S) == {[ServerVersionNum |-> n] : n \in S}
Release2(major, minor) == [kind |-> "release", major |-> major, minor |-> minor]
Pages == {NoPage, Page({}),
          Page({Release2(v, 2) : v \in DOMAIN versionsDefault} \cup {Release2(1300, 9), Release2(1500, 1)}
               \cup {[kind |-> "devel", major |-> 1400, minor |-> 0]}),
          Page({Release2(1400, 7), [kind |-> "odd", major |-> 1300, minor |-> 0]}),
          [loaded |-> FALSE, tags |-> {Release2(1400, 1)}]}
Days == [today : {20200101, 20211111, 20211231, 20251201}, page : Pages]
A002Reports ==
  Reports("A002", Two(Nums({90624, 130002, 130008, 140002, 140005, 120012, 80422, 150001})), Days)
  \cup Reports("A002", HostMap({"a", "b", "c"}, Nums({130002, 140002, 120012})), {[today |-> 20211231, page |-> NoPage]})

Hosts3 == {[hosts |-> [master |-> m, replicas |-> r]] : m \in {"a", ""}, r \in {<<>>, <<"b">>, <<"b", "c">>}}
Cells(v, u) == [value |-> v, unit |-> u]
A006Data == {[pg_settings |-> ("work_mem" :> Cells("4096", "kB")) @@ ("jit" :> Cells("on", "")),
              pg_config |-> ("VERSION" :> Cells("13.8", ""))],
             [pg_settings |-> ("work_mem" :> Cells("4", "MB")) @@ ("jit" :> Cells("on", "")),
              pg_config |-> ("VERSION" :> Cells("13.2", ""))],
             [pg_settings |-> ("work_mem" :> Cells("4096", "kB")), pg_config |-> ("VERSION" :> Cells("13.8", ""))]}
A006Reports == Reports("A006", HostMap({"a", "b", "c"}, A006Data), Hosts3)

Line(fs, percent, point) == [Fstype |-> fs, UsePercent |-> percent, MountPoint |-> point]
Ext4 == Fs("ext4", 4, FALSE)
Nfs == Fs("nfs4", 4, TRUE)
A008Data ==
  LET Mounted(fs, d, p, q) == [db_data |-> ("PGDATA" :> Line(fs, d, "/data")),
                               fs_data |-> ("0" :> Line(Ext4, p, "/")) @@ ("1" :> Line(fs, q, "/data"))]
  IN {Mounted(fs, q, p, q) : fs \in {Ext4, Nfs, Fs("zfs", 3, FALSE), Fs("9p", 2, FALSE)},
                             p \in {NoPercent, 69, 90}, q \in {70, 89, 45}}
     \cup {Mounted(Ext4, 90, 45, 89)}
A008Reports == Reports("A008", Two(A008Data), None)

Value3(name) == [index_name |-> name, drop_code |-> "", revert_code |-> ""]
H001Reports ==
  Reports("H001", Two({("invalid_indexes" :> Value3("")) @@ ("invalid_indexes_total" :> Value3(""))}), Hosts3)

Size(sum, do) == [IndexSizeBytesSum |-> sum, DatabaseSizeBytes |-> 100, Do |-> do, UnDo |-> do]
Sizes == {Size(5, <<"d">>), Size(6, <<"d">>), Size(6, <<>>)}
H002Reports == WithRoles(Reports("H002", Two({[NeverUsedIndexes |-> 1] @@ s : s \in Sizes}), None))
H004Reports == WithRoles(Reports("H004", Two({[RedundantIndexes |-> 1] @@ s : s \in Sizes}), None))

F001Data == {F001Default, [F001Default EXCEPT !.vacuum_threshold = 500, !.analyze_threshold = 500, !.vacuum_cost_delay = 2],
             [F001Default EXCEPT !.vacuum_scale_factor = 10, !.analyze_scale_factor = 10],
             [F001Default EXCEPT !.vacuum_cost_limit = NoNumber]}
F001Reports == WithRoles(Reports("F001", Two(F001Data), None))

Used100(S) == {("x" :> [CapacityUsed |-> u]) @@ ("y" :> [CapacityUsed |-> 3]) : u \in S}
F002Reports == Reports("F002", Two([Databases : Used100({50, 51}), Tables : Used100({12, 50, 93})]), None)

\* n rows, one of which is small, and one of which has another ratio or factor.
Bloat(rows, avg) == [bloat |-> rows, total |-> [BloatSizeBytesSum |-> 5, BloatRatioPercentAvg |-> avg,
                                                BloatRatioFactorAvg |-> 2], databaseSize |-> 1000]
Name(i) == <<"t1", "t2", "t3", "t4", "t5", "t6", "t7", "t8">>[i]
HeapRow(i, percent, factor) ==
  [Num |-> i, TableName |-> Name(i), RealSizeBytes |-> 1048576 + (IF i = 1 THEN 0 ELSE 9),
   BloatRatioPercent |-> percent, BloatRatioFactor |-> factor]
IndexRow(i, percent, factor) ==
  [Num |-> i, IndexName |-> Name(9 - i), TableName |-> Name(i), RealSizeBytes |-> 1048576 + (IF i = 1 THEN 0 ELSE 9),
   BloatRatioPercent |-> percent, BloatRatioFactor |-> factor]
BloatRows(Row3(_, _, _)) ==
  {[id \in {Name(i) : i \in 1 .. n} |->
      LET i == CHOOSE j \in 1 .. n : Name(j) = id
      IN Row3(i, IF i = 2 THEN second ELSE rest, IF i = 3 THEN 0 ELSE 2)] :
     n \in {1, 3, 7, 8}, second \in {39, 90}, rest \in {40, 89, 90}}
F004Reports == Reports("F004", Two({Bloat(rows, avg) : rows \in BloatRows(HeapRow), avg \in {20, 21}}), None)
F005Reports ==
  Reports("F005", Two({Bloat(rows, avg) : rows \in BloatRows(IndexRow), avg \in {20, 21}}),
          {[f004 |-> [loaded |-> l, results |-> ("a" :> Bloat(("t3" :> HeapRow(3, 50, 2)), 0))]] : l \in BOOLEAN})

F008Data == [max_workers : {3, 10, Absent}, cost_limit : {-1, 200, 2000}, cost_delay : {20, Absent}]
F008Reports ==
  Reports("F008", Two(F008Data),
          {[cpus |-> c, versions |-> v] :
             c \in {("a" :> 15) @@ ("b" :> 16), ("a" :> 16), ("a" :> NoNumber) @@ ("b" :> 32)},
             v \in {("a" :> 80422) @@ ("b" :> 110004), ("a" :> 90624) @@ ("b" :> 110004),
                    ("a" :> 120012) @@ ("b" :> 110004), ("b" :> 130002)}})

Mb(n) == [setting |-> n, unit |-> [n |-> NoNumber, of |-> "kB"]]
Pure(n) == [setting |-> n, unit |-> NoUnit]
G001Data ==
  {[shared_buffers |-> [setting |-> s, unit |-> [n |-> 8, of |-> "kB"]], autovacuum_work_mem |-> Mb(a),
    maintenance_work_mem |-> Mb(100), work_mem |-> Mb(1), max_connections |-> Pure(c),
    autovacuum_max_workers |-> Pure(3)] :
     s \in {20, 25, 26, 100, 101, NoNumber}, a \in {-1, 50}, c \in {100, 200, 240, 400}}
Ram(words, n, swap) ==
  [MemTotal |-> [words |-> words, value |-> n, unit |-> [n |-> NoNumber, of |-> "kB"]],
   SwapTotal |-> [words |-> 2, value |-> swap, unit |-> [n |-> NoNumber, of |-> "kB"]]]
G001Reports ==
  WithRoles(Reports("G001", HostMap({"a"}, G001Data),
    {[ram |-> r] : r \in {("a" :> Ram(2, 1000, s)) : s \in {0, 500, NoNumber}}
                         \cup {("a" :> Ram(1, 1000, 0)), ("b" :> Ram(2, 1000, 0)), ("a" :> Ram(2, NoNumber, 0))}}))
  \cup Reports("G001", HostMap({"a", "b"}, {d \in G001Data : d.autovacuum_work_mem.setting = 50}),
    {[ram |-> ("a" :> Ram(2, 1000, 0)) @@ ("b" :> Ram(2, 800, 0))]})

Rows2(S) == {("1" :> x) @@ ("2" :> y) : x, y \in S}
G002Reports ==
  Reports("G002", Two(Rows2([CurrentState : {"idle", "active", "idle in transaction"}, TxMore1h : {0, 2}])), None)
K000Reports == Reports("K000", Two([Queries : Rows2([RatioTotalTime : {30, 31}])]), None)

L003Tables(n) ==
  [id \in {Name(i) : i \in 1 .. n} |->
     [Table |-> id, CapacityUsedPercent |-> IF id = "t2" THEN 10 ELSE 11 + (n - (CHOOSE i \in 1 .. n : Name(i) = id))]]
L003Reports == Reports("L003", Two({[Tables |-> L003Tables(n)] : n \in {0, 1, 2, 6, 7, 8}}), None)

MCInputs ==
  [A002 |-> WithUnreadable(A002Reports), A006 |-> A006Reports, A008 |-> WithUnreadable(A008Reports),
   H001 |-> H001Reports, H002 |-> H002Reports, H004 |-> H004Reports,
   F001 |-> F001Reports, F002 |-> F002Reports, F004 |-> F004Reports, F005 |-> F005Reports,
   F008 |-> F008Reports, G001 |-> WithUnreadable(G001Reports), G002 |-> G002Reports,
   K000 |-> K000Reports, L003 |-> L003Reports]
-----------------------------------------------------------------------------
HostsIdle == primary = Nil /\ number = [h \in Host |-> 0] /\ role = EmptyLast.role /\ results = {}
             /\ last = EmptyLast /\ pc = "collect" /\ left = {} /\ master = Nil
             /\ replicas = NoReplicas /\ ordered = <<>>

NoReport == [check |-> "K000", results |-> [h \in {} |-> 0], roles |-> [h \in {} |-> ""],
             readable |-> FALSE, with |-> Nothing]

ConclusionsIdle == report = NoReport /\ versions = versionsDefault /\ stage = "discarded"
                   /\ result = NoResult /\ added = Nothing

PghrepInit ==
  \/ part = "hosts" /\ Init /\ ConclusionsIdle /\ MapInit
  \/ part = "conclusions" /\ HostsIdle /\ ConclusionsInit /\ MapInit
  \/ part = "map" /\ HostsIdle /\ ConclusionsIdle /\ MapInit

PghrepNext ==
  \/ part = "hosts" /\ Next /\ UNCHANGED <<conclusionVars, mapVars, part>>
  \/ part = "conclusions" /\ PreprocessReportData /\ UNCHANGED <<vars, mapVars, part>>
  \/ part = "map" /\ MapNext /\ UNCHANGED <<vars, conclusionVars, part>>

PghrepSpec == PghrepInit /\ [][PghrepNext]_pghrepVars

=============================================================================
