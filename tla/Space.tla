-------------------------------- MODULE Space --------------------------------
(***************************************************************************)
(* The checks of what runs out: transaction ids (F002), the values of      *)
(* integer keys (L003) and disk space (A008), in                           *)
(* src/pghrep/internal/checkup/{f002,l003,a008}.                           *)
(*                                                                         *)
(* A percentage is a whole number.  The items of one host come in any      *)
(* order and are taken in a fixed one.                                     *)
(***************************************************************************)
EXTENDS ReportResult

CRITICAL_CAPACITY_USAGE == 50
MAX_RATIO_PERCENT == 10

F002Database == [CapacityUsed : Nat]
F002Table == [CapacityUsed : Nat]
F002Data(data) == IsMap(data.Databases, F002Database) /\ IsMap(data.Tables, F002Table)

L003Table == [Table : STRING, CapacityUsedPercent : Nat]
L003Data(data) == IsMap(data.Tables, L003Table)

-----------------------------------------------------------------------------
\* The names of what is used up; `items` maps the hosts to their databases or tables.
UsedUp(items, order) ==
  LET used(h) == {name \in DOMAIN items[h] : items[h][name].CapacityUsed > CRITICAL_CAPACITY_USAGE}
  IN FlattenSeq([i \in DOMAIN order |-> SetToSeq(used(order[i]))])

F002Process(results, order) ==
  LET databases == UsedUp([h \in DOMAIN results |-> results[h].Databases], order)
      tables == UsedUp([h \in DOMAIN results |-> results[h].Tables], order)
      said == AppendConclusion(Raise(NoResult, "P1"), "F002_RISKS_ARE_HIGH", <<databases, tables>>)
  IN IF databases \o tables = <<>> THEN NoResult
     ELSE AppendRecommendation(AppendConclusion(said, "F002_RISKS_ARE_HIGH", Text),
                               "F002_RISKS_ARE_HIGH", Text)

-----------------------------------------------------------------------------
\* The ids of the tables of one host, the fullest first.
SortedTables(data) ==
  SortItemsByFloat64([id \in DOMAIN data.Tables |-> data.Tables[id].CapacityUsedPercent], TRUE)

L003Process(results, order) ==
  LET full(h) == Sublist(SortedTables(results[h]),
                         {id \in DOMAIN results[h].Tables :
                            results[h].Tables[id].CapacityUsedPercent > MAX_RATIO_PERCENT})
      tables == FlattenSeq([i \in DOMAIN order |->
                  [j \in DOMAIN full(order[i]) |-> results[order[i]].Tables[full(order[i])[j]].Table]])
      said == AppendConclusion(Raise(NoResult, "P1"), "L003_HIGH_RISKS", <<Len(tables), LimitList(tables)>>)
  IN IF tables = <<>> THEN NoResult ELSE AppendRecommendation(said, "L003_HIGH_RISKS", Text)

\* sortedTables, which the template goes through, for every host.
L003ProcessSortTables(results) == [h \in DOMAIN results |-> SortedTables(results[h])]

-----------------------------------------------------------------------------
(* A008.  An item is a line of df.  The length of the name of the file     *)
(* system matters: the check looks at its first three letters.             *)
USAGE_CRITICAL == 90
USAGE_WARNING == 70
FS_RECOMMENDED == {"ext4", "xfs", "tmpfs"}

\* `letters` is the length of the name, `network` says that it begins with nfs.
Fs(name, letters, network) == [name |-> name, letters |-> letters, network |-> network]

\* NoPercent: there is no number, as in "-"; Atoi makes 0 of it.
NoPercent == -1
FsItem == [Fstype : [name : STRING, letters : Nat, network : BOOLEAN],
           UsePercent : Nat \cup {NoPercent}, MountPoint : STRING]

isRecommendedFs(fs) == fs.name \in FS_RECOMMENDED

\* The host data of the report, as the script of the check writes it.
A008Written(data) ==
  DOMAIN data = {"db_data", "fs_data"} /\ \A key \in DOMAIN data : IsMap(data[key], FsItem)

\* What json.Unmarshal makes of it: a field whose key is not there is empty.
A008ReportHostResultData(data) ==
  [DbData |-> IF "data" \in DOMAIN data THEN data["data"] ELSE [i \in {} |-> 0],
   FsData |-> IF "fs_data" \in DOMAIN data THEN data["fs_data"] ELSE [i \in {} |-> 0]]

Percent(item) == IF item.UsePercent = NoPercent THEN 0 ELSE item.UsePercent

checkFsItemUsage(host, item, result) ==
  LET Say(id, p) ==
        AppendRecommendation(AppendConclusion(Raise(result, p), id, <<item.MountPoint, host>>),
                             id, <<item.MountPoint, host>>)
  IN IF Percent(item) >= USAGE_CRITICAL THEN Say("A008_SPACE_USAGE_CRITICAL", "P1")
     ELSE IF Percent(item) >= USAGE_WARNING THEN Say("A008_SPACE_USAGE_WARNING", "P2")
     ELSE result

\* The lines of df in a map, with the host they are of.
LinesOf(host, items) ==
  LET ids == SetToSeq(DOMAIN items)
  IN [i \in DOMAIN ids |-> [host |-> host, item |-> items[ids[i]]]]

\* The lines of all hosts, host by host.
Lines(data, order) ==
  FlattenSeq([i \in DOMAIN order |->
    LinesOf(order[i], data[order[i]].DbData) \o LinesOf(order[i], data[order[i]].FsData)])

\* Where Postgres keeps its data on one host: the mount points to complain about.
NetworkFs(items) == {items[id].MountPoint : id \in {i \in DOMAIN items : items[i].Fstype.network}}
NotRecommendedFs(items) ==
  {items[id].MountPoint : id \in {i \in DOMAIN items : ~isRecommendedFs(items[i].Fstype)}}

\* Conclusions about the hosts that have something to complain about.
PerHost(order, points, id, p, result) ==
  LET hosts == Sublist(order, {h \in DOMAIN points : points[h] # {}})
      items == [i \in DOMAIN hosts |-> Item(id, <<hosts[i], points[hosts[i]]>>)]
      said == [Raise(result, p) EXCEPT !.Conclusions = @ \o items]
  IN IF hosts = <<>> THEN result ELSE AppendRecommendation(said, id, Text)

\* Panics on a name of a file system of fewer than three letters.
A008Process(results, order) ==
  LET data == [h \in DOMAIN results |-> A008ReportHostResultData(results[h])]
      used == Loop(LAMBDA r, line : checkFsItemUsage(line.host, line.item, r), NoResult, Lines(data, order))
      normal == IF used.Recommendations # <<>> THEN used
                ELSE AppendConclusion(used, "A008_SPACE_USAGE_NORMAL", Text)
      nfs == PerHost(order, [h \in DOMAIN data |-> NetworkFs(data[h].DbData)],
                     "A008_NFS_DISK", "P1", normal)
  IN [panic |-> \E h \in DOMAIN data : \E i \in DOMAIN data[h].DbData : data[h].DbData[i].Fstype.letters < 3,
      result |-> PerHost(order, [h \in DOMAIN data |-> NotRecommendedFs(data[h].DbData)],
                         "A008_NOT_RECOMMENDED_FS", "P3", nfs)]
=============================================================================
