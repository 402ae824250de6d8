-------------------------- MODULE ConclusionsSafety --------------------------
(***************************************************************************)
(* What the conclusions promise, stated over all the hosts of a report at  *)
(* once: the checks arrive at them host by host, in any order.             *)
(***************************************************************************)
EXTENDS Conclusions

Saved(checks) == stage = "saved" /\ report.check \in checks
Results == report.results
Hosts == DOMAIN Results
Flags == {p \in Priority : result[p]}

\* Every variable has its type; no item of a result is without a message.
ConclusionsTypeOK ==
  /\ ReportType(report)
  /\ versions \in Config
  /\ stage \in {"loaded", "ready"} \cup Ended
  /\ \A p \in Priority : result[p] \in BOOLEAN
  /\ \A list \in {"Conclusions", "Recommendations"} : \A i \in DOMAIN result[list] :
       DOMAIN result[list][i] = {"Id", "Message"} /\ Len(result[list][i].Message) > 0

-----------------------------------------------------------------------------
(* The priorities a report deserves.  Named exceptions are cases in which  *)
(* the code answers otherwise, or by the order of a map; the README lists  *)
(* them.                                                                   *)
Flag(p1, p2, p3) ==
  (IF p1 THEN {"P1"} ELSE {}) \cup (IF p2 THEN {"P2"} ELSE {}) \cup (IF p3 THEN {"P3"} ELSE {})

MasterHosts == {h \in DOMAIN report.roles : report.roles[h] = "master"}

A002Num(h) == Results[h].ServerVersionNum
Known(h) == MajorVersion(A002Num(h)) \in DOMAIN versions
BranchOf(h) == versions[MajorVersion(A002Num(h))]
Behind(h) == Known(h) /\ \E v \in BranchOf(h).MinorVersions : v > MinorVersion(A002Num(h))
UpToDate(h) == Known(h) /\ ~Behind(h)

\* A host of any branch is up to date with the same minor number.
Masked(h) == \E g \in Hosts : UpToDate(g) /\ MinorVersion(A002Num(g)) = MinorVersion(A002Num(h))

\* The branch of a host is out of support, will be within a year, or is not the newest.
BranchEnded(h) == Known(h) /\ BranchOf(h).FinalRelease <= report.with.today
BranchEnding(h) == Known(h) /\ ~BranchEnded(h) /\ BranchOf(h).FinalRelease <= report.with.today + 10000
BranchOutrun(h) == Known(h) /\ \E newer \in DOMAIN versions : newer > MajorVersion(A002Num(h))

A002Flags ==
  Flag(\E h \in Hosts : ~Known(h) \/ BranchEnded(h),
       \/ \E g, h \in Hosts : Version(A002Num(g)) # Version(A002Num(h))
       \/ \E h \in Hosts : BranchEnding(h) \/ Behind(h),
       \E h \in Hosts : BranchOutrun(h))

Items(field) == UNION {Range(Results[h][field]) : h \in Hosts}

\* a008_test.go: a file system that is full or almost, the directories of Postgres
\* among them, and such a directory on a network or not recommended file system.
A008Flags ==
  LET directories == Items("db_data")
      all == directories \cup Items("fs_data")
  IN Flag(\/ \E item \in all : item.UsePercent >= 90
          \/ \E item \in directories : item.Fstype.network,
          \E item \in all : item.UsePercent \in 70 .. 89,
          \E item \in directories : ~isRecommendedFs(item.Fstype))

\* What is wrong with a directory of Postgres does not show in the lines of df: the
\* code never sees it (NetworkFsReported).
A008Unread(h) ==
  \E item \in Range(Results[h]["db_data"]) :
    \/ item.Fstype.network \/ ~isRecommendedFs(item.Fstype)
    \/ /\ item.UsePercent >= 70
       /\ \A line \in Range(Results[h]["fs_data"]) : line.UsePercent # item.UsePercent

BloatFlags ==
  LET rows == {row \in Items("bloat") : row.RealSizeBytes > 1048576 /\ row.BloatRatioFactor > 0}
  IN Flag(\/ \E h \in Hosts : Results[h].total.BloatRatioPercentAvg > 20
          \/ \E row \in rows : row.BloatRatioPercent >= 90,
          \E row \in rows : row.BloatRatioPercent \in 40 .. 89, FALSE)

IndexFlags(count) ==
  LET found == {h \in MasterHosts \cap Hosts :
                  count[h] > 0 /\ Results[h].Do # <<>> /\ Results[h].UnDo # <<>>}
      large == {h \in found : 20 * Results[h].IndexSizeBytesSum > Results[h].DatabaseSizeBytes}
  IN Flag(FALSE, large # {}, found # large)

F001Flags ==
  LET both(h, r, s) == Results[h][r] = F001Default[r] /\ Results[h][s] = F001Default[s]
  IN Flag(\E h \in MasterHosts \cap Hosts :
            \/ both(h, "vacuum_scale_factor", "vacuum_threshold")
            \/ both(h, "analyze_scale_factor", "analyze_threshold")
            \/ both(h, "vacuum_cost_delay", "vacuum_cost_limit"), FALSE, FALSE)

F008Flags ==
  Flag(\E h \in Hosts :
         \/ Results[h].max_workers = 3 /\ report.with.cpus[h] >= 16
         \/ /\ report.with.versions[h] < 120000
            /\ Results[h].cost_limit \in {-1, 200} /\ Results[h].cost_delay = 20, FALSE, FALSE)

\* Every host has what F008 reads, and the loop does not stop early: at version 12 or
\* at one before 9.0, which counts as version 80.
F008Complete ==
  /\ \A h \in Hosts :
       /\ h \in DOMAIN report.with.cpus \cap DOMAIN report.with.versions
       /\ report.with.cpus[h] # NoNumber /\ Numbers(Range(Results[h]))
       /\ report.with.versions[h] >= 90000
  /\ \A g, h \in Hosts : report.with.versions[g] < 120000 => report.with.versions[h] < 120000

\* What G001 compares, in bytes; a hundredth of the memory is rounded down.
Bytes(h, name) ==
  Results[h][name].setting * (IF Results[h][name].unit.of = "" THEN 1 ELSE GetUnit(Results[h][name].unit))
RamBytes(h) == report.with.ram[h].MemTotal.value * 1024
RamShare(h) == RamBytes(h) \div 100
AutovacuumBytes(h) ==
  IF Results[h]["autovacuum_work_mem"].setting = -1 THEN Bytes(h, "maintenance_work_mem")
  ELSE Bytes(h, "autovacuum_work_mem")

Used(h) == Bytes(h, "shared_buffers") + Bytes(h, "max_connections") * 2 * Bytes(h, "work_mem")
             + AutovacuumBytes(h) * Bytes(h, "autovacuum_max_workers")

\* Everything is known of every host, its memory in kB, and the master is one of them.
\* Only autovacuum_work_mem may be -1, which says that it is maintenance_work_mem.
G001Complete ==
  /\ Hosts \subseteq DOMAIN report.with.ram
  /\ \A h \in Hosts :
       /\ report.with.ram[h].MemTotal.words >= 2 /\ report.with.ram[h].SwapTotal.value # NoNumber
       /\ report.with.ram[h].MemTotal.value # NoNumber
       /\ report.with.ram[h].MemTotal.unit = [n |-> NoNumber, of |-> "kB"]
       /\ \A name \in G001Name :
            \/ Results[h][name].setting >= 0
            \/ name = "autovacuum_work_mem" /\ Results[h][name].setting = -1
  /\ MasterHosts # {} /\ MasterHosts \subseteq Hosts

G001Flags ==
  Flag(\/ \E h \in Hosts : \/ Bytes(h, "shared_buffers") < 20 * RamShare(h)
                           \/ Bytes(h, "shared_buffers") > 80 * RamShare(h)
       \/ \E h \in MasterHosts : Used(h) >= (90 * RamBytes(h)) \div 100, FALSE, FALSE)

\* What is uncertain about the priorities of a report.
Excepted ==
  CASE report.check \in {"H002", "H004"} -> Cardinality(MasterHosts) > 1 \/ MasterHosts \ Hosts # {}
    [] report.check = "F001" -> Cardinality(MasterHosts) # 1 \/ MasterHosts \ Hosts # {}
    [] report.check = "A002" -> \E h \in Hosts : Behind(h) /\ Masked(h)
    [] report.check = "A008" -> \E h \in Hosts : A008Unread(h)
    [] report.check = "F008" -> ~F008Complete
    [] report.check = "G001" -> ~G001Complete \/ Cardinality(MasterHosts) > 1
    [] OTHER -> FALSE

Deserved ==
  CASE report.check = "A002" -> A002Flags
    [] report.check = "A008" -> A008Flags
    [] report.check \in {"F004", "F005"} -> BloatFlags
    [] report.check = "H002" -> IndexFlags([h \in Hosts |-> Results[h].NeverUsedIndexes])
    [] report.check = "H004" -> IndexFlags([h \in Hosts |-> Results[h].RedundantIndexes])
    [] report.check = "F001" -> F001Flags
    [] report.check = "F008" -> F008Flags
    [] report.check = "G001" -> G001Flags
    [] report.check = "F002" ->
         Flag(\E item \in Items("Databases") \cup Items("Tables") : item.CapacityUsed > 50, FALSE, FALSE)
    [] report.check = "G002" ->
         Flag(\E row \in UNION {Range(Results[h]) : h \in Hosts} :
                row.TxMore1h > 0 /\ row.CurrentState \in {"active", "idle in transaction"}, FALSE, FALSE)
    [] report.check = "K000" -> Flag(\E query \in Items("Queries") : query.RatioTotalTime > 30, FALSE, FALSE)
    [] report.check = "L003" ->
         Flag(\E table \in Items("Tables") : table.CapacityUsedPercent > 10, FALSE, FALSE)

\* The priorities of a saved result are those the hosts of the report deserve taken
\* together, in whichever order the loops of the check visit them (A002Process to
\* L003Process).
Priorities == stage = "saved" /\ ~Excepted => Flags = Deserved

-----------------------------------------------------------------------------
Ids(items) == {items[i].Id : i \in DOMAIN items}

\* A priority is never raised silently: there is a conclusion, and advice that goes
\* with it, except that the last year of support is only announced; and advice without
\* a priority is only given for bloat whose statistics are not to be relied on.
Explained ==
  stage = "saved" =>
    /\ Flags # {} => result.Conclusions # <<>>
    /\ "P1" \in Flags \/ (Flags # {} /\ report.check # "A002") => result.Recommendations # <<>>
    /\ result.Recommendations # <<>> /\ Flags = {} => Saved({"F004", "F005"})
    /\ Saved({"F004", "F005"}) =>
         /\ "P2" \in Flags <=> "BLOAT_WARNING" \in Ids(result.Conclusions)
         /\ Flags = {"P2"} <=> "BLOAT_WARNING" \in Ids(result.Recommendations)
         /\ "P1" \in Flags => "BLOAT_INFO" \in Ids(result.Recommendations)

\* The counted lists: how many rows there are, and the names that are printed.
Counted ==
  UNION {Messages(result.Conclusions, id) : id \in {"BLOAT_CRITICAL", "BLOAT_WARNING", "L003_HIGH_RISKS"}}

\* A list that is printed is complete, or says that it is not and how long it is;
\* whatever is in a list about bloat is also in the one that is never cut (LimitList,
\* F004Process, F005Process, L003Process).
Listed ==
  Saved({"F004", "F005", "L003"}) =>
    /\ \A message \in Counted :
         LET count == message[1]
             names == message[2]
         IN \/ Len(names) = count
            \/ count > Len(names) /\ Last(names) = MSG_ETC_ITEM /\ Len(names) = 6
    /\ Saved({"F004", "F005"}) =>
         \A message \in Counted : \A name \in Range(message[2]) \ {MSG_ETC_ITEM} :
           \E id \in {"BLOATED_TABLES", "BLOATED_INDEXES", "BLOATED_TABLE_INDEXES"} :
             \E all \in Messages(result.Recommendations, id) : name \in Range(all[1])
    /\ Saved({"L003"}) =>
         \A h \in Hosts : Range(added[h]) = DOMAIN Results[h].Tables

\* A002 names every version that is out of date and no other, unless a server is up to
\* date with the same minor version of another branch; it panics only over a
\* branch for which the page of releases had none (A002CheckMinorVersions).
OutdatedNamed ==
  /\ stage = "panicked" => \E h \in Hosts : Known(h) /\ BranchOf(h).MinorVersions = {}
  /\ Saved({"A002"}) =>
       LET named == UNION {m[1] : m \in Messages(result.Conclusions, "A002_NOT_LAST_MINOR_VERSION")}
           behind == {h \in Hosts : Behind(h)}
           version(H) == {Version(A002Num(h)) : h \in H}
       IN /\ named \subseteq version(behind)
          /\ version({h \in behind : ~Masked(h)}) \subseteq named

\* A row of the comparison has a cell for every column of the table, the master and
\* each replica: what that host has set, or nothing; the word "null" counts as nothing
\* set (compareHostsData).
DiffAligned ==
  stage = "compared" /\ report.check = "A006" =>
    LET hosts == <<report.with.hosts.master>> \o report.with.hosts.replicas
        own(h, s, name) == IF h \notin Hosts \/ name \notin DOMAIN Results[h][s] THEN Blank
                           ELSE Results[h][s][name]
        shown(i, s, name) == IF i = 1 \/ HasData(own(hosts[i], s, name)) THEN own(hosts[i], s, name)
                             ELSE Blank
    IN \A s \in Section : \A name \in DOMAIN added[s] :
         /\ Len(added[s][name]) = Len(hosts)
         /\ \A i \in DOMAIN hosts : added[s][name][i] = shown(i, s, name)
         /\ \E i \in DOMAIN hosts : added[s][name][i] # added[s][name][1]

\* The table of settings and the conclusion about shared_buffers convert the same
\* setting on ways of their own and arrive at the same size (UnitValue, RawIntUnitValue,
\* G001CheckSharedBuffers), which is off by less than a hundredth of its unit.
SizesAgree ==
  Saved({"G001"}) =>
    \A message \in Messages(result.Conclusions, "G001_SHARED_BUFFERS_NOT_OPTIMAL") :
      \A i \in DOMAIN message[1] :
        LET said == message[1][i]
            s == Results[said.host]["shared_buffers"]
            bytes == RawIntUnitValue(s.setting, s.unit)
            part == Ki(said.set.unit)
        IN /\ s.unit.of # "" => said.set = UnitValue(s.setting, s.unit)
           /\ said.set.number * part >= 100 * bytes
           /\ said.set.number * part < 100 * bytes + part

-----------------------------------------------------------------------------
\* The directories of Postgres that are on a network file system, as the script of the
\* check reports them.
OnNetwork(h) == \E item \in Range(Results[h]["db_data"]) : item.Fstype.network

\* TestA008NfsFileSystem (a008_test.go): a directory of Postgres on NFS is a P1 with
\* a conclusion and advice.
NetworkFsReported ==
  Saved({"A008"}) /\ (\E h \in Hosts : OnNetwork(h)) =>
    /\ "P1" \in Flags
    /\ "A008_NFS_DISK" \in Ids(result.Conclusions)
=============================================================================
