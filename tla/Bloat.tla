-------------------------------- MODULE Bloat --------------------------------
(***************************************************************************)
(* The checks of space that is lost in tables and indexes: F004 and F005,  *)
(* in src/pghrep/internal/checkup/{f004,f005}.                             *)
(*                                                                         *)
(* The details of a table or an index are its name; a ratio is a whole     *)
(* number.  Both checks collect what the hosts report into lists, and keep *)
(* the totals of the host that the loop visits last.                       *)
(***************************************************************************)
EXTENDS ReportResult

WARNING_BLOAT_RATIO == 40
CRITICAL_BLOAT_RATIO == 90
CRITICAL_TOTAL_BLOAT_RATIO == 20
MIN_SIZE_TO_ANALYZE == 1024 * 1024

Total == [BloatSizeBytesSum : Nat, BloatRatioPercentAvg : Nat, BloatRatioFactorAvg : Nat]
NoTotal == [BloatSizeBytesSum |-> 0, BloatRatioPercentAvg |-> 0, BloatRatioFactorAvg |-> 0]

F004HeapBloat == [Num : Nat, TableName : STRING, RealSizeBytes : Nat,
                  BloatRatioPercent : Nat, BloatRatioFactor : Nat]
F005IndexBloat == [Num : Nat, IndexName : STRING, TableName : STRING, RealSizeBytes : Nat,
                   BloatRatioPercent : Nat, BloatRatioFactor : Nat]

\* What a host reports. bloat: the tables (heap_bloat) or the indexes
\* (index_bloat), by name.
F004Data(data) ==
  IsMap(data.bloat, F004HeapBloat) /\ data.total \in Total /\ data.databaseSize \in Nat
F005Data(data) ==
  IsMap(data.bloat, F005IndexBloat) /\ data.total \in Total /\ data.databaseSize \in Nat

-----------------------------------------------------------------------------
\* The rows of all hosts, host by host, in the order their queries gave them.
Rows(results, order) ==
  FlattenSeq([i \in DOMAIN order |->
    LET bloat == results[order[i]].bloat
        ids == GetItemsSortedByNum(bloat)
    IN [j \in DOMAIN ids |-> bloat[ids[j]]]])

Bloated(row) ==
  row.RealSizeBytes > MIN_SIZE_TO_ANALYZE /\ row.BloatRatioPercent >= WARNING_BLOAT_RATIO

\* The query says factor 0 when the statistics are not to be relied on.
Critical(row) ==
  Bloated(row) /\ row.BloatRatioPercent >= CRITICAL_BLOAT_RATIO /\ row.BloatRatioFactor > 0

Warning(row) ==
  Bloated(row) /\ row.BloatRatioPercent < CRITICAL_BLOAT_RATIO /\ row.BloatRatioFactor > 0

\* The names of rows; that of an index begins with its schema.
appendTable(rows) == [i \in DOMAIN rows |-> rows[i].TableName]
appendIndex(rows) == [i \in DOMAIN rows |-> rows[i].IndexName]

\* Seeded fault: one host whose total is low settles it.
ExcessEverywhere(results) ==
  \A h \in DOMAIN results : results[h].total.BloatRatioPercentAvg > CRITICAL_TOTAL_BLOAT_RATIO

\* What both checks draw from the totals: those of the last host are printed,
\* whichever host's are too high.
Excess(results) ==
  \E h \in DOMAIN results : results[h].total.BloatRatioPercentAvg > CRITICAL_TOTAL_BLOAT_RATIO

LastTotal(results, order) == IF order = <<>> THEN NoTotal ELSE results[Last(order)].total

Totals(results, order, result) ==
  LET total == LastTotal(results, order)
      size == IF order = <<>> THEN 0 ELSE results[Last(order)].databaseSize
  IN IF Excess(results)
     THEN AppendConclusion(Raise(result, "P1"), "TOTAL_BLOAT_EXCESS",
                           <<total, size, size - total.BloatSizeBytesSum>>)
     ELSE AppendConclusion(result, "TOTAL_BLOAT_LOW", <<total>>)

\* Seeded fault: the flag is raised before the recommendation asks for it.
WarnFlagFirst(names, result) ==
  IF names = <<>> THEN result
  ELSE LET said == AppendConclusion(Raise(result, "P2"), "BLOAT_WARNING", <<Len(names), LimitList(names)>>)
       IN IF said.P1 \/ said.P2 THEN said ELSE AppendRecommendation(said, "BLOAT_WARNING", Text)

\* What a warning advises is left out if there is something worse.
Warn(names, result) ==
  IF names = <<>> THEN result
  ELSE LET said == AppendConclusion(Raise(result, "P2"), "BLOAT_WARNING", <<Len(names), LimitList(names)>>)
       IN IF result.P1 THEN said ELSE AppendRecommendation(said, "BLOAT_WARNING", Text)

\* The advice that follows any other.
General(result) ==
  LET Inform(r) == AppendRecommendation(r, "GENERAL_INFO", Text)
      all == IF result.Recommendations = <<>> THEN result ELSE Inform(Inform(result))
  IN IF all.P1 \/ all.P2 THEN AppendRecommendation(all, "BLOAT_INFO", Text) ELSE all

Advise(names, id, result) ==
  IF names = <<>> THEN result ELSE AppendRecommendation(result, id, <<names>>)

-----------------------------------------------------------------------------
F004Critical(names, result) ==
  IF names = <<>> THEN result
  ELSE AppendRecommendation(
         AppendConclusion(Raise(result, "P1"), "BLOAT_CRITICAL", <<Len(names), LimitList(names)>>),
         "BLOAT_CRITICAL", Text)

F004Process(results, order) ==
  LET rows == Rows(results, order)
      totals == Totals(results, order, NoResult)
      critical == F004Critical(appendTable(Sublist(rows, {r \in Range(rows) : Critical(r)})), totals)
      warned == Warn(appendTable(Sublist(rows, {r \in Range(rows) : Warning(r)})), critical)
      tables == appendTable(Sublist(rows, {r \in Range(rows) : Bloated(r)}))
  IN General(Advise(tables, "BLOATED_TABLES", warned))

\* The list is only asked whether a table is in it.
F004GetBloatedTables(results) ==
  UNION {{row.TableName : row \in {r \in Range(results[h].bloat) : Bloated(r)}} : h \in DOMAIN results}

-----------------------------------------------------------------------------
\* The advice is given once, for the totals or for the indexes.
F005Advice(result) ==
  IF ResultInList(result.Recommendations, "BLOAT_CRITICAL_INFO") THEN result
  ELSE AppendRecommendation(result, "BLOAT_CRITICAL_INFO", Text)

F005Critical(names, result) ==
  IF names = <<>> THEN result
  ELSE F005Advice(AppendConclusion(Raise(result, "P1"), "BLOAT_CRITICAL", <<Len(names), LimitList(names)>>))

\* An index of a bloated table, of any host, goes when the table is repacked.
F005Process(results, order, bloatedTables) ==
  LET rows == Rows(results, order)
      totals == Totals(results, order, NoResult)
      advised == IF Excess(results) THEN F005Advice(totals) ELSE totals
      critical == F005Critical(appendIndex(Sublist(rows, {r \in Range(rows) : Critical(r)})), advised)
      warned == Warn(appendIndex(Sublist(rows, {r \in Range(rows) : Warning(r)})), critical)
      ofTables == {r \in Range(rows) : Bloated(r) /\ r.TableName \in bloatedTables}
      others == {r \in Range(rows) : Bloated(r) /\ r.TableName \notin bloatedTables}
      alone == Advise(appendIndex(Sublist(rows, others)), "BLOATED_INDEXES", warned)
  IN General(Advise(appendIndex(Sublist(rows, ofTables)), "BLOATED_TABLE_INDEXES", alone))

\* A report F004 that cannot be loaded counts as one without bloated tables.
TablesOf(f004) == IF f004.loaded THEN F004GetBloatedTables(f004.results) ELSE {}
=============================================================================
