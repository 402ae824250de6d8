------------------------------- MODULE Indexes -------------------------------
(***************************************************************************)
(* The checks of indexes: invalid (H001), unused (H002) and redundant ones *)
(* (H004), in src/pghrep/internal/checkup/{h001,h002,h004}.                *)
(***************************************************************************)
EXTENDS ReportResult

\* Both checks that have conclusions call this much of the database critical.
INDEXES_CRITICL_SIZE_PERCENT == 5

\* The sum is absent (NULL in SQL, 0 in Go) if there are no such indexes.  The
\* indexes are counted; do and undo are lists of statements.
H002Data == [NeverUsedIndexes : Nat, IndexSizeBytesSum : Nat, DatabaseSizeBytes : Nat,
             Do : Seq(STRING), UnDo : Seq(STRING)]
H004Data == [RedundantIndexes : Nat, IndexSizeBytesSum : Nat, DatabaseSizeBytes : Nat,
             Do : Seq(STRING), UnDo : Seq(STRING)]

\* The host the loop over last_nodes_json ends at: "" if no host is a master.
MasterHost(roles) ==
  LET masters == {h \in DOMAIN roles : roles[h] = "master"}
  IN IF masters = {} THEN {""} ELSE masters

-----------------------------------------------------------------------------
\* What both checks say of `count` indexes of the master.
Found(data, count, id) ==
  LET critical == data.IndexSizeBytesSum * 100 > INDEXES_CRITICL_SIZE_PERCENT * data.DatabaseSizeBytes
      p == IF critical THEN "P2" ELSE "P3"
      said == AppendConclusion(Raise(NoResult, p), id[p], <<count>>)
      marked == AppendRecommendation(said, id.found, <<p>>)
      advised == AppendRecommendation(AppendRecommendation(marked, id.found, Text), id.found, Text)
      do == AppendRecommendation(advised, id.do, <<data.Do>>)
  IN IF 0 \in {count, Len(data.Do), Len(data.UnDo)} THEN NoResult
     ELSE AppendRecommendation(do, id.undo, <<data.UnDo>>)

H002Ids == [P2 |-> "H002_UNUSED_INDEXES_FOUND_P2", P3 |-> "H002_UNUSED_INDEXES_FOUND_P3",
            found |-> "H002_UNUSED_INDEXES_FOUND", do |-> "H002_UNUSED_INDEXES_FOUND_DO",
            undo |-> "H002_UNUSED_INDEXES_FOUND_UNDO"]

H004Ids == [P2 |-> "H004_REDUNDANT_INDEXES_FOUND_P2", P3 |-> "H004_REDUNDANT_INDEXES_FOUND_P3",
            found |-> "H004_REDUNDANT_INDEXES_FOUND", do |-> "H004_REDUNDANT_INDEXES_FOUND_DO",
            undo |-> "H004_REDUNDANT_INDEXES_FOUND_UNDO"]

H002Process(results, master) ==
  IF master \notin DOMAIN results THEN NoResult
  ELSE Found(results[master], results[master].NeverUsedIndexes, H002Ids)

H004Process(results, master) ==
  IF master \notin DOMAIN results THEN NoResult
  ELSE Found(results[master], results[master].RedundantIndexes, H004Ids)

-----------------------------------------------------------------------------
(* H001 keeps a statement to repair every index it finds directly under    *)
(* the data of a host.  The script of the check groups its indexes under   *)
(* "invalid_indexes": what is found are the groups, which have no code.    *)
H001Value == [index_name : STRING, drop_code : STRING, revert_code : STRING]
H001Data(data) == IsMap(data, H001Value)

Code(value) == [drop_code |-> value.drop_code, revert_code |-> value.revert_code]

\* A later value, of a later host, replaces an earlier one of its index_name.
prepareDropCode(results, hosts) ==
  LET order == SelectSeq(<<hosts.master>> \o hosts.replicas, LAMBDA h : h \in DOMAIN results)
      Keep(code, value) ==
        IF "" \in {value.drop_code, value.revert_code} THEN code
        ELSE (value.index_name :> Code(value)) @@ code
      OfHost(code, h) == FoldLeft(Keep, code, SetToSeq(Range(results[h])))
  IN FoldLeft(OfHost, [index \in {} |-> ""], order)
=============================================================================
