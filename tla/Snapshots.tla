------------------------------ MODULE Snapshots ------------------------------
(***************************************************************************)
(* The K000 check (resources/checks/K000_query_analysis.sh).  A report on  *)
(* query groups needs two snapshots of pg_stat_statements.  Every run of   *)
(* the check saves one as tmp_K000/<n>_<database>_<number of host>.json in *)
(* the directory of the epoch, and compares it with the one before.  The   *)
(* name of the database is a simple one, in which `-`, `,`, ` ` and `~`    *)
(* have become `_`: two databases, such as a-b and a_b, may share it.      *)
(*                                                                         *)
(* The module is about one epoch.  A host stands for its number, which is  *)
(* its own (NodesJson!UniqueIndex).  A snapshot is the second it was taken *)
(* in, and the database.  bash ignores `set -e` in a check, because        *)
(* run_checks calls it on the left of ||, but not `set -u`: a failed       *)
(* command goes unnoticed, and a variable that was never set ends the      *)
(* check.                                                                  *)
(***************************************************************************)
EXTENDS Naturals, FiniteSets

CONSTANTS
  Proc,       \* the places a `checkup collect` can run in, at the same time
  Host,       \* the hosts of the project
  Db,         \* the databases given by --dbname
  SimpleName, \* SimpleName[d]: simple_dbname, the name of d in the names of the files
  MaxSnap,    \* bound: snapshots of a host
  MaxClock    \* bound: the last second of the clock

ASSUME BoundAssumption == MaxSnap \in Nat \ {0} /\ MaxClock \in Nat

VARIABLES
  clock,      \* the clock of the servers, in seconds
  snaps,      \* the files in tmp_K000, and the snapshot in each
  report,     \* report[h]: the result of h in K000_query_analysis.json
  run,        \* run[p]: the K000 check in p
  together    \* history: the hosts two checks were numbering at once

vars == <<clock, snaps, report, run, together>>

-----------------------------------------------------------------------------
Time == 1 .. (MaxClock + 1)
SimpleNames == {SimpleName[d] : d \in Db}
File == [host : Host, name : SimpleNames, n : 1 .. MaxSnap]

Unset == "null"
Snapshot == [at : Time, db : Db]  \* snapshot_timestamptz_s, and the database
Empty == [at |-> 0, db |-> Unset] \* a query failed: the file is there, without a snapshot
Contents == {Empty} \cup Snapshot

NoData == [db |-> "none", from |-> Empty, to |-> Empty]      \* the host has no result
EmptyData == [db |-> "empty", from |-> Empty, to |-> Empty]  \* the result is []
Data == [db : Db, from : Snapshot, to : Snapshot]

Run == [pc : {"idle", "count", "take", "compare"},
        host : Host \cup {Unset},
        db : Db \cup {Unset},                        \* DBNAME
        n : 0 .. MaxSnap,                            \* fname_prefix
        isset : BOOLEAN,                             \* prev_json_object is set
        prev : Contents,                             \* prev_json_object
        cur : Contents]                              \* json_object
NoRun == [pc |-> "idle", host |-> Unset, db |-> Unset, n |-> 0, isset |-> FALSE,
          prev |-> Empty, cur |-> Empty]

FilesOf(h) == {f \in DOMAIN snaps : f.host = h}
FileOf(p, n) == [host |-> run[p].host, name |-> SimpleName[run[p].db], n |-> n]
Read(f) == IF f \in DOMAIN snaps THEN snaps[f] ELSE Empty
\* jq on a file that is missing or empty prints nothing, and printf makes it 0.
Seconds(f) == Read(f).at

-----------------------------------------------------------------------------
Init ==
  /\ clock = 1
  /\ snaps = [f \in {} |-> Empty]
  /\ report = [h \in Host |-> NoData]
  /\ run = [p \in Proc |-> NoRun]
  /\ together = {}

\* `checkup collect` for host h and database d has come to K000.
Begin(p, h, d) ==
  /\ run[p].pc = "idle"
  /\ run' = [run EXCEPT ![p] = [NoRun EXCEPT !.pc = "count", !.host = h, !.db = d]]
  /\ UNCHANGED <<clock, snaps, report, together>>

\* The check ends without a result; the report, if any, stays as it was.
GiveUp(p) ==
  /\ run' = [run EXCEPT ![p] = NoRun]
  /\ UNCHANGED <<clock, snaps, report, together>>

\* There is no pg_stat_statements.
NoExtension(p) ==
  /\ run[p].pc = "count"
  /\ GiveUp(p)

\* Seeded fault: the pattern does not name the host.
FreshNumberAnyHost(p) == Cardinality(DOMAIN snaps) + 1

\* Seeded fault: `test -s` where the script has `test -f`.
FreshNumberNonEmpty(p) == Cardinality({f \in FilesOf(run[p].host) : snaps[f] # Empty}) + 1

\* fname_prefix: the number of files tmp_K000/*_<number of host>.json, plus one.
FreshNumber(p) == Cardinality(FilesOf(run[p].host)) + 1

\* The number of the new snapshot; and the previous one, if its file is there.
Count(p) ==
  /\ run[p].pc = "count"
  /\ FreshNumber(p) <= MaxSnap
  /\ LET n == FreshNumber(p)
         previous == FileOf(p, n - 1)
     IN  run' = [run EXCEPT ![p].pc = "take", ![p].n = n,
                            ![p].isset = previous \in DOMAIN snaps,
                            ![p].prev = Read(previous)]
  /\ together' = IF \E q \in Proc \ {p} : run[q].pc = "take" /\ run[q].host = run[p].host
                 THEN together \cup {run[p].host} ELSE together
  /\ UNCHANGED <<clock, snaps, report>>

\* The snapshot is taken and saved; or the query fails, and an empty file is.
Take(p) ==
  /\ run[p].pc = "take"
  /\ \E content \in {[at |-> clock, db |-> run[p].db], Empty} :
       LET file == FileOf(p, run[p].n) IN
       /\ snaps' = [f \in DOMAIN snaps \cup {file} |->
                      IF f = file THEN content ELSE snaps[f]]
       /\ run' = [run EXCEPT ![p].pc = "compare", ![p].cur = content]
  /\ UNCHANGED <<clock, report, together>>

\* "To compare results, 2 runs are needed."
NeedTwoRuns(p) ==
  /\ run[p].pc = "compare"
  /\ run[p].n = 1
  /\ GiveUp(p)

\* Seeded fault: a period of 0 seconds is accepted.
HasPeriodOrZero(p) == Seconds(FileOf(p, run[p].n)) >= Seconds(FileOf(p, run[p].n - 1))

\* period_seconds_rnd is positive.
HasPeriod(p) == Seconds(FileOf(p, run[p].n)) > Seconds(FileOf(p, run[p].n - 1))

\* "Period between snapshots is 0 seconds"
NoPeriod(p) ==
  /\ run[p].pc = "compare"
  /\ run[p].n > 1 /\ ~HasPeriod(p)
  /\ GiveUp(p)

\* prev_json_object: unbound variable
NoPrevious(p) ==
  /\ run[p].pc = "compare"
  /\ run[p].n > 1 /\ HasPeriod(p)
  /\ ~run[p].isset
  /\ GiveUp(p)

\* Seeded fault: the query does not need what is in the snapshots.
CompareBlind(p) ==
  /\ run[p].pc = "compare"
  /\ run[p].n > 1 /\ HasPeriod(p)
  /\ run[p].isset
  /\ report' = [report EXCEPT ![run[p].host] =
                   [db |-> run[p].db, from |-> run[p].prev, to |-> run[p].cur]]
  /\ run' = [run EXCEPT ![p] = NoRun]
  /\ UNCHANGED <<clock, snaps, together>>

\* The query over both snapshots gives the result of the host; it fails, and the
\* result is empty, when one of them is, or when the server does not answer.
Compare(p) ==
  /\ run[p].pc = "compare"
  /\ run[p].n > 1 /\ HasPeriod(p)
  /\ run[p].isset
  /\ \/ report' = [report EXCEPT ![run[p].host] = EmptyData]
     \/ /\ run[p].prev # Empty /\ run[p].cur # Empty
        /\ report' = [report EXCEPT ![run[p].host] =
                        [db |-> run[p].db, from |-> run[p].prev, to |-> run[p].cur]]
  /\ run' = [run EXCEPT ![p] = NoRun]
  /\ UNCHANGED <<clock, snaps, together>>

\* The run stops where it is.
Die(p) ==
  /\ run[p].pc # "idle"
  /\ GiveUp(p)

Tick ==
  /\ clock <= MaxClock
  /\ clock' = clock + 1
  /\ UNCHANGED <<snaps, report, run, together>>

CheckStep(p) ==
  \/ NoExtension(p) \/ Count(p) \/ Take(p)
  \/ NeedTwoRuns(p) \/ NoPeriod(p) \/ NoPrevious(p) \/ Compare(p)

Next ==
  \/ \E p \in Proc :
       \/ \E h \in Host, d \in Db : Begin(p, h, d)
       \/ CheckStep(p)
       \/ Die(p)
  \/ Tick

Spec == Init /\ [][Next]_vars

-----------------------------------------------------------------------------
(* Properties.                                                             *)

\* Every variable has its type.
TypeOK ==
  /\ clock \in Time
  /\ DOMAIN snaps \subseteq File /\ \A f \in DOMAIN snaps : snaps[f] \in Contents
  /\ report \in [Host -> Data \cup {NoData, EmptyData}]
  /\ run \in [Proc -> Run]
  /\ together \subseteq Host

\* A snapshot is never overwritten, unless two checks of its host ran at once:
\* the number is only a count of files, taken long before the file is made.
SnapshotKept ==
  [][\A f \in DOMAIN snaps :
       f.host \in together' \/ (f \in DOMAIN snaps' /\ snaps'[f] = snaps[f])]_vars

\* A result with data is about one database of the host: it compares two snapshots
\* with neighbouring numbers, the later one is of that database, the time between
\* them is not zero (the queries divide by it), and the earlier one is of that
\* database too, unless another database of the host has the same simple name.
ComparesNeighbours ==
  \A h \in Host \ together : report[h] \notin {NoData, EmptyData} =>
    LET db == report[h].db
        from == report[h].from
        to == report[h].to
    IN  /\ from.at < to.at
        /\ to.db = db
        /\ (\A d \in Db \ {db} : SimpleName[d] # SimpleName[db]) => from.db = db
        /\ \E f, g \in FilesOf(h) :
             /\ f.name = SimpleName[db] /\ snaps[f] = from
             /\ g.name = SimpleName[db] /\ snaps[g] = to
             /\ g.n = f.n + 1

\* A check that has come to the comparison, for a database that was snapshot
\* before in this epoch, has the previous snapshot: the second run the message
\* of K000 asks for is enough.
PreviousFound ==
  \A p \in Proc :
    /\ run[p].pc = "compare" /\ run[p].host \notin together
    /\ \E f \in FilesOf(run[p].host) :
         snaps[f].db = run[p].db /\ f.n < run[p].n
    => run[p].isset
=============================================================================
