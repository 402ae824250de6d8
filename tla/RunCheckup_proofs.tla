-------------------------- MODULE RunCheckup_proofs ---------------------------
(***************************************************************************)
(* The safety properties of Snapshots, for all places, hosts, databases    *)
(* and bounds, and what run_checkup.sh makes of them: its steps are steps  *)
(* of Snapshots, so what is proved there holds of the script, and its two  *)
(* loops give every host a result.                                         *)
(*                                                                         *)
(* The argument for Snapshots. A number is a count of files, so the        *)
(* numbers of a host's files are 1 to their count (NumbersInv), as long as *)
(* every new file has the number after that: a check that has counted is   *)
(* about to add the next file, and no other check of the host has counted  *)
(* since (TakeInv). That is what `together` is the exception to. Then the  *)
(* file of a new snapshot is a new file, the variables of a check are what *)
(* its two files hold to the end (ReadInv), these are snapshots of         *)
(* databases with the simple name of its own (NamesInv), and what the      *)
(* report says is still in the files afterwards.                           *)
(*                                                                         *)
(* NumbersInv needs the files to be finitely many (Finite), which no       *)
(* constant has to promise.                                                *)
(*                                                                         *)
(* PreviousFound and TwoLoopsSuffice are about one database: with several, *)
(* the file with the last number may be of another one, and the runs check *)
(* them with one database too.                                             *)
(*                                                                         *)
(* The argument for the script. One command runs at a time (DriverInv), so *)
(* no two checks number snapshots at once. LoopsInv follows a host on      *)
(* which nothing failed: once the first loop has come to it, its last      *)
(* snapshot holds data (Snapped); the pause makes all snapshots older than *)
(* the clock (Older); so the check of the second loop finds the previous   *)
(* snapshot, takes a later one, and cannot leave on any way but with a     *)
(* result (AtWork).                                                        *)
(***************************************************************************)
EXTENDS RunCheckup, FiniteSetTheorems, TLAPS

\* What a check has set by the time it needs it.
RunInv ==
  \A p \in Proc :
    /\ run[p].pc # "idle" => run[p].host \in Host /\ run[p].db \in Db
    /\ run[p].pc \in {"take", "compare"} => run[p].n \in 1 .. MaxSnap

\* The part of the invariant the types follow from.
TypeInv == TypeOK /\ RunInv

\* The check p has begun for host h and database d.
Begins(p, h, d) ==
  /\ run'[p].pc = "count" /\ run'[p].host = h /\ run'[p].db = d
  /\ run'[p].n = 0 /\ run'[p].isset = FALSE

\* The other checks are as they were.
Alone(p) == \A q \in Proc : q # p => run'[q] = run[q]

\* A place where no check runs has its type.
LEMMA NoRunType == NoRun \in Run /\ NoRun.pc = "idle"
  BY BoundAssumption DEF NoRun, Run, Contents

\* What the actions set of the check that takes the step: Begin,
LEMMA BeginFields ==
  ASSUME TypeInv, NEW p \in Proc, NEW h \in Host, NEW d \in Db, Begin(p, h, d)
  PROVE  run' \in [Proc -> Run] /\ Alone(p) /\ Begins(p, h, d)
  <1> DEFINE r == [NoRun EXCEPT !.pc = "count", !.host = h, !.db = d]
  <1>1. r \in Run /\ r.pc = "count" /\ r.host = h /\ r.db = d /\ r.n = 0 /\ r.isset = FALSE
    BY NoRunType DEF Run, NoRun
  <1>2. run' = [run EXCEPT ![p] = r]
    BY DEF Begin
  <1> HIDE DEF r
  <1> QED
    BY <1>1, <1>2 DEF Alone, Begins, TypeInv, TypeOK

\* every way to end without a result,
LEMMA GiveUpFields ==
  ASSUME TypeInv, NEW p \in Proc, GiveUp(p)
  PROVE  run' \in [Proc -> Run] /\ Alone(p) /\ run'[p].pc = "idle"
  BY NoRunType DEF GiveUp, Alone, TypeInv, TypeOK

\* Count,
LEMMA CountFields ==
  ASSUME TypeInv, NEW p \in Proc, Count(p), FreshNumber(p) \in 1 .. MaxSnap
  PROVE  /\ run' \in [Proc -> Run] /\ Alone(p)
         /\ run'[p].pc = "take" /\ run'[p].host = run[p].host /\ run'[p].db = run[p].db
         /\ run'[p].n = FreshNumber(p)
         /\ run'[p].isset = (FileOf(p, FreshNumber(p) - 1) \in DOMAIN snaps)
         /\ run'[p].prev = Read(FileOf(p, FreshNumber(p) - 1))
  <1> DEFINE previous == FileOf(p, FreshNumber(p) - 1)
             n == FreshNumber(p)
             isset == previous \in DOMAIN snaps
             prev == Read(previous)
  <1>1. n \in 0 .. MaxSnap /\ isset \in BOOLEAN
    BY BoundAssumption
  <1>2. prev \in Contents
    BY DEF Read, TypeInv, TypeOK, Contents
  <1>3. run' = [run EXCEPT ![p].pc = "take", ![p].n = n, ![p].isset = isset, ![p].prev = prev]
    BY DEF Count
  <1> HIDE DEF n, isset, prev
  <1>4. run[p] \in Run
    BY DEF TypeInv, TypeOK
  <1>5. run'[p] = [run[p] EXCEPT !.pc = "take", !.n = n, !.isset = isset, !.prev = prev]
    BY <1>3 DEF TypeInv, TypeOK
  <1>6. /\ run'[p] \in Run
        /\ run'[p].pc = "take" /\ run'[p].host = run[p].host /\ run'[p].db = run[p].db
        /\ run'[p].n = n /\ run'[p].isset = isset /\ run'[p].prev = prev
    BY <1>1, <1>2, <1>4, <1>5 DEF Run
  <1>7. run' \in [Proc -> Run] /\ Alone(p)
    BY <1>3, <1>6 DEF TypeInv, TypeOK, Alone
  <1> QED
    BY <1>6, <1>7 DEF n, isset, prev

\* Take,
LEMMA TakeFields ==
  ASSUME TypeInv, NEW p \in Proc, Take(p)
  PROVE  \E content \in {[at |-> clock, db |-> run[p].db], Empty} :
         /\ content \in Contents
         /\ FileOf(p, run[p].n) \in File
         /\ snaps' = [f \in DOMAIN snaps \cup {FileOf(p, run[p].n)} |->
                        IF f = FileOf(p, run[p].n) THEN content ELSE snaps[f]]
         /\ run' \in [Proc -> Run] /\ Alone(p)
         /\ run'[p].pc = "compare" /\ run'[p].host = run[p].host /\ run'[p].db = run[p].db
         /\ run'[p].n = run[p].n /\ run'[p].isset = run[p].isset /\ run'[p].prev = run[p].prev
         /\ run'[p].cur = content
  <1>1. PICK content \in {[at |-> clock, db |-> run[p].db], Empty} :
          /\ snaps' = [f \in DOMAIN snaps \cup {FileOf(p, run[p].n)} |->
                        IF f = FileOf(p, run[p].n) THEN content ELSE snaps[f]]
          /\ run' = [run EXCEPT ![p].pc = "compare", ![p].cur = content]
    BY DEF Take
  <1>2. run[p] \in Run /\ run[p].pc = "take" /\ run[p].db \in Db /\ clock \in Time
    BY DEF TypeInv, TypeOK, RunInv, Take
  <1>3. content \in Contents
    BY <1>2 DEF Contents, Snapshot
  <1>4. FileOf(p, run[p].n) \in File
    BY <1>2 DEF FileOf, File, SimpleNames, TypeInv, RunInv
  <1>5. run'[p] = [run[p] EXCEPT !.pc = "compare", !.cur = content]
    BY <1>1 DEF TypeInv, TypeOK
  <1>6. /\ run'[p] \in Run
        /\ run'[p].pc = "compare" /\ run'[p].host = run[p].host /\ run'[p].db = run[p].db
        /\ run'[p].n = run[p].n /\ run'[p].isset = run[p].isset /\ run'[p].prev = run[p].prev
        /\ run'[p].cur = content
    BY <1>2, <1>3, <1>5 DEF Run
  <1>7. run' \in [Proc -> Run] /\ Alone(p)
    BY <1>1, <1>6 DEF TypeInv, TypeOK, Alone
  <1> QED
    BY <1>1, <1>3, <1>4, <1>6, <1>7

\* and Compare, with what it does to the report.
LEMMA CompareFields ==
  ASSUME TypeInv, NEW p \in Proc, Compare(p)
  PROVE  /\ run' \in [Proc -> Run] /\ Alone(p) /\ run'[p].pc = "idle"
         /\ run[p].host \in Host /\ run[p].pc = "compare" /\ run[p].n \in 1 .. MaxSnap
         /\ \A h \in Host : h # run[p].host => report'[h] = report[h]
         /\ \/ report'[run[p].host] = EmptyData
            \/ /\ run[p].prev \in Snapshot /\ run[p].cur \in Snapshot
               /\ report'[run[p].host]
                    = [db |-> run[p].db, from |-> run[p].prev, to |-> run[p].cur]
               /\ report'[run[p].host] \in Data
  <1>1. /\ run[p].pc = "compare" /\ run[p].host \in Host /\ run[p].db \in Db
        /\ run[p] \in Run /\ run[p].n \in 1 .. MaxSnap
    BY DEF Compare, TypeInv, TypeOK, RunInv
  <1>2. run' \in [Proc -> Run] /\ Alone(p) /\ run'[p].pc = "idle"
    BY NoRunType DEF Compare, Alone, TypeInv, TypeOK
  <1>3. run[p].prev \in Contents /\ run[p].cur \in Contents
    BY <1>1 DEF Run
  <1>4. \/ report' = [report EXCEPT ![run[p].host] = EmptyData]
        \/ /\ run[p].prev # Empty /\ run[p].cur # Empty
           /\ report' = [report EXCEPT ![run[p].host] =
                            [db |-> run[p].db, from |-> run[p].prev, to |-> run[p].cur]]
    BY DEF Compare
  <1>5. report \in [Host -> Data \cup {NoData, EmptyData}]
    BY DEF TypeInv, TypeOK
  <1> QED
    BY <1>1, <1>2, <1>3, <1>4, <1>5 DEF Contents, Data

\* Every step preserves the types and RunInv; the number of a new snapshot is a
\* count of files, plus one.
LEMMA TypeInvInductive ==
  ASSUME TypeInv, [Next]_vars, \A h \in Host : Cardinality(FilesOf(h)) \in Nat
  PROVE  TypeInv'
  <1>0. TypeOK /\ RunInv
    BY DEF TypeInv
  <1>1. ASSUME NEW p \in Proc, Alone(p), run' \in [Proc -> Run], TypeOK',
               /\ run'[p].pc # "idle" => run'[p].host \in Host /\ run'[p].db \in Db
               /\ run'[p].pc \in {"take", "compare"} => run'[p].n \in 1 .. MaxSnap
        PROVE  TypeInv'
    BY <1>0, <1>1 DEF TypeInv, RunInv, Alone
  <1>2. ASSUME NEW p \in Proc, NEW h \in Host, NEW d \in Db, Begin(p, h, d) PROVE TypeInv'
    <2>1. run' \in [Proc -> Run] /\ Alone(p) /\ Begins(p, h, d)
      BY <1>2, BeginFields
    <2>2. TypeOK'
      BY <2>1, <1>0, <1>2 DEF TypeOK, Begin
    <2> QED
      BY <2>1, <2>2, <1>1 DEF Begins
  <1>3. ASSUME NEW p \in Proc, GiveUp(p) PROVE TypeInv'
    <2>1. run' \in [Proc -> Run] /\ Alone(p) /\ run'[p].pc = "idle"
      BY <1>3, GiveUpFields
    <2>2. TypeOK'
      BY <2>1, <1>0, <1>3 DEF TypeOK, GiveUp
    <2> QED
      BY <2>1, <2>2, <1>1
  <1>4. ASSUME NEW p \in Proc, Count(p) PROVE TypeInv'
    <2>0. run[p].pc = "count" /\ run[p].host \in Host /\ run[p].db \in Db
      BY <1>0, <1>4 DEF Count, RunInv
    <2>1. FreshNumber(p) \in 1 .. MaxSnap
      BY <2>0, <1>4, BoundAssumption DEF Count, FreshNumber
    <2>2. /\ run' \in [Proc -> Run] /\ Alone(p)
          /\ run'[p].pc = "take" /\ run'[p].host = run[p].host /\ run'[p].db = run[p].db
          /\ run'[p].n = FreshNumber(p)
      BY <2>1, <1>4, CountFields
    <2>3. TypeOK'
      BY <2>0, <2>2, <1>0, <1>4 DEF TypeOK, Count
    <2> QED
      BY <2>0, <2>1, <2>2, <2>3, <1>1
  <1>5. ASSUME NEW p \in Proc, Take(p) PROVE TypeInv'
    <2>0. run[p].pc = "take" /\ run[p].host \in Host /\ run[p].db \in Db
          /\ run[p].n \in 1 .. MaxSnap
      BY <1>0, <1>5 DEF Take, RunInv
    <2> DEFINE file == FileOf(p, run[p].n)
    <2>1. PICK content \in {[at |-> clock, db |-> run[p].db], Empty} :
         /\ content \in Contents /\ file \in File
         /\ snaps' = [f \in DOMAIN snaps \cup {file} |->
                        IF f = file THEN content ELSE snaps[f]]
         /\ run' \in [Proc -> Run] /\ Alone(p)
         /\ run'[p].pc = "compare" /\ run'[p].host = run[p].host /\ run'[p].db = run[p].db
         /\ run'[p].n = run[p].n
      BY <1>5, TakeFields
    <2> HIDE DEF file
    <2>2. DOMAIN snaps' \subseteq File /\ \A f \in DOMAIN snaps' : snaps'[f] \in Contents
      BY <2>1, <1>0 DEF TypeOK
    <2>3. TypeOK'
      BY <2>1, <2>2, <1>0, <1>5 DEF TypeOK, Take
    <2> QED
      BY <2>0, <2>1, <2>3, <1>1
  <1>6. ASSUME NEW p \in Proc, Compare(p) PROVE TypeInv'
    <2>1. /\ run' \in [Proc -> Run] /\ Alone(p) /\ run'[p].pc = "idle"
          /\ \A h \in Host : report'[h] \in Data \cup {NoData, EmptyData}
      BY <1>0, <1>6, CompareFields DEF TypeOK
    <2>2. DOMAIN report' = Host /\ report' = [h \in Host |-> report'[h]]
      BY <1>0, <1>6 DEF TypeOK, Compare
    <2>3. TypeOK'
      BY <2>1, <2>2, <1>0, <1>6 DEF TypeOK, Compare
    <2> QED
      BY <2>1, <2>3, <1>1
  <1>7. CASE Tick
    BY <1>0, <1>7, BoundAssumption DEF TypeInv, TypeOK, RunInv, Tick, Time
  <1>8. CASE UNCHANGED vars
    BY <1>0, <1>8 DEF TypeInv, TypeOK, RunInv, vars
  <1> QED
    BY <1>2, <1>3, <1>4, <1>5, <1>6, <1>7, <1>8
    DEF Next, CheckStep, NoExtension, NeedTwoRuns, NoPeriod, NoPrevious, Die

\* There are finitely many snapshots.
Finite == IsFiniteSet(DOMAIN snaps)

\* So the files of a host can be counted.
LEMMA FilesOfFinite ==
  ASSUME Finite, NEW h
  PROVE  IsFiniteSet(FilesOf(h)) /\ Cardinality(FilesOf(h)) \in Nat
  <1>1. FilesOf(h) \in SUBSET DOMAIN snaps
    BY DEF FilesOf
  <1>2. IsFiniteSet(FilesOf(h))
    BY <1>1, FS_Subset DEF Finite
  <1> QED
    BY <1>2, FS_CardinalityType

\* Every step preserves Finite: Take makes one file.
LEMMA FiniteInductive ==
  ASSUME Finite, [Next]_vars
  PROVE  Finite'
  <1>1. ASSUME NEW p \in Proc, Take(p) PROVE Finite'
    <2>1. DOMAIN snaps' = DOMAIN snaps \cup {FileOf(p, run[p].n)}
      BY <1>1 DEF Take
    <2> QED
      BY <2>1, FS_AddElement DEF Finite
  <1>2. CASE UNCHANGED snaps
    BY <1>2 DEF Finite
  <1> QED
    BY <1>1, <1>2
    DEF Next, CheckStep, NoExtension, NeedTwoRuns, NoPeriod, NoPrevious, Die, GiveUp, Begin,
        Count, Compare, Tick, vars

\* The types, with Finite.
Base == TypeInv /\ Finite

\* Base holds initially.
LEMMA BaseInit == Init => Base
  <1> SUFFICES ASSUME Init PROVE Base
    OBVIOUS
  <1>1. DOMAIN snaps = {} /\ Finite
    BY FS_EmptySet DEF Init, Finite
  <1>2. TypeInv
    BY <1>1, NoRunType, BoundAssumption DEF Init, TypeInv, TypeOK, RunInv, Time
  <1> QED
    BY <1>1, <1>2 DEF Base

\* Every step preserves Base.
LEMMA BaseInductive == Base /\ [Next]_vars => Base'
  BY FilesOfFinite, FiniteInductive, TypeInvInductive DEF Base

\* Every variable has its type in every behaviour (K000_query_analysis.sh).
THEOREM TypeCorrect == Spec => []TypeOK
  <1>1. Base => TypeOK
    BY DEF Base, TypeInv
  <1> QED
    BY <1>1, BaseInit, BaseInductive, PTL DEF Spec

\* The numbers of the files of a host are those from 1 to their count, each used
\* once.
NumbersInv ==
  \A h \in Host \ together :
    /\ \A f, g \in FilesOf(h) : f.n = g.n => f = g
    /\ \A f \in FilesOf(h) : f.n <= Cardinality(FilesOf(h))
    /\ \A k \in 1 .. Cardinality(FilesOf(h)) : \E f \in FilesOf(h) : f.n = k

\* The check p has a number, and no file yet.
Taking(p) == run[p].pc = "take" /\ run[p].host \notin together

\* The number is the next one, and no other check of the host has one.
TakeInv ==
  /\ \A p \in Proc : Taking(p) => run[p].n = Cardinality(FilesOf(run[p].host)) + 1
  /\ \A p, q \in Proc : Taking(p) /\ Taking(q) /\ run[p].host = run[q].host => p = q

\* The variables of a check are what its files hold: prev_json_object, if it is
\* set, and json_object.
ReadInv ==
  \A p \in Proc : run[p].host \notin together =>
    /\ run[p].pc \in {"take", "compare"} /\ run[p].isset =>
         /\ FileOf(p, run[p].n - 1) \in DOMAIN snaps
         /\ snaps[FileOf(p, run[p].n - 1)] = run[p].prev
    /\ run[p].pc = "compare" =>
         /\ FileOf(p, run[p].n) \in DOMAIN snaps
         /\ snaps[FileOf(p, run[p].n)] = run[p].cur

\* Take makes a new file, with the next number, unless two checks were numbering
\* at once.
LEMMA TakeNew ==
  ASSUME Base, NumbersInv, TakeInv, NEW p \in Proc, Take(p),
         NEW h \in Host \ together, h = run[p].host
  PROVE  /\ FileOf(p, run[p].n) \notin DOMAIN snaps
         /\ FilesOf(h)' = FilesOf(h) \cup {FileOf(p, run[p].n)}
         /\ Cardinality(FilesOf(h)') = Cardinality(FilesOf(h)) + 1
         /\ run[p].n = Cardinality(FilesOf(h)) + 1
         /\ Cardinality(FilesOf(h)) \in Nat
  <1> DEFINE file == FileOf(p, run[p].n)
  <1>1. run[p].pc = "take"
    BY DEF Take
  <1>2. run[p].n = Cardinality(FilesOf(h)) + 1 /\ Cardinality(FilesOf(h)) \in Nat
    BY <1>1, FilesOfFinite DEF TakeInv, Taking, Base
  <1>3. file.n = run[p].n /\ file.host = h
    BY DEF FileOf
  <1>4. file \notin FilesOf(h)
    BY <1>1, <1>2, <1>3 DEF NumbersInv
  <1>5. file \notin DOMAIN snaps
    BY <1>3, <1>4 DEF FilesOf
  <1>6. DOMAIN snaps' = DOMAIN snaps \cup {file}
    BY DEF Take
  <1>7. FilesOf(h)' = FilesOf(h) \cup {file}
    BY <1>3, <1>6 DEF FilesOf
  <1>8. IsFiniteSet(FilesOf(h))
    BY FilesOfFinite DEF Base
  <1>9. Cardinality(FilesOf(h) \cup {file}) = Cardinality(FilesOf(h)) + 1
    BY <1>4, <1>8, FS_AddElement
  <1> HIDE DEF file
  <1>10. Cardinality(FilesOf(h)') = Cardinality(FilesOf(h)) + 1
    BY <1>7, <1>9
  <1> QED
    BY <1>2, <1>5, <1>7, <1>10 DEF file

\* Take leaves the files of other hosts alone,
LEMMA TakeOthers ==
  ASSUME NEW p \in Proc, Take(p), NEW h \in Host, h # run[p].host
  PROVE  FilesOf(h)' = FilesOf(h) /\ \A f \in FilesOf(h) : snaps'[f] = snaps[f]
  <1>1. DOMAIN snaps' = DOMAIN snaps \cup {FileOf(p, run[p].n)}
    BY DEF Take
  <1>2. FileOf(p, run[p].n).host = run[p].host
    BY DEF FileOf
  <1>3. \A f \in DOMAIN snaps : f # FileOf(p, run[p].n) => snaps'[f] = snaps[f]
    BY DEF Take
  <1> QED
    BY <1>1, <1>2, <1>3 DEF FilesOf

\* and, of its own host, those that were there.
LEMMA TakeKeeps ==
  ASSUME Base, NumbersInv, TakeInv, NEW p \in Proc, Take(p),
         NEW f \in DOMAIN snaps, f.host \notin together
  PROVE  f \in DOMAIN snaps' /\ snaps'[f] = snaps[f]
  <1>1. f.host \in Host
    BY DEF Base, TypeInv, TypeOK, File
  <1>2. /\ f \in DOMAIN snaps'
        /\ f # FileOf(p, run[p].n) => snaps'[f] = snaps[f]
    BY DEF Take
  <1>3. CASE f.host = run[p].host
    <2>1. FileOf(p, run[p].n) \notin DOMAIN snaps
      BY <1>1, <1>3, TakeNew
    <2> QED
      BY <1>2, <2>1
  <1>4. CASE f.host # run[p].host
    <2>1. f # FileOf(p, run[p].n)
      BY <1>4 DEF FileOf
    <2> QED
      BY <1>2, <2>1
  <1> QED
    BY <1>3, <1>4

\* Every step preserves NumbersInv.
LEMMA NumbersInductive ==
  ASSUME Base, NumbersInv, TakeInv, [Next]_vars
  PROVE  NumbersInv'
  <1>1. ASSUME NEW p \in Proc, Take(p) PROVE NumbersInv'
    <2>1. together' = together
      BY <1>1 DEF Take
    <2>2. ASSUME NEW h \in Host \ together, h # run[p].host
          PROVE  FilesOf(h)' = FilesOf(h)
      BY <1>1, <2>2, TakeOthers
    <2>3. ASSUME NEW h \in Host \ together, h = run[p].host
          PROVE  /\ \A f, g \in FilesOf(h)' : f.n = g.n => f = g
                 /\ \A f \in FilesOf(h)' : f.n <= Cardinality(FilesOf(h)')
                 /\ \A k \in 1 .. Cardinality(FilesOf(h)') : \E f \in FilesOf(h)' : f.n = k
      <3> DEFINE file == FileOf(p, run[p].n)
                 old == FilesOf(h)
                 size == Cardinality(old)
      <3>1. /\ FilesOf(h)' = old \cup {file} /\ size \in Nat
            /\ Cardinality(FilesOf(h)') = size + 1
        BY <1>1, <2>3, TakeNew
      <3>2. file.n = size + 1
        <4>1. file.n = run[p].n
          BY DEF FileOf
        <4> QED
          BY <4>1, <1>1, <2>3, TakeNew
      <3>3. /\ \A f, g \in old : f.n = g.n => f = g
            /\ \A f \in old : f.n <= size
            /\ \A k \in 1 .. size : \E f \in old : f.n = k
        BY DEF NumbersInv
      <3>4. \A f \in old : f.n \in Nat
        BY DEF FilesOf, Base, TypeInv, TypeOK, File
      <3> HIDE DEF file, old, size
      <3>5. \A f, g \in FilesOf(h)' : f.n = g.n => f = g
        BY <3>1, <3>2, <3>3, <3>4
      <3>6. \A f \in FilesOf(h)' : f.n <= size + 1
        BY <3>1, <3>2, <3>3, <3>4
      <3>7. \A k \in 1 .. size + 1 : \E f \in FilesOf(h)' : f.n = k
        <4> TAKE k \in 1 .. size + 1
        <4>1. CASE k = size + 1
          BY <4>1, <3>1, <3>2
        <4>2. CASE k \in 1 .. size
          BY <4>2, <3>1, <3>3
        <4> QED
          BY <4>1, <4>2, <3>1
      <3>8. Cardinality(FilesOf(h)') = size + 1
        BY <3>1
      <3>9. \A f \in FilesOf(h)' : f.n <= Cardinality(FilesOf(h)')
        BY <3>6, <3>8
      <3>10. \A k \in 1 .. Cardinality(FilesOf(h)') : \E f \in FilesOf(h)' : f.n = k
        BY <3>7, <3>8
      <3> QED
        BY <3>5, <3>9, <3>10
    <2> QED
      BY <2>1, <2>2, <2>3 DEF NumbersInv
  <1>2. CASE UNCHANGED snaps /\ together \subseteq together'
    BY <1>2 DEF NumbersInv, FilesOf
  <1> QED
    BY <1>1, <1>2
    DEF Next, CheckStep, NoExtension, NeedTwoRuns, NoPeriod, NoPrevious, Die, GiveUp, Begin,
        Count, Compare, Tick, vars

\* The number Count finds is one that a snapshot can have.
LEMMA CountNumber ==
  ASSUME Base, NEW p \in Proc, Count(p)
  PROVE  /\ run[p].pc = "count" /\ run[p].host \in Host /\ run[p].db \in Db
         /\ FreshNumber(p) \in 1 .. MaxSnap
  BY FilesOfFinite, BoundAssumption DEF Base, TypeInv, RunInv, Count, FreshNumber

\* Every step preserves TakeInv: Count, which gives a number, is the step that
\* `together` is about.
LEMMA TakeInductive ==
  ASSUME Base, NumbersInv, TakeInv, [Next]_vars
  PROVE  TakeInv'
  <1>1. ASSUME NEW p \in Proc, Alone(p), run'[p].pc # "take", UNCHANGED <<snaps, together>>
        PROVE  TakeInv'
    BY <1>1, ZenonT(60) DEF TakeInv, Taking, FilesOf, Alone
  <1>2. ASSUME NEW p \in Proc, NEW h \in Host, NEW d \in Db, Begin(p, h, d) PROVE TakeInv'
    BY <1>1, <1>2, BeginFields DEF Begin, Begins, Base
  <1>3. ASSUME NEW p \in Proc, GiveUp(p) PROVE TakeInv'
    BY <1>1, <1>3, GiveUpFields DEF GiveUp, Base
  <1>4. ASSUME NEW p \in Proc, Compare(p) PROVE TakeInv'
    BY <1>1, <1>4, CompareFields DEF Compare, Base
  <1>5. ASSUME NEW p \in Proc, Count(p) PROVE TakeInv'
    <2> DEFINE h == run[p].host
    <2>1. /\ Alone(p) /\ run'[p].pc = "take" /\ run'[p].host = h
          /\ run'[p].n = FreshNumber(p)
      BY <1>5, CountNumber, CountFields DEF Base
    <2>2. snaps' = snaps /\ together \subseteq together'
      BY <1>5 DEF Count
    <2>3. h \notin together' => \A q \in Proc \ {p} : ~(run[q].pc = "take" /\ run[q].host = h)
      BY <1>5 DEF Count
    <2>4. FreshNumber(p) = Cardinality(FilesOf(h)) + 1
      BY DEF FreshNumber
    <2>5. \A q \in Proc \ {p} : Taking(q)' => Taking(q)
      BY <2>1, <2>2 DEF Alone, Taking
    <2>6. \A q \in Proc : Taking(q)' => run'[q].n = Cardinality(FilesOf(run[q].host)) + 1
      BY <2>1, <2>4, <2>5 DEF TakeInv, Alone
    <2>7. \A q \in Proc : FilesOf(run[q].host)' = FilesOf(run[q].host)
      BY <2>1, <2>2 DEF FilesOf, Alone
    <2>8. \A q, r \in Proc : Taking(q)' /\ Taking(r)' /\ run'[q].host = run'[r].host => q = r
      BY <2>1, <2>3, <2>5 DEF TakeInv, Alone, Taking
    <2> QED
      BY <2>6, <2>7, <2>8 DEF TakeInv
  <1>6. ASSUME NEW p \in Proc, Take(p) PROVE TakeInv'
    <2>1. Alone(p) /\ run'[p].pc = "compare" /\ run[p].pc = "take" /\ run[p].host \in Host
      BY <1>6, TakeFields DEF Base, Take, TypeInv, RunInv
    <2>2. together' = together
      BY <1>6 DEF Take
    <2>3. ASSUME NEW q \in Proc, Taking(q)'
          PROVE  /\ Taking(q) /\ run'[q] = run[q] /\ run[q].host # run[p].host
                 /\ run[q].host \in Host
      BY <2>1, <2>2, <2>3 DEF Taking, Alone, TakeInv, Base, TypeInv, RunInv
    <2>4. ASSUME NEW q \in Proc, Taking(q)'
          PROVE  run'[q].n = Cardinality(FilesOf(run[q].host)') + 1
      <3> DEFINE h == run[q].host
      <3>1. run'[q].host = h /\ h \in Host /\ h # run[p].host
        BY <2>3, <2>4
      <3>2. \A g \in Host : g # run[p].host => FilesOf(g)' = FilesOf(g)
        BY <1>6, TakeOthers
      <3>3. FilesOf(run[q].host)' = FilesOf(h)
        BY <3>1, <3>2
      <3> QED
        BY <3>3, <2>3, <2>4 DEF TakeInv
    <2> QED
      BY <2>3, <2>4 DEF TakeInv
  <1>7. CASE UNCHANGED <<snaps, run, together>>
    BY <1>7 DEF TakeInv, Taking, FilesOf
  <1> QED
    BY <1>2, <1>3, <1>4, <1>5, <1>6, <1>7
    DEF Next, CheckStep, NoExtension, NeedTwoRuns, NoPeriod, NoPrevious, Die, Tick, vars

\* Every step preserves ReadInv: nobody writes the two files again.
LEMMA ReadInductive ==
  ASSUME Base, NumbersInv, TakeInv, ReadInv, [Next]_vars
  PROVE  ReadInv'
  <1>1. ASSUME NEW p \in Proc, Alone(p), run'[p].pc \notin {"take", "compare"},
               UNCHANGED <<snaps, together>>
        PROVE  ReadInv'
    BY <1>1 DEF ReadInv, FileOf, Alone
  <1>2. ASSUME NEW p \in Proc, NEW h \in Host, NEW d \in Db, Begin(p, h, d) PROVE ReadInv'
    BY <1>1, <1>2, BeginFields DEF Begin, Begins, Base
  <1>3. ASSUME NEW p \in Proc, GiveUp(p) PROVE ReadInv'
    BY <1>1, <1>3, GiveUpFields DEF GiveUp, Base
  <1>4. ASSUME NEW p \in Proc, Compare(p) PROVE ReadInv'
    BY <1>1, <1>4, CompareFields DEF Compare, Base
  <1>5. ASSUME NEW p \in Proc, Count(p) PROVE ReadInv'
    <2> DEFINE n == FreshNumber(p)
    <2>1. /\ Alone(p) /\ run'[p].pc = "take" /\ run'[p].host = run[p].host
          /\ run'[p].db = run[p].db /\ run'[p].n = n
          /\ run'[p].isset = (FileOf(p, n - 1) \in DOMAIN snaps)
          /\ run'[p].prev = Read(FileOf(p, n - 1))
      BY <1>5, CountNumber, CountFields DEF Base
    <2>2. snaps' = snaps /\ together \subseteq together'
      BY <1>5 DEF Count
    <2>3. FileOf(p, n - 1)
            = [host |-> run'[p].host, name |-> SimpleName[run'[p].db], n |-> run'[p].n - 1]
      BY <2>1 DEF FileOf
    <2> HIDE DEF n
    <2>4. run'[p].isset =>
            LET file == [host |-> run'[p].host, name |-> SimpleName[run'[p].db],
                         n |-> run'[p].n - 1]
            IN  file \in DOMAIN snaps' /\ snaps'[file] = run'[p].prev
      BY <2>1, <2>2, <2>3 DEF Read
    <2> QED
      BY <2>1, <2>2, <2>4 DEF ReadInv, FileOf, Alone
  <1>6. ASSUME NEW p \in Proc, Take(p) PROVE ReadInv'
    <2>0. run[p].pc = "take" /\ together' = together /\ run[p].host \in Host
      BY <1>6 DEF Take, Base, TypeInv, RunInv
    <2> DEFINE file == FileOf(p, run[p].n)
    <2>1. PICK content \in {[at |-> clock, db |-> run[p].db], Empty} :
         /\ snaps' = [f \in DOMAIN snaps \cup {file} |->
                        IF f = file THEN content ELSE snaps[f]]
         /\ Alone(p)
         /\ run'[p].pc = "compare" /\ run'[p].host = run[p].host /\ run'[p].db = run[p].db
         /\ run'[p].n = run[p].n /\ run'[p].isset = run[p].isset /\ run'[p].prev = run[p].prev
         /\ run'[p].cur = content
      BY <1>6, TakeFields DEF Base
    <2>2. ASSUME NEW f \in DOMAIN snaps, f.host \notin together
          PROVE  f \in DOMAIN snaps' /\ snaps'[f] = snaps[f]
      BY <1>6, <2>2, TakeKeeps
    <2>3. \A q \in Proc : \A k : FileOf(q, k).host = run[q].host
      BY DEF FileOf
    <2>4. ASSUME NEW q \in Proc
          PROVE  FileOf(q, run[q].n)' = FileOf(q, run[q].n)
                 /\ FileOf(q, run[q].n - 1)' = FileOf(q, run[q].n - 1)
                 /\ run'[q].host = run[q].host
      BY <2>1 DEF FileOf, Alone
    <2>5. file \in DOMAIN snaps' /\ snaps'[file] = content
      BY <2>1
    <2> HIDE DEF file
    <2>6. ASSUME NEW q \in Proc, q # p, run[q].host \notin together
          PROVE  /\ run'[q].pc \in {"take", "compare"} /\ run'[q].isset =>
                      /\ FileOf(q, run[q].n - 1) \in DOMAIN snaps'
                      /\ snaps'[FileOf(q, run[q].n - 1)] = run'[q].prev
                 /\ run'[q].pc = "compare" =>
                      /\ FileOf(q, run[q].n) \in DOMAIN snaps'
                      /\ snaps'[FileOf(q, run[q].n)] = run'[q].cur
      BY <2>1, <2>2, <2>3, <2>6 DEF ReadInv, Alone
    <2>7. ASSUME run[p].host \notin together
          PROVE  /\ run'[p].isset =>
                      /\ FileOf(p, run[p].n - 1) \in DOMAIN snaps'
                      /\ snaps'[FileOf(p, run[p].n - 1)] = run'[p].prev
                 /\ FileOf(p, run[p].n) \in DOMAIN snaps'
                 /\ snaps'[FileOf(p, run[p].n)] = run'[p].cur
      BY <2>0, <2>1, <2>2, <2>3, <2>5, <2>7 DEF ReadInv, file
    <2> SUFFICES ASSUME NEW q \in Proc, run'[q].host \notin together
                 PROVE  /\ run'[q].pc \in {"take", "compare"} /\ run'[q].isset =>
                             /\ FileOf(q, run[q].n - 1)' \in DOMAIN snaps'
                             /\ snaps'[FileOf(q, run[q].n - 1)'] = run'[q].prev
                        /\ run'[q].pc = "compare" =>
                             /\ FileOf(q, run[q].n)' \in DOMAIN snaps'
                             /\ snaps'[FileOf(q, run[q].n)'] = run'[q].cur
      BY <2>0 DEF ReadInv
    <2> QED
      BY <2>4, <2>6, <2>7
  <1>7. CASE UNCHANGED <<snaps, run, together>>
    BY <1>7 DEF ReadInv, FileOf
  <1> QED
    BY <1>2, <1>3, <1>4, <1>5, <1>6, <1>7
    DEF Next, CheckStep, NoExtension, NeedTwoRuns, NoPeriod, NoPrevious, Die, Tick, vars

\* A snapshot is in a file with the simple name of its database, and json_object
\* is a snapshot of the database of the check.
NamesInv ==
  /\ \A f \in DOMAIN snaps : snaps[f] # Empty => SimpleName[snaps[f].db] = f.name
  /\ \A p \in Proc : run[p].pc = "compare" /\ run[p].cur # Empty => run[p].cur.db = run[p].db

\* Every step preserves NamesInv.
LEMMA NamesInductive ==
  ASSUME Base, NamesInv, [Next]_vars
  PROVE  NamesInv'
  <1>1. ASSUME NEW p \in Proc, Alone(p), run'[p].pc # "compare", UNCHANGED snaps
        PROVE  NamesInv'
    BY <1>1 DEF NamesInv, Alone
  <1>2. ASSUME NEW p \in Proc, NEW h \in Host, NEW d \in Db, Begin(p, h, d) PROVE NamesInv'
    BY <1>1, <1>2, BeginFields DEF Begin, Begins, Base
  <1>3. ASSUME NEW p \in Proc, GiveUp(p) PROVE NamesInv'
    BY <1>1, <1>3, GiveUpFields DEF GiveUp, Base
  <1>4. ASSUME NEW p \in Proc, Compare(p) PROVE NamesInv'
    BY <1>1, <1>4, CompareFields DEF Compare, Base
  <1>5. ASSUME NEW p \in Proc, Count(p) PROVE NamesInv'
    BY <1>1, <1>5, CountNumber, CountFields DEF Count, Base
  <1>6. ASSUME NEW p \in Proc, Take(p) PROVE NamesInv'
    <2>1. PICK content \in {[at |-> clock, db |-> run[p].db], Empty} :
         /\ snaps' = [f \in DOMAIN snaps \cup {FileOf(p, run[p].n)} |->
                        IF f = FileOf(p, run[p].n) THEN content ELSE snaps[f]]
         /\ Alone(p) /\ run'[p].db = run[p].db /\ run'[p].cur = content
      BY <1>6, TakeFields DEF Base
    <2>2. FileOf(p, run[p].n).name = SimpleName[run[p].db]
      BY DEF FileOf
    <2>3. content # Empty => content.db = run[p].db
      OBVIOUS
    <2> QED
      BY <2>1, <2>2, <2>3 DEF NamesInv, Alone
  <1>7. CASE UNCHANGED <<snaps, run>>
    BY <1>7 DEF NamesInv
  <1> QED
    BY <1>2, <1>3, <1>4, <1>5, <1>6, <1>7
    DEF Next, CheckStep, NoExtension, NeedTwoRuns, NoPeriod, NoPrevious, Die, Tick, vars

\* Every step preserves ComparesNeighbours: Compare has what it needs from
\* ReadInv and NamesInv, and the files it compared stay.
LEMMA ComparesInductive ==
  ASSUME Base, NumbersInv, TakeInv, ReadInv, NamesInv, ComparesNeighbours, [Next]_vars
  PROVE  ComparesNeighbours'
  <1>1. ASSUME NEW p \in Proc, Take(p) PROVE ComparesNeighbours'
    <2>1. report' = report /\ together' = together
      BY <1>1 DEF Take
    <2>2. ASSUME NEW h \in Host \ together, NEW f \in FilesOf(h)
          PROVE  f \in FilesOf(h)' /\ snaps'[f] = snaps[f]
      <3>1. f \in DOMAIN snaps /\ f.host = h
        BY DEF FilesOf
      <3>2. f \in DOMAIN snaps' /\ snaps'[f] = snaps[f]
        BY <3>1, <1>1, TakeKeeps
      <3> QED
        BY <3>1, <3>2 DEF FilesOf
    <2> QED
      BY <2>1, <2>2 DEF ComparesNeighbours
  <1>2. ASSUME NEW p \in Proc, Compare(p) PROVE ComparesNeighbours'
    <2> DEFINE h == run[p].host
               n == run[p].n
    <2>1. /\ h \in Host /\ run[p].pc = "compare" /\ n \in 1 .. MaxSnap /\ n > 1
          /\ run[p].isset /\ HasPeriod(p)
          /\ UNCHANGED <<snaps, together>>
      BY <1>2, CompareFields DEF Compare, Base
    <2>2. /\ \A g \in Host : g # h => report'[g] = report[g]
          /\ \/ report'[h] = EmptyData
             \/ /\ run[p].prev \in Snapshot /\ run[p].cur \in Snapshot
                /\ report'[h] = [db |-> run[p].db, from |-> run[p].prev, to |-> run[p].cur]
      BY <1>2, CompareFields DEF Base
    <2>3. ASSUME h \notin together, run[p].prev \in Snapshot, run[p].cur \in Snapshot
          PROVE  /\ FileOf(p, n - 1) \in FilesOf(h) /\ snaps[FileOf(p, n - 1)] = run[p].prev
                 /\ FileOf(p, n) \in FilesOf(h) /\ snaps[FileOf(p, n)] = run[p].cur
                 /\ run[p].prev.at < run[p].cur.at
                 /\ run[p].prev.db \in Db /\ SimpleName[run[p].prev.db] = SimpleName[run[p].db]
                 /\ run[p].cur.db = run[p].db
      <3>1. /\ FileOf(p, n - 1) \in DOMAIN snaps /\ snaps[FileOf(p, n - 1)] = run[p].prev
            /\ FileOf(p, n) \in DOMAIN snaps /\ snaps[FileOf(p, n)] = run[p].cur
        BY <2>1, <2>3 DEF ReadInv
      <3>2. /\ FileOf(p, n - 1).host = h /\ FileOf(p, n).host = h
            /\ FileOf(p, n - 1).name = SimpleName[run[p].db]
        BY DEF FileOf
      <3>3. Seconds(FileOf(p, n)) > Seconds(FileOf(p, n - 1))
        BY <2>1 DEF HasPeriod
      <3>4. /\ run[p].prev.at \in Nat \ {0} /\ run[p].cur.at \in Nat \ {0}
            /\ run[p].prev.db \in Db
        BY <2>3 DEF Snapshot, Time
      <3>5. run[p].prev # Empty /\ run[p].cur # Empty
        BY <3>4 DEF Empty
      <3>6. SimpleName[run[p].prev.db] = SimpleName[run[p].db] /\ run[p].cur.db = run[p].db
        BY <2>1, <3>1, <3>2, <3>5 DEF NamesInv
      <3>7. run[p].prev.at < run[p].cur.at
        BY <3>1, <3>3, <3>4 DEF Seconds, Read
      <3> QED
        BY <3>1, <3>2, <3>4, <3>6, <3>7 DEF FilesOf
    <2>4. /\ FileOf(p, n - 1).name = SimpleName[run[p].db] /\ FileOf(p, n - 1).n = n - 1
          /\ FileOf(p, n).name = SimpleName[run[p].db] /\ FileOf(p, n).n = n
          /\ n = (n - 1) + 1
      BY <2>1 DEF FileOf
    <2>5. ASSUME h \notin together, report'[h] \notin {NoData, EmptyData}
          PROVE  /\ report'[h].from.at < report'[h].to.at
                 /\ report'[h].to.db = report'[h].db
                 /\ (\A d \in Db \ {report'[h].db} : SimpleName[d] # SimpleName[report'[h].db])
                    => report'[h].from.db = report'[h].db
                 /\ \E f, g \in FilesOf(h) :
                      /\ f.name = SimpleName[report'[h].db] /\ snaps[f] = report'[h].from
                      /\ g.name = SimpleName[report'[h].db] /\ snaps[g] = report'[h].to
                      /\ g.n = f.n + 1
      <3>1. /\ report'[h].db = run[p].db /\ report'[h].from = run[p].prev
            /\ report'[h].to = run[p].cur
            /\ run[p].prev \in Snapshot /\ run[p].cur \in Snapshot
        BY <2>2, <2>5
      <3> HIDE DEF h, n
      <3>2. \E f, g \in FilesOf(h) :
              /\ f.name = SimpleName[run[p].db] /\ snaps[f] = run[p].prev
              /\ g.name = SimpleName[run[p].db] /\ snaps[g] = run[p].cur
              /\ g.n = f.n + 1
        BY <3>1, <2>3, <2>4, <2>5
      <3> QED
        BY <3>1, <3>2, <2>3, <2>5
    <2>6. \A g \in Host : FilesOf(g)' = FilesOf(g)
      BY <2>1 DEF FilesOf
    <2> SUFFICES ASSUME NEW g \in Host \ together, report'[g] \notin {NoData, EmptyData}
                 PROVE  /\ report'[g].from.at < report'[g].to.at
                        /\ report'[g].to.db = report'[g].db
                        /\ (\A d \in Db \ {report'[g].db} :
                              SimpleName[d] # SimpleName[report'[g].db])
                           => report'[g].from.db = report'[g].db
                        /\ \E f, e \in FilesOf(g) :
                             /\ f.name = SimpleName[report'[g].db] /\ snaps[f] = report'[g].from
                             /\ e.name = SimpleName[report'[g].db] /\ snaps[e] = report'[g].to
                             /\ e.n = f.n + 1
      BY <2>1, <2>6 DEF ComparesNeighbours
    <2>7. CASE g = h
      BY <2>5, <2>7
    <2>8. CASE g # h
      BY <2>2, <2>8 DEF ComparesNeighbours
    <2> QED
      BY <2>7, <2>8
  <1>3. CASE UNCHANGED <<snaps, report>> /\ together \subseteq together'
    BY <1>3 DEF ComparesNeighbours, FilesOf
  <1> QED
    BY <1>1, <1>2, <1>3
    DEF Next, CheckStep, NoExtension, NeedTwoRuns, NoPeriod, NoPrevious, Die, GiveUp, Begin,
        Count, Tick, vars

\* The inductive invariant.
Inv == Base /\ NumbersInv /\ TakeInv /\ ReadInv /\ NamesInv /\ ComparesNeighbours

\* Inv holds initially.
LEMMA InvInit == Init => Inv
  <1> SUFFICES ASSUME Init PROVE Inv
    OBVIOUS
  <1>1. Base /\ (\A h : FilesOf(h) = {}) /\ \A p \in Proc : run[p].pc = "idle"
    BY BaseInit, NoRunType DEF Init, FilesOf
  <1>2. NumbersInv
    BY <1>1, FS_EmptySet DEF NumbersInv
  <1>3. TakeInv /\ ReadInv /\ NamesInv
    BY <1>1 DEF Init, TakeInv, Taking, ReadInv, NamesInv
  <1>4. ComparesNeighbours
    BY DEF Init, ComparesNeighbours
  <1> QED
    BY <1>1, <1>2, <1>3, <1>4 DEF Inv

\* Every step preserves Inv.
LEMMA InvInductive == Inv /\ [Next]_vars => Inv'
  BY BaseInductive, NumbersInductive, TakeInductive, ReadInductive, NamesInductive,
     ComparesInductive
  DEF Inv

\* Inv holds in every behaviour.
THEOREM InvCorrect == Spec => []Inv
  BY InvInit, InvInductive, PTL DEF Spec

\* ComparesNeighbours: a result of K000 is the difference of two snapshots of the
\* host with neighbouring numbers and time between them, the later of the database
\* the result is about, the earlier of it too when its simple name is its own;
\* unless two checks of the host were numbering at once.
THEOREM ComparesNeighboursCorrect == Spec => []ComparesNeighbours
  <1>1. Inv => ComparesNeighbours
    BY DEF Inv
  <1> QED
    BY <1>1, InvCorrect, PTL

\* SnapshotKept: no step of any check changes a snapshot that is there, with the
\* same exception.
THEOREM SnapshotKeptCorrect == Spec => SnapshotKept
  <1> DEFINE Kept == \A f \in DOMAIN snaps :
       f.host \in together' \/ (f \in DOMAIN snaps' /\ snaps'[f] = snaps[f])
  <1>1. Inv /\ [Next]_vars => Kept
    <2> SUFFICES ASSUME Inv, [Next]_vars PROVE Kept
      OBVIOUS
    <2>1. ASSUME NEW p \in Proc, Take(p) PROVE Kept
      <3>1. together' = together
        BY <2>1 DEF Take
      <3> QED
        BY <2>1, <3>1, TakeKeeps DEF Inv
    <2>2. CASE UNCHANGED snaps
      BY <2>2
    <2> HIDE DEF Kept
    <2> QED
      BY <2>1, <2>2
      DEF Next, CheckStep, NoExtension, NeedTwoRuns, NoPeriod, NoPrevious, Die, GiveUp, Begin,
          Count, Compare, Tick, vars
  <1>2. [][Kept]_vars => SnapshotKept
    BY DEF SnapshotKept
  <1> HIDE DEF Kept
  <1> QED
    BY <1>1, <1>2, InvCorrect, PTL DEF Spec

-----------------------------------------------------------------------------
(* run_checkup.sh.                                                         *)

\* A step of the script is a step of the checks, or of none of them.
LEMMA DriverStep == [RunNext]_driverVars => [Next]_vars
  <1> SUFFICES ASSUME [RunNext]_driverVars PROVE [Next]_vars
    OBVIOUS
  <1>1. ASSUME NEW p \in Proc, NEW h \in Host, NEW d \in Db, Collect(p, h, d) PROVE Next
    BY <1>1 DEF Collect, Next
  <1>2. ASSUME NEW p \in Proc, Work(p) PROVE Next
    BY <1>2 DEF Work, Next
  <1>3. ASSUME NEW p \in Proc, Killed(p) PROVE Next
    BY <1>3 DEF Killed, Next
  <1>4. CASE Pause \/ Again
    BY <1>4 DEF Pause, Again, Next
  <1>5. CASE EndOfLoop \/ Process \/ Upload \/ UNCHANGED driverVars
    BY <1>5 DEF EndOfLoop, Process, Upload, driverVars
  <1> QED
    BY <1>1, <1>2, <1>3, <1>4, <1>5 DEF RunNext, CollectStep

\* The script implements Snapshots: every behaviour of run_checkup.sh is one of
\* `checkup collect` started at any time, so the theorems about Snapshots hold
\* of it.
THEOREM DriverCorrect == RunSpec => Spec
  <1>1. RunInit => Init
    BY DEF RunInit
  <1> QED
    BY <1>1, DriverStep, PTL DEF RunSpec, Spec

\* A check that has counted has found the previous snapshot, unless its own is
\* the first.
PreviousInv ==
  \A p \in Proc : run[p].pc \in {"take", "compare"} /\ run[p].host \notin together =>
    run[p].n = 1 \/ run[p].isset

\* Every step preserves it: among the files of the host, the one with the number
\* before is of the same database, the only one.
LEMMA PreviousInductive ==
  ASSUME Inv, PreviousInv, [Next]_vars, NEW d, Db = {d}
  PROVE  PreviousInv'
  <1>0. Base
    BY DEF Inv
  <1>1. ASSUME NEW p \in Proc, Alone(p), UNCHANGED together, run'[p].pc \notin {"take", "compare"}
        PROVE  PreviousInv'
    BY <1>1 DEF PreviousInv, Alone
  <1>2. ASSUME NEW p \in Proc, NEW h \in Host, NEW e \in Db, Begin(p, h, e) PROVE PreviousInv'
    BY <1>0, <1>1, <1>2, BeginFields DEF Begin, Begins, Base
  <1>3. ASSUME NEW p \in Proc, GiveUp(p) PROVE PreviousInv'
    BY <1>0, <1>1, <1>3, GiveUpFields DEF GiveUp, Base
  <1>4. ASSUME NEW p \in Proc, Compare(p) PROVE PreviousInv'
    BY <1>0, <1>1, <1>4, CompareFields DEF Compare, Base
  <1>5. ASSUME NEW p \in Proc, Count(p) PROVE PreviousInv'
    <2> DEFINE h == run[p].host
               n == FreshNumber(p)
    <2>1. /\ Alone(p) /\ run'[p].pc = "take" /\ run'[p].host = h /\ run'[p].n = n
          /\ run'[p].isset = (FileOf(p, n - 1) \in DOMAIN snaps)
      BY <1>0, <1>5, CountNumber, CountFields DEF Base
    <2>2. together \subseteq together'
      BY <1>5 DEF Count
    <2>3. h \in Host /\ run[p].db = d /\ n \in 1 .. MaxSnap
      BY <1>0, <1>5, CountNumber
    <2>4. ASSUME h \notin together, n # 1 PROVE FileOf(p, n - 1) \in DOMAIN snaps
      <3>1. Cardinality(FilesOf(h)) \in Nat /\ n = Cardinality(FilesOf(h)) + 1
        BY <1>0, FilesOfFinite DEF Base, FreshNumber
      <3>2. n - 1 \in 1 .. Cardinality(FilesOf(h))
        BY <2>3, <2>4, <3>1
      <3>3. PICK f \in FilesOf(h) : f.n = n - 1
        BY <2>3, <2>4, <3>2 DEF Inv, NumbersInv
      <3>4. f \in DOMAIN snaps /\ f \in File /\ f.host = h
        BY <1>0 DEF FilesOf, Base, TypeInv, TypeOK
      <3>5. f = FileOf(p, n - 1)
        BY <2>3, <3>3, <3>4 DEF File, FileOf, SimpleNames
      <3> QED
        BY <3>4, <3>5
    <2> HIDE DEF n
    <2>5. h \notin together => run'[p].n = 1 \/ run'[p].isset
      BY <2>1, <2>4
    <2> QED
      BY <2>1, <2>2, <2>5 DEF PreviousInv, Alone
  <1>6. ASSUME NEW p \in Proc, Take(p) PROVE PreviousInv'
    <2>1. /\ Alone(p) /\ run'[p].host = run[p].host /\ run'[p].n = run[p].n
          /\ run'[p].isset = run[p].isset
          /\ run[p].pc = "take" /\ UNCHANGED together
      BY <1>0, <1>6, TakeFields DEF Base, Take
    <2> QED
      BY <2>1 DEF PreviousInv, Alone
  <1>7. CASE UNCHANGED <<run, together>>
    BY <1>7 DEF PreviousInv
  <1> QED
    BY <1>2, <1>3, <1>4, <1>5, <1>6, <1>7
    DEF Next, CheckStep, NoExtension, NeedTwoRuns, NoPeriod, NoPrevious, Die, Tick, vars

\* PreviousFound, with one database: a second run in an epoch has the previous
\* snapshot to compare with (K000_query_analysis.sh: "To compare results, 2 runs
\* are needed").
THEOREM PreviousFoundCorrect ==
  ASSUME NEW d, Db = {d}
  PROVE  Spec => []PreviousFound
  <1>1. Init => PreviousInv
    BY NoRunType DEF Init, PreviousInv
  <1>2. Inv /\ PreviousInv /\ [Next]_vars => PreviousInv'
    BY PreviousInductive
  <1>3. Inv /\ PreviousInv => PreviousFound
    <2> SUFFICES ASSUME Inv, PreviousInv, NEW p \in Proc, run[p].pc = "compare",
                        run[p].host \notin together, NEW f \in FilesOf(run[p].host),
                        f.n < run[p].n
                 PROVE  run[p].isset
      BY DEF PreviousFound
    <2>1. f.n \in 1 .. MaxSnap
      BY DEF FilesOf, Inv, Base, TypeInv, TypeOK, File
    <2>2. run[p].n # 1
      BY <2>1
    <2> QED
      BY <2>2 DEF PreviousInv
  <1> QED
    BY <1>1, <1>2, <1>3, InvCorrect, PTL DEF Spec

\* A check of h is going on.
Active(h) == \E p \in Proc : run[p].pc # "idle" /\ run[p].host = h

\* One command at a time; a loop has not come to the hosts that it still has;
\* and no snapshot is of the future.
DriverInv ==
  /\ stage \in {"first", "pause", "second", "process", "upload", "done"}
  /\ hosts \subseteq Host /\ together = {}
  /\ \A p, q \in Proc : run[p].pc # "idle" /\ run[q].pc # "idle" => p = q
  /\ \A h \in hosts : ~Active(h)
  /\ stage \notin {"first", "second"} => AllIdle /\ hosts = {}
  /\ \A f \in DOMAIN snaps : snaps[f].at <= clock

\* The last snapshot of h holds data.
Snapped(h) == \E f \in FilesOf(h) : f.n = Cardinality(FilesOf(h)) /\ snaps[f] # Empty

\* All snapshots of h were taken before this second.
Older(h) == \A f \in FilesOf(h) : snaps[f].at < clock

\* The result of h compares its last snapshot with an earlier one.
Compared(h) ==
  /\ report[h] \notin {NoData, EmptyData}
  /\ \E f \in FilesOf(h) : f.n = Cardinality(FilesOf(h)) /\ snaps[f] = report[h].to

\* What is known of a host on which nothing failed, while its check is not going
\* on.
AtRest(h) ==
  /\ stage \in {"first", "pause"} /\ h \notin hosts /\ ~Active(h) => Snapped(h)
  /\ stage = "second" /\ h \in hosts => Snapped(h) /\ Older(h)
  /\ stage = "second" /\ h \notin hosts /\ ~Active(h) => Compared(h)
  /\ stage \in {"process", "upload", "done"} => Compared(h)

\* What is known of its check while it is.
AtWork(p) ==
  /\ stage = "second" /\ run[p].pc = "count" => Snapped(run[p].host) /\ Older(run[p].host)
  /\ stage = "second" /\ run[p].pc = "take" =>
       run[p].isset /\ run[p].n > 1 /\ run[p].prev # Empty /\ run[p].prev.at < clock
  /\ run[p].pc = "compare" =>
       run[p].n = Cardinality(FilesOf(run[p].host)) /\ run[p].cur # Empty
  /\ stage = "second" /\ run[p].pc = "compare" =>
       run[p].isset /\ run[p].n > 1 /\ run[p].prev # Empty /\ run[p].prev.at < run[p].cur.at

\* The invariant of the two loops.
LoopsInv ==
  /\ \A h \in Host \ failed : AtRest(h)
  /\ \A p \in Proc : run[p].host \notin failed => AtWork(p)

\* Every step preserves DriverInv.
LEMMA DriverInvInductive ==
  ASSUME Inv, DriverInv, [RunNext]_driverVars
  PROVE  DriverInv'
  <1>0. Base /\ clock \in Nat
    BY DEF Inv, Base, TypeInv, TypeOK, Time
  <1>1. ASSUME NEW p \in Proc, NEW h \in Host, NEW d \in Db, Collect(p, h, d) PROVE DriverInv'
    <2>1. /\ Alone(p) /\ Begins(p, h, d) /\ UNCHANGED <<clock, snaps, together, stage>>
          /\ hosts' = hosts \ {h} /\ stage \in {"first", "second"} /\ AllIdle
      BY <1>0, <1>1, BeginFields DEF Collect, Begin, Base
    <2>2. \A q \in Proc : q # p => run'[q].pc = "idle"
      BY <2>1 DEF Alone, AllIdle
    <2> QED
      BY <2>1, <2>2 DEF DriverInv, Active, Begins
  <1>a. ASSUME NEW p \in Proc, run[p].pc # "idle", Alone(p), UNCHANGED <<stage, hosts, together>>,
               run'[p].pc # "idle" => run'[p].host = run[p].host,
               \A f \in DOMAIN snaps' : snaps'[f].at <= clock'
        PROVE  DriverInv'
    <2>1. \A q \in Proc : q # p => run'[q].pc = "idle"
      BY <1>a DEF Alone, DriverInv
    <2>2. stage \in {"first", "second"}
      BY <1>a DEF DriverInv, AllIdle
    <2>3. \A h \in hosts' : ~Active(h)'
      BY <1>a, <2>1 DEF DriverInv, Active
    <2> QED
      BY <1>a, <2>1, <2>2, <2>3 DEF DriverInv
  <1>2. ASSUME NEW p \in Proc, GiveUp(p), run[p].pc # "idle", UNCHANGED <<stage, hosts>>
        PROVE  DriverInv'
    BY <1>0, <1>a, <1>2, GiveUpFields DEF Base, GiveUp, DriverInv
  <1>3. ASSUME NEW p \in Proc, Count(p), UNCHANGED <<stage, hosts>> PROVE DriverInv'
    <2>1. /\ Alone(p) /\ run'[p].host = run[p].host /\ run[p].pc = "count"
          /\ UNCHANGED <<clock, snaps>>
      BY <1>0, <1>3, CountNumber, CountFields DEF Base, Count
    <2>2. ~ \E q \in Proc \ {p} : run[q].pc = "take" /\ run[q].host = run[p].host
      BY <2>1 DEF DriverInv
    <2>3. together' = together
      BY <2>2, <1>3 DEF Count
    <2> QED
      BY <1>a, <1>3, <2>1, <2>3 DEF DriverInv
  <1>4. ASSUME NEW p \in Proc, Take(p), UNCHANGED <<stage, hosts>> PROVE DriverInv'
    <2>1. /\ Alone(p) /\ run'[p].host = run[p].host /\ run[p].pc = "take"
          /\ UNCHANGED <<clock, together>>
      BY <1>0, <1>4, TakeFields DEF Base, Take
    <2>2. \A f \in DOMAIN snaps' : snaps'[f].at <= clock
      BY <1>0, <1>4 DEF Take, DriverInv, Empty
    <2> QED
      BY <1>a, <1>4, <2>1, <2>2
  <1>5. ASSUME NEW p \in Proc, Compare(p), UNCHANGED <<stage, hosts>> PROVE DriverInv'
    <2>1. /\ Alone(p) /\ run'[p].pc = "idle" /\ run[p].pc = "compare"
          /\ UNCHANGED <<clock, snaps, together>>
      BY <1>0, <1>5, CompareFields DEF Base, Compare
    <2> QED
      BY <1>a, <1>5, <2>1 DEF DriverInv
  <1>6. ASSUME NEW p \in Proc, Work(p) PROVE DriverInv'
    BY <1>2, <1>3, <1>4, <1>5, <1>6
    DEF Work, CheckStep, NoExtension, NeedTwoRuns, NoPeriod, NoPrevious
  <1>7. ASSUME NEW p \in Proc, Killed(p) PROVE DriverInv'
    BY <1>2, <1>7 DEF Killed, Die
  <1>8. CASE EndOfLoop
    BY <1>8 DEF EndOfLoop, DriverInv, Active, AllIdle, vars
  <1>9. CASE Pause \/ Again
    <2>1. /\ clock' = clock + 1 /\ UNCHANGED <<snaps, run, together>> /\ AllIdle
          /\ stage' \in {"first", "second"} /\ hosts' = Host
      BY <1>9 DEF Pause, Again, Tick, DriverInv
    <2>2. \A f \in DOMAIN snaps : snaps[f].at <= clock + 1
      <3>1. \A f \in DOMAIN snaps : snaps[f].at \in Nat /\ snaps[f].at <= clock
        BY <1>0 DEF DriverInv, Base, TypeInv, TypeOK, Contents, Snapshot, Time, Empty
      <3> QED
        BY <3>1, <1>0
    <2> QED
      BY <2>1, <2>2 DEF DriverInv, Active, AllIdle
  <1>10. CASE Process \/ Upload
    BY <1>10 DEF Process, Upload, DriverInv, Active, AllIdle, vars
  <1>11. CASE UNCHANGED driverVars
    BY <1>11 DEF driverVars, DriverInv, Active, AllIdle, vars
  <1> QED
    BY <1>1, <1>6, <1>7, <1>8, <1>9, <1>10, <1>11 DEF RunNext, CollectStep

\* A step of the check of h changes nothing for other hosts: it is enough to
\* look at h.
LEMMA OneHostMoves ==
  ASSUME LoopsInv, NEW p \in Proc, NEW h \in Host,
         Alone(p), \A q \in Proc : q # p => run[q].pc = "idle",
         run[p].pc # "idle" => run[p].host = h, run'[p].pc # "idle" => run'[p].host = h,
         UNCHANGED <<clock, stage>>, failed \subseteq failed' \cup {h},
         \A g \in Host : g # h =>
           /\ g \in hosts' <=> g \in hosts
           /\ FilesOf(g)' = FilesOf(g) /\ report'[g] = report[g]
           /\ \A f \in FilesOf(g) : snaps'[f] = snaps[f],
         h \notin failed' => AtRest(h)' /\ AtWork(p)'
  PROVE  LoopsInv'
  <1>1. ASSUME NEW g \in Host \ failed', g # h PROVE AtRest(g)'
    <2>1. AtRest(g)
      BY <1>1 DEF LoopsInv
    <2>2. Active(g)' <=> Active(g)
      BY <1>1 DEF Active, Alone
    <2>3. (Snapped(g) => Snapped(g)') /\ (Older(g) => Older(g)') /\ (Compared(g) => Compared(g)')
      BY <1>1 DEF Snapped, Older, Compared
    <2> QED
      BY <1>1, <2>1, <2>2, <2>3 DEF AtRest
  <1>2. ASSUME NEW q \in Proc, run'[q].host \notin failed' PROVE AtWork(q)'
    <2>1. CASE run'[q].pc = "idle"
      BY <2>1 DEF AtWork
    <2>2. CASE run'[q].pc # "idle"
      BY <1>2, <2>2 DEF Alone
    <2> QED
      BY <2>1, <2>2
  <1> QED
    BY <1>1, <1>2 DEF LoopsInv

\* What is known at the comparison: the variables of the check are what its two
\* files hold.
LEMMA AtComparison ==
  ASSUME Inv, DriverInv, LoopsInv, NEW p \in Proc, run[p].pc = "compare",
         run[p].host \notin failed
  PROVE  /\ AtWork(p) /\ Snapped(run[p].host) /\ run[p].n \in 1 .. MaxSnap
         /\ FileOf(p, run[p].n) \in FilesOf(run[p].host)
         /\ FileOf(p, run[p].n).n = Cardinality(FilesOf(run[p].host))
         /\ Seconds(FileOf(p, run[p].n)) = run[p].cur.at
         /\ snaps[FileOf(p, run[p].n)] = run[p].cur
         /\ run[p].isset => Seconds(FileOf(p, run[p].n - 1)) = run[p].prev.at
         /\ run[p].prev.at \in Nat /\ run[p].cur.at \in Nat
  <1>1. AtWork(p)
    BY DEF LoopsInv
  <1>2. /\ FileOf(p, run[p].n) \in DOMAIN snaps
        /\ snaps[FileOf(p, run[p].n)] = run[p].cur
        /\ run[p].isset => /\ FileOf(p, run[p].n - 1) \in DOMAIN snaps
                           /\ snaps[FileOf(p, run[p].n - 1)] = run[p].prev
    BY DEF Inv, ReadInv, DriverInv
  <1>3. FileOf(p, run[p].n).host = run[p].host /\ FileOf(p, run[p].n).n = run[p].n
    BY DEF FileOf
  <1>4. FileOf(p, run[p].n) \in FilesOf(run[p].host)
    BY <1>2, <1>3 DEF FilesOf
  <1>5. run[p].n = Cardinality(FilesOf(run[p].host)) /\ run[p].cur # Empty
    BY <1>1 DEF AtWork
  <1>6. run[p] \in Run /\ run[p].n \in 1 .. MaxSnap
    BY DEF Inv, Base, TypeInv, TypeOK, RunInv
  <1>7. run[p].prev.at \in Nat /\ run[p].cur.at \in Nat
    BY <1>6 DEF Run, Contents, Snapshot, Time, Empty
  <1>8. Snapped(run[p].host)
    BY <1>2, <1>3, <1>4, <1>5 DEF Snapped
  <1> QED
    BY <1>1, <1>2, <1>3, <1>4, <1>5, <1>6, <1>7, <1>8 DEF Seconds, Read

\* Every step preserves LoopsInv: the loop comes to a host;
LEMMA LoopsCollect ==
  ASSUME Inv, DriverInv, LoopsInv, NEW p \in Proc, NEW h \in Host, NEW d \in Db, Collect(p, h, d)
  PROVE  LoopsInv'
  <1>1. /\ Alone(p) /\ Begins(p, h, d) /\ UNCHANGED <<clock, snaps, report, stage, failed>>
        /\ hosts' = hosts \ {h} /\ stage \in {"first", "second"} /\ AllIdle /\ h \in hosts
    BY BeginFields DEF Collect, Begin, Inv, Base
  <1>2. \A q \in Proc : run[q].pc = "idle"
    BY <1>1 DEF AllIdle
  <1>3. ASSUME h \notin failed PROVE AtRest(h)' /\ AtWork(p)'
    <2>1. AtRest(h)
      BY <1>3 DEF LoopsInv
    <2>2. Active(h)'
      BY <1>1 DEF Active, Begins
    <2>3. AtRest(h)'
      BY <1>1, <2>2 DEF AtRest
    <2>4. stage = "second" => Snapped(h)' /\ Older(h)'
      BY <1>1, <2>1 DEF AtRest, Snapped, Older, FilesOf
    <2>5. AtWork(p)'
      BY <1>1, <2>4 DEF AtWork, Begins, Snapped, Older, FilesOf
    <2> QED
      BY <2>3, <2>5
  <1>4. \A g : FilesOf(g)' = FilesOf(g)
    BY <1>1 DEF FilesOf
  <1> QED
    BY <1>1, <1>2, <1>3, <1>4, OneHostMoves DEF Begins

\* (while a check runs, it is the only one, and the script is in a loop)
LEMMA WorkAlone ==
  ASSUME Inv, DriverInv, NEW p \in Proc, run[p].pc # "idle"
  PROVE  /\ run[p].host \in Host /\ run[p].host \notin hosts
         /\ \A q \in Proc : q # p => run[q].pc = "idle"
         /\ stage \in {"first", "second"} /\ together = {}
  BY DEF DriverInv, Active, AllIdle, Inv, Base, TypeInv, RunInv

\* a check that gives up does so on a host that failed, or in the first loop;
LEMMA LoopsGiveUp ==
  ASSUME Inv, DriverInv, LoopsInv, NEW p \in Proc, run[p].pc # "idle", GiveUp(p),
         UNCHANGED <<stage, hosts>>, failed \subseteq failed',
         \/ run[p].host \in failed'
         \/ stage = "first" /\ Snapped(run[p].host)
  PROVE  LoopsInv'
  <1> DEFINE h == run[p].host
  <1>1. /\ h \in Host /\ stage \in {"first", "second"}
        /\ \A q \in Proc : q # p => run[q].pc = "idle"
    BY WorkAlone
  <1>2. Alone(p) /\ run'[p].pc = "idle" /\ UNCHANGED <<clock, snaps, report>>
    BY GiveUpFields DEF Inv, Base, GiveUp
  <1>3. \A g : FilesOf(g)' = FilesOf(g)
    BY <1>2 DEF FilesOf
  <1>4. ASSUME NEW g, g = h, h \notin failed' PROVE AtRest(g)'
    <2>1. stage' = "first" /\ Snapped(g)
      BY <1>4
    <2>2. Snapped(g)'
      BY <2>1, <1>2, <1>3 DEF Snapped
    <2> QED
      BY <2>1, <2>2 DEF AtRest
  <1>5. AtWork(p)'
    BY <1>2 DEF AtWork
  <1>6. PICK g \in Host : g = h
    BY <1>1
  <1> QED
    BY <1>1, <1>2, <1>3, <1>4, <1>5, <1>6, OneHostMoves

\* in the second loop a check finds the snapshot of the first;
LEMMA LoopsCount ==
  ASSUME Inv, DriverInv, LoopsInv, NEW p \in Proc, Count(p), NEW d, Db = {d},
         UNCHANGED <<stage, hosts>>, failed \subseteq failed'
  PROVE  LoopsInv'
  <1> DEFINE n == FreshNumber(p)
  <1>1. PICK h \in Host : h = run[p].host
    BY CountNumber DEF Inv
  <1>2. /\ run[p].pc = "count" /\ run[p].db = d /\ n \in 1 .. MaxSnap
        /\ Alone(p) /\ run'[p].pc = "take" /\ run'[p].host = h /\ run'[p].n = n
        /\ run'[p].isset = (FileOf(p, n - 1) \in DOMAIN snaps)
        /\ run'[p].prev = Read(FileOf(p, n - 1))
        /\ UNCHANGED <<clock, snaps, report>>
    BY <1>1, CountNumber, CountFields DEF Inv, Base, Count
  <1>3. /\ stage \in {"first", "second"} /\ h \notin hosts
        /\ \A q \in Proc : q # p => run[q].pc = "idle"
    BY <1>1, <1>2, WorkAlone
  <1>4. \A g : FilesOf(g)' = FilesOf(g)
    BY <1>2 DEF FilesOf
  <1>5. n = Cardinality(FilesOf(h)) + 1 /\ Cardinality(FilesOf(h)) \in Nat
    BY <1>1, FilesOfFinite DEF FreshNumber, Inv, Base
  <1>6. ASSUME h \notin failed', stage = "second"
        PROVE  /\ n > 1 /\ FileOf(p, n - 1) \in DOMAIN snaps
               /\ Read(FileOf(p, n - 1)) # Empty /\ Read(FileOf(p, n - 1)).at < clock
    <2>1. Snapped(h) /\ Older(h)
      BY <1>1, <1>2, <1>6 DEF LoopsInv, AtWork
    <2>2. PICK f \in FilesOf(h) : f.n = Cardinality(FilesOf(h)) /\ snaps[f] # Empty
      BY <2>1 DEF Snapped
    <2>3. f \in DOMAIN snaps /\ f \in File /\ f.host = h
      BY DEF FilesOf, Inv, Base, TypeInv, TypeOK
    <2>4. f.n = n - 1 /\ n > 1
      BY <1>5, <2>2, <2>3 DEF File
    <2>5. f.name = SimpleName[d]
      BY <2>3 DEF File, SimpleNames
    <2>6. f = [host |-> h, name |-> SimpleName[d], n |-> n - 1]
      BY <2>3, <2>4, <2>5 DEF File
    <2>7. f = FileOf(p, n - 1)
      BY <1>1, <1>2, <2>6 DEF FileOf
    <2>8. Read(f) = snaps[f] /\ snaps[f].at < clock
      BY <2>1, <2>3 DEF Read, Older
    <2> HIDE DEF n
    <2> QED
      BY <2>2, <2>3, <2>4, <2>7, <2>8
  <1> HIDE DEF n
  <1>7. Active(h)'
    BY <1>2 DEF Active
  <1>8. AtRest(h)'
    BY <1>3, <1>7 DEF AtRest
  <1>9. h \notin failed' => AtWork(p)'
    BY <1>2, <1>6 DEF AtWork
  <1> QED
    BY <1>1, <1>2, <1>3, <1>4, <1>8, <1>9, OneHostMoves

\* the snapshot it takes is later, or failed;
LEMMA LoopsTake ==
  ASSUME Inv, DriverInv, LoopsInv, NEW p \in Proc, Take(p),
         UNCHANGED <<stage, hosts>>, failed \subseteq failed',
         run'[p].cur = Empty => run[p].host \in failed'
  PROVE  LoopsInv'
  <1>0. run[p].pc = "take" /\ UNCHANGED <<clock, report>>
    BY DEF Take
  <1>1. PICK h \in Host : h = run[p].host
    BY <1>0, WorkAlone
  <1>2. /\ stage \in {"first", "second"} /\ h \notin hosts /\ h \notin together
        /\ \A q \in Proc : q # p => run[q].pc = "idle"
    BY <1>0, <1>1, WorkAlone
  <1>3. PICK content \in {[at |-> clock, db |-> run[p].db], Empty} :
         /\ Alone(p)
         /\ run'[p].pc = "compare" /\ run'[p].host = h
         /\ run'[p].n = run[p].n /\ run'[p].isset = run[p].isset /\ run'[p].prev = run[p].prev
         /\ run'[p].cur = content
    BY <1>1, TakeFields DEF Inv, Base
  <1>4. /\ Cardinality(FilesOf(h)') = Cardinality(FilesOf(h)) + 1
        /\ run[p].n = Cardinality(FilesOf(h)) + 1
    BY <1>1, <1>2, TakeNew DEF Inv
  <1>5. Active(h)'
    BY <1>3 DEF Active
  <1>6. AtRest(h)'
    BY <1>2, <1>5 DEF AtRest
  <1>7. ASSUME h \notin failed' PROVE AtWork(p)'
    <2>1. run'[p].cur.at = clock /\ run'[p].cur # Empty
      BY <1>1, <1>3, <1>7
    <2>2. AtWork(p)
      BY <1>1, <1>7 DEF LoopsInv
    <2>4. FilesOf(run[p].host)' = FilesOf(h)'
      BY <1>3 DEF FilesOf
    <2>5. run'[p].n = Cardinality(FilesOf(run[p].host)')
      BY <1>3, <1>4, <2>4
    <2>6. stage = "second" =>
            run[p].isset /\ run[p].n > 1 /\ run[p].prev # Empty /\ run[p].prev.at < clock
      BY <1>0, <2>2 DEF AtWork
    <2> QED
      BY <1>3, <2>1, <2>5, <2>6 DEF AtWork
  <1>8. \A g \in Host : g # h => FilesOf(g)' = FilesOf(g) /\ \A f \in FilesOf(g) : snaps'[f] = snaps[f]
    BY <1>1, TakeOthers
  <1> QED
    BY <1>0, <1>1, <1>2, <1>3, <1>6, <1>7, <1>8, OneHostMoves

\* the comparison gives a result, or fails;
LEMMA LoopsCompare ==
  ASSUME Inv, DriverInv, LoopsInv, NEW p \in Proc, Compare(p),
         UNCHANGED <<stage, hosts>>, failed \subseteq failed',
         /\ report'[run[p].host] = EmptyData /\ run[p].prev # Empty /\ run[p].cur # Empty
         => run[p].host \in failed'
  PROVE  LoopsInv'
  <1>1. PICK h \in Host : h = run[p].host
    BY CompareFields DEF Inv, Base
  <1>2. /\ Alone(p) /\ run'[p].pc = "idle" /\ run[p].pc = "compare" /\ UNCHANGED <<clock, snaps>>
        /\ \A g \in Host : g # h => report'[g] = report[g]
        /\ \/ report'[h] = EmptyData
           \/ report'[h] = [db |-> run[p].db, from |-> run[p].prev, to |-> run[p].cur]
    BY <1>1, CompareFields DEF Inv, Base, Compare
  <1>3. /\ stage \in {"first", "second"} /\ h \notin hosts
        /\ \A q \in Proc : q # p => run[q].pc = "idle"
    BY <1>1, <1>2, WorkAlone
  <1>4. \A g : FilesOf(g)' = FilesOf(g)
    BY <1>2 DEF FilesOf
  <1>5. AtWork(p)'
    BY <1>2 DEF AtWork
  <1>6. ASSUME h \notin failed' PROVE AtRest(h)'
    <2>1. /\ AtWork(p) /\ Snapped(h)
          /\ FileOf(p, run[p].n) \in FilesOf(h)
          /\ FileOf(p, run[p].n).n = Cardinality(FilesOf(h))
          /\ snaps[FileOf(p, run[p].n)] = run[p].cur
      BY <1>1, <1>2, <1>6, AtComparison
    <2>2. stage = "first" => Snapped(h)'
      BY <1>2, <1>4, <2>1 DEF Snapped
    <2>3. ASSUME stage = "second" PROVE Compared(h)'
      <3>1. run[p].prev # Empty /\ run[p].cur # Empty
        BY <1>2, <2>1, <2>3 DEF AtWork
      <3>2. report'[h] # EmptyData
        BY <1>1, <1>6, <3>1
      <3>3. report'[h].from = run[p].prev /\ report'[h].to = run[p].cur
        BY <1>2, <3>2
      <3>4. report'[h] # NoData
        BY <3>1, <3>3 DEF NoData
      <3>5. snaps'[FileOf(p, run[p].n)] = report'[h].to
        BY <1>2, <2>1, <3>3
      <3> QED
        BY <1>4, <2>1, <3>2, <3>4, <3>5 DEF Compared
    <2> QED
      BY <1>3, <2>2, <2>3 DEF AtRest
  <1> QED
    BY <1>1, <1>2, <1>3, <1>4, <1>5, <1>6, OneHostMoves

\* these are all steps of a check;
LEMMA LoopsWork ==
  ASSUME Inv, DriverInv, LoopsInv, NEW p \in Proc, Work(p), NEW d, Db = {d}
  PROVE  LoopsInv'
  <1>1. /\ CheckStep(p) /\ UNCHANGED <<stage, hosts>> /\ failed \subseteq failed'
        /\ NoExtension(p) => run[p].host \in failed'
        /\ run'[p].pc = "compare" /\ run'[p].cur = Empty => run[p].host \in failed'
        /\ Compare(p) /\ report'[run[p].host] = EmptyData
             /\ run[p].prev # Empty /\ run[p].cur # Empty => run[p].host \in failed'
    BY DEF Work
  <1>2. CASE NoExtension(p)
    BY <1>1, <1>2, LoopsGiveUp DEF NoExtension
  <1>3. CASE Count(p)
    BY <1>1, <1>3, LoopsCount
  <1>4. CASE Take(p)
    <2>1. run'[p].pc = "compare"
      BY <1>4, TakeFields DEF Inv, Base
    <2> QED
      BY <1>1, <1>4, <2>1, LoopsTake
  <1>5. CASE Compare(p)
    BY <1>1, <1>5, LoopsCompare
  <1>6. CASE NeedTwoRuns(p) \/ NoPeriod(p) \/ NoPrevious(p)
    <2>1. run[p].pc = "compare" /\ GiveUp(p)
      BY <1>6 DEF NeedTwoRuns, NoPeriod, NoPrevious
    <2>2. ASSUME run[p].host \notin failed
          PROVE  stage = "first" /\ Snapped(run[p].host)
      <3>1. /\ AtWork(p) /\ Snapped(run[p].host) /\ run[p].n \in 1 .. MaxSnap
            /\ Seconds(FileOf(p, run[p].n)) = run[p].cur.at
            /\ run[p].isset => Seconds(FileOf(p, run[p].n - 1)) = run[p].prev.at
            /\ run[p].prev.at \in Nat /\ run[p].cur.at \in Nat
        BY <2>1, <2>2, AtComparison
      <3>2. stage # "second"
        BY <1>6, <2>1, <3>1 DEF AtWork, NeedTwoRuns, NoPeriod, NoPrevious, HasPeriod
      <3> QED
        BY <2>1, <3>1, <3>2, WorkAlone
    <2> QED
      BY <1>1, <2>1, <2>2, LoopsGiveUp
  <1> QED
    BY <1>1, <1>2, <1>3, <1>4, <1>5, <1>6 DEF CheckStep

\* and the pause gives way to the second loop with older snapshots of every
\* host.
LEMMA LoopsInductive ==
  ASSUME Inv, DriverInv, LoopsInv, [RunNext]_driverVars, NEW d, Db = {d}
  PROVE  LoopsInv'
  <1>1. ASSUME NEW p \in Proc, Killed(p) PROVE LoopsInv'
    BY <1>1, LoopsGiveUp DEF Killed, Die
  <1>2. CASE EndOfLoop \/ Process \/ Upload \/ UNCHANGED driverVars
    <2>1. UNCHANGED <<clock, snaps, report, run, hosts, failed>>
      BY <1>2 DEF EndOfLoop, Process, Upload, driverVars, vars
    <2>2. \A g : FilesOf(g)' = FilesOf(g) /\ (Active(g)' <=> Active(g))
      BY <2>1 DEF FilesOf, Active
    <2>3. \A g : (Snapped(g)' <=> Snapped(g)) /\ (Older(g)' <=> Older(g))
                   /\ (Compared(g)' <=> Compared(g))
      BY <2>1, <2>2 DEF Snapped, Older, Compared
    <2>4. CASE UNCHANGED stage
      <3>1. ASSUME NEW h \in Host \ failed PROVE AtRest(h)'
        BY <2>1, <2>2, <2>3, <2>4 DEF LoopsInv, AtRest
      <3>2. ASSUME NEW p \in Proc, run[p].host \notin failed PROVE AtWork(p)'
        <4>1. AtWork(p) /\ FilesOf(run[p].host)' = FilesOf(run[p].host)
          BY <3>2, <2>1 DEF LoopsInv, FilesOf
        <4>2. (Snapped(run[p].host)' <=> Snapped(run[p].host))
              /\ (Older(run[p].host)' <=> Older(run[p].host))
          BY <2>1 DEF Snapped, Older, FilesOf
        <4> QED
          BY <2>1, <2>4, <4>1, <4>2 DEF AtWork
      <3> QED
        BY <2>1, <3>1, <3>2 DEF LoopsInv
    <2>5. CASE EndOfLoop \/ Process \/ Upload
      <3>1. AllIdle /\ hosts = {}
        BY <2>5 DEF EndOfLoop, Process, Upload, DriverInv
      <3>2. \/ stage = "first" /\ stage' = "pause"
            \/ stage = "second" /\ stage' = "process"
            \/ stage \in {"process", "upload"} /\ stage' \in {"upload", "done"}
        BY <2>5 DEF EndOfLoop, Process, Upload
      <3>3. ASSUME NEW h \in Host \ failed PROVE AtRest(h)'
        <4>1. AtRest(h) /\ ~Active(h) /\ h \notin hosts
          BY <3>1, <3>3 DEF LoopsInv, AllIdle, Active
        <4> QED
          BY <2>1, <2>2, <2>3, <3>2, <4>1 DEF AtRest
      <3>4. \A p \in Proc : AtWork(p)'
        BY <2>1, <3>1 DEF AtWork, AllIdle
      <3> QED
        BY <2>1, <3>3, <3>4 DEF LoopsInv
    <2> QED
      BY <1>2, <2>4, <2>5 DEF driverVars
  <1>3. CASE Pause
    <2>1. /\ clock' = clock + 1 /\ UNCHANGED <<snaps, run, report, failed>>
          /\ stage = "pause" /\ stage' = "second" /\ hosts' = Host
          /\ AllIdle /\ hosts = {}
      BY <1>3 DEF Pause, Tick, DriverInv
    <2>2. ASSUME NEW h \in Host \ failed PROVE AtRest(h)'
      <3>1. Snapped(h)
        BY <2>1, <2>2 DEF LoopsInv, AtRest, AllIdle, Active
      <3>2. FilesOf(h)' = FilesOf(h)
        BY <2>1 DEF FilesOf
      <3>3. \A f \in FilesOf(h) : snaps[f].at < clock'
        <4>1. \A f \in FilesOf(h) : snaps[f].at \in Nat /\ snaps[f].at <= clock
          BY DEF FilesOf, DriverInv, Inv, Base, TypeInv, TypeOK, Contents, Snapshot, Time, Empty
        <4>2. clock \in Nat
          BY DEF Inv, Base, TypeInv, TypeOK, Time
        <4> QED
          BY <2>1, <4>1, <4>2
      <3>4. Snapped(h)' /\ Older(h)'
        BY <2>1, <3>1, <3>2, <3>3 DEF Snapped, Older
      <3> QED
        BY <2>1, <3>4 DEF AtRest
    <2>3. \A p \in Proc : AtWork(p)'
      BY <2>1 DEF AtWork, AllIdle
    <2> QED
      BY <2>2, <2>3, <2>1 DEF LoopsInv
  <1>4. CASE Again
    <2>1. stage' = "first" /\ hosts' = Host /\ run' = run /\ AllIdle
      BY <1>4 DEF Again, Tick, DriverInv
    <2>2. \A h \in Host : AtRest(h)'
      BY <2>1 DEF AtRest
    <2>3. \A p \in Proc : AtWork(p)'
      BY <2>1 DEF AtWork, AllIdle
    <2> QED
      BY <2>2, <2>3 DEF LoopsInv
  <1> QED
    BY <1>1, <1>2, <1>3, <1>4, LoopsCollect, LoopsWork DEF RunNext, CollectStep

\* TwoLoopsSuffice, with one database: when run_checkup.sh goes on to the
\* processing, every host on which nothing failed has a K000 result, and it is
\* about the last snapshot.
THEOREM TwoLoopsSufficeCorrect ==
  ASSUME NEW d, Db = {d}
  PROVE  RunSpec => []TwoLoopsSuffice
  <1>1. RunInit => DriverInv /\ LoopsInv
    <2> SUFFICES ASSUME RunInit PROVE DriverInv /\ LoopsInv
      OBVIOUS
    <2>1. /\ \A p \in Proc : run[p].pc = "idle"
          /\ stage = "first" /\ hosts = Host /\ failed = {} /\ together = {}
          /\ DOMAIN snaps = {}
      BY NoRunType DEF RunInit, Init
    <2> QED
      BY <2>1 DEF DriverInv, LoopsInv, AtRest, AtWork, Active, AllIdle
  <1>2. Inv /\ DriverInv /\ LoopsInv /\ [RunNext]_driverVars => (DriverInv /\ LoopsInv)'
    BY DriverInvInductive, LoopsInductive
  <1>3. LoopsInv => TwoLoopsSuffice
    BY DEF LoopsInv, AtRest, Compared, TwoLoopsSuffice
  <1> QED
    BY <1>1, <1>2, <1>3, DriverCorrect, InvCorrect, PTL DEF RunSpec

\* PreviousFound holds of the script as well.
THEOREM PreviousFoundInScript ==
  ASSUME NEW d, Db = {d}
  PROVE  RunSpec => []PreviousFound
  BY DriverCorrect, PreviousFoundCorrect, PTL
==============================================================================
