---------------------------- MODULE Process_proofs ----------------------------
(***************************************************************************)
(* The safety properties of Process, and that its reports implement        *)
(* JsonReports, for every set of checks and sections.                      *)
(*                                                                         *)
(* The argument. Between two looks of pghrep at a report, a collection may *)
(* replace it, so the invariant says what pghrep and the collection        *)
(* remember of a report only as long as they have not met: PresentInv      *)
(* about files that are there, ResultsInv about results that are the       *)
(* newest (or will be, once what is in memory is written), DataInv about   *)
(* what pghrep has loaded, concluded and renders, GluedInv about sections  *)
(* that are already those of this `process`. MetInv makes sure that a      *)
(* collection that overlaps with a `process` is known to have met it.      *)
(* BoundsInv is what TypeOK needs: the number of results grows only in the *)
(* first round of a collection.                                            *)
(*                                                                         *)
(* The refinement needs ConclInv besides, about the number of results      *)
(* behind the conclusions that are in a file or in memory. Each step that  *)
(* touches a report is then one of JsonReports (Tears, Collects,           *)
(* Concludes), and os.Create is the one that concludes.                    *)
(***************************************************************************)
EXTENDS Process, TLAPS

\* pghrep is at work on a check.
Busy == gen.pc \notin {"idle", "pick", "glue"}

\* The result the collection adds to its report: one, in its first round.
Added == IF col.round = 1 THEN 1 ELSE 0

\* No file is ahead of the collections, so that numbers stay in their range; and
\* pghrep has sections left to render only while it is at work.
BoundsInv ==
  /\ \A c \in Check : report[c].results <= newest[c]
  /\ col.pc # "idle" => IF col.round = 1 THEN newest[col.check] < MaxResults
                        ELSE newest[col.check] > 0
  /\ col.pc = "mv" => col.tmp.results <= newest[col.check] + Added
  /\ gen.pc \in {"create", "write"} => gen.image.results <= newest[gen.check]
  /\ gen.pc \in {"conclude", "save", "create", "write"} => gen.left = Sections(gen.check)
  /\ Busy => gen.left \subseteq Sections(gen.check)
  /\ ~Busy => gen.left = {}

\* The part of the invariant the types follow from.
TypeInv == TypeOK /\ BoundsInv

\* A report never vanishes: pghrep is started for reports that are there, what
\* it and the collection have in memory are reports, and a section that is there
\* has a report.
PresentInv ==
  /\ \A c \in Check : report[c].file = "absent" => report[c] = NoReport
  /\ \A c \in gen.todo : report[c].file # "absent"
  /\ Busy => report[gen.check].file # "absent"
  /\ Busy /\ gen.pc # "load" => gen.data.file # "absent"
  /\ gen.pc \in {"create", "write"} => gen.image.file # "absent"
  /\ col.pc = "mv" => col.tmp.file # "absent"
  /\ \A s \in Section :
       IF md[s].file = "absent" THEN md[s] = NoReport
       ELSE report[CheckOf[s]].file # "absent"

\* The results of a report are those of the last collection, and so are those
\* that are in memory and about to be written, but for clashes and writes that
\* were never made.
ResultsInv ==
  /\ gen.opened => gen.pc \in {"write", "open", "render"}
  /\ \A c \in Check \ (clash \cup cut) :
       /\ ~(Rewriting(c) /\ gen.opened) => report[c].results = newest[c] /\ report[c].file # "empty"
       /\ Rewriting(c) => gen.image.results = newest[c] /\ gen.image.file # "empty"
       /\ col.pc = "mv" /\ col.check = c =>
            col.tmp.results = newest[c] + Added /\ col.tmp.file # "empty"

\* A collection that runs during a `process` has met it, and only one that has
\* met a `process` can clash with it.
MetInv ==
  /\ gen.pc # "idle" /\ col.pc # "idle" => col.check \in met
  /\ clash \subseteq met

\* For a check no collection has met, all that pghrep remembers agrees: what it
\* loaded is the report, what it concluded and will write is about these
\* results, and what it renders is the report.
DataInv ==
  Busy /\ gen.check \notin met =>
    /\ gen.pc \in {"conclude", "save"} => gen.data = report[gen.check] /\ gen.data.file # "empty"
    /\ gen.pc = "save" => gen.concl = gen.data.results
    /\ gen.pc \in {"create", "write"} => gen.image = gen.data
    /\ gen.pc = "write" => gen.opened
    /\ gen.pc \in {"create", "write", "open", "render"} /\ gen.check \in Concluding \ mute
         => gen.data.concl = gen.data.results
    /\ gen.pc \in {"open", "render"} /\ gen.check \notin cut => gen.data = report[gen.check]
    /\ gen.check \notin cut => gen.name = gen.check

\* In a `process` of all checks, the sections of the checks that are done are
\* those of their reports.
GluedInv ==
  /\ gen.pc = "glue" => gen.only = None /\ gen.todo = {}
  /\ gen.pc # "idle" /\ gen.only = None =>
       \A s \in Section : CheckOf[s] \notin met \cup cut \cup gen.failed \cup gen.todo =>
         IF Busy /\ gen.check = CheckOf[s]
         THEN /\ gen.pc \in {"open", "render"} /\ s \notin gen.left
              /\ ~(gen.pc = "render" /\ s = gen.section)
              => md[s] = gen.data
         ELSE md[s] = report[CheckOf[s]]

\* The constant reports are reports, without a result.
LEMMA Constants ==
  /\ NoReport \in Report /\ NoReport.file = "absent"
  /\ NoReport.results = 0 /\ NoReport.concl = 0
  /\ EmptyReport \in Report /\ EmptyReport.file = "empty"
  /\ EmptyReport.results = 0
  /\ 0 \in Count
  BY ResultsAssumption DEF NoReport, EmptyReport, Template, Report, Count, File

\* A `process` that is not running has its type.
LEMMA NoGenType == NoGen \in Gen /\ NoGen.pc = "idle" /\ NoGen.left = {}
  <1>1. NoGen.pc \in GenCommand
    BY DEF NoGen, GenCommand
  <1> QED
    BY <1>1, Constants DEF NoGen, Gen

\* A collection that is not running has its type.
LEMMA NoColType == NoCol \in Col /\ NoCol.pc = "idle"
  <1>1. NoCol.pc \in ColCommand
    BY DEF NoCol, ColCommand
  <1> QED
    BY <1>1, Constants DEF NoCol, Col

\* So has a `process` between two runs of pghrep.
LEMMA AfterPghrepType ==
  ASSUME TypeOK
  PROVE  /\ AfterPghrep \in Gen /\ Failed \in Gen
         /\ AfterPghrep.pc = "pick" /\ Failed.pc = "pick"
         /\ AfterPghrep.left = {} /\ Failed.left = {}
  <1>1. gen.only \in Check \cup {None} /\ gen.todo \subseteq Check
        /\ gen.failed \subseteq Check \cup {None} /\ gen.name \in Check \cup {None}
    BY DEF TypeOK, Gen
  <1>2. "pick" \in GenCommand
    BY DEF GenCommand
  <1> QED
    BY <1>1, <1>2, NoGenType DEF AfterPghrep, Failed, Gen

\* A round of a collection makes a report of a report; the first adds one
\* result.
LEMMA ExtendedType ==
  ASSUME NEW r \in Report, NEW round \in 1 .. 3, NEW n \in Nat,
         r.results <= n, n <= MaxResults,
         IF round = 1 THEN n < MaxResults ELSE n > 0
  PROVE  /\ Extended(r, round) \in Report
         /\ Extended(r, round).results <= IF round = 1 THEN n + 1 ELSE n
  BY ResultsAssumption, Constants DEF Extended, Report, Template, Count, File

\* Every step preserves the types and the bounds.
LEMMA TypeInvInductive == TypeInv /\ [Next]_vars => TypeInv'
  <1> SUFFICES ASSUME TypeInv, [Next]_vars PROVE TypeInv'
    OBVIOUS
  <1> USE ResultsAssumption, SectionAssumption, Constants, NoGenType, NoColType
  <1>0. TypeOK /\ BoundsInv
    BY DEF TypeInv
  <1>a. /\ AfterPghrep \in Gen /\ AfterPghrep.pc = "pick" /\ AfterPghrep.left = {}
        /\ Failed \in Gen /\ Failed.pc = "pick" /\ Failed.left = {}
    BY <1>0, AfterPghrepType
  <1>1. ASSUME NEW c \in Check, Collect(c) PROVE TypeInv'
    <2>1. col' \in Col /\ col'.pc = "jq" /\ col'.check = c /\ col'.round = 1
      BY <1>1 DEF Collect, Col, ColCommand, NoCol
    <2>2. TypeOK'
      BY <2>1, <1>0, <1>1 DEF TypeOK, Collect
    <2>3. BoundsInv'
      BY <2>1, <1>0, <1>1 DEF BoundsInv, Collect, Busy
    <2> QED
      BY <2>2, <2>3 DEF TypeInv
  <1>2. ASSUME CollectJq PROVE TypeInv'
    <2> DEFINE c == col.check
               new == Extended(report[c], col.round)
    <2>1. /\ c \in Check /\ col.round \in 1 .. 3 /\ col.pc = "jq"
          /\ report[c] \in Report /\ newest[c] \in Nat /\ report[c].results <= newest[c]
          /\ IF col.round = 1 THEN newest[c] < MaxResults ELSE newest[c] > 0
          /\ newest[c] <= MaxResults
      BY <1>0, <1>2 DEF TypeOK, BoundsInv, CollectJq, Col, Count
    <2>2. new \in Report /\ new.results <= newest[c] + Added
      BY <2>1, ExtendedType DEF Added
    <2> HIDE DEF new
    <2>3. col' = [col EXCEPT !.pc = "mv", !.tmp = new]
      BY <1>2 DEF CollectJq, new
    <2>4. /\ col' \in Col /\ col'.pc = "mv" /\ col'.check = c /\ col'.round = col.round
          /\ col'.tmp = new
      BY <2>2, <2>3, <1>0 DEF TypeOK, Col, ColCommand
    <2>5. TypeOK'
      BY <2>1, <2>4, <1>0, <1>2 DEF TypeOK, CollectJq
    <2>6. BoundsInv'
      BY <2>1, <2>2, <2>4, <1>0, <1>2 DEF BoundsInv, CollectJq, Busy, Added
    <2> QED
      BY <2>5, <2>6 DEF TypeInv
  <1>3. ASSUME CollectMv PROVE TypeInv'
    <2>1. gen' \in Gen
      BY <1>0, <1>3 DEF TypeOK, CollectMv, Gen
    <2>2. col' = NoCol \/ (/\ col.round # 3
                           /\ col' = [col EXCEPT !.pc = "jq", !.round = @ + 1, !.tmp = NoReport])
      BY <1>3 DEF CollectMv
    <2>3. /\ col' \in Col
          /\ col'.pc # "idle" => /\ col'.pc = "jq" /\ col'.check = col.check
                                 /\ col'.round \in {2, 3}
      <3>1. col \in Col /\ col.round \in 1 .. 3
        BY <1>0 DEF TypeOK, Col
      <3>2. CASE col' = NoCol
        BY <3>2
      <3>3. CASE col.round # 3 /\ col' = [col EXCEPT !.pc = "jq", !.round = @ + 1, !.tmp = NoReport]
        <4>1. col.round + 1 \in {2, 3} /\ col.round + 1 \in 1 .. 3
          BY <3>1, <3>3
        <4> QED
          BY <4>1, <3>1, <3>3 DEF Col, ColCommand
      <3> QED
        BY <2>2, <3>2, <3>3
    <2>4. TypeOK'
      BY <2>1, <2>3, <1>0, <1>3
      DEF TypeOK, BoundsInv, CollectMv, Sections, Count, Gen, Col, Added
    <2>5. BoundsInv'
      BY <2>1, <2>3, <1>0, <1>3
      DEF TypeOK, BoundsInv, CollectMv, Count, Gen, Busy, Report, Added
    <2> QED
      BY <2>4, <2>5 DEF TypeInv
  <1>4. ASSUME CollectDies PROVE TypeInv'
    <2>2. col' \in Col
      BY <1>0, <1>4 DEF CollectDies
    <2>3. TypeOK'
      BY <2>2, <1>0, <1>4 DEF TypeOK, CollectDies
    <2>4. BoundsInv'
      BY <2>2, <1>0, <1>4 DEF BoundsInv, CollectDies, Busy
    <2> QED
      BY <2>3, <2>4 DEF TypeInv
  <1>5. ASSUME NEW only \in Check \cup {None}, Begin(only) PROVE TypeInv'
    <2>1. gen' \in Gen
      BY <1>0, <1>a, <1>5, ZenonT(60) DEF TypeOK, Begin, Gen, GenCommand, Sections
    <2>3. TypeOK'
      BY <2>1, <1>0, <1>5
      DEF TypeOK, BoundsInv, Begin, Sections, Count, Gen, Col, LeftCut, Busy
    <2>4. BoundsInv'
      BY <2>1, <1>0, <1>5 DEF BoundsInv, Begin, Added
    <2> QED
      BY <2>3, <2>4 DEF TypeInv
  <1>6. ASSUME NEW c \in Check, Pick(c) PROVE TypeInv'
    <2>1. CASE gen' = [gen EXCEPT !.todo = @ \ {c}]
      <3>1. gen' \in Gen /\ gen'.pc = "pick"
        BY <2>1, <1>0, <1>6 DEF TypeOK, Pick, Gen
      <3> QED
        BY <3>1, <1>0, <1>6 DEF TypeInv, TypeOK, BoundsInv, Pick, Busy, Added
    <2>2. CASE \E name \in {c, None} :
                 gen' = [gen EXCEPT !.pc = "load", !.todo = @ \ {c}, !.check = c, !.name = name]
      <3> PICK name \in {c, None} :
            gen' = [gen EXCEPT !.pc = "load", !.todo = @ \ {c}, !.check = c, !.name = name]
        BY <2>2
      <3>0. name \in Check \cup {None} /\ "load" \in GenCommand
        BY DEF GenCommand
      <3>1. gen' \in Gen /\ gen'.pc = "load" /\ gen'.check = c /\ gen'.left = gen.left
        BY <3>0, <1>0 DEF TypeOK, Gen
      <3>2. gen.left = {}
        BY <1>0, <1>6 DEF BoundsInv, Busy, Pick
      <3> QED
        BY <3>1, <3>2, <1>0, <1>6 DEF TypeInv, TypeOK, BoundsInv, Pick, Busy, Added
    <2> QED
      BY <2>1, <2>2, <1>6 DEF Pick
  <1>7. ASSUME Load PROVE TypeInv'
    <2> DEFINE r == report[gen.check]
    <2>0. gen.pc = "load" /\ gen.check \in Check /\ r \in Report
      BY <1>0, <1>7 DEF Load, TypeOK
    <2>1. CASE gen' = Failed
      BY <2>0, <2>1, <1>0, <1>a, <1>7 DEF TypeInv, TypeOK, BoundsInv, Load, Added
    <2>2. CASE \E pc \in {"conclude", "open"} :
                 gen' = [gen EXCEPT !.data = r, !.left = Sections(gen.check), !.pc = pc]
      <3> PICK pc \in {"conclude", "open"} :
            gen' = [gen EXCEPT !.data = r, !.left = Sections(gen.check), !.pc = pc]
        BY <2>2
      <3>0. pc \in GenCommand /\ Sections(gen.check) \in SUBSET Section
        BY DEF GenCommand, Sections
      <3> HIDE DEF r
      <3>1. /\ gen' \in Gen /\ gen'.pc \in {"conclude", "open"} /\ gen'.check = gen.check
            /\ gen'.left = Sections(gen.check)
        BY <2>0, <3>0, <1>0 DEF TypeOK, Gen
      <3>2. TypeOK'
        BY <2>0, <3>1, <1>0, <1>7 DEF TypeOK, Load
      <3>3. BoundsInv'
        BY <2>0, <3>1, <1>0, <1>7 DEF BoundsInv, Load, Busy, Added
      <3> QED
        BY <3>2, <3>3 DEF TypeInv
    <2> QED
      BY <2>1, <2>2, <1>7 DEF Load
  <1>8. ASSUME Conclude PROVE TypeInv'
    <2>0. gen.check \in Check /\ report[gen.check] \in Report /\ report[gen.check].results \in Count
      BY <1>0, <1>8 DEF TypeOK, Conclude, Report
    <2>1. gen' \in Gen
      BY <2>0, <1>0, <1>8 DEF TypeOK, Conclude, Gen, GenCommand
    <2>3. TypeOK'
      BY <2>1, <1>0, <1>8 DEF TypeOK, Conclude
    <2>4. BoundsInv'
      BY <2>1, <1>0, <1>8 DEF BoundsInv, Conclude, Busy, Added
    <2> QED
      BY <2>3, <2>4 DEF TypeInv
  <1>9. ASSUME ConcludeFails PROVE TypeInv'
    <2>1. gen' \in Gen
      BY <1>0, <1>a, <1>9 DEF TypeOK, ConcludeFails, Gen, GenCommand
    <2>3. TypeOK'
      BY <2>1, <1>0, <1>9 DEF TypeOK, ConcludeFails
    <2>4. BoundsInv'
      BY <2>1, <1>0, <1>9 DEF BoundsInv, ConcludeFails, Busy, Added
    <2> QED
      BY <2>3, <2>4 DEF TypeInv
  <1>10. ASSUME Save PROVE TypeInv'
    <2> DEFINE image == [report[gen.check] EXCEPT !.concl = gen.concl]
               data == [gen.data EXCEPT !.concl = gen.concl]
    <2>0. image \in Report /\ data \in Report
      BY <1>0, <1>10 DEF TypeOK, Save, Gen, Report
    <2> HIDE DEF image, data
    <2>a. \/ gen' = [gen EXCEPT !.data = data, !.pc = "open"]
          \/ gen' = [gen EXCEPT !.data = data, !.pc = "create", !.image = image]
      BY <1>0, <1>10 DEF Save, image, data
    <2>1. gen' \in Gen
      BY <2>0, <2>a, <1>0, ZenonT(60) DEF TypeOK, Gen, GenCommand
    <2>3. TypeOK'
      BY <2>1, <1>0, <1>10 DEF TypeOK, Save
    <2>4. BoundsInv'
      BY <2>1, <1>0, <1>10 DEF TypeOK, BoundsInv, Save, Busy, Added
    <2> QED
      BY <2>3, <2>4 DEF TypeInv
  <1>11. ASSUME Create PROVE TypeInv'
    <2>1. gen' \in Gen
      BY <1>0, <1>a, <1>11 DEF TypeOK, Create, Gen, GenCommand, Sections
    <2>3. TypeOK'
      BY <2>1, <1>0, <1>11 DEF TypeOK, Create
    <2>4. BoundsInv'
      BY <2>1, <1>0, <1>11 DEF TypeOK, BoundsInv, Create, Count, Busy, Added
    <2> QED
      BY <2>3, <2>4 DEF TypeInv
  <1>12. ASSUME Write PROVE TypeInv'
    <2>1. gen' \in Gen
      BY <1>0, <1>a, <1>12 DEF TypeOK, Write, Gen, GenCommand
    <2>3. TypeOK'
      BY <2>1, <1>0, <1>12 DEF TypeOK, Write, Gen
    <2>4. BoundsInv'
      BY <2>1, <1>0, <1>12 DEF BoundsInv, Write, Busy, Added
    <2> QED
      BY <2>3, <2>4 DEF TypeInv
  <1>13. ASSUME WriteFails PROVE TypeInv'
    <2>1. gen' \in Gen
      BY <1>0, <1>a, <1>13 DEF TypeOK, WriteFails, Gen, GenCommand
    <2>3. TypeOK'
      BY <2>1, <1>0, <1>13 DEF TypeOK, WriteFails, LeftCut
    <2>4. BoundsInv'
      BY <2>1, <1>0, <1>13 DEF BoundsInv, WriteFails, Busy, Added
    <2> QED
      BY <2>3, <2>4 DEF TypeInv
  <1>14. ASSUME NEW s \in Section, Open(s) PROVE TypeInv'
    <2>1. gen' \in Gen
      BY <1>0, <1>a, <1>14, ZenonT(60) DEF TypeOK, Open, Gen, GenCommand, Sections
    <2>3. TypeOK'
      BY <2>1, <1>0, <1>14 DEF TypeOK, BoundsInv, Open
    <2>4. BoundsInv'
      BY <2>1, <1>0, <1>14 DEF BoundsInv, Open, Busy, Added
    <2> QED
      BY <2>3, <2>4 DEF TypeInv
  <1>15. ASSUME Render PROVE TypeInv'
    <2>1. gen' \in Gen
      BY <1>0, <1>a, <1>15, ZenonT(60) DEF TypeOK, Render, Gen, GenCommand, Sections
    <2>3. TypeOK'
      BY <2>1, <1>0, <1>15 DEF TypeOK, Render, Gen
    <2>4. BoundsInv'
      BY <2>1, <1>0, <1>15 DEF BoundsInv, Render, Busy, Added
    <2> QED
      BY <2>3, <2>4 DEF TypeInv
  <1>16. ASSUME RenderFails PROVE TypeInv'
    <2>1. gen' \in Gen /\ gen'.pc \in {"idle", "pick"} /\ gen'.left = {}
      BY <1>0, <1>a, <1>16 DEF RenderFails
    <2>3. TypeOK'
      BY <2>1, <1>0, <1>16 DEF TypeOK, RenderFails
    <2>4. BoundsInv'
      BY <2>1, <1>0, <1>16 DEF BoundsInv, RenderFails, Added
    <2> QED
      BY <2>3, <2>4 DEF TypeInv
  <1>17. ASSUME Generated PROVE TypeInv'
    <2>1. gen' \in Gen /\ gen'.pc \in {"idle", "pick"} /\ gen'.left = {}
      BY <1>0, <1>a, <1>17 DEF Generated
    <2>3. TypeOK'
      BY <2>1, <1>0, <1>17 DEF TypeOK, Generated
    <2>4. BoundsInv'
      BY <2>1, <1>0, <1>17 DEF BoundsInv, Generated, Added
    <2> QED
      BY <2>3, <2>4 DEF TypeInv
  <1>18. ASSUME KeepFinal PROVE TypeInv'
    <2>1. gen' \in Gen /\ gen'.pc \in {"idle", "pick"} /\ gen'.left = {}
      BY <1>0, <1>a, <1>18 DEF KeepFinal
    <2>3. TypeOK'
      BY <2>1, <1>0, <1>18 DEF TypeOK, KeepFinal
    <2>4. BoundsInv'
      BY <2>1, <1>0, <1>18 DEF BoundsInv, KeepFinal, Added
    <2> QED
      BY <2>3, <2>4 DEF TypeInv
  <1>19. ASSUME BeginFinal PROVE TypeInv'
    <2>1. gen' \in Gen
      BY <1>0, <1>a, <1>19 DEF TypeOK, BeginFinal, Gen, GenCommand
    <2>2. final' \in Final
      BY <1>19 DEF BeginFinal, Final, NoBody, NoRow, Row, File
    <2>3. TypeOK'
      BY <2>1, <2>2, <1>0, <1>19 DEF TypeOK, BeginFinal
    <2>4. BoundsInv'
      BY <2>1, <1>0, <1>19 DEF BoundsInv, BeginFinal, Busy, Added
    <2> QED
      BY <2>3, <2>4 DEF TypeInv
  <1>20. ASSUME GlueFinal PROVE TypeInv'
    <2>1. gen' \in Gen /\ gen'.pc \in {"idle", "pick"} /\ gen'.left = {}
      BY <1>0, <1>a, <1>20 DEF GlueFinal
    <2>2. final' \in Final
      BY <1>0, <1>20 DEF TypeOK, GlueFinal, Final, NoRow, Row, File, Report
    <2>3. TypeOK'
      BY <2>1, <2>2, <1>0, <1>20 DEF TypeOK, GlueFinal
    <2>4. BoundsInv'
      BY <2>1, <1>0, <1>20 DEF BoundsInv, GlueFinal, Added
    <2> QED
      BY <2>3, <2>4 DEF TypeInv
  <1>21. ASSUME PghrepDies PROVE TypeInv'
    <2>1. gen' \in Gen /\ gen'.pc \in {"idle", "pick"} /\ gen'.left = {}
      BY <1>0, <1>a, <1>21 DEF PghrepDies
    <2>3. TypeOK'
      BY <2>1, <1>0, <1>21 DEF TypeOK, PghrepDies, LeftCut
    <2>4. BoundsInv'
      BY <2>1, <1>0, <1>21 DEF BoundsInv, PghrepDies, Added
    <2> QED
      BY <2>3, <2>4 DEF TypeInv
  <1>22. ASSUME Die PROVE TypeInv'
    <2>1. gen' \in Gen /\ gen'.pc \in {"idle", "pick"} /\ gen'.left = {}
      BY <1>0, <1>a, <1>22 DEF Die
    <2>3. TypeOK'
      BY <2>1, <1>0, <1>22 DEF TypeOK, Die, LeftCut
    <2>4. BoundsInv'
      BY <2>1, <1>0, <1>22 DEF BoundsInv, Die, Added
    <2> QED
      BY <2>3, <2>4 DEF TypeInv
  <1>23. CASE UNCHANGED vars
    BY <1>0, <1>23 DEF TypeInv, TypeOK, BoundsInv, vars, Busy, Added
  <1> QED
    BY <1>1, <1>2, <1>3, <1>4, <1>5, <1>6, <1>7, <1>8, <1>9, <1>10, <1>11, <1>12,
       <1>13, <1>14, <1>15, <1>16, <1>17, <1>18, <1>19, <1>20, <1>21, <1>22, <1>23
    DEF Next, Pghrep

\* The types and the bounds hold initially.
LEMMA TypeInvInit == Init => TypeInv
  <1> SUFFICES ASSUME Init PROVE TypeInv
    OBVIOUS
  <1>1. final \in Final
    BY Constants DEF Init, Final, NoBody, NoRow, Row, File
  <1>2. TypeOK
    BY <1>1, SectionAssumption, Constants, NoGenType, NoColType DEF Init, TypeOK
  <1>3. BoundsInv
    BY Constants, NoGenType, NoColType DEF Init, BoundsInv
  <1> QED
    BY <1>2, <1>3 DEF TypeInv

\* Every variable has its type in every behaviour: in particular pghrep never
\* works on a check, or renders a section, that does not exist, and the number
\* of results stays within its bound.
THEOREM TypeCorrect == Spec => []TypeOK
  <1>1. TypeInv => TypeOK
    BY DEF TypeInv
  <1> QED
    BY <1>1, TypeInvInit, TypeInvInductive, PTL DEF Spec

\* Every step preserves PresentInv.
LEMMA PresentInductive ==
  ASSUME TypeInv, TypeInv', PresentInv, [Next]_vars
  PROVE  PresentInv'
  <1> USE SectionAssumption, Constants
  <1>0. TypeOK /\ BoundsInv /\ TypeOK'
    BY DEF TypeInv
  <1>1. ASSUME NEW c \in Check, Collect(c) PROVE PresentInv'
    BY <1>0, <1>1 DEF PresentInv, Busy, Collect
  <1>2. ASSUME CollectJq PROVE PresentInv'
    BY <1>0, <1>2 DEF PresentInv, Busy, CollectJq, Extended, Template
  <1>3. ASSUME CollectMv PROVE PresentInv'
    BY <1>0, <1>3 DEF PresentInv, Busy, CollectMv, NoCol
  <1>4. ASSUME CollectDies PROVE PresentInv'
    BY <1>0, <1>4 DEF PresentInv, Busy, CollectDies, NoCol
  <1>5. ASSUME NEW only \in Check \cup {None}, Begin(only) PROVE PresentInv'
    BY <1>0, <1>5, ZenonT(60)
    DEF TypeOK, Gen, Col, BoundsInv, Sections, Report, PresentInv, Busy, Begin, NoGen
  <1>6. ASSUME NEW c \in Check, Pick(c) PROVE PresentInv'
    BY <1>0, <1>6 DEF PresentInv, Busy, Pick
  <1>7. ASSUME Load PROVE PresentInv'
    BY <1>0, <1>7, ZenonT(60)
    DEF TypeOK, Gen, Col, BoundsInv, Sections, Report, PresentInv, Busy, Load, Failed,
        AfterPghrep, NoGen
  <1>8. ASSUME Conclude PROVE PresentInv'
    BY <1>0, <1>8 DEF PresentInv, Busy, Conclude
  <1>9. ASSUME ConcludeFails PROVE PresentInv'
    BY <1>0, <1>9 DEF PresentInv, Busy, ConcludeFails
  <1>10. ASSUME Save PROVE PresentInv'
    BY <1>0, <1>10 DEF TypeOK, Gen, Report, PresentInv, Busy, Save
  <1>11. ASSUME Create PROVE PresentInv'
    BY <1>0, <1>11 DEF PresentInv, Busy, Create
  <1>12. ASSUME Write PROVE PresentInv'
    BY <1>0, <1>12 DEF PresentInv, Busy, Write
  <1>13. ASSUME WriteFails PROVE PresentInv'
    BY <1>0, <1>13 DEF PresentInv, Busy, WriteFails
  <1>14. ASSUME NEW s \in Section, Open(s) PROVE PresentInv'
    BY <1>0, <1>14 DEF BoundsInv, Sections, PresentInv, Open
  <1>15. ASSUME Render PROVE PresentInv'
    BY <1>0, <1>15 DEF TypeOK, Sections, PresentInv, Busy, Render
  <1>16. ASSUME RenderFails PROVE PresentInv'
    BY <1>0, <1>16 DEF PresentInv, Busy, RenderFails, Failed, AfterPghrep
  <1>17. ASSUME Generated PROVE PresentInv'
    BY <1>0, <1>17 DEF PresentInv, Busy, Generated, AfterPghrep
  <1>18. ASSUME KeepFinal PROVE PresentInv'
    BY <1>0, <1>18 DEF PresentInv, Busy, KeepFinal, NoGen
  <1>19. ASSUME BeginFinal PROVE PresentInv'
    BY <1>0, <1>19 DEF PresentInv, Busy, BeginFinal
  <1>20. ASSUME GlueFinal PROVE PresentInv'
    BY <1>0, <1>20 DEF PresentInv, Busy, GlueFinal, NoGen
  <1>21. ASSUME PghrepDies PROVE PresentInv'
    BY <1>0, <1>21 DEF PresentInv, Busy, PghrepDies, Failed, AfterPghrep
  <1>22. ASSUME Die PROVE PresentInv'
    BY <1>0, <1>22 DEF PresentInv, Busy, Die, NoGen
  <1>23. CASE UNCHANGED vars
    BY <1>23 DEF PresentInv, Busy, vars
  <1> QED
    BY <1>1, <1>2, <1>3, <1>4, <1>5, <1>6, <1>7, <1>8, <1>9, <1>10, <1>11, <1>12,
       <1>13, <1>14, <1>15, <1>16, <1>17, <1>18, <1>19, <1>20, <1>21, <1>22, <1>23
    DEF Next, Pghrep

\* Every step preserves ResultsInv.
LEMMA ResultsInductive ==
  ASSUME TypeInv, TypeInv', PresentInv, ResultsInv, [Next]_vars
  PROVE  ResultsInv'
  <1> USE SectionAssumption, Constants
  <1>0. TypeOK /\ BoundsInv /\ TypeOK'
    BY DEF TypeInv
  <1>1. ASSUME NEW c \in Check, Collect(c) PROVE ResultsInv'
    BY <1>0, <1>1 DEF ResultsInv, Rewriting, Collect
  <1>2. ASSUME CollectJq PROVE ResultsInv'
    BY <1>0, <1>2
    DEF TypeOK, BoundsInv, Count, ResultsInv, PresentInv, Rewriting, Added, CollectJq,
        Extended, Template
  <1>3. ASSUME CollectMv PROVE ResultsInv'
    BY <1>0, <1>3 DEF TypeOK, Count, ResultsInv, Rewriting, Added, CollectMv, NoCol
  <1>4. ASSUME CollectDies PROVE ResultsInv'
    BY <1>0, <1>4 DEF ResultsInv, Rewriting, CollectDies, NoCol
  <1>5. ASSUME NEW only \in Check \cup {None}, Begin(only) PROVE ResultsInv'
    BY <1>0, <1>5 DEF ResultsInv, Rewriting, Added, Begin, NoGen
  <1>6. ASSUME NEW c \in Check, Pick(c) PROVE ResultsInv'
    BY <1>0, <1>6 DEF ResultsInv, Rewriting, Added, Pick
  <1>7. ASSUME Load PROVE ResultsInv'
    BY <1>0, <1>7 DEF ResultsInv, Rewriting, Added, Load, Failed, AfterPghrep, NoGen
  <1>8. ASSUME Conclude PROVE ResultsInv'
    BY <1>0, <1>8 DEF ResultsInv, Rewriting, Added, Conclude
  <1>9. ASSUME ConcludeFails PROVE ResultsInv'
    BY <1>0, <1>9 DEF ResultsInv, Rewriting, Added, ConcludeFails
  <1>10. ASSUME Save PROVE ResultsInv'
    BY <1>0, <1>10 DEF ResultsInv, Rewriting, Added, Save
  <1>11. ASSUME Create PROVE ResultsInv'
    BY <1>0, <1>11 DEF ResultsInv, Rewriting, Added, Create
  <1>12. ASSUME Write PROVE ResultsInv'
    BY <1>0, <1>12 DEF TypeOK, ResultsInv, Rewriting, Added, Write
  <1>13. ASSUME WriteFails PROVE ResultsInv'
    BY <1>0, <1>13 DEF ResultsInv, Rewriting, Added, WriteFails, LeftCut
  <1>14. ASSUME NEW s \in Section, Open(s) PROVE ResultsInv'
    BY <1>0, <1>14 DEF ResultsInv, Rewriting, Added, Open
  <1>15. ASSUME Render PROVE ResultsInv'
    BY <1>0, <1>15 DEF ResultsInv, Rewriting, Added, Render
  <1>16. ASSUME RenderFails PROVE ResultsInv'
    BY <1>0, <1>16 DEF ResultsInv, Rewriting, Added, RenderFails, Failed, AfterPghrep, NoGen
  <1>17. ASSUME Generated PROVE ResultsInv'
    BY <1>0, <1>17 DEF ResultsInv, Rewriting, Added, Generated, AfterPghrep, NoGen
  <1>18. ASSUME KeepFinal PROVE ResultsInv'
    BY <1>0, <1>18 DEF ResultsInv, Rewriting, Added, KeepFinal, NoGen
  <1>19. ASSUME BeginFinal PROVE ResultsInv'
    BY <1>0, <1>19 DEF ResultsInv, Rewriting, Added, BeginFinal
  <1>20. ASSUME GlueFinal PROVE ResultsInv'
    BY <1>0, <1>20 DEF ResultsInv, Rewriting, Added, GlueFinal, NoGen
  <1>21. ASSUME PghrepDies PROVE ResultsInv'
    BY <1>0, <1>21
    DEF ResultsInv, Rewriting, Added, PghrepDies, Failed, AfterPghrep, NoGen, LeftCut
  <1>22. ASSUME Die PROVE ResultsInv'
    BY <1>0, <1>22 DEF ResultsInv, Rewriting, Added, Die, NoGen, LeftCut
  <1>23. CASE UNCHANGED vars
    BY <1>23 DEF ResultsInv, PresentInv, Busy, Rewriting, Added, vars
  <1> QED
    BY <1>1, <1>2, <1>3, <1>4, <1>5, <1>6, <1>7, <1>8, <1>9, <1>10, <1>11, <1>12,
       <1>13, <1>14, <1>15, <1>16, <1>17, <1>18, <1>19, <1>20, <1>21, <1>22, <1>23
    DEF Next, Pghrep

\* Every step preserves MetInv.
LEMMA MetInductive ==
  ASSUME TypeInv, TypeInv', MetInv, [Next]_vars
  PROVE  MetInv'
  <1> USE SectionAssumption, Constants
  <1>0. TypeOK /\ BoundsInv /\ TypeOK'
    BY DEF TypeInv
  <1>1. ASSUME NEW c \in Check, Collect(c) PROVE MetInv'
    BY <1>0, <1>1 DEF MetInv, Collect
  <1>2. ASSUME CollectJq PROVE MetInv'
    BY <1>0, <1>2 DEF MetInv, Rewriting, CollectJq
  <1>3. ASSUME CollectMv PROVE MetInv'
    BY <1>0, <1>3 DEF MetInv, Rewriting, CollectMv, NoCol
  <1>4. ASSUME CollectDies PROVE MetInv'
    BY <1>0, <1>4 DEF MetInv, CollectDies, NoCol
  <1>5. ASSUME NEW only \in Check \cup {None}, Begin(only) PROVE MetInv'
    BY <1>0, <1>5 DEF TypeOK, Gen, Col, MetInv, Rewriting, Begin, NoGen
  <1>6. ASSUME NEW c \in Check, Pick(c) PROVE MetInv'
    BY <1>0, <1>6 DEF MetInv, Pick
  <1>7. ASSUME Load PROVE MetInv'
    BY <1>0, <1>7 DEF MetInv, Load
  <1>8. ASSUME Conclude PROVE MetInv'
    BY <1>0, <1>8 DEF MetInv, Conclude
  <1>9. ASSUME ConcludeFails PROVE MetInv'
    BY <1>0, <1>9 DEF MetInv, ConcludeFails
  <1>10. ASSUME Save PROVE MetInv'
    BY <1>0, <1>10 DEF MetInv, Save
  <1>11. ASSUME Create PROVE MetInv'
    BY <1>0, <1>11 DEF MetInv, Create
  <1>12. ASSUME Write PROVE MetInv'
    BY <1>0, <1>12 DEF MetInv, Write
  <1>13. ASSUME WriteFails PROVE MetInv'
    BY <1>0, <1>13 DEF MetInv, WriteFails
  <1>14. ASSUME NEW s \in Section, Open(s) PROVE MetInv'
    BY <1>0, <1>14 DEF MetInv, Open
  <1>15. ASSUME Render PROVE MetInv'
    BY <1>0, <1>15 DEF MetInv, Render
  <1>16. ASSUME RenderFails PROVE MetInv'
    BY <1>0, <1>16 DEF MetInv, RenderFails
  <1>17. ASSUME Generated PROVE MetInv'
    BY <1>0, <1>17 DEF MetInv, Generated
  <1>18. ASSUME KeepFinal PROVE MetInv'
    BY <1>0, <1>18 DEF MetInv, KeepFinal
  <1>19. ASSUME BeginFinal PROVE MetInv'
    BY <1>0, <1>19 DEF MetInv, BeginFinal
  <1>20. ASSUME GlueFinal PROVE MetInv'
    BY <1>0, <1>20 DEF MetInv, GlueFinal
  <1>21. ASSUME PghrepDies PROVE MetInv'
    BY <1>0, <1>21 DEF MetInv, PghrepDies
  <1>22. ASSUME Die PROVE MetInv'
    BY <1>0, <1>22 DEF MetInv, Die
  <1>23. CASE UNCHANGED vars
    BY <1>23 DEF MetInv, Rewriting, vars
  <1> QED
    BY <1>1, <1>2, <1>3, <1>4, <1>5, <1>6, <1>7, <1>8, <1>9, <1>10, <1>11, <1>12,
       <1>13, <1>14, <1>15, <1>16, <1>17, <1>18, <1>19, <1>20, <1>21, <1>22, <1>23
    DEF Next, Pghrep

\* Every step preserves DataInv; the step of a collection is harmless because
\* MetInv' puts its check among those that have met the `process`.
LEMMA DataInductive ==
  ASSUME TypeInv, TypeInv', PresentInv, ResultsInv, MetInv, MetInv', DataInv, [Next]_vars
  PROVE  DataInv'
  <1> USE SectionAssumption, Constants
  <1>0. TypeOK /\ BoundsInv /\ TypeOK'
    BY DEF TypeInv
  <1>1. ASSUME NEW c \in Check, Collect(c) PROVE DataInv'
    BY <1>0, <1>1 DEF DataInv, Busy, Collect
  <1>2. ASSUME CollectJq PROVE DataInv'
    BY <1>0, <1>2 DEF DataInv, Busy, CollectJq
  <1>3. ASSUME CollectMv PROVE DataInv'
    BY <1>0, <1>3 DEF DataInv, MetInv, Busy, CollectMv
  <1>4. ASSUME CollectDies PROVE DataInv'
    BY <1>0, <1>4 DEF DataInv, Busy, CollectDies
  <1>5. ASSUME NEW only \in Check \cup {None}, Begin(only) PROVE DataInv'
    BY <1>0, <1>5
    DEF TypeOK, Gen, Col, Report, BoundsInv, DataInv, ResultsInv, PresentInv, MetInv, Busy,
        Rewriting, Begin, NoGen
  <1>6. ASSUME NEW c \in Check, Pick(c) PROVE DataInv'
    <2>1. CASE gen' = [gen EXCEPT !.todo = @ \ {c}]
      BY <2>1, <1>0, <1>6 DEF DataInv, Pick, Busy
    <2>2. CASE gen' = [gen EXCEPT !.pc = "load", !.todo = @ \ {c}, !.check = c,
                                  !.name = IF report[c].file = "full" THEN c ELSE None]
      <3>1. c \notin met \cup cut => report[c].file = "full"
        BY <1>0, <1>6 DEF TypeOK, Report, File, ResultsInv, PresentInv, MetInv, Pick
      <3> QED
        BY <2>2, <3>1, <1>0, <1>6 DEF DataInv, Pick
    <2> QED
      BY <2>1, <2>2, <1>6 DEF Pick
  <1>7. ASSUME Load PROVE DataInv'
    BY <1>0, <1>7 DEF DataInv, Busy, Load, Failed, AfterPghrep
  <1>8. ASSUME Conclude PROVE DataInv'
    BY <1>0, <1>8 DEF DataInv, Busy, Conclude
  <1>9. ASSUME ConcludeFails PROVE DataInv'
    BY <1>0, <1>9 DEF DataInv, Busy, ConcludeFails
  <1>10. ASSUME Save PROVE DataInv'
    BY <1>0, <1>10 DEF TypeOK, Report, BoundsInv, DataInv, ResultsInv, Busy, Save
  <1>11. ASSUME Create PROVE DataInv'
    BY <1>0, <1>11 DEF DataInv, Busy, Create
  <1>12. ASSUME Write PROVE DataInv'
    BY <1>0, <1>12 DEF TypeOK, DataInv, Busy, Write
  <1>13. ASSUME WriteFails PROVE DataInv'
    BY <1>0, <1>13 DEF DataInv, Busy, WriteFails, LeftCut
  <1>14. ASSUME NEW s \in Section, Open(s) PROVE DataInv'
    BY <1>0, <1>14 DEF DataInv, Busy, Open
  <1>15. ASSUME Render PROVE DataInv'
    BY <1>0, <1>15 DEF DataInv, Busy, Render
  <1>16. ASSUME RenderFails PROVE DataInv'
    BY <1>0, <1>16 DEF DataInv, RenderFails, Failed, AfterPghrep, NoGen
  <1>17. ASSUME Generated PROVE DataInv'
    BY <1>0, <1>17 DEF DataInv, Generated, AfterPghrep, NoGen
  <1>18. ASSUME KeepFinal PROVE DataInv'
    BY <1>0, <1>18 DEF DataInv, KeepFinal, NoGen
  <1>19. ASSUME BeginFinal PROVE DataInv'
    BY <1>0, <1>19 DEF DataInv, Busy, BeginFinal
  <1>20. ASSUME GlueFinal PROVE DataInv'
    BY <1>0, <1>20 DEF DataInv, GlueFinal, NoGen
  <1>21. ASSUME PghrepDies PROVE DataInv'
    BY <1>0, <1>21 DEF DataInv, PghrepDies, Failed, AfterPghrep, NoGen
  <1>22. ASSUME Die PROVE DataInv'
    BY <1>0, <1>22 DEF DataInv, Die, NoGen
  <1>23. CASE UNCHANGED vars
    BY <1>23 DEF DataInv, ResultsInv, PresentInv, MetInv, Busy, Rewriting, vars
  <1> QED
    BY <1>1, <1>2, <1>3, <1>4, <1>5, <1>6, <1>7, <1>8, <1>9, <1>10, <1>11, <1>12,
       <1>13, <1>14, <1>15, <1>16, <1>17, <1>18, <1>19, <1>20, <1>21, <1>22, <1>23
    DEF Next, Pghrep

\* Every step preserves SectionsAgree: a section is rendered from data whose
\* conclusions are those of its results (DataInv).
LEMMA SectionsInductive ==
  ASSUME TypeInv, TypeInv', MetInv, DataInv, SectionsAgree, [Next]_vars
  PROVE  SectionsAgree'
  <1> USE SectionAssumption, Constants
  <1>0. TypeOK /\ BoundsInv /\ TypeOK'
    BY DEF TypeInv
  <1>1. ASSUME NEW c \in Check, Collect(c) PROVE SectionsAgree'
    BY <1>0, <1>1 DEF SectionsAgree, Collect
  <1>2. ASSUME CollectJq PROVE SectionsAgree'
    BY <1>0, <1>2 DEF SectionsAgree, CollectJq
  <1>3. ASSUME CollectMv PROVE SectionsAgree'
    BY <1>0, <1>3 DEF SectionsAgree, CollectMv
  <1>4. ASSUME CollectDies PROVE SectionsAgree'
    BY <1>0, <1>4 DEF SectionsAgree, CollectDies
  <1>5. ASSUME NEW only \in Check \cup {None}, Begin(only) PROVE SectionsAgree'
    BY <1>0, <1>5
    DEF TypeOK, Gen, Sections, Report, SectionsAgree, DataInv, Busy, Begin, NoGen
  <1>6. ASSUME NEW c \in Check, Pick(c) PROVE SectionsAgree'
    BY <1>0, <1>6 DEF SectionsAgree, Pick
  <1>7. ASSUME Load PROVE SectionsAgree'
    BY <1>0, <1>7
    DEF TypeOK, Gen, Sections, Report, SectionsAgree, DataInv, Busy, Load, Failed,
        AfterPghrep, NoGen
  <1>8. ASSUME Conclude PROVE SectionsAgree'
    BY <1>0, <1>8 DEF SectionsAgree, Conclude
  <1>9. ASSUME ConcludeFails PROVE SectionsAgree'
    BY <1>0, <1>9 DEF SectionsAgree, ConcludeFails
  <1>10. ASSUME Save PROVE SectionsAgree'
    BY <1>0, <1>10 DEF SectionsAgree, Save
  <1>11. ASSUME Create PROVE SectionsAgree'
    BY <1>0, <1>11 DEF SectionsAgree, Create
  <1>12. ASSUME Write PROVE SectionsAgree'
    BY <1>0, <1>12 DEF SectionsAgree, Write
  <1>13. ASSUME WriteFails PROVE SectionsAgree'
    BY <1>0, <1>13 DEF SectionsAgree, WriteFails
  <1>14. ASSUME NEW s \in Section, Open(s) PROVE SectionsAgree'
    BY <1>0, <1>14 DEF SectionsAgree, Open
  <1>15. ASSUME Render PROVE SectionsAgree'
    BY <1>0, <1>15 DEF TypeOK, Gen, Sections, Report, SectionsAgree, DataInv, Busy, Render
  <1>16. ASSUME RenderFails PROVE SectionsAgree'
    BY <1>0, <1>16 DEF SectionsAgree, RenderFails
  <1>17. ASSUME Generated PROVE SectionsAgree'
    BY <1>0, <1>17 DEF SectionsAgree, Generated
  <1>18. ASSUME KeepFinal PROVE SectionsAgree'
    BY <1>0, <1>18 DEF SectionsAgree, KeepFinal
  <1>19. ASSUME BeginFinal PROVE SectionsAgree'
    BY <1>0, <1>19 DEF SectionsAgree, BeginFinal
  <1>20. ASSUME GlueFinal PROVE SectionsAgree'
    BY <1>0, <1>20 DEF SectionsAgree, GlueFinal
  <1>21. ASSUME PghrepDies PROVE SectionsAgree'
    BY <1>0, <1>21 DEF SectionsAgree, PghrepDies
  <1>22. ASSUME Die PROVE SectionsAgree'
    BY <1>0, <1>22 DEF SectionsAgree, Die
  <1>23. CASE UNCHANGED vars
    BY <1>23 DEF SectionsAgree, DataInv, Busy, vars
  <1> QED
    BY <1>1, <1>2, <1>3, <1>4, <1>5, <1>6, <1>7, <1>8, <1>9, <1>10, <1>11, <1>12,
       <1>13, <1>14, <1>15, <1>16, <1>17, <1>18, <1>19, <1>20, <1>21, <1>22, <1>23
    DEF Next, Pghrep

\* Every step preserves GluedInv.
LEMMA GluedInductive ==
  ASSUME TypeInv, TypeInv', PresentInv, PresentInv', ResultsInv, MetInv, DataInv, DataInv', GluedInv, [Next]_vars
  PROVE  GluedInv'
  <1> USE SectionAssumption, Constants
  <1>0. TypeOK /\ BoundsInv /\ TypeOK'
    BY DEF TypeInv
  <1>1. ASSUME NEW c \in Check, Collect(c) PROVE GluedInv'
    BY <1>0, <1>1 DEF GluedInv, Busy, Collect
  <1>2. ASSUME CollectJq PROVE GluedInv'
    BY <1>0, <1>2 DEF GluedInv, Busy, CollectJq
  <1>3. ASSUME CollectMv PROVE GluedInv'
    BY <1>0, <1>3 DEF GluedInv, MetInv, Busy, CollectMv
  <1>4. ASSUME CollectDies PROVE GluedInv'
    BY <1>0, <1>4 DEF GluedInv, Busy, CollectDies
  <1>5. ASSUME NEW only \in Check \cup {None}, Begin(only) PROVE GluedInv'
    <2>1. gen'.pc = "pick" /\ gen'.todo = {c \in Check : report[c].file # "absent"}
      BY <1>5 DEF Begin
    <2>2. \A s \in Section : CheckOf[s] \notin gen'.todo => md[s] = report[CheckOf[s]]
      BY <2>1, <1>0 DEF PresentInv
    <2> QED
      BY <2>1, <2>2, <1>5 DEF GluedInv, Begin
  <1>6. ASSUME NEW c \in Check, Pick(c) PROVE GluedInv'
    BY <1>0, <1>6 DEF GluedInv, Busy, Pick
  <1>7. ASSUME Load PROVE GluedInv'
    <2>1. CASE gen' = Failed
      <3>1. gen'.pc = "pick" /\ gen'.only = gen.only /\ gen'.todo = gen.todo
            /\ gen'.failed = gen.failed \cup {gen.name}
        BY <2>1 DEF Failed, AfterPghrep
      <3>2. gen.check \in met \cup cut \cup gen'.failed
        BY <3>1, <1>0, <1>7 DEF DataInv, Busy, Load
      <3> QED
        BY <3>1, <3>2, <1>0, <1>7 DEF GluedInv, Load
    <2>2. CASE \E pc \in {"conclude", "open"} :
                 gen' = [gen EXCEPT !.data = report[gen.check],
                                    !.left = Sections(gen.check), !.pc = pc]
      <3> PICK pc \in {"conclude", "open"} :
            gen' = [gen EXCEPT !.data = report[gen.check],
                               !.left = Sections(gen.check), !.pc = pc]
        BY <2>2
      <3>1. /\ gen'.pc = pc /\ gen'.left = Sections(gen.check) /\ gen'.check = gen.check
            /\ gen'.todo = gen.todo /\ gen'.only = gen.only /\ gen'.failed = gen.failed
        BY <1>0
      <3>2. \A s \in Section : gen.check = CheckOf[s] => s \in gen'.left
        BY <3>1 DEF Sections
      <3> QED
        BY <3>1, <3>2, <1>7 DEF GluedInv, Load, Busy
    <2> QED
      BY <2>1, <2>2, <1>7 DEF Load
  <1>8. ASSUME Conclude PROVE GluedInv'
    BY <1>0, <1>8 DEF GluedInv, DataInv, Busy, Conclude
  <1>9. ASSUME ConcludeFails PROVE GluedInv'
    BY <1>0, <1>9 DEF BoundsInv, Sections, GluedInv, Busy, ConcludeFails
  <1>10. ASSUME Save PROVE GluedInv'
    BY <1>0, <1>10 DEF GluedInv, DataInv, Busy, Save
  <1>11. ASSUME Create PROVE GluedInv'
    BY <1>0, <1>11 DEF GluedInv, Busy, Create
  <1>12. ASSUME Write PROVE GluedInv'
    BY <1>0, <1>12 DEF BoundsInv, Sections, GluedInv, Busy, Write
  <1>13. ASSUME WriteFails PROVE GluedInv'
    BY <1>0, <1>13 DEF GluedInv, DataInv, WriteFails, LeftCut
  <1>14. ASSUME NEW s \in Section, Open(s) PROVE GluedInv'
    BY <1>0, <1>14 DEF BoundsInv, Sections, GluedInv, Busy, Open
  <1>15. ASSUME Render PROVE GluedInv'
    BY <1>0, <1>15 DEF TypeOK, Sections, GluedInv, Busy, Render
  <1>16. ASSUME RenderFails PROVE GluedInv'
    BY <1>0, <1>16
    DEF TypeOK, Sections, GluedInv, DataInv, Busy, RenderFails, Failed, AfterPghrep
  <1>17. ASSUME Generated PROVE GluedInv'
    BY <1>0, <1>17 DEF GluedInv, DataInv, Generated, AfterPghrep
  <1>18. ASSUME KeepFinal PROVE GluedInv'
    BY <1>0, <1>18 DEF GluedInv, KeepFinal, NoGen
  <1>19. ASSUME BeginFinal PROVE GluedInv'
    BY <1>0, <1>19 DEF GluedInv, Busy, BeginFinal
  <1>20. ASSUME GlueFinal PROVE GluedInv'
    BY <1>0, <1>20 DEF GluedInv, GlueFinal, NoGen
  <1>21. ASSUME PghrepDies PROVE GluedInv'
    BY <1>0, <1>21 DEF GluedInv, DataInv, PghrepDies, Failed, AfterPghrep, LeftCut
  <1>22. ASSUME Die PROVE GluedInv'
    BY <1>0, <1>22 DEF GluedInv, Die, NoGen
  <1>23. CASE UNCHANGED vars
    BY <1>23 DEF GluedInv, PresentInv, ResultsInv, DataInv, MetInv, Busy, Rewriting, vars
  <1> QED
    BY <1>1, <1>2, <1>3, <1>4, <1>5, <1>6, <1>7, <1>8, <1>9, <1>10, <1>11, <1>12,
       <1>13, <1>14, <1>15, <1>16, <1>17, <1>18, <1>19, <1>20, <1>21, <1>22, <1>23
    DEF Next, Pghrep

\* The inductive invariant.
Inv ==
  /\ TypeInv /\ PresentInv /\ ResultsInv /\ MetInv /\ DataInv
  /\ SectionsAgree /\ GluedInv

\* Inv holds initially.
LEMMA InvInit == Init => Inv
  <1> SUFFICES ASSUME Init PROVE Inv
    OBVIOUS
  <1>1. TypeInv
    BY TypeInvInit
  <1>2. PresentInv /\ ResultsInv /\ MetInv
    BY SectionAssumption, Constants
    DEF Init, NoGen, NoCol, PresentInv, ResultsInv, MetInv, Busy
  <1>3. DataInv /\ SectionsAgree /\ GluedInv
    BY Constants DEF Init, NoGen, DataInv, SectionsAgree, GluedInv
  <1> QED
    BY <1>1, <1>2, <1>3 DEF Inv

\* Every step preserves Inv.
LEMMA InvInductive == Inv /\ [Next]_vars => Inv'
  <1> SUFFICES ASSUME Inv, [Next]_vars PROVE Inv'
    OBVIOUS
  <1>1. TypeInv'
    BY TypeInvInductive DEF Inv
  <1>2. PresentInv'
    BY <1>1, PresentInductive DEF Inv
  <1>3. ResultsInv'
    BY <1>1, ResultsInductive DEF Inv
  <1>4. MetInv'
    BY <1>1, MetInductive DEF Inv
  <1>5. DataInv'
    BY <1>1, <1>4, DataInductive DEF Inv
  <1>6. SectionsAgree'
    BY <1>1, SectionsInductive DEF Inv
  <1>7. GluedInv'
    BY <1>1, <1>2, <1>5, GluedInductive DEF Inv
  <1> QED
    BY <1>1, <1>2, <1>3, <1>4, <1>5, <1>6, <1>7 DEF Inv

\* Inv holds in every behaviour.
THEOREM InvCorrect == Spec => []Inv
  BY InvInit, InvInductive, PTL DEF Spec

\* ResultsSurvive: writing the conclusions back (SaveReportResult, os.Create and
\* WriteTo) loses no result of a collection, unless the two clash or the write
\* is never made.
THEOREM ResultsSurviveCorrect == Spec => []ResultsSurvive
  <1>1. Inv => ResultsSurvive
    BY DEF Inv, ResultsInv, ResultsSurvive
  <1> QED
    BY <1>1, InvCorrect, PTL

\* SectionsAgree: a section (generateMdReport) shows the conclusions drawn from
\* the results it shows, unless the check was collected during a `process` or a
\* `process` drew no conclusion.
THEOREM SectionsAgreeCorrect == Spec => []SectionsAgree
  <1>1. Inv => SectionsAgree
    BY DEF Inv
  <1> QED
    BY <1>1, InvCorrect, PTL

\* What is glued into the final report is what the JSON reports say at that
\* time.
LEMMA GluedTruly ==
  ASSUME Inv, GlueFinal, NEW s \in Section, CheckOf[s] \notin met \cup cut \cup gen.failed
  PROVE  /\ final'.body[s].section = report[CheckOf[s]]
         /\ s \in Summarised => final'.body[s].summary = report[CheckOf[s]].concl
  <1>1. md[s] = report[CheckOf[s]]
    BY DEF Inv, GluedInv, GlueFinal, Busy
  <1>2. /\ report[CheckOf[s]].file \in {"absent", "full"}
        /\ report[CheckOf[s]].file = "absent" => report[CheckOf[s]] = NoReport
    BY SectionAssumption
    DEF Inv, TypeInv, TypeOK, Report, File, ResultsInv, MetInv, PresentInv, GlueFinal
  <1>3. final'.body[s] = IF md[s].file = "absent" THEN NoRow
                         ELSE [section |-> md[s],
                               summary |-> IF md[s].file = "full" /\ s \in Summarised
                                           THEN report[CheckOf[s]].concl ELSE 0]
    BY DEF GlueFinal
  <1> QED
    BY <1>1, <1>2, <1>3, Constants DEF NoRow

\* Only the last step of glue_md_reports makes an empty final report a full one.
LEMMA OnlyGlueFills ==
  ASSUME [Next]_vars, final.file = "empty", final'.file = "full"
  PROVE  GlueFinal
  <1>1. final' # final
    OBVIOUS
  <1>2. ~Pghrep
    BY <1>1, Zenon
    DEF Pghrep, Load, Conclude, ConcludeFails, Save, Create, Write, WriteFails, Open,
        Render, RenderFails, Generated
  <1>3. ~BeginFinal
    BY DEF BeginFinal
  <1> QED
    BY <1>1, <1>2, <1>3, Zenon
    DEF Next, vars, Collect, CollectJq, CollectMv, CollectDies, Begin, Pick, KeepFinal,
        PghrepDies, Die

\* FinalTrue: when the final report is glued (glue_md_reports), its sections and
\* its summary are those of the JSON reports, but for the checks pghrep failed
\* on, those collected meanwhile and those whose report was left empty.
THEOREM FinalTrueCorrect == Spec => FinalTrue
  <1> DEFINE True == final.file = "empty" /\ final'.file = "full" =>
       \A s \in Section : CheckOf[s] \notin met \cup cut \cup gen.failed =>
         /\ final'.body[s].section = report[CheckOf[s]]
         /\ s \in Summarised => final'.body[s].summary = report[CheckOf[s]].concl
  <1>1. Inv /\ [Next]_vars => True
    BY OnlyGlueFills, GluedTruly
  <1>2. [][True]_vars => FinalTrue
    BY DEF FinalTrue
  <1> HIDE DEF True
  <1> QED
    BY <1>1, <1>2, InvCorrect, PTL DEF Spec

\* What JsonReports adds: conclusions are never about more results than there are,
\* only the checks pghrep has a case for have any, and for a check no collection
\* has met, what is about to be written is about all results, and what a collection
\* is about to put in place has the conclusions of the report it replaces.
ConclInv ==
  /\ \A c \in Check :
       /\ report[c].concl <= newest[c]
       /\ c \notin Concluding => report[c].concl = 0
  /\ col.pc = "mv" =>
       /\ col.tmp.concl <= newest[col.check]
       /\ col.check \notin Concluding => col.tmp.concl = 0
       /\ col.check \notin met \cup cut => col.tmp.concl = report[col.check].concl
  /\ gen.pc \in {"conclude", "save", "create", "write"} => gen.check \in Concluding
  /\ gen.pc = "save" => gen.concl <= newest[gen.check]
  /\ gen.pc \in {"create", "write"} =>
       /\ gen.image.concl <= newest[gen.check]
       /\ gen.check \notin met => gen.image.concl = gen.image.results

\* Every step preserves ConclInv.
LEMMA ConclInductive ==
  ASSUME Inv, Inv', ConclInv, [Next]_vars
  PROVE  ConclInv'
  <1> USE SectionAssumption, Constants
  <1>0. /\ TypeOK /\ BoundsInv /\ TypeOK'
        /\ PresentInv /\ ResultsInv /\ MetInv /\ MetInv' /\ DataInv
    BY DEF Inv, TypeInv
  <1>1. ASSUME NEW c \in Check, Collect(c) PROVE ConclInv'
    BY <1>0, <1>1 DEF ConclInv, Collect
  <1>2. ASSUME CollectJq PROVE ConclInv'
    BY <1>0, <1>2
    DEF ConclInv, TypeOK, PresentInv, ResultsInv, MetInv, Rewriting, CollectJq, Extended,
        Template, NoReport, EmptyReport, Report, Count, Gen, Col
  <1>3. ASSUME CollectMv PROVE ConclInv'
    <2>1. /\ col.pc = "mv" /\ col.check \in Check
          /\ report \in [Check -> Report] /\ report' = [report EXCEPT ![col.check] = col.tmp]
      BY <1>0, <1>3 DEF TypeOK, CollectMv
    <2>2. \A c \in Check : newest[c] \in Nat /\ newest[c] <= newest'[c] /\ newest'[c] \in Nat
      BY <1>0, <1>3 DEF TypeOK, CollectMv, Count
    <2>3. /\ col'.pc # "mv"
          /\ gen'.pc = gen.pc /\ gen'.check = gen.check /\ gen'.concl = gen.concl
          /\ gen'.image = gen.image
      BY <1>0, <1>3 DEF TypeOK, CollectMv, NoCol, Gen, Col
    <2>4. met' = met
      BY <1>3 DEF CollectMv
    <2>5. /\ gen.pc \in {"save", "create", "write"} => gen.check \in Check
          /\ gen.concl \in Nat /\ gen.image.concl \in Nat /\ col.tmp.concl \in Nat
          /\ \A c \in Check : report[c].concl \in Nat
      BY <1>0 DEF TypeOK, Gen, Col, Report, Count
    <2>6. \A c \in Check : /\ report'[c].concl <= newest'[c]
                           /\ c \notin Concluding => report'[c].concl = 0
      BY <2>1, <2>2, <2>5 DEF ConclInv
    <2> QED
      BY <2>2, <2>3, <2>4, <2>5, <2>6 DEF ConclInv
  <1>4. ASSUME CollectDies PROVE ConclInv'
    BY <1>0, <1>4 DEF ConclInv, CollectDies, NoCol
  <1>5. ASSUME NEW only \in Check \cup {None}, Begin(only) PROVE ConclInv'
    BY <1>0, <1>5 DEF ConclInv, TypeOK, Col, Begin, NoGen
  <1>6. ASSUME NEW c \in Check, Pick(c) PROVE ConclInv'
    BY <1>0, <1>6 DEF ConclInv, Pick
  <1>7. ASSUME Load PROVE ConclInv'
    BY <1>0, <1>7 DEF ConclInv, TypeOK, Load, Failed, AfterPghrep, NoGen
  <1>8. ASSUME Conclude PROVE ConclInv'
    BY <1>0, <1>8 DEF ConclInv, BoundsInv, Conclude, TypeOK, Gen
  <1>9. ASSUME ConcludeFails PROVE ConclInv'
    BY <1>0, <1>9 DEF ConclInv, ConcludeFails
  <1>10. ASSUME Save PROVE ConclInv'
    BY <1>0, <1>10 DEF ConclInv, TypeOK, BoundsInv, DataInv, Busy, Save, Gen, Report, Count
  <1>11. ASSUME Create PROVE ConclInv'
    BY <1>0, <1>11 DEF ConclInv, TypeOK, Create, MetInv, EmptyReport, Template, Count, Gen, Col
  <1>12. ASSUME Write PROVE ConclInv'
    BY <1>0, <1>12 DEF ConclInv, TypeOK, MetInv, Write, Gen, Col
  <1>13. ASSUME WriteFails PROVE ConclInv'
    BY <1>0, <1>13 DEF ConclInv, WriteFails, LeftCut
  <1>14. ASSUME NEW s \in Section, Open(s) PROVE ConclInv'
    BY <1>0, <1>14 DEF ConclInv, Open
  <1>15. ASSUME Render PROVE ConclInv'
    BY <1>0, <1>15 DEF ConclInv, Render
  <1>16. ASSUME RenderFails PROVE ConclInv'
    BY <1>0, <1>16 DEF ConclInv, RenderFails, Failed, AfterPghrep, NoGen
  <1>17. ASSUME Generated PROVE ConclInv'
    BY <1>0, <1>17 DEF ConclInv, Generated, AfterPghrep, NoGen
  <1>18. ASSUME KeepFinal PROVE ConclInv'
    BY <1>0, <1>18 DEF ConclInv, KeepFinal, NoGen
  <1>19. ASSUME BeginFinal PROVE ConclInv'
    BY <1>0, <1>19 DEF ConclInv, BeginFinal
  <1>20. ASSUME GlueFinal PROVE ConclInv'
    BY <1>0, <1>20 DEF ConclInv, GlueFinal, NoGen
  <1>21. ASSUME PghrepDies PROVE ConclInv'
    BY <1>0, <1>21 DEF ConclInv, PghrepDies, Failed, AfterPghrep, NoGen, LeftCut
  <1>22. ASSUME Die PROVE ConclInv'
    BY <1>0, <1>22 DEF ConclInv, Die, NoGen, LeftCut
  <1>23. CASE UNCHANGED vars
    BY <1>23 DEF ConclInv, vars
  <1> QED
    BY <1>1, <1>2, <1>3, <1>4, <1>5, <1>6, <1>7, <1>8, <1>9, <1>10, <1>11, <1>12,
       <1>13, <1>14, <1>15, <1>16, <1>17, <1>18, <1>19, <1>20, <1>21, <1>22, <1>23
    DEF Next, Pghrep

\* ConclInv holds in every behaviour.
LEMMA ConclCorrect == Spec => []ConclInv
  <1>1. Init => ConclInv
    BY Constants DEF Init, ConclInv, NoGen, NoCol
  <1> QED
    BY <1>1, ConclInductive, InvCorrect, PTL DEF Spec

\* What is visible of a report has its type, before and after a step.
LEMMA VisibleType ==
  /\ TypeOK => \A c \in Check : Visible(c) \in Report
  /\ TypeOK' => \A c \in Check : Visible(c)' \in Report
  BY DEF TypeOK, Visible, Gen

\* What may happen to one report, when it is torn, is that it tears.
LEMMA Tears ==
  ASSUME TypeOK', NEW c \in Check, met' = met, (clash \cup cut)' = clash \cup cut \cup {c},
         \A d \in Check \ {c} : Visible(d)' = Visible(d)
  PROVE  Json!Tear(c)
  <1>1. /\ [d \in Check |-> Visible(d).results]' \in [Check -> Nat]
        /\ [d \in Check |-> Visible(d).concl]' \in [Check -> Nat]
    BY VisibleType, ResultsAssumption DEF Report, Count
  <1> QED
    BY <1>1 DEF Json!Tear

\* A visible report that gains a result, and keeps its conclusions unless it has
\* met a `process`, is collected.
LEMMA Collects ==
  ASSUME TypeOK, TypeOK', NEW c \in Check \ (clash \cup cut),
         met' = met, clash' = clash, cut' = cut,
         \A d \in Check \ {c} : Visible(d)' = Visible(d),
         Visible(c)'.results = Visible(c).results + 1,
         Visible(c)'.concl <= Visible(c).results,
         c \notin met => Visible(c)'.concl = Visible(c).concl
  PROVE  Json!Collected(c)
  <1>1. Visible(c)'.concl \in 0 .. Visible(c).results
    BY VisibleType, ResultsAssumption DEF Report, Count
  <1>2. /\ [d \in Check |-> Visible(d).results]'
             = [[d \in Check |-> Visible(d).results] EXCEPT ![c] = @ + 1]
        /\ [d \in Check |-> Visible(d).concl]'
             = [[d \in Check |-> Visible(d).concl] EXCEPT ![c] = Visible(c)'.concl]
    OBVIOUS
  <1> QED
    BY <1>1, <1>2 DEF Json!Collected

\* One that keeps its results and gets conclusions, from all results unless it has
\* met a `process`, is concluded, or stays as it is.
LEMMA Concludes ==
  ASSUME TypeOK, TypeOK', NEW c \in Check \ (clash \cup cut),
         met' = met, clash' = clash, cut' = cut,
         \A d \in Check \ {c} : Visible(d)' = Visible(d),
         Visible(c)'.results = Visible(c).results,
         Visible(c)'.concl <= Visible(c).results,
         c \in Concluding,
         c \notin met => Visible(c)'.concl = Visible(c).results
  PROVE  Json!Concluded(c)
  <1>1. Visible(c)'.concl \in 0 .. Visible(c).results
    BY VisibleType, ResultsAssumption DEF Report, Count
  <1>2. /\ [d \in Check |-> Visible(d).results]' = [d \in Check |-> Visible(d).results]
        /\ [d \in Check |-> Visible(d).concl]'
             = [[d \in Check |-> Visible(d).concl] EXCEPT ![c] = Visible(c)'.concl]
    OBVIOUS
  <1> QED
    BY <1>1, <1>2 DEF Json!Concluded

\* No report looks different after the step, and no history has changed.
Same == /\ met' = met /\ clash' = clash /\ cut' = cut
        /\ \A c \in Check : /\ Visible(c)'.results = Visible(c).results
                            /\ Visible(c)'.concl = Visible(c).concl

\* Every step of Process is one of JsonReports, or a stutter.
LEMMA StepImplementsJsonReports ==
  ASSUME Inv, Inv', ConclInv, [Next]_vars
  PROVE  Json!Next \/ Same
  <1> USE SectionAssumption, Constants
  <1>0. /\ TypeOK /\ BoundsInv /\ TypeOK'
        /\ PresentInv /\ ResultsInv /\ MetInv /\ MetInv' /\ DataInv
    BY DEF Inv, TypeInv
  <1>a. \A c \in Check : Json!Meet(c) \/ Json!Tear(c) \/ Json!Collected(c)
                           \/ Json!Concluded(c) => Json!Next
    BY DEF Json!Next
  <1>1. ASSUME NEW c \in Check, Collect(c) PROVE Json!Next \/ Same
    <2>1. clash' = clash /\ cut' = cut /\ \A d \in Check : Visible(d)' = Visible(d)
      BY <1>1 DEF Collect, Visible, Rewriting
    <2>2. CASE met' = met
      BY <2>1, <2>2 DEF Same
    <2>3. CASE met' = met \cup {c}
      BY <2>1, <2>3, <1>a DEF Json!Meet
    <2> QED
      BY <2>2, <2>3, <1>1 DEF Collect
  <1>2. ASSUME CollectJq PROVE Json!Next \/ Same
    <2> PICK c \in Check : c = col.check
      BY <1>0, <1>2 DEF TypeOK, CollectJq
    <2>1. met' = met /\ cut' = cut /\ \A d \in Check : Visible(d)' = Visible(d)
      BY <1>0, <1>2 DEF TypeOK, CollectJq, Visible, Rewriting
    <2>2. CASE clash' = clash
      BY <2>1, <2>2 DEF Same
    <2>3. CASE clash' = clash \cup {c}
      BY <2>1, <2>3, <1>0, <1>a, Tears
    <2> QED
      BY <2>2, <2>3, <1>2 DEF CollectJq
  <1>3. ASSUME CollectMv PROVE Json!Next \/ Same
    <2> PICK c \in Check : c = col.check
      BY <1>0, <1>3 DEF TypeOK, CollectMv
    <2>1. /\ met' = met /\ cut' = cut /\ clash' \in {clash, clash \cup {c}}
          /\ \A d \in Check \ {c} : Visible(d)' = Visible(d)
      BY <1>0, <1>3 DEF TypeOK, Gen, CollectMv, Visible, Rewriting
    <2>2. CASE c \in clash' \cup cut'
      <3>1. (clash \cup cut)' = clash \cup cut \cup {c}
        BY <2>1, <2>2
      <3> QED
        BY <2>1, <3>1, <1>0, <1>a, Tears
    <2>3. CASE c \notin clash' \cup cut'
      <3>1. clash' = clash /\ c \in Check \ (clash \cup cut) /\ ~Rewriting(c)
        BY <2>1, <2>3, <1>3 DEF CollectMv
      <3>2. Visible(c) = report[c] /\ Visible(c)' = col.tmp
        <4>1. gen'.pc = gen.pc /\ gen'.check = gen.check /\ report'[c] = col.tmp
          BY <1>0, <1>3 DEF TypeOK, Gen, CollectMv
        <4> QED
          BY <4>1, <3>1 DEF Visible, Rewriting
      <3>3. /\ report[c] \in Report /\ col.tmp \in Report
            /\ report[c].results = newest[c] /\ newest[c] \in Nat
            /\ col.tmp.results = newest[c] + Added
        BY <3>1, <1>0, <1>3 DEF TypeOK, Col, Count, ResultsInv, CollectMv
      <3>4. /\ col.tmp.concl <= newest[c]
            /\ c \notin met => col.tmp.concl = report[c].concl
            /\ c \notin Concluding => col.tmp.concl = 0 /\ report[c].concl = 0
        BY <3>1, <1>3 DEF ConclInv, CollectMv
      <3>5. CASE col.round = 1
        <4>1. Json!Collected(c)
          BY <2>1, <3>1, <3>2, <3>3, <3>4, <3>5, <1>0, Collects DEF Added
        <4> QED
          BY <2>1, <4>1, <1>a
      <3>6. CASE col.round # 1
        <4>1. col.tmp.results = report[c].results
          BY <3>3, <3>6 DEF Added, Report, Count
        <4>2. CASE c \in met /\ c \in Concluding
          <5>1. Json!Concluded(c)
            BY <2>1, <3>1, <3>2, <3>3, <3>4, <4>1, <4>2, <1>0, Concludes
          <5> QED
            BY <2>1, <5>1, <1>a
        <4>3. CASE col.tmp.concl = report[c].concl
          BY <2>1, <3>1, <3>2, <4>1, <4>3 DEF Same
        <4> QED
          BY <3>4, <4>2, <4>3
      <3> QED
        BY <3>5, <3>6
    <2> QED
      BY <2>2, <2>3
  <1>4. ASSUME CollectDies PROVE Json!Next \/ Same
    BY <1>0, <1>4 DEF Same, Visible, Rewriting, TypeOK, ResultsInv, CollectDies, NoCol
  <1>5. ASSUME NEW only \in Check \cup {None}, Begin(only) PROVE Json!Next \/ Same
    <2>1. clash' = clash /\ cut' = cut /\ \A d \in Check : Visible(d)' = Visible(d)
      BY <1>5 DEF Begin, NoGen, Visible, Rewriting
    <2>2. CASE met' = met
      BY <2>1, <2>2 DEF Same
    <2>3. CASE col.pc # "idle" /\ met' = met \cup {col.check}
      <3> PICK c \in Check : c = col.check
        BY <2>3, <1>0 DEF TypeOK
      <3> QED
        BY <2>1, <2>3, <1>a DEF Json!Meet
    <2> QED
      BY <2>2, <2>3, <1>5 DEF Begin
  <1>6. ASSUME NEW c \in Check, Pick(c) PROVE Json!Next \/ Same
    BY <1>0, <1>6 DEF Same, Visible, Rewriting, TypeOK, ResultsInv, Pick
  <1>7. ASSUME Load PROVE Json!Next \/ Same
    BY <1>0, <1>7
    DEF Same, Visible, Rewriting, TypeOK, ResultsInv, Load, Failed, AfterPghrep, NoGen
  <1>8. ASSUME Conclude PROVE Json!Next \/ Same
    BY <1>0, <1>8 DEF Same, Visible, Rewriting, TypeOK, ResultsInv, Conclude
  <1>9. ASSUME ConcludeFails PROVE Json!Next \/ Same
    BY <1>0, <1>9 DEF Same, Visible, Rewriting, TypeOK, ResultsInv, ConcludeFails
  <1>10. ASSUME Save PROVE Json!Next \/ Same
    BY <1>0, <1>10 DEF Same, Visible, Rewriting, TypeOK, ResultsInv, Save
  <1>11. ASSUME Create PROVE Json!Next \/ Same
    <2> PICK c \in Check : c = gen.check
      BY <1>0, <1>11 DEF TypeOK, Create
    <2>1. /\ met' = met /\ clash' = clash /\ cut' = cut
          /\ \A d \in Check \ {c} : Visible(d)' = Visible(d)
          /\ Visible(c) = report[c] /\ Visible(c)' = gen.image
      BY <1>0, <1>11 DEF TypeOK, Gen, ResultsInv, Create, Visible, Rewriting
    <2>2. CASE c \in clash \cup cut
      <3>1. (clash \cup cut)' = clash \cup cut \cup {c}
        BY <2>1, <2>2
      <3> QED
        BY <2>1, <3>1, <1>0, <1>a, Tears
    <2>3. CASE c \notin clash \cup cut
      <3>1. report[c].results = newest[c] /\ gen.image.results = newest[c]
        BY <2>1, <2>3, <1>0, <1>11 DEF ResultsInv, Rewriting, Create
      <3>2. /\ c \in Concluding /\ gen.image.concl <= newest[c]
            /\ c \notin met => gen.image.concl = gen.image.results
        BY <1>11 DEF ConclInv, Create
      <3>3. Json!Concluded(c)
        BY <2>1, <2>3, <3>1, <3>2, <1>0, Concludes
      <3> QED
        BY <2>1, <3>3, <1>a
    <2> QED
      BY <2>2, <2>3
  <1>12. ASSUME Write PROVE Json!Next \/ Same
    BY <1>0, <1>12 DEF Same, Visible, Rewriting, TypeOK, Write
  <1>13. ASSUME WriteFails PROVE Json!Next \/ Same
    <2>1. /\ met' = met /\ clash' = clash /\ cut' = LeftCut
          /\ \A d \in Check : /\ ~Rewriting(d)'
                              /\ ~(Rewriting(d) /\ gen.opened) => Visible(d)' = Visible(d)
      BY <1>0, <1>13 DEF TypeOK, WriteFails, Visible, Rewriting
    <2>2. CASE gen.pc = "write" /\ gen.opened
      <3> PICK c \in Check : c = gen.check
        BY <2>2, <1>0 DEF TypeOK
      <3>1. (clash \cup cut)' = clash \cup cut \cup {c}
        BY <2>1, <2>2 DEF LeftCut
      <3>2. \A d \in Check \ {c} : Visible(d)' = Visible(d)
        BY <2>1 DEF Rewriting
      <3> QED
        BY <2>1, <3>1, <3>2, <1>0, <1>a, Tears
    <2>3. CASE ~(gen.pc = "write" /\ gen.opened)
      BY <2>1, <2>3, <1>0 DEF LeftCut, Same, Rewriting, ResultsInv
    <2> QED
      BY <2>2, <2>3
  <1>14. ASSUME NEW s \in Section, Open(s) PROVE Json!Next \/ Same
    BY <1>0, <1>14 DEF Same, Visible, Rewriting, TypeOK, ResultsInv, Open
  <1>15. ASSUME Render PROVE Json!Next \/ Same
    BY <1>0, <1>15 DEF Same, Visible, Rewriting, TypeOK, ResultsInv, Render
  <1>16. ASSUME RenderFails PROVE Json!Next \/ Same
    BY <1>0, <1>16
    DEF Same, Visible, Rewriting, TypeOK, ResultsInv, RenderFails, Failed, AfterPghrep,
        NoGen
  <1>17. ASSUME Generated PROVE Json!Next \/ Same
    BY <1>0, <1>17
    DEF Same, Visible, Rewriting, TypeOK, ResultsInv, Generated, AfterPghrep, NoGen
  <1>18. ASSUME KeepFinal PROVE Json!Next \/ Same
    BY <1>0, <1>18 DEF Same, Visible, Rewriting, TypeOK, ResultsInv, KeepFinal, NoGen
  <1>19. ASSUME BeginFinal PROVE Json!Next \/ Same
    BY <1>0, <1>19 DEF Same, Visible, Rewriting, TypeOK, ResultsInv, BeginFinal
  <1>20. ASSUME GlueFinal PROVE Json!Next \/ Same
    BY <1>0, <1>20 DEF Same, Visible, Rewriting, TypeOK, ResultsInv, GlueFinal, NoGen
  <1>21. ASSUME PghrepDies PROVE Json!Next \/ Same
    <2>1. /\ met' = met /\ clash' = clash /\ cut' = LeftCut
          /\ \A d \in Check : /\ ~Rewriting(d)'
                              /\ ~(Rewriting(d) /\ gen.opened) => Visible(d)' = Visible(d)
      BY <1>0, <1>21 DEF TypeOK, PghrepDies, Failed, AfterPghrep, NoGen, Visible, Rewriting
    <2>2. CASE gen.pc = "write" /\ gen.opened
      <3> PICK c \in Check : c = gen.check
        BY <2>2, <1>0 DEF TypeOK
      <3>1. (clash \cup cut)' = clash \cup cut \cup {c}
        BY <2>1, <2>2 DEF LeftCut
      <3>2. \A d \in Check \ {c} : Visible(d)' = Visible(d)
        BY <2>1 DEF Rewriting
      <3> QED
        BY <2>1, <3>1, <3>2, <1>0, <1>a, Tears
    <2>3. CASE ~(gen.pc = "write" /\ gen.opened)
      BY <2>1, <2>3, <1>0 DEF LeftCut, Same, Rewriting, ResultsInv
    <2> QED
      BY <2>2, <2>3
  <1>22. ASSUME Die PROVE Json!Next \/ Same
    <2>1. /\ met' = met /\ clash' = clash /\ cut' = LeftCut
          /\ \A d \in Check : /\ ~Rewriting(d)'
                              /\ ~(Rewriting(d) /\ gen.opened) => Visible(d)' = Visible(d)
      BY <1>0, <1>22 DEF TypeOK, Die, NoGen, Visible, Rewriting
    <2>2. CASE gen.pc = "write" /\ gen.opened
      <3> PICK c \in Check : c = gen.check
        BY <2>2, <1>0 DEF TypeOK
      <3>1. (clash \cup cut)' = clash \cup cut \cup {c}
        BY <2>1, <2>2 DEF LeftCut
      <3>2. \A d \in Check \ {c} : Visible(d)' = Visible(d)
        BY <2>1 DEF Rewriting
      <3> QED
        BY <2>1, <3>1, <3>2, <1>0, <1>a, Tears
    <2>3. CASE ~(gen.pc = "write" /\ gen.opened)
      BY <2>1, <2>3, <1>0 DEF LeftCut, Same, Rewriting, ResultsInv
    <2> QED
      BY <2>2, <2>3
  <1>23. CASE UNCHANGED vars
    BY <1>23 DEF Same, Visible, Rewriting, vars
  <1> QED
    BY <1>1, <1>2, <1>3, <1>4, <1>5, <1>6, <1>7, <1>8, <1>9, <1>10, <1>11, <1>12,
       <1>13, <1>14, <1>15, <1>16, <1>17, <1>18, <1>19, <1>20, <1>21, <1>22, <1>23
    DEF Next, Pghrep

\* JsonReportsSpec: what SaveReportResult does to a report in three steps (it reads it,
\* os.Create empties it, WriteTo fills it), beside the collections of the check, is
\* one step that keeps its results, but for the reports that are torn.
THEOREM ProcessImplementsJsonReports == Spec => JsonReportsSpec
  <1>1. Init => Json!Init
    BY Constants DEF Init, Json!Init, Visible, Rewriting, NoGen
  <1>2. Same => UNCHANGED <<[c \in Check |-> Visible(c).results],
                            [c \in Check |-> Visible(c).concl], met, clash \cup cut>>
    BY DEF Same
  <1>3. Inv /\ Inv' /\ ConclInv /\ [Next]_vars
        => [Json!Next]_<<[c \in Check |-> Visible(c).results],
                            [c \in Check |-> Visible(c).concl], met, clash \cup cut>>
    BY <1>2, StepImplementsJsonReports
  <1> QED
    BY <1>1, <1>3, InvCorrect, ConclCorrect, PTL DEF Spec, JsonReportsSpec, Json!Spec
===============================================================================
