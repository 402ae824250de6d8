------------------------------- MODULE Process -------------------------------
(***************************************************************************)
(* `checkup process` beside `checkup collect`: run_process and             *)
(* glue_md_reports (src/checkup), and the pghrep program they call for one *)
(* JSON report after the other (src/pghrep/cmd/checkup/main.go).           *)
(*                                                                         *)
(* pghrep reads a report three times: for the template, for the            *)
(* conclusions, and to write the conclusions back.  It writes in place:    *)
(* os.Create empties the file, WriteTo fills it.  Then it renders the      *)
(* Markdown sections, which the script glues together.  Meanwhile a        *)
(* collection may add a result to the same report, in three rounds of jq   *)
(* and mv; an mv takes the file away from a pghrep that has it open.       *)
(*                                                                         *)
(* One `process` and one `collect` at a time: several collections at once  *)
(* are the subject of Reports.  There is one epoch, hence one directory.   *)
(* Abstracted: a report is the number of its results and the number of     *)
(* results its conclusions were drawn from.                                *)
(***************************************************************************)
EXTENDS Naturals

CONSTANTS
  Check,        \* the checks, each with a JSON report
  Concluding,   \* the checks PreprocessReportData has a case for
  Section,      \* the templates, hence the Markdown files
  CheckOf,      \* CheckOf[s]: the check whose report section s renders
  Summarised,   \* the sections whose row in the summary table is filled in
  MaxResults    \* bound: the collections of one check

ASSUME SectionAssumption ==
  /\ Concluding \subseteq Check
  /\ CheckOf \in [Section -> Check]
  /\ Summarised \subseteq Section
ASSUME ResultsAssumption == MaxResults \in Nat

VARIABLES
  report,   \* report[c]: the JSON report of c
  md,       \* md[s]: the Markdown file of section s
  final,    \* 0_Full_report.md
  gen,      \* the run of `checkup process`
  col,      \* the run of `checkup collect`
  newest,   \* history: newest[c], the collections that reported success for c
  met,      \* history: the checks that were collected during a `process`
  clash,    \* history: those collected while pghrep was rewriting the report
  cut,      \* history: the checks whose report a pghrep left empty
  mute      \* history: the checks whose results pghrep could draw no conclusion from

vars == <<report, md, final, gen, col, newest, met, clash, cut, mute>>

-----------------------------------------------------------------------------
Count == 0 .. MaxResults
File == {"absent", "empty", "full"}

\* A JSON report: `concl` is 0 while it is not "processed".
Report == [file : File, results : Count, concl : Count]
Template == [file |-> "full", results |-> 0, concl |-> 0]
NoReport == [Template EXCEPT !.file = "absent"]
EmptyReport == [Template EXCEPT !.file = "empty"]

Sections(c) == {s \in Section : CheckOf[s] = c}

\* The final report has its header ("empty"), or every section that has a file,
\* next to the conclusions that the summary table takes from the JSON report.
Row == [section : Report, summary : Count]
NoRow == [section |-> NoReport, summary |-> 0]
NoBody == [s \in Section |-> NoRow]
Final == [file : File, body : [Section -> Row]]

None == "None"
GenCommand == {"idle", "pick", "load", "conclude", "save", "create", "write",
               "open", "render", "glue"}
Gen == [pc : GenCommand,                   \* the next step
        only : Check \cup {None},          \* FILE
        todo : SUBSET Check,               \* the files of `ls` that are left
        check : Check \cup {None},         \* the file pghrep works on
        name : Check \cup {None},          \* check_id
        data : Report,                     \* resultData
        concl : Count,                     \* reportResult
        image : Report,                    \* orderedData
        opened : BOOLEAN,                  \* jfile is still the file of that name
        left : SUBSET Section,             \* the templates that are left
        section : Section \cup {None},     \* the Markdown file pghrep has open
        failed : SUBSET (Check \cup {None})]  \* pghrep_failed_md_stack
NoGen == [pc |-> "idle", only |-> None, todo |-> {}, check |-> None, name |-> None,
          data |-> NoReport, concl |-> 0, image |-> NoReport, opened |-> FALSE,
          left |-> {}, section |-> None, failed |-> {}]

ColCommand == {"idle", "jq", "mv"}
Col == [pc : ColCommand, check : Check \cup {None}, round : 1 .. 3, tmp : Report]
NoCol == [pc |-> "idle", check |-> None, round |-> 1, tmp |-> NoReport]

-----------------------------------------------------------------------------
Init ==
  /\ report = [c \in Check |-> NoReport]
  /\ md = [s \in Section |-> NoReport]
  /\ final = [file |-> "absent", body |-> NoBody]
  /\ gen = NoGen
  /\ col = NoCol
  /\ newest = [c \in Check |-> 0]
  /\ met = {}
  /\ clash = {}
  /\ cut = {}
  /\ mute = {}

(* Collecting (generate_report_json).                                      *)

Collect(c) ==
  /\ col.pc = "idle" /\ newest[c] < MaxResults
  /\ col' = [NoCol EXCEPT !.pc = "jq", !.check = c]
  /\ met' = IF gen.pc = "idle" THEN met ELSE met \cup {c}
  /\ UNCHANGED <<report, md, final, gen, newest, clash, cut, mute>>

\* pghrep has read, or emptied, the report it is going to write.
Rewriting(c) == gen.check = c /\ gen.pc \in {"create", "write"}

\* Seeded fault: every round adds a result.
ExtendedEachRound(r, round) ==
  CASE r.file = "empty" -> EmptyReport
    [] r.file = "absent" -> [Template EXCEPT !.results = 1]
    [] OTHER -> [r EXCEPT !.results = @ + 1]

\* What jq makes of the report in each round: the first adds the result, the others
\* attach nodes.json.  Without a file it starts from the template; for an empty
\* file it prints nothing.
Extended(r, round) ==
  CASE r.file = "empty" -> EmptyReport
    [] r.file = "absent" -> [Template EXCEPT !.results = 1]
    [] OTHER -> IF round = 1 THEN [r EXCEPT !.results = @ + 1] ELSE r

CollectJq ==
  /\ col.pc = "jq"
  /\ col' = [col EXCEPT !.pc = "mv", !.tmp = Extended(report[col.check], col.round)]
  /\ clash' = IF Rewriting(col.check) THEN clash \cup {col.check} ELSE clash
  /\ UNCHANGED <<report, md, final, gen, newest, met, cut, mute>>

CollectMv ==
  /\ col.pc = "mv"
  /\ report' = [report EXCEPT ![col.check] = col.tmp]
  /\ col' = IF col.round = 3 THEN NoCol
            ELSE [col EXCEPT !.pc = "jq", !.round = @ + 1, !.tmp = NoReport]
  /\ gen' = IF gen.check = col.check THEN [gen EXCEPT !.opened = FALSE] ELSE gen
  /\ newest' = IF col.round = 1 THEN [newest EXCEPT ![col.check] = @ + 1] ELSE newest
  /\ clash' = IF Rewriting(col.check) THEN clash \cup {col.check} ELSE clash
  /\ UNCHANGED <<md, final, met, cut, mute>>

-----------------------------------------------------------------------------
(* run_process.                                                            *)

\* `ls` lists the reports once, at the beginning.
Begin(only) ==
  /\ gen.pc = "idle" /\ \E c \in Check : report[c].file # "absent"
  /\ gen' = [NoGen EXCEPT !.pc = "pick", !.only = only,
                          !.todo = {c \in Check : report[c].file # "absent"}]
  /\ met' = IF col.pc = "idle" THEN met ELSE met \cup {col.check}
  /\ UNCHANGED <<report, md, final, col, newest, clash, cut, mute>>

\* check_id is read from the file, so an empty file has none.
Pick(c) ==
  /\ gen.pc = "pick" /\ c \in gen.todo
  /\ LET name == IF report[c].file = "full" THEN c ELSE None
         skipped == gen.only # None /\ name \notin {gen.only, None} IN
       gen' = IF skipped THEN [gen EXCEPT !.todo = @ \ {c}]
              ELSE [gen EXCEPT !.pc = "load", !.todo = @ \ {c}, !.check = c, !.name = name]
  /\ UNCHANGED <<report, md, final, col, newest, met, clash, cut, mute>>

\* The script after a pghrep: of pghrep's own data, nothing is left.
AfterPghrep == [NoGen EXCEPT !.pc = "pick", !.only = gen.only, !.todo = gen.todo,
                             !.failed = gen.failed]

\* Seeded fault: pghrep's failure is not put on the stack.
FailedUnnoted == AfterPghrep

\* pghrep has failed: the loop notes it and goes on.
Failed == [AfterPghrep EXCEPT !.failed = @ \cup {gen.name}]

\* main, LoadJsonFile: an empty file is no JSON, and fatal.
Load ==
  /\ gen.pc = "load"
  /\ LET r == report[gen.check] IN
       gen' = IF r.file = "empty" THEN Failed
              ELSE [gen EXCEPT !.data = r, !.left = Sections(gen.check),
                               !.pc = IF gen.check \in Concluding
                                      THEN "conclude" ELSE "open"]
  /\ UNCHANGED <<report, md, final, col, newest, met, clash, cut, mute>>

\* PreprocessReportData reads the report again; without a report it gives up.
Conclude ==
  /\ gen.pc = "conclude"
  /\ LET r == report[gen.check] IN
       gen' = IF r.file = "empty" THEN [gen EXCEPT !.pc = "open"]
              ELSE [gen EXCEPT !.pc = "save", !.concl = r.results]
  /\ UNCHANGED <<report, md, final, col, newest, met, clash, cut, mute>>

\* The data, or another report it needs, is not there or not as expected: no
\* conclusions are drawn, and those in the file stay.
ConcludeFails ==
  /\ gen.pc = "conclude"
  /\ gen' = [gen EXCEPT !.pc = "open"]
  /\ mute' = mute \cup {gen.check}
  /\ UNCHANGED <<report, md, final, col, newest, met, clash, cut>>

\* Seeded fault: the template sees the conclusions that were in the file.
SaveForgetful ==
  /\ gen.pc = "save"
  /\ LET r == report[gen.check] IN
       gen' = IF r.file = "empty" THEN [gen EXCEPT !.pc = "open"]
              ELSE [gen EXCEPT !.pc = "create", !.image = [r EXCEPT !.concl = gen.concl]]
  /\ UNCHANGED <<report, md, final, col, newest, met, clash, cut, mute>>

\* Seeded fault: what is written back is the report as main loaded it.
SaveLoaded ==
  /\ gen.pc = "save"
  /\ LET r == report[gen.check]
         told == [gen EXCEPT !.data.concl = gen.concl] IN
       gen' = IF r.file = "empty" THEN [told EXCEPT !.pc = "open"]
              ELSE [told EXCEPT !.pc = "create", !.image = told.data]
  /\ UNCHANGED <<report, md, final, col, newest, met, clash, cut, mute>>

\* SaveReportResult: the conclusions go to the template and, with a third look at
\* the file, to the report.
Save ==
  /\ gen.pc = "save"
  /\ LET r == report[gen.check]
         told == [gen EXCEPT !.data.concl = gen.concl] IN
       gen' = IF r.file = "empty" THEN [told EXCEPT !.pc = "open"]
              ELSE [told EXCEPT !.pc = "create", !.image = [r EXCEPT !.concl = gen.concl]]
  /\ UNCHANGED <<report, md, final, col, newest, met, clash, cut, mute>>

\* os.Create
Create ==
  /\ gen.pc = "create"
  /\ report' = [report EXCEPT ![gen.check] = EmptyReport]
  /\ gen' = [gen EXCEPT !.pc = "write", !.opened = TRUE]
  /\ UNCHANGED <<md, final, col, newest, met, clash, cut, mute>>

\* Seeded fault: only the conclusions are written.
WriteConclusions ==
  /\ gen.pc = "write"
  /\ report' = IF gen.opened
               THEN [report EXCEPT ![gen.check] = [Template EXCEPT !.concl = gen.concl]]
               ELSE report
  /\ gen' = [gen EXCEPT !.pc = "open"]
  /\ UNCHANGED <<md, final, col, newest, met, clash, cut, mute>>

\* out.WriteTo
Write ==
  /\ gen.pc = "write"
  /\ report' = IF gen.opened THEN [report EXCEPT ![gen.check] = gen.image] ELSE report
  /\ gen' = [gen EXCEPT !.pc = "open"]
  /\ UNCHANGED <<md, final, col, newest, met, clash, cut, mute>>

\* What is in the file when nothing more will be written to it.
LeftCut == IF gen.pc = "write" /\ gen.opened THEN cut \cup {gen.check} ELSE cut

\* The disk is full; the error of WriteTo is ignored.
WriteFails ==
  /\ gen.pc = "write"
  /\ gen' = [gen EXCEPT !.pc = "open"]
  /\ cut' = LeftCut
  /\ UNCHANGED <<report, md, final, col, newest, met, clash, mute>>

\* generateMdReport: the file is emptied ...
Open(s) ==
  /\ gen.pc = "open" /\ s \in gen.left
  /\ md' = [md EXCEPT ![s] = EmptyReport]
  /\ gen' = [gen EXCEPT !.pc = "render", !.left = @ \ {s}, !.section = s]
  /\ UNCHANGED <<report, final, col, newest, met, clash, cut, mute>>

\* ... and filled, or, when the template does not fit the data, removed.
Render ==
  /\ gen.pc = "render"
  /\ md' = [md EXCEPT ![gen.section] = gen.data]
  /\ gen' = [gen EXCEPT !.pc = "open", !.section = None]
  /\ UNCHANGED <<report, final, col, newest, met, clash, cut, mute>>

RenderFails ==
  /\ gen.pc = "render"
  /\ md' = [md EXCEPT ![gen.section] = NoReport]
  /\ gen' = Failed
  /\ UNCHANGED <<report, final, col, newest, met, clash, cut, mute>>

\* pghrep is done with the check.
Generated ==
  /\ gen.pc = "open" /\ gen.left = {}
  /\ gen' = AfterPghrep
  /\ UNCHANGED <<report, md, final, col, newest, met, clash, cut, mute>>

\* glue_md_reports: with --file the final report stays as it is.
KeepFinal ==
  /\ gen.pc = "pick" /\ gen.todo = {} /\ gen.only # None
  /\ gen' = NoGen
  /\ UNCHANGED <<report, md, final, col, newest, met, clash, cut, mute>>

BeginFinal ==
  /\ gen.pc = "pick" /\ gen.todo = {} /\ gen.only = None
  /\ final' = [file |-> "empty", body |-> NoBody]
  /\ gen' = [gen EXCEPT !.pc = "glue"]
  /\ UNCHANGED <<report, md, col, newest, met, clash, cut, mute>>

\* Every section that has a file, with the conclusions of its JSON report, which
\* the summary table looks for by the title of the section.
GlueFinal ==
  /\ gen.pc = "glue"
  /\ final' = [file |-> "full",
               body |-> [s \in Section |->
                           IF md[s].file = "absent" THEN NoRow
                           ELSE [section |-> md[s],
                                 summary |-> IF md[s].file = "full" /\ s \in Summarised
                                             THEN report[CheckOf[s]].concl ELSE 0]]]
  /\ gen' = NoGen
  /\ UNCHANGED <<report, md, col, newest, met, clash, cut, mute>>

\* pghrep is killed: the script goes on.
PghrepDies ==
  /\ gen.pc \in {"load", "conclude", "save", "create", "write", "open", "render"}
  /\ gen' = Failed
  /\ cut' = LeftCut
  /\ UNCHANGED <<report, md, final, col, newest, met, clash, mute>>

\* The script is killed, and pghrep with it.
Die ==
  /\ gen.pc # "idle"
  /\ gen' = NoGen
  /\ cut' = LeftCut
  /\ UNCHANGED <<report, md, final, col, newest, met, clash, mute>>

\* A collection is killed; a temporary file is left behind, the report is not touched.
CollectDies ==
  /\ col.pc # "idle"
  /\ col' = NoCol
  /\ UNCHANGED <<report, md, final, gen, newest, met, clash, cut, mute>>

Pghrep ==
  \/ Load \/ Conclude \/ ConcludeFails \/ Save \/ Create \/ Write \/ WriteFails
  \/ \E s \in Section : Open(s)
  \/ Render \/ RenderFails \/ Generated

Next ==
  \/ \E c \in Check : Collect(c)
  \/ CollectJq \/ CollectMv \/ CollectDies
  \/ \E only \in Check \cup {None} : Begin(only)
  \/ \E c \in Check : Pick(c)
  \/ Pghrep
  \/ KeepFinal \/ BeginFinal \/ GlueFinal
  \/ PghrepDies \/ Die

Spec == Init /\ [][Next]_vars

-----------------------------------------------------------------------------
(* Properties.                                                             *)

\* Every variable has its type, and pghrep works on a check while it runs.
TypeOK ==
  /\ report \in [Check -> Report]
  /\ md \in [Section -> Report]
  /\ final \in Final
  /\ gen \in Gen
  /\ col \in Col
  /\ newest \in [Check -> Count]
  /\ met \subseteq Check /\ clash \subseteq Check
  /\ cut \subseteq Check /\ mute \subseteq Check
  /\ gen.pc \notin {"idle", "pick", "glue"} => gen.check \in Check
  /\ gen.pc = "render" => gen.section \in Sections(gen.check)
  /\ col.pc # "idle" => col.check \in Check

\* Writing the conclusions back loses no result, although pghrep empties the report
\* first, unless a jq or mv of a collection falls between its last look at the
\* report and its write, or the write is never made.
ResultsSurvive ==
  \A c \in Check \ (clash \cup cut) :
    ~(Rewriting(c) /\ gen.opened) => report[c].results = newest[c]

\* A section shows the conclusions that were drawn from the results it shows, unless
\* the check was collected during a `process`, as pghrep reads the results for the two
\* of them at different times, or a `process` drew no conclusion and kept old ones.
SectionsAgree ==
  \A s \in Section :
    /\ md[s].file = "full"
    /\ CheckOf[s] \in Concluding \ (met \cup mute)
    => md[s].concl = md[s].results

\* When the final report is glued, each of its sections, and its row in the summary
\* table, is what the JSON report says at that time, or pghrep failed for the check
\* and the run lists it.  Excluded are checks that were collected during a
\* `process`, or whose report was left empty.
FinalTrue ==
  [][final.file = "empty" /\ final'.file = "full" =>
       \A s \in Section : CheckOf[s] \notin met \cup cut \cup gen.failed =>
         /\ final'.body[s].section = report[CheckOf[s]]
         /\ s \in Summarised => final'.body[s].summary = report[CheckOf[s]].concl]_vars

\* What there is to read of the report of c, once a rewriting that has begun is done.
Visible(c) == IF Rewriting(c) /\ gen.opened THEN gen.image ELSE report[c]

\* The reports implement JsonReports: to read a report, to empty it and to fill it again
\* (SaveReportResult, os.Create, WriteTo) is one step beside the collections of that
\* check, unless the report is torn.  That step is os.Create.
Json == INSTANCE JsonReports WITH
  results <- [c \in Check |-> Visible(c).results],
  concl <- [c \in Check |-> Visible(c).concl],
  torn <- clash \cup cut
JsonReportsSpec == Json!Spec
=============================================================================
