-------------------------------- MODULE Upload --------------------------------
(***************************************************************************)
(* `checkup upload`: UploadReport of src/pghrep/internal/upload/util.go.   *)
(*                                                                         *)
(* An upload reads nodes.json once for the directory of the last check,    *)
(* lists the files there, has the platform create a report, and sends one  *)
(* file after the other.  Meanwhile collections and runs of `process` may  *)
(* add and remove files, and start another epoch.  A request or its answer *)
(* may be lost; a file is never sent twice; an upload that is started      *)
(* again makes another report.                                             *)
(*                                                                         *)
(* Abstracted: a file is its name and the directory it was read from.      *)
(***************************************************************************)
EXTENDS Naturals, Sequences, Functions, Sublist

CONSTANTS
  Dir,         \* the directories of the epochs
  Before,      \* json_reports/<dir>: its files, in the order ReadDir lists them ...
  Inside,      \* ... up to a directory in it, which has these files, ...
  After,       \* ... and the files it lists after that directory
  Md,          \* md_reports/<dir>: its files
  Uploadable,  \* the files of a type that is uploaded
  Volatile,    \* the files that are removed again: temporary ones, failed sections
  MaxReports   \* bound: the reports on the platform

Nodes == "nodes.json"
Files == Range(Before) \cup Range(Inside) \cup Range(After) \cup Range(Md)

ASSUME FilesAssumption ==
  /\ Nodes \in Uploadable \ Files
  /\ Uploadable \subseteq Files \cup {Nodes}
  /\ Volatile \subseteq Files
ASSUME OrderAssumption == {Before, Inside, After, Md} \subseteq Seq(Files)
ASSUME MaxReportsAssumption == MaxReports \in Nat

VARIABLES
  nodes,     \* nodes.json: last_check.dir
  tree,      \* tree[d]: the files in the directories of d
  mds,       \* those d that have a directory in md_reports
  platform,  \* the reports on the platform, in the order they were made
  up         \* the run of `checkup upload`

vars == <<nodes, tree, mds, platform, up>>

-----------------------------------------------------------------------------
None == "None"
AnyFile == Files \cup {Nodes}

\* A report of the platform: the epoch it was created for, and what arrived.  A file
\* arrives with the directory it comes from, nodes.json with the one it names.
ReportOf(d) == [dir |-> d, files |-> {}]
Reports == [dir : Dir, files : SUBSET (AnyFile \X Dir)]

Command == {"idle", "json", "sub", "md", "create", "send", "done", "error"}
Up == [pc : Command,
       dir : Dir \cup {None},
       top : SUBSET Files,            \* dirFiles of json_reports/<dir>
       files : Seq(AnyFile),          \* files, what is left of it
       id : 0 .. MaxReports,          \* reportId
       uploaded : SUBSET AnyFile,     \* what `processed` counts
       failed : SUBSET AnyFile,       \* "Cannot upload file"
       lasting : SUBSET AnyFile,      \* history: the files that were there throughout
       dropped : SUBSET AnyFile,      \* history: files ScanPath had found, and dropped
       garbled : SUBSET AnyFile,      \* history: files lost, with a senseless answer
       switched : BOOLEAN]            \* history: last_check has changed meanwhile
NoUpload == [pc |-> "idle", dir |-> None, top |-> {}, files |-> <<>>, id |-> 0,
             uploaded |-> {}, failed |-> {}, lasting |-> {}, dropped |-> {},
             garbled |-> {}, switched |-> FALSE]

Running == up.pc \notin {"idle", "done", "error"}

-----------------------------------------------------------------------------
Init ==
  /\ nodes = None
  /\ tree = [d \in Dir |-> {}]
  /\ mds = {}
  /\ platform = <<>>
  /\ up = NoUpload

(* Collections and `process`, as far as they concern an upload.            *)

\* A check of the epoch with directory d begins.
Collect(d) ==
  /\ nodes' = d
  /\ up' = IF Running /\ d # up.dir THEN [up EXCEPT !.switched = TRUE] ELSE up
  /\ UNCHANGED <<tree, mds, platform>>

\* `process` makes the directory of its sections.
MakeMd ==
  /\ nodes # None
  /\ mds' = mds \cup {nodes}
  /\ UNCHANGED <<nodes, tree, platform, up>>

Write(d, f) ==
  /\ nodes # None
  /\ f \in Range(Md) => d \in mds
  /\ tree' = [tree EXCEPT ![d] = @ \cup {f}]
  /\ UNCHANGED <<nodes, mds, platform, up>>

Remove(d, f) ==
  /\ f \in tree[d] \cap Volatile
  /\ tree' = [tree EXCEPT ![d] = @ \ {f}]
  /\ up' = IF d = up.dir THEN [up EXCEPT !.lasting = @ \ {f}] ELSE up
  /\ UNCHANGED <<nodes, mds, platform>>

-----------------------------------------------------------------------------
(* UploadReport.                                                           *)

\* Of the names in `order`, those in `there`: what ReadDir returns.
Listed(order, there) == Sublist(order, there)

\* Seeded fault: the directory is one that was processed, not that of the last check.
BeginProcessed ==
  /\ ~Running /\ nodes # None
  /\ \E d \in mds : up' = [NoUpload EXCEPT !.pc = "json", !.dir = d, !.files = <<Nodes>>,
                                           !.lasting = tree[d] \cup {Nodes}]
  /\ UNCHANGED <<nodes, tree, mds, platform>>

\* GetReportLastCheckData: without nodes.json there is nothing to upload.
Begin ==
  /\ ~Running
  /\ up' = IF nodes = None THEN [NoUpload EXCEPT !.pc = "error"]
           ELSE [NoUpload EXCEPT !.pc = "json", !.dir = nodes, !.files = <<Nodes>>,
                                 !.lasting = tree[nodes] \cup {Nodes}]
  /\ UNCHANGED <<nodes, tree, mds, platform>>

\* ScanPath lists a directory when it comes to it, hence json_reports/<dir> before
\* the directory in it.
ScanJson ==
  /\ up.pc = "json"
  /\ up' = [up EXCEPT !.pc = "sub", !.top = tree[up.dir] \ (Range(Inside) \cup Range(Md)),
                      !.files = @ \o Listed(Before, tree[up.dir])]
  /\ UNCHANGED <<nodes, tree, mds, platform>>

ScanSub ==
  /\ up.pc = "sub"
  /\ up' = [up EXCEPT !.pc = "md",
                      !.files = @ \o Listed(Inside, tree[up.dir]) \o Listed(After, up.top)]
  /\ UNCHANGED <<nodes, tree, mds, platform>>

\* The directory cannot be read: the list so far is lost, and the scan goes on.
ScanSubFails ==
  /\ up.pc = "sub"
  /\ up' = [up EXCEPT !.pc = "md", !.files = Listed(After, up.top),
                      !.dropped = Range(up.files) \cup Range(Inside)]
  /\ UNCHANGED <<nodes, tree, mds, platform>>

\* A report that was never processed is not uploaded.
ScanMd ==
  /\ up.pc = "md"
  /\ up' = IF up.dir \in mds
           THEN [up EXCEPT !.pc = "create", !.files = @ \o Listed(Md, tree[up.dir])]
           ELSE [up EXCEPT !.pc = "error"]
  /\ UNCHANGED <<nodes, tree, mds, platform>>

\* What becomes of a request: whether the platform carries it out, and what comes
\* back: the answer, an error message, nothing, or something that is neither (a page
\* of a proxy: MakeRequest looks neither at the status nor at errors of decoding).
Outcome == [done : {TRUE}, answer : {"ok", "nothing", "garbage"}]
             \cup [done : {FALSE}, answer : {"message", "nothing", "garbage"}]

\* Seeded fault: what the platform answers is not looked at.
CreateUnchecked(o) ==
  /\ up.pc = "create"
  /\ Len(platform) < MaxReports
  /\ platform' = IF o.done THEN Append(platform, ReportOf(up.dir)) ELSE platform
  /\ up' = [up EXCEPT !.pc = "send", !.id = Len(platform) + 1]
  /\ UNCHANGED <<nodes, tree, mds>>

\* Seeded fault: the epoch is read from nodes.json when it is needed.
CreateAnew(o) ==
  /\ up.pc = "create"
  /\ Len(platform) < MaxReports
  /\ platform' = IF o.done THEN Append(platform, ReportOf(nodes)) ELSE platform
  /\ up' = IF o.answer = "ok" THEN [up EXCEPT !.pc = "send", !.id = Len(platform) + 1]
           ELSE [up EXCEPT !.pc = "error"]
  /\ UNCHANGED <<nodes, tree, mds>>

\* CreateReport: only an answer with a report_id will do.
Create(o) ==
  /\ up.pc = "create"
  /\ Len(platform) < MaxReports
  /\ platform' = IF o.done THEN Append(platform, ReportOf(up.dir)) ELSE platform
  /\ up' = IF o.answer = "ok" THEN [up EXCEPT !.pc = "send", !.id = Len(platform) + 1]
           ELSE [up EXCEPT !.pc = "error"]
  /\ UNCHANGED <<nodes, tree, mds>>

Next1 == Head(up.files)
Rest == [up EXCEPT !.files = Tail(@)]

SkipType ==
  /\ up.pc = "send" /\ up.files # <<>> /\ Next1 \notin Uploadable
  /\ up' = Rest
  /\ UNCHANGED <<nodes, tree, mds, platform>>

\* The file has gone since it was listed.
ReadFails ==
  /\ up.pc = "send" /\ up.files # <<>>
  /\ Next1 \in Uploadable \ (tree[up.dir] \cup {Nodes})
  /\ up' = [Rest EXCEPT !.failed = @ \cup {Next1}]
  /\ UNCHANGED <<nodes, tree, mds, platform>>

\* Seeded fault: the loop ends at the first file that fails.
PostedUntilFailure(o) ==
  IF o.answer \in {"message", "nothing"} THEN [up EXCEPT !.files = <<>>,
                                                         !.failed = @ \cup {Next1}]
  ELSE [Rest EXCEPT !.uploaded = @ \cup {Next1},
                    !.garbled = IF ~o.done THEN @ \cup {Next1} ELSE @]

\* UploadReportFile fails on a message and on no answer, and on nothing else.
Posted(o) ==
  IF o.answer \in {"message", "nothing"} THEN [Rest EXCEPT !.failed = @ \cup {Next1}]
  ELSE [Rest EXCEPT !.uploaded = @ \cup {Next1},
                    !.garbled = IF ~o.done THEN @ \cup {Next1} ELSE @]

\* The content is read now: nodes.json names the directory of the last check of now.
Post(o) ==
  /\ up.pc = "send" /\ up.files # <<>>
  /\ Next1 \in Uploadable \cap (tree[up.dir] \cup {Nodes})
  /\ LET content == <<Next1, IF Next1 = Nodes THEN nodes ELSE up.dir>> IN
       platform' = IF o.done THEN [platform EXCEPT ![up.id].files = @ \cup {content}]
                   ELSE platform
  /\ up' = Posted(o)
  /\ UNCHANGED <<nodes, tree, mds>>

\* "Uploaded N files", and success, however many have failed.
End ==
  /\ up.pc = "send" /\ up.files = <<>>
  /\ up' = [up EXCEPT !.pc = "done"]
  /\ UNCHANGED <<nodes, tree, mds, platform>>

Die ==
  /\ Running
  /\ up' = NoUpload
  /\ UNCHANGED <<nodes, tree, mds, platform>>

Others ==
  \/ MakeMd
  \/ \E d \in Dir :
       \/ Collect(d)
       \/ \E f \in Files : Write(d, f) \/ Remove(d, f)

UploadReport ==
  \/ Begin \/ ScanJson \/ ScanSub \/ ScanSubFails \/ ScanMd
  \/ SkipType \/ ReadFails \/ End \/ Die
  \/ \E o \in Outcome : Create(o) \/ Post(o)

Next == Others \/ UploadReport

Spec == Init /\ [][Next]_vars

-----------------------------------------------------------------------------
(* Properties.                                                             *)

\* Every variable has its type, and files are sent to a report of the platform.
TypeOK ==
  /\ nodes \in Dir \cup {None}
  /\ tree \in [Dir -> SUBSET Files]
  /\ mds \subseteq Dir
  /\ platform \in Seq(Reports) /\ Len(platform) <= MaxReports
  /\ up \in Up
  /\ up.pc = "send" => up.id \in DOMAIN platform /\ platform[up.id].dir = up.dir

\* After an upload that ends in success, every file that was there all the time is on
\* the platform, or was complained of.  Excepted are the files found before a
\* directory that could not be read, and those that were lost with a senseless answer:
\* they are missing without a word.
FilesAccounted ==
  up.pc = "done" =>
    LET arrived == {x[1] : x \in platform[up.id].files} IN
      /\ (up.lasting \cap Uploadable) \ (up.dropped \cup up.garbled)
           \subseteq arrived \cup up.failed
      /\ up.uploaded \ up.garbled \subseteq arrived

\* The files of a report on the platform are of the epoch it was made for, even if
\* collections begin another epoch meanwhile.
OneEpoch ==
  \A i \in DOMAIN platform :
    \A x \in platform[i].files : x[1] # Nodes => x[2] = platform[i].dir

\* The nodes.json of the report names the directory of its files, unless a collection
\* for another epoch began during the upload.
NodesAgree ==
  up.pc = "send" /\ ~up.switched =>
    \A x \in platform[up.id].files : x[2] = up.dir
===============================================================================
