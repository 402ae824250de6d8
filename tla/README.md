# Verification of postgres-checkup

postgres-checkup examines a cluster of Postgres servers. The bash script `checkup collect` runs about twenty-five
checks against one host at a time and leaves JSON files in `artifacts/<project>/`; `checkup process` has the Go program
`pghrep` turn them into Markdown reports; `checkup upload` sends both to a platform. No daemon and no database ties
these runs together. Everything they know of each other is in files that are read, rewritten and renamed without a
lock. That is what the specifications are about.

## 1. Inventory

| Component | State it keeps | Operations | Interacts with | What is hard |
|---|---|---|---|---|
| `update_nodes_json` (`checkup` 1078-1192) | `nodes.json`: host -> alias, number, role, role change; `last_check`. Directories `json_reports/<epoch>_<timestamp>` | called before every check: role, number, directory, write, rename | every other component reads `nodes.json` | several runs at once, death between commands, failovers |
| `run_checks`, `generate_report_json` (1206-1318, 687-745) | one JSON report per check and epoch, `ROLE`, the stack of failed checks | skip, perform, fail, extend the report in three rounds | calls the former before each check; checks read its variables | stale `ROLE`, torn and lost updates of a report |
| K000 (`resources/checks/K000_query_analysis.sh`) | `tmp_K000/<n>_<db>_<number>.json`, K_query_groups | count, snapshot, compare | the host's number; reports | numbering by counting, empty snapshots, several databases |
| other checks (`resources/checks`) | none | one SQL script each | run_checks | none of their own |
| `run_checkup.sh` | none | K000 on all hosts, pause, all checks on all hosts, process, upload | `checkup` | failing collections |
| `DetermineMasterReplica`, `ReorderHosts` (`reportutils/templates.go` 264-345) | master and replicas of a report | run once per report | `last_nodes_json` of the report | two recorded masters, map order, hosts without data |
| processing (`run_process`, `glue_md_reports`, `pghrep`) | conclusions in the JSON report, Markdown files | load, conclude, rewrite the JSON file, render, glue | reports, last_check | rewriting in place while collecting, stale files after failures |
| conclusions (`pghrep/internal/checkup/*`) | the result of one run of `pghrep`: three priorities, conclusions, recommendations | one function per check, over all hosts of a report | `DetermineMasterReplica`, other reports (A001, A002, F004), processing saves the result | hosts in the order of a Go map, missing data, stops in the middle of a loop |
| helpers (`checkuputil.go`, `fmtutils`, `cfg`) | table of Postgres releases | add to a result, sort, cut, convert, replace the table from a web page | conclusions, templates | limits, failed download |
| ordered maps (`pghrep/internal/orderedmap`) | the report in memory: keys in order, values | read, extend, write | every save of a report, the templates | names of items spelled otherwise by each writer |
| upload (`pghrep/internal/upload`) | the report on the platform | scan, create, send every file | last_check, both report directories | partial failures, repeated uploads |
| command line, configuration, connection (`checkup` 126-567, 800-1062) | the global variables | parse, validate, fall back from SSH to psql | everything | options that share a letter, mandatory options by mode |

What makes them correct, component by component:

* `nodes.json`: a host has one number forever and no two hosts share it; an epoch has one directory; `last_check.dir`
  exists; a change of role is stamped.
* reports: a result, once in a report, stays; it has its `nodes.json`; `last_nodes_json` names every host with a result; a
  run accounts for every check; master-only checks run on masters.
* K000: a snapshot is never overwritten; a result compares neighbouring snapshots of one database of one host, as far as the
  names of the files tell databases apart; the second run for a database succeeds.
* hosts of a report: every host with data once, the master first, the replicas by number.
* conclusions: the priorities are those the hosts deserve together, in whichever order they are visited; a priority comes with a
  conclusion and advice; a list is complete or says that it is cut; two places that show one value agree.
* ordered maps: what a report says of a table or an index stays in it however often it is saved.
* processing: Markdown and conclusions belong to the results they stand next to. Upload: every file of the last check
  reaches the platform, or the upload says so.

`PROJECT.json` lists under `hazards` the lines where each of these can go wrong.

## 2. Modules

| Module | Models | Composes |
|---|---|---|
| `HostRegistry` | the promise of `nodes.json` about numbers, without files | |
| `NodesJson` | `update_nodes_json`, command by command, for any number of runs at once | implements `HostRegistry` |
| `Reports` | the loop over the checks and the three rounds of each report | role, jq and mv of `update_nodes_json` |
| `Snapshots` | the K000 check, from counting the snapshots to the result | the number of a host stands for the host |
| `RunCheckup` | `run_checkup.sh` | extends `Snapshots` |
| `HostOrder` | collecting, failovers, epochs, and the hosts of a report | `HostRegistry!Register` for new hosts |
| `JsonReports` | the promise of `process` to the reports it rewrites, without files | |
| `Process` | `run_process`, `pghrep` and `glue_md_reports`, beside one `checkup collect` | implements `JsonReports`; `nodes.json` is left out |
| `Upload` | `checkup upload` and the platform, beside collections and processing | `last_check` as the only part of `nodes.json` |
| `ReportResult` | what a check produces; sorting, cutting, the master of a report | |
| `Units` | sizes and units | |
| `Versions` | the table of releases, its replacement from the web page, A002 | `ReportResult` |
| `Settings` | F001, F008, G001 | `ReportResult`, `Units` |
| `Bloat` | F004, F005 | `ReportResult` |
| `Space` | F002, L003, A008 | `ReportResult` |
| `Servers` | G002, K000, A006 | `ReportResult` |
| `Indexes` | H001, H002, H004 | `ReportResult` |
| `Conclusions` | one run of `pghrep` on one report: releases, check, result | all of these |
| `ConclusionsSafety` | the properties of the former | extends it |
| `OrderedMap` | a report that is collected, loaded and saved in turn | `Sublist` |
| `Sublist` | the elements of a sequence that are in a set, in their order | used by `HostOrder`, `OrderedMap`, `ReportResult` |
| `MC_*` | constants, symmetry and constraints for TLC | |
| `NodesJson_proofs`, `Reports_proofs`, `Process_proofs`, `Upload_proofs` | theorems about the module they are named after | extend it |
| `Pghrep_proofs` | theorems about `HostOrder` and about `OrderedMap` | extends both |
| `Conclusions_proofs` | theorems about `Conclusions` and all it is composed of: every property of `ConclusionsSafety` | extends `ConclusionsSafety` |
| `RunCheckup_proofs` | theorems about `Snapshots` and `RunCheckup` | extends both |
| `Sublist_proofs` | lemmas about `Sublist`: what is in it, at which positions, and that nothing else is it | extended by the proofs that need it |

### How state and actions correspond to the code

**NodesJson.** `nodes` is the content of `nodes.json`, `dirs` the directories, `loc[p]` the shell variables of the run in `p`
(`HOST`, `EPOCH`, `ROLE`, `ALIAS_INDEX`, `prev_role`, `JSON_REPORTS_DIR`, the temporary file), `pc[p]` the next command.
Each command that touches the shared files is an action: `TestNodes`, `CountDirs`, `ReadHost`, `FindDir`, `Mkdir`, `NextIndex`,
`WriteDraft` (jq into a temporary file) and `Install` (mv). `Probe` asks the server for its role, which is any role at any
time. `Die` ends a run anywhere. The alias is "node" followed by the number and is left out. The histories `overlap` (two
runs were between `CountDirs` and `Install` at once) and `orphan` (a run died after mkdir while there was no `nodes.json`) are read by
properties only.

**Reports.** `report[c]` is the JSON file of check `c`: for each host no result, a bare result, or a result with a
`nodes.json` (of which the role of the host is kept), and `last_nodes_json`. `jq1/mv1`, `jq2/mv2` and `jq3/mv3` are the three rounds of
`generate_report_json`. `role` of a run is `ROLE`, set by `Start` and by `AskRole`, read by `SkipReport` before the next update.
`nodes.json` is rewritten without a lock too, so `update_nodes_json` is three actions: `AskRole` asks for the role and looks for the file
(`found`), `DraftNodes` is jq, which reads the file or, when there was none, the template, and `InstallNodesJson` is mv. What lies between, the
numbers and the directories, is in `NodesJson`. The history `overlap` says that two runs were in there at once, when the second mv may
drop the host of the first; only properties read it.

**Snapshots.** `snaps` maps the files in `tmp_K000` to their snapshots: the second and the database of each, or `Empty`. The name of a file
has the number of the snapshot, the host and `SimpleName` of the database, which two databases may share: the script replaces `-`, `,`, space
and `~` by `_`. `isset` tells whether
`prev_json_object` is set. bash ignores `set -e` inside a check, because `run_checks` calls it on the left of `||`
(line 1274), but not `set -u`: `NoPrevious` is the abort on the unset variable, and a failing psql only leaves an empty file.

**RunCheckup.** `stage` and `hosts` are the position in the script; `Work` is any step of the check. The script has no `set -e`: the
next command runs whatever became of the last. `Process` and `Upload` are one step each here.

**HostOrder.** `Collect(h)` is all of a collection that matters here. `Visit(h)` is one turn of the loop over the Go map, in any
order. `Ascending` is the sorted sequence of a set of numbers, which is what `SortedReplicas` goes through; the hosts without data are
left out with `Sublist`.

**Process.** `report[c]` is the JSON file of check `c`: absent, empty, or full with the number of its collections and the number of
collections its conclusions were drawn from (0: not processed). `md[s]` is a Markdown file, as the results and conclusions it was
rendered from; `final` the final report, per section what it shows and what its row in the summary table says. `gen` is a run of
`process`: the loop of `run_process` (`only` is `FILE`, `todo` the rest of `ls`, `failed` is `pghrep_failed_md_stack`) and the `pghrep` it is
in, whose steps are its file accesses: `Load` (main), `Conclude` (each `*PreprocessReportData` reads the file again), `Save` (and
`SaveJsonReportResults` a third time), `Create`, `Write`, `Open`, `Render`. `opened` tells whether the file pghrep holds still has the name of
the report: a mv of the collection takes it away, and the write goes to a file without a name. `PghrepDies` is a signal to `pghrep`
alone, which the script takes for a failed check; `Die` kills the script. In `JsonReports`, `torn` is `clash` and `cut` together.

**Conclusions.** A check is a function of the loaded report, so most of it is operators, one per function of the source, under the
name it has there; `Conclusions` has one action per check, which is its `*PreprocessReportData`. `report` is what
`LoadJsonFile`, or the struct of the check, makes of the file: the results by host, the roles of `last_nodes_json`, whether the
JSON has the form of the structs (`readable`), and under `with` what else the check reads (A001 for F008 and G001, F004 for F005, the date and
the web page for A002, the hosts of `DetermineMasterReplica` for A006 and H001). `result` is the `ReportResult`; a message is the tuple
of the values it is printed with. `stage` says how the run ended: saved, discarded (an error before saving), panicked, or compared (A006 and
H001 change the data of the templates, which is `added`, and save nothing). A `range` over a Go map has a random order: every loop
over the hosts takes its order as a parameter, and the action chooses one for each loop, so that every order of each is a
successor. `Loop` is such a loop: what a pass keeps (`WorkersTurn`, `CostTurn`, `MajorTurn`, `MinorTurn`) is a record, in which `over` stands
for a return in the middle. Where a loop goes over the items of one host (rows of a table), a fixed order is taken, as hosts are what differs between
runs. Numbers that strconv cannot parse are `NoNumber`; versions and dates are numbers whose order is that of the code.
`A008ReportHostResultData` is json.Unmarshal with the names the struct declares, applied to what the script writes.

**OrderedMap.** `file` is the report: its fields, and the items of one host (tables, indexes), each with the way its name is spelled
in the JSON text. jq, `MarshalJSON` and encoding/json spell names differently, and `mapStringToOrderedMap` finds a key only in the spelling it
expects (`Sought`); `ClassOf` says what a name has in it. `data` is what a template gets of the items: `_keys` and the values. `SetAll` is
the six calls of `Set` by which a result gets into the report. `MaxItems` and `MaxSaves` bound the items of a host and the saves between two
collections.

**Upload.** `nodes` is `last_check.dir`, `tree[d]` the names in `json_reports/<d>` and `md_reports/<d>`, `platform` the reports on the platform. `up` is an
upload: `ScanJson`, `ScanSub` and `ScanMd` are the calls of ReadDir, `files` the list they fill, in ReadDir's order; `Create` and `Post` are
requests, whose `Outcome` says whether the platform carried them out and what came back. `nodes.json` is read twice, by `Begin` for
the directory and by `Post` for its content. Which directory a file comes from is all that is kept of its content.

## 3. Runs

| Run | Instance | Shows |
|---|---|---|
| `nodes_serial` | 1 run, 3 hosts, 2 epochs, clock to 2 | types; `last_check.dir` exists; `nodes.json` implements `HostRegistry` |
| `nodes_concurrent` | 2 runs, 2 hosts, 2 epochs | unique and stable numbers, one directory per epoch, stamped role changes, unless update_nodes_json overlaps |
| `reports_serial` | 1 run, 1 host, 3 checks (2 master-only), 2 failovers | every check accounted for; one master-only check on a standby per failover at most |
| `reports_concurrent` | 2 runs, 2 hosts, 1 check | results stay and are complete, unless two runs are inside the same report; they are named, unless two runs rewrote `nodes.json` at once besides |
| `snapshots` | 2 runs, 1 host, 3 databases of which 2 share a name, 4 snapshots, 4 seconds | no snapshot overwritten, neighbours compared, databases mixed up only by a shared name |
| `snapshots_previous` | 1 run, 1 host, 2 databases | violation: the previous snapshot is not found |
| `run_checkup` | 2 hosts, script run twice | both loops give every host a result; with one database the previous snapshot is found; the reports get processed whatever fails |
| `pghrep` | `HostOrder` with 3 hosts; about 18,600 reports of up to 3 hosts for 15 checks; 5 names of items, up to 3 of them in a report, saved 3 times | order and completeness of the hosts of a report; the conclusions (below); nothing but the named items is lost by saving |
| `network_fs` | the reports of `pghrep` | violation: a directory of Postgres on NFS is not reported |
| `host_order_two_masters` | 2 hosts | violation: a host with data is left out after a failover |
| `process` | 1 process and 1 collection at a time, 2 checks, 3 sections, 2 collections of K000 | no result lost outside the write window; sections agree with their conclusions; the final report is up to date or the failed checks are listed; the reports implement `JsonReports` |
| `upload` | 2 reports on the platform, 4 files and `nodes.json`, 2 epochs | files arrive or are complained of, apart from two silent losses; reports do not mix epochs |

What the properties of `pghrep` say of the conclusions:

* `Priorities`: the priorities of a saved result are what the hosts of the report deserve taken together. `Deserved` states that
  for each check without loops, over sets of hosts and rows. It is where an order, an early return or a stale variable would show.
  `Excepted` names the reports for which the code may answer otherwise, and nothing else is excepted: A008 when a directory of Postgres is on
  NFS, on a file system that is not recommended, or fuller than any line of df shows (`A008Unread`), which the code never reads; H002 and H004 with two masters or a
  master without results; F001 without exactly one master; A002 when a server is behind in one branch and another is up to date with
  the same minor number in another (`Masked`); F008 when a host lacks data, when versions before and from 12 are mixed, or when one is before
  9.0 (`F008Complete`); G001 when something it adds up is unknown or negative, or the memory is not given in kB (`G001Complete`).
* `Explained`: a priority has a conclusion and advice. `Listed`: a printed list is whole, or ends in the mark and states its length; what it
  names is in the list that is never cut. `OutdatedNamed`: A002 names the outdated versions and panics only over a branch without releases.
  `DiffAligned`: a row of A006 has each host's own value in that host's column. `SizesAgree`: two conversions of one setting give one size.

Its three parts have no variable in common. A behaviour is one of one of them (`part`), and they share a run because they are one
program and take seconds each.

Deadlock is not checked: a project may rest forever, and the bounded clocks stop.

Bounds. Three hosts give a new host, a known one and a third whose number must differ from both; two epochs give the
change of directory and back; a clock of two seconds gives two different timestamps, hence two directories of one epoch.
Two runs at once are enough for every lost update (one reads, the other writes in between). Two master-only checks
tell one stale `ROLE` from a `ROLE` that is never refreshed. In `reports_concurrent` servers keep their roles: its properties are
about which hosts are where, and failovers are in `reports_serial`. Its view leaves out the file a run was started for, which is read only
when it starts. A K000 check reads the snapshots of its own host alone, so one host
is enough in `snapshots`; that they are not mixed up is checked in `run_checkup`, which has two. Four snapshots
give a neighbour and a non-neighbour, and room for those of another database between them; the third database is one whose name is its own. The
constraints `UntilOverlap`, `UntilClash` and `UntilTogether` cut behaviours off where the properties of the run promise nothing any
more. In `process`, two collections give old results to be lost and old conclusions to be shown; a check with two sections
tells a section that is new from one that is left; the second check gives the loop a second turn. The view leaves out the body of
an old final report, which no step reads. In `upload`, one file stands for each place in the scan (before, inside and after a
directory, Markdown), and the second epoch for any other. Two reports on the platform make a repeated upload.
In `pghrep`, two hosts are enough for the order of a loop to matter in most checks, as each keeps one value of the host before; A002 and
A006 have three, for a version between two others and for columns behind a missing one. The values lie on both sides of each
threshold and on it; lists have up to eight names per host and sixteen in all, on both sides of six. Three items make a lost one in the middle
of others; the third save finds what the second wrote, after which nothing changes.

Fairness. Only `RunCheckup` states it: weak fairness of the collecting steps, because a shell runs the next command when the
last one has ended, and each ends (psql and ssh have time-outs). Nothing is assumed about success. `process` asks a web site for the
releases of Postgres with `http.Get`, `upload` posts with `http.Post`, both without a time-out: neither is fair, and nothing is promised about
what comes after them.

## 4. Findings

* Two databases in one epoch (run `snapshots_previous`): the number of a K000 snapshot counts the snapshots of all databases of
  the host, the previous one is looked for under the database of the run. Collecting a, b, a in this order fails for a the
  second time although the message of K000 asks for just that.
* Two recorded masters (run `host_order_two_masters`): after a failover between two collections, or when a former master is
  decommissioned, `nodes.json` names two masters and the report leaves out all but one of them.

* The directories of Postgres (run `network_fs`): the script of A008 and the template call them `db_data`, the struct `data`. A data directory on
  NFS or on a file system that is not recommended is shown in the table and never in the conclusions. The unit test for it fills
  the struct itself and passes. With the key corrected, a name of a file system of fewer than three letters (`9p`) would make the check
  panic (`a008.go`, `Fstype[0:3]`).

Weaknesses of the conclusions that no text of the repository contradicts; the first four, and the directories of Postgres above, are the
exceptions of `Priorities`:

* A002 remembers a version that is up to date by its minor number and then skips other branches with it, depending on the order of a map; its
  advice names the newest version of one branch for all outdated servers. A branch without a tag on the page of releases panics.
* F008 judges no host after one without data, or after one of version 12 and later; it takes 8.4 for version 80, which is later.
* G001 overwrites the error of `max_connections`; without a master it judges any host. What is -1 goes into its sum as -1, except for
  `autovacuum_work_mem`, where it stands for another setting.
* Of two recorded masters, F001, H002 and H004 judge one.
* G002 names a host once per row. G001 prints the wording of a conclusion as its recommendation (`g001.go:133`). F004 and F005 print the
  totals of the host the loop came to last. F005 fills a list of its five largest indexes that nothing reads.
* L003 keys tables by their name without the schema. A006 compares nothing without a master, and shows a setting of a replica whose
  value is the word null as not set. The repair code of H001 is always empty.
* Saving a report loses items whose name has a backslash or a control character at once, one with `<`, `>` or `&` the second time; with a newline in a
  name nothing can be saved any more (`NothingLost`).

Weaknesses that the properties exclude by name, as nothing in the repository says otherwise: an unreadable directory makes
`ScanPath` forget the files found before it, and an answer that is no JSON counts as success (`FilesAccounted`); a
`pghrep` that dies between truncating and writing a report leaves an empty file that no later collection repairs
(`ResultsSurvive`); two runs that overlap in `update_nodes_json` can drop a host from `nodes.json`, and so from a `last_nodes_json`
(`ResultsNamed`); databases such as `a-b` and `a_b` have the same file names, and K000 may compare a snapshot of one with one of the
other (`ComparesNeighbours`).

## 5. Proofs

The theorems hold for every set of runs, hosts, checks, epochs, files and names, and for all values of the bounds. Assumed of the
constants is what the modules state with ASSUME, which TLC evaluates in every run: bounds are natural numbers; `Nil`, which stands for
"no host", is no host; a check has the sections `CheckOf` gives it, and the checks with conclusions and the master-only ones are checks;
the listings of `Upload` are sequences of files, `nodes.json` is not one of them, and what `pghrep` uploads are files or
`nodes.json`; every name has a class. Three theorems of `RunCheckup_proofs` have the hypothesis `Db = {d}` besides, as their properties
are those of a project with one database.

The theorems about the conclusions hold for any set `Inputs` of reports of the form `ReportType`, which is what the structs and the scripts
say of them: finitely many hosts, each with the data its check declares, of any size. That is an assumption on a constant
(`InputsAssumption`), and TLC evaluates it for all reports of the run.

Each proof module begins with its argument; the invariants follow there, one conjunct per idea. What they have in common: few of the
properties are inductive, because what a program will write is in its variables and its temporary file long before it is in the
report. So each inductive invariant says what a program knows, command by command, and from when on that may be stale.

`NodesJson_proofs` proves every property of the two `nodes_*` runs.

* `TypeCorrect`: the types are inductive as they stand. `RunStepType` carries the argument for all actions of a run.
* `NamedDirsExist` holds in every behaviour: a run past mkdir names a directory that exists, and so does its temporary file.
  Directories are never removed, so another run cannot spoil it. From it `DirExists`.
* `SerialInv` holds until two runs overlap: one run at most is inside `update_nodes_json`, and `Knows` lists, command by command, what
  its locals say of the file, up to `mv`, where the temporary file is the file with the host filled in. `Install` is the only step that
  changes the file, and nobody else is inside when it does. From it `NumbersUnique`, `NumbersStable`, `RoleChangesStamped` and
  `SerialImplementsRegistry`: each step is a registration or a stutter. With one place to run in, nothing ever overlaps
  (`OneRunImplementsRegistry`).
* `DirInv` holds as long as, besides, no first run dies half-way: a run about to mkdir has chosen the directory of its epoch if
  there is one. From it `DirsUnique`.

What the histories exclude is what can go wrong: TLC finds two hosts with one number, or two directories of an epoch, as soon as
`overlap` or `orphan` is allowed. The proofs show that nothing else can.

`Reports_proofs` proves every property of the two `reports_*` runs.

* `Drafted` is the heart: until two runs have been inside the same report (`clash`), the temporary file of a round is the report with what
  this round adds, so that the mv that follows loses nothing. `Exclusive` says that nobody else is inside. From them
  `ResultKeptCorrect` (a result stays), `NamedCorrect` and `CompleteCorrect`, where a run that died inside is the exception (`torn`).
* `NodesInv` says the same of `nodes.json`: until two runs have rewritten it at once (`overlap`), the temporary file has every host of it, and the
  host of a run that is past the mv is in it. So `last_nodes_json`, which is copied from it, names all hosts with results (`ResultsKnown`).
* `RoleLags` counts the failovers that a run has yet to notice; each pays for one master-only check on a standby. From it `LapsesCorrect`.
* `Planned` follows a check from the list of those left to a result, a failure, or a reason to skip it. From it `AccountedCorrect`.

`RunCheckup_proofs` proves every safety property of the runs `snapshots` and `run_checkup`.

* `NumbersInv`: the numbers of a host's snapshots are 1 to their count. It is kept because a check that has counted adds the very next
  number and no other check of the host has counted since (`TakeInv`). Hence no snapshot is overwritten (`SnapshotKeptCorrect`) and a result
  compares neighbours (`ComparesNeighboursCorrect`), unless two checks of a host ran together. `NamesInv` says that a snapshot is in a file with the simple
  name of its database, whatever the conversion of names is: only databases that share one are ever mixed up.
* `PreviousFoundCorrect`: with one database, the previous snapshot is found.
* `DriverCorrect`: the steps of `run_checkup.sh` are steps of `Snapshots`, so all of this holds of the script.
* `TwoLoopsSufficeCorrect`: `LoopsInv` follows a host on which nothing failed through both loops. Its first snapshot holds data, the pause
  makes it older than the clock, and the check of the second loop has no way out but a result.

`Pghrep_proofs`, first part: `OrderedOnceCorrect` and `OnlyMastersMissingCorrect`, from what `DetermineMasterReplica` knows of the hosts it has
visited (`DetermineInv`), whatever the order of the map, and from the numbers being different (`ProjectInv`).

`Process_proofs`: `ResultsSurviveCorrect`, `SectionsAgreeCorrect` and `FinalTrueCorrect`. `DataInv` says that all `pghrep` remembers of a
report (what it loaded, concluded, will write and renders) is about the same results, as long as no collection has met it
(`MetInv`); `ResultsInv` that the newest results are in the file, or in the image about to be written; `GluedInv` that the sections of the
checks that are done are those of their reports, of which the final report is made. `ProcessImplementsJsonReports` is the refinement: what
`SaveReportResult` reads, empties and fills is one step of `JsonReports`, `os.Create`, as a report being rewritten is mapped to what will be in it
(`Visible`). It needs `ConclInv` as well, on the results behind the conclusions of a file. `JsonReports` keeps two weaknesses of the
code: conclusions fall back or lag once a collection has met a `process` (TLC finds both when they are not allowed), and nothing is promised
of a report that was collected while pghrep rewrote it, or never written to the end.

`Upload_proofs`: `FilesAccountedCorrect`, `OneEpochCorrect` and `NodesAgreeCorrect`. `LastingInv` follows a file from its
directory into the list, `SentInv` from the list to the platform; every way it can leave either is one of those `FilesAccounted` names.

`Pghrep_proofs`, second part: `NothingLostCorrect`. `Spelt` says in which ways an item can be spelled by now, `SublistUnique` that items which keep
their order are the sublist the property speaks of. `Saved` is what six calls of `Set` make of a report (`SetAllFields`).

`Conclusions_proofs` proves every property of `ConclusionsSafety` that the run `pghrep` checks. TLC has up to three hosts and lists of
sixteen names; the theorems have any number, every table of releases the web page can leave, and every order of every loop.

* The invariant `ConclusionsInv` says that a saved result is what the function of the check makes of the report in some order of its loops
  (`Judged`), that a panic is one its function admits (`Panicked`), and that the releases still have their branches. It is what the
  properties lack to be inductive: none of them mentions the report a result came from. TLC does not check it on its own, as it
  would have to compare messages of different forms; every step of its proof is one action of `Conclusions`.
* What remains is about values, not steps: for all reports and orders, what does the function of a check return? `Typed` and `Adds`
  are the two facts about a `ReportResult` that pass from one call of `AppendConclusion` to the next: it is well-formed, and its priorities,
  conclusions and recommendations have grown by just that. A result is seen as sets (`Flagged`, `Conc`, `Recs`), as the order of
  its messages matters to no property.
* Loops and `FlattenSeq` are recursive functions, a CHOOSE for the prover. `RecursionExists` gives them their equation (`Runs`, for a
  loop), and `RecursionKeeps` is induction over the passes, without an induction theorem. A loop has an invariant like any other:
  `IsHostLoop` for F008, `IsMajorLoop` and `IsMinorLoop` for A002.
  A loop that stops early is where the exceptions of `Priorities` come from: with `F008Complete` no pass stops it, with `Masked` a
  version is skipped only for one that is up to date.
* Check by check, a lemma `...Judged` gives the priorities and messages of the function in terms of the sets of hosts, rows and tables
  alone (`Verdict`), and one named `...Earned` or `...Earns` that these are the ones `Deserved` states. For A008 these differ: its function has the priorities of the lines of df (`FsFlags`), and `A008Earned`
  shows that they are the deserved ones outside `A008Unread`. `LimitListProperties`,
  `ByteFormatProperties`, `A006Compared` and the like are about single functions.
* From these, `PrioritiesHold`, `ExplainedHolds`, `ListedHolds`, `OutdatedNamedHolds`, `DiffAlignedHolds`, `SizesAgreeHolds` and
  `ConclusionsTyped`.

The proof of `PrioritiesHold` failed at first for a report that the run did not have: with a server before 9.0, which F008 takes for version 80,
the loop stops as it does at 12. `F008Complete` names that case now, and the run has such reports.

`Sublist_proofs`: the lemmas that `HostOrder`, `OrderedMap` and the conclusions share. Recursive functions are a CHOOSE for the prover. That one with the equation exists, and what holds
of it for every number, is shown without the induction theorems of the library, which take an operator: `UpTo` is induction
over a set of numbers, from the least counterexample.

Not proved, and checked by TLC only:

* `ReportsProcessed`, the liveness of `run_checkup.sh`: liveness under fairness, and ENABLED, are out of the prover's reach.
* The three violations, which are counterexamples.

## 6. Plan

1. Every component with state or shared files is modelled, and the conclusions; section 7 says what is not.
2. Proofs of every safety property the runs check, and of the refinements of `HostRegistry` and `JsonReports`: done.
3. Open: an abstract specification of the sections, each of which belongs to one state of its report. One of `Upload`: the platform gets
   the files of one epoch.

## 7. Not modelled

* The SQL of the checks and the shell scripts around it, K000 excepted: they keep nothing, and what they find is input here.
* Command line, configuration and connection: done once before anything else, without shared state. A refused or failed start is a run
  that does not happen; a host that stops answering is a check that fails (`Reports`).
* `dateparse`: a copy of a library, used to print a date. `pyraconv`: a copy of a library, of which two conversions are in `Servers`.
* `orderedmap`: Delete, Sort and SortKeys are not called by pghrep. Slices of maps hold no names from a database.
* `SortItemsByFloat64` would not end for two items of value 0; the script of L003 gives only tables above 10, so the sort is modelled as one.
* `UploadReportFile` panics on the name of a file that is shorter than five letters (`fileName[4:5]`); collecting and processing make none.
* A server that accepts a request and never answers: http.Post and http.Get have no time-out, and `ReportsProcessed` ends before either is called.
* Templates and the formats of numbers, dates and durations in tables; the wording of messages; the tokens of the HTML page of releases;
  log output; conversion to PDF and HTML; Docker.

Liveness is model-checked only. Files are replaced by mv as a whole, which a rename within one file system is.
