----------------------------- MODULE Conclusions -----------------------------
(***************************************************************************)
(* PreprocessReportData (pghrep/internal/reportutils/templates.go): pghrep *)
(* has loaded the report of a check, runs the part of the check that draws *)
(* conclusions, and saves what that returns.  One run of pghrep, one       *)
(* report; what becomes of the file is in Process and OrderedMap.          *)
(*                                                                         *)
(* Every `range` over the hosts is free to choose its order, so an action  *)
(* has a successor for every choice.                                       *)
(***************************************************************************)
EXTENDS Settings, Bloat, Space, Servers, Indexes

\* The reports pghrep may be started for, by check.  A report is a record:
\*   check, results (by host), roles (last_nodes_json: the role of every host
\*   that was ever checked), readable (this file and those it depends on have
\*   the form the structs declare), and what else the check reads as `with`.
CONSTANT Inputs

\* What the check of a report reads of one host.
HostData(check, data) ==
  CASE check = "A002" -> data \in A002ReportHostResultData
    [] check = "A006" -> DOMAIN data = Section /\ \A s \in Section : IsMap(data[s], Cell)
    [] check = "A008" -> A008Written(data)
    [] check = "H001" -> H001Data(data)
    [] check = "H002" -> data \in H002Data
    [] check = "H004" -> data \in H004Data
    [] check = "F001" -> data \in F001GlobalSettings
    [] check = "F002" -> F002Data(data)
    [] check = "F004" -> F004Data(data)
    [] check = "F005" -> F005Data(data)
    [] check = "F008" -> data \in F008Settings
    [] check = "G001" -> data \in [G001Name -> G001Setting]
    [] check = "G002" -> IsMap(data, G002Connection)
    [] check = "K000" -> K000HostData(data)
    [] check = "L003" -> L003Data(data)

\* What it reads besides: the page of releases and the day, the hosts of the report,
\* the reports of other checks.
WithData(check, with) ==
  CASE check = "A002" -> /\ with.today \in Nat
                         /\ with.page.loaded \in BOOLEAN
                         /\ with.page.tags \subseteq Tag /\ IsFiniteSet(with.page.tags)
    [] check \in {"A006", "H001"} -> with.hosts.replicas \in Seq(STRING)
    [] check = "F005" -> /\ with.f004.loaded \in BOOLEAN
                         /\ \A h \in DOMAIN with.f004.results : F004Data(with.f004.results[h])
    [] check = "F008" -> IsMap(with.cpus, Nat \cup {NoNumber}) /\ IsMap(with.versions, Nat)
    [] check = "G001" -> IsMap(with.ram, A001ReportRam)
    [] OTHER -> TRUE

ReportType(r) ==
  /\ r.readable \in BOOLEAN
  /\ IsMap(r.roles, {"master", "standby"})
  /\ IsFiniteSet(DOMAIN r.results)
  /\ "" \notin DOMAIN r.roles \cup DOMAIN r.results
  /\ \A h \in DOMAIN r.results : HostData(r.check, r.results[h])
  /\ WithData(r.check, r.with)

ASSUME InputsAssumption ==
  \A check \in DOMAIN Inputs : \A r \in Inputs[check] : r.check = check /\ ReportType(r)

VARIABLES
  report,     \* the report
  versions,   \* the releases of Postgres
  stage,      \* "loaded", "ready", and how the run ended
  result,     \* the ReportResult
  added       \* what is added to the data of the templates besides the result

conclusionVars == <<report, versions, stage, result, added>>

Ended == {"saved", "discarded", "panicked", "compared"}
Nothing == [none |-> {}]

-----------------------------------------------------------------------------
ConclusionsInit ==
  /\ \E check \in DOMAIN Inputs : report \in Inputs[check]
  /\ versions = versionsDefault
  /\ stage = IF report.check = "A002" THEN "loaded" ELSE "ready"
  /\ result = NoResult
  /\ added = Nothing

\* The report of that check, its file readable, is to be judged.
At(check) == stage = "ready" /\ report.check = check /\ report.readable

SaveReportResult(r, data) ==
  /\ stage' = "saved"
  /\ result' = r
  /\ added' = data
  /\ UNCHANGED <<report, versions>>

End(how) ==
  /\ stage' = how
  /\ UNCHANGED <<report, versions, result, added>>

\* Results of a check that met an error are saved if they recommend something.
SaveUnlessEmpty(outcome) ==
  IF outcome.err /\ outcome.result.Recommendations = <<>> THEN End("discarded")
  ELSE SaveReportResult(outcome.result, Nothing)

Compared(data) ==
  /\ stage' = "compared"
  /\ added' = data
  /\ UNCHANGED <<report, versions, result>>

\* A file has another form than the structs: nothing is concluded.  A006 and H001
\* go through the JSON itself.
Unreadable ==
  /\ stage = "ready"
  /\ ~report.readable
  /\ End("discarded")

\* The versions are brought up to date before A002, if the web site answers.
LoadActualVersions ==
  /\ stage = "loaded"
  /\ versions' = LoadVersions(versions, report.with.page)
  /\ stage' = "ready"
  /\ UNCHANGED <<report, result, added>>

A002 ==
  /\ At("A002")
  /\ \E orders \in [1 .. 3 -> Orders(report.results)] :
       LET judged == A002Process(report.results, orders, versions, report.with.today)
       IN IF judged.panic THEN End("panicked")
          ELSE SaveReportResult(A002General(judged.result), Nothing)

A006 ==
  /\ At("A006")
  /\ Compared(compareHostsData(report.results, report.with.hosts))

A008 ==
  /\ At("A008")
  /\ \E order \in Orders(report.results) :
       LET judged == A008Process(report.results, order)
       IN IF judged.panic THEN End("panicked") ELSE SaveReportResult(judged.result, Nothing)

H001 ==
  /\ At("H001")
  /\ Compared(prepareDropCode(report.results, report.with.hosts))

H002 ==
  /\ At("H002")
  /\ \E master \in MasterHost(report.roles) :
       SaveReportResult(H002Process(report.results, master), Nothing)

H004 ==
  /\ At("H004")
  /\ \E master \in MasterHost(report.roles) :
       SaveReportResult(H004Process(report.results, master), Nothing)

\* A result that met an error is not saved at all.
F001 ==
  /\ At("F001")
  /\ \E master \in GetMasterHostName(report.roles) :
       LET judged == F001Process(report.results, master)
       IN IF judged.err THEN End("discarded") ELSE SaveReportResult(judged.result, Nothing)

F002 ==
  /\ At("F002")
  /\ \E order \in Orders(report.results) : SaveReportResult(F002Process(report.results, order), Nothing)

F004 ==
  /\ At("F004")
  /\ \E order \in Orders(report.results) : SaveReportResult(F004Process(report.results, order), Nothing)

F005 ==
  /\ At("F005")
  /\ \E order \in Orders(report.results) :
       SaveReportResult(F005Process(report.results, order, TablesOf(report.with.f004)), Nothing)

F008 ==
  /\ At("F008")
  /\ \E orders \in [1 .. 2 -> Orders(report.results)] :
       SaveUnlessEmpty(F008Process(report.results, orders, report.with.cpus, report.with.versions))

G001 ==
  /\ At("G001")
  /\ \E order \in Orders(report.results), master \in GetMasterHostName(report.roles) :
       SaveUnlessEmpty(G001Process(report.results, order, master, report.with.ram))

G002 ==
  /\ At("G002")
  /\ \E order \in Orders(report.results) : SaveReportResult(G002Process(report.results, order), Nothing)

K000 ==
  /\ At("K000")
  /\ \E order \in Orders(report.results) : SaveReportResult(K000Process(report.results, order), Nothing)

\* The tables are sorted twice, each time anew.
L003 ==
  /\ At("L003")
  /\ \E order \in Orders(report.results) :
       SaveReportResult(L003Process(report.results, order), L003ProcessSortTables(report.results))

PreprocessReportData ==
  \/ Unreadable \/ LoadActualVersions
  \/ A002 \/ A006 \/ A008
  \/ H001 \/ H002 \/ H004
  \/ F001 \/ F002 \/ F004 \/ F005 \/ F008
  \/ G001 \/ G002 \/ K000 \/ L003

ConclusionsSpec == ConclusionsInit /\ [][PreprocessReportData]_conclusionVars
=============================================================================
