------------------------------ MODULE Versions ------------------------------
(***************************************************************************)
(* The versions of Postgres: src/pghrep/internal/checkup/cfg/cfg.go knows  *)
(* the releases, check A002 (checkup/a002/a002.go) compares the servers    *)
(* with them.                                                              *)
(*                                                                         *)
(* A major version is the number getVersionNum makes of it: "9.6" is 906,  *)
(* "14" is 1400.  server_version_num is a number, not a string of digits.  *)
(* A date is the number yyyymmdd; a day begins before `now`.               *)
(***************************************************************************)
EXTENDS ReportResult

\* The releases of a branch are numbered from one minor version to another.
Release(first, final, from, to) ==
  [FirstRelease |-> first, FinalRelease |-> final, MinorVersions |-> from .. to]

Branches == {1400, 1300, 1200, 1100, 1000, 906, 905, 904, 903, 902, 901, 900, 804, 803, 802,
             801, 800, 704, 703, 702, 701, 700, 605, 604, 603}

DefaultRelease(v) ==
  CASE v = 1400 -> Release(20210930, 20261112, 0, 5)
    [] v = 1300 -> Release(20200924, 20251113, 0, 8)
    [] v = 1200 -> Release(20191003, 20241114, 0, 12)
    [] v = 1100 -> Release(20181018, 20231109, 0, 17)
    [] v = 1000 -> Release(20171005, 20221110, 0, 22)
    [] v = 906  -> Release(20160929, 20211111, 0, 24)
    [] v = 905  -> Release(20160107, 20210211, 0, 25)
    [] v = 904  -> Release(20141218, 20200213, 0, 26)
    [] v = 903  -> Release(20130909, 20181108, 0, 25)
    [] v = 902  -> Release(20120910, 20171109, 0, 24)
    [] v = 901  -> Release(20110912, 20161027, 0, 24)
    [] v = 900  -> Release(20100920, 20151008, 0, 23)
    [] v = 804  -> Release(20090701, 20140724, 0, 22)
    [] v = 803  -> Release(20080204, 20130207, 0, 23)
    [] v = 802  -> Release(20061205, 20111205, 0, 23)
    [] v = 801  -> Release(20051108, 20101108, 0, 23)
    [] v = 800  -> Release(20050119, 20101001, 0, 26)
    [] v = 704  -> Release(20031117, 20101001, 1, 30)
    [] v = 703  -> Release(20021127, 20071127, 1, 21)
    [] v = 702  -> Release(20020204, 20070204, 1, 8)
    [] v = 701  -> Release(20010313, 20060313, 1, 3)
    [] v = 700  -> Release(20000508, 20050508, 2, 3)
    [] v = 605  -> Release(19990609, 20040609, 1, 3)
    [] v = 604  -> Release(19981030, 20031030, 2, 2)
    [] v = 603  -> Release(19980301, 20030301, 2, 2)

versionsDefault == [v \in Branches |-> DefaultRelease(v)]

Config == [Branches ->
             [FirstRelease : Nat, FinalRelease : Nat,
              MinorVersions : {minors \in SUBSET Nat : IsFiniteSet(minors)}]]

-----------------------------------------------------------------------------
(* The tags of the Postgres repository, from a page of its web site.  A    *)
(* "release" is a tag like REL9_6_14, REL_10_9 or REL_11_4; a "devel" tag  *)
(* names a beta, an alpha or a candidate; a "short" one has no minor       *)
(* version, as REL_11; the minor version of an "odd" one is no number.     *)
Tag == [kind : {"release", "devel", "short", "odd"}, major : Nat, minor : Nat]

\* The page did not load, or broke off.
NoPage == [loaded |-> FALSE, tags |-> {}]
Page(tags) == [loaded |-> TRUE, tags |-> tags]

\* The tags that name a release of a branch the table has.
Numbered(versions, tags) ==
  {t \in tags : t.kind \in {"release", "odd"} /\ t.major \in DOMAIN versions}

\* A tag that is no number fails before anything is written.  Otherwise the
\* releases of every branch are replaced: a branch without a tag has none.
fillVersions(versions, tags) ==
  LET known == Numbered(versions, tags)
  IN IF \E t \in known : t.kind = "odd" THEN versions
     ELSE [v \in DOMAIN versions |->
             [versions[v] EXCEPT !.MinorVersions = {t.minor : t \in {u \in known : u.major = v}}]]

\* The caller goes on with the versions it has when this fails.
LoadVersions(versions, page) ==
  IF page.loaded THEN fillVersions(versions, page.tags) ELSE versions

-----------------------------------------------------------------------------
A002ReportHostResultData == [ServerVersionNum : Nat]

\* "90624" is 9.6, "140005" is 14, "80412" is 80.
MajorVersion(num) ==
  IF num \div 10000 = 9 THEN num \div 100
  ELSE IF num >= 100000 THEN (num \div 10000) * 100
  ELSE (num \div 1000) * 100

MinorVersion(num) == num % 100

\* What the messages call it.
Version(num) == <<MajorVersion(num), MinorVersion(num)>>

getLatestMajorVersionNum(versions) == Max(DOMAIN versions)

A002CheckAllVersionsIsSame(results, order, result) ==
  LET vers == [i \in DOMAIN order |-> Version(results[order[i]].ServerVersionNum)]
      diff == \E i \in DOMAIN vers : vers[i] # vers[1]
  IN IF diff
     THEN LET said == AppendConclusion(result, "A002_NOT_ALL_VERSIONS_SAME",
                                       <<order, GetUniques(vers)>>)
          IN Raise(AppendRecommendation(said, "A002_NOT_ALL_VERSIONS_SAME", Text), "P2")
     ELSE IF order # <<>>
          THEN AppendConclusion(result, "A002_ALL_VERSIONS_SAME", <<vers[1]>>)
          ELSE result

-----------------------------------------------------------------------------
\* What a message says of a branch that the table does not have.
NoRelease == Release(0, 0, 1, 0)

\* A release that ends today is not supported any more.
SupportEnded(result, major, release) ==
  LET said == AppendConclusion(result, "A002_NOT_SUPPORTED_VERSION", <<major, release.FinalRelease>>)
  IN Raise(AppendRecommendation(said, "A002_NOT_SUPPORTED_VERSION", <<major>>), "P1")

Support(result, major, release, today) ==
  CASE release.FinalRelease <= today -> SupportEnded(result, major, release)
    [] release.FinalRelease - 10000 <= today /\ today < release.FinalRelease ->
         Raise(AppendConclusion(result, "A002_LAST_YEAR_SUPPORTED_VERSION",
                                <<major, release.FinalRelease>>), "P2")
    [] release.FirstRelease <= today /\ today < release.FinalRelease - 10000 ->
         AppendConclusion(result, "A002_SUPPORTED_VERSION", <<major, release.FinalRelease>>)
    [] OTHER -> result

NewerMajor(result, major, latest) ==
  IF major >= latest THEN result
  ELSE LET advised == AppendRecommendation(result, "A002_NOT_LAST_MAJOR_VERSION", <<latest>>)
       IN Raise(AppendRecommendation(advised, "A002_GENERAL_FULL", Text), "P3")

\* Each branch is judged once; one the table does not have, once per host.
UnknownVersion(result, host) ==
  LET said == AppendConclusion(result, "A002_UNKNOWN_VERSION", <<host>>)
  IN Raise(AppendRecommendation(said, "A002_UNKNOWN_VERSION", <<host>>), "P1")

MajorTurn(acc, host, results, versions, today) ==
  LET major == MajorVersion(results[host].ServerVersionNum)
  IN IF major \in acc.processed THEN acc
     ELSE IF major \notin DOMAIN versions THEN [acc EXCEPT !.result = UnknownVersion(@, host)]
     ELSE [result |-> NewerMajor(Support(acc.result, major, versions[major], today),
                                 major, getLatestMajorVersionNum(versions)),
           processed |-> acc.processed \cup {major}]

A002CheckMajorVersions(results, order, versions, today, result) ==
  Loop(LAMBDA acc, host : MajorTurn(acc, host, results, versions, today),
       [result |-> result, processed |-> {}], order).result

-----------------------------------------------------------------------------
\* The newest minor version of a branch; without one the index is out of range.
NoIndex == -1
LastMinor(release) ==
  IF release.MinorVersions = {} THEN NoIndex ELSE Max(release.MinorVersions)

\* The state of the loop of A002CheckMinorVersions.
MinorLoop(result) ==
  [result |-> result, processed |-> {}, cur |-> <<>>, update |-> <<>>, panic |-> FALSE]

\* Seeded fault: a version is marked whether it was found up to date or not.
MarkAlways(processed, minor, upToDate) == processed \cup {minor}

\* A minor version is skipped once a host of any branch is up to date with it.
Mark(processed, minor, upToDate) == IF upToDate THEN processed \cup {minor} ELSE processed

MinorTurn(acc, num, versions) ==
  LET major == MajorVersion(num)
      minor == MinorVersion(num)
      last == LastMinor(versions[major])
      Found(loop) == [loop EXCEPT !.processed = Mark(@, minor, minor >= last)]
  IN IF acc.panic \/ minor \in acc.processed THEN acc
     ELSE IF major \notin DOMAIN versions
     THEN [acc EXCEPT !.result = SupportEnded(acc.result, major, NoRelease)]
     ELSE IF last = NoIndex THEN [acc EXCEPT !.panic = TRUE]
     ELSE IF minor >= last
     THEN Found([acc EXCEPT !.result = AppendConclusion(@, "A002_LAST_MINOR_VERSION",
                                                        <<Version(num), major>>)])
     ELSE Found([acc EXCEPT !.cur = Append(@, Version(num)),
                            !.update = Append(@, <<major, last>>)])

\* The versions that are out of date, and the newest version of the branch of
\* the first host that was found out of date.
A002CheckMinorVersions(results, order, versions, result) ==
  LET loop == Loop(LAMBDA acc, host : MinorTurn(acc, results[host].ServerVersionNum, versions),
                   MinorLoop(result), order)
      said == AppendConclusion(loop.result, "A002_NOT_LAST_MINOR_VERSION",
                               <<GetUniques(loop.cur), loop.update[1]>>)
      advised == AppendRecommendation(said, "A002_NOT_LAST_MINOR_VERSION", <<loop.update[1]>>)
  IN [panic |-> loop.panic,
      result |-> IF loop.cur = <<>> THEN loop.result ELSE Raise(advised, "P2")]

\* Each of the three functions ranges over the hosts on its own.
A002Process(results, orders, versions, today) ==
  LET same == A002CheckAllVersionsIsSame(results, orders[1], NoResult)
      major == A002CheckMajorVersions(results, orders[2], versions, today, same)
  IN A002CheckMinorVersions(results, orders[3], versions, major)

\* What A002PreprocessReportData adds before it saves the result.
A002General(result) ==
  IF result.Recommendations # <<>> /\ ~ResultInList(result.Recommendations, "A002_GENERAL_FULL")
  THEN AppendRecommendation(result, "A002_GENERAL_OFFICIAL", Text)
  ELSE result
=============================================================================
