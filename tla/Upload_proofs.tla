---------------------------- MODULE Upload_proofs -----------------------------
(***************************************************************************)
(* The safety properties of Upload, for all epochs, files and listings.    *)
(*                                                                         *)
(* The argument. LastingInv follows the files that are there throughout    *)
(* from the directories into the list that is sent: command by command,    *)
(* every such file has been listed, was dropped with a list, or is still   *)
(* to be listed. SentInv follows them from the list to the platform: a     *)
(* file that is no longer in the list has arrived, is among the failures,  *)
(* or was lost with a senseless answer. Epochs is about what a report on   *)
(* the platform consists of; it needs to know (DirsInv) that nodes.json    *)
(* names the directory of the upload until it is noticed that it does not. *)
(*                                                                         *)
(* Assumed are the constants' assumptions of Upload: that what ReadDir     *)
(* lists are sequences of files, of which nodes.json is none.              *)
(***************************************************************************)
EXTENDS Upload, Sublist_proofs

\* An upload has begun, and it did not end with an error.
Begun == up.pc \notin {"idle", "error"}

\* An upload is of an epoch, it sends to a report that is on the platform, and
\* nodes.json names its directory until `switched` says otherwise.
DirsInv ==
  /\ Begun => nodes \in Dir /\ up.dir \in Dir
  /\ up.pc \in {"send", "done"} => up.id \in DOMAIN platform
  /\ Running /\ ~up.switched => nodes = up.dir

\* The part of the invariant the types follow from.
TypeInv == TypeOK /\ DirsInv

\* The files there are to upload ...
There == tree[up.dir] \cup {Nodes}

\* ... those that are still in the list ...
Waiting == Range(up.files)

\* ... and those that are on the platform.
Arrived == {x[1] : x \in platform[up.id].files}

\* Where the files are that were there throughout, before the report is made.
LastingInv ==
  /\ Begun => up.lasting \subseteq There
  /\ up.pc = "json" => up.files = <<Nodes>>
  /\ up.pc = "sub" =>
       /\ up.lasting \cap ({Nodes} \cup Range(Before)) \subseteq Waiting
       /\ up.lasting \cap Range(After) \subseteq up.top \cup Range(Inside) \cup Range(Md)
  /\ up.pc = "md" => up.lasting \subseteq Waiting \cup up.dropped \cup Range(Md)
  /\ up.pc = "create" => up.lasting \subseteq Waiting \cup up.dropped

\* Where they are afterwards; a file that counts as uploaded is on the platform.
SentInv ==
  /\ up.pc \in {"json", "sub", "md", "create"} => up.uploaded = {}
  /\ up.pc = "send" =>
       (up.lasting \cap Uploadable) \ (up.dropped \cup up.garbled)
         \subseteq Arrived \cup up.failed \cup Waiting
  /\ up.pc = "done" =>
       (up.lasting \cap Uploadable) \ (up.dropped \cup up.garbled)
         \subseteq Arrived \cup up.failed
  /\ up.pc \in {"send", "done"} => up.uploaded \ up.garbled \subseteq Arrived

\* What the assumptions on the constants come to.
LEMMA Names ==
  /\ Nodes \in AnyFile \ Files
  /\ Files \subseteq AnyFile
  /\ AnyFile = Files \cup {Nodes}
  /\ Range(Before) \subseteq Files /\ Range(Inside) \subseteq Files
  /\ Range(After) \subseteq Files /\ Range(Md) \subseteq Files
  /\ Before \in Seq(Files) /\ Inside \in Seq(Files)
  /\ After \in Seq(Files) /\ Md \in Seq(Files)
  /\ MaxReports \in Nat
  BY FilesAssumption, OrderAssumption, MaxReportsAssumption DEF AnyFile, Files

\* A sequence of one element.
LEMMA RangeOfOne ==
  ASSUME NEW x
  PROVE  Range(<<x>>) = {x}
  <1>1. DOMAIN <<x>> = {1} /\ <<x>>[1] = x
    OBVIOUS
  <1> QED
    BY <1>1 DEF Range

\* A list of files may have nodes.json in it as well.
LEMMA SeqOfMore == Seq(Files) \subseteq Seq(AnyFile)
  BY Names

\* An upload that is not running has its type.
LEMMA NoUploadType == NoUpload \in Up /\ NoUpload.pc = "idle"
  <1>1. "idle" \in Command
    BY DEF Command
  <1>2. <<>> \in Seq(AnyFile)
    OBVIOUS
  <1> QED
    BY <1>1, <1>2, Names DEF NoUpload, Up

\* ReadDir lists the files that are there.
LEMMA ListedType ==
  ASSUME NEW order \in Seq(Files), NEW there
  PROVE  /\ Listed(order, there) \in Seq(AnyFile)
         /\ Range(Listed(order, there)) = Range(order) \cap there
  BY SublistProperties, SeqOfMore DEF Listed

\* Every step preserves the types, and DirsInv.
LEMMA TypeInvInductive == TypeInv /\ [Next]_vars => TypeInv'
  <1> SUFFICES ASSUME TypeInv, [Next]_vars PROVE TypeInv'
    OBVIOUS
  <1> USE Names, NoUploadType
  <1>0. TypeOK /\ DirsInv /\ up \in Up /\ platform \in Seq(Reports)
    BY DEF TypeInv, TypeOK
  <1>1. CASE MakeMd
    BY <1>0, <1>1 DEF TypeInv, TypeOK, DirsInv, MakeMd, Begun, Running
  <1>2. ASSUME NEW d \in Dir, Collect(d) PROVE TypeInv'
    <2>1. /\ up' \in Up /\ up'.pc = up.pc /\ up'.dir = up.dir /\ up'.id = up.id
          /\ Running /\ ~up'.switched => d = up.dir
      BY <1>0, <1>2 DEF Collect, Up
    <2> QED
      BY <2>1, <1>0, <1>2 DEF TypeInv, TypeOK, DirsInv, Collect, Begun, Running
  <1>3. ASSUME NEW d \in Dir, NEW f \in Files, Write(d, f) PROVE TypeInv'
    BY <1>0, <1>3 DEF TypeInv, TypeOK, DirsInv, Write, Begun, Running
  <1>4. ASSUME NEW d \in Dir, NEW f \in Files, Remove(d, f) PROVE TypeInv'
    <2>1. /\ up' \in Up /\ up'.pc = up.pc /\ up'.dir = up.dir /\ up'.id = up.id
          /\ up'.switched = up.switched
      BY <1>0, <1>4 DEF Remove, Up
    <2> QED
      BY <2>1, <1>0, <1>4 DEF TypeInv, TypeOK, DirsInv, Remove, Begun, Running
  <1>5. CASE Begin
    <2>1. CASE nodes = None
      <3>1. up' \in Up /\ up'.pc = "error"
        BY <2>1, <1>5 DEF Begin, Up, Command
      <3> QED
        BY <3>1, <1>0, <1>5 DEF TypeInv, TypeOK, DirsInv, Begin, Begun, Running
    <2>2. CASE nodes # None
      <3>0. nodes \in Dir /\ tree[nodes] \subseteq Files /\ <<Nodes>> \in Seq(AnyFile)
        BY <2>2, <1>0 DEF TypeOK
      <3>1. up' = [NoUpload EXCEPT !.pc = "json", !.dir = nodes, !.files = <<Nodes>>,
                                   !.lasting = tree[nodes] \cup {Nodes}]
        BY <2>2, <1>5 DEF Begin
      <3>2. up' \in Up /\ up'.pc = "json" /\ up'.dir = nodes
        BY <3>0, <3>1 DEF Up, Command
      <3> QED
        BY <3>0, <3>2, <1>0, <1>5 DEF TypeInv, TypeOK, DirsInv, Begin, Begun, Running
    <2> QED
      BY <2>1, <2>2
  <1> DEFINE Same(pc) == /\ up' \in Up /\ up'.pc = pc /\ up'.dir = up.dir /\ up'.id = up.id
                         /\ up'.switched = up.switched
  <1>6. CASE ScanJson
    <2>1. up.dir \in Dir /\ tree[up.dir] \subseteq Files /\ up.files \in Seq(AnyFile)
      BY <1>0, <1>6 DEF TypeOK, DirsInv, ScanJson, Begun, Up
    <2>2. up.files \o Listed(Before, tree[up.dir]) \in Seq(AnyFile)
      BY <2>1, ListedType
    <2> DEFINE list == up.files \o Listed(Before, tree[up.dir])
               top == tree[up.dir] \ (Range(Inside) \cup Range(Md))
    <2>a. up' = [up EXCEPT !.pc = "sub", !.top = top, !.files = list]
      BY <1>6 DEF ScanJson
    <2>b. top \subseteq Files
      BY <2>1
    <2> HIDE DEF list, top
    <2>3. Same("sub")
      BY <2>2, <2>a, <2>b, <1>0, ZenonT(60) DEF Up, Command, list
    <2> QED
      BY <2>3, <1>0, <1>6 DEF TypeInv, TypeOK, DirsInv, ScanJson, Begun, Running
  <1>7. CASE ScanSub
    <2>1. up.files \in Seq(AnyFile)
      BY <1>0 DEF Up
    <2>2. up.files \o Listed(Inside, tree[up.dir]) \o Listed(After, up.top) \in Seq(AnyFile)
      BY <2>1, ListedType
    <2> DEFINE list == up.files \o Listed(Inside, tree[up.dir]) \o Listed(After, up.top)
    <2>a. up' = [up EXCEPT !.pc = "md", !.files = list] /\ list \in Seq(AnyFile)
      BY <2>2, <1>7 DEF ScanSub
    <2> HIDE DEF list
    <2>3. Same("md")
      BY <2>a, <1>0, ZenonT(60) DEF Up, Command
    <2> QED
      BY <2>3, <1>0, <1>7 DEF TypeInv, TypeOK, DirsInv, ScanSub, Begun, Running
  <1>8. CASE ScanSubFails
    <2>1. Range(up.files) \in SUBSET AnyFile
      BY <1>0, RangeOfSeq DEF Up
    <2> DEFINE list == Listed(After, up.top)
               dropped == Range(up.files) \cup Range(Inside)
    <2>a. /\ up' = [up EXCEPT !.pc = "md", !.files = list, !.dropped = dropped]
          /\ list \in Seq(AnyFile) /\ dropped \in SUBSET AnyFile
      BY <2>1, <1>8, ListedType DEF ScanSubFails
    <2> HIDE DEF list, dropped
    <2>2. Same("md")
      BY <2>a, <1>0, ZenonT(60) DEF Up, Command
    <2> QED
      BY <2>2, <1>0, <1>8 DEF TypeInv, TypeOK, DirsInv, ScanSubFails, Begun, Running
  <1>9. CASE ScanMd
    <2>1. up.files \in Seq(AnyFile)
      BY <1>0 DEF Up
    <2>2. up.files \o Listed(Md, tree[up.dir]) \in Seq(AnyFile)
      BY <2>1, ListedType
    <2> DEFINE list == up.files \o Listed(Md, tree[up.dir])
    <2>a. /\ \/ up' = [up EXCEPT !.pc = "create", !.files = list]
             \/ up' = [up EXCEPT !.pc = "error"]
          /\ list \in Seq(AnyFile)
      BY <2>2, <1>9 DEF ScanMd
    <2> HIDE DEF list
    <2>b. ASSUME up' = [up EXCEPT !.pc = "create", !.files = list] PROVE Same("create")
      BY <2>a, <2>b, <1>0, ZenonT(60) DEF Up, Command
    <2>c. ASSUME up' = [up EXCEPT !.pc = "error"] PROVE Same("error")
      BY <2>c, <1>0, ZenonT(60) DEF Up, Command
    <2>3. Same("create") \/ Same("error")
      BY <2>a, <2>b, <2>c
    <2> QED
      BY <2>3, <1>0, <1>9 DEF TypeInv, TypeOK, DirsInv, ScanMd, Begun, Running
  <1>10. ASSUME NEW o \in Outcome, Create(o) PROVE TypeInv'
    <2>1. up.pc = "create" /\ up.dir \in Dir /\ ReportOf(up.dir) \in Reports
          /\ ReportOf(up.dir).dir = up.dir /\ Len(platform) \in Nat /\ Len(platform) < MaxReports
      BY <1>0, <1>10 DEF Create, DirsInv, Begun, ReportOf, Reports
    <2> DEFINE longer == Append(platform, ReportOf(up.dir))
    <2>2. /\ longer \in Seq(Reports) /\ Len(longer) = Len(platform) + 1
          /\ longer[Len(platform) + 1] = ReportOf(up.dir)
      BY <2>1, <1>0, AppendProperties
    <2>3. platform' = longer \/ platform' = platform
      BY <1>10 DEF Create
    <2>4. /\ up' \in Up /\ up'.dir = up.dir /\ up'.switched = up.switched
          /\ \/ up'.pc = "send" /\ platform' = longer /\ up'.id = Len(platform) + 1
             \/ up'.pc = "error"
      <3>1. CASE o.answer = "ok"
        <4>1. o.done
          BY <3>1 DEF Outcome
        <4>2. platform' = longer /\ up' = [up EXCEPT !.pc = "send", !.id = Len(platform) + 1]
          BY <3>1, <4>1, <1>10 DEF Create
        <4>3. Len(platform) + 1 \in 0 .. MaxReports
          BY <2>1
        <4> QED
          BY <4>2, <4>3, <1>0, ZenonT(60) DEF Up, Command
      <3>2. CASE o.answer # "ok"
        <4>1. up' = [up EXCEPT !.pc = "error"]
          BY <3>2, <1>10 DEF Create
        <4> QED
          BY <4>1, <1>0, ZenonT(60) DEF Up, Command
      <3> QED
        BY <3>1, <3>2
    <2> HIDE DEF longer
    <2>5. platform' \in Seq(Reports) /\ Len(platform') <= MaxReports
      BY <2>1, <2>2, <2>3, <1>0 DEF TypeOK
    <2>6. up'.pc = "send" => up'.id \in DOMAIN platform' /\ platform'[up'.id].dir = up.dir
      BY <2>1, <2>2, <2>4
    <2> QED
      BY <2>1, <2>4, <2>5, <2>6, <1>0, <1>10
      DEF TypeInv, TypeOK, DirsInv, Create, Begun, Running
  <1>11. ASSUME up.pc = "send", up.files # <<>>, up' = Rest
         PROVE  Same("send")
    BY <1>0, <1>11, HeadTailProperties DEF Rest, Up
  <1>12. ASSUME up.pc = "send", up.files # <<>> PROVE Next1 \in AnyFile
    BY <1>0, <1>12, HeadTailProperties DEF Next1, Up
  <1>13. CASE SkipType
    <2>1. Same("send")
      BY <1>11, <1>13 DEF SkipType
    <2> QED
      BY <2>1, <1>0, <1>13 DEF TypeInv, TypeOK, DirsInv, SkipType, Begun, Running
  <1>14. CASE ReadFails
    <2>1. Rest \in Up /\ Rest.pc = "send" /\ Rest.dir = up.dir /\ Rest.id = up.id
          /\ Rest.switched = up.switched
      BY <1>0, <1>14, HeadTailProperties DEF Rest, Up, ReadFails
    <2> DEFINE rest == Rest  x == Next1
    <2>a. up' = [rest EXCEPT !.failed = @ \cup {x}] /\ x \in AnyFile
      BY <1>12, <1>14 DEF ReadFails
    <2>b. rest \in Up /\ rest.pc = "send" /\ rest.dir = up.dir /\ rest.id = up.id
          /\ rest.switched = up.switched
      BY <2>1
    <2> HIDE DEF rest, x
    <2>2. Same("send")
      BY <2>a, <2>b, ZenonT(60) DEF Up
    <2> QED
      BY <2>2, <1>0, <1>14 DEF TypeInv, TypeOK, DirsInv, ReadFails, Begun, Running
  <1>15. ASSUME NEW o \in Outcome, Post(o) PROVE TypeInv'
    <2>0. up.pc = "send" /\ up.files # <<>> /\ nodes \in Dir /\ up.dir \in Dir
          /\ up.id \in DOMAIN platform /\ Next1 \in AnyFile
      BY <1>0, <1>12, <1>15 DEF Post, DirsInv, Begun
    <2>1. Rest \in Up /\ Rest.pc = "send" /\ Rest.dir = up.dir /\ Rest.id = up.id
          /\ Rest.switched = up.switched
      BY <2>0, <1>0, HeadTailProperties DEF Rest, Up
    <2>2. Same("send")
      <3> DEFINE rest == Rest  x == Next1
      <3>1. \/ up' = [rest EXCEPT !.failed = @ \cup {x}]
            \/ up' = [rest EXCEPT !.uploaded = @ \cup {x}, !.garbled = @ \cup {x}]
            \/ up' = [rest EXCEPT !.uploaded = @ \cup {x}]
        <4>1. \A u : [u EXCEPT !.uploaded = @ \cup {x}, !.garbled = @]
                       = [u EXCEPT !.uploaded = @ \cup {x}]
          OBVIOUS
        <4> HIDE DEF x
        <4>2. up' = Posted(o)
          BY <1>15 DEF Post
        <4> QED
          BY <4>1, <4>2 DEF Posted, x
      <3>2. rest \in Up /\ rest.pc = "send" /\ rest.dir = up.dir /\ rest.id = up.id
            /\ rest.switched = up.switched /\ x \in AnyFile
        BY <2>0, <2>1
      <3> HIDE DEF rest, x
      <3>3. CASE up' = [rest EXCEPT !.failed = @ \cup {x}]
        BY <3>2, <3>3, ZenonT(60) DEF Up
      <3>4. CASE up' = [rest EXCEPT !.uploaded = @ \cup {x}, !.garbled = @ \cup {x}]
        BY <3>2, <3>4, ZenonT(60) DEF Up
      <3>5. CASE up' = [rest EXCEPT !.uploaded = @ \cup {x}]
        BY <3>2, <3>5, ZenonT(60) DEF Up
      <3> QED
        BY <3>1, <3>3, <3>4, <3>5
    <2> DEFINE content == <<Next1, IF Next1 = Nodes THEN nodes ELSE up.dir>>
               old == platform[up.id]
    <2>3. content \in AnyFile \X Dir /\ old \in Reports
      BY <2>0, <1>0
    <2> DEFINE new == [old EXCEPT !.files = @ \cup {content}]
    <2>4. new \in Reports /\ new.dir = old.dir
      BY <2>3 DEF Reports
    <2>5. platform' = platform \/ platform' = [platform EXCEPT ![up.id] = new]
      BY <1>15 DEF Post
    <2> HIDE DEF new, content, old
    <2>6. /\ platform' \in Seq(Reports) /\ DOMAIN platform' = DOMAIN platform
          /\ Len(platform') = Len(platform)
          /\ platform'[up.id].dir = platform[up.id].dir
      <3>1. CASE platform' = platform
        BY <3>1, <1>0
      <3>2. CASE platform' = [platform EXCEPT ![up.id] = new]
        <4>1. platform' \in Seq(Reports) /\ Len(platform') = Len(platform)
          BY <3>2, <2>0, <2>4, <1>0, ExceptSeq
        <4>2. platform'[up.id] = new /\ DOMAIN platform' = DOMAIN platform
          BY <3>2, <2>0
        <4> QED
          BY <4>1, <4>2, <2>4 DEF old
      <3> QED
        BY <2>5, <3>1, <3>2
    <2> QED
      BY <2>0, <2>2, <2>6, <1>0, <1>15 DEF TypeInv, TypeOK, DirsInv, Post, Begun, Running
  <1>16. CASE End
    <2>1. Same("done")
      BY <1>0, <1>16 DEF End, Up, Command
    <2> QED
      BY <2>1, <1>0, <1>16 DEF TypeInv, TypeOK, DirsInv, End, Begun, Running
  <1>17. CASE Die
    BY <1>0, <1>17 DEF TypeInv, TypeOK, DirsInv, Die, Begun, Running
  <1>18. CASE UNCHANGED vars
    BY <1>0, <1>18 DEF TypeInv, TypeOK, DirsInv, vars, Begun, Running
  <1> QED
    BY <1>1, <1>2, <1>3, <1>4, <1>5, <1>6, <1>7, <1>8, <1>9, <1>10, <1>13, <1>14, <1>15,
       <1>16, <1>17, <1>18
    DEF Next, Others, UploadReport

\* The types and DirsInv hold initially.
LEMMA TypeInvInit == Init => TypeInv
  <1> SUFFICES ASSUME Init PROVE TypeInv
    OBVIOUS
  <1>1. up = NoUpload /\ up \in Up /\ up.pc = "idle" /\ platform = <<>>
    BY NoUploadType DEF Init
  <1>2. platform \in Seq(Reports) /\ Len(platform) <= MaxReports
    BY <1>1, Names
  <1> QED
    BY <1>1, <1>2 DEF Init, TypeInv, TypeOK, DirsInv, Begun, Running

\* Every variable has its type in every behaviour, and files are sent to a
\* report of the platform that was made for the epoch of the upload
\* (CreateReport).
THEOREM TypeCorrect == Spec => []TypeOK
  <1>1. TypeInv => TypeOK
    BY DEF TypeInv
  <1> QED
    BY <1>1, TypeInvInit, TypeInvInductive, PTL DEF Spec

\* What CreateReport leaves on the platform: at most one report more, an empty
\* one of the epoch of the upload.
LEMMA CreateEffect ==
  ASSUME TypeInv, NEW o \in Outcome, Create(o)
  PROVE  /\ up' = [up EXCEPT !.pc = "error"]
            \/ /\ up' = [up EXCEPT !.pc = "send", !.id = Len(platform) + 1]
               /\ platform'[Len(platform) + 1] = ReportOf(up.dir)
         /\ \A i \in DOMAIN platform' :
              platform'[i] = ReportOf(up.dir) \/ (i \in DOMAIN platform /\ platform'[i] = platform[i])
  <1>1. platform \in Seq(Reports) /\ ReportOf(up.dir) \in Reports
    BY DEF TypeInv, TypeOK, DirsInv, Create, Begun, ReportOf, Reports
  <1> DEFINE longer == Append(platform, ReportOf(up.dir))
  <1>2. /\ DOMAIN longer = 1 .. Len(platform) + 1 /\ DOMAIN platform = 1 .. Len(platform)
        /\ longer[Len(platform) + 1] = ReportOf(up.dir)
        /\ \A i \in 1 .. Len(platform) : longer[i] = platform[i]
        /\ Len(platform) \in Nat
    BY <1>1, AppendProperties
  <1>3. platform' = longer \/ platform' = platform
    BY DEF Create
  <1>4. o.answer = "ok" => platform' = longer
    BY DEF Create, Outcome
  <1> HIDE DEF longer
  <1>5. \A i \in DOMAIN platform' :
          platform'[i] = ReportOf(up.dir) \/ (i \in DOMAIN platform /\ platform'[i] = platform[i])
    <2>1. CASE platform' = longer
      <3> SUFFICES ASSUME NEW i \in DOMAIN longer
                   PROVE  \/ longer[i] = ReportOf(up.dir)
                          \/ i \in DOMAIN platform /\ longer[i] = platform[i]
        BY <2>1
      <3>1. i = Len(platform) + 1 \/ i \in 1 .. Len(platform)
        BY <1>2
      <3> QED
        BY <3>1, <1>2
    <2>2. CASE platform' = platform
      BY <2>2
    <2> QED
      BY <1>3, <2>1, <2>2
  <1>6. CASE o.answer = "ok"
    BY <1>2, <1>4, <1>5, <1>6 DEF Create
  <1>7. CASE o.answer # "ok"
    BY <1>5, <1>7 DEF Create
  <1> QED
    BY <1>6, <1>7

\* What UploadReportFile leaves on the platform: at most one file more, in the
\* report of the upload.
LEMMA PostEffect ==
  ASSUME TypeInv, NEW o \in Outcome, Post(o)
  PROVE  /\ DOMAIN platform' = DOMAIN platform /\ up.id \in DOMAIN platform
         /\ \A i \in DOMAIN platform : i # up.id => platform'[i] = platform[i]
         /\ platform'[up.id].dir = platform[up.id].dir /\ platform[up.id].dir = up.dir
         /\ platform'[up.id].files = IF o.done THEN platform[up.id].files
                 \cup {<<Next1, IF Next1 = Nodes THEN nodes ELSE up.dir>>}
               ELSE platform[up.id].files
  <1>1. platform \in Seq(Reports) /\ up.id \in DOMAIN platform /\ platform[up.id].dir = up.dir
    BY DEF TypeInv, TypeOK, Post
  <1> DEFINE content == <<Next1, IF Next1 = Nodes THEN nodes ELSE up.dir>>
             new == [platform[up.id] EXCEPT !.files = @ \cup {content}]
  <1>2. platform[up.id] \in Reports
    BY <1>1
  <1>3. new.dir = platform[up.id].dir /\ new.files = platform[up.id].files \cup {content}
    BY <1>2 DEF Reports
  <1>4. IF o.done THEN platform' = [platform EXCEPT ![up.id] = new] ELSE platform' = platform
    BY DEF Post
  <1> HIDE DEF content, new
  <1> QED
    BY <1>1, <1>3, <1>4 DEF content

\* What the reports on the platform consist of.
Epochs == OneEpoch /\ NodesAgree

\* Every step preserves Epochs: only CreateReport and UploadReportFile change a
\* report.
LEMMA EpochsInductive ==
  ASSUME TypeInv, TypeInv', Epochs, [Next]_vars
  PROVE  Epochs'
  <1> USE Names, NoUploadType
  <1>0. up \in Up /\ up' \in Up
    BY DEF TypeInv, TypeOK
  <1>1. ASSUME UNCHANGED platform,
               up'.pc = "send" /\ ~up'.switched =>
                 up.pc = "send" /\ ~up.switched /\ up'.id = up.id /\ up'.dir = up.dir
        PROVE  Epochs'
    BY <1>1 DEF Epochs, OneEpoch, NodesAgree
  <1>2. CASE MakeMd
    BY <1>1, <1>2 DEF MakeMd
  <1>3. ASSUME NEW d \in Dir, Collect(d) PROVE Epochs'
    BY <1>0, <1>1, <1>3 DEF Collect, Up
  <1>4. ASSUME NEW d \in Dir, NEW f \in Files, Write(d, f) PROVE Epochs'
    BY <1>1, <1>4 DEF Write
  <1>5. ASSUME NEW d \in Dir, NEW f \in Files, Remove(d, f) PROVE Epochs'
    BY <1>0, <1>1, <1>5 DEF Remove, Up
  <1>6. CASE Begin
    BY <1>0, <1>1, <1>6 DEF Begin, NoUpload
  <1>7. CASE ScanJson
    BY <1>0, <1>1, <1>7 DEF ScanJson, Up
  <1>8. CASE ScanSub
    BY <1>0, <1>1, <1>8 DEF ScanSub, Up
  <1>9. CASE ScanSubFails
    BY <1>0, <1>1, <1>9 DEF ScanSubFails, Up
  <1>10. CASE ScanMd
    BY <1>0, <1>1, <1>10 DEF ScanMd, Up
  <1>11. ASSUME NEW o \in Outcome, Create(o) PROVE Epochs'
    <2>1. OneEpoch'
      BY <1>11, CreateEffect DEF Epochs, OneEpoch, ReportOf
    <2>2. NodesAgree'
      <3>1. CASE up' = [up EXCEPT !.pc = "error"]
        BY <3>1, <1>0 DEF NodesAgree, Up
      <3>2. CASE /\ up' = [up EXCEPT !.pc = "send", !.id = Len(platform) + 1]
                 /\ platform'[Len(platform) + 1] = ReportOf(up.dir)
        <4>1. up'.id = Len(platform) + 1
          BY <3>2, <1>0 DEF Up
        <4>2. platform'[up'.id].files = {}
          BY <3>2, <4>1 DEF ReportOf
        <4> QED
          BY <4>2 DEF NodesAgree
      <3> QED
        BY <3>1, <3>2, <1>11, CreateEffect
    <2> QED
      BY <2>1, <2>2 DEF Epochs
  <1>12. CASE SkipType
    BY <1>0, <1>1, <1>12 DEF SkipType, Rest, Up
  <1>13. CASE ReadFails
    BY <1>0, <1>1, <1>13 DEF ReadFails, Rest, Up
  <1>14. ASSUME NEW o \in Outcome, Post(o) PROVE Epochs'
    <2>1. OneEpoch'
      <3> DEFINE new == <<Next1, IF Next1 = Nodes THEN nodes ELSE up.dir>>
      <3>1. new[1] # Nodes => new[2] = up.dir
        OBVIOUS
      <3>2. /\ DOMAIN platform' = DOMAIN platform
            /\ \A i \in DOMAIN platform : i # up.id => platform'[i] = platform[i]
            /\ platform'[up.id].dir = platform[up.id].dir /\ platform[up.id].dir = up.dir
            /\ \A x \in platform'[up.id].files : x \in platform[up.id].files \/ x = new
        BY <1>14, PostEffect
      <3> HIDE DEF new
      <3>3. \A i \in DOMAIN platform :
              \A x \in platform[i].files : x[1] # Nodes => x[2] = platform[i].dir
        BY DEF Epochs, OneEpoch
      <3> SUFFICES ASSUME NEW i \in DOMAIN platform, NEW x \in platform'[i].files, x[1] # Nodes
                   PROVE  x[2] = platform'[i].dir
        BY <3>2 DEF OneEpoch
      <3>4. CASE i = up.id
        BY <3>1, <3>2, <3>3, <3>4
      <3>5. CASE i # up.id
        BY <3>2, <3>3, <3>5
      <3> QED
        BY <3>4, <3>5
    <2>2. /\ up.pc = "send" /\ up'.id = up.id /\ up'.dir = up.dir
          /\ up'.switched = up.switched
      BY <1>0, <1>14 DEF Post, Posted, Rest, Up
    <2>3. ~up.switched => nodes = up.dir
      BY <2>2 DEF TypeInv, DirsInv, Running
    <2>4. NodesAgree'
      BY <2>2, <2>3, <1>14, PostEffect DEF Epochs, NodesAgree
    <2> QED
      BY <2>1, <2>4 DEF Epochs
  <1>15. CASE End
    BY <1>0, <1>1, <1>15 DEF End, Up
  <1>16. CASE Die
    BY <1>0, <1>1, <1>16 DEF Die
  <1>17. CASE UNCHANGED vars
    BY <1>1, <1>17 DEF vars
  <1> QED
    BY <1>2, <1>3, <1>4, <1>5, <1>6, <1>7, <1>8, <1>9, <1>10, <1>11, <1>12, <1>13, <1>14,
       <1>15, <1>16, <1>17
    DEF Next, Others, UploadReport

\* Every step preserves LastingInv: each listing finds the files it is
\* responsible for, because they have been there all the time.
LEMMA LastingInductive ==
  ASSUME TypeInv, TypeInv', LastingInv, [Next]_vars
  PROVE  LastingInv'
  <1> USE Names, NoUploadType
  <1>0. up \in Up /\ up' \in Up /\ tree \in [Dir -> SUBSET Files]
        /\ (Begun => up.dir \in Dir)
    BY DEF TypeInv, TypeOK, DirsInv
  <1>1. CASE MakeMd
    BY <1>1 DEF MakeMd, LastingInv, Begun, There, Waiting
  <1>2. ASSUME NEW d \in Dir, Collect(d) PROVE LastingInv'
    <2>1. /\ up'.pc = up.pc /\ up'.dir = up.dir /\ up'.lasting = up.lasting
          /\ up'.files = up.files /\ up'.top = up.top /\ up'.dropped = up.dropped
          /\ UNCHANGED tree
      BY <1>0, <1>2 DEF Collect, Up
    <2> QED
      BY <2>1 DEF LastingInv, Begun, There, Waiting
  <1>3. ASSUME NEW d \in Dir, NEW f \in Files, Write(d, f) PROVE LastingInv'
    <2>1. UNCHANGED up
      BY <1>3 DEF Write
    <2>2. Begun => tree[up.dir] \subseteq tree'[up.dir]
      BY <1>0, <1>3 DEF Write
    <2> QED
      BY <2>1, <2>2 DEF LastingInv, Begun, There, Waiting
  <1>4. ASSUME NEW d \in Dir, NEW f \in Files, Remove(d, f) PROVE LastingInv'
    <2>1. /\ up'.pc = up.pc /\ up'.dir = up.dir
          /\ up'.files = up.files /\ up'.top = up.top /\ up'.dropped = up.dropped
          /\ up'.lasting = IF d = up.dir THEN up.lasting \ {f} ELSE up.lasting
      BY <1>0, <1>4 DEF Remove, Up
    <2>2. /\ Begun /\ d = up.dir => tree'[up.dir] = tree[up.dir] \ {f}
          /\ Begun /\ d # up.dir => tree'[up.dir] = tree[up.dir]
      BY <1>0, <1>4 DEF Remove
    <2> QED
      BY <2>1, <2>2 DEF LastingInv, Begun, There, Waiting
  <1>5. CASE Begin
    <2>1. CASE nodes = None
      BY <2>1, <1>5 DEF Begin, NoUpload, LastingInv, Begun
    <2>2. CASE nodes # None
      BY <2>2, <1>5 DEF Begin, NoUpload, LastingInv, Begun, There
    <2> QED
      BY <2>1, <2>2
  <1>6. CASE ScanJson
    <2> DEFINE found == Listed(Before, tree[up.dir])
    <2>1. found \in Seq(AnyFile) /\ Range(found) = Range(Before) \cap tree[up.dir]
      BY ListedType
    <2>2. Range(up.files) = {Nodes}
      BY <1>6, RangeOfOne DEF ScanJson, LastingInv
    <2>a. up.files \in Seq(AnyFile)
      BY <1>0 DEF Up
    <2> HIDE DEF found
    <2>3. Range(up.files \o found) = Range(up.files) \cup Range(found)
      BY <2>1, <2>a, RangeConcatenation
    <2>4. /\ up.pc = "json" /\ up'.pc = "sub" /\ up'.dir = up.dir /\ up'.lasting = up.lasting
          /\ up'.files = up.files \o found
          /\ up'.top = tree[up.dir] \ (Range(Inside) \cup Range(Md)) /\ UNCHANGED tree
      BY <1>0, <1>6 DEF ScanJson, Up, found
    <2>5. up.lasting \subseteq There
      BY <2>4 DEF LastingInv, Begun
    <2> QED
      BY <2>1, <2>2, <2>3, <2>4, <2>5 DEF LastingInv, Begun, There, Waiting
  <1>7. CASE ScanSub
    <2> DEFINE inside == Listed(Inside, tree[up.dir])  after == Listed(After, up.top)
    <2>1. /\ inside \in Seq(AnyFile) /\ Range(inside) = Range(Inside) \cap tree[up.dir]
          /\ after \in Seq(AnyFile) /\ Range(after) = Range(After) \cap up.top
          /\ up.files \in Seq(AnyFile)
      BY <1>0, ListedType DEF Up
    <2> HIDE DEF inside, after
    <2>2. up.files \o inside \in Seq(AnyFile)
      BY <2>1
    <2>3. Range(up.files \o inside \o after)
            = Range(up.files) \cup Range(inside) \cup Range(after)
      <3>1. Range(up.files \o inside) = Range(up.files) \cup Range(inside)
        BY <2>1, RangeConcatenation
      <3> DEFINE both == up.files \o inside
      <3>2. both \in Seq(AnyFile) /\ after \in Seq(AnyFile)
        BY <2>1, <2>2
      <3> HIDE DEF both
      <3>3. Range(both \o after) = Range(both) \cup Range(after)
        BY <3>2, RangeConcatenation
      <3> QED
        BY <3>1, <3>3 DEF both
    <2>4. /\ up.pc = "sub" /\ up'.pc = "md" /\ up'.dir = up.dir /\ up'.lasting = up.lasting
          /\ up'.files = up.files \o inside \o after /\ up'.top = up.top /\ UNCHANGED tree
      BY <1>0, <1>7 DEF ScanSub, Up, inside, after
    <2>5. /\ up.lasting \subseteq There /\ up.lasting \subseteq AnyFile
          /\ up.lasting \cap ({Nodes} \cup Range(Before)) \subseteq Waiting
          /\ up.lasting \cap Range(After) \subseteq up.top \cup Range(Inside) \cup Range(Md)
      BY <2>4, <1>0 DEF LastingInv, Begun, Up
    <2>6. up.lasting \subseteq Range(up.files \o inside \o after) \cup Range(Md)
      BY <2>1, <2>3, <2>5 DEF There, Waiting, AnyFile, Files
    <2> QED
      BY <2>4, <2>5, <2>6 DEF LastingInv, Begun, There, Waiting
  <1>8. CASE ScanSubFails
    <2> DEFINE after == Listed(After, up.top)
    <2>1. Range(after) = Range(After) \cap up.top
      BY ListedType
    <2> HIDE DEF after
    <2>4. /\ up.pc = "sub" /\ up'.pc = "md" /\ up'.dir = up.dir /\ up'.lasting = up.lasting
          /\ up'.files = after /\ up'.dropped = Range(up.files) \cup Range(Inside)
          /\ UNCHANGED tree
      BY <1>0, <1>8 DEF ScanSubFails, Up, after
    <2>5. /\ up.lasting \subseteq There /\ up.lasting \subseteq AnyFile
          /\ up.lasting \cap ({Nodes} \cup Range(Before)) \subseteq Waiting
          /\ up.lasting \cap Range(After) \subseteq up.top \cup Range(Inside) \cup Range(Md)
      BY <2>4, <1>0 DEF LastingInv, Begun, Up
    <2>6. up.lasting \subseteq Range(after) \cup up'.dropped \cup Range(Md)
      BY <2>1, <2>4, <2>5 DEF There, Waiting, AnyFile, Files
    <2> QED
      BY <2>4, <2>5, <2>6 DEF LastingInv, Begun, There, Waiting
  <1>9. CASE ScanMd
    <2>1. CASE up.dir \in mds
      <3> DEFINE found == Listed(Md, tree[up.dir])
      <3>1. /\ found \in Seq(AnyFile) /\ Range(found) = Range(Md) \cap tree[up.dir]
            /\ up.files \in Seq(AnyFile)
        BY <1>0, ListedType DEF Up
      <3>2. Range(up.files \o found) = Range(up.files) \cup Range(found)
        BY <3>1, RangeConcatenation
      <3> HIDE DEF found
      <3>3. /\ up.pc = "md" /\ up'.pc = "create" /\ up'.dir = up.dir
            /\ up'.lasting = up.lasting /\ up'.files = up.files \o found
            /\ up'.dropped = up.dropped /\ UNCHANGED tree
        BY <2>1, <1>0, <1>9 DEF ScanMd, Up, found
      <3>4. up.lasting \subseteq There /\ up.lasting \subseteq Waiting \cup up.dropped \cup Range(Md)
        BY <3>3 DEF LastingInv, Begun
      <3>5. Nodes \notin Range(Md)
        OBVIOUS
      <3> QED
        BY <3>1, <3>2, <3>3, <3>4, <3>5 DEF LastingInv, Begun, There, Waiting
    <2>2. CASE up.dir \notin mds
      BY <2>2, <1>0, <1>9 DEF ScanMd, Up, LastingInv, Begun
    <2> QED
      BY <2>1, <2>2
  <1>10. ASSUME NEW o \in Outcome, Create(o) PROVE LastingInv'
    <2>1. /\ up.pc = "create" /\ up'.pc \in {"send", "error"} /\ up'.dir = up.dir
          /\ up'.lasting = up.lasting /\ UNCHANGED tree
      BY <1>0, <1>10 DEF Create, Up
    <2> QED
      BY <2>1 DEF LastingInv, Begun, There
  <1>11. ASSUME up.pc = "send", up'.pc \in {"send", "done"}, up'.dir = up.dir,
                up'.lasting = up.lasting, UNCHANGED tree
         PROVE  LastingInv'
    BY <1>11 DEF LastingInv, Begun, There
  <1>12. CASE SkipType
    BY <1>0, <1>11, <1>12 DEF SkipType, Rest, Up
  <1>13. CASE ReadFails
    BY <1>0, <1>11, <1>13 DEF ReadFails, Rest, Up
  <1>14. ASSUME NEW o \in Outcome, Post(o) PROVE LastingInv'
    BY <1>0, <1>11, <1>14 DEF Post, Posted, Rest, Up
  <1>15. CASE End
    BY <1>0, <1>11, <1>15 DEF End, Up
  <1>16. CASE Die
    BY <1>16 DEF Die, LastingInv, Begun
  <1>17. CASE UNCHANGED vars
    BY <1>17 DEF vars, LastingInv, Begun, There, Waiting
  <1> QED
    BY <1>1, <1>2, <1>3, <1>4, <1>5, <1>6, <1>7, <1>8, <1>9, <1>10, <1>12, <1>13, <1>14,
       <1>15, <1>16, <1>17
    DEF Next, Others, UploadReport

\* Every step preserves SentInv.
LEMMA SentInductive ==
  ASSUME TypeInv, TypeInv', LastingInv, SentInv, [Next]_vars
  PROVE  SentInv'
  <1> USE Names, NoUploadType
  <1>0. up \in Up /\ up' \in Up
    BY DEF TypeInv, TypeOK
  <1>1. CASE MakeMd
    BY <1>1 DEF MakeMd, SentInv, Arrived, Waiting
  <1>2. ASSUME NEW d \in Dir, Collect(d) PROVE SentInv'
    <2>1. /\ up'.pc = up.pc /\ up'.lasting = up.lasting /\ up'.id = up.id
          /\ up'.files = up.files /\ up'.dropped = up.dropped /\ up'.garbled = up.garbled
          /\ up'.uploaded = up.uploaded /\ up'.failed = up.failed /\ UNCHANGED platform
      BY <1>0, <1>2 DEF Collect, Up
    <2> QED
      BY <2>1 DEF SentInv, Arrived, Waiting
  <1>3. ASSUME NEW d \in Dir, NEW f \in Files, Write(d, f) PROVE SentInv'
    BY <1>3 DEF Write, SentInv, Arrived, Waiting
  <1>4. ASSUME NEW d \in Dir, NEW f \in Files, Remove(d, f) PROVE SentInv'
    <2>1. /\ up'.pc = up.pc /\ up'.lasting \subseteq up.lasting /\ up'.id = up.id
          /\ up'.files = up.files /\ up'.dropped = up.dropped /\ up'.garbled = up.garbled
          /\ up'.uploaded = up.uploaded /\ up'.failed = up.failed /\ UNCHANGED platform
      BY <1>0, <1>4 DEF Remove, Up
    <2> QED
      BY <2>1 DEF SentInv, Arrived, Waiting
  <1>5. CASE Begin
    BY <1>0, <1>5 DEF Begin, NoUpload, SentInv
  <1>6. ASSUME up.pc \in {"json", "sub", "md"}, up'.pc \in {"sub", "md", "create", "error"},
               up'.uploaded = up.uploaded
        PROVE  SentInv'
    BY <1>6 DEF SentInv
  <1>7. CASE ScanJson
    BY <1>0, <1>6, <1>7 DEF ScanJson, Up
  <1>8. CASE ScanSub
    BY <1>0, <1>6, <1>8 DEF ScanSub, Up
  <1>9. CASE ScanSubFails
    BY <1>0, <1>6, <1>9 DEF ScanSubFails, Up
  <1>10. CASE ScanMd
    BY <1>0, <1>6, <1>10 DEF ScanMd, Up
  <1>11. ASSUME NEW o \in Outcome, Create(o) PROVE SentInv'
    <2>1. /\ up.pc = "create" /\ up'.pc \in {"send", "error"}
          /\ up'.lasting = up.lasting /\ up'.files = up.files /\ up'.dropped = up.dropped
          /\ up'.uploaded = up.uploaded
      BY <1>0, <1>11 DEF Create, Up
    <2>2. up.uploaded = {} /\ up.lasting \subseteq Waiting \cup up.dropped
      BY <2>1 DEF SentInv, LastingInv
    <2> QED
      BY <2>1, <2>2 DEF SentInv, Waiting
  <1>12. ASSUME up.pc = "send", up.files # <<>>
         PROVE  Waiting = {Next1} \cup Range(Tail(up.files))
    <2>1. up.files \in Seq(AnyFile)
      BY <1>0 DEF Up
    <2>2. /\ Head(up.files) \in AnyFile /\ Tail(up.files) \in Seq(AnyFile)
          /\ up.files = <<Head(up.files)>> \o Tail(up.files)
      BY <2>1, <1>12, HeadTailProperties
    <2> DEFINE head == Head(up.files)  tail == Tail(up.files)
    <2>3. Range(<<head>>) = {head} /\ <<head>> \in Seq(AnyFile)
      BY <2>2, RangeOfOne
    <2> HIDE DEF head, tail
    <2>4. Range(<<head>> \o tail) = Range(<<head>>) \cup Range(tail)
      <3> DEFINE one == <<head>>
      <3>1. one \in Seq(AnyFile) /\ tail \in Seq(AnyFile)
        BY <2>2, <2>3 DEF tail
      <3> HIDE DEF one
      <3>2. Range(one \o tail) = Range(one) \cup Range(tail)
        BY <3>1, RangeConcatenation
      <3> QED
        BY <3>2 DEF one
    <2> QED
      BY <2>2, <2>3, <2>4 DEF Waiting, Next1, head, tail
  <1>13. CASE SkipType
    <2>1. /\ up.pc = "send" /\ up.files # <<>> /\ Next1 \notin Uploadable /\ up' = Rest
      BY <1>13 DEF SkipType
    <2>2. /\ up'.pc = "send" /\ up'.lasting = up.lasting /\ up'.id = up.id
          /\ up'.files = Tail(up.files) /\ up'.dropped = up.dropped
          /\ up'.garbled = up.garbled /\ up'.uploaded = up.uploaded
          /\ up'.failed = up.failed /\ UNCHANGED platform
      BY <2>1, <1>0, <1>13 DEF SkipType, Rest, Up
    <2> QED
      BY <2>1, <2>2, <1>12 DEF SentInv, Arrived, Waiting
  <1>14. CASE ReadFails
    <2>1. /\ up.pc = "send" /\ up.files # <<>>
      BY <1>14 DEF ReadFails
    <2>2. /\ up'.pc = "send" /\ up'.lasting = up.lasting /\ up'.id = up.id
          /\ up'.files = Tail(up.files) /\ up'.dropped = up.dropped
          /\ up'.garbled = up.garbled /\ up'.uploaded = up.uploaded
          /\ up'.failed = up.failed \cup {Next1} /\ UNCHANGED platform
      BY <2>1, <1>0, <1>14 DEF ReadFails, Rest, Up
    <2> QED
      BY <2>1, <2>2, <1>12 DEF SentInv, Arrived, Waiting
  <1>15. ASSUME NEW o \in Outcome, Post(o) PROVE SentInv'
    <2>1. up.pc = "send" /\ up.files # <<>> /\ up' = Posted(o)
      BY <1>15 DEF Post
    <2>2. /\ up'.pc = "send" /\ up'.lasting = up.lasting /\ up'.id = up.id
          /\ up'.files = Tail(up.files) /\ up'.dropped = up.dropped
      BY <2>1, <1>0 DEF Posted, Rest, Up
    <2>3. \/ /\ up'.failed = up.failed \cup {Next1} /\ up'.uploaded = up.uploaded
             /\ up'.garbled = up.garbled
          \/ /\ up'.failed = up.failed /\ up'.uploaded = up.uploaded \cup {Next1}
             /\ up'.garbled = IF ~o.done THEN up.garbled \cup {Next1} ELSE up.garbled
      BY <2>1, <1>0 DEF Posted, Rest, Up
    <2>4. IF o.done THEN Arrived' = Arrived \cup {Next1} ELSE Arrived' = Arrived
      <3> DEFINE content == <<Next1, IF Next1 = Nodes THEN nodes ELSE up.dir>>
      <3>1. platform'[up.id].files = IF o.done THEN platform[up.id].files \cup {content}
                                     ELSE platform[up.id].files
        BY <1>15, PostEffect
      <3>2. content[1] = Next1
        OBVIOUS
      <3> HIDE DEF content
      <3> QED
        BY <2>2, <3>1, <3>2 DEF Arrived
    <2> QED
      BY <2>1, <2>2, <2>3, <2>4, <1>12 DEF SentInv, Waiting
  <1>16. CASE End
    <2>1. /\ up.pc = "send" /\ up'.pc = "done" /\ up'.lasting = up.lasting /\ up'.id = up.id
          /\ up'.dropped = up.dropped /\ up'.garbled = up.garbled /\ up'.uploaded = up.uploaded
          /\ up'.failed = up.failed /\ UNCHANGED platform /\ up.files = <<>>
      BY <1>0, <1>16 DEF End, Up
    <2>2. Waiting = {}
      BY <2>1 DEF Waiting, Range
    <2> QED
      BY <2>1, <2>2 DEF SentInv, Arrived
  <1>17. CASE Die
    BY <1>17 DEF Die, SentInv
  <1>18. CASE UNCHANGED vars
    BY <1>18 DEF vars, SentInv, Arrived, Waiting
  <1> QED
    BY <1>1, <1>2, <1>3, <1>4, <1>5, <1>7, <1>8, <1>9, <1>10, <1>11, <1>13, <1>14,
       <1>15, <1>16, <1>17, <1>18
    DEF Next, Others, UploadReport

\* The inductive invariant.
Inv == TypeInv /\ Epochs /\ LastingInv /\ SentInv

\* Inv holds in every behaviour.
THEOREM InvCorrect == Spec => []Inv
  <1>1. Init => Inv
    <2> SUFFICES ASSUME Init PROVE Inv
      OBVIOUS
    <2>1. up.pc = "idle" /\ DOMAIN platform = {}
      BY DEF Init, NoUpload
    <2> QED
      BY <2>1, TypeInvInit
      DEF Inv, Epochs, OneEpoch, NodesAgree, LastingInv, Begun, SentInv
  <1>2. Inv /\ [Next]_vars => Inv'
    BY TypeInvInductive, EpochsInductive, LastingInductive, SentInductive DEF Inv
  <1> QED
    BY <1>1, <1>2, PTL DEF Spec

\* FilesAccounted: after an upload that ends in success (UploadReport), every
\* file that was there all the time is on the platform or was complained of, but
\* for those lost with a directory that could not be read or with a senseless
\* answer.
THEOREM FilesAccountedCorrect == Spec => []FilesAccounted
  <1>1. Inv => FilesAccounted
    BY DEF Inv, SentInv, Arrived, FilesAccounted
  <1> QED
    BY <1>1, InvCorrect, PTL

\* OneEpoch: a report on the platform has no file of another epoch, whatever
\* collections do meanwhile.
THEOREM OneEpochCorrect == Spec => []OneEpoch
  <1>1. Inv => OneEpoch
    BY DEF Inv, Epochs
  <1> QED
    BY <1>1, InvCorrect, PTL

\* NodesAgree: nodes.json, read when it is sent, names the directory of the
\* report, unless a collection for another epoch began during the upload.
THEOREM NodesAgreeCorrect == Spec => []NodesAgree
  <1>1. Inv => NodesAgree
    BY DEF Inv, Epochs
  <1> QED
    BY <1>1, InvCorrect, PTL
===============================================================================
