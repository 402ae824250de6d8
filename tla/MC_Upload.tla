------------------------------- MODULE MC_Upload -------------------------------
(***************************************************************************)
(* Model checking of Upload: a report and a temporary file beside it,       *)
(* a query of K_query_groups, and a section.                              *)
(***************************************************************************)
EXTENDS Upload

MCBefore == <<"A002_tmp">>
MCInside == <<"1_1.sql">>
MCAfter == <<"L003.json">>
MCMd == <<"A002.md">>

\* Uploads of the one directory are uploads of the other; the other epoch is there to
\* be mixed up with the first, which a section is enough for.
OneUploaded == up.dir # "2" /\ tree["2"] \subseteq {"A002.md"}

\* Nothing looks at what a failed upload did, or at a report once there is another.
LastReport == IF platform = <<>> THEN None ELSE platform[Len(platform)]
View == <<nodes, tree, mds, Len(platform), LastReport,
          IF up.pc = "error" THEN NoUpload ELSE up>>
===============================================================================
