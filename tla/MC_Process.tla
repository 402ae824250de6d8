------------------------------ MODULE MC_Process ------------------------------
(***************************************************************************)
(* Model checking of Process: A003, which has no conclusions, and K000,    *)
(* which has, and whose report is rendered in two sections (of three).     *)
(***************************************************************************)
EXTENDS Process

MCCheckOf == [s \in {"A003", "K001", "K003"} |-> IF s = "A003" THEN "A003" ELSE "K000"]

\* A003 is there to make the loops have two turns: it is collected once, and not
\* during a `process`.
OneA003 == newest["A003"] <= 1 /\ "A003" \notin met

\* No property promises anything of a check that was collected while pghrep was
\* rewriting its report, or was collected during a `process` and left empty.
UntilClash == clash = {} /\ met \cap cut = {}

\* No step reads the sections of an old final report, and FinalTrue, an action
\* property, is evaluated for every step that writes one.  `mute` is only read for
\* checks outside `met`.
View == <<report, md, final.file, gen, col, newest, met, clash, cut, mute \ met>>
===============================================================================
