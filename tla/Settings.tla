------------------------------ MODULE Settings ------------------------------
(***************************************************************************)
(* The checks of settings: F001 (autovacuum), F008 (its resources) and     *)
(* G001 (memory), in src/pghrep/internal/checkup/{f001,f008,g001}.         *)
(*                                                                         *)
(* A setting is a number, or NoNumber if its text is not one, or Absent if *)
(* the report does not have it.  A scale factor is counted in 1 / 1000.    *)
(* A function that returns an error next to its value returns a record     *)
(* with the field err.                                                     *)
(***************************************************************************)
EXTENDS ReportResult, Units, Versions

Absent == -2000
Setting == Nat \cup {-1, NoNumber, Absent}

Numbers(settings) == \A s \in settings : s \notin {NoNumber, Absent}

Outcome(result, err) == [result |-> result, err |-> err]

-----------------------------------------------------------------------------
(* F001: the autovacuum settings of the master.                            *)
F001Default == [vacuum_scale_factor |-> 200, vacuum_threshold |-> 50,
                analyze_scale_factor |-> 100, analyze_threshold |-> 50,
                vacuum_cost_delay |-> 20, vacuum_cost_limit |-> -1]

F001GlobalSettings == [DOMAIN F001Default -> Setting]

\* Settings that matter together: a pair counts when both have their default.
F001Pairs == <<{"vacuum_scale_factor", "vacuum_threshold"},
               {"analyze_scale_factor", "analyze_threshold"},
               {"vacuum_cost_delay", "vacuum_cost_limit"}>>

defaultValues(settings) ==
  Sublist(F001Pairs, {pair \in Range(F001Pairs) : \A s \in pair : settings[s] = F001Default[s]})

F001Process(results, master) ==
  IF master \notin DOMAIN results THEN Outcome(NoResult, FALSE)
  ELSE IF ~Numbers({results[master][s] : s \in DOMAIN F001Default}) THEN Outcome(NoResult, TRUE)
  ELSE IF defaultValues(results[master]) = <<>> THEN Outcome(NoResult, FALSE)
  ELSE LET said == AppendConclusion(Raise(NoResult, "P1"), "F001_AUTOVACUUM_NOT_TUNED",
                                    <<LimitList(defaultValues(results[master]))>>)
           advised == AppendRecommendation(said, "F001_AUTOVACUUM_NOT_TUNED", Text)
       IN Outcome(AppendRecommendation(advised, "F001_AUTOVACUUM_TUNE_RECOMMENDATION", Text), FALSE)

-----------------------------------------------------------------------------
(* F008: the settings of every host, with its CPUs (A001) and version      *)
(* (A002).  Both loops end early: at an error, or at a host of version 12. *)
CPU_COUNT == 16
AUTOVACUUM_MAX_WORKERS_DEFAULT == 3
AUTOVACUUM_COST_LIMIT_DEFAULTS == {-1, 200}
AUTOVACUUM_COST_DELAY_DEFAULT == 20

F008Settings == [max_workers : Setting, cost_limit : Setting, cost_delay : Setting]

\* A loop over the hosts: `over` ends it.
HostLoop(result) == [result |-> result, err |-> FALSE, over |-> FALSE]
Failed(loop) == [loop EXCEPT !.err = TRUE, !.over = TRUE]

getCpuCount(cpus, host) == IF host \in DOMAIN cpus THEN cpus[host] ELSE NoNumber

WorkersLow(r, count) ==
  LET said == AppendConclusion(Raise(r, "P1"), "F008_MAX_WORKERS_LOW", <<count>>)
  IN AppendRecommendation(said, "F008_MAX_WORKERS_LOW", <<count \div 4, count \div 2>>)

\* A report without autovacuum_max_workers counts as one with none.
WorkersTurn(acc, host, results, cpus) ==
  LET count == getCpuCount(cpus, host)
      workers == results[host].max_workers
  IN IF acc.over THEN acc
     ELSE IF NoNumber \in {count, workers} THEN Failed(acc)
     ELSE IF count >= CPU_COUNT /\ workers = AUTOVACUUM_MAX_WORKERS_DEFAULT
     THEN [acc EXCEPT !.result = WorkersLow(@, count)]
     ELSE acc

F008CheckMaxWorkers(results, order, cpus, result) ==
  Loop(LAMBDA acc, host : WorkersTurn(acc, host, results, cpus), HostLoop(result), order)

\* The settings autovacuum is throttled with before version 12.
Throttled(settings) ==
  /\ settings.cost_limit \in AUTOVACUUM_COST_LIMIT_DEFAULTS
  /\ settings.cost_delay = AUTOVACUUM_COST_DELAY_DEFAULT

CostNotTuned(r, major) ==
  LET said == AppendConclusion(Raise(r, "P1"), "F008_DELAY_NOT_TUNED", Text)
      advised == AppendRecommendation(said, "F008_DELAY_NOT_TUNED", Text)
  IN AppendRecommendation(advised, "F008_DELAY_TUNE", <<major>>)

CostTurn(acc, host, results, versions) ==
  LET s == results[host]
  IN IF acc.over THEN acc
     ELSE IF host \notin DOMAIN versions \/ Absent \in {s.cost_limit, s.cost_delay}
     THEN Failed(acc)
     ELSE IF MajorVersion(versions[host]) >= 1200 THEN [acc EXCEPT !.over = TRUE]
     ELSE IF NoNumber \in {s.cost_limit, s.cost_delay} THEN Failed(acc)
     ELSE IF Throttled(s)
     THEN [acc EXCEPT !.result = CostNotTuned(@, MajorVersion(versions[host]))]
     ELSE acc

F008CheckAutovacuumCost(results, order, versions, result) ==
  Loop(LAMBDA acc, host : CostTurn(acc, host, results, versions), HostLoop(result), order)

F008Process(results, orders, cpus, versions) ==
  LET workers == F008CheckMaxWorkers(results, orders[1], cpus, NoResult)
      cost == F008CheckAutovacuumCost(results, orders[2], versions, workers.result)
  IN Outcome(cost.result, workers.err \/ cost.err)

-----------------------------------------------------------------------------
(* G001: shared_buffers of every host against its memory (A001), and all   *)
(* the memory the master may come to need.                                 *)
MIN_PERCENT == 20
MAX_PERCENT == 80
MIDDLE_PERCENT == 25
OOM_PERCENT == 90
TERM_MEMORY_LEVEL == 40

Unit == [n : Nat \cup {NoNumber}, of : {""} \cup ToSet(ByteUnits)]
NoUnit == [n |-> NoNumber, of |-> ""]

G001Setting == [setting : Setting, unit : Unit]
G001Name == {"shared_buffers", "autovacuum_work_mem", "maintenance_work_mem", "work_mem",
             "max_connections", "autovacuum_max_workers"}

\* A value of A001, like "16342 kB"; `words` is less than 2 if it is not
\* a number and a unit.
A001Size == [words : Nat, value : Nat \cup {NoNumber}, unit : Unit]
A001ReportRam == [MemTotal : A001Size, SwapTotal : A001Size]

Value(v) == [v |-> v, err |-> FALSE]
NoValue == [v |-> -1, err |-> TRUE]

\* -1 without an error if there is no unit to read.
getHostMemTotal(ram, host) ==
  IF host \notin DOMAIN ram THEN NoValue
  ELSE LET mem == ram[host].MemTotal
       IN IF mem.words < 2 THEN Value(-1)
          ELSE IF mem.value = NoNumber THEN NoValue
          ELSE Value(mem.value * GetUnit(mem.unit))

getHostSwapEnabled(ram, host) ==
  IF host \notin DOMAIN ram THEN [v |-> FALSE, err |-> TRUE]
  ELSE LET swap == ram[host].SwapTotal
       IN [v |-> swap.words >= 2 /\ swap.value > 0, err |-> swap.words >= 2 /\ swap.value = NoNumber]

\* -1 says that Postgres chooses the value; a unit that is none counts as 1.
getSettingValue(settings, name) ==
  LET s == settings[name]
  IN IF s.setting \in {Absent, NoNumber} THEN NoValue
     ELSE IF s.setting = -1 THEN Value(-1)
     ELSE IF GetUnit(s.unit) = -1 THEN Value(s.setting)
     ELSE Value(s.setting * GetUnit(s.unit))

\* Go rounds a quotient towards zero.
Quotient(a, b) == IF a < 0 THEN -((-a) \div b) ELSE a \div b

\* The bounds of shared_buffers and the value that is recommended.
Level(mem, percent) == Quotient(mem, 100) * percent

G001CheckSharedBuffers(results, order, ram, result) ==
  LET shared(h) == getSettingValue(results[h], "shared_buffers")
      mem(h) == getHostMemTotal(ram, h)
      processed == {h \in DOMAIN results : ~shared(h).err /\ ~mem(h).err}
      High(h) == shared(h).v # -1 /\ shared(h).v > Level(mem(h).v, MAX_PERCENT)
      Low(h) == shared(h).v # -1 /\ shared(h).v < Level(mem(h).v, MIN_PERCENT)
      bad == Sublist(order, {h \in processed : High(h) \/ Low(h)})
      conclusions == [i \in DOMAIN bad |->
                        [host |-> bad[i], high |-> High(bad[i]),
                         ram |-> ByteFormat(mem(bad[i]).v, 2),
                         set |-> ByteFormat(shared(bad[i]).v, 2)]]
      recommendations == [i \in DOMAIN bad |->
                            [host |-> bad[i],
                             middle |-> ByteFormat(Level(mem(bad[i]).v, MIDDLE_PERCENT), 2),
                             min |-> ByteFormat(Level(mem(bad[i]).v, MIN_PERCENT), 2),
                             max |-> ByteFormat(Level(mem(bad[i]).v, MAX_PERCENT), 2)]]
      said == AppendConclusion(Raise(result, "P1"), "G001_SHARED_BUFFERS_NOT_OPTIMAL", <<conclusions>>)
      advised == AppendRecommendation(said, "G001_SHARED_BUFFERS_NOT_OPTIMAL", <<recommendations>>)
  IN Outcome(IF bad = <<>> THEN result ELSE AppendRecommendation(advised, "G001_TUNE_SHARED_BUFFERS", Text),
             processed = {} /\ DOMAIN results # {})

\* The error of max_connections is overwritten by that of autovacuum_max_workers.
G001CheckOOMRisk(results, master, ram, result) ==
  LET value(name) == getSettingValue(results[master], name)
      total == getHostMemTotal(ram, master)
      swap == getHostSwapEnabled(ram, master)
      err == \/ \E name \in G001Name \ {"max_connections"} : value(name).err
             \/ total.err \/ swap.err
      autovacuum == IF value("autovacuum_work_mem").v # -1 THEN value("autovacuum_work_mem").v
                    ELSE value("maintenance_work_mem").v
      terms == [shared_buffers |-> value("shared_buffers").v,
                work_mem |-> value("max_connections").v * 2 * value("work_mem").v,
                autovacuum |-> autovacuum * value("autovacuum_max_workers").v]
      usedMem == terms.shared_buffers + terms.work_mem + terms.autovacuum
      maxMem == Quotient(OOM_PERCENT * total.v, 100)
      major == {t \in DOMAIN terms : terms[t] > Quotient(total.v * TERM_MEMORY_LEVEL, 100)}
      said == AppendConclusion(Raise(result, "P1"), "G001_OOM", <<master, swap.v, major>>)
      advised == AppendRecommendation(said, "G001_OOM", IF major = {} THEN NoText ELSE <<major>>)
  IN IF master \notin DOMAIN results THEN Outcome(result, DOMAIN results # {})
     ELSE IF err THEN Outcome(result, TRUE)
     ELSE IF usedMem < maxMem THEN Outcome(result, FALSE)
     ELSE Outcome(AppendRecommendation(advised, "G001_TUNE_MEMORY", Text), FALSE)

G001Process(results, order, master, ram) ==
  LET buffers == G001CheckSharedBuffers(results, order, ram, NoResult)
      oom == G001CheckOOMRisk(results, master, ram, buffers.result)
  IN Outcome(oom.result, buffers.err \/ oom.err)
=============================================================================
