---------------------------- MODULE StartupPruning ----------------------------
(***************************************************************************)
(* Startup probes and the frozen matrix plan (option --prune-startup-oom): *)
(* acprof/host/startup_probe.py, acprof/host/matrix_plan.py and the plan   *)
(* handling of run_matrix in acprof/host/orchestrator.py.                  *)
(*                                                                         *)
(* Before anything is measured, containers are started at the smallest     *)
(* number of CPUs with growing memory until one is not killed by the OOM   *)
(* killer while it starts.  The cases below that memory are then inferred  *)
(* instead of measured, for every number of CPUs.  Any attempt may be      *)
(* killed; the next one goes on from startup_oom_pruning.json and          *)
(* matrix_plan.json, unless somebody has edited them.                      *)
(***************************************************************************)
EXTENDS Naturals, Sequences, SequencesExt

CONSTANTS
    Mems,           \* memory caps of the matrix
    GpuModes,       \* sequence of GPU modes, in the order they are probed
    Order,          \* the cases <<cpu, mem, gpu>>, in the order of the plan
    MaxFaults,      \* bound: crashes and failed writes, launches and removals
    MaxEdits        \* bound: manual edits of the frozen files

ASSUME ConstantsAssumption ==
    /\ Mems \in SUBSET Nat \ {{}} /\ GpuModes # <<>>
    /\ ToSet(Order) = {c[1] : c \in ToSet(Order)} \X Mems \X ToSet(GpuModes)
    /\ Order \in Seq(ToSet(Order)) /\ IsInjective(Order)
    /\ MaxFaults \in Nat /\ MaxEdits \in Nat

VARIABLES
    report,         \* startup_oom_pruning.json
    plan,           \* matrix_plan.json
    bound,          \* what run_state.json says of both
    result,         \* result[k]: CSV of the k-th case of the plan
    pc,             \* the one process that holds the locks
    mem,            \* its copy of the report
    todo,           \* what it has still to probe
    next,           \* the case it is at
    box,            \* the container being probed
    late,           \* the polling has ended at READY_TIMEOUT_S
    killed,         \* history: <<g, m>> OOM-killed in time at Min(Cpus)
    faults, edits

vars == <<report, plan, bound, result, pc, mem, todo, next, box, late,
          killed, faults, edits>>
disk == <<report, plan, bound, result>>
probe == <<box, late>>
local == <<mem, todo, next>>

Gpus == ToSet(GpuModes)
Probes == Gpus \X Mems
Numbers == DOMAIN Order
\* The probes in the order of the two loops of run_startup_probes.
ProbeBefore(x, y) ==
    LET at(g) == CHOOSE i \in DOMAIN GpuModes : GpuModes[i] = g IN
    at(x[1]) < at(y[1]) \/ (x[1] = y[1] /\ x[2] < y[2])
FirstProbe(S) == CHOOSE x \in S : \A y \in S \ {x} : ProbeBefore(x, y)

\* Docker's view of a container: OOMKilled may be true of a running one.
Box == [st : {"none", "running", "exited"}, oom : BOOLEAN]
NoBox == [st |-> "none", oom |-> FALSE]
\* One attempt of the report; docker_state is NoBox if the inspection failed.
Outcomes == {"startup_feasible", "startup_oom", "timeout", "error"}
NoRecord == [outcome |-> "none", state |-> NoBox]
Record == [outcome : Outcomes, state : Box]
NoReport == [st |-> "absent", att |-> [x \in Probes |-> NoRecord]]
NoPlan == [st |-> "absent", pre |-> {}]
Nothing == [plan |-> NoPlan, report |-> NoReport]

Init ==
    /\ report = NoReport /\ plan = NoPlan /\ bound = Nothing
    /\ result = [k \in Numbers |-> "none"]
    /\ pc = "idle" /\ mem = NoReport /\ todo = {} /\ next = 1
    /\ box = NoBox /\ late = FALSE
    /\ killed = {} /\ faults = 0 /\ edits = 0

Fault == faults < MaxFaults /\ faults' = faults + 1

\* startup_oom_prefixes: all smaller memories of the same GPU mode must have
\* been confirmed too.
Confirmed(a) == a.outcome = "startup_oom" /\ a.state = [st |-> "exited", oom |-> TRUE]
OomPrefixes(r) ==
    {x \in Probes : \A m \in Mems : m <= x[2] => Confirmed(r.att[<<x[1], m>>])}

\* build_matrix_plan: result_origin of a case.
IsInferred(pre, k) == <<Order[k][3], Order[k][2]>> \in pre
-----------------------------------------------------------------------------
(* A new attempt                                                           *)

\* validate_resume: the files run_state.json has recorded are unchanged.
Intact == bound.plan.st = "absent" \/ (plan = bound.plan /\ report = bound.report)

Begin ==
    /\ pc = "idle" /\ Intact
    /\ \E k \in Numbers : result[k] \notin {"inferred", "measured"}
    /\ pc' = "open"
    /\ UNCHANGED <<disk, local, probe, killed, faults, edits>>

\* run_startup_probes takes up the report, or writes an empty one.
OpenReport ==
    /\ pc = "open" /\ plan.st = "absent"
    /\ \A k \in Numbers : result[k] = "none"
    /\ mem' = IF report.st = "absent" THEN [report EXCEPT !.st = "running"] ELSE report
    /\ \/ /\ report' = mem' /\ UNCHANGED faults
          /\ pc' = IF report.st = "complete" THEN "freeze" ELSE "probe"
       \/ report.st = "absent" /\ Fault /\ pc' = "idle" /\ UNCHANGED report
    /\ todo' = Probes
    /\ UNCHANGED <<plan, bound, result, next, probe, killed, edits>>

\* Mutant: a loaded plan is not held against the probe report.
PlanHolds_HashOnly == plan.st = "sealed"

\* load_matrix_plan and run_matrix: the plan has its own hash, and the complete
\* report implies the same prefixes.
PlanHolds ==
    plan.st = "sealed" /\ report.st = "complete" /\ OomPrefixes(report) = plan.pre

LoadPlan ==
    /\ pc = "open" /\ plan.st # "absent"
    /\ pc' = IF PlanHolds THEN "bind" ELSE "idle"
    /\ UNCHANGED <<disk, local, probe, killed, faults, edits>>

\* run_matrix: no new plan for an experiment whose cases have begun.
RefuseLostPlan ==
    /\ pc = "open" /\ plan.st = "absent"
    /\ \E k \in Numbers : result[k] # "none"
    /\ pc' = "idle"
    /\ UNCHANGED <<disk, local, probe, killed, faults, edits>>
-----------------------------------------------------------------------------
(* run_startup_probes                                                      *)

\* The memory at hand decides whether the next larger one is looked at.
GoOn(x, r) ==
    todo' = IF x \in OomPrefixes(r) THEN todo \ {x} ELSE {y \in todo : y[1] # x[1]}

SkipProbed ==
    /\ pc = "probe" /\ todo # {}
    /\ LET x == FirstProbe(todo) IN mem.att[x] # NoRecord /\ GoOn(x, mem)
    /\ UNCHANGED <<disk, pc, mem, next, probe, killed, faults, edits>>

\* docker run; if it fails there is a diagnostic and no evidence, or debris
\* that ends the attempt.
Launch ==
    /\ pc = "probe" /\ todo # {}
    /\ LET x == FirstProbe(todo) IN
       /\ mem.att[x] = NoRecord
       /\ \/ /\ box' = [st |-> "running", oom |-> FALSE] /\ pc' = "poll"
             /\ UNCHANGED <<mem, faults>>
          \/ /\ Fault /\ pc' = "record" /\ UNCHANGED box
             /\ mem' = [mem EXCEPT !.att[x] = [outcome |-> "error", state |-> NoBox]]
          \/ Fault /\ pc' = "idle" /\ UNCHANGED <<box, mem>>
    /\ late' = FALSE
    /\ UNCHANGED <<disk, todo, next, killed, edits>>

\* The OOM killer takes the server, or one of its children.
OomKill ==
    /\ pc \in {"poll", "fail"} /\ box.st = "running"
    /\ \E s \in {"running", "exited"} : box' = [st |-> s, oom |-> TRUE]
    /\ killed' = IF late THEN killed ELSE killed \cup {FirstProbe(todo)}
    /\ UNCHANGED <<disk, pc, local, late, faults, edits>>

ServerExits ==
    /\ pc \in {"poll", "fail"} /\ box.st = "running"
    /\ box' = [box EXCEPT !.st = "exited"]
    /\ UNCHANGED <<disk, pc, local, late, killed, faults, edits>>

DeadlinePasses ==
    /\ pc = "poll" /\ ~late
    /\ late' = TRUE
    /\ UNCHANGED <<disk, pc, local, box, killed, faults, edits>>

\* /ready says ok; the state recorded with it may show an earlier OOM kill.
Ready ==
    /\ pc = "poll" /\ box.st = "running" /\ ~late
    /\ \E s \in {NoBox, box} :
          mem' = [mem EXCEPT !.att[FirstProbe(todo)] = [outcome |-> "startup_feasible", state |-> s]]
    /\ pc' = "stop"
    /\ UNCHANGED <<disk, todo, next, probe, killed, faults, edits>>

\* container_startup_exit_error: the first look finds the container exited; or
\* the loop has ended at the deadline, whatever is seen then.
LooksDead ==
    /\ pc = "poll" /\ (box.st = "exited" \/ late)
    /\ pc' = "fail"
    /\ UNCHANGED <<disk, local, probe, killed, faults, edits>>

\* Mutant: an OOM kill seen after the deadline is evidence too.
Outcome_IgnoresDeadline(s) == IF s.st = "exited" /\ s.oom THEN "startup_oom" ELSE "error"

\* ContainerStartupError
Outcome(s) ==
    IF late THEN "timeout"
    ELSE IF s.st = "exited" /\ s.oom THEN "startup_oom" ELSE "error"

\* fail_startup: the second look is the evidence; docker may not answer it.
Fail ==
    /\ pc = "fail"
    /\ \E s \in {NoBox, box} :
          mem' = [mem EXCEPT !.att[FirstProbe(todo)] = [outcome |-> Outcome(s), state |-> s]]
    /\ pc' = "stop"
    /\ UNCHANGED <<disk, todo, next, probe, killed, faults, edits>>

\* The container is removed; if it cannot be, the attempt ends and what has
\* been learnt is lost with it.
Stop ==
    /\ pc = "stop"
    /\ \/ pc' = "record" /\ UNCHANGED faults
       \/ Fault /\ pc' = "idle"
    /\ box' = NoBox
    /\ UNCHANGED <<disk, local, late, killed, edits>>

\* report["attempts"].append(record); atomic_write_json
SaveRecord ==
    /\ pc = "record"
    /\ \/ report' = mem /\ pc' = "probe" /\ GoOn(FirstProbe(todo), mem) /\ UNCHANGED faults
       \/ Fault /\ pc' = "idle" /\ UNCHANGED <<report, todo>>
    /\ UNCHANGED <<plan, bound, result, mem, next, probe, killed, edits>>

CompleteReport ==
    /\ pc = "probe" /\ todo = {}
    /\ mem' = [mem EXCEPT !.st = "complete"]
    /\ \/ report' = mem' /\ pc' = "freeze" /\ UNCHANGED faults
       \/ Fault /\ pc' = "idle" /\ UNCHANGED report
    /\ UNCHANGED <<plan, bound, result, todo, next, probe, killed, edits>>
-----------------------------------------------------------------------------
(* The plan and the cases                                                  *)

\* freeze_matrix_plan
Freeze ==
    /\ pc = "freeze"
    /\ \/ plan' = [st |-> "sealed", pre |-> OomPrefixes(mem)] /\ pc' = "bind" /\ UNCHANGED faults
       \/ Fault /\ pc' = "idle" /\ UNCHANGED plan
    /\ UNCHANGED <<report, bound, result, local, probe, killed, edits>>

\* Mutant: a plan is bound once and for all.
Bind_Once ==
    /\ pc = "bind" /\ bound = Nothing
    /\ \/ bound' = [plan |-> plan, report |-> report] /\ pc' = "case" /\ UNCHANGED faults
       \/ Fault /\ pc' = "idle" /\ UNCHANGED bound
    /\ next' = 1
    /\ UNCHANGED <<report, plan, result, mem, todo, probe, killed, edits>>

\* bind_matrix_plan
Bind ==
    /\ pc = "bind"
    /\ \/ Intact /\ bound' = [plan |-> plan, report |-> report] /\ pc' = "case" /\ UNCHANGED faults
       \/ Intact /\ Fault /\ pc' = "idle" /\ UNCHANGED bound
       \/ ~Intact /\ pc' = "idle" /\ UNCHANGED <<bound, faults>>
    /\ next' = 1
    /\ UNCHANGED <<report, plan, result, mem, todo, probe, killed, edits>>

\* prepare_case: a finished case is reused, any other is started over.
StartCase ==
    /\ pc = "case" /\ next \in Numbers
    /\ IF result[next] \in {"inferred", "measured"}
       THEN next' = next + 1 /\ UNCHANGED <<result, pc>>
       ELSE result' = [result EXCEPT ![next] = "running"] /\ pc' = "run" /\ UNCHANGED next
    /\ UNCHANGED <<report, plan, bound, mem, todo, probe, killed, faults, edits>>

\* _write_startup_oom_pruned_case_csv or run_single_case, and finish_case.
RunCase ==
    /\ pc = "run"
    /\ \/ /\ result' = [result EXCEPT ![next] =
                          IF IsInferred(plan.pre, next) THEN "inferred" ELSE "measured"]
          /\ next' = next + 1 /\ pc' = "case" /\ UNCHANGED faults
       \/ Fault /\ pc' = "idle" /\ UNCHANGED <<result, next>>
    /\ UNCHANGED <<report, plan, bound, mem, todo, probe, killed, edits>>

Finish ==
    /\ pc = "case" /\ next \notin Numbers
    /\ pc' = "idle"
    /\ UNCHANGED <<disk, local, probe, killed, faults, edits>>
-----------------------------------------------------------------------------
\* The process is killed; its container is removed by the next one.
Crash ==
    /\ pc # "idle" /\ Fault
    /\ pc' = "idle" /\ box' = NoBox
    /\ UNCHANGED <<disk, local, late, killed, edits>>

\* Between two attempts, or while an attempt prepares its runtime, somebody edits
\* one record, or the prefixes of a frozen plan, whose hash then no longer fits,
\* or deletes the plan.
Edit ==
    /\ pc \in {"idle", "open"} /\ plan.st # "absent" /\ edits < MaxEdits
    /\ edits' = edits + 1
    /\ \/ /\ \E x \in Probes, a \in {NoRecord, [outcome |-> "startup_oom", state |-> [st |-> "exited", oom |-> TRUE]]} :
               report' = [report EXCEPT !.att[x] = a]
          /\ UNCHANGED plan
       \/ /\ \E pre \in SUBSET Probes : plan' = [st |-> "edited", pre |-> pre]
          /\ UNCHANGED report
       \/ plan' = NoPlan /\ UNCHANGED report
    /\ UNCHANGED <<bound, result, pc, local, probe, killed, faults>>

ProcessStep ==
    \/ Begin \/ OpenReport \/ LoadPlan \/ RefuseLostPlan
    \/ SkipProbed \/ Launch \/ Ready \/ LooksDead \/ Fail \/ Stop
    \/ SaveRecord \/ CompleteReport
    \/ Freeze \/ Bind \/ StartCase \/ RunCase \/ Finish

Next == ProcessStep \/ OomKill \/ ServerExits \/ DeadlinePasses \/ Crash \/ Edit

Spec == Init /\ [][Next]_vars

\* The clock reaches the deadline, the process works on, and after a failure
\* somebody resumes.
PruningFairness == WF_vars(ProcessStep) /\ WF_vars(DeadlinePasses)
FairSpec == Spec /\ PruningFairness
-----------------------------------------------------------------------------
\* Every variable keeps its type; no container outlives its probe.
TypeOK ==
    /\ report \in [st : {"absent", "running", "complete"}, att : [Probes -> Record \cup {NoRecord}]]
    /\ mem \in [st : {"absent", "running", "complete"}, att : [Probes -> Record \cup {NoRecord}]]
    /\ plan \in [st : {"absent", "sealed", "edited"}, pre : SUBSET Probes]
    /\ result \in [Numbers -> {"none", "running", "inferred", "measured"}]
    /\ todo \subseteq Probes /\ next \in 1..(Len(Order) + 1)
    /\ box \in Box /\ late \in BOOLEAN
    /\ box # NoBox => pc \in {"poll", "fail", "stop"}
    /\ faults \in 0..MaxFaults /\ edits \in 0..MaxEdits

\* A result is inferred only if the OOM killer really struck, in time, a
\* container of that GPU mode with that much memory and with every smaller
\* amount; no timeout, crash, silent docker or later edit counts for it.
InferredIsEarned ==
    \A k \in Numbers : result[k] = "inferred" =>
        \A m \in Mems : m <= Order[k][2] => <<Order[k][3], m>> \in killed

\* While cases run, the plan says what the evidence on disk says, and what is
\* finished is what the plan wanted; an edit in between ends in a refusal.
PlanExplained ==
    pc \in {"case", "run"} =>
        /\ plan.pre = OomPrefixes(report)
        /\ \A k \in Numbers : /\ result[k] = "inferred" => IsInferred(plan.pre, k)
                              /\ result[k] = "measured" => ~IsInferred(plan.pre, k)

\* What is inferred is what was seen: the evidence was earned, and the plan in
\* use is the one that follows from it; and types are kept.
InferenceJustified == TypeOK /\ InferredIsEarned /\ PlanExplained

\* Whatever fails, resuming ends with a result for every case, unless somebody
\* edited the frozen files.
MatrixCompletes ==
    <>(edits > 0 \/ \A k \in Numbers : result[k] \in {"inferred", "measured"})
=============================================================================
