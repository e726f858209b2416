----------------------------- MODULE ProfilePlans -----------------------------
(***************************************************************************)
(* Which profile a row of result_all.csv shows: the plans of the profilers *)
(* (host/compute_profile.py, execution_profile.py), how an entry is found  *)
(* in them (compute_profile_plan.py, execution_profile_plan.py), how       *)
(* `acprof profile` reuses, collects and merges them (host/posthoc/        *)
(* plans.py, service.py, backfill.py) and the derived CSV                  *)
(* (cli/backfill_compute.py).                                              *)
(*                                                                         *)
(* A measurement fills the rows from its own plans; later runs fill what   *)
(* is missing from plans found on disk or collected anew.  An entry of a   *)
(* plan is an error or a value, and a value is named by where it was       *)
(* measured: resources, GPU mode, input scale and the way of sampling.     *)
(* The files and the interrupted collection of one entry are those of      *)
(* ProfilerReports, the three files of a commit those of PosthocBackfill.  *)
(***************************************************************************)
EXTENDS Naturals, FiniteSets

CONSTANTS Results,      \* the finished measurements: rows, planned scales, profilers
          References,   \* reference resources that are asked for; 0 is the largest
          MaxProfiles,  \* bound: runs of acprof profile
          MaxMissed     \* bound: entries a profiler misses, short of all

ASSUME PlansAssumption ==
    \A r \in Results :
        /\ r.rows # {}
        /\ r.rows \subseteq [cpu : Nat, mem : Nat, gpu : {"off", "on"}, scale : r.scales, timed : BOOLEAN]
        /\ r.tools \subseteq {"torch", "ncu", "nsys", "massif"}

ComputeTools == {"torch", "ncu"}
ExecutionTools == {"massif", "nsys"}
PlanTools == ComputeTools \cup ExecutionTools

(* TOOL_GPU_MODES: the rows a profiler applies to.                         *)
ToolModes(t) == CASE t = "torch" -> {"off", "on"}
                  [] t \in {"ncu", "nsys"} -> {"on"}
                  [] t = "massif" -> {"off"}

AnyCase == <<0, 0>>     \* FLOP profiles know no resources
BlankCell == [is |-> "blank"]
Failed == [is |-> "error"]
Value(at, gpu, scale, how) == [is |-> "value", at |-> at, gpu |-> gpu, scale |-> scale, how |-> how]

VARIABLES
    result,     \* the measurement: its rows never change, its cells do
    cells,      \* the profiler columns of result_all.csv
    named,      \* static_meta.json: compute_ and execution_profile_tools
    strategy,   \* static_meta.json: massif_ and nsys_sampling_strategy
    planAt,     \* the plan files there are
    planStage, wants, toolsLeft, chosen, validated,
    settled,    \* history: tools whose last commit had a plan without errors
    profiles

plansVars == <<result, cells, named, strategy, planAt, planStage, wants, toolsLeft, chosen, validated,
               settled, profiles>>
csvFiles == <<cells, named, strategy>>
work == <<wants, toolsLeft, chosen, validated>>

Kind(t) == IF t \in ComputeTools THEN "compute" ELSE "execution"
CaseOf(row) == <<row.cpu, row.mem>>
RowsOf(mode) == {r \in result.rows : r.gpu = mode}
Grid(rows) == {r.cpu : r \in rows} \X {r.mem : r \in rows}
Applies(t, row) == row.gpu \in ToolModes(t)
Applicable(t) == {r \in result.rows : Applies(t, r)} # {}

-----------------------------------------------------------------------------
(* PLANS.  A plan maps a profiler, a GPU mode and the resources to a       *)
(* profile: the way of sampling, and the entries by input scale.           *)

(* Mutant: one profile serves both devices.                                *)
KeyFor_OneDevice(t, row) ==
    <<t, IF t = "torch" THEN "off" ELSE row.gpu, IF t \in ComputeTools THEN AnyCase ELSE CaseOf(row)>>

(* find_compute_profile_entry: by device; _find_resource_case: by resources *)
(* and mode.                                                               *)
KeyFor(t, row) == <<t, row.gpu, IF t \in ComputeTools THEN AnyCase ELSE CaseOf(row)>>

(* A scale that a profile does not have is an error.                       *)
EntryAt(plan, k, scale) == IF scale \in DOMAIN plan[k].entries THEN plan[k].entries[scale] ELSE Failed

(* A FLOP profile that is not there leaves the columns empty.              *)
ComputeCell(plan, t, row) ==
    LET k == KeyFor(t, row)
    IN  IF k \in DOMAIN plan THEN EntryAt(plan, k, row.scale) ELSE BlankCell

(* So does an execution profiler absent from the whole plan, but one that  *)
(* is there for other resources only is an error.                          *)
Enabled(plan, t) == \E k \in DOMAIN plan : k[1] = t
ExecutionCell(plan, t, row) ==
    LET k == KeyFor(t, row)
    IN  IF ~Enabled(plan, t) THEN BlankCell
        ELSE IF k \in DOMAIN plan THEN EntryAt(plan, k, row.scale) ELSE Failed

LookUp(plan, t, row) ==
    IF ~Applies(t, row) THEN BlankCell
    ELSE IF t \in ComputeTools THEN ComputeCell(plan, t, row) ELSE ExecutionCell(plan, t, row)

(* Mutant: a plan covers a tool if it has an entry for every row.          *)
PlanCovers_WithErrors(plan, t) ==
    Applicable(t) /\ \A r \in result.rows : Applies(t, r) => KeyFor(t, r) \in DOMAIN plan

(* compute_plan_covers_tool, execution_plan_covers_tool: every resource    *)
(* case and every scale of the mode, whether or not a row has both.        *)
PlanCovers(plan, t) ==
    /\ Applicable(t)
    /\ \A m \in ToolModes(t) : \A r, s \in RowsOf(m) :
          LookUp(plan, t, [r EXCEPT !.scale = s.scale]).is = "value"

(* _resolve_reference_resource.                                            *)
Largest(S) == CHOOSE x \in S : \A y \in S : y <= x
Resolve(reference, values) == IF reference = 0 THEN Largest(values) ELSE reference
Refused(t, how, grid) ==
    \/ how.by # "full" /\ how.mem # 0 /\ how.mem \notin {c[2] : c \in grid}
    \/ how.by = "per-scale" /\ how.cpu # 0 /\ how.cpu \notin {c[1] : c \in grid}

(* _profile_source_resource: the resources whose profile a case is given.  *)
SourceFor(t, how, grid, case) ==
    IF t \in ComputeTools THEN AnyCase
    ELSE <<IF how.by = "per-scale" THEN Resolve(how.cpu, {c[1] : c \in grid}) ELSE case[1],
           IF how.by = "full" THEN case[2] ELSE Resolve(how.mem, {c[2] : c \in grid})>>

CasesFor(t, grid) == IF t \in ComputeTools THEN {AnyCase} ELSE grid
Probes(t, how, grid, modes) ==
    {<<SourceFor(t, how, grid, c), m, s>> : c \in CasesFor(t, grid), m \in modes \cap ToolModes(t),
                                            s \in result.scales}

(* collect_compute_profile_plan, collect_execution_profile_plan: every     *)
(* probe ends with a value or an error (_safe_profile_tool), and the       *)
(* sampled profiles are copied to all cases, with where they come from.    *)
Collected(t, how, grid, modes, missed) ==
    [k \in {t} \X (modes \cap ToolModes(t)) \X CasesFor(t, grid) |->
        LET at == SourceFor(t, how, grid, k[3])
        IN  [by |-> how.by,
             entries |-> [s \in result.scales |-> IF <<at, k[2], s>> \in missed
                                                  THEN Failed ELSE Value(at, k[2], s, how.by)]]]

Hows(t) ==
    IF t \in ComputeTools THEN [by : {"full"}, cpu : {0}, mem : {0}]
    ELSE [by : {"full", "per-scale"} \cup (IF t = "nsys" THEN {"per-cpu-scale"} ELSE {}),
          cpu : References, mem : References]

(* A tool misses a few entries, or all: no executable, no permission.      *)
Misses(probes) == {m \in SUBSET probes : Cardinality(m) <= MaxMissed \/ m = probes}

Join(plans) ==      \* the union of plans that share no key
    [k \in UNION {DOMAIN p : p \in plans} |-> (CHOOSE p \in plans : k \in DOMAIN p)[k]]

-----------------------------------------------------------------------------
PlansInit ==
    /\ result \in Results
    /\ cells = [r \in result.rows |-> [t \in PlanTools |-> BlankCell]]
    /\ named = {} /\ strategy = [t \in ExecutionTools |-> "none"]
    /\ planAt = <<>>
    /\ planStage = "new" /\ wants = [force |-> FALSE] /\ toolsLeft = {} /\ chosen = <<>>
    /\ validated = FALSE /\ settled = {} /\ profiles = 0

(* acprof run: the profilers asked for (Advisor aside, whose values no     *)
(* column shows) leave their plans, one plan for each kind; the client     *)
(* fills the rows from them.  A reference outside the matrix is refused    *)
(* before anything starts (_resource_matrix), and a collection that raises *)
(* leaves no plan, as if it had not been asked for.  Without a FLOP plan   *)
(* its columns say it was disabled.                                        *)
Measured(plans, t, row) ==
    IF Kind(t) \in DOMAIN plans THEN LookUp(plans[Kind(t)], t, row)
    ELSE IF t \in ComputeTools /\ Applies(t, row) THEN Failed ELSE BlankCell

Measure ==
    /\ planStage = "new" /\ planStage' = "idle"
    /\ LET grid == Grid(result.rows)
           modes == {r.gpu : r \in result.rows}
       IN  \E asked \in SUBSET result.tools :
           \E how \in [asked -> UNION {Hows(t) : t \in asked}] :
           \E missed \in [asked -> SUBSET UNION {Probes(t, how[t], grid, modes) : t \in asked}] :
              /\ \A t \in asked : /\ how[t] \in Hows(t) /\ ~Refused(t, how[t], grid)
                                  /\ missed[t] \in Misses(Probes(t, how[t], grid, modes))
              /\ LET plans == [k \in {Kind(t) : t \in asked} |->
                                 Join({Collected(t, how[t], grid, modes, missed[t]) :
                                          t \in {u \in asked : Kind(u) = k}})]
                 IN  /\ planAt' = [p \in {<<"result", k>> : k \in DOMAIN plans} |-> plans[p[2]]]
                     /\ cells' = [r \in result.rows |-> [t \in PlanTools |-> Measured(plans, t, r)]]
                     /\ named' = {t \in asked : modes \cap ToolModes(t) # {}}
                     /\ strategy' = [t \in ExecutionTools |->
                                        IF t \in named' THEN how[t].by ELSE "none"]
    /\ UNCHANGED <<result, work, settled, profiles>>

(* csv_tool_complete: NCU's throughput needs the latency of the row.       *)
CellComplete(t, row) == cells[row][t].is = "value" /\ (t = "ncu" => row.timed)
ToolComplete(t) == \A r \in result.rows : Applies(t, r) => CellComplete(t, r)

(* run_posthoc: what is asked for, applies and is not complete.            *)
Profile ==
    /\ planStage = "idle" /\ profiles < MaxProfiles /\ profiles' = profiles + 1
    /\ \E asked \in SUBSET result.tools, force \in BOOLEAN :
          /\ toolsLeft' = {t \in asked : Applicable(t) /\ (force \/ ~ToolComplete(t))}
          /\ toolsLeft' # {}
          /\ wants' = [force |-> force, tools |-> toolsLeft']
    /\ planStage' = "plans" /\ chosen' = <<>> /\ validated' = FALSE
    /\ UNCHANGED <<result, csvFiles, planAt, settled>>

Order == <<"torch", "ncu", "nsys", "massif">>      \* SUPPORTED_TOOLS
Turn == Order[CHOOSE i \in 1..4 : Order[i] \in toolsLeft /\ \A j \in 1..(i - 1) : Order[j] \notin toolsLeft]
Candidates(t) == <<<<"result", Kind(t)>>, <<"work", Kind(t)>>, <<t, Kind(t)>>>>
Usable(t) == {i \in 1..3 : Candidates(t)[i] \in DOMAIN planAt /\ PlanCovers(planAt[Candidates(t)[i]], t)}

Take(t, plan) ==
    /\ chosen' = [u \in DOMAIN chosen \cup {t} |-> IF u = t THEN plan ELSE chosen[u]]
    /\ toolsLeft' = toolsLeft \ {t}
    /\ planStage' = IF toolsLeft' = {} THEN "merge" ELSE "plans"

(* _find_reusable_compute_plan, _find_reusable_execution_plan.             *)
Reuse ==
    /\ planStage = "plans" /\ ~wants.force
    /\ LET t == Turn
       IN  /\ Usable(t) # {}
           /\ Take(t, planAt[Candidates(t)[CHOOSE i \in Usable(t) : \A j \in Usable(t) : i <= j]])
    /\ UNCHANGED <<result, csvFiles, planAt, wants, validated, settled, profiles>>

(* The run ends; plans already collected stay in the tools' directories.   *)
GiveUp == planStage' = "idle" /\ wants' = [force |-> FALSE] /\ toolsLeft' = {} /\ chosen' = <<>> /\ validated' = FALSE

(* _validate_profiler_runtime, once before the first collection; then      *)
(* _collect_compute_plan, _collect_execution_plan into the tool's own      *)
(* directory.                                                              *)
Collecting == planStage = "plans" /\ (wants.force \/ Usable(Turn) = {})

ValidationFails ==
    /\ Collecting /\ ~validated
    /\ GiveUp
    /\ UNCHANGED <<result, csvFiles, planAt, settled, profiles>>

CollectPlan ==
    /\ Collecting
    /\ LET t == Turn
           rows == {r \in result.rows : Applies(t, r)}
           modes == {r.gpu : r \in rows}
       IN  \E how \in Hows(t) :
             IF Refused(t, how, Grid(rows))
             THEN GiveUp /\ UNCHANGED planAt
             ELSE \E missed \in Misses(Probes(t, how, Grid(rows), modes)) :
                    LET plan == Collected(t, how, Grid(rows), modes, missed)
                        place == <<t, Kind(t)>>
                    IN  /\ planAt' = [p \in DOMAIN planAt \cup {place} |->
                                        IF p = place THEN plan ELSE planAt[p]]
                        /\ Take(t, plan) /\ validated' = TRUE
                        /\ UNCHANGED wants
    /\ UNCHANGED <<result, csvFiles, settled, profiles>>

(* Mutant: a later tool's group replaces the earlier one's.                *)
Merged_Replaces(kind) ==
    LET own(t) == {k \in DOMAIN chosen[t] : k[1] = t}
    IN  [k \in UNION {own(t) : t \in {u \in DOMAIN chosen : Kind(u) = kind}} \
                 {q \in {"torch"} \X {"on"} \X {AnyCase} : "ncu" \in DOMAIN chosen} |-> chosen[k[1]][k]]

(* merge_compute_plans, merge_execution_plans: of each tool's plan, the    *)
(* tool's own profiles.                                                    *)
Merged(kind) ==
    LET own(t) == {k \in DOMAIN chosen[t] : k[1] = t}
    IN  [k \in UNION {own(t) : t \in {u \in DOMAIN chosen : Kind(u) = kind}} |-> chosen[k[1]][k]]

(* The merged plans are published in the workspace.                        *)
MergePlans ==
    /\ planStage = "merge" /\ planStage' = "fill"
    /\ LET places == {<<"work", Kind(t)>> : t \in DOMAIN chosen}
       IN  planAt' = [p \in DOMAIN planAt \cup places |->
                        IF p \in places THEN Merged(p[2]) ELSE planAt[p]]
    /\ UNCHANGED <<result, csvFiles, work, settled, profiles>>

Strategy(plan, t) == plan[CHOOSE k \in DOMAIN plan : k[1] = t].by

(* backfill_rows: complete cells are kept unless forced; update_static_meta *)
(* names the tools and copies the strategy of the merged plan.             *)
Fill ==
    /\ planStage = "fill"
    /\ cells' = [r \in result.rows |-> [t \in PlanTools |->
                    IF t \in wants.tools /\ Applies(t, r) /\ (wants.force \/ ~CellComplete(t, r))
                    THEN LookUp(Merged(Kind(t)), t, r) ELSE cells[r][t]]]
    /\ named' = named \cup wants.tools
    /\ strategy' = [t \in ExecutionTools |->
                      IF t \in wants.tools THEN Strategy(chosen[t], t) ELSE strategy[t]]
    /\ settled' = (settled \ wants.tools) \cup {t \in wants.tools : PlanCovers(chosen[t], t)}
    /\ GiveUp
    /\ UNCHANGED <<result, planAt, profiles>>

Interrupted ==
    /\ planStage \in {"plans", "merge", "fill"}
    /\ GiveUp
    /\ UNCHANGED <<result, csvFiles, planAt, settled, profiles>>
PlansNext ==
    \/ Measure \/ Profile \/ Reuse \/ ValidationFails \/ CollectPlan \/ MergePlans \/ Fill \/ Interrupted

PlansSpec == PlansInit /\ [][PlansNext]_plansVars

(* backfill_compute_profile_csv: a new CSV whose FLOP columns are those of *)
(* the plan, empty or an error where it has none; a summary of NCU, the    *)
(* set of its scales, goes before the plan on GPU rows.                    *)
SummaryCell(summary, row) ==
    IF row.scale \in summary THEN Value(AnyCase, "on", row.scale, "full") ELSE Failed
DerivedCell(plans, summary, t, row) ==
    IF t \in ExecutionTools THEN cells[row][t]
    ELSE IF t = "ncu" /\ row.gpu = "on" /\ summary # {} THEN SummaryCell(summary, row)
    ELSE Measured(plans, t, row)

-----------------------------------------------------------------------------
(* THE ROW'S OWN.  A value in a profiler's column was measured for that    *)
(* row: on its device, at its input scale and, for the execution           *)
(* profilers, with its resources or those the sampling lets stand for      *)
(* them, whatever was reused, merged, kept and refilled on the way.        *)
(* static_meta.json names the profiler of every value.                     *)
Stands(cell, case) ==
    \/ cell.how = "full" /\ cell.at = case
    \/ cell.how = "per-cpu-scale" /\ cell.at[1] = case[1]
    \/ cell.how = "per-scale"
Own(cell, t, row) ==
    cell.is = "value" =>
        /\ Applies(t, row) /\ cell.gpu = row.gpu /\ cell.scale = row.scale
        /\ t \in ExecutionTools => Stands(cell, CaseOf(row))

CellsAreTheirRows ==
    \A r \in result.rows, t \in PlanTools :
        /\ Own(cells[r][t], t, r)
        /\ cells[r][t].is = "value" => t \in named
        /\ \A p \in DOMAIN planAt, summary \in SUBSET result.scales :
              planStage = "idle" /\ p[2] = "compute" =>
                  Own(DerivedCell([k \in {"compute"} |-> planAt[p]], summary, t, r), t, r)

(* A PLAN KEEPS ITS WORD.  A plan that is taken for complete, found or     *)
(* collected, alone or merged with another profiler's, fills every row the *)
(* profiler applies to.                                                    *)
CompletePlanFills ==
    \A t \in settled : \A r \in result.rows : Applies(t, r) => cells[r][t].is = "value"

(* A row shows its own profile, and every profile there is.                *)
ProfilesAreTheRows == CellsAreTheirRows /\ CompletePlanFills

(* THE METADATA EXPLAIN THE CELLS.  docs/Profiling_Protocol.md:589: whether *)
(* an execution column comes from representative resources is told by the  *)
(* sampling metadata.                                                      *)
SamplingIsTold ==
    \A r \in result.rows, t \in ExecutionTools :
        cells[r][t].is = "value" => cells[r][t].how = strategy[t]
=============================================================================
