---------------------------- MODULE InputPlanning ----------------------------
(***************************************************************************)
(* Which inputs an experiment measures, and with how little memory it can: *)
(* acprof/host/input_plan.py and acprof/host/largest_scale_probe.py.       *)
(*                                                                         *)
(* A text planner asks a probe container for the tokenizer's limit, splits *)
(* the limit into targets and looks for the word count nearest each target *)
(* by bisection over /probe answers; the other planners check the scales   *)
(* they were given, with or without a container.  The plan is written to   *)
(* input_scale_plan.json.  The memory scan then loads its largest entry    *)
(* and tries memory sizes from the smallest up, a container each.          *)
(*                                                                         *)
(* Requested scales are counted in half units, so that a fractional one    *)
(* exists: a word count or a context length is a whole number of units.    *)
(***************************************************************************)
EXTENDS Naturals, Sequences, FiniteSets, FiniteSetsExt, Functions

CONSTANTS ScaleCount,    \* AUTO_INPUT_SCALE_COUNT, 6 in the code
          MaxWords,      \* bound: the largest word count, limit and effective scale
          Requests,      \* the sets of scales --input-scales may name, {} for none
          Defaults,      \* the default scales a workload may declare
          Memories       \* the memory sizes --mems names

(* Within the bound: half units up to MaxWords words.  A workload names at  *)
(* least one default scale.                                                *)
ASSUME PlanningAssumption ==
    /\ ScaleCount \in Nat \ {0} /\ MaxWords \in Nat \ {0}
    /\ \A r \in Requests : r \subseteq 1 .. 2 * MaxWords + 1
    /\ Defaults \subseteq Seq(Nat \ {0}) \ {<<>>}
    /\ Memories \subseteq Nat \ {0} /\ IsFiniteSet(Memories) /\ Memories # {}

None == 0
Words == 1 .. MaxWords

(* Longer texts never have fewer tokens: one more word may add none.       *)
Tokenizers == {t \in [Words -> 1 .. MaxWords + 1] :
                   \A v, w \in Words : v < w => t[v] =< t[w]}

VARIABLES
    request,      \* the command line, and what the model and its workload are
    planAt,       \* where plan_input_scales or run_largest_scale_probe stands
    probeOn,      \* whether a probe container of this process exists
    planFile,     \* input_scale_plan.json: its entries, <<>> if there is none
    entries,      \* the entries collected so far, [scale, words]
    targets,      \* the scales still to be planned
    rejected,     \* whether a manual scale was over the limit
    search,       \* find_best_candidate: left, right and best
    tries,        \* the memory scan's attempts, [mem, status]
    needed,         \* the memory the largest entry needs
    verdict       \* the scan's summary, [status, mem], or none

planVars == <<request, planAt, probeOn, planFile, entries, targets, rejected,
              search, tries, needed, verdict>>

kind == request.kind
NoSearch == [left |-> 1, right |-> 0, best |-> None]
OldPlan == <<[scale |-> None, words |-> None]>>    \* an earlier attempt's
NoVerdict == [status |-> "none", mem |-> None]
Whole(r) == r % 2 = 0

(* The members of a set from the smallest up.                              *)
Ascends(s, set) ==
    /\ s \in [1 .. Cardinality(set) -> set] /\ Range(s) = set
    /\ \A i, j \in DOMAIN s : i < j => s[i] < s[j]
Ascending(set) == CHOOSE s \in [1 .. Cardinality(set) -> set] : Ascends(s, set)

(* _integer_auto_scales: the multiples of max/count, the last one max;     *)
(* empty when there are not enough integers, where the code raises.        *)
IntegerScales(max, count) ==
    IF max < count THEN <<>>
    ELSE [i \in 1 .. count |-> IF i = count THEN max ELSE Max({1, (max * i) \div count})]

(* The scales asked for: --input-scales, or the smallest default when the  *)
(* policy is "minimal"; none leaves the choice to the planner.             *)
Manual ==
    IF request.scales # {} THEN request.scales
    ELSE IF request.policy = "minimal" THEN {Min(Range(request.defaults))}
    ELSE {}

Over(w) == request.tokens[w] > request.limit    \* _probe_exceeds_limit

(* Only a text planner depends on the tokenizer; a text planner has no     *)
(* defaults of its own, so "minimal" asks it for the family's smallest.    *)
PlanningRequests ==
    [kind : {"text"}, scales : Requests, policy : {"auto", "minimal"},
     defaults : {<<2>>}, tokens : Tokenizers, limit : Words]
    \cup
    [kind : {"audio", "series", "workload"}, scales : Requests,
     policy : {"auto", "minimal"}, defaults : Defaults,
     tokens : {[w \in Words |-> w]}, limit : Words]

PlanningInit ==
    /\ request \in PlanningRequests
    /\ planAt = "clear" /\ probeOn = FALSE
    /\ planFile \in {<<>>, OldPlan}
    /\ entries = <<>> /\ targets = <<>> /\ rejected = FALSE
    /\ search = NoSearch
    /\ tries = <<>> /\ needed = None /\ verdict = NoVerdict

NoSearchYet == UNCHANGED <<tries, needed, verdict>>
Failing(at) == planAt' = at /\ UNCHANGED <<entries, targets, rejected, search>>

-----------------------------------------------------------------------------
(* _plan_input_scales: the old plan goes first, then a planner is chosen.  *)
(* A workload's own scales are taken in its order; text, audio and         *)
(* forecasting plans need a probe container.                               *)
ChoosePlanner ==
    /\ planAt = "clear"
    /\ planFile' = <<>>
    /\ targets' = IF Manual # {} THEN Ascending(Manual)
                  ELSE IF kind = "audio" THEN Ascending(Range(request.defaults))
                  ELSE IF kind = "workload" THEN request.defaults
                  ELSE <<>>
    /\ planAt' = IF kind = "workload" THEN "materialize" ELSE "start"
    /\ UNCHANGED <<request, probeOn, entries, rejected, search>> /\ NoSearchYet

(* _start_probe_session, with the largest resources asked for; a start     *)
(* that fails leaves no container behind.                                  *)
StartProbe ==
    /\ planAt = "start"
    /\ \/ /\ probeOn' = TRUE
          /\ planAt' = IF kind = "text" /\ targets # <<>> THEN "manual" ELSE "meta"
       \/ probeOn' = FALSE /\ planAt' = "failed"
    /\ UNCHANGED <<request, planFile, entries, targets, rejected, search>> /\ NoSearchYet

(* Any request may go unanswered, or be answered with an error or without  *)
(* a field the parser needs: the finally clause stops the container.       *)
Unanswered ==
    /\ planAt \in {"meta", "manual", "check", "search", "upper"}
    /\ planAt = "manual" => targets # <<>>
    /\ planAt = "search" => search.left =< search.right
    /\ Failing("abandon")
    /\ UNCHANGED <<request, probeOn, planFile>> /\ NoSearchYet

(* /scale_meta: the limit.  Text targets divide it; an audio scale longer  *)
(* than it, or a sampling rate the model does not take, ends planning; a   *)
(* forecasting plan needs no further request.                              *)
ScaleMeta ==
    /\ planAt = "meta"
    /\ LET auto == IntegerScales(request.limit, ScaleCount) IN
       CASE kind = "text" ->
              /\ targets' = auto
              /\ search' = IF auto = <<>> THEN NoSearch
                           ELSE [left |-> 1, right |-> auto[1], best |-> None]
              /\ planAt' = IF auto = <<>> THEN "abandon" ELSE "search"
         [] kind = "audio" ->
              /\ \/ /\ \A i \in DOMAIN targets : targets[i] =< 2 * request.limit
                    /\ planAt' = "check"
                 \/ planAt' = "abandon"
              /\ UNCHANGED <<targets, search>>
         [] kind = "series" ->
              planAt' = "stop" /\ UNCHANGED <<targets, search>>
    /\ UNCHANGED <<request, probeOn, planFile, entries, rejected>> /\ NoSearchYet

(* _plan_manual_nlp_scales probes every scale before it reports those over *)
(* the limit; generate() truncates a scale to a word count.                *)
ProbeManual ==
    /\ planAt = "manual"
    /\ IF targets = <<>>
       THEN /\ planAt' = IF rejected THEN "abandon" ELSE "stop"
            /\ UNCHANGED <<entries, targets, rejected>>
       ELSE LET w == Max({1, Head(targets) \div 2}) IN
            /\ targets' = Tail(targets)
            /\ rejected' = (rejected \/ Over(w))
            /\ entries' = IF Over(w) THEN entries
                          ELSE Append(entries, [scale |-> request.tokens[w], words |-> w])
            /\ UNCHANGED planAt
    /\ UNCHANGED <<request, probeOn, planFile, search>> /\ NoSearchYet

(* _plan_audio_scales: the container must find the duration that was asked *)
(* for in the payload.                                                     *)
CheckAudio ==
    /\ planAt = "check"
    /\ \/ /\ entries' = Append(entries, [scale |-> targets[1 + Len(entries)], words |-> None])
          /\ planAt' = IF Len(entries') = Len(targets) THEN "stop" ELSE "check"
       \/ planAt' = "abandon" /\ UNCHANGED entries
    /\ UNCHANGED <<request, probeOn, planFile, targets, rejected, search>> /\ NoSearchYet

(* Mutant of Bisect: a text that is over the target counts as below it.    *)
Bisect_Loose ==
    /\ planAt = "search"
    /\ IF search.left > search.right
       THEN planAt' = "upper" /\ UNCHANGED search
       ELSE LET mid == (search.left + search.right) \div 2 IN
            /\ search' = IF ~Over(mid) THEN [search EXCEPT !.best = mid, !.left = mid + 1]
                         ELSE [search EXCEPT !.right = mid - 1]
            /\ UNCHANGED planAt
    /\ UNCHANGED <<request, probeOn, planFile, entries, targets, rejected>> /\ NoSearchYet

(* find_best_candidate, one bisection step: the word counts from left to   *)
(* right are open, best is the largest known to stay at or below target.   *)
Bisect ==
    /\ planAt = "search"
    /\ IF search.left > search.right
       THEN planAt' = "upper" /\ UNCHANGED <<search>>
       ELSE LET mid == (search.left + search.right) \div 2
                fits == ~Over(mid) /\ request.tokens[mid] =< Head(targets)
            IN  /\ search' = IF fits THEN [search EXCEPT !.best = mid, !.left = mid + 1]
                             ELSE [search EXCEPT !.right = mid - 1]
                /\ UNCHANGED planAt
    /\ UNCHANGED <<request, probeOn, planFile, entries, targets, rejected>> /\ NoSearchYet

(* The candidate above best is asked too; the nearer of the two is taken,  *)
(* the larger when they are as near.                                       *)
Candidates(target) ==
    LET upper == IF search.best = None THEN 1 ELSE Min({target, search.best + 1})
    IN  {w \in {search.best, upper} \ {None} : ~Over(w)}
Distance(w, target) ==
    LET t == request.tokens[w] IN IF t > target THEN t - target ELSE target - t
Nearest(ws, target) ==
    CHOOSE w \in ws : \A v \in ws :
        \/ Distance(w, target) < Distance(v, target)
        \/ /\ Distance(w, target) = Distance(v, target)
           /\ request.tokens[w] >= request.tokens[v]

(* The chosen candidate must be larger than the last one.  The plan is     *)
(* written while the container still runs.                                 *)
TakeCandidate ==
    /\ planAt = "upper"
    /\ LET target == Head(targets)
           found == Candidates(target)
           w == Nearest(found, target)
           grown == Append(entries, [scale |-> request.tokens[w], words |-> w])
       IN  IF found = {} \/ (entries # <<>> /\ request.tokens[w] =< entries[Len(entries)].scale)
           THEN Failing("abandon") /\ UNCHANGED planFile
           ELSE /\ entries' = grown
                /\ targets' = Tail(targets)
                /\ IF Tail(targets) = <<>>
                   THEN planAt' = "stop" /\ planFile' = grown /\ search' = NoSearch
                   ELSE /\ planAt' = "search" /\ UNCHANGED planFile
                        /\ search' = [left |-> 1, right |-> targets[2], best |-> None]
                /\ UNCHANGED rejected
    /\ UNCHANGED <<request, probeOn>> /\ NoSearchYet

(* stop_container_session, in the finally clause: a removal that cannot be *)
(* confirmed fails the planner, whatever it had reached.                   *)
StopProbe ==
    /\ planAt \in {"stop", "abandon"}
    /\ \/ probeOn' = FALSE
       \/ probeOn' = TRUE
    /\ planAt' = IF probeOn' \/ planAt = "abandon" THEN "failed"
                 ELSE IF kind = "text" /\ Manual = {} THEN "planned"
                 ELSE IF kind = "text" THEN "write"
                 ELSE "materialize"
    /\ UNCHANGED <<request, planFile, entries, targets, rejected, search>> /\ NoSearchYet

(* _write_scale_plan_file for a manual text plan.                          *)
WritePlan ==
    /\ planAt = "write"
    /\ planFile' = entries /\ planAt' = "planned"
    /\ UNCHANGED <<request, probeOn, entries, targets, rejected, search>> /\ NoSearchYet

(* A forecasting context is whole and no longer than the model's limit;    *)
(* without manual scales as many as fit are chosen.                        *)
SeriesScales ==
    IF Manual = {}
    THEN [i \in 1 .. Min({ScaleCount, request.limit}) |->
            2 * IntegerScales(request.limit, Min({ScaleCount, request.limit}))[i]]
    ELSE IF \A r \in Manual : Whole(r) /\ r =< 2 * request.limit THEN targets ELSE <<>>

(* _materialize_scale_plan: the payloads are made, and scales that do not  *)
(* increase, or that a generator refuses, end planning.                    *)
Materialize ==
    /\ planAt = "materialize"
    /\ LET scales == IF kind = "series" THEN SeriesScales ELSE targets
           made == [i \in DOMAIN scales |-> [scale |-> scales[i], words |-> None]]
       IN  \/ /\ scales # <<>>
              /\ \A i \in 2 .. Len(scales) : scales[i - 1] < scales[i]
              /\ entries' = made /\ planFile' = made /\ planAt' = "planned"
           \/ planAt' = "failed" /\ UNCHANGED <<entries, planFile>>
    /\ UNCHANGED <<request, probeOn, targets, rejected, search>> /\ NoSearchYet

-----------------------------------------------------------------------------
(* run_largest_scale_probe: the scan of a plan that was materialized.      *)
Scanning == UNCHANGED <<request, planFile, entries, targets, rejected, search>>

(* The memory the largest entry really needs is the machine's choice.      *)
BeginScan ==
    /\ planAt = "planned"
    /\ planAt' = "scan"
    /\ needed' \in 1 .. Max(Memories) + 1
    /\ UNCHANGED <<probeOn, tries, verdict>> /\ Scanning

(* The candidates in the order they are tried.                             *)
Candidate == Ascending(Memories)[1 + Len(tries)]

(* _probe_memory_candidate: too little memory is an OOM, of the start or   *)
(* of the request, unless something else ends the attempt first; enough    *)
(* memory answers or fails otherwise.                                      *)
ProbeOutcomes(m) == {"timeout", "cuda_oom", "error"}
                    \cup IF m < needed THEN {"startup_oom", "runtime_oom"} ELSE {"ok"}
Retryable == {"startup_oom", "runtime_oom"}

TryMemory ==
    /\ planAt = "scan"
    /\ \E status \in ProbeOutcomes(Candidate) :
          /\ tries' = Append(tries, [mem |-> Candidate, status |-> status])
          /\ probeOn' = (status # "startup_oom")
    /\ planAt' = "release"
    /\ UNCHANGED <<needed, verdict>> /\ Scanning

(* The candidate's container goes before its status counts.  Only a lack   *)
(* of memory is worth another candidate; the summary says "oom" when every *)
(* candidate lacked memory.                                                *)
NextMemory ==
    /\ planAt = "release"
    /\ \/ probeOn' = TRUE /\ probeOn /\ planAt' = "failed" /\ UNCHANGED verdict
       \/ /\ probeOn' = FALSE
          /\ LET status == tries[Len(tries)].status
                 exhausted == Len(tries) = Cardinality(Memories)
             IN  IF status \in Retryable /\ ~exhausted
                 THEN planAt' = "scan" /\ UNCHANGED verdict
                 ELSE /\ planAt' = "scanned"
                      /\ verdict' = IF status = "ok" THEN [status |-> "ok", mem |-> tries[Len(tries)].mem]
                                    ELSE IF status \in Retryable THEN [status |-> "oom", mem |-> None]
                                    ELSE [status |-> status, mem |-> None]
    /\ UNCHANGED <<tries, needed>> /\ Scanning

PlanningNext ==
    \/ ChoosePlanner \/ StartProbe \/ Unanswered \/ ScaleMeta \/ ProbeManual
    \/ CheckAudio \/ Bisect \/ TakeCandidate \/ StopProbe \/ WritePlan
    \/ Materialize \/ BeginScan \/ TryMemory \/ NextMemory

PlanningSpec == PlanningInit /\ [][PlanningNext]_planVars

-----------------------------------------------------------------------------
Planned == planAt \in {"planned", "scan", "release", "scanned"}

(* What an automatic text plan promises: ScaleCount inputs that the model  *)
(* takes whole, each as near to its target as any text of at most so many  *)
(* words, and each larger than the one before.                             *)
NearestToTargets ==
    LET auto == IntegerScales(request.limit, ScaleCount) IN
    /\ Len(entries) = ScaleCount
    /\ \A i \in DOMAIN entries :
          /\ ~Over(entries[i].words)
          /\ \A w \in 1 .. auto[i] :
                ~Over(w) => Distance(entries[i].words, auto[i]) =< Distance(w, auto[i])
          /\ i > 1 => entries[i].scale > entries[i - 1].scale

(* A memory size is the answer only if it suffices and no smaller one of   *)
(* the candidates does; "oom" means that none does.                        *)
SmallestThatWorks ==
    /\ verdict.status = "ok" =>
          /\ verdict.mem >= needed
          /\ \A m \in Memories : m < verdict.mem => m < needed
    /\ verdict.status = "oom" => \A m \in Memories : m < needed

(* PLAN EARNED.  Planning either fails, leaving no plan of this or of an   *)
(* earlier attempt unless the container of a finished text plan could not  *)
(* be removed, or ends with its container gone and on file exactly the     *)
(* entries that were checked: within the model's limit, and for an         *)
(* automatic text plan the best ones there are.  The memory scan names the *)
(* smallest size that works (plan_input_scales, run_largest_scale_probe).  *)
PlanIsEarned ==
    /\ planAt # "clear" => planFile # OldPlan
    /\ planAt = "failed" /\ ~probeOn => planFile = <<>>
    /\ Planned => planFile = entries /\ entries # <<>>
    /\ planAt \in {"planned", "scan", "scanned"} => ~probeOn
    /\ Planned /\ kind = "text" => \A i \in DOMAIN entries : ~Over(entries[i].words)
    /\ Planned /\ kind = "text" /\ Manual = {} => NearestToTargets
    /\ SmallestThatWorks

(* EACH SCALE ONCE.  No two entries of a plan have the same scale.  The    *)
(* results are keyed by configuration and scale (result_csv), so a plan    *)
(* with a duplicate cannot be completed; _materialize_scale_plan and the   *)
(* automatic text planner refuse one, the manual text planner does not.    *)
EachScaleOnce ==
    Planned => \A i, j \in DOMAIN entries : entries[i].scale = entries[j].scale => i = j

=============================================================================
