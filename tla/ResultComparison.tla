--------------------------- MODULE ResultComparison ---------------------------
(* What may be said of measurements that were not made together.            *)
(*                                                                          *)
(* `acprof compare` reads independent runs of two experiments one after     *)
(* another while nothing keeps others from writing into their directories:  *)
(* it remembers what it read, judges every run against the first of the     *)
(* left group for the purpose that was asked and against the first of its   *)
(* own group strictly, and hashes every file again before it publishes.     *)
(* `acprof report` reads finished results under the measurement lock and    *)
(* puts configurations into groups that may be ranked together.             *)
(* One metric and one input scale; windows are the formal ones.  A case is  *)
(* a pair <<quota, device>>.  Identifiers, digests, means and resampling    *)
(* are data: a digest is what it is taken of.                               *)
EXTENDS Naturals, Sequences, FiniteSets, FiniteSetsExt, TLC

CONSTANTS
    Left, Right,            \* the directories given, in order
    Studies,                \* functions from directories to what they may hold
    NextContents(_),        \* what others may make of an experiment
    Purposes,
    MinReplicates,          \* below it no interval (3 in the code)
    MaxRewrites,            \* bounds what others do meanwhile
    Unrecorded, NoValue

VARIABLES
    results,        \* directory -> the experiment in it now
    purpose,
    stage,          \* where compare_experiments stands
    turn,           \* the directory it is at, an index into Experiments
    runIds, state,  \* the run IDs it has seen, and the last status
    evidence,       \* what the audit said of the last
    prints,         \* the fingerprints it took
    rowsRead,       \* the rows it read last
    checks,         \* statuses of the condition checks, and of the metric
    gathered,       \* per group, side and run: the windows its mean is of
    finding,        \* what it publishes
    cohorts,        \* the groups of the report
    rewrites

settled == <<results, purpose, finding, cohorts, rewrites>>
readings == <<runIds, state, evidence, prints, rowsRead, checks, gathered>>
comparisonVars == <<settled, stage, turn, readings>>

Experiments == Left \o Right
Side(i) == IF i <= Len(Left) THEN "left" ELSE "right"
FirstOf(i) == IF Side(i) = "left" THEN Left[1] ELSE Right[1]
Whole == <<"any", "any">>               \* no case selected
ThisRun == Experiments[turn]
-----------------------------------------------------------------------------
(* conditions.py: the evidence of an experiment as checks, by name and case. *)
(* A check whose value is unknown never counts as equal.                     *)
Leaves(name, map) ==
    IF map = Unrecorded THEN [key \in {<<name, Whole>>} |-> Unrecorded]
                        ELSE [key \in {<<name, k>> : k \in DOMAIN map} |-> map[key[2]]]
Leaf(name, value) == Leaves(name, [k \in {Whole} |-> value])

\* What the purpose expects to differ.
AllowedFor(name, for) == <<name, for>> \in {<<"quotas", "resource-scaling">>, <<"policy", "cross-hardware">>}

FullyKnown(map) == map # Unrecorded /\ \A k \in DOMAIN map : map[k] # Unrecorded

\* The case that was selected, if one was.
ForCase(map, case) ==
    IF case = Whole \/ map = Unrecorded THEN map
    ELSE [c \in {case} |-> IF c \in DOMAIN map THEN map[c] ELSE Unrecorded]

\* resource-scaling: quotas are coordinates; what differs under them stays visible.
DevicesOf(map) == {<<"any", k[2]>> : k \in DOMAIN map}
Under(map, device) == {map[k] : k \in {j \in DOMAIN map : j[2] = device[2]}}
ByDevice(map) ==
    IF map = Unrecorded THEN Unrecorded
    ELSE [d \in DevicesOf(map) |-> IF Unrecorded \in Under(map, d) THEN Unrecorded ELSE [each |-> Under(map, d)]]

\* What the service was seen to use comes before what a probe of it used.
Threads(e, case, for) ==
    LET seen == ForCase(e.threads, case)
    IN  IF for = "resource-scaling" /\ FullyKnown(e.threads) THEN ByDevice(seen)
        ELSE IF FullyKnown(seen) THEN seen ELSE e.probe

ProfileChecks(e, case, for) ==
    LET Facts(map) == IF for = "resource-scaling" THEN ByDevice(ForCase(map, case)) ELSE ForCase(map, case)
        policy == ForCase(e.policy, case)
    IN  Leaf("class", e.class) @@ Leaf("inputs", e.inputs) @@ Leaf("protocol", e.protocol)
        @@ Leaf("quotas", IF case = Whole THEN e.quotas ELSE {case[1]})
        @@ Leaf("devices", IF case = Whole THEN e.devices ELSE {case[2]})
        @@ Leaves("runtime", Threads(e, case, for)) @@ Leaves("threads", Facts(e.threads))
        @@ IF for = "cross-hardware" THEN Leaf("policy", IF FullyKnown(policy) THEN policy ELSE Unrecorded)
                                     ELSE Leaves("policy", Facts(e.policy))
-----------------------------------------------------------------------------
(* The requests that were really served: per case a bag of contracts, of     *)
(* which the shares count and not the numbers.                               *)
Count(bag, contracts) == MapThenSumSet(LAMBDA c : bag[c], contracts)
SameShares(a, b, View(_)) ==
    \A v \in {View(c) : c \in DOMAIN a \cup DOMAIN b} :
        Count(a, {c \in DOMAIN a : View(c) = v}) * Count(b, DOMAIN b)
            = Count(b, {c \in DOMAIN b : View(c) = v}) * Count(a, DOMAIN a)
Itself(contract) == contract
Distributed(a, b) == SameShares(a, b, Itself)

Fields(contract) == {f \in {"input", "output"} : contract[f] # Unrecorded}
Complete(bag) == \A c \in DOMAIN bag : Fields(c) = {"input", "output"}
\* Only tasks of a fixed output are held to it.
Controlled(contract) == Fields(contract) \ IF contract.fixed THEN {} ELSE {"output"}

\* workload_profiles: a bag for every case or device, more than one if they differ.
Workload(e, case, for) ==
    IF e.work = Unrecorded \/ (case # Whole /\ case \notin DOMAIN e.work) THEN Unrecorded
    ELSE LET work == ForCase(e.work, case)
         IN  IF for = "resource-scaling" THEN [d \in DevicesOf(work) |-> Under(work, d)]
                                         ELSE [c \in DOMAIN work |-> {work[c]}]
Ambiguous(bags) == \E a, b \in bags : ~Distributed(a, b)

WorkloadStatus(left, right) ==
    IF left = Unrecorded \/ right = Unrecorded THEN "unknown"
    ELSE IF DOMAIN left # DOMAIN right THEN "incompatible"
    ELSE LET plain == {k \in DOMAIN left : ~Ambiguous(left[k]) /\ ~Ambiguous(right[k])}
             First(bags) == CHOOSE b \in bags : TRUE
             Differ(a, b) ==
                 LET known == {f \in {"input", "output"} : \A c \in DOMAIN a \cup DOMAIN b : f \in Fields(c)}
                     View(c) == [f \in {"input", "output"} |->
                                    IF f \in known \cap Controlled(c) THEN c[f] ELSE Unrecorded]
                 IN  ~SameShares(a, b, View)
             Verified(a, b) == Complete(a) /\ Complete(b) /\ Distributed(a, b)
         IN  IF \E k \in plain : Differ(First(left[k]), First(right[k])) THEN "incompatible"
             ELSE IF \A k \in DOMAIN left : k \in plain /\ Verified(First(left[k]), First(right[k]))
                  THEN "compatible" ELSE "unknown"
-----------------------------------------------------------------------------
(* audit_result: files that cannot be read or rows that contradict           *)
(* themselves (not sound), failures on record, rows that are not those of    *)
(* the plan or of the environment, loading checks that ended in an error.    *)
Keys(windows) == {<<w.case, w.id>> : w \in windows}
Audited(e) ==
    /\ e.sound /\ ~e.failed
    /\ e.planned # Unrecorded => Keys(e.windows) = e.planned
    /\ e.rowClass \in {Unrecorded, e.class}
    /\ e.loading # Unrecorded => "error" \notin e.loading

MeasurementStatus(e) ==
    IF e.planned = Unrecorded THEN "unknown"
    ELSE IF /\ e.state = "complete" /\ Keys(e.windows) = e.planned
            /\ e.windows # {} /\ \A w \in e.windows : w.status = "ok"
         THEN "complete" ELSE "incomplete"

\* quality.py: of the loading checks on record; only tensors left unused are explained.
QualityOf(loading) ==
    IF loading = Unrecorded THEN "unknown"
    ELSE IF "error" \in loading THEN "blocked"
    ELSE IF "odd" \in loading THEN "unknown"
    ELSE IF loading # {} THEN "warning" ELSE "passed"
\* Merged, an unknown member stays visible.
CombinedQuality_Merged(members) == QualityOf(UNION {m \in members : m # Unrecorded})
CombinedQuality(members) ==
    LET each == {QualityOf(m) : m \in members}
    IN  IF "blocked" \in each THEN "blocked" ELSE IF "unknown" \in each THEN "unknown"
        ELSE QualityOf(UNION {m \in members : m # Unrecorded})
-----------------------------------------------------------------------------
\* compare_profiles
CheckStatuses(left, right, for) ==
    LET Status(k) ==
            IF k \notin DOMAIN left \cap DOMAIN right \/ Unrecorded \in {left[k], right[k]} THEN "unknown"
            ELSE IF left[k] = right[k] THEN "compatible"
            ELSE IF AllowedFor(k[1], for) THEN "expected_difference" ELSE "incompatible"
    IN  {Status(k) : k \in DOMAIN left \cup DOMAIN right}

Worst(statuses) ==
    IF "incompatible" \in statuses THEN "incompatible"
    ELSE IF "unknown" \in statuses THEN "unknown" ELSE "compatible"

Qualification(a, b, caseA, caseB, for) ==
    Worst(CheckStatuses(ProfileChecks(a, caseA, for), ProfileChecks(b, caseB, for), for)
          \cup {WorkloadStatus(Workload(a, caseA, for), Workload(b, caseB, for))}
          \cup IF Audited(a) /\ Audited(b) THEN {} ELSE {"incompatible"})

Counts(w) == w.status = "ok" /\ w.value # NoValue
HasMetric(e) == \E w \in e.windows : Counts(w)
\* compare_results: the conditions, and whether the metric can be compared.
Comparison(a, b, for) ==
    LET status == Qualification(a, b, Whole, Whole, for)
    IN  {status} \cup IF status = "compatible" /\ HasMetric(a) /\ HasMetric(b) THEN {} ELSE {"blocked"}
-----------------------------------------------------------------------------
(* compare_experiments                                                       *)
NoFinding == [status |-> "none", groups |-> {}]

ComparisonInit ==
    /\ results \in Studies /\ purpose \in Purposes
    /\ stage = "state" /\ turn = 1 /\ runIds = {} /\ state = Unrecorded /\ evidence = << >>
    /\ prints = << >> /\ rowsRead = {} /\ checks = {} /\ gathered = {}
    /\ finding = NoFinding /\ cohorts = {} /\ rewrites = 0

Refuse == /\ stage' = "refused"
          /\ UNCHANGED <<settled, turn, readings>>

\* A copy of a run is not another run.
NewRun_Copies(e) == e.run # Unrecorded
NewRun(e) == e.run # Unrecorded /\ e.run \notin runIds
ReadState ==
    /\ stage = "state" /\ turn <= Len(Experiments)
    /\ LET e == results[ThisRun]
       IN  \/ ~NewRun(e) /\ Refuse
           \/ /\ NewRun(e)
              /\ runIds' = runIds \cup {e.run} /\ state' = e.state /\ stage' = "print"
              /\ UNCHANGED <<settled, turn, evidence, prints, rowsRead, checks, gathered>>

\* runtime_failures.json and model_resolution.json, which the audit reads, are not among the files.
Evidence(e) == [e EXCEPT !.failed = FALSE]
TakePrint ==
    /\ stage = "print"
    /\ prints' = [i \in 1..turn |-> IF i = turn THEN Evidence(results[ThisRun]) ELSE prints[i]]
    /\ stage' = "rows"
    /\ UNCHANGED <<settled, turn, runIds, state, evidence, rowsRead, checks, gathered>>

\* A table without rows is refused.
ReadRows ==
    /\ stage = "rows"
    /\ LET windows == results[ThisRun].windows
       IN  \/ windows = {} /\ Refuse
           \/ /\ windows # {} /\ rowsRead' = windows /\ stage' = "cross"
              /\ UNCHANGED <<settled, turn, runIds, state, evidence, prints, checks, gathered>>

\* Every run against the first on the left, read again for it.
CheckAcross ==
    /\ stage = "cross"
    /\ LET e == results[ThisRun]
       IN  /\ checks' = checks \cup Comparison(results[Left[1]], e, purpose)
           /\ evidence' = [measured |-> MeasurementStatus(e), loading |-> e.loading]
    /\ stage' = "within"
    /\ UNCHANGED <<settled, turn, runIds, state, prints, rowsRead, gathered>>

\* Replicates are of the same model, image and sources, under the same conditions.
CheckWithin_Skipped ==
    /\ stage = "within" /\ stage' = "collect"
    /\ UNCHANGED <<settled, turn, readings>>
CheckWithin ==
    /\ stage = "within"
    /\ LET base == results[FirstOf(turn)]  e == results[ThisRun]
       IN  checks' = checks \cup Comparison(base, e, "same-hardware")
                            \cup IF base.identity = e.identity THEN {} ELSE {"incompatible"}
    /\ stage' = "collect"
    /\ UNCHANGED <<settled, turn, runIds, state, evidence, prints, rowsRead, gathered>>

Group(case) == IF purpose = "resource-scaling" THEN <<"any", case[2]>> ELSE case
\* Only a complete run has a mean.
MeanOf(case) == IF state = "complete" THEN {w \in rowsRead : w.case = case /\ Counts(w)} ELSE {}
CollectRun ==
    /\ stage = "collect"
    /\ LET cases == {w.case : w \in rowsRead}
           twice == purpose = "resource-scaling" /\ \E c, d \in cases : c # d /\ c[2] = d[2]
       IN  \/ twice /\ Refuse
           \/ /\ ~twice
              /\ gathered' = gathered \cup {[group |-> Group(c), run |-> turn, mean |-> MeanOf(c),
                                             evidence |-> evidence] : c \in cases}
              /\ turn' = turn + 1 /\ stage' = "state"
              /\ UNCHANGED <<settled, runIds, state, evidence, prints, rowsRead, checks>>

ConditionStatus == Worst(checks)
Records(g, side) == {r \in gathered : r.group = g /\ Side(r.run) = side}
\* _aggregate_evidence: of one side of a group
SideOf(g, side) ==
    LET records == Records(g, side)
        measured == {r.evidence.measured : r \in records}
    IN  [means |-> {r \in records : r.mean # {}},
         measured |-> IF "incomplete" \in measured THEN "incomplete"
                      ELSE IF measured = {"complete"} THEN "complete" ELSE "unknown",
         quality |-> IF records = {} THEN "unknown" ELSE CombinedQuality({r.evidence.loading : r \in records})]
Estimate(g) ==
    LET left == SideOf(g, "left")  right == SideOf(g, "right")
        estimated == /\ "blocked" \notin checks /\ ConditionStatus = "compatible"
                     /\ left.means # {} /\ right.means # {}
    IN  [group |-> g, left |-> left, right |-> right, estimated |-> estimated,
         interval |-> /\ estimated /\ Cardinality(left.means) >= MinReplicates
                      /\ Cardinality(right.means) >= MinReplicates]

Unchanged_Asis == TRUE
Unchanged == \A i \in DOMAIN prints : Evidence(results[Experiments[i]]) = prints[i]
PublishComparison ==
    /\ stage = "state" /\ turn > Len(Experiments)
    /\ \/ ~Unchanged /\ Refuse
       \/ /\ Unchanged
          /\ finding' = [status |-> ConditionStatus, groups |-> {Estimate(r.group) : r \in gathered}]
          /\ stage' = "published"
          /\ UNCHANGED <<results, purpose, turn, cohorts, rewrites, readings>>
-----------------------------------------------------------------------------
(* acprof report: the configurations of all results, under the lock          *)
Content(i) == results[Experiments[i]]
Configured == UNION {{<<i, w.case>> : w \in Content(i).windows} : i \in DOMAIN Experiments}
MeasuredIn(i) == {[run |-> Content(i).run, window |-> w.id, case |-> w.case] : w \in Content(i).windows}
Qualified(x, y) == Qualification(Content(x[1]), Content(y[1]), x[2], y[2], purpose) = "compatible"

\* The digest of a profile: what is expected to differ does not enter it.
SameDigest_Conditions(x, y) ==
    LET checked == [c \in {x, y} |-> ProfileChecks(Content(c[1]), c[2], purpose)]
    IN  /\ DOMAIN checked[x] = DOMAIN checked[y]
        /\ \A k \in DOMAIN checked[x] : AllowedFor(k[1], purpose) \/ checked[x][k] = checked[y][k]
SameDigest(x, y) ==
    LET checked == [c \in {x, y} |-> ProfileChecks(Content(c[1]), c[2], purpose)]
        work == [c \in {x, y} |-> Workload(Content(c[1]), c[2], purpose)]
    IN  /\ DOMAIN checked[x] = DOMAIN checked[y] /\ DOMAIN work[x] = DOMAIN work[y]
        /\ \A k \in DOMAIN checked[x] : AllowedFor(k[1], purpose) \/ checked[x][k] = checked[y][k]
        /\ \A k \in DOMAIN work[x] : \A a \in work[x][k], b \in work[y][k] : Distributed(a, b)
Documented == {x \in Configured : Qualified(x, x)}
\* A configuration with incomplete evidence is a group of its own.
Cohorts == LET documented == Documented
           IN  {IF x \in documented THEN {y \in documented : SameDigest(x, y)} ELSE {x} : x \in Configured}

ReportMatrix ==
    /\ stage = "state" /\ turn = 1
    /\ LET empty == \E i \in DOMAIN Experiments : Content(i).windows = {}
           repeated == \E i, j \in DOMAIN Experiments : i # j /\ MeasuredIn(i) \cap MeasuredIn(j) # {}
       IN  \/ (empty \/ repeated) /\ Refuse
           \/ /\ ~empty /\ ~repeated
              /\ cohorts' = Cohorts /\ stage' = "reported"
              /\ UNCHANGED <<results, purpose, turn, finding, rewrites, readings>>

\* Any other command, meanwhile: a run that completes, a profile, a failure.
Rewrite ==
    /\ stage \notin {"refused", "published", "reported"} /\ rewrites < MaxRewrites
    /\ \E d \in DOMAIN results : \E e \in NextContents(results[d]) : results' = [results EXCEPT ![d] = e]
    /\ rewrites' = rewrites + 1
    /\ UNCHANGED <<purpose, stage, turn, finding, cohorts, readings>>

ComparisonNext ==
    \/ ReadState \/ TakePrint \/ ReadRows \/ CheckAcross \/ CheckWithin \/ CollectRun \/ PublishComparison
    \/ ReportMatrix \/ Rewrite
-----------------------------------------------------------------------------
(* What it takes to say that one is faster: nothing about conditions is      *)
(* unknown, and whatever was not asked to differ is the same, request by     *)
(* request; here without checks, keys or projections.                        *)
SameRequests(a, b) ==
    LET Times(bag, c) == IF c \in DOMAIN bag THEN bag[c] ELSE 0
    IN  \E c \in DOMAIN a : /\ Times(b, c) > 0
                            /\ \A d \in DOMAIN a \cup DOMAIN b : Times(a, d) * Times(b, c) = Times(b, d) * Times(a, c)
Matching(a, b, caseA, caseB, for) ==
    LET Pairs == {<<c, d>> \in (IF caseA = Whole THEN DOMAIN a.policy ELSE {caseA})
                               \X (IF caseB = Whole THEN DOMAIN b.policy ELSE {caseB}) :
                     IF for = "resource-scaling" THEN c[2] = d[2] ELSE c = d}
    IN  /\ a.sound /\ b.sound
        /\ \A f \in {"class", "inputs", "protocol"} : a[f] = b[f] /\ a[f] # Unrecorded
        /\ caseA = Whole => /\ a.devices = b.devices
                            /\ for # "resource-scaling" => a.quotas = b.quotas /\ DOMAIN a.policy = DOMAIN b.policy
        /\ Pairs # {} /\ a.work # Unrecorded /\ b.work # Unrecorded
        /\ \A p \in Pairs :
              LET c == p[1]  d == p[2]
              IN  /\ a.policy[c] # Unrecorded /\ b.policy[d] # Unrecorded
                  /\ for # "cross-hardware" => a.policy[c] = b.policy[d]
                  /\ a.threads[c] = b.threads[d] /\ a.threads[c] # Unrecorded
                  /\ Complete(a.work[c]) /\ Complete(b.work[d])
                  /\ SameRequests(a.work[c], b.work[d])

(* An estimate of a difference is earned.  Any two of the runs that were     *)
(* compared, not only each with the first, match for the purpose asked, and  *)
(* those of one group match strictly and are of one model and image; no run  *)
(* is counted twice; every mean is of all good windows of a complete run, as *)
(* the files said when they were fingerprinted; an interval has replicates   *)
(* enough on both sides.  A side is called completely measured or free of    *)
(* loading trouble only if each of its runs is.  And what a report groups    *)
(* together matches, with all that could be grouped                          *)
(* (analysis/independent_comparison.py, conditions.py, plotting/view_model.js). *)
EstimatesAreEarned ==
    /\ \A g \in finding.groups : g.estimated =>
          /\ \A i, j \in DOMAIN Experiments :
                /\ Matching(prints[i], prints[j], Whole, Whole, purpose)
                /\ i # j => prints[i].run # prints[j].run
                /\ Side(i) = Side(j) => /\ Matching(prints[i], prints[j], Whole, Whole, "same-hardware")
                                        /\ prints[i].identity = prints[j].identity
          /\ \A m \in g.left.means \cup g.right.means :
                /\ \A n \in g.left.means \cup g.right.means : n.run = m.run => n = m
                /\ prints[m.run].state = "complete"
                /\ \E c \in {w.case : w \in prints[m.run].windows} :
                      /\ Group(c) = g.group
                      /\ m.mean = {w \in prints[m.run].windows : w.case = c /\ Counts(w)}
    /\ \A g \in finding.groups, side \in {"left", "right"} :
          LET runs == {prints[r.run] : r \in Records(g.group, side)}
          IN  /\ g.interval => Cardinality(g[side].means) >= MinReplicates
              /\ g[side].measured = "complete" =>
                    runs # {} /\ \A e \in runs : e.planned \subseteq Keys({w \in e.windows : w.status = "ok"})
              /\ g[side].quality \in {"passed", "warning"} =>
                    \A e \in runs : e.loading # Unrecorded /\ e.loading \subseteq {"unused"}
    /\ \A together \in cohorts : \A x, y \in together :
          x # y => Matching(Content(x[1]), Content(y[1]), x[2], y[2], purpose)
    /\ stage = "reported" =>
          LET documented == Documented
          IN  \A x, y \in documented : Qualified(x, y) => \E together \in cohorts : {x, y} \subseteq together
=============================================================================
