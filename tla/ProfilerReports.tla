--------------------------- MODULE ProfilerReports ---------------------------
(***************************************************************************)
(* How profiler evidence is collected, kept and taken up again:            *)
(* acprof/host/execution_profile.py, compute_profile.py, the collectors    *)
(* profilers/massif.py, nsys.py and ncu.py, and the plans they publish.    *)
(*                                                                         *)
(* An attempt of `acprof profile` goes through the sampled resources and   *)
(* the input scales.  Each pair has its files: the report the container    *)
(* wrote, for NCU the CSV exported from it, and a checkpoint.  The next    *)
(* attempt of an interrupted or partly failed collection takes up what the *)
(* files hold; a forced one measures everything again.  The plan is        *)
(* published at the end and expanded to the whole resource matrix.         *)
(*                                                                         *)
(* A configuration stands for what a report must match: the repeat count   *)
(* (and, folded into it, model revision, image and metrics).  A file names *)
(* the attempt that wrote it: sizes are compared by the code, and two      *)
(* reports of different runs are taken to differ in size.  A container     *)
(* ends with the attempt that started it.                                  *)
(***************************************************************************)
EXTENDS Naturals, FiniteSets, Sequences
LOCAL INSTANCE FiniteSetsExt

CONSTANTS Cpus, Mems,      \* the resource matrix
          Scales,          \* the input scales, each by its place in the plan
          Repeats,         \* the repeat counts an attempt may ask for
          MaxAttempts      \* bound: attempts on one result directory

ASSUME ReportsAssumption ==
    /\ Cpus \subseteq Nat \ {0} /\ IsFiniteSet(Cpus) /\ Cpus # {}
    /\ Mems \subseteq Nat \ {0} /\ IsFiniteSet(Mems) /\ Mems # {}
    /\ Scales \subseteq Nat \ {0} /\ IsFiniteSet(Scales) /\ Scales # {}

ReportTools == {"massif", "nsys", "ncu"}
ResourceCases == Cpus \X Mems

(* _sampled_resource_cases: the resources that are really profiled.        *)
SampledCases(sampling, reference) ==
    CASE sampling = "full" -> ResourceCases
      [] sampling = "per-cpu-scale" -> Cpus \X {reference[2]}
      [] sampling = "per-scale" -> {reference}

(* _profile_source_resource: the sampled resource a case takes its profile *)
(* from.                                                                   *)
SourceOf(case, sampling, reference) ==
    CASE sampling = "full" -> case
      [] sampling = "per-cpu-scale" -> <<case[1], reference[2]>>
      [] sampling = "per-scale" -> reference

(* NCU profiles one resource configuration, whichever is asked for.        *)
Samplings(tool) ==
    CASE tool = "massif" -> {"full", "per-scale"}
      [] tool = "nsys" -> {"full", "per-cpu-scale", "per-scale"}
      [] tool = "ncu" -> {"per-scale"}

(* _massif_artifact_paths, _ncu_artifact_paths: the names of NCU's files   *)
(* carry no resources.                                                     *)
FileOf(tool, key) == IF tool = "ncu" THEN <<<<0, 0>>, key[2]>> ELSE key
Files == (ResourceCases \cup {<<0, 0>>}) \X Scales

NoFile == [run |-> 0]
NoEntry == [ok |-> FALSE, run |-> 0]

VARIABLES
    tool,        \* the profiler; the directory of one never holds another's
    attempt,     \* how many attempts have begun
    profileAsked, \* the attempt's configuration: repeat, sampling, reference, force
    entryAt,     \* where the attempt stands
    keys,        \* the resources and scales still to be profiled
    collected,   \* the entries of this attempt so far
    report,      \* the .out, .nsys-rep or .ncu-rep of a file name
    export,      \* NCU's CSV
    stamp,       \* the checkpoint
    rawStream,   \* the file names with a raw .qdstrm stream left behind
    profilePlan  \* the published plan: its entries and the configuration

reportVars == <<tool, attempt, profileAsked, entryAt, keys, collected, report, export, stamp,
                rawStream, profilePlan>>

NoAsked == [repeat |-> 0, sampling |-> "full", reference |-> <<0, 0>>, force |-> FALSE]
NoPlan == [asked |-> NoAsked, entries |-> <<>>, of |-> 0]

Asks == [repeat : Repeats, sampling : Samplings(tool), reference : ResourceCases, force : BOOLEAN]
KeysOf(a) == SampledCases(a.sampling, a.reference) \X Scales

(* The collectors go through the resources, then the scales, in order.     *)
Before(j, k) ==
    \/ j[1][1] < k[1][1]
    \/ j[1][1] = k[1][1] /\ j[1][2] < k[1][2]
    \/ j[1] = k[1] /\ j[2] < k[2]
key == CHOOSE k \in keys : \A j \in keys : j = k \/ Before(k, j)
file == FileOf(tool, key)

ReportsInit ==
    /\ tool \in ReportTools
    /\ attempt = 0 /\ profileAsked = NoAsked /\ entryAt = "idle" /\ keys = {}
    /\ collected = <<>>
    /\ report = [f \in Files |-> NoFile] /\ export = report /\ stamp = report
    /\ rawStream = {} /\ profilePlan = NoPlan

OnDisk == <<report, export, stamp, rawStream>>
OfAttempt == <<tool, attempt, profileAsked, profilePlan>>

(* A plan covers the tool when every case finds an entry without an error  *)
(* (compute_plan_covers_tool, execution_plan_covers_tool).                 *)
EntryFor(plan, case, scale) ==
    plan.entries[<<SourceOf(case, plan.asked.sampling, plan.asked.reference), scale>>]
Covers(plan) ==
    /\ plan # NoPlan
    /\ \A c \in ResourceCases, s \in Scales : EntryFor(plan, c, s).ok

-----------------------------------------------------------------------------
(* run_posthoc_profile: a complete plan is taken as it is, whatever was    *)
(* asked for.                                                              *)
ReusePlan ==
    /\ entryAt = "idle" /\ attempt < MaxAttempts
    /\ attempt' = attempt + 1
    /\ Covers(profilePlan)
    /\ UNCHANGED <<tool, profileAsked, entryAt, keys, collected, profilePlan>> /\ UNCHANGED OnDisk

(* collect_execution_profile_plan, collect_compute_profile_plan: a missing *)
(* tool or image gives every pair an error and no container.               *)
Begin ==
    /\ entryAt = "idle" /\ attempt < MaxAttempts
    /\ attempt' = attempt + 1
    /\ \E a \in Asks :
          /\ a.force \/ ~Covers(profilePlan)
          /\ profileAsked' = a
          /\ \/ entryAt' = "entry" /\ keys' = KeysOf(a) /\ collected' = <<>>
             \/ /\ entryAt' = "publish" /\ keys' = {}
                /\ collected' = [k \in KeysOf(a) |-> NoEntry]
    /\ UNCHANGED <<tool, profilePlan>> /\ UNCHANGED OnDisk

(* The entry of the current pair is settled and the next one begins.       *)
SettleEntry(entry) ==
    /\ collected' = [k \in DOMAIN collected \cup {key} |->
                        IF k = key THEN entry ELSE collected[k]]
    /\ keys' = keys \ {key}
    /\ entryAt' = IF keys' = {} THEN "publish" ELSE "entry"
Later(at) == entryAt' = at /\ UNCHANGED <<keys, collected>>

(* What the resume step parses: the CSV of NCU, the report of Massif.      *)
Data == IF tool = "ncu" THEN export ELSE report
EntryOf(data) == [ok |-> TRUE, run |-> data.run]

(* _write_massif_checkpoint, _write_ncu_checkpoint: the entry, the size of *)
(* the data it came from and the configuration of this attempt.            *)
Stamp(data) ==
    stamp' = [stamp EXCEPT ![file] = [run |-> data.run, repeat |-> profileAsked.repeat]]
Matches == stamp[file].repeat = profileAsked.repeat

(* _resume_massif_entry, _resume_ncu_for_entry: a checkpoint of another    *)
(* configuration sends the pair to a new collection; a matching one is     *)
(* taken if its data have the size it recorded; data without a checkpoint  *)
(* are parsed and given one; NCU exports a report it still finds.          *)
Reusable ==
    IF stamp[file] # NoFile
    THEN /\ Matches /\ Data[file] # NoFile /\ Data[file].run = stamp[file].run
    ELSE Data[file] # NoFile /\ Data[file].reads
Recoverable ==
    tool = "ncu" /\ report[file] # NoFile /\ (stamp[file] # NoFile => Matches)

(* Mutant of Resumes: a forced attempt takes up files as well.             *)
Resumes_Always == entryAt = "entry" /\ tool # "nsys"
Resumes == entryAt = "entry" /\ ~profileAsked.force /\ tool # "nsys"

TakeUp ==
    /\ Resumes /\ Reusable
    /\ SettleEntry(EntryOf(Data[file]))
    /\ IF stamp[file] = NoFile THEN Stamp(Data[file]) ELSE UNCHANGED stamp
    /\ UNCHANGED <<report, export, rawStream>> /\ UNCHANGED OfAttempt

Recover ==
    /\ Resumes /\ ~Reusable /\ Recoverable
    /\ \/ /\ export' = [export EXCEPT ![file] = report[file]]
          /\ IF report[file].reads
             THEN SettleEntry(EntryOf(report[file])) /\ Stamp(report[file])
             ELSE Later("collect") /\ UNCHANGED stamp
       \/ Later("collect") /\ UNCHANGED <<export, stamp>>
    /\ UNCHANGED <<report, rawStream>> /\ UNCHANGED OfAttempt

StartAfresh ==
    /\ entryAt = "entry"
    /\ ~Resumes \/ (~Reusable /\ ~Recoverable)
    /\ Later("collect")
    /\ UNCHANGED OnDisk /\ UNCHANGED OfAttempt

(* The profiler's container.  One that succeeds has written its report;    *)
(* one that fails may have left a part of one, which may parse, and Nsys a *)
(* raw stream.  Nsys may also succeed without importing a report.          *)
Wrote(whole, reads) ==
    report' = [report EXCEPT ![file] =
                  [run |-> attempt, repeat |-> profileAsked.repeat, whole |-> whole, reads |-> reads]]

RunContainer ==
    /\ entryAt = "collect"
    /\ \/ /\ \E reads \in BOOLEAN : Wrote(TRUE, reads)
          /\ Later("parse")
       \/ /\ \/ UNCHANGED report
             \/ \E reads \in BOOLEAN : Wrote(FALSE, reads)
          /\ SettleEntry(NoEntry)
       \/ /\ tool = "nsys" /\ UNCHANGED report
          /\ IF report[file] = NoFile THEN SettleEntry(NoEntry) ELSE Later("parse")
    /\ rawStream' = rawStream \ {file}
    /\ UNCHANGED <<export, stamp>> /\ UNCHANGED OfAttempt

(* _massif_entry_from_report, _export_ncu_report and _ncu_entry_from_csv,  *)
(* _run_nsys_stats: the report is parsed, by NCU after an export that may  *)
(* fail; a complete entry gets its checkpoint, which Nsys does not keep.   *)
ParseReport ==
    /\ entryAt = "parse"
    /\ \/ /\ export' = IF tool = "ncu" THEN [export EXCEPT ![file] = report[file]] ELSE export
          /\ IF report[file].reads
             THEN /\ SettleEntry(EntryOf(report[file]))
                  /\ IF tool = "nsys" THEN UNCHANGED stamp ELSE Stamp(report[file])
             ELSE SettleEntry(NoEntry) /\ UNCHANGED stamp
       \/ tool # "massif" /\ SettleEntry(NoEntry) /\ UNCHANGED <<export, stamp>>
    /\ UNCHANGED <<report, rawStream>> /\ UNCHANGED OfAttempt

(* write_profile_json, after every pair has its entry.                     *)
PublishPlan ==
    /\ entryAt = "publish"
    /\ profilePlan' = [asked |-> profileAsked, entries |-> collected, of |-> attempt]
    /\ entryAt' = "idle" /\ collected' = <<>> /\ profileAsked' = NoAsked
    /\ UNCHANGED keys /\ UNCHANGED OnDisk /\ UNCHANGED <<tool, attempt>>

(* The process is stopped between two steps, or while a container runs,    *)
(* which may have written part of its report, or between the report and    *)
(* the checkpoint.                                                         *)
Stopped ==
    /\ entryAt # "idle"
    /\ IF entryAt = "collect"
       THEN /\ \/ UNCHANGED report
               \/ \E reads \in BOOLEAN : Wrote(FALSE, reads)
            /\ rawStream' \in {rawStream, IF tool = "nsys" THEN rawStream \cup {file} ELSE rawStream}
       ELSE UNCHANGED <<report, rawStream>>
    /\ export' \in {export, IF entryAt = "parse" /\ tool = "ncu"
                            THEN [export EXCEPT ![file] = report[file]] ELSE export}
    /\ entryAt' = "idle" /\ keys' = {} /\ collected' = <<>> /\ profileAsked' = NoAsked
    /\ UNCHANGED <<tool, attempt, stamp, profilePlan>>

ReportsNext ==
    \/ ReusePlan \/ Begin \/ TakeUp \/ Recover \/ StartAfresh
    \/ RunContainer \/ ParseReport \/ PublishPlan \/ Stopped

ReportsSpec == ReportsInit /\ [][ReportsNext]_reportVars

-----------------------------------------------------------------------------
Entries(plan) == {plan.entries[k] : k \in DOMAIN plan.entries}

(* EVIDENCE IN ORDER.  A published plan has an entry, a value or an error, *)
(* for the source of every case of the matrix: no failed or interrupted    *)
(* pair loses the others.  The values of a forced Massif or NCU plan were  *)
(* all measured by the attempt that published it (--force-reprofile), and  *)
(* no raw Nsys stream, of this or of a stopped attempt, outlives a value   *)
(* of its pair.                                                            *)
EvidenceInOrder ==
    /\ profilePlan # NoPlan =>
          \A c \in ResourceCases, s \in Scales :
             <<SourceOf(c, profilePlan.asked.sampling, profilePlan.asked.reference), s>>
                 \in DOMAIN profilePlan.entries
    /\ tool # "nsys" /\ profilePlan.asked.force =>
          \A e \in Entries(profilePlan) : e.ok => e.run = profilePlan.of
    /\ \A k \in DOMAIN collected : collected[k].ok => FileOf(tool, k) \notin rawStream

(* WHAT IS TAKEN UP MATCHES.  docs/Profilers.md:93-95: to restore an old   *)
(* report, model revision, image, resources, repeat and NCU metrics must   *)
(* match.  A checkpoint records the repeat count its data were measured    *)
(* with.                                                                   *)
CheckpointsTellTheTruth ==
    \A f \in Files :
        (stamp[f] # NoFile /\ Data[f] # NoFile /\ Data[f].run = stamp[f].run)
            => Data[f].repeat = stamp[f].repeat
=============================================================================
