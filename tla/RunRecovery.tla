----------------------------- MODULE RunRecovery -----------------------------
(***************************************************************************)
(* The main experiment of AC-Prof as a crash-safe, resumable computation:  *)
(* acprof/host/run_state.py (locks, run_state.json, per-case checkpoints)  *)
(* driven by acprof/cli/run.py and the case loop of                        *)
(* acprof/host/orchestrator.py, for ONE result directory that several host *)
(* processes, of one or of several users, may try to use.                  *)
(*                                                                         *)
(* Disk state survives everything; a process's memory and its two flocks   *)
(* do not survive its death.  A step of a process is what it does between  *)
(* two points where a crash, a failed write or another process can matter: *)
(* one durable effect each.                                                *)
(*                                                                         *)
(* Contents are tokens.  A file written by attempt a carries a; 0 means    *)
(* the file is absent and Foreign means somebody edited it by hand.  A     *)
(* SHA-256 recorded by the code is the token of the content it was taken   *)
(* from.                                                                   *)
(***************************************************************************)
EXTENDS Integers, FiniteSets

CONSTANTS
    Procs,          \* host processes that may run acprof on the directory
    UserOf,         \* UserOf[p]: the uid of p, which names its measurement lock
    NumCases,       \* cases of the frozen matrix, numbered in plan order
    Inferred,       \* cases the plan marks inferred_not_measured
    Idents,         \* what run_options and host_identity may evaluate to
    NoProc,         \* nobody holds the lock
    MaxAttempts,    \* bound: attempts recorded on the directory
    MaxFaults,      \* bound: crashes, exceptions and failed writes
    MaxEdits        \* bound: manual edits of frozen files

ASSUME ConstantsAssumption ==
    /\ UserOf \in [Procs -> {UserOf[p] : p \in Procs}]
    /\ NumCases \in Nat \ {0}
    /\ Inferred \subseteq 1..NumCases
    /\ Idents \subseteq Nat \ {0}
    /\ NoProc \notin Procs
    /\ MaxAttempts \in Nat
    /\ MaxFaults \in Nat
    /\ MaxEdits \in Nat

Cases == 1..NumCases
Attempts == 1..MaxAttempts
Users == {UserOf[p] : p \in Procs}
Foreign == -1
Token == {Foreign, 0} \cup Attempts

VARIABLES
    \* on disk
    rec,            \* run_state.json
    meta,           \* static_meta.json, history, input and profiler plans
    plan,           \* matrix_plan.json: the runtime it was frozen for
    csv,            \* csv[c]: the case's result.csv
    work,           \* work[c]: requests.jsonl in the case's work directory
    kept,           \* kept[c]: raw/requests/<case>.jsonl
    final,          \* final[c]: the rows of c in result_all.csv
    backup,         \* evidence copied below .acprof/recovery
    debris,         \* a temporary file of an interrupted atomic write is left
    \* locks, released by the kernel when their holder dies
    measLock,       \* measLock[u]: /tmp/acprof-measurement-<uid>.lock
    dirLock,        \* .acprof/result.lock
    \* processes
    pc, mem, att, ident, idx,
    \* history and bounds
    attempts,       \* attempts recorded so far
    produced,       \* every piece of evidence ever written
    faults, edits

disk == <<rec, meta, plan, csv, work, kept, final, backup, debris>>
locks == <<measLock, dirLock>>
local == <<pc, mem, att, ident, idx>>
bounds == <<attempts, produced, faults, edits>>
vars == <<rec, meta, plan, csv, work, kept, final, backup, debris,
          measLock, dirLock, pc, mem, att, ident, idx,
          attempts, produced, faults, edits>>
-----------------------------------------------------------------------------
(* The run_state.json record.                                              *)

\* close() could also write "interrupted", but only when an unfinished run
\* returns without an exception, which no path of _run_main does.
Statuses == {"absent", "preparing", "running", "failed", "complete"}
CaseStates == {"none", "archived", "running", "complete"}

CaseRecord == [st : CaseStates, sha : Token]
NoCase == [st |-> "none", sha |-> 0]

RunRecord == [st : Statuses, id : Idents \cup {0}, rt : Token, plan : Token,
              cases : [Cases -> CaseRecord]]
NoRecord == [st |-> "absent", id |-> 0, rt |-> 0, plan |-> 0,
             cases |-> [c \in Cases |-> NoCase]]

CsvFile == [by : Token, rt : Token, id : Idents \cup {0}, full : BOOLEAN]
NoCsv == [by |-> 0, rt |-> 0, id |-> 0, full |-> FALSE]
NoFinal == [c \in Cases |-> NoCsv]

\* A piece of evidence: the rows, the request samples, or (case 0) the
\* preparation artifacts of attempt by.
Evidence == [kind : {"csv", "requests"}, c : Cases, by : Token \ {0}]
            \cup [kind : {"prep"}, c : {0}, by : Token \ {0}]
CsvEvidence(c, a) == [kind |-> "csv", c |-> c, by |-> a]
RequestEvidence(c, a) == [kind |-> "requests", c |-> c, by |-> a]
PrepEvidence(a) == [kind |-> "prep", c |-> 0, by |-> a]

PCs == {"idle", "wantDirNew", "wantDirResume", "openNew", "openResume",
        "attempt", "prepare", "bindRuntime", "plan", "bindPlan", "case",
        "archive", "unlink", "measure", "finish", "record", "gate",
        "cleanup", "closing", "release"}

\* Program points with the directory lock held (the measurement lock too).
Inside == PCs \ {"idle", "wantDirNew", "wantDirResume", "release"}
\* Points of RunState.__init__: an exception here releases the locks at once.
Opening == {"openNew", "openResume", "attempt"}
\* Points where an exception unwinds to RunState.close().
Working == Inside \ (Opening \cup {"closing"})

Goto(p, where) == pc' = [pc EXCEPT ![p] = where]

Init ==
    /\ rec = NoRecord /\ meta = 0 /\ plan = 0
    /\ csv = NoFinal /\ final = NoFinal
    /\ work = [c \in Cases |-> 0] /\ kept = [c \in Cases |-> 0]
    /\ backup = {} /\ debris = FALSE
    /\ measLock = [u \in Users |-> NoProc] /\ dirLock = NoProc
    /\ pc = [p \in Procs |-> "idle"]
    /\ mem = [p \in Procs |-> NoRecord]
    /\ att = [p \in Procs |-> 0]
    /\ ident = [p \in Procs |-> 0]
    /\ idx = [p \in Procs |-> 0]
    /\ attempts = 0 /\ produced = {} /\ faults = 0 /\ edits = 0
-----------------------------------------------------------------------------
(* Durable writes, and what can go wrong.                                  *)

Fault == faults < MaxFaults /\ faults' = faults + 1

\* RunState.save: write-temp, fsync, os.replace.  The record on disk becomes
\* the one in memory, or the write fails and the exception unwinds to close().
Save(p, m, where) ==
    /\ mem' = [mem EXCEPT ![p] = m]
    /\ \/ rec' = m /\ Goto(p, where) /\ UNCHANGED faults
       \/ Fault /\ Goto(p, "closing") /\ UNCHANGED rec

\* The process lets go of what it holds and forgets what it knew.
Forget(p) ==
    /\ Goto(p, "idle")
    /\ mem' = [mem EXCEPT ![p] = NoRecord]
    /\ att' = [att EXCEPT ![p] = 0]
    /\ ident' = [ident EXCEPT ![p] = 0]
    /\ idx' = [idx EXCEPT ![p] = 0]

ReleaseAll(p) ==
    /\ measLock' = [u \in Users |-> IF measLock[u] = p THEN NoProc ELSE measLock[u]]
    /\ dirLock' = IF dirLock = p THEN NoProc ELSE dirLock
-----------------------------------------------------------------------------
(* RunState.__init__                                                       *)

\* The user starts a run.  --resume first reads run_state.json without any
\* lock (only to find the task), so it needs the file to be there.
Launch(p, where) ==
    /\ pc[p] = "idle"
    /\ attempts < MaxAttempts
    /\ measLock[UserOf[p]] = NoProc
    /\ measLock' = [measLock EXCEPT ![UserOf[p]] = p]
    /\ \E i \in Idents : ident' = [ident EXCEPT ![p] = i]
    /\ Goto(p, where)
    /\ UNCHANGED <<dirLock, disk, mem, att, idx, bounds>>

LaunchNew(p) == Launch(p, "wantDirNew")
LaunchResume(p) == rec.st # "absent" /\ Launch(p, "wantDirResume")

AcquireDir(p) ==
    /\ dirLock = NoProc
    /\ dirLock' = p
    /\ Goto(p, IF pc[p] = "wantDirNew" THEN "openNew" ELSE "openResume")
    /\ UNCHANGED <<measLock, disk, mem, att, ident, idx, bounds>>

DirBusy(p) ==
    /\ dirLock # NoProc
    /\ ReleaseAll(p) /\ Forget(p)
    /\ UNCHANGED <<disk, bounds>>

\* flock LOCK_NB on the directory: a busy directory is refused at once.
LockDir(p) ==
    /\ pc[p] \in {"wantDirNew", "wantDirResume"}
    /\ AcquireDir(p) \/ DirBusy(p)

\* ArtifactLayout.check_new_run: nothing but the manifest and the lock.
NewRunAllowed ==
    /\ rec = NoRecord /\ meta = 0 /\ plan = 0 /\ ~debris
    /\ csv = NoFinal /\ final = NoFinal /\ backup = {}
    /\ \A c \in Cases : work[c] = 0 /\ kept[c] = 0

OpenNew(p) ==
    /\ pc[p] = "openNew"
    /\ NewRunAllowed
    /\ mem' = [mem EXCEPT ![p] = [NoRecord EXCEPT !.st = "preparing", !.id = ident[p]]]
    /\ Goto(p, "attempt")
    /\ UNCHANGED <<disk, locks, att, ident, idx, bounds>>

\* Mutant: any preparation artifact counts as measurement evidence.
Phase_CountsPreparation ==
    IF rec.st = "complete" THEN "complete"
    ELSE IF rec.rt # 0 \/ meta # 0 \/ final # NoFinal \/ csv # NoFinal
         THEN "measurement" ELSE "preparation"

\* recovery_phase
Phase ==
    IF rec.st = "complete" THEN "complete"
    ELSE IF \/ rec.rt # 0
            \/ final # NoFinal
            \/ \E c \in Cases : rec.cases[c].st # "none" \/ csv[c] # NoCsv
         THEN "measurement"
         ELSE "preparation"

\* Mutant: the options and host identity are not compared.
Resumable_AnyIdentity(i) ==
    /\ rec.st # "absent"
    /\ Phase = "measurement" => rec.rt # 0
    /\ Phase = "complete" => \A c \in Cases : final[c].full
    /\ rec.plan # 0 => plan = rec.plan
    /\ Phase # "complete" =>
          /\ rec.rt # 0 => meta = rec.rt
          /\ \A c \in Cases : rec.cases[c].st = "complete" => csv[c].by = rec.cases[c].sha

\* validate_resume, for a process whose options and host evaluate to i.
Resumable(i) ==
    /\ rec.st # "absent"
    /\ rec.id = i
    /\ Phase = "measurement" => rec.rt # 0
    /\ Phase = "complete" => \A c \in Cases : final[c].full
    /\ rec.plan # 0 => plan = rec.plan
    /\ Phase # "complete" =>
          /\ rec.rt # 0 => meta = rec.rt
          /\ \A c \in Cases : rec.cases[c].st = "complete" => csv[c].by = rec.cases[c].sha

\* Mutant: only an attempt that never reached close() is archived.
PrepLeftovers_NotAfterFailure ==
    IF meta = 0 \/ rec.st = "failed" THEN {} ELSE {PrepEvidence(meta)}

\* _archive_preparation copies whatever an earlier preparation left behind.
PrepLeftovers == IF meta = 0 THEN {} ELSE {PrepEvidence(meta)}

OpenResume(p) ==
    /\ pc[p] = "openResume"
    /\ Resumable(ident[p])
    /\ \/ /\ Phase = "preparation"
          /\ backup' = backup \cup PrepLeftovers
          /\ mem' = [mem EXCEPT ![p] = [rec EXCEPT !.st = "preparing"]]
       \/ /\ Phase # "preparation"
          /\ mem' = [mem EXCEPT ![p] = rec]
          /\ UNCHANGED backup
    /\ Goto(p, "attempt")
    /\ UNCHANGED <<rec, meta, plan, csv, work, kept, final, debris,
                   locks, att, ident, idx, bounds>>

\* data["attempts"].append(...); save()
RecordAttempt(p) ==
    /\ pc[p] = "attempt"
    /\ attempts < MaxAttempts
    /\ attempts' = attempts + 1
    /\ att' = [att EXCEPT ![p] = attempts + 1]
    /\ rec' = mem[p]
    /\ Goto(p, CASE mem[p].st = "complete" -> "closing"
                 [] mem[p].st # "complete" /\ mem[p].rt # 0 -> "plan"
                 [] OTHER -> "prepare")
    /\ UNCHANGED <<meta, plan, csv, work, kept, final, backup, debris,
                   locks, mem, ident, idx, produced, faults, edits>>

\* Mutant: the except branch of __init__ closes the directory lock only.
Refuse_KeepsMeasurementLock(p) ==
    /\ \/ pc[p] = "openNew" /\ ~NewRunAllowed /\ UNCHANGED faults
       \/ pc[p] = "openResume" /\ ~Resumable(ident[p]) /\ UNCHANGED faults
       \/ pc[p] = "attempt" /\ Fault
    /\ dirLock' = NoProc /\ UNCHANGED measLock /\ Forget(p)
    /\ UNCHANGED <<disk, attempts, produced, edits>>

\* RunStateError, or any other exception, inside __init__: nothing is saved.
Refuse(p) ==
    /\ \/ pc[p] = "openNew" /\ ~NewRunAllowed /\ UNCHANGED faults
       \/ pc[p] = "openResume" /\ ~Resumable(ident[p]) /\ UNCHANGED faults
       \/ pc[p] = "attempt" /\ Fault
    /\ ReleaseAll(p) /\ Forget(p)
    /\ UNCHANGED <<disk, attempts, produced, edits>>
-----------------------------------------------------------------------------
(* Preparation and the frozen matrix plan                                  *)

\* _prepare_runtime writes metadata, history, input and profiler plans.
Prepare(p) ==
    /\ pc[p] = "prepare"
    /\ meta' = att[p]
    /\ produced' = produced \cup {PrepEvidence(att[p])}
    /\ Goto(p, "bindRuntime")
    /\ UNCHANGED <<rec, plan, csv, work, kept, final, backup, debris,
                   locks, mem, att, ident, idx, attempts, faults, edits>>

\* bind_runtime: from here on the experiment has left preparation.
BindRuntime(p) ==
    /\ pc[p] = "bindRuntime"
    /\ Save(p, [mem[p] EXCEPT !.rt = meta, !.st = "running"], "plan")
    /\ UNCHANGED <<meta, plan, csv, work, kept, final, backup, debris,
                   locks, att, ident, idx, attempts, produced, edits>>

\* run_matrix: reuse the frozen plan if it belongs to this runtime, freeze one
\* if no case was ever started, refuse otherwise.
NoCaseStarted(m) == \A c \in Cases : m.cases[c].st = "none"

FreezePlan(p) ==
    /\ pc[p] = "plan"
    /\ \/ plan # 0 /\ plan = mem[p].rt /\ Goto(p, "bindPlan") /\ UNCHANGED plan
       \/ plan = 0 /\ NoCaseStarted(mem[p]) /\ plan' = mem[p].rt /\ Goto(p, "bindPlan")
       \/ /\ IF plan = 0 THEN ~NoCaseStarted(mem[p]) ELSE plan # mem[p].rt
          /\ Goto(p, "closing") /\ UNCHANGED plan
    /\ UNCHANGED <<rec, meta, csv, work, kept, final, backup, debris,
                   locks, mem, att, ident, idx, bounds>>

\* bind_matrix_plan
BindPlan(p) ==
    /\ pc[p] = "bindPlan"
    /\ idx' = [idx EXCEPT ![p] = 1]
    /\ IF mem[p].plan \in {0, plan}
       THEN Save(p, [mem[p] EXCEPT !.plan = plan], "case")
       ELSE Goto(p, "closing") /\ UNCHANGED <<rec, mem, faults>>
    /\ UNCHANGED <<meta, plan, csv, work, kept, final, backup, debris,
                   locks, att, ident, attempts, produced, edits>>
-----------------------------------------------------------------------------
(* The case loop of run_matrix; c is the case at the loop's index.          *)

AtCase(p, where, c) == pc[p] = where /\ idx[p] = c /\ c \in Cases

SetCase(m, c, st, sha) == [m EXCEPT !.cases[c] = [st |-> st, sha |-> sha]]

\* prepare_case on a checkpointed case: verify the CSV against its hash, reuse.
ReuseCase(p, c) ==
    /\ AtCase(p, "case", c)
    /\ mem[p].cases[c].st = "complete"
    /\ IF csv[c].full /\ csv[c].by = mem[p].cases[c].sha
       THEN Goto(p, "case") /\ idx' = [idx EXCEPT ![p] = c + 1]
       ELSE Goto(p, "closing") /\ UNCHANGED idx
    /\ UNCHANGED <<disk, locks, mem, att, ident, bounds>>

\* Mutant: retained samples are taken for those of a finished case.
Leftovers_IgnoresRetained(c) ==
    (IF csv[c] # NoCsv THEN {CsvEvidence(c, csv[c].by)} ELSE {})
    \cup {RequestEvidence(c, a) : a \in {work[c]} \ {0}}

\* What an interrupted attempt left of the case: its CSV and sidecars, the
\* request samples in the work directory, and samples already retained.
Leftovers(c) ==
    (IF csv[c] # NoCsv THEN {CsvEvidence(c, csv[c].by)} ELSE {})
    \cup {RequestEvidence(c, a) : a \in {work[c], kept[c]} \ {0}}

\* prepare_case, first half: every leftover is copied before any is removed.
CopyLeftovers(p, c) ==
    /\ AtCase(p, "case", c)
    /\ mem[p].cases[c].st # "complete"
    /\ Leftovers(c) # {}
    /\ backup' = backup \cup Leftovers(c)
    /\ Goto(p, "archive")
    /\ UNCHANGED <<rec, meta, plan, csv, work, kept, final, debris,
                   locks, mem, att, ident, idx, bounds>>

MarkArchived(p, c) ==
    /\ AtCase(p, "archive", c)
    /\ Save(p, SetCase(mem[p], c, "archived", 0), "unlink")
    /\ UNCHANGED <<meta, plan, csv, work, kept, final, backup, debris,
                   locks, att, ident, idx, attempts, produced, edits>>

\* The leftovers are unlinked one file at a time.
UnlinkLeftover(p, c) ==
    /\ AtCase(p, "unlink", c)
    /\ \/ csv[c] # NoCsv /\ csv' = [csv EXCEPT ![c] = NoCsv] /\ UNCHANGED <<work, kept>>
       \/ work[c] # 0 /\ work' = [work EXCEPT ![c] = 0] /\ UNCHANGED <<csv, kept>>
       \/ kept[c] # 0 /\ kept' = [kept EXCEPT ![c] = 0] /\ UNCHANGED <<csv, work>>
    /\ UNCHANGED <<rec, meta, plan, final, backup, debris, locks, local, bounds>>

\* prepare_case, last step: nothing is left over, the case is marked running.
StartCase(p, c) ==
    /\ \/ AtCase(p, "case", c) /\ mem[p].cases[c].st # "complete"
       \/ AtCase(p, "unlink", c)
    /\ Leftovers(c) = {}
    /\ Save(p, SetCase(mem[p], c, "running", 0), "measure")
    /\ UNCHANGED <<meta, plan, csv, work, kept, final, backup, debris,
                   locks, att, ident, idx, attempts, produced, edits>>

\* A measured case appends request samples before the row they belong to.
AppendRequests(p, c) ==
    /\ AtCase(p, "measure", c)
    /\ c \notin Inferred
    /\ work[c] = 0 /\ csv[c] = NoCsv
    /\ work' = [work EXCEPT ![c] = att[p]]
    /\ produced' = produced \cup {RequestEvidence(c, att[p])}
    /\ UNCHANGED <<rec, meta, plan, csv, kept, final, backup, debris,
                   locks, local, attempts, faults, edits>>

\* The first rows of the CSV: measured rows, or error rows of a case whose
\* container did not start or that the plan infers (these have no requests).
AppendRow(p, c) ==
    /\ AtCase(p, "measure", c)
    /\ csv[c] = NoCsv
    /\ csv' = [csv EXCEPT ![c] = [by |-> att[p], rt |-> mem[p].rt,
                                  id |-> ident[p], full |-> FALSE]]
    /\ produced' = produced \cup {CsvEvidence(c, att[p])}
    /\ UNCHANGED <<rec, meta, plan, work, kept, final, backup, debris,
                   locks, local, attempts, faults, edits>>

\* The rows now cover the plan: the client finished and packet latencies were
\* merged in, or error rows completed what an OOM or timeout cut short.
CompleteCsv(p, c) ==
    /\ AtCase(p, "measure", c)
    /\ csv[c].by = att[p]
    /\ csv' = [csv EXCEPT ![c].full = TRUE]
    /\ Goto(p, "finish")
    /\ UNCHANGED <<rec, meta, plan, work, kept, final, backup, debris,
                   locks, mem, att, ident, idx, bounds>>

\* retain_requests: os.replace work/requests.jsonl -> raw/requests/<case>.jsonl
Retain(c) ==
    /\ kept' = [kept EXCEPT ![c] = IF work[c] # 0 THEN work[c] ELSE kept[c]]
    /\ work' = [work EXCEPT ![c] = 0]

\* finish_case: the CSV must match the planned keys; then the samples move.
FinishCase(p, c) ==
    /\ AtCase(p, "finish", c)
    /\ IF csv[c].full THEN Retain(c) /\ Goto(p, "record")
                      ELSE UNCHANGED <<work, kept>> /\ Goto(p, "closing")
    /\ UNCHANGED <<rec, meta, plan, csv, final, backup, debris,
                   locks, mem, att, ident, idx, bounds>>

\* finish_case: the checkpoint.
RecordCase(p, c) ==
    /\ AtCase(p, "record", c)
    /\ Save(p, SetCase(mem[p], c, "complete", csv[c].by), "case")
    /\ idx' = [idx EXCEPT ![p] = c + 1]
    /\ UNCHANGED <<meta, plan, csv, work, kept, final, backup, debris,
                   locks, att, ident, attempts, produced, edits>>

CaseStep(p) == \E c \in Cases :
    \/ ReuseCase(p, c) \/ CopyLeftovers(p, c) \/ MarkArchived(p, c)
    \/ UnlinkLeftover(p, c) \/ StartCase(p, c)
    \/ AppendRequests(p, c) \/ AppendRow(p, c) \/ CompleteCsv(p, c)
    \/ FinishCase(p, c) \/ RecordCase(p, c)
-----------------------------------------------------------------------------
(* Publication, cleanup and exit                                           *)

\* merge_all_csvs: every case CSV is validated before the atomic replace.
Merge(p) ==
    /\ pc[p] = "case" /\ idx[p] > NumCases
    /\ IF \A c \in Cases : csv[c].full
       THEN final' = csv /\ Goto(p, "gate")
       ELSE Goto(p, "closing") /\ UNCHANGED final
    /\ UNCHANGED <<rec, meta, plan, csv, work, kept, backup, debris,
                   locks, mem, att, ident, idx, bounds>>

\* No required measurement is missing: RunState.finish.
FinishRun(p) ==
    /\ pc[p] = "gate"
    /\ IF \A c \in Cases : final[c].full
       THEN Save(p, [mem[p] EXCEPT !.st = "complete"], "cleanup")
       ELSE Goto(p, "closing") /\ UNCHANGED <<rec, mem, faults>>
    /\ idx' = [idx EXCEPT ![p] = 1]
    /\ UNCHANGED <<meta, plan, csv, work, kept, final, backup, debris,
                   locks, att, ident, attempts, produced, edits>>

\* _cleanup_intermediate_results: retain the samples, then remove the case's
\* temporary files; a file that cannot be removed is only reported.
Cleanup(p) ==
    /\ pc[p] = "cleanup"
    /\ \/ /\ idx[p] \in Cases
          /\ Retain(idx[p])
          /\ \/ csv' = [csv EXCEPT ![idx[p]] = NoCsv] \/ UNCHANGED csv
          /\ idx' = [idx EXCEPT ![p] = idx[p] + 1]
          /\ UNCHANGED pc
       \/ /\ idx[p] > NumCases
          /\ Goto(p, "closing")
          /\ UNCHANGED <<csv, work, kept, idx>>
    /\ UNCHANGED <<rec, meta, plan, final, backup, debris,
                   locks, mem, att, ident, bounds>>

\* An exception, SIGINT or SIGTERM (or a required measurement is missing, or
\* the container cannot be cleaned up) unwinds to close().
Fail(p) ==
    /\ pc[p] \in Working
    /\ Fault
    /\ Goto(p, "closing")
    /\ UNCHANGED <<disk, locks, mem, att, ident, idx, attempts, produced, edits>>

\* Mutant: close() overwrites the status of a complete run.
Close_ForgetsComplete(p) ==
    /\ pc[p] = "closing"
    /\ rec' = [mem[p] EXCEPT !.st = "failed"] /\ UNCHANGED faults
    /\ dirLock' = NoProc
    /\ Goto(p, "release")
    /\ UNCHANGED <<meta, plan, csv, work, kept, final, backup, debris,
                   measLock, mem, att, ident, idx, attempts, produced, edits>>

\* RunState.close: sys.exc_info() is set on every unfinished path, so the
\* outcome is "failed"; a write error is reported and the locks still go.
Close(p) ==
    /\ pc[p] = "closing"
    /\ \/ /\ rec' = [mem[p] EXCEPT !.st = IF @ = "complete" THEN @ ELSE "failed"]
          /\ UNCHANGED faults
       \/ Fault /\ UNCHANGED rec
    /\ dirLock' = NoProc
    /\ Goto(p, "release")
    /\ UNCHANGED <<meta, plan, csv, work, kept, final, backup, debris,
                   measLock, mem, att, ident, idx, attempts, produced, edits>>

Exit(p) ==
    /\ pc[p] = "release"
    /\ ReleaseAll(p) /\ Forget(p)
    /\ UNCHANGED <<disk, bounds>>

\* SIGKILL, power loss: the kernel drops the locks, the disk stays as it is.
\* A crash inside the very first write leaves its temporary file (later ones
\* do too, but only the check for a new run ever looks at them).
Crash(p) ==
    /\ pc[p] # "idle"
    /\ Fault
    /\ debris' \in {debris, debris \/ (pc[p] = "attempt" /\ rec.st = "absent")}
    /\ ReleaseAll(p) /\ Forget(p)
    /\ UNCHANGED <<rec, meta, plan, csv, work, kept, final, backup,
                   attempts, produced, edits>>

\* Nobody holds the directory and somebody edits a frozen file (profilers run
\* after the fact rewrite static_meta.json this way, too).  What was edited
\* away is that editor's loss, not the run's.
Edit ==
    /\ dirLock = NoProc
    /\ edits < MaxEdits /\ edits' = edits + 1
    /\ \/ /\ meta \in Attempts
          /\ meta' = Foreign
          /\ produced' = produced \ {PrepEvidence(meta)}
          /\ UNCHANGED <<plan, csv>>
       \/ /\ plan \in Attempts
          /\ plan' = Foreign
          /\ UNCHANGED <<meta, csv, produced>>
       \/ \E c \in Cases :
          /\ csv[c].by \in Attempts
          /\ csv' = [csv EXCEPT ![c].by = Foreign]
          /\ produced' = produced \ {CsvEvidence(c, csv[c].by)}
          /\ UNCHANGED <<meta, plan>>
    /\ UNCHANGED <<rec, work, kept, final, backup, debris,
                   locks, local, attempts, faults>>
-----------------------------------------------------------------------------
\* What process p does next when nothing fails and nobody interferes.
Step(p) ==
    \/ LockDir(p)
    \/ OpenNew(p) \/ OpenResume(p) \/ RecordAttempt(p) \/ Refuse(p)
    \/ Prepare(p) \/ BindRuntime(p) \/ FreezePlan(p) \/ BindPlan(p)
    \/ CaseStep(p) \/ Merge(p) \/ FinishRun(p) \/ Cleanup(p)
    \/ Close(p) \/ Exit(p)

Next ==
    \/ \E p \in Procs : LaunchNew(p) \/ LaunchResume(p) \/ Step(p) \/ Fail(p) \/ Crash(p)
    \/ Edit

Spec == Init /\ [][Next]_vars

\* A process that is alive keeps running, and the user who launches runs on an
\* unfinished directory sooner or later asks for --resume.
Fairness ==
    \A p \in Procs : WF_vars(Step(p)) /\ SF_vars(LaunchResume(p))

FairSpec == Spec /\ Fairness
-----------------------------------------------------------------------------
(* Properties                                                              *)

\* Every variable keeps its type: what is on disk, the locks, what a process
\* knows, and the bounds.
DiskOK ==
    /\ rec \in RunRecord /\ meta \in Token /\ plan \in Token
    /\ csv \in [Cases -> CsvFile] /\ final \in [Cases -> CsvFile]
    /\ work \in [Cases -> Token] /\ kept \in [Cases -> Token]
    /\ backup \subseteq Evidence /\ produced \subseteq Evidence
    /\ debris \in BOOLEAN

LocksOK ==
    /\ measLock \in [Users -> Procs \cup {NoProc}]
    /\ dirLock \in Procs \cup {NoProc}

LocalOK ==
    /\ pc \in [Procs -> PCs]
    /\ mem \in [Procs -> RunRecord]
    /\ att \in [Procs -> {0} \cup Attempts]
    /\ ident \in [Procs -> Idents \cup {0}]
    /\ idx \in [Procs -> 0..(NumCases + 1)]

BoundsOK ==
    /\ attempts \in 0..MaxAttempts
    /\ faults \in 0..MaxFaults /\ edits \in 0..MaxEdits

TypeOK == DiskOK /\ LocksOK /\ LocalOK /\ BoundsOK

\* Two processes, of the same user or not, are never both past the opening of
\* the same result directory, and no lock outlives the process holding it
\* (ResultDirectoryLock, MeasurementLock and their release on every exit).
LockDiscipline ==
    /\ \A p \in Procs : (pc[p] \in Inside) <=> (dirLock = p)
    /\ \A u \in Users : measLock[u] # NoProc =>
          UserOf[measLock[u]] = u /\ pc[measLock[u]] # "idle"
    /\ \A p \in Procs : pc[p] # "idle" => measLock[UserOf[p]] = p

\* A case that run_state.json calls complete has, until the experiment is
\* published, a full CSV written by the recorded attempt (or edited by hand
\* since) under the bound runtime and identity, and raw/requests holds the
\* samples of that very attempt: never those of an interrupted one.
CheckpointMatchesDisk ==
    rec.st # "complete" =>
        \A c \in Cases : rec.cases[c].st = "complete" =>
            LET a == rec.cases[c].sha IN
            /\ csv[c].full /\ csv[c].by \in {a, Foreign}
            /\ csv[c].rt = rec.rt /\ csv[c].id = rec.id
            /\ kept[c] = IF RequestEvidence(c, a) \in produced THEN a ELSE 0

\* Nothing any attempt ever measured or prepared is lost to a crash, a failed
\* write or a retry: it is in place, in a recovery backup, or its rows are in
\* the published result.
InPlace(e) ==
    \/ e.kind = "prep" /\ meta = e.by
    \/ e.kind = "csv" /\ csv[e.c].by = e.by
    \/ e.kind = "requests" /\ e.by \in {work[e.c], kept[e.c]}

EvidencePreserved ==
    \A e \in produced :
        \/ InPlace(e)
        \/ e \in backup
        \/ e.kind = "csv" /\ rec.st = "complete" /\ final[e.c].by = e.by

\* A published experiment is whole and unmixed: result_all.csv holds, for every
\* case, the full rows of the attempt the checkpoint names, all measured under
\* the one runtime, identity and plan that run_state.json froze.
PublishedResultUnmixed ==
    rec.st = "complete" =>
        /\ rec.rt # 0 /\ rec.plan = rec.rt
        /\ \A c \in Cases :
              /\ rec.cases[c].st = "complete"
              /\ final[c] = [by |-> rec.cases[c].sha, rt |-> rec.rt,
                             id |-> rec.id, full |-> TRUE]

\* The recovery protocol implements the promise of ExperimentPromise: a case
\* is decided when its checkpoint reaches the disk, the experiment is published
\* when status=complete does.
Decided == [c \in Cases |-> IF rec.cases[c].st = "complete" THEN rec.cases[c].sha ELSE 0]
Published == IF rec.st = "complete" THEN [c \in Cases |-> final[c].by] ELSE [c \in Cases |-> 0]

Promise == INSTANCE ExperimentPromise WITH decided <- Decided, published <- Published

KeepsPromise == Promise!PromiseSpec

\* An experiment whose run_state.json exists can always be resumed to the end, on
\* the same host and with the same options, unless somebody edits its frozen
\* files: no sequence of crashes, exceptions and failed writes leaves it unresumable.
AlwaysResumable == rec.st # "absent" ~> (rec.st = "complete" \/ edits > 0)
=============================================================================
