--------------------------- MODULE PosthocBackfill ---------------------------
(***************************************************************************)
(* acprof profile on a finished result directory: acprof/host/posthoc.     *)
(* A run looks for other processes on the directory (find_active_processes),*)
(* reads the result into memory (load_result_context), only then takes the *)
(* locks (PosthocLock), collects, backs the three files up and replaces    *)
(* them one after another (commit_result_files).                           *)
(*                                                                         *)
(* For each profiler, a file says which run filled it in last.  A run is a *)
(* number, given out in the order the runs take the locks.  A run that is  *)
(* started under a relative path is not noticed by the others, so one may  *)
(* read the result while another publishes; over and lost remember that.   *)
(***************************************************************************)
EXTENDS Integers, FiniteSets

CONSTANTS
    Procs,          \* processes that may run acprof profile on the directory
    Tools,          \* profilers
    NoProc,         \* nobody holds the locks
    MaxRuns,        \* bound: runs that take the locks
    MaxFaults       \* bound: what goes wrong while files are replaced

ASSUME ConstantsAssumption ==
    /\ NoProc \notin Procs
    /\ MaxRuns \in Nat /\ MaxFaults \in Nat

Runs == 1..MaxRuns

VARIABLES
    csv,            \* result_all.csv: per tool the last run, and its success
    meta,           \* static_meta.json: per tool the last run
    hist,           \* collection_history.json: posthoc_profile_history
    lock,           \* measurement and result directory lock
    pc,
    run,            \* run[p]: the number of p's run, 0 before the locks
    inFull,         \* inFull[p]: its command line names the directory in full
    want,           \* want[p]: the tools asked for, and --force-reprofile
    ctx,            \* ctx[p]: the result as p has read it
    need,           \* need[p]: tools requiring work
    got,            \* got[p]: those whose profiles are free of errors
    backup,         \* backup[p]: what create_backup copied
    before,         \* history: the files when p got the locks
    over,           \* history: the runs whose work p's reading may have missed
    lost,           \* history: those that such a reading was published over
    runs, faults

vars == <<csv, meta, hist, lock, pc, run, inFull, want, ctx, need, got, backup, before,
          over, lost, runs, faults>>
files == <<csv, meta, hist>>
job == <<run, inFull, want, ctx, need, got, backup, before>>
ghosts == <<over, lost>>

Filled == [by : {0} \cup Runs, ok : BOOLEAN]
Empty == [by |-> 0, ok |-> FALSE]
Record == [run : Runs, tools : SUBSET Tools]
Contents == [csv : [Tools -> Filled], meta : [Tools -> {0} \cup Runs], hist : SUBSET Record]
Wish == [tools : SUBSET Tools, force : BOOLEAN]
NoWish == [tools |-> {}, force |-> FALSE]
Nothing == [csv |-> [t \in Tools |-> Empty], meta |-> [t \in Tools |-> 0], hist |-> {}]

PCs == {"idle", "scan", "readCsv", "readMeta", "readHist", "lock", "collect",
        "backup", "putCsv", "putMeta", "putHist", "undoCsv", "undoBoth", "undoMeta"}

Init ==
    /\ csv = Nothing.csv /\ meta = Nothing.meta /\ hist = {}
    /\ lock = NoProc
    /\ pc = [p \in Procs |-> "idle"]
    /\ run = [p \in Procs |-> 0]
    /\ inFull = [p \in Procs |-> FALSE]
    /\ want = [p \in Procs |-> NoWish]
    /\ ctx = [p \in Procs |-> Nothing]
    /\ need = [p \in Procs |-> {}] /\ got = [p \in Procs |-> {}]
    /\ backup = [p \in Procs |-> Nothing] /\ before = [p \in Procs |-> Nothing]
    /\ over = [p \in Procs |-> {}] /\ lost = {}
    /\ runs = 0 /\ faults = 0

Goto(p, where) == pc' = [pc EXCEPT ![p] = where]
At(p, here, where) == pc[p] = here /\ Goto(p, where)
Fault == faults < MaxFaults /\ faults' = faults + 1

\* The process ends, however: the locks go, its memory is forgotten.
Quit(p) ==
    /\ Goto(p, "idle")
    /\ lock' = IF lock = p THEN NoProc ELSE lock
    /\ run' = [run EXCEPT ![p] = 0]
    /\ inFull' = [inFull EXCEPT ![p] = FALSE]
    /\ want' = [want EXCEPT ![p] = NoWish]
    /\ ctx' = [ctx EXCEPT ![p] = Nothing]
    /\ need' = [need EXCEPT ![p] = {}] /\ got' = [got EXCEPT ![p] = {}]
    /\ backup' = [backup EXCEPT ![p] = Nothing]
    /\ before' = [before EXCEPT ![p] = Nothing]
    /\ over' = [over EXCEPT ![p] = {}]

\* Between its first and its last replacement a run has published in part.
Publishing == {"putMeta", "putHist", "undoCsv", "undoBoth", "undoMeta"}
BeforeLock == {"readMeta", "readHist", "lock"}

\* The run of q, and those it may itself have published over.
Behind(q) == {run[q]} \cup over[q]

\* The runs published over for good, and those that still may be restored.
LostNow == lost \cup UNION {over[p] : p \in {q \in Procs : pc[q] \in Publishing}}
-----------------------------------------------------------------------------
\* run_posthoc: the options are parsed, nothing is read yet.
Launch(p) ==
    /\ At(p, "idle", "scan")
    /\ \E full \in BOOLEAN : inFull' = [inFull EXCEPT ![p] = full]
    /\ UNCHANGED <<files, lock, run, want, ctx, need, got, backup, before, ghosts, runs, faults>>

\* find_active_processes: another process is noticed if its command line
\* contains the resolved path of the directory.
Scan(p) ==
    /\ pc[p] = "scan"
    /\ IF \E q \in Procs \ {p} : pc[q] # "idle" /\ inFull[q]
       THEN Quit(p) /\ UNCHANGED <<files, lost, runs, faults>>
       ELSE Goto(p, "readCsv") /\ UNCHANGED <<files, lock, job, ghosts, runs, faults>>

\* load_result_context reads the three files one by one, without a lock.
ReadCsv(p) ==
    /\ At(p, "readCsv", "readMeta")
    /\ ctx' = [ctx EXCEPT ![p].csv = csv]
    /\ over' = [over EXCEPT ![p] = UNION {Behind(q) : q \in {o \in Procs : pc[o] \in Publishing}}]
    /\ UNCHANGED <<files, lock, run, inFull, want, need, got, backup, before, lost, runs, faults>>

ReadMeta(p) ==
    /\ At(p, "readMeta", "readHist")
    /\ ctx' = [ctx EXCEPT ![p].meta = meta]
    /\ UNCHANGED <<files, lock, run, inFull, want, need, got, backup, before, ghosts, runs, faults>>

ReadHist(p) ==
    /\ At(p, "readHist", "lock")
    /\ ctx' = [ctx EXCEPT ![p].hist = hist]
    /\ UNCHANGED <<files, lock, run, inFull, want, need, got, backup, before, ghosts, runs, faults>>

\* Mutant: successful values are collected again without --force-reprofile.
Needed_Everything(p, wish) == wish.tools

\* csv_tool_complete: without --force-reprofile, successful values are kept.
Needed(p, wish) == {t \in wish.tools : wish.force \/ ~ctx[p].csv[t].ok}

\* PosthocLock: LOCK_NB on both locks; nothing to do means no lock either.  The
\* tools asked for are chosen here, where they are looked at first.
Lock(p) ==
    /\ pc[p] = "lock"
    /\ \E wish \in Wish :
          /\ wish.tools # {}
          /\ IF Needed(p, wish) = {} \/ lock # NoProc
             THEN Quit(p) /\ UNCHANGED <<files, lost, runs, faults>>
             ELSE /\ Goto(p, "collect")
                  /\ lock' = p
                  /\ runs < MaxRuns /\ runs' = runs + 1
                  /\ run' = [run EXCEPT ![p] = runs + 1]
                  /\ want' = [want EXCEPT ![p] = wish]
                  /\ need' = [need EXCEPT ![p] = Needed(p, wish)]
                  /\ before' = [before EXCEPT ![p] = [csv |-> csv, meta |-> meta, hist |-> hist]]
                  /\ UNCHANGED <<files, inFull, ctx, got, backup, ghosts, faults>>

\* Each needed tool is collected or its earlier plan reused; a profile with
\* errors is written back, too.
Collect(p) ==
    /\ At(p, "collect", "backup")
    /\ \E good \in SUBSET need[p] : got' = [got EXCEPT ![p] = good]
    /\ UNCHANGED <<files, lock, run, inFull, want, ctx, need, backup, before, ghosts, runs, faults>>

\* create_backup copies the files that are on disk.
CreateBackup(p) ==
    /\ At(p, "backup", "putCsv")
    /\ backup' = [backup EXCEPT ![p] = [csv |-> csv, meta |-> meta, hist |-> hist]]
    /\ UNCHANGED <<files, lock, run, inFull, want, ctx, need, got, before, ghosts, runs, faults>>

\* Mutant: the history is written anew instead of appended to.
NewHist_Overwrites(p) == {[run |-> run[p], tools |-> need[p]]}

\* Mutant: a profile with errors leaves the row as it was.
NewCsv_OnlyGood(p) == [t \in Tools |-> IF t \in got[p] THEN [by |-> run[p], ok |-> TRUE]
                                                        ELSE ctx[p].csv[t]]

\* backfill_rows, update_static_meta, update_collection_history: the new files
\* are the ones read into memory, with the needed tools replaced.
NewCsv(p) == [t \in Tools |-> IF t \in need[p] THEN [by |-> run[p], ok |-> t \in got[p]]
                                               ELSE ctx[p].csv[t]]
NewMeta(p) == [t \in Tools |-> IF t \in need[p] THEN run[p] ELSE ctx[p].meta[t]]
NewHist(p) == ctx[p].hist \cup {[run |-> run[p], tools |-> need[p]]}

\* commit_result_files: three os.replace in a row.
PutCsv(p) ==
    /\ At(p, "putCsv", "putMeta")
    /\ csv' = NewCsv(p)
    /\ over' = [q \in Procs |-> IF pc[q] \in BeforeLock THEN over[q] \cup Behind(p) ELSE over[q]]
    /\ UNCHANGED <<meta, hist, lock, job, lost, runs, faults>>

PutMeta(p) ==
    /\ At(p, "putMeta", "putHist")
    /\ meta' = NewMeta(p)
    /\ UNCHANGED <<csv, hist, lock, job, ghosts, runs, faults>>

\* The last one ends the run.
PutHist(p) ==
    /\ pc[p] = "putHist"
    /\ hist' = NewHist(p)
    /\ lost' = lost \cup over[p]
    /\ Quit(p)
    /\ UNCHANGED <<csv, meta, runs, faults>>

\* Mutant: when the history cannot be published, only the CSV is restored.
PutFails_ForgetsMeta(p) ==
    /\ pc[p] \in {"putMeta", "putHist"}
    /\ Fault
    /\ Goto(p, "undoCsv")
    /\ UNCHANGED <<files, lock, job, ghosts, runs>>

\* An Exception between the first and the last replacement starts the rollback.
PutFails(p) ==
    /\ pc[p] \in {"putMeta", "putHist"}
    /\ Fault
    /\ Goto(p, IF pc[p] = "putMeta" THEN "undoCsv" ELSE "undoBoth")
    /\ UNCHANGED <<files, lock, job, ghosts, runs>>

\* _restore_from_backup, in the order of publication.
RestoreCsv(p) ==
    /\ pc[p] \in {"undoCsv", "undoBoth"}
    /\ csv' = backup[p].csv
    /\ IF pc[p] = "undoCsv"
       THEN Quit(p)
       ELSE Goto(p, "undoMeta") /\ UNCHANGED <<lock, job, over>>
    /\ UNCHANGED <<meta, hist, lost, runs, faults>>

RestoreMeta(p) ==
    /\ pc[p] = "undoMeta"
    /\ meta' = backup[p].meta
    /\ Quit(p)
    /\ UNCHANGED <<csv, hist, lost, runs, faults>>

\* An Exception while nothing is replaced or while restoring ends the run; so
\* does, at any point, what `except Exception` does not catch: KeyboardInterrupt,
\* SIGTERM, SIGKILL.  Only where files are replaced in part does it count.
Abort(p) ==
    /\ pc[p] # "idle"
    /\ IF pc[p] \in Publishing THEN Fault /\ lost' = lost \cup over[p]
                             ELSE UNCHANGED <<lost, faults>>
    /\ Quit(p)
    /\ UNCHANGED <<files, runs>>

Next == \E p \in Procs :
    \/ Launch(p) \/ Scan(p) \/ ReadCsv(p) \/ ReadMeta(p) \/ ReadHist(p) \/ Lock(p)
    \/ Collect(p) \/ CreateBackup(p) \/ PutCsv(p) \/ PutMeta(p) \/ PutHist(p)
    \/ PutFails(p) \/ RestoreCsv(p) \/ RestoreMeta(p) \/ Abort(p)

Spec == Init /\ [][Next]_vars
-----------------------------------------------------------------------------
\* Every variable keeps its type.
TypeOK ==
    /\ csv \in [Tools -> Filled] /\ meta \in [Tools -> {0} \cup Runs]
    /\ hist \subseteq Record
    /\ lock \in Procs \cup {NoProc}
    /\ pc \in [Procs -> PCs] /\ run \in [Procs -> {0} \cup Runs]
    /\ inFull \in [Procs -> BOOLEAN] /\ want \in [Procs -> Wish]
    /\ ctx \in [Procs -> Contents]
    /\ need \in [Procs -> SUBSET Tools] /\ got \in [Procs -> SUBSET Tools]
    /\ backup \in [Procs -> Contents] /\ before \in [Procs -> Contents]
    /\ over \in [Procs -> SUBSET Runs] /\ lost \subseteq Runs
    /\ runs \in 0..MaxRuns /\ faults \in 0..MaxFaults

\* Provenance never runs ahead of the data: a collection recorded in
\* collection_history.json is, for each of its tools, in static_meta.json and
\* result_all.csv, or a later run has replaced it there (the order in which
\* commit_result_files publishes, and the rollback in the same order).  The one
\* exception are collections that another run published over although it had
\* read the result before their own publication was over.  Types are kept.
HistoryBacked ==
    /\ TypeOK
    /\ \A r \in hist : r.run \notin LostNow =>
          \A t \in r.tools : csv[t].by >= r.run /\ meta[t] >= r.run

\* docs/Profilers.md: the record of a run is appended to
\* posthoc_profile_history, and a second run on the directory is refused.  So
\* no record would ever go, whatever runs come later or fail.
HistoryAppendOnly == [][hist \subseteq hist']_hist

\* A record goes only if a run that read the result before that record's own
\* publication was over has published since (run_posthoc reads, then locks).
RecordsLostToReadersOnly == [][\A r \in hist \ hist' : r.run \in lost']_hist

\* Successful values of a profiler stay until a run replaces them on purpose,
\* takes back its own replacement, or writes back what it has read while
\* another one published (backfill_rows, commit_result_files).
ValuesKept ==
    [][\A t \in Tools : csv[t].ok /\ csv'[t] # csv[t] =>
          \E p \in Procs :
              /\ lock = p
              /\ \/ over[p] # {} /\ pc[p] \in {"putCsv", "undoCsv", "undoBoth"}
                 \/ pc[p] = "putCsv" /\ t \in want[p].tools /\ want[p].force
                 \/ pc[p] \in {"undoCsv", "undoBoth"} /\ csv[t].by = run[p]]_csv

\* A rollback that comes to its end leaves exactly the three files the run
\* found when it got the locks.
RollbackExact ==
    [][\A p \in Procs :
          pc[p] \in {"undoCsv", "undoMeta"} /\ pc'[p] = "idle" /\ faults' = faults =>
              <<csv', meta', hist'>> = <<before[p].csv, before[p].meta, before[p].hist>>]_vars

\* What a finished run has contributed is not changed by the rollback of one
\* that failed, and lost only to one that had read the result before it.
ContributionsKept == RecordsLostToReadersOnly /\ ValuesKept /\ RollbackExact

\* docs/Profilers.md: the three files are replaced atomically, and restored from
\* the backup on failure.  With nobody at work they tell of the same runs.
ReplacedTogether ==
    lock = NoProc =>
        \A t \in Tools :
            /\ csv[t].by = meta[t]
            /\ meta[t] # 0 => \E r \in hist : r.run = meta[t] /\ t \in r.tools
=============================================================================
