--------------------------- MODULE AutomationLocks ---------------------------
(***************************************************************************)
(* acprof auto (cli/auto.py, host/automation.py) and acprof run on one     *)
(* result directory.  auto prepares under the measurement lock and the     *)
(* directory lock, releases both, and calls run, which takes them again    *)
(* (RunState.__init__); its report is finished under no lock.  Commands    *)
(* start, fail and die at any point.  What run does between opening and    *)
(* closing its state is RunRecovery.                                       *)
(***************************************************************************)
EXTENDS Integers, Sequences

CONSTANTS
    Commands,       \* processes
    NoCommand

ASSUME CommandsAssumption == NoCommand \notin Commands

Kinds == {"auto_new", "auto_resume", "run_new", "run_resume"}
Autos == {"auto_new", "auto_resume"}
Resumes == {"auto_resume", "run_resume"}

VARIABLES
    kind,           \* kind[c]: how c was called
    at,             \* at[c]: where it is
    locks,          \* who has both locks: they are always taken together
    auto,           \* auto[c]: self.data of AutomaticRun, and self.started
    prepared,       \* prepared[c]: preparation_artifacts, by their authors
    autoReport,     \* auto_report.json
    resolution,     \* model_resolution.json: who wrote it last
    runState        \* run_state.json

autoVars == <<kind, at, locks, auto, prepared, autoReport, resolution, runState>>

NoAutoReport == [by |-> NoCommand, status |-> "absent", attempts |-> <<>>]
NoState == [opened |-> NoCommand, status |-> "absent"]
NoArtifacts == [report |-> NoCommand, resolution |-> NoCommand]

AutoInit ==
    /\ kind = [c \in Commands |-> "none"] /\ at = [c \in Commands |-> "out"]
    /\ locks = NoCommand
    /\ auto = [c \in Commands |-> [started |-> FALSE, error |-> FALSE, attempts |-> <<>>]]
    /\ prepared = [c \in Commands |-> NoArtifacts]
    /\ autoReport = NoAutoReport /\ resolution = NoCommand /\ runState = NoState

Go(c, where) == at' = [at EXCEPT ![c] = where]
Files == <<autoReport, resolution, runState>>

\* Mutant: what is there may stay.
Fresh_Any(mine) == TRUE

\* check_new_run: nothing but the manifest, the lock and the allowed files.
Fresh(mine) ==
    /\ runState = NoState
    /\ ~mine => autoReport = NoAutoReport /\ resolution = NoCommand
-----------------------------------------------------------------------------
(* Preparation by auto                                                     *)

StartCommand(c) ==
    /\ at[c] = "out"
    /\ \E k \in Kinds :
        /\ kind' = [kind EXCEPT ![c] = k]
        /\ Go(c, IF k \in Autos THEN "lock" ELSE "open")
    /\ UNCHANGED <<locks, auto, prepared, Files>>

\* LOCK_EX | LOCK_NB on both, and initialize() or the state to resume: whoever
\* does not get through has not started, and leaves without a word.  The
\* measurement lock may also be with a command in another directory.
TakeLocks(c) ==
    /\ at[c] = "lock"
    /\ \E elsewhere \in BOOLEAN :
       IF /\ ~elsewhere
          /\ locks = NoCommand
          /\ IF kind[c] = "auto_new" THEN Fresh(FALSE)
             ELSE runState # NoState /\ autoReport # NoAutoReport
       THEN locks' = c /\ Go(c, "begin")
       ELSE UNCHANGED locks /\ Go(c, "gone")
    /\ UNCHANGED <<kind, auto, prepared, Files>>

\* The previous attempt is kept in the new report.
BeginReport(c) ==
    /\ at[c] = "begin"
    /\ LET before == IF kind[c] = "auto_resume"
                     THEN Append(autoReport.attempts, autoReport.by) ELSE <<>>
       IN /\ auto' = [auto EXCEPT ![c].started = TRUE, ![c].attempts = before]
          /\ autoReport' = [by |-> c, status |-> "preparing", attempts |-> before]
    /\ Go(c, "resolve")
    /\ UNCHANGED <<kind, locks, prepared, resolution, runState>>

\* Access, detection, support, host checks; the resolution is written on the way.
Resolve(c) ==
    /\ at[c] = "resolve"
    /\ \/ resolution' = c /\ Go(c, "publish") /\ UNCHANGED <<locks, auto>>
       \/ /\ resolution' \in {resolution, c}
          /\ auto' = [auto EXCEPT ![c].error = TRUE]
          /\ locks' = NoCommand /\ Go(c, "finish")
    /\ UNCHANGED <<kind, prepared, autoReport, runState>>

\* The report is saved and both files are hashed, still under the locks.
PublishPreparation(c) ==
    /\ at[c] = "publish"
    /\ autoReport' = [by |-> c, status |-> "running", attempts |-> auto[c].attempts]
    /\ prepared' = [prepared EXCEPT ![c] = [report |-> c, resolution |-> c]]
    /\ locks' = NoCommand /\ Go(c, "open")
    /\ UNCHANGED <<kind, auto, resolution, runState>>
-----------------------------------------------------------------------------
(* run                                                                     *)

\* auto goes on to its report, run just ends.
Leave(c, failed) ==
    /\ auto' = [auto EXCEPT ![c].error = failed]
    /\ Go(c, IF kind[c] \in Autos THEN "finish" ELSE "gone")

\* A prepared file that is missing or has changed ends the command.
Untouched(c) ==
    prepared[c] = NoArtifacts
    \/ prepared[c] = [report |-> autoReport.by, resolution |-> resolution]

\* RunState.__init__; the checks of run before it, and validate_resume in it, may
\* refuse as well.  Only a resumed preparation is marked as such again.
OpenRun(c) ==
    /\ at[c] = "open"
    /\ \E accepted \in BOOLEAN :
       IF /\ accepted
          /\ locks = NoCommand
          /\ IF kind[c] \in Resumes THEN runState # NoState
             ELSE Untouched(c) /\ Fresh(prepared[c] # NoArtifacts)
       THEN /\ locks' = c /\ Go(c, "run") /\ UNCHANGED auto
            /\ IF kind[c] \in Resumes
               THEN \/ UNCHANGED runState
                    \/ runState.status # "complete" /\ runState' = [runState EXCEPT !.status = "preparing"]
               ELSE runState' = [opened |-> c, status |-> "preparing"]
       ELSE Leave(c, TRUE) /\ UNCHANGED <<locks, runState>>
    /\ UNCHANGED <<kind, prepared, autoReport, resolution>>

\* RunState.close: what is complete stays so, even if the cleaning up after it
\* fails; nothing may come of the matrix without an error.  run writes the
\* resolution again on its way.
CloseRun(c) ==
    /\ at[c] = "run"
    /\ locks' = NoCommand
    /\ IF runState.status = "complete"
       THEN Leave(c, FALSE) /\ UNCHANGED <<runState, resolution>>
       ELSE /\ resolution' \in {resolution, c}
            /\ \/ /\ runState' = [runState EXCEPT !.status = "complete"]
                  /\ \E failed \in BOOLEAN : Leave(c, failed)
               \/ runState' = [runState EXCEPT !.status = "interrupted"] /\ Leave(c, FALSE)
               \/ runState' = [runState EXCEPT !.status = "failed"] /\ Leave(c, TRUE)
    /\ UNCHANGED <<kind, prepared, autoReport>>
-----------------------------------------------------------------------------
(* The report                                                              *)

\* Mutant: no error is success.
Success_NoError(c) == ~auto[c].error

Success(c) == ~auto[c].error /\ runState.status = "complete"

\* AutomaticRun.finish reads the state of the run, whoever has the locks.
Conclude(c) ==
    /\ at[c] = "finish"
    /\ Go(c, IF Success(c) THEN "succeeded" ELSE "failed")
    /\ UNCHANGED <<kind, locks, auto, prepared, Files>>

SaveReport(c) ==
    /\ at[c] \in {"succeeded", "failed"}
    /\ autoReport' = [by |-> c, status |-> at[c], attempts |-> auto[c].attempts]
    /\ Go(c, "gone")
    /\ UNCHANGED <<kind, locks, auto, prepared, resolution, runState>>

\* The kernel releases what a dead process had locked.
KillCommand(c) ==
    /\ at[c] \notin {"out", "gone"}
    /\ locks' = IF locks = c THEN NoCommand ELSE locks
    /\ Go(c, "gone")
    /\ UNCHANGED <<kind, auto, prepared, Files>>

AutoNext ==
    \E c \in Commands :
        \/ StartCommand(c) \/ TakeLocks(c) \/ BeginReport(c) \/ Resolve(c)
        \/ PublishPreparation(c) \/ OpenRun(c) \/ CloseRun(c)
        \/ Conclude(c) \/ SaveReport(c) \/ KillCommand(c)

AutoSpec == AutoInit /\ [][AutoNext]_autoVars
-----------------------------------------------------------------------------
\* A directory belongs to the run that opened it: no later command puts another
\* run in its place, and a run that auto opens goes by the report and the
\* resolution of that auto, though the locks were free in between.
OneRunPerDirectory ==
    [][ runState'.opened # runState.opened =>
          /\ runState.opened = NoCommand
          /\ kind[runState'.opened] = "auto_new" =>
                autoReport.by = runState'.opened /\ resolution = runState'.opened ]_autoVars

\* Whichever command writes the report last, it says succeeded only of a
\* directory whose run is complete; and a report on its way to disk as well.
SucceededIsComplete ==
    autoReport.status = "succeeded" \/ (\E c \in Commands : at[c] = "succeeded") =>
        runState.status = "complete"

\* A directory has one run, and its report tells the truth about it.
ReportsAreTheRuns == OneRunPerDirectory /\ []SucceededIsComplete
=============================================================================
