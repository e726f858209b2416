------------------------------ MODULE RunOutcome ------------------------------
(***************************************************************************)
(* What is told of a run: the messages of its webhook (acprof/cli/run.py,  *)
(* acprof/notifications.py, acprof/host/profiler_progress.py) and the      *)
(* verdict of the monitor page, which judges the exit code and the result  *)
(* directory as it was before and is after the process                     *)
(* (acprof/tui/run_results.py, _process_finished of acprof/tui/app.py).    *)
(*                                                                         *)
(* The directory has a history, of a process with the same PID even; posts *)
(* get lost with or without being heard; the user stops the run anywhere,  *)
(* its clean-up included; another process may use the directory when this  *)
(* one has left it.                                                        *)
(***************************************************************************)
EXTENDS Naturals, Sequences, FiniteSets

CONSTANTS
    PlannedCases,  \* number of cases of the run
    Tools,         \* number of its profiler stages
    Posts,         \* DEFAULT_NOTIFY_ATTEMPTS
    MaxUpsets      \* bound: failures, lost posts, stops and intruders

ASSUME OutcomeAssumption ==
    /\ PlannedCases \in Nat \ {0} /\ Tools \in Nat
    /\ Posts \in Nat \ {0} /\ MaxUpsets \in Nat

VARIABLES
    notifying, at, unit, \* is there a notifier; the phase; its tool or case
    message, tries,      \* what is being posted, and the posts made
    chat,                \* history: the messages that were heard
    verdictMsg,          \* context.event
    exc,                 \* the exception that ends the run
    rc,
    dir,                 \* the result directory
    before, pid,         \* RunArtifacts.read before the process, and its PID
    opened,              \* _ACTIVE_RUN_STATE
    unread,              \* history: the summary of the CSV could not be read
    stopped, broken,     \* _stop_requested; the reader or a callback failed
    result,              \* the page's verdict
    upsets

shop == <<before, pid, stopped, broken, result>>
run == <<notifying, at, unit, message, tries, chat, verdictMsg, exc, rc, dir, opened, unread>>
outcomeVars == <<run, shop, upsets>>

Planned == 1..PlannedCases
RowStates == {"none", "ok", "warn", "error"}
Nothing == [kind |-> "none", n |-> 0]
Note(kind, n) == [kind |-> kind, n |-> n]
Finals == {"success", "partial", "no_results", "failed", "cancelled"}

\* by: the attempt that completed the case; csv: the attempt that wrote it; gaps:
\* the capability report lacks a requested measurement.
EmptyDir == [status |-> "none", attempts |-> <<>>, rows |-> [c \in Planned |-> "none"],
             by |-> [c \in Planned |-> 0], csv |-> 0, gaps |-> FALSE]
Attempt(p, ended) == [pid |-> p, ended |-> ended]

\* Histories: none, an attempt that ended or died on the way, one that completed.
Histories ==
    {EmptyDir} \cup
    {[status |-> IF \A c \in Planned : rows[c] # "none" THEN "complete" ELSE "failed",
      attempts |-> <<Attempt(1, ended)>>, rows |-> rows,
      by |-> [c \in Planned |-> IF rows[c] = "none" THEN 0 ELSE 1],
      csv |-> IF \A c \in Planned : rows[c] # "none" THEN 1 ELSE 0,
      gaps |-> gaps /\ \A c \in Planned : rows[c] # "none"] :
     rows \in [Planned -> {"none", "ok", "error"}], ended \in BOOLEAN, gaps \in BOOLEAN}

OutcomeInit ==
    /\ notifying \in BOOLEAN /\ at = "start" /\ unit = 0
    /\ message = Nothing /\ tries = 0 /\ chat = <<>>
    /\ verdictMsg = "none" /\ exc = "none" /\ rc = 0
    /\ dir \in Histories /\ before = dir /\ pid \in {1, 2}
    /\ opened = FALSE /\ unread = FALSE /\ stopped = FALSE /\ broken = FALSE
    /\ result = [stage |-> "none", mine |-> FALSE, new |-> 0, csv |-> FALSE]
    /\ upsets = 0

Upset == upsets < MaxUpsets /\ upsets' = upsets + 1
Mine == Len(dir.attempts)
HasErrors(d) == \E c \in Planned : d.rows[c] = "error"
HasWarnings(d) == \E c \in Planned : d.rows[c] = "warn"
-----------------------------------------------------------------------------
(* Messages                                                                *)

\* _send_notification_event, when there is a notifier.
Tell(note, next) ==
    /\ at' = next
    /\ message' = IF notifying THEN note ELSE Nothing
    /\ tries' = 0

Ready(phase) == at = phase /\ message = Nothing

\* requests.post: accepted; heard, but the answer is late; refused or never heard.
\* After the last post there is a warning, and the run goes on.
Post ==
    /\ message # Nothing
    /\ \/ chat' = Append(chat, message) /\ message' = Nothing /\ UNCHANGED <<tries, upsets>>
       \/ /\ Upset /\ tries' = tries + 1
          /\ chat' \in {chat, Append(chat, message)}
          /\ message' = IF tries' = Posts THEN Nothing ELSE message
    /\ UNCHANGED <<notifying, at, unit, verdictMsg, exc, rc, dir, opened, unread, shop>>

\* The context's last word: an exception replaces it.
Raise(what) ==
    /\ exc' = what /\ rc' = 1 /\ at' = "closing"
    /\ verdictMsg' = IF notifying THEN what ELSE verdictMsg
    /\ message' = Nothing /\ tries' = 0

RunFails ==
    /\ message = Nothing /\ Upset
    /\ at \in {"prepare", "tools", "cases", "merge", "checked", "cleanup"}
    /\ Raise("failed")
    /\ UNCHANGED <<notifying, unit, chat, dir, opened, unread, shop>>

Begin ==
    /\ Ready("start") /\ Tell(Note("started", 0), "prepare")
    /\ UNCHANGED <<notifying, unit, chat, verdictMsg, exc, rc, dir, opened, unread, shop, upsets>>

\* RunState: the attempt is recorded.  A directory that is complete is left alone,
\* and nothing more is told.
OpenState ==
    /\ Ready("prepare") /\ ~opened
    /\ dir' = [dir EXCEPT !.attempts = Append(@, Attempt(pid, FALSE)),
                          !.status = IF @ = "complete" THEN @ ELSE "running"]
    /\ opened' = TRUE /\ unit' = 1
    /\ at' = IF dir.status = "complete" THEN "closing" ELSE "tools"
    /\ UNCHANGED <<notifying, message, tries, chat, verdictMsg, exc, rc, unread, shop, upsets>>

\* The status report_profiler_completion makes of a stage's samples.
StageStatus(total, failed, stageError) ==
    LET bad == IF stageError /\ failed = 0 THEN total ELSE failed
    IN  IF bad > 0 \/ stageError
        THEN IF total > bad THEN "profiler_partial" ELSE "profiler_failed"
        ELSE IF total > 0 THEN "profiler_success" ELSE "profiler_no_results"

\* A stage ends, or its plan is given up and so are the stages that are left.
Profile ==
    /\ Ready("tools")
    /\ \/ /\ unit <= Tools
          /\ \E total \in 0..2, stageError \in BOOLEAN : \E failed \in 0..total :
                Tell(Note(StageStatus(total, failed, stageError), unit), "tools")
          /\ unit' = unit + 1 /\ UNCHANGED upsets
       \/ unit <= Tools /\ Upset /\ unit' = Tools + 1 /\ UNCHANGED <<at, message, tries>>
       \/ unit > Tools /\ unit' = 1 /\ at' = "cases" /\ UNCHANGED <<message, tries, upsets>>
    /\ UNCHANGED <<notifying, chat, verdictMsg, exc, rc, dir, opened, unread, shop>>

\* Mutant: progress is told when the case starts.
RunCase_Early ==
    /\ Ready("cases") /\ unit \in Planned
    /\ \E st \in RowStates \ {"none"} :
          dir' = IF dir.rows[unit] # "none" THEN dir
                 ELSE [dir EXCEPT !.rows[unit] = st, !.by[unit] = Mine]
    /\ Tell(Note("progress", unit + 1), "cases") /\ unit' = unit + 1
    /\ UNCHANGED <<notifying, chat, verdictMsg, exc, rc, opened, unread, shop, upsets>>
\* run_matrix: a case of an earlier attempt is reused; another is run and its rows
\* recorded.  The callback tells its progress.
RunCase ==
    /\ Ready("cases") /\ unit \in Planned
    /\ \/ dir.rows[unit] # "none" /\ UNCHANGED dir
       \/ /\ dir.rows[unit] = "none"
          /\ \E st \in RowStates \ {"none"} :
                dir' = [dir EXCEPT !.rows[unit] = st, !.by[unit] = Mine]
    /\ Tell(Note("progress", unit), "cases") /\ unit' = unit + 1
    /\ UNCHANGED <<notifying, chat, verdictMsg, exc, rc, opened, unread, shop, upsets>>

\* merge_all_csvs and the capability report.
MergeCases ==
    /\ Ready("cases") /\ unit > PlannedCases
    /\ \E gaps \in BOOLEAN : dir' = [dir EXCEPT !.csv = Mine, !.gaps = gaps]
    /\ at' = "merge"
    /\ UNCHANGED <<notifying, unit, message, tries, chat, verdictMsg, exc, rc, opened, unread, shop, upsets>>

\* A required measurement without a valid value ends the run here.
CheckMissing ==
    /\ Ready("merge")
    /\ \/ dir.gaps /\ Raise("failed")
       \/ at' = "checked" /\ UNCHANGED <<message, tries, verdictMsg, exc, rc>>
    /\ UNCHANGED <<notifying, unit, chat, dir, opened, unread, shop, upsets>>

FinishState ==
    /\ Ready("checked") /\ dir' = [dir EXCEPT !.status = "complete"] /\ at' = "cleanup"
    /\ UNCHANGED <<notifying, unit, message, tries, chat, verdictMsg, exc, rc, opened, unread, shop, upsets>>

\* Mutant: only the cases are counted.
CompletionStatus_Counted == IF \E c \in Planned : dir.rows[c] = "none" THEN "partial" ELSE "success"
CompletionStatus == IF HasErrors(dir) THEN "partial" ELSE "success"

\* _record_run_completion: the CSV is read again; when that fails no error row is
\* known.
Record ==
    /\ Ready("cleanup") /\ at' = "closing"
    /\ \/ verdictMsg' = (IF notifying THEN CompletionStatus ELSE verdictMsg) /\ UNCHANGED <<unread, upsets>>
       \/ Upset /\ unread' = TRUE /\ verdictMsg' = IF notifying THEN "success" ELSE verdictMsg
    /\ UNCHANGED <<notifying, unit, message, tries, chat, exc, rc, dir, opened, shop>>

\* RunState.close, which may fail to save; then the last word is told.
CloseState ==
    /\ Ready("closing")
    /\ \/ /\ opened
          /\ dir' = [dir EXCEPT !.status = IF @ = "complete" THEN @
                                           ELSE IF exc # "none" THEN "failed" ELSE "interrupted",
                                !.attempts[Len(dir.attempts)].ended = TRUE]
          /\ UNCHANGED upsets
       \/ opened /\ Upset /\ UNCHANGED dir
       \/ ~opened /\ UNCHANGED <<dir, upsets>>
    /\ IF verdictMsg = "none" THEN at' = "deliver" /\ UNCHANGED <<message, tries>>
       ELSE Tell(Note(verdictMsg, 0), "deliver")
    /\ UNCHANGED <<notifying, unit, chat, verdictMsg, exc, rc, opened, unread, shop>>

ExitRun ==
    /\ Ready("deliver") /\ at' = "gone"
    /\ UNCHANGED <<notifying, unit, message, tries, chat, verdictMsg, exc, rc, dir, opened, unread, shop, upsets>>

\* The user stops the run, or the reader does because a callback failed; the
\* interrupt cuts the clean-up as it does the run.
Stop ==
    /\ at \notin {"start", "gone"} /\ Upset
    /\ \/ stopped' = TRUE /\ UNCHANGED broken
       \/ broken' = TRUE /\ UNCHANGED stopped
    /\ \/ at \notin {"closing", "deliver"} /\ Raise("cancelled")
       \/ at \in {"closing", "deliver"} /\ at' = "gone" /\ rc' = 1
          /\ message' = Nothing /\ tries' = 0 /\ UNCHANGED <<exc, verdictMsg>>
       \/ UNCHANGED <<at, message, tries, exc, rc, verdictMsg>>
    /\ UNCHANGED <<notifying, unit, chat, dir, opened, unread, before, pid, result>>
-----------------------------------------------------------------------------
(* The page                                                                *)

\* Another process opens the directory that this one has left.
Intrude ==
    /\ at = "gone" /\ result.stage = "none" /\ Upset
    /\ dir' = [dir EXCEPT !.attempts = Append(@, Attempt(3, FALSE))]
    /\ UNCHANGED <<notifying, at, unit, message, tries, chat, verdictMsg, exc, rc, opened, unread, shop>>

\* Mutant: the PID alone tells whose attempt it is.
Belongs_Pid == dir.attempts # <<>> /\ dir.attempts[Len(dir.attempts)].pid = pid
                /\ dir.attempts[Len(dir.attempts)].ended
\* The last attempt has the process's PID, has ended, and is not one that was
\* there before.
Belongs ==
    /\ dir.attempts # <<>>
    /\ dir.attempts[Len(dir.attempts)].pid = pid
    /\ dir.attempts[Len(dir.attempts)].ended
    /\ Len(dir.attempts) > Len(before.attempts)

\* Mutant: the exit code is not asked.
Verdict_State(complete, partial, csv, new) ==
    IF complete THEN IF partial THEN "partial" ELSE "done"
    ELSE IF csv \/ new > 0 THEN "partial" ELSE "failed"
Verdict(complete, partial, csv, new) ==
    IF stopped THEN "stopped"
    ELSE IF complete /\ rc = 0 /\ ~broken THEN IF partial THEN "partial" ELSE "done"
    ELSE IF csv \/ new > 0 THEN "partial" ELSE "failed"

\* inspect_run_result and RunResult.stage; the audit may find the result invalid.
Inspect ==
    /\ at = "gone" /\ result.stage = "none"
    /\ \/ /\ Belongs
          /\ \E valid \in BOOLEAN :
                LET new == Cardinality({c \in Planned : dir.by[c] # before.by[c]})
                    csv == dir.csv # before.csv
                    complete == dir.status = "complete" /\ valid
                    partial == HasErrors(dir) \/ HasWarnings(dir) \/ dir.gaps
                IN  result' = [stage |-> Verdict(complete, partial, csv, new),
                               mine |-> TRUE, new |-> new, csv |-> csv]
       \/ ~Belongs /\ result' = [stage |-> Verdict(FALSE, FALSE, FALSE, 0),
                                 mine |-> FALSE, new |-> 0, csv |-> FALSE]
    /\ UNCHANGED <<run, before, pid, stopped, broken, upsets>>

OutcomeNext ==
    \/ Post \/ RunFails \/ Begin \/ OpenState \/ Profile \/ RunCase \/ MergeCases \/ CheckMissing
    \/ FinishState \/ Record \/ CloseState \/ ExitRun \/ Stop \/ Intrude \/ Inspect

OutcomeSpec == OutcomeInit /\ [][OutcomeNext]_outcomeVars
-----------------------------------------------------------------------------
(* Properties                                                              *)

OutcomeTypeOK ==
    /\ notifying \in BOOLEAN /\ unit \in Nat /\ tries \in 0..Posts
    /\ at \in {"start", "prepare", "tools", "cases", "merge", "checked", "cleanup", "closing", "deliver", "gone"}
    /\ verdictMsg \in Finals \cup {"none"} /\ exc \in {"none", "failed", "cancelled"} /\ rc \in 0..1
    /\ dir.status \in {"none", "running", "failed", "interrupted", "complete"}
    /\ dir.rows \in [Planned -> RowStates] /\ dir.by \in [Planned -> Nat]
    /\ dir.csv \in Nat /\ dir.gaps \in BOOLEAN
    /\ opened \in BOOLEAN /\ unread \in BOOLEAN /\ stopped \in BOOLEAN /\ broken \in BOOLEAN

Heard(kind) == \E i \in 1..Len(chat) : chat[i].kind = kind

\* The last message of a run is true of it: success and partial success are told
\* of a run whose state is complete, success of one without an error row (unless
\* the CSV could not be read again), partial success of one with; a cancelled run
\* was stopped, and no two of these are told of one run.
FinalIsTrue ==
    /\ Heard("success") => dir.status = "complete" /\ (~HasErrors(dir) \/ unread) /\ exc = "none"
    /\ Heard("partial") => dir.status = "complete" /\ HasErrors(dir) /\ exc = "none"
    /\ Heard("cancelled") => (stopped \/ broken) /\ exc = "cancelled"
    /\ Heard("failed") => exc = "failed"

\* Messages come in the order of the run, however often one is repeated, and the
\* progress of a case only with its rows recorded.
Order(note) ==
    CASE note.kind = "started" -> 0
      [] note.kind \in {"profiler_success", "profiler_partial", "profiler_failed",
                        "profiler_no_results"} -> note.n
      [] note.kind = "progress" -> Tools + note.n
      [] OTHER -> Tools + PlannedCases + 1
NewsIsInOrder ==
    /\ \A i, j \in 1..Len(chat) : i < j => Order(chat[i]) <= Order(chat[j])
    /\ \A i \in 1..Len(chat) : chat[i].kind = "progress" => dir.rows[chat[i].n] # "none"

\* The page says done only of what this process left complete, without an error,
\* a warning or a gap, and shows a CSV and new cases only of its own making.
VerdictIsTrue ==
    /\ result.stage = "done" =>
          /\ result.mine /\ rc = 0 /\ ~stopped /\ ~broken
          /\ dir.status = "complete" /\ ~dir.gaps /\ \A c \in Planned : dir.rows[c] = "ok"
    /\ result.mine => opened
    /\ result.csv => dir.csv > Len(before.attempts)
    /\ result.new > 0 => \E c \in Planned : dir.by[c] > Len(before.attempts)

\* The chat and the page do not contradict one another: a run told as failed is
\* never done, and one told as a success is done or, for its warnings, gaps or an
\* invalid report, partly done, unless it was stopped while it closed.
OutcomesAgree ==
    /\ result.stage = "done" => ~Heard("failed") /\ ~Heard("cancelled") /\ ~Heard("partial")
    /\ result.stage # "none" /\ Heard("success") /\ result.mine => result.stage # "failed"

\* Whatever failed, was stopped, lost or repeated, and whoever else was in the
\* directory, before or meanwhile: what the chat and the result page say of a
\* run is true, in order and of one mind (notifications.py, run_results.py).
OutcomeIsTold == FinalIsTrue /\ NewsIsInOrder /\ VerdictIsTrue /\ OutcomesAgree
=============================================================================
