----------------------------- MODULE ScreenTasks -----------------------------
(***************************************************************************)
(* What the terminal interface does besides reading its child: one policy  *)
(* for every operation (tui/commands.py), environment checks and reading   *)
(* of results (tui/app.py), the review of a run's directory before it      *)
(* starts (tui/recovery.py, tui/recovery_actions.py), the picker of        *)
(* experiments (tui/catalog_actions.py), image and storage operations      *)
(* (tui/image_actions.py).                                                 *)
(*                                                                         *)
(* Handlers run one at a time on the event loop.  A background thread is a *)
(* record of what it was started for; it cannot be cancelled, only its     *)
(* answer can be ignored.  A dialog keeps the keys and buttons of the main *)
(* screen from working, but answers of threads still arrive under it.  The *)
(* child is PreparationDialogue's; here it runs and ends.                  *)
(***************************************************************************)
EXTENDS Integers, FiniteSets

CONSTANTS
    Envs,           \* settings the environment check depends on
    Sources,        \* result and report files
    MaxVersions,    \* bound: changes of the experiment that is there already
    Budgets         \* bounds of a behaviour, one of these: how many reads, other
                    \* threads, image operations and edits

VARIABLES
    form,           \* the run configuration on the screen
    page,           \* the summary and the report: selection, request and what is shown
    preflight,      \* _check_*: the environment check and what it was made for
    after,          \* _recovery_after_check
    reading,        \* _read_jobs
    recovery,       \* _recovery_request and the requests whose Event is set
    imagesOp,          \* _image_operation and _storage_loading
    screen,         \* the open dialog with what it shows
    task,           \* the child: its kind, configuration and what justified it
    threads,        \* background threads whose answer has not been taken
    dir,            \* the experiment on disk, which other processes may write
    remains            \* what is left of the budget, and the next token

screenVars == <<form, page, preflight, after, reading, recovery, imagesOp, screen,
                task, threads, dir, remains>>

Nil == "none"
Pages == {"summary", "report"}
Configs == [env : Envs, target : {"there", "fresh"}, resume : BOOLEAN]
NoConfig == [env |-> Nil, target |-> Nil, resume |-> FALSE]
NoPlan == [cfg |-> NoConfig, asked |-> 0]
NoScreen == [kind |-> Nil, seen |-> 0, fresh |-> NoConfig]
NoTask == [kind |-> Nil, cfg |-> NoConfig, asked |-> 0, seen |-> 0]

TasksInit ==
    /\ form \in [env : Envs, target : {"there", "fresh"}, resume : {FALSE}]
    /\ page = [p \in Pages |-> [value |-> Nil, changed |-> FALSE, shown |-> Nil,
                                token |-> 0, path |-> Nil]]
    /\ preflight = [running |-> FALSE, completed |-> FALSE, checking |-> Nil,
                    checked |-> Nil, ok |-> FALSE]
    /\ after = NoPlan /\ reading = {} /\ recovery = [token |-> 0, set |-> {}]
    /\ imagesOp = [op |-> Nil, loading |-> FALSE]
    /\ screen = NoScreen /\ task = NoTask /\ threads = {}
    /\ dir \in [version : {1}, env : Envs, done : {FALSE}, writer : {FALSE}]
    /\ \E budget \in Budgets : remains = [budget |-> budget, token |-> 1]
-----------------------------------------------------------------------------
(* OperationState                                                          *)

Running == task.kind # Nil
Reading == reading # {}
Maintenance == imagesOp.op # Nil \/ imagesOp.loading
Configuring == screen.kind \in {"environment", "picker", "review"}
Occupied == Running \/ Reading \/ Maintenance \/ Configuring

Allows(operation) ==
    CASE operation = "configure" -> ~Occupied
      [] operation \in Pages -> ~(Running \/ preflight.running \/ Maintenance \/ Configuring)
      [] OTHER -> ~(Occupied \/ preflight.running)

\* Mutant: an earlier check counts for any settings.
Reason_Any(p, f) == p.running \/ ~p.completed \/ ~p.ok

\* _preflight_run_reason: why a run with this form is refused.
Reason(p, f) == p.running \/ ~p.completed \/ ~p.ok \/ p.checked # f.env

AtMain == screen.kind = Nil
Fresh(c) == [c EXCEPT !.target = "fresh", !.resume = FALSE]
Frozen == [env |-> dir.env, target |-> "there", resume |-> TRUE]
Token == remains.token
\* A review may be given the record somebody chose (asked), and finds one (seen).
Thread(job_) == [job |-> job_, token |-> Token, path |-> Nil, cfg |-> NoConfig,
                 asked |-> 0, seen |-> 0, sure |-> FALSE, answer |-> Nil]
Reviewer(cfg_, asked_, sure_) ==
    [Thread("review") EXCEPT !.cfg = cfg_, !.asked = asked_, !.sure = sure_]
Kind(job_) == IF job_ \in Pages THEN "reads"
              ELSE IF job_ \in {"refresh", "delete", "storage"} THEN "images" ELSE "jobs"
Spend(what) == remains.budget[what] > 0 /\ remains' = [remains EXCEPT !.budget[what] = @ - 1]
Start(t, others) ==
    /\ remains.budget[Kind(t.job)] > 0
    /\ remains' = [budget |-> [remains.budget EXCEPT ![Kind(t.job)] = @ - 1], token |-> remains.token + 1]
    /\ threads' = others \cup {t}
Spawn(t) == Start(t, threads)
Spawned == UNCHANGED <<threads, remains>>
Edit == Spend("edits")
-----------------------------------------------------------------------------
(* Reading a summary or a report                                           *)

Type(p) ==
    /\ AtMain /\ Allows("summary") /\ Edit
    /\ \E v \in Sources \ {page[p].value} :
         page' = [page EXCEPT ![p].value = v, ![p].changed = TRUE]
    /\ UNCHANGED <<form, preflight, after, reading, recovery, imagesOp, screen, task, threads, dir>>

\* Mutant: what is shown stays until something else is read.
SourceChanged_Keeps(p) ==
    /\ page[p].changed
    /\ page' = [page EXCEPT ![p].changed = FALSE,
                            ![p].token = IF page[p].token # 0 /\ page[p].value = page[p].path THEN @ ELSE 0]
    /\ UNCHANGED <<form, preflight, after, reading, recovery, imagesOp, screen, task, threads, dir, remains>>

\* Input.Changed is handled some time after the value changed.
SourceChanged(p) ==
    /\ page[p].changed
    /\ page' = [page EXCEPT ![p] = IF @.token # 0 /\ @.value = @.path
                                   THEN [@ EXCEPT !.changed = FALSE]
                                   ELSE [@ EXCEPT !.changed = FALSE, !.token = 0, !.shown = Nil]]
    /\ UNCHANGED <<form, preflight, after, reading, recovery, imagesOp, screen, task, threads, dir, remains>>

\* _update_result_summary, _open_report: a new read while an older one is under way.
BeginRead(pages_, p, v) ==
    /\ page' = [pages_ EXCEPT ![p] = [value |-> v, changed |-> @.changed, shown |-> Nil,
                                      token |-> Token, path |-> v]]
    /\ reading' = reading \cup {Token}
    /\ Spawn([Thread(p) EXCEPT !.path = v])

Read(p) ==
    /\ AtMain /\ Allows(p) /\ page[p].value # Nil
    /\ BeginRead(page, p, page[p].value)
    /\ UNCHANGED <<form, preflight, after, recovery, imagesOp, screen, task, dir>>

\* Mutant: the answer that arrives is shown.
Wanted_Any(t) == TRUE

Wanted(t) == t.token = page[t.job].token /\ page[t.job].value = t.path

\* A summary that was read is remembered: the report page takes its path when
\* it holds none, or the one remembered last.
ReadEnds(t) ==
    /\ t.job \in Pages
    /\ threads' = threads \ {t} /\ reading' = reading \ {t.token}
    /\ IF ~Wanted(t) THEN UNCHANGED page
       ELSE \/ UNCHANGED page
            \/ page' = [page EXCEPT ![t.job].shown = t.path]
            \/ /\ t.job = "summary" /\ page["report"].value # t.path
               /\ page' = [page EXCEPT !["summary"].shown = t.path,
                                       !["report"].value = t.path, !["report"].changed = TRUE]
    /\ UNCHANGED <<form, preflight, after, recovery, imagesOp, screen, task, dir, remains>>

\* Mutant: the requests are forgotten with their threads.
CancelReads_Forgets ==
    /\ AtMain /\ Reading
    /\ recovery' = [recovery EXCEPT !.set = @ \cup {recovery.token}] /\ after' = NoPlan
    /\ page' = [p \in Pages |-> [page[p] EXCEPT !.token = 0, !.shown = Nil]]
    /\ reading' = {}
    /\ UNCHANGED <<form, preflight, imagesOp, screen, task, threads, dir, remains>>

\* /cancel: the threads keep the screen occupied until they return.
CancelReads ==
    /\ AtMain /\ Reading
    /\ recovery' = [recovery EXCEPT !.set = @ \cup {recovery.token}] /\ after' = NoPlan
    /\ page' = [p \in Pages |-> [page[p] EXCEPT !.token = 0, !.shown = Nil]]
    /\ UNCHANGED <<form, preflight, reading, imagesOp, screen, task, threads, dir, remains>>
-----------------------------------------------------------------------------
(* Starting: review, check, launch                                         *)

\* _launch: the selected summary is no evidence of what is to come.
LaunchTask(kind_, cfg_, asked_, seen_) ==
    /\ task' = [kind |-> kind_, cfg |-> cfg_, asked |-> asked_, seen |-> seen_]
    /\ page' = IF kind_ # "run" THEN page
               ELSE [page EXCEPT !["summary"].token = 0, !["summary"].shown = Nil]

\* Mutant: the record that was chosen is not kept with the check the plan waits for.
Waiting_Rescans(cfg_, seen_) == [cfg |-> cfg_, asked |-> 0]

Waiting(cfg_, seen_) == [cfg |-> cfg_, asked |-> seen_]

\* _review_run_destination.
Review(t) ==
    /\ recovery' = [recovery EXCEPT !.token = t.token]
    /\ reading' = reading \cup {t.token}
    /\ Spawn(t)

RequestRun ==
    /\ AtMain /\ ~Reason(preflight, form) /\ Allows("run")
    /\ Review(Reviewer(form, 0, FALSE))
    /\ UNCHANGED <<form, page, preflight, after, imagesOp, screen, task, dir>>

\* review_recovery: only a new destination needs no decision.  A record that was
\* chosen must still be the one on disk, unfinished, with no writer.
ReviewReads(t) ==
    LET resumable == t.asked \in {0, dir.version} /\ ~dir.done /\ ~dir.writer
        answers == IF t.asked = 0 /\ ~t.cfg.resume /\ t.cfg.target = "fresh" THEN {"new"}
                   ELSE IF resumable THEN {"resume", "restart"} ELSE {"restart"}
    IN  /\ t.job = "review" /\ t.answer = Nil
        /\ \E answer_ \in answers \cup {"error"} :
             threads' = (threads \ {t}) \cup
               {[t EXCEPT !.answer = answer_, !.seen = IF answer_ = "resume" THEN dir.version ELSE 0]}
        /\ UNCHANGED <<form, page, preflight, after, reading, recovery, imagesOp, screen, task, dir, remains>>

\* _show_recovery_review: the request is over before anything that follows from it
\* is allowed or refused.
Answered(t) == t.job = "review" /\ t.answer # Nil /\ reading' = reading \ {t.token}
Closed(t) == threads' = threads \ {t} /\ UNCHANGED remains
Alone(t) == reading = {t.token} /\ ~(Running \/ Maintenance \/ Configuring \/ preflight.running)
Ignored(t) == t.token # recovery.token \/ t.token \in recovery.set
Chosen(t) == IF t.answer = "resume" THEN Frozen ELSE t.cfg
Direct(t) == t.answer = "new" \/ (t.sure /\ t.cfg.resume /\ t.answer = "resume")

ReviewIgnored(t) ==
    /\ Answered(t) /\ (Ignored(t) \/ t.answer = "error") /\ Closed(t)
    /\ recovery' = IF Ignored(t) THEN recovery ELSE [recovery EXCEPT !.token = 0]
    /\ UNCHANGED <<form, page, preflight, after, imagesOp, screen, task, dir>>

ReviewShown(t) ==
    /\ Answered(t) /\ ~Ignored(t) /\ t.answer # "error" /\ ~Direct(t) /\ Closed(t)
    /\ recovery' = [recovery EXCEPT !.token = 0]
    /\ screen' = [kind |-> "review", seen |-> t.seen, fresh |-> Fresh(t.cfg)]
    /\ UNCHANGED <<form, page, preflight, after, imagesOp, task, dir>>

ReviewLaunches(t) ==
    /\ Answered(t) /\ ~Ignored(t) /\ Direct(t) /\ Closed(t)
    /\ recovery' = [recovery EXCEPT !.token = 0] /\ form' = Chosen(t)
    /\ ~Reason(preflight, form')
    /\ IF Alone(t) THEN LaunchTask("run", form', t.asked, t.seen) ELSE UNCHANGED <<task, page>>
    /\ UNCHANGED <<preflight, after, imagesOp, screen, dir>>

\* The plan waits for the check it needs; the check is refused while a result is
\* being read, and the plan waits on.
ReviewChecks(t) ==
    /\ Answered(t) /\ ~Ignored(t) /\ Direct(t)
    /\ recovery' = [recovery EXCEPT !.token = 0] /\ form' = Chosen(t)
    /\ Reason(preflight, form')
    /\ after' = Waiting(form', t.seen)
    /\ IF Alone(t)
       THEN /\ preflight' = [preflight EXCEPT !.running = TRUE, !.checking = form'.env]
            /\ Start(Thread("check"), threads \ {t})
       ELSE Closed(t) /\ UNCHANGED preflight
    /\ UNCHANGED <<page, imagesOp, screen, task, dir>>

\* action_quick_check, asked for on the screen.
QuickCheck ==
    /\ AtMain /\ Allows("check")
    /\ preflight' = [preflight EXCEPT !.running = TRUE, !.checking = form.env]
    /\ Spawn(Thread("check"))
    /\ UNCHANGED <<form, page, after, reading, recovery, imagesOp, screen, task, dir>>

\* _show_quick_check, _finish_recovery_check: a waiting plan whose form was edited
\* is dropped, another is reviewed once more.
CheckEnds(t) ==
    /\ t.job = "check" /\ after' = NoPlan
    /\ \E ok_ \in BOOLEAN :
         preflight' = [preflight EXCEPT !.running = FALSE, !.completed = TRUE,
                                        !.checked = preflight.checking, !.ok = ok_]
    /\ IF after # NoPlan /\ form = after.cfg /\ ~Reason(preflight', form) /\ ~Occupied
       THEN /\ recovery' = [recovery EXCEPT !.token = Token] /\ reading' = reading \cup {Token}
            /\ Start(Reviewer(after.cfg, after.asked, TRUE), threads \ {t})
       ELSE Closed(t) /\ UNCHANGED <<recovery, reading>>
    /\ UNCHANGED <<form, page, imagesOp, screen, task, dir>>

\* The answer in the dialog; the directory is read again before anything starts.
Decide ==
    /\ screen.kind = "review" /\ screen' = NoScreen
    /\ \/ /\ ~(Running \/ Reading \/ Maintenance \/ preflight.running)
          /\ \/ screen.seen # 0 /\ Review(Reviewer(Frozen, screen.seen, TRUE))
             \/ Review(Reviewer(screen.fresh, 0, TRUE))
       \/ UNCHANGED <<recovery, reading, threads, remains>>
    /\ UNCHANGED <<form, page, preflight, after, imagesOp, task, dir>>
-----------------------------------------------------------------------------
(* Pickers, forms and confirmations                                        *)

\* .config-control is enabled; a preset or a reused experiment edits the form too.
EditForm ==
    /\ AtMain /\ Allows("configure") /\ Edit
    /\ form' \in [env : Envs, target : {"there", "fresh"}, resume : {FALSE}] /\ form' # form
    /\ UNCHANGED <<page, preflight, after, reading, recovery, imagesOp, screen, task, threads, dir>>

OpenPicker ==
    /\ AtMain /\ Allows("catalog")
    /\ screen' = [NoScreen EXCEPT !.kind = "picker"]
    /\ reading' = reading \cup {Token} /\ Spawn(Thread("load"))
    /\ UNCHANGED <<form, page, preflight, after, recovery, imagesOp, task, dir>>

\* The list is filled; a picker that was closed meanwhile is not.
LoadEnds(t) ==
    /\ t.job = "load" /\ reading' = reading \ {t.token} /\ Closed(t)
    /\ screen' = IF screen.kind = "picker" THEN [screen EXCEPT !.seen = dir.version] ELSE screen
    /\ UNCHANGED <<form, page, preflight, after, recovery, imagesOp, task, dir>>

\* _experiment_selected: nothing is done while the list is still loading.
Pick ==
    /\ screen.kind = "picker" /\ screen' = NoScreen
    /\ \/ /\ screen.seen # 0 /\ ~(Running \/ Reading \/ Maintenance \/ preflight.running)
          /\ Review(Reviewer(Frozen, screen.seen, FALSE))
       \/ UNCHANGED <<recovery, reading, threads, remains>>
    /\ UNCHANGED <<form, page, preflight, after, imagesOp, task, dir>>

\* The settings of the environment and the Model Store, each a dialog of its own.
OpenSettings ==
    /\ AtMain /\ ~Occupied /\ ~preflight.running
    /\ screen' = [NoScreen EXCEPT !.kind = "environment"]
    /\ UNCHANGED <<form, page, preflight, after, reading, recovery, imagesOp, task, threads, dir, remains>>

CloseSettings ==
    /\ screen.kind = "environment" /\ screen' = NoScreen
    /\ UNCHANGED <<form, page, preflight, after, reading, recovery, imagesOp, task, threads, dir, remains>>

\* A probe or a profiler run is confirmed first; statistics, plots and comparisons
\* are not.
RequestTool ==
    /\ AtMain /\ Allows("probe")
    /\ screen' = [NoScreen EXCEPT !.kind = "launch"]
    /\ UNCHANGED <<form, page, preflight, after, reading, recovery, imagesOp, task, threads, dir, remains>>

ConfirmTool ==
    /\ screen.kind = "launch" /\ screen' = NoScreen
    /\ \/ Allows("run") /\ LaunchTask("tool", form, 0, 0)
       \/ UNCHANGED <<task, page>>
    /\ UNCHANGED <<form, preflight, after, reading, recovery, imagesOp, threads, dir, remains>>

StartStats ==
    /\ AtMain /\ Allows("stats") /\ page["report"].value # Nil
    /\ task' = [kind |-> "stats", cfg |-> form, asked |-> 0, seen |-> 0]
    /\ page' = [page EXCEPT !["report"].shown = Nil]
    /\ UNCHANGED <<form, preflight, after, reading, recovery, imagesOp, screen, threads, dir, remains>>

\* _process_finished: a run that left a result shows its summary, statistics their
\* report.
TaskEnds ==
    LET p == IF task.kind = "run" THEN "summary" ELSE "report"
        opened == [page EXCEPT ![p].changed = TRUE]
    IN  /\ Running /\ task' = NoTask
        /\ \/ /\ task.kind \in {"run", "stats"}
              /\ \E v \in Sources : BeginRead(IF p = "summary" THEN opened ELSE page, p, v)
           \/ Spawned /\ UNCHANGED <<page, reading>>
        /\ \/ task.cfg.target = "there" /\ task.kind = "run" /\ dir.version < MaxVersions
              /\ \E done_ \in BOOLEAN : dir' = [dir EXCEPT !.version = @ + 1, !.done = done_]
           \/ UNCHANGED dir
        /\ UNCHANGED <<form, preflight, after, recovery, imagesOp, screen>>

\* Another process writes the experiment, or stops writing it.
OtherWriter ==
    /\ \/ /\ ~dir.writer /\ ~dir.done /\ ~(Running /\ task.cfg.target = "there") /\ dir.version < MaxVersions
          /\ dir' = [dir EXCEPT !.writer = TRUE, !.version = @ + 1]
       \/ /\ dir.writer
          /\ \E done_ \in BOOLEAN : dir' = [dir EXCEPT !.writer = FALSE, !.done = done_]
    /\ UNCHANGED <<form, page, preflight, after, reading, recovery, imagesOp, screen, task, threads, remains>>
-----------------------------------------------------------------------------
(* Images and storage                                                      *)

Operation(op_) == imagesOp' = [imagesOp EXCEPT !.op = op_]

\* The timer of the images page, paused under a dialog.
Refresh ==
    /\ AtMain /\ Allows("cleanup") /\ Operation("refresh") /\ Spawn(Thread("refresh"))
    /\ UNCHANGED <<form, page, preflight, after, reading, recovery, screen, task, dir>>

RequestDelete ==
    /\ AtMain /\ Allows("cleanup") /\ Operation("confirm")
    /\ screen' = [NoScreen EXCEPT !.kind = "delete"]
    /\ UNCHANGED <<form, page, preflight, after, reading, recovery, task, threads, dir, remains>>

ConfirmDelete ==
    /\ screen.kind = "delete" /\ screen' = NoScreen
    /\ \/ Operation(Nil) /\ Spawned
       \/ /\ ~(Running \/ Reading \/ preflight.running)
          /\ Operation("delete") /\ Spawn(Thread("delete"))
    /\ UNCHANGED <<form, page, preflight, after, reading, recovery, task, dir>>

\* _show_images, _image_delete_finished.
ImagesEnd(t) ==
    /\ t.job \in {"refresh", "delete"} /\ Closed(t) /\ Operation(Nil)
    /\ UNCHANGED <<form, page, preflight, after, reading, recovery, screen, task, dir>>

\* The dialog reads the storage when it is mounted.
OpenStorage ==
    /\ AtMain /\ Allows("cleanup")
    /\ screen' = [NoScreen EXCEPT !.kind = "storage"]
    /\ imagesOp' = [op |-> "storage", loading |-> TRUE] /\ Spawn(Thread("storage"))
    /\ UNCHANGED <<form, page, preflight, after, reading, recovery, task, dir>>

RefreshStorage ==
    /\ screen.kind = "storage" /\ ~imagesOp.loading
    /\ imagesOp' = [imagesOp EXCEPT !.loading = TRUE] /\ Spawn(Thread("storage"))
    /\ UNCHANGED <<form, page, preflight, after, reading, recovery, screen, task, dir>>

\* Mutant: closing the dialog ends the operation.
CloseStorage_Frees ==
    /\ screen.kind = "storage" /\ screen' = NoScreen
    /\ imagesOp' = [op |-> Nil, loading |-> FALSE]
    /\ UNCHANGED <<form, page, preflight, after, reading, recovery, task, threads, dir, remains>>

\* Closing the dialog does not end the Docker query.
CloseStorage ==
    /\ screen.kind = "storage" /\ screen' = NoScreen
    /\ IF imagesOp.loading THEN UNCHANGED imagesOp ELSE Operation(Nil)
    /\ UNCHANGED <<form, page, preflight, after, reading, recovery, task, threads, dir, remains>>

StorageEnds(t) ==
    /\ t.job = "storage" /\ Closed(t)
    /\ imagesOp' = [op |-> IF screen.kind = "storage" THEN imagesOp.op ELSE Nil, loading |-> FALSE]
    /\ UNCHANGED <<form, page, preflight, after, reading, recovery, screen, task, dir>>
-----------------------------------------------------------------------------
TasksNext ==
    \/ \E p \in Pages : Type(p) \/ SourceChanged(p) \/ Read(p)
    \/ CancelReads
    \/ RequestRun \/ QuickCheck \/ Decide
    \/ EditForm \/ OpenPicker \/ Pick \/ OpenSettings \/ CloseSettings
    \/ RequestTool \/ ConfirmTool \/ StartStats \/ TaskEnds \/ OtherWriter
    \/ Refresh \/ RequestDelete \/ ConfirmDelete \/ OpenStorage \/ RefreshStorage \/ CloseStorage
    \/ \E t \in threads :
         \/ ReadEnds(t) \/ ReviewReads(t)
         \/ ReviewIgnored(t) \/ ReviewShown(t) \/ ReviewLaunches(t) \/ ReviewChecks(t)
         \/ CheckEnds(t) \/ LoadEnds(t) \/ ImagesEnd(t) \/ StorageEnds(t)

TasksSpec == TasksInit /\ [][TasksNext]_screenVars
-----------------------------------------------------------------------------
(* Properties                                                              *)

\* Nothing of the interface's own runs beside a child, which may be measuring: no
\* thread that asks Docker, probes the host or reads results is left, though none
\* of them can be stopped and their dialogs may have been closed long before.
RunsAlone == Running => threads = {}

\* A run starts with an environment that was checked with just its settings and
\* found fit, and resumes the very experiment that was chosen, as the last review
\* found it, whatever was edited or written between the choice and the start.
StartsJustified ==
    task'.kind = "run" /\ task.kind = Nil =>
        /\ preflight.completed /\ preflight.ok /\ preflight.checked = task'.cfg.env
        /\ task'.cfg.resume => task'.seen # 0 /\ task'.asked = task'.seen

StartsAreJustified == [][StartsJustified]_screenVars

\* What is shown was read for the selection beside it, once the selection's change
\* has been handled: a slow answer for an earlier selection never replaces it.
ShownIsChosen ==
    \A p \in Pages : page[p].shown # Nil /\ ~page[p].changed => page[p].shown = page[p].value

\* What is shown, and what is started, is what the user chose.
ChoicesAreKept == []ShownIsChosen /\ StartsAreJustified

\* With this bound TLC refutes PlanHasCheck.
OneDay == {[reads |-> 1, jobs |-> 5, images |-> 0, edits |-> 1]}

\* A plan to start waits only while its check is made.
PlanHasCheck == after # NoPlan => preflight.running
=============================================================================
