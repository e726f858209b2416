------------------------------ MODULE RunEvents ------------------------------
(***************************************************************************)
(* The monitor page of a run or of a largest-scale probe: the lines and    *)
(* events a command prints (acprof/progress_events.py, run_single_case and *)
(* run_matrix, acprof/host/largest_scale_probe.py), the pipe they go       *)
(* through, the reader thread with its RunProgressTracker                  *)
(* (_execute_command of acprof/tui/app.py, acprof/tui/progress.py) and the *)
(* screen the reader may not disturb while the client measures.            *)
(*                                                                         *)
(* The command runs ahead of the reader by what the pipe holds, the reader *)
(* ahead of the screen by one callback.  A run brackets its client with    *)
(* events, and its ordinary lines are not trusted; a probe has only lines. *)
(* An interrupt may cut the command anywhere, its clean-up included.       *)
(***************************************************************************)
EXTENDS Naturals, Sequences

CONSTANTS
    Commands,      \* what was started: "run", "probe"
    NumItems,      \* cases of the run, memories of the probe
    PipeCapacity,
    MaxSpoken,     \* bound: numbered lines of no rule
    MaxInterrupts  \* bound: SIGINT and SIGTERM

ASSUME EventsAssumption ==
    /\ Commands \subseteq {"run", "probe"}
    /\ NumItems \in Nat \ {0} /\ PipeCapacity \in Nat \ {0}
    /\ MaxSpoken \in Nat /\ MaxInterrupts \in Nat

VARIABLES
    command,
    phase, item,  \* where the command is, and its case or memory
    failing,      \* an exception is on its way, or the probe has an error
    spoken,       \* numbered lines so far
    alarm, owed,  \* history: the last tagged line is a diagnostic; numbers of such lines
    interrupts,
    output,       \* the pipe
    tracker, continuation, \* RunProgressTracker, diagnostic_continuation
    deferred, hidden,      \* deferred_important_lines; suppressed_lines # 0
    held,         \* callbacks the screen has not run
    reader,
    screen,       \* the snapshot on the page, and the numbered lines in its log
    elapsed       \* the elapsed time on the page, modulo 2

producer == <<command, phase, item, failing, spoken, alarm, owed, interrupts>>
listener == <<tracker, continuation, deferred, hidden, reader>>
page == <<screen, elapsed>>
eventVars == <<producer, output, listener, held, page>>

CaseEvents == {"case_started", "measurement_started", "measurement_stopped", "case_finished"}
Numbered == {"text", "warn", "more"}
\* Lines whose text begins with "[", and those _execute_command calls important.
Tagged == {"text", "warn", "case", "ready", "running", "stopping", "done", "merge",
           "scan", "try", "asking", "memory", "result", "probe_error", "summary"}
Alarms == {"warn", "probe_error"}
\* A diagnostic goes on until the next tagged line.
Important(so, kind) == IF kind \in Alarms THEN TRUE ELSE IF kind \in Tagged THEN FALSE ELSE so
Larger(a, b) == IF a > b THEN a ELSE b

FreshTracker == [active |-> FALSE, id |-> 0, current |-> 0, done |-> 0, total |-> 0, stage |-> "waiting"]

EventsInit ==
    /\ command \in Commands
    /\ phase = "prepare" /\ item = 0 /\ failing = FALSE
    /\ spoken = 0 /\ alarm = FALSE /\ owed = {} /\ interrupts = 0
    /\ output = <<>> /\ held = <<>>
    /\ tracker = FreshTracker /\ continuation = FALSE /\ deferred = <<>> /\ hidden = FALSE
    /\ reader = "reading"
    /\ screen = [shown |-> FreshTracker, log |-> <<>>] /\ elapsed = 0
-----------------------------------------------------------------------------
(* What the command prints                                                 *)

Emit(kind, n) ==
    /\ Len(output) < PipeCapacity
    /\ alarm' = Important(alarm, kind)
    /\ spoken' = IF kind \in Numbered THEN spoken + 1 ELSE spoken
    /\ owed' = IF kind \in Numbered /\ alarm' THEN owed \cup {spoken'} ELSE owed
    /\ output' = Append(output, [kind |-> kind, item |-> n,
                                 no |-> IF kind \in Numbered THEN spoken' ELSE 0])

\* A line, and on to the next phase.
Says(from, kind, to) ==
    /\ phase = from /\ Emit(kind, item) /\ phase' = to
    /\ UNCHANGED <<command, item, failing, interrupts>>

\* The same when something goes wrong.
Fails(from, kind, to) ==
    /\ phase = from /\ Emit(kind, item) /\ phase' = to /\ failing' = TRUE
    /\ UNCHANGED <<command, item, interrupts>>

Passes(from, to) ==
    /\ phase = from /\ phase' = to
    /\ UNCHANGED <<command, item, failing, spoken, alarm, owed, interrupts, output>>

\* A line of no rule: a message, a diagnostic, the untagged rest of one.  Of the
\* phases of a probe's request none prints.
Speak ==
    /\ phase \in {"prepare", "session", "classify", "leaving"} \cup
                 (IF command = "run" THEN {"client"} ELSE {})
    /\ spoken < MaxSpoken
    /\ \E kind \in Numbered : Emit(kind, item)
    /\ UNCHANGED <<command, phase, item, failing, interrupts>>

\* Preparation: its requests and progress, its phases' own lines, its failures.
PrepareRun ==
    /\ command = "run"
    /\ \/ Says("prepare", "preparation", "prepare") /\ spoken < MaxSpoken
       \/ Fails("prepare", "failure", "leaving")
       \/ Says("prepare", "matrix", "next")

NextCase ==
    /\ command = "run" /\ phase = "next" /\ item < NumItems
    /\ item' = item + 1 /\ Emit("case", item + 1)
    \* A cached or an inferred case prints no line of a rule and no event.
    /\ phase' \in {"opening", "next"}
    /\ UNCHANGED <<command, failing, interrupts>>

OpenCase == command = "run" /\ Says("opening", "case_started", "session")

\* start_container_session: ready, or a failure whose error rows end the case,
\* or one that ends the run.
StartServer ==
    /\ command = "run"
    /\ \/ Says("session", "ready", "capture")
       \/ Says("session", "case_finished", "next")
       \/ Fails("session", "case_finished", "leaving")

StartWorkload ==
    /\ command = "run"
    /\ \/ Says("capture", "running", "boundary")
       \/ Fails("capture", "text", "stop") /\ spoken < MaxSpoken

EnterBoundary == command = "run" /\ Says("boundary", "measurement_started", "client")

\* The client ends; its last lines are the failures of its requests.
ClientEnds ==
    /\ command = "run"
    /\ \/ Passes("client", "ended")
       \/ Says("ended", "failure", "reported")

LeaveBoundary ==
    /\ command = "run"
    /\ \E from \in {"ended", "reported"} :
          Says(from, "measurement_stopped", IF failing THEN "stop" ELSE "classify")

\* Rows, timeouts and OOM kills let the run go on; any other exit code raises.
JudgeCase ==
    /\ command = "run"
    /\ \/ Passes("classify", "stop")
       \/ phase = "classify" /\ phase' = "stop" /\ failing' = TRUE
          /\ UNCHANGED <<command, item, spoken, alarm, owed, interrupts, output>>

StopServer ==
    /\ command = "run"
    /\ Says("stop", "stopping", "finish") \/ Fails("stop", "stopping", "finish")
EndCase == command = "run" /\ Says("finish", "case_finished", IF failing THEN "leaving" ELSE "done")
CaseDone == command = "run" /\ Says("done", "done", "next")

Complete ==
    /\ command = "run" /\ item = NumItems
    /\ \/ Says("next", "merge", "merged")
       \/ Says("merged", "complete", "leaving")
       \/ Fails("merged", "warn", "leaving") /\ spoken < MaxSpoken

\* A probe: each memory is tried with one request until one succeeds or fails
\* otherwise than for memory.
Scan ==
    /\ command = "probe"
    /\ Says("prepare", "scan", "next") \/ Fails("prepare", "probe_error", "leaving")

TryMemory ==
    /\ command = "probe" /\ phase = "next" /\ item < NumItems
    /\ item' = item + 1 /\ Emit("try", item + 1) /\ phase' = "session"
    /\ UNCHANGED <<command, failing, interrupts>>

AskLargest ==
    /\ command = "probe"
    /\ \/ Says("session", "asking", "client")
       \/ Passes("session", "tried")
       \/ Passes("client", "tried")

MemoryTried ==
    /\ command = "probe"
    /\ \/ Says("tried", "memory", "result")
       \/ Says("tried", "memory", "next") /\ item < NumItems
       \/ Fails("tried", "memory", "result")
       \/ Fails("tried", "probe_error", "leaving")

Summarize ==
    /\ command = "probe"
    /\ \/ Says("result", "result", IF failing THEN "excuse" ELSE "summary")
       \/ Fails("result", "probe_error", "leaving")
       \/ Says("excuse", "probe_error", "summary")
       \/ Says("summary", "summary", "leaving")

\* KeyboardInterrupt: the client has the signal too, and run_command returns
\* only without it; what a finally prints is lost when it is cut itself.
Unwinds(to) ==
    CASE phase = "client" /\ command = "run" -> to \in {"ended"}
      [] phase \in {"ended", "reported"} -> to \in {phase, "stop"}
      [] phase = "session" /\ command = "run" -> to = "abandoned"
      [] phase \in {"capture", "boundary", "classify"} -> to = "stop"
      [] phase = "stop" -> to = "finish"
      [] OTHER -> to = "leaving"

Interrupted ==
    /\ phase # "gone" /\ interrupts < MaxInterrupts
    /\ interrupts' = interrupts + 1 /\ failing' = TRUE
    /\ \E to \in {"ended", "reported", "stop", "abandoned", "finish", "leaving"} :
          Unwinds(to) /\ phase' = to
    /\ UNCHANGED <<command, item, spoken, alarm, owed, output>>

Abandon == command = "run" /\ Says("abandoned", "case_finished", "leaving")
Leave == Passes("leaving", "gone")

Produce ==
    /\ \/ Speak \/ PrepareRun \/ NextCase \/ OpenCase \/ StartServer \/ StartWorkload
       \/ EnterBoundary \/ ClientEnds \/ LeaveBoundary \/ JudgeCase \/ StopServer
       \/ EndCase \/ CaseDone \/ Complete \/ Scan \/ TryMemory \/ AskLargest
       \/ MemoryTried \/ Summarize \/ Interrupted \/ Abandon \/ Leave
    /\ UNCHANGED <<listener, held, page>>
-----------------------------------------------------------------------------
(* What the reader makes of it                                             *)

\* Mutant: a memory counts when the next one is tried.
ProbeRule_Late(t, kind, n) ==
    CASE kind = "try" ->
            [t EXCEPT !.stage = "trying", !.current = n, !.done = Larger(t.done, n - 1),
                      !.total = NumItems, !.active = FALSE]
      [] kind = "asking" -> [t EXCEPT !.stage = "asking", !.active = TRUE]
      [] kind = "memory" -> [t EXCEPT !.stage = "tried", !.active = FALSE]
      [] OTHER -> t
\* The lines of a probe's scan.
ProbeRule(t, kind, n) ==
    CASE kind = "scan" ->
            [t EXCEPT !.stage = "scanning", !.current = 0, !.done = 0, !.total = NumItems, !.active = FALSE]
      [] kind = "try" ->
            [t EXCEPT !.stage = "trying", !.current = n, !.done = Larger(t.done, n - 1),
                      !.total = NumItems, !.active = FALSE]
      [] kind = "asking" -> [t EXCEPT !.stage = "asking", !.active = TRUE]
      [] kind = "memory" ->
            [t EXCEPT !.stage = "tried", !.done = Larger(t.done, t.current), !.active = FALSE]
      [] kind = "result" ->
            [t EXCEPT !.stage = "result", !.current = Larger(1, t.current), !.done = Larger(1, t.current),
                      !.total = Larger(1, t.current), !.active = FALSE]
      [] kind = "probe_error" -> [t EXCEPT !.stage = "failed", !.active = FALSE]
      [] OTHER -> t

\* The lines of a run.  CASE_RE wants "# Case i/n", which no line has: "case",
\* the line of run_matrix, begins with "[matrix]".
RunRule(t, kind) ==
    CASE kind = "matrix" -> [t EXCEPT !.stage = "planned", !.total = NumItems]
      [] kind = "ready" -> [t EXCEPT !.stage = "ready"]
      [] kind = "running" -> [t EXCEPT !.stage = "measuring", !.active = TRUE]
      [] kind = "stopping" -> [t EXCEPT !.stage = "cleaning", !.active = FALSE]
      [] kind = "done" ->
            [t EXCEPT !.stage = "done", !.done = Larger(t.done, t.current), !.active = FALSE]
      [] kind = "merge" -> [t EXCEPT !.stage = "merging", !.active = FALSE]
      [] kind = "complete" ->
            [t EXCEPT !.stage = "complete", !.done = IF t.total # 0 THEN t.total ELSE t.done,
                      !.active = FALSE]
      [] OTHER -> t

\* An ordinary line may not end a live case.
Structured(t, u) ==
    [u EXCEPT !.active = t.active,
              !.stage = IF t.active THEN t.stage ELSE u.stage,
              !.done = IF t.active THEN t.done ELSE u.done]

\* Mutant: a finished case leaves its id, and the next one does not replace it.
FeedEvent_FirstCase(t, kind, id) ==
    IF kind = "case_started" THEN [t EXCEPT !.id = IF t.id = 0 THEN id ELSE t.id, !.active = FALSE]
    ELSE IF id # t.id THEN t
    ELSE IF kind = "measurement_started" THEN [t EXCEPT !.stage = "measuring", !.active = TRUE]
    ELSE [t EXCEPT !.stage = "cleaning", !.active = FALSE]
FeedEvent(t, kind, id) ==
    IF kind = "case_started" THEN [t EXCEPT !.id = id, !.stage = "starting", !.active = FALSE]
    ELSE IF id # t.id THEN t
    ELSE CASE kind = "measurement_started" -> [t EXCEPT !.stage = "measuring", !.active = TRUE]
           [] kind = "measurement_stopped" -> [t EXCEPT !.stage = "cleaning", !.active = FALSE]
           [] kind = "case_finished" ->
                 [t EXCEPT !.stage = "done", !.done = Larger(t.done, t.current), !.active = FALSE, !.id = 0]

\* feed raises: the reader stops the command.
Rejects(t, kind) == t.active /\ kind \in {"preparation", "case_started"}

Feed(t, x) ==
    IF Rejects(t, x.kind) THEN t
    ELSE IF x.kind \in CaseEvents THEN FeedEvent(t, x.kind, x.item)
    ELSE IF x.kind = "failure" THEN [t EXCEPT !.stage = "failed", !.active = FALSE]
    ELSE IF x.kind = "preparation" THEN [t EXCEPT !.stage = "preparing"]
    ELSE IF command = "run" THEN Structured(t, RunRule(t, x.kind))
    ELSE ProbeRule(t, x.kind, x.item)

\* A callback writes lines to the log, or shows a snapshot, or both.
Callback(lines, t) == [lines |-> lines, shown |-> t]
\* Mutant: what was held back is only counted.
Flush_Lossy == IF deferred # <<>> \/ hidden THEN <<Callback(<<>>, screen.shown)>> ELSE <<>>
Flush ==
    (IF deferred # <<>> THEN <<Callback(deferred, screen.shown)>> ELSE <<>>)
    \o (IF hidden THEN <<Callback(<<>>, screen.shown)>> ELSE <<>>)
Line(x) == IF x.no = 0 THEN <<>> ELSE <<x.no>>

\* call_from_thread waits, so a line is read when the screen has run the last
\* one's callbacks.
ReadLine ==
    /\ reader = "reading" /\ held = <<>> /\ output # <<>>
    /\ LET x == Head(output)
           t == Feed(tracker, x)
           important == Important(continuation, x.kind)
       IN  /\ reader' = IF Rejects(tracker, x.kind) THEN "refused" ELSE "reading"
           /\ tracker' = t /\ continuation' = important
           /\ \/ /\ tracker.active /\ t.active
                 /\ deferred' = IF important THEN deferred \o Line(x) ELSE deferred
                 /\ hidden' = (hidden \/ ~important)
                 /\ UNCHANGED held
              \/ /\ tracker.active /\ ~t.active
                 /\ held' = Append(Flush, Callback(Line(x), t))
                 /\ deferred' = <<>> /\ hidden' = FALSE
              \/ /\ ~tracker.active
                 /\ held' = <<Callback(Line(x), t)>>
                 /\ UNCHANGED <<deferred, hidden>>
    /\ output' = Tail(output)
    /\ UNCHANGED <<producer, page>>

\* The end of the output: what is still held back, then _process_finished.
EndOfOutput ==
    /\ reader = "reading" /\ held = <<>> /\ output = <<>> /\ phase = "gone"
    /\ reader' = "ended"
    /\ held' = Append(Flush, Callback(<<>>, [tracker EXCEPT !.active = FALSE, !.stage = "ended"]))
    /\ deferred' = <<>> /\ hidden' = FALSE
    /\ UNCHANGED <<producer, output, tracker, continuation, page>>

Show ==
    /\ held # <<>> /\ held' = Tail(held)
    /\ screen' = [shown |-> Head(held).shown, log |-> screen.log \o Head(held).lines]
    /\ UNCHANGED <<producer, output, listener, elapsed>>

\* Mutant: the clock runs on.
Tick_Always ==
    /\ phase # "gone"
    /\ elapsed' = 1 - elapsed /\ UNCHANGED <<producer, output, listener, held, screen>>
\* _tick_elapsed, once a second while the process is busy.
Tick ==
    /\ ~screen.shown.active /\ ~(reader = "ended" /\ held = <<>>)
    /\ elapsed' = 1 - elapsed
    /\ UNCHANGED <<producer, output, listener, held, screen>>

EventsNext == Produce \/ ReadLine \/ EndOfOutput \/ Show \/ Tick

EventSpec == EventsInit /\ [][EventsNext]_eventVars
-----------------------------------------------------------------------------
(* Properties                                                              *)

LineType == [kind : CaseEvents \cup Tagged \cup Numbered \cup
                    {"preparation", "failure", "matrix", "complete"},
             item : 0..NumItems, no : 0..MaxSpoken]
Stages == {"waiting", "preparing", "planned", "starting", "ready", "measuring", "cleaning", "done", "merging",
           "complete", "scanning", "trying", "asking", "tried", "result", "failed", "ended"}
TrackerType == [active : BOOLEAN, id : 0..NumItems, current : Nat, done : Nat, total : Nat, stage : Stages]

EventsTypeOK ==
    /\ command \in Commands /\ item \in 0..NumItems /\ failing \in BOOLEAN
    /\ spoken \in 0..MaxSpoken /\ alarm \in BOOLEAN /\ owed \subseteq 1..MaxSpoken
    /\ interrupts \in 0..MaxInterrupts
    /\ output \in Seq(LineType) /\ Len(output) <= PipeCapacity
    /\ tracker \in TrackerType /\ continuation \in BOOLEAN /\ hidden \in BOOLEAN
    /\ deferred \in Seq(1..MaxSpoken)
    /\ held \in Seq([lines : Seq(1..MaxSpoken), shown : TrackerType])
    /\ reader \in {"reading", "refused", "ended"}
    /\ screen \in [shown : TrackerType, log : Seq(1..MaxSpoken)] /\ elapsed \in 0..1

\* The client of the case, or the request of the memory, is being measured, and
\* the reader has read so.
Measuring == phase = "client"
Known == \A i \in 1..Len(output) : output[i].kind \notin {"measurement_started", "asking"}

\* A measurement the reader knows of is one the tracker knows to run, and the
\* page when the reader's callback has run: no line of the client, and no event
\* of another case, ends it early; and the reader never fails on a line, which
\* would stop the run.
WindowIsKnown ==
    /\ reader # "refused"
    /\ Measuring /\ Known => tracker.active /\ (held = <<>> => screen.shown.active)

\* While the page shows a measurement that runs, nothing is drawn on it: no line,
\* no snapshot, not the elapsed time.
ScreenStill ==
    [][Len(held') < Len(held) \/ elapsed' # elapsed
       => ~(Measuring /\ Known /\ screen.shown.active)]_eventVars

Numbers(s) == {s[i] : i \in 1..Len(s)}
Rising(s) == \A i, j \in 1..Len(s) : i < j => s[i] < s[j]
Before(s, t) == \A m \in Numbers(s), n \in Numbers(t) : m < n

\* What is held back during a measurement is not lost: every diagnostic the
\* command printed, the untagged rest of it included, is in the pipe, held back,
\* with the screen or in the log, and no line comes there twice or out of order.
DiagnosticsAreShown ==
    /\ Rising(screen.log) /\ Rising(deferred) /\ Before(screen.log, deferred)
    /\ \A k \in 1..Len(held) :
          /\ Rising(held[k].lines) /\ Before(screen.log, held[k].lines) /\ Before(held[k].lines, deferred)
          /\ \A l \in 1..Len(held) : k < l => Before(held[k].lines, held[l].lines)
    /\ owed \subseteq Numbers(screen.log) \cup Numbers(deferred)
                     \cup (UNION {Numbers(held[k].lines) : k \in 1..Len(held)})
                     \cup {output[i].no : i \in 1..Len(output)}
    /\ reader = "ended" => deferred = <<>> /\ ~hidden

AtRest == reader = "reading" /\ output = <<>> /\ held = <<>>

\* Between two memories of a probe the page shows how many were tried.
MemoriesAreCounted ==
    command = "probe" /\ AtRest /\ phase = "next" => screen.shown.done = item /\ screen.shown.current = item

\* Between two cases of a run the page shows which case of the matrix came last.
CasesAreCounted ==
    command = "run" /\ AtRest /\ phase = "next" => screen.shown.current = item

\* The page follows a command it is behind of, and never disturbs what is
\* measured (RunProgressTracker, _execute_command): it knows of a measurement
\* until it ends, is still meanwhile, loses no diagnostic and no memory.
PageFollows == [](WindowIsKnown /\ DiagnosticsAreShown /\ MemoriesAreCounted) /\ ScreenStill
=============================================================================
