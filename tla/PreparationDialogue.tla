------------------------- MODULE PreparationDialogue -------------------------
(***************************************************************************)
(* The terminal interface and the collection it starts: the child's        *)
(* questions (host/collection_workflow.py, preparation_events.py), the     *)
(* process it runs in (tui/process.py) and the callbacks between them      *)
(* (tui/app.py).                                                           *)
(*                                                                         *)
(* The interface is one event loop, a worker thread that starts the child  *)
(* and reads its output, threads that stop it, and the unmounting of the   *)
(* application; each step below is what one of them does between two       *)
(* points where another may run.  The child asks, waits for an answer on   *)
(* its standard input, measures and cleans up; it, the interface and Popen *)
(* may fail at any time.                                                   *)
(***************************************************************************)
EXTENDS Integers, Sequences

CONSTANTS
    MaxLaunches,    \* bound: launches from one interface
    MaxAsks,        \* bound: questions of one child
    MaxFaults       \* bound: deaths of child or interface, closings, failing calls

ASSUME ConstantsAssumption ==
    MaxLaunches \in Nat \ {0} /\ MaxAsks \in Nat /\ MaxFaults \in Nat

VARIABLES
    \* the child of each launch: where it is, its last request_id, its pipes
    child, rid, out, inp,
    \* ProcessLifecycle: process, _closing, and the calls of stop()
    process, closing, stop,
    \* the application: _process_token, _process_kind, _stop_requested,
    \* _preparation_request, an open confirmation dialog, _ui_closing
    token, kind, stopRequested, pending, dialog, ui,
    \* the thread of _execute_command and the event it holds
    worker, event,
    \* history: launches somebody wanted stopped; launches that got a signal
    wanted, signalled,
    faults

lifecycle == <<process, closing>>
app == <<token, kind, stopRequested, pending, dialog, ui>>
thread == <<worker, event>>
pipes == <<rid, out, inp>>
vars == <<child, pipes, lifecycle, stop, app, thread, wanted, signalled, faults>>

Launches == 1..MaxLaunches
None == 0
NoRequest == <<None, 0>>
Callers == {"worker", "user", "unmount"}
Idle == [st |-> "idle", expected |-> None, target |-> None]

Fault == faults < MaxFaults /\ faults' = faults + 1
Alive(k) == child[k] \in {"busy", "ask", "measure", "cleanup"}
Exited(k) == child[k] = "exited"
Up == ui # "dead"
Run(k, where) == child' = [child EXCEPT ![k] = where]

Init ==
    /\ child = [k \in Launches |-> "none"] /\ rid = [k \in Launches |-> 0]
    /\ out = [k \in Launches |-> 0] /\ inp = [k \in Launches |-> <<>>]
    /\ process = None /\ closing = FALSE /\ stop = [c \in Callers |-> Idle]
    /\ token = 0 /\ kind = FALSE /\ stopRequested = FALSE
    /\ pending = NoRequest /\ dialog = 0 /\ ui = "open"
    /\ worker = "off" /\ event = 0
    /\ wanted = {} /\ signalled = {} /\ faults = 0
-----------------------------------------------------------------------------
(* The child                                                               *)

\* PreparationWorkflow.ask: a review, or an error to retry; the request goes
\* out, and the child reads.
Ask(k) ==
    /\ child[k] = "busy" /\ rid[k] < MaxAsks /\ Up
    /\ rid' = [rid EXCEPT ![k] = @ + 1]
    /\ out' = [out EXCEPT ![k] = rid'[k]]
    /\ Run(k, "ask")
    /\ UNCHANGED <<inp, lifecycle, stop, app, thread, wanted, signalled, faults>>

\* A reply to another question is refused; cancel is a KeyboardInterrupt; every
\* other action goes on, or back, in the preparation.
ReadReply(k) ==
    /\ child[k] = "ask" /\ inp[k] # <<>>
    /\ LET reply == Head(inp[k]) IN
       Run(k, IF reply.id = rid[k] /\ reply.action # "cancel" THEN "busy" ELSE "cleanup")
    /\ inp' = [inp EXCEPT ![k] = Tail(@)]
    /\ UNCHANGED <<rid, out, lifecycle, stop, app, thread, wanted, signalled, faults>>

\* Mutant: the end of the input is taken for an empty line.
Disconnected_ReadsOn(k) ==
    /\ ~Up /\ inp[k] = <<>>
    /\ child[k] = "busy" /\ rid[k] < MaxAsks
    /\ Run(k, "cleanup")
    /\ UNCHANGED <<pipes, lifecycle, stop, app, thread, wanted, signalled, faults>>

\* The interface is gone: end of file, or a pipe nobody reads.
Disconnected(k) ==
    /\ ~Up /\ inp[k] = <<>>
    /\ child[k] = "ask" \/ (child[k] = "busy" /\ rid[k] < MaxAsks)
    /\ Run(k, "cleanup")
    /\ UNCHANGED <<pipes, lifecycle, stop, app, thread, wanted, signalled, faults>>

\* Preparation passes, or fails for good; the measurement ends.
Proceed(k) ==
    /\ \/ child[k] = "busy" /\ \E where \in {"measure", "cleanup"} : Run(k, where)
       \/ child[k] = "measure" /\ Run(k, "cleanup")
    /\ UNCHANGED <<pipes, lifecycle, stop, app, thread, wanted, signalled, faults>>

CleanupEnds(k) ==
    /\ child[k] = "cleanup" /\ Run(k, "exited")
    /\ UNCHANGED <<pipes, lifecycle, stop, app, thread, wanted, signalled, faults>>

Killed(k) ==
    /\ Alive(k) /\ Fault /\ Run(k, "exited")
    /\ UNCHANGED <<pipes, lifecycle, stop, app, thread, wanted, signalled>>
-----------------------------------------------------------------------------
(* ProcessLifecycle.stop                                                   *)

Ended(c) == stop' = [stop EXCEPT ![c] = Idle]
Phase(c, st) == stop' = [stop EXCEPT ![c].st = st]
Call(c, expected) == stop' = [stop EXCEPT ![c] = [st |-> "lock", expected |-> expected, target |-> None]]

\* Mutant: whatever runs is stopped.
Acquire_AnyProcess(c) ==
    /\ Up /\ stop[c].st = "lock"
    /\ \A d \in Callers : stop[d].st \in {"idle", "lock"}
    /\ IF process = None THEN Ended(c)
       ELSE stop' = [stop EXCEPT ![c].st = "SIGINT", ![c].target = process]
    /\ UNCHANGED <<child, pipes, lifecycle, app, thread, wanted, signalled, faults>>

\* _stop_lock: one stop at a time, and only of the process it was meant for.
Acquire(c) ==
    /\ Up /\ stop[c].st = "lock"
    /\ \A d \in Callers : stop[d].st \in {"idle", "lock"}
    /\ IF process = None \/ (stop[c].expected # None /\ process # stop[c].expected)
       THEN Ended(c)
       ELSE stop' = [stop EXCEPT ![c].st = "SIGINT", ![c].target = process]
    /\ UNCHANGED <<child, pipes, lifecycle, app, thread, wanted, signalled, faults>>

\* killpg: a KeyboardInterrupt wherever the child is, in its cleanup too.
Signal(c) ==
    /\ Up /\ stop[c].st \in {"SIGINT", "SIGTERM"}
    /\ LET k == stop[c].target IN
       IF Exited(k)
       THEN Ended(c) /\ UNCHANGED <<child, signalled>>
       ELSE /\ Run(k, "cleanup") /\ signalled' = signalled \cup {k}
            /\ Phase(c, IF stop[c].st = "SIGINT" THEN "wait 30" ELSE "wait 5")
    /\ UNCHANGED <<pipes, lifecycle, app, thread, wanted, faults>>

\* The process ends within the timeout, or SIGTERM follows; after that the
\* process stays owned, whatever it does.
Wait(c) ==
    /\ Up /\ stop[c].st \in {"wait 30", "wait 5"}
    /\ \/ Exited(stop[c].target) /\ Ended(c)
       \/ stop[c].st = "wait 30" /\ Phase(c, "SIGTERM")
       \/ stop[c].st = "wait 5" /\ Ended(c)
    /\ UNCHANGED <<child, pipes, lifecycle, app, thread, wanted, signalled, faults>>
-----------------------------------------------------------------------------
(* The event loop                                                          *)

Launch ==
    /\ ui = "open" /\ ~kind /\ process = None /\ token < MaxLaunches
    /\ token' = token + 1 /\ kind' = TRUE /\ stopRequested' = FALSE
    /\ worker' = "start"
    /\ UNCHANGED <<child, pipes, lifecycle, stop, pending, dialog, ui, event, wanted, signalled, faults>>

\* _lifecycle.reply: to the live child it belongs to, or an error that stops
\* the child.
Reply(k, reply) ==
    IF process = k /\ Alive(k)
    THEN inp' = [inp EXCEPT ![k] = Append(@, reply)] /\ UNCHANGED stop
    ELSE Call("user", k) /\ UNCHANGED inp

\* Mutant: the question stays open while it is being answered.
Answer_KeepsPending(action) ==
    /\ ui = "open" /\ kind /\ pending # NoRequest /\ stop["user"] = Idle
    /\ Len(inp[pending[1]]) < MaxAsks
    /\ Reply(pending[1], [id |-> pending[2], action |-> action])
    /\ stopRequested' = (stopRequested \/ action = "cancel" \/ inp' = inp)
    /\ wanted' = IF stopRequested' THEN wanted \cup {pending[1]} ELSE wanted
    /\ UNCHANGED <<child, rid, out, lifecycle, pending, token, kind, dialog, ui, thread, signalled, faults>>

\* _preparation_answered for an open question.
Answer(action) ==
    /\ ui = "open" /\ kind /\ pending # NoRequest /\ stop["user"] = Idle
    /\ pending' = NoRequest
    /\ Reply(pending[1], [id |-> pending[2], action |-> action])
    /\ stopRequested' = (stopRequested \/ action = "cancel" \/ inp' = inp)
    /\ wanted' = IF stopRequested' THEN wanted \cup {pending[1]} ELSE wanted
    /\ UNCHANGED <<child, rid, out, lifecycle, token, kind, dialog, ui, thread, signalled, faults>>

\* A stop of whatever process there is now; before it has started, the worker
\* has to see _stop_requested.
RequestStop ==
    /\ stopRequested' = TRUE /\ wanted' = wanted \cup {token}
    /\ IF process = None THEN UNCHANGED stop ELSE Call("user", process)

\* _preparation_answered: cancel while nothing is asked.
Cancel ==
    /\ ui = "open" /\ kind /\ pending = NoRequest /\ stop["user"] = Idle
    /\ RequestStop
    /\ UNCHANGED <<child, pipes, lifecycle, pending, token, kind, dialog, ui, thread, signalled, faults>>

\* action_request_stop and _confirmed_stop: the dialog may outlive the run it
\* was opened for.
AskToStop ==
    /\ ui = "open" /\ process # None /\ Alive(process) /\ dialog = 0
    /\ dialog' = token
    /\ UNCHANGED <<child, pipes, lifecycle, stop, token, kind, stopRequested, pending, ui, thread, wanted, signalled, faults>>

ConfirmStop ==
    /\ ui = "open" /\ dialog # 0 /\ stop["user"] = Idle
    /\ dialog' = 0
    /\ IF dialog = token /\ process # None /\ Alive(process)
       THEN RequestStop
       ELSE UNCHANGED <<stopRequested, stop, wanted>>
    /\ UNCHANGED <<child, pipes, lifecycle, token, kind, pending, ui, thread, signalled, faults>>

\* The application ends, for whatever reason (a fault, while a child runs), and
\* is unmounted.
Close ==
    /\ ui = "open" /\ Fault /\ ui' = "closing"
    /\ wanted' = IF token = 0 THEN wanted ELSE wanted \cup {token}
    /\ UNCHANGED <<child, pipes, lifecycle, stop, token, kind, stopRequested, pending, dialog, thread, signalled>>

\* Mutant: new processes are not locked out.
Unmount_LeavesOpen ==
    /\ ui = "closing" /\ ui' = "unmounted"
    /\ Call("unmount", None)
    /\ UNCHANGED <<child, pipes, lifecycle, token, kind, stopRequested, pending, dialog, thread, wanted, signalled, faults>>

Unmount ==
    /\ ui = "closing" /\ ui' = "unmounted"
    /\ closing' = TRUE /\ Call("unmount", None)
    /\ UNCHANGED <<child, pipes, process, token, kind, stopRequested, pending, dialog, thread, wanted, signalled, faults>>

\* SIGKILL of the interface: its threads and its ends of the pipes are gone.
InterfaceDies ==
    /\ Up /\ Fault /\ ui' = "dead"
    /\ UNCHANGED <<child, pipes, lifecycle, stop, token, kind, stopRequested, pending, dialog, thread, wanted, signalled>>
-----------------------------------------------------------------------------
(* The worker thread of _execute_command                                   *)

StopSelf == worker' = "stopping" /\ Call("worker", None)

\* ProcessLifecycle.start, or Popen fails.
Start ==
    /\ Up /\ worker = "start"
    /\ IF closing \/ process # None
       THEN worker' = "finish" /\ UNCHANGED <<child, process, faults>>
       ELSE \/ process' = token /\ Run(token, "busy") /\ worker' = "check" /\ UNCHANGED faults
            \/ Fault /\ worker' = "finish" /\ UNCHANGED <<child, process>>
    /\ UNCHANGED <<pipes, closing, stop, app, event, wanted, signalled>>

\* Mutant: a cancellation before the start is forgotten.
Check_Skipped ==
    /\ Up /\ worker = "check" /\ worker' = "read"
    /\ UNCHANGED <<child, pipes, lifecycle, stop, app, event, wanted, signalled, faults>>

\* Somebody cancelled before there was a process to stop.
Check ==
    /\ Up /\ worker = "check"
    /\ IF stopRequested THEN Call("worker", None) /\ worker' = "checkStop"
                        ELSE worker' = "read" /\ UNCHANGED stop
    /\ UNCHANGED <<child, pipes, lifecycle, app, event, wanted, signalled, faults>>

\* The next event of the child, or the end of its output.
Read ==
    /\ Up
    /\ \/ worker = "checkStop" /\ stop["worker"] = Idle /\ worker' = "read" /\ UNCHANGED <<out, event>>
       \/ worker = "read" /\ out[token] # 0
          /\ event' = out[token] /\ out' = [out EXCEPT ![token] = 0] /\ worker' = "deliver"
       \/ worker = "read" /\ out[token] = 0 /\ Exited(token)
          /\ worker' = "release" /\ UNCHANGED <<out, event>>
    /\ UNCHANGED <<child, rid, inp, lifecycle, stop, app, wanted, signalled, faults>>

\* _preparation_event, in the event loop while the worker waits for it: dropped
\* after a stop, refused while another question is open, else the question of
\* the process that runs now.  A closing application drops it, or the call
\* fails; what fails stops the child.
Deliver ==
    /\ Up /\ worker = "deliver" /\ event' = 0
    /\ \/ /\ ui # "open"
          /\ worker' = "read" /\ UNCHANGED <<pending, stop, wanted>>
       \/ /\ ui # "open" \/ (~stopRequested /\ pending # NoRequest)
          /\ StopSelf /\ wanted' = wanted \cup {token} /\ UNCHANGED pending
       \/ /\ ui = "open"
          /\ stopRequested \/ (pending = NoRequest /\ (process = None \/ Exited(process)))
          /\ worker' = "read" /\ UNCHANGED <<pending, stop, wanted>>
       \/ /\ ui = "open" /\ ~stopRequested /\ pending = NoRequest
          /\ process # None /\ ~Exited(process)
          /\ pending' = <<process, event>> /\ worker' = "read" /\ UNCHANGED <<stop, wanted>>
    /\ UNCHANGED <<child, pipes, lifecycle, token, kind, stopRequested, dialog, ui, signalled, faults>>

\* Another callback or the reading fails: the child is stopped.
CallbackFails ==
    /\ Up /\ worker \in {"read", "deliver"} /\ Fault
    /\ event' = 0 /\ StopSelf /\ wanted' = wanted \cup {token}
    /\ UNCHANGED <<child, pipes, lifecycle, app, signalled>>

\* Mutant: after a stop the process is given up, alive or not.
Release_Unchecked ==
    /\ Up
    /\ \/ worker = "stopping" /\ stop["worker"] = Idle
       \/ worker = "release"
    /\ process' = (IF process = token THEN None ELSE process) /\ worker' = "finish"
    /\ UNCHANGED <<child, pipes, closing, stop, app, event, wanted, signalled, faults>>

\* The finally clause and _watch_failed_process: only a process whose exit has
\* been seen is released; until then its output is drained.
Release ==
    /\ Up
    /\ \/ worker = "stopping" /\ stop["worker"] = Idle
       \/ worker = "release"
    /\ Exited(token)
    /\ process' = (IF process = token THEN None ELSE process) /\ worker' = "finish"
    /\ UNCHANGED <<child, pipes, closing, stop, app, event, wanted, signalled, faults>>

\* _process_finished, unless the application is closing.
Finish ==
    /\ Up /\ worker = "finish" /\ worker' = "off"
    /\ IF ui = "open"
       THEN kind' = FALSE /\ stopRequested' = FALSE /\ pending' = NoRequest
       ELSE UNCHANGED <<kind, stopRequested, pending>>
    /\ UNCHANGED <<child, pipes, lifecycle, stop, token, dialog, ui, event, wanted, signalled, faults>>
-----------------------------------------------------------------------------
Worker == Start \/ Check \/ Read \/ Deliver \/ Release \/ Finish
Stopper(c) == Acquire(c) \/ Signal(c) \/ Wait(c)
Child(k) == ReadReply(k) \/ Disconnected(k) \/ CleanupEnds(k)

Next ==
    \/ Worker \/ CallbackFails
    \/ \E c \in Callers : Stopper(c)
    \/ \E k \in Launches : Ask(k) \/ Proceed(k) \/ Child(k) \/ Killed(k)
    \/ Launch \/ Cancel \/ AskToStop \/ ConfirmStop \/ Close \/ Unmount \/ InterfaceDies
    \/ \E action \in {"answer", "cancel"} : Answer(action)

Spec == Init /\ [][Next]_vars

\* Threads run, a closing application is unmounted, the user answers what is
\* asked, and the child reads and cleans up; its work may take for ever.
Fairness ==
    /\ WF_vars(Worker) /\ WF_vars(Unmount)
    /\ \A c \in Callers : WF_vars(Stopper(c))
    /\ \A k \in Launches : WF_vars(Child(k))
    /\ WF_vars(\E action \in {"answer", "cancel"} : Answer(action))

FairSpec == Spec /\ Fairness
-----------------------------------------------------------------------------
\* Every variable keeps its type; at most one stop() is past its lock.
TypeOK ==
    /\ child \in [Launches -> {"none", "busy", "ask", "measure", "cleanup", "exited"}]
    /\ rid \in [Launches -> 0..MaxAsks] /\ out \in [Launches -> 0..MaxAsks]
    /\ inp \in [Launches -> Seq([id : 1..MaxAsks, action : {"answer", "cancel"}])]
    /\ process \in 0..MaxLaunches /\ closing \in BOOLEAN
    /\ stop \in [Callers -> [st : {"idle", "lock", "SIGINT", "wait 30", "SIGTERM", "wait 5"},
                             expected : 0..MaxLaunches, target : 0..MaxLaunches]]
    /\ token \in 0..MaxLaunches /\ kind \in BOOLEAN /\ stopRequested \in BOOLEAN
    /\ pending \in (0..MaxLaunches) \X (0..MaxAsks) /\ dialog \in 0..MaxLaunches
    /\ ui \in {"open", "closing", "unmounted", "dead"}
    /\ worker \in {"off", "start", "check", "checkStop", "read", "deliver", "stopping", "release", "finish"}
    /\ event \in 0..MaxAsks
    /\ wanted \subseteq Launches /\ signalled \subseteq Launches /\ faults \in 0..MaxFaults
    /\ \A c, d \in Callers : c # d => stop[c].st \in {"idle", "lock"} \/ stop[d].st \in {"idle", "lock"}

\* The interface never loses a child: whichever callbacks fail and however often
\* stopping it times out, a child that lives is the one the interface can stop.
LiveChildOwned == Up => \A k \in Launches : Alive(k) => process = k

\* An answer reaches the question it was given for, never the next one and
\* never a later child.
AnswersFit ==
    \A k \in Launches : child[k] = "ask" /\ inp[k] # <<>> => Head(inp[k]).id = rid[k]

\* A child is interrupted only if somebody stopped or cancelled it, or the
\* interface is failing or closing: a stop that comes late spares the next one.
StopsItsOwn == signalled \subseteq wanted

\* Once unmounting has stopped what ran, nothing runs and nothing will, however
\* late a launch was; unless the child outlived both signals.
ClosedIsQuiet ==
    ui = "unmounted" /\ stop["unmount"] = Idle => \A k \in Launches : Alive(k) => k \in signalled

\* From its launch to its exit a child belongs to an interface that can stop it,
\* or has been told to end; and types are kept.
NoChildLost == TypeOK /\ LiveChildOwned /\ ClosedIsQuiet

\* What is late, an answer or a stop, meets nothing but the question or the child
\* it was meant for (collection_workflow.py, tui/process.py).
EachReachesItsOwn == AnswersFit /\ StopsItsOwn

\* Whoever asked for the end of a child gets it, even before the child has
\* started and however long its work takes.
StopEnds == \A k \in Launches : (k \in wanted /\ Alive(k)) ~> (~Alive(k) \/ ~Up)

\* No question waits for ever, through stops, failing callbacks, an application
\* that closes and one that dies.
QuestionEnds == \A k \in Launches : child[k] = "ask" ~> child[k] # "ask"

\* Nobody waits for ever: not the user for a stop, not the child for an answer.
WaitsEnd == StopEnds /\ QuestionEnds
=============================================================================
