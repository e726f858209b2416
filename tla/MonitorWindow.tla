----------------------------- MODULE MonitorWindow -----------------------------
(***************************************************************************)
(* The windows of one client: MonitorGroup and run_matched_control_window  *)
(* of acprof/host/measurement_window.py, the loop of acprof/host/client.py *)
(* that owns them, and the start, stop and close of the four collectors in *)
(* acprof/monitors.                                                        *)
(*                                                                         *)
(* Three collectors sample in a thread that their stop() tells to end and  *)
(* waits a second for; MIPS is a perf process.  A window has two groups    *)
(* over the same collectors: the control group borrows them for an idle    *)
(* baseline, the window's own group measures the request and closes them.  *)
(* Any operation may fail, and Ctrl-C may arrive in any operation that     *)
(* waits (not between two of them, which takes no time here).              *)
(***************************************************************************)
EXTENDS Naturals, Sequences, SequencesExt

CONSTANTS
    Monitors,    \* the collectors of this client
    NumWindows,
    MaxFaults    \* bound: failures, interrupts and slow threads

Start_Order == <<"gpu", "cpu", "resource", "mips">>
Stop_Order == <<"mips", "resource", "gpu", "cpu">>
Energy == {"gpu", "cpu"}

ASSUME WindowAssumption ==
    /\ Monitors \subseteq ToSet(Start_Order)
    /\ NumWindows \in Nat \ {0} /\ MaxFaults \in Nat

VARIABLES
    window, group, pc, \* window, acting group, phase
    smp, armed,   \* each collector's sampler; MIPS has a prepared command
    owned, started, \* callbacks of the ExitStack; started of the acting group
    exc, failures, \* the primary error, what the group's _attempt caught
    results,      \* collectors whose stop() returned a result to the group
    baseline,     \* collectors with the baseline of this window
    journal,      \* windows with a request record
    unwritten,    \* exception of _append_request_window
    old,          \* samplers of earlier windows: told to end, or not even that
    rows, ended,  \* outcome of each finished window, and of the client
    struck,       \* history: Ctrl-C arrived
    faults

windowVars == <<window, group, pc, smp, armed, owned, started, exc, failures,
          results, baseline, journal, unwritten, old, rows, ended, struck, faults>>

Sampler == {"off", "on", "told"}
Error == {"none", "error", "mips", "abort", "timeout", "cancelled", "cleanup"}
PCs == {"build", "prepare", "start", "run", "stop", "close", "publish", "settle", "ended"}

\* The loops of start, finish and close: the first of those left, in the order.
Foremost(order, left) ==
    order[CHOOSE i \in DOMAIN order :
              order[i] \in left /\ \A j \in DOMAIN order : order[j] \in left => i <= j]
ToStart == Monitors \ started
Close_Order == Reverse(Start_Order)

\* The exception that leaves a failing operation of m.
ErrorOf(m) == IF m = "mips" THEN "mips" ELSE "error"

WindowInit ==
    /\ window = 1 /\ group = "control" /\ pc = "build"
    /\ smp = [m \in Monitors |-> "off"] /\ armed = FALSE
    /\ owned = {} /\ started = {} /\ exc = "none" /\ failures = {}
    /\ results = {} /\ baseline = {} /\ journal = {} /\ unwritten = "none"
    /\ old = {} /\ rows = <<>> /\ ended = "no" /\ struck = FALSE /\ faults = 0

\* An environment failure that ends an operation with what; Ctrl-C is one.
Fault(what) ==
    /\ faults < MaxFaults /\ faults' = faults + 1
    /\ struck' = (struck \/ what = "cancelled")
NoFault == UNCHANGED <<struck, faults>>

\* The finally clause of the acting group: what it started is stopped.
StopStarted == pc' = "stop"
Fails(what) == exc' = what /\ StopStarted
world == <<journal, unwritten, old, rows, ended, window>>
-----------------------------------------------------------------------------
(* Building and preparing                                                  *)

\* The constructors, each followed by its registration with the group; only
\* clients with an energy collector have a control window.
Build ==
    /\ pc = "build" /\ owned = {}
    /\ \/ /\ owned' = Monitors /\ NoFault /\ UNCHANGED <<exc, started>>
          /\ group' = IF Monitors \cap Energy = {} THEN "window" ELSE "control"
          /\ pc' = "prepare"
       \/ \E i \in 0..Len(Start_Order), what \in {"error", "abort", "cancelled"} :
             /\ Fault(what) /\ group' = "window"
             /\ owned' = {Start_Order[j] : j \in 1..i} \cap Monitors
             /\ started' = {} /\ Fails(what)
    /\ UNCHANGED <<smp, armed, failures, results, baseline, world>>

\* MonitorGroup.prepare: only MIPS has something to resolve (process id, perf);
\* before the control group's there is a time to cool down.
Prepare ==
    /\ pc = "prepare" /\ started' = {}
    /\ \/ /\ armed' = ("mips" \in Monitors) /\ NoFault /\ UNCHANGED exc
          /\ pc' = "start"
       \/ /\ armed' = FALSE
          /\ \E what \in {"cancelled"} \cup ({"mips"} \cap Monitors) : Fault(what) /\ Fails(what)
    /\ UNCHANGED <<group, smp, owned, failures, results, baseline, world>>
-----------------------------------------------------------------------------
(* Sampling                                                                *)

\* MonitorGroup.start.  A collector is marked started before its start() runs;
\* a thread that has not ended yet, or MIPS unprepared, refuses.
Start ==
    /\ pc = "start" /\ ToStart # {}
    /\ LET m == Foremost(Start_Order, ToStart) IN
       /\ started' = started \cup {m}
       /\ \/ /\ IF m = "mips" THEN armed ELSE smp[m] = "off"
             /\ smp' = [smp EXCEPT ![m] = "on"]
             /\ NoFault /\ UNCHANGED <<pc, exc>>
          \/ /\ IF m = "mips" THEN ~armed ELSE smp[m] # "off"
             /\ Fails(ErrorOf(m)) /\ NoFault /\ UNCHANGED smp
          \/ /\ smp[m] = "off"
             /\ \/ Fault("error") /\ Fails(ErrorOf(m)) /\ UNCHANGED smp
                \/ /\ Fault("cancelled") /\ Fails("cancelled")
                   /\ \E s \in {"off", "on"} : smp' = [smp EXCEPT ![m] = s]
    /\ UNCHANGED <<group, armed, owned, failures, results, baseline, world>>

Started ==
    /\ pc = "start" /\ ToStart = {} /\ pc' = "run"
    /\ UNCHANGED <<group, smp, armed, owned, started, exc, failures, results, baseline, world>> /\ NoFault

\* The idle time of the control window.
Idle ==
    /\ pc = "run" /\ group = "control"
    /\ \/ StopStarted /\ NoFault /\ UNCHANGED exc
       \/ Fault("cancelled") /\ exc' = "cancelled" /\ StopStarted
    /\ UNCHANGED <<group, smp, armed, owned, started, failures, results, baseline, world>>

\* The requests of the measured window.
Requests ==
    /\ pc = "run" /\ group = "window"
    /\ \/ StopStarted /\ NoFault /\ UNCHANGED exc
       \/ \E what \in {"error", "timeout", "cancelled"} :
             Fault(what) /\ exc' = what /\ StopStarted
    /\ UNCHANGED <<group, smp, armed, owned, started, failures, results, baseline, world>>

\* What a call of stop() on m leaves and raises: perf that is not there to be
\* stopped is an error.
StopResult(m) == <<"off", IF m = "mips" /\ smp[m] = "off" THEN "mips" ELSE "none">>
StopFaults(m) ==
    IF m = "mips"
    THEN {<<"off", "mips">>, <<"off", "cancelled">>, <<smp[m], "cancelled">>}
    ELSE {<<"off", "error">>, <<"off", "cancelled">>}
         \cup IF smp[m] = "off" THEN {}
              ELSE {<<"told", "none">>, <<"told", "cancelled">>, <<smp[m], "cancelled">>, <<smp[m], "error">>}

\* _attempt: whatever the operation raises is kept for the end.
Leaves(m, r) ==
    /\ smp' = [smp EXCEPT ![m] = r[1]]
    /\ failures' = failures \cup ({r[2]} \ {"none"})
    /\ results' = IF pc = "stop" /\ r[2] = "none" THEN results \cup {m} ELSE results
Attempt(m, good, bad) ==
    \/ Leaves(m, good) /\ NoFault
    \/ \E r \in bad : Leaves(m, r) /\ Fault(r[2])

\* MonitorGroup.finish: every collector the group started, whatever fails.
StopNext ==
    /\ pc = "stop" /\ started # {}
    /\ LET m == Foremost(Stop_Order, started) IN
       /\ Attempt(m, StopResult(m), StopFaults(m))
       /\ started' = started \ {m}
       /\ armed' = (armed /\ m # "mips")
    /\ UNCHANGED <<group, pc, owned, exc, baseline, world>>

\* A thread told to end has finished its reading.
Drain ==
    /\ \/ \E m \in Monitors \ {"mips"} :
             smp[m] = "told" /\ smp' = [smp EXCEPT ![m] = "off"] /\ UNCHANGED old
       \/ \E o \in old : o[2] = "told" /\ old' = old \ {o} /\ UNCHANGED smp
    /\ UNCHANGED <<window, group, pc, armed, owned, started, exc, failures, results,
                   baseline, journal, unwritten, rows, ended, struck, faults>>
-----------------------------------------------------------------------------
(* The end of a group                                                      *)

\* raise_if_failed: a cancellation first, then the cleanup failure.
Raised(bad) == CASE bad = {} -> "none" [] "cancelled" \in bad -> "cancelled"
                 [] OTHER -> "cleanup"

\* Mutant: failures of the control group do not count.
ControlError_Primary == exc

\* What leaves run_matched_control_window.
ControlError == IF exc = "cancelled" \/ failures = {} THEN exc ELSE Raised(failures)

\* The borrowed collectors are not closed; the baseline is applied, or the
\* measured window is over before it began.
ControlEnds ==
    /\ pc = "stop" /\ started = {} /\ group = "control"
    /\ group' = "window" /\ exc' = ControlError
    /\ failures' = {} /\ started' = {} /\ results' = {}
    /\ IF ControlError = "none"
       THEN baseline' = Energy \cap results /\ pc' = "prepare"
       ELSE pc' = "stop" /\ UNCHANGED baseline
    /\ UNCHANGED <<smp, armed, owned, world>> /\ NoFault

BeginClose ==
    /\ pc = "stop" /\ started = {} /\ group = "window"
    /\ pc' = "close"
    /\ UNCHANGED <<group, smp, armed, owned, started, exc, failures, results, baseline, world>> /\ NoFault

\* close(): a thread still alive is stopped once more, perf is killed.
CloseFaults(m) ==
    IF m = "mips" THEN {<<smp[m], "cancelled">>}
    ELSE IF smp[m] = "off" THEN {<<"off", "error">>} ELSE StopFaults(m)

CloseNext ==
    /\ pc = "close" /\ owned # {}
    /\ LET m == Foremost(Close_Order, owned) IN
       /\ Attempt(m, <<"off", "none">>, CloseFaults(m))
       /\ owned' = owned \ {m}
       /\ armed' = (armed /\ m # "mips")
    /\ UNCHANGED <<group, pc, started, exc, baseline, world>>

\* The buffered requests of the window are written and synced.
Publish ==
    /\ pc = "close" /\ owned = {} /\ pc' = "settle"
    /\ \/ journal' = journal \cup {window} /\ NoFault /\ UNCHANGED unwritten
       \/ \E what \in {"error", "cancelled"} : Fault(what) /\ unwritten' = what /\ UNCHANGED journal
    /\ UNCHANGED <<group, smp, armed, owned, started, exc, failures, results, baseline, old, rows, ended, window>>

\* Mutant: a journal that cannot be written is forgiven.
Outcome_JournalOptional ==
    IF exc \in {"cancelled", "timeout", "abort"} THEN exc
    ELSE IF failures # {} THEN Raised(failures) ELSE exc

\* The exception that leaves the window, if any.
Outcome ==
    IF exc \in {"cancelled", "timeout", "abort"} THEN exc
    ELSE IF failures # {} THEN Raised(failures)
    ELSE IF unwritten # "none" THEN unwritten ELSE exc

\* Mutant: the client goes on after a failed cleanup.
Fatal_NotCleanup == {"cancelled", "timeout", "abort", "mips"}

\* Errors that end the client; the others make an error row.
Fatal == {"cancelled", "timeout", "abort", "mips", "cleanup"}

\* The next window's collectors are new objects; what is left of these stays.
NewObjects ==
    /\ old' = old \cup {<<m, smp[m]>> : m \in {x \in Monitors : smp[x] # "off"}}
    /\ smp' = [m \in Monitors |-> "off"] /\ armed' = FALSE
    /\ group' = "control" /\ owned' = {} /\ started' = {}
    /\ exc' = "none" /\ failures' = {} /\ unwritten' = "none"
    /\ results' = {} /\ baseline' = {}
    /\ UNCHANGED journal /\ NoFault

\* The row of the window is appended, or the client ends.
Settle ==
    /\ pc = "settle"
    /\ IF Outcome \in Fatal
       THEN ended' = Outcome /\ pc' = "ended" /\ UNCHANGED <<window, rows>>
       ELSE /\ rows' = Append(rows, IF Outcome = "none" THEN "ok" ELSE "error")
            /\ pc' = IF window = NumWindows THEN "ended" ELSE "build"
            /\ ended' = IF window = NumWindows THEN "ok" ELSE "no"
            /\ window' = IF window = NumWindows THEN window ELSE window + 1
    /\ NewObjects

WindowNext ==
    \/ Build \/ Prepare \/ Start \/ Started \/ Idle \/ Requests \/ StopNext \/ Drain
    \/ ControlEnds \/ BeginClose \/ CloseNext \/ Publish \/ Settle

WindowSpec == WindowInit /\ [][WindowNext]_windowVars
-----------------------------------------------------------------------------
\* Every variable keeps its type; perf never outlives a stop that returned.
WindowTypeOK ==
    /\ window \in 1..NumWindows /\ group \in {"control", "window"} /\ pc \in PCs
    /\ smp \in [Monitors -> Sampler] /\ armed \in BOOLEAN
    /\ owned \subseteq Monitors /\ started \subseteq Monitors
    /\ exc \in Error /\ failures \subseteq Error \ {"none"}
    /\ results \subseteq Monitors /\ baseline \subseteq Energy /\ journal \subseteq 1..NumWindows
    /\ unwritten \in {"none", "error", "cancelled"}
    /\ old \subseteq Monitors \X {"on", "told"}
    /\ rows \in Seq({"ok", "error"}) /\ Len(rows) <= NumWindows
    /\ ended \in {"no", "ok"} \cup Fatal /\ struck \in BOOLEAN /\ faults \in 0..MaxFaults

\* A request is sent only while every collector samples and every energy
\* collector has the idle baseline of this very window.
RequestsMeasured ==
    pc = "run" /\ group = "window" =>
        /\ \A m \in Monitors : smp[m] = "on"
        /\ baseline = Energy \cap Monitors

\* A window whose cleanup has failed, or that leaves a sampler nobody has told to
\* end, has no row, and no window follows it.
CleanupFailureEnds ==
    [][rows' # rows \/ window' # window =>
          failures = {} /\ \A m \in Monitors : smp[m] # "on"]_windowVars

\* A Ctrl-C that arrives in any operation ends the client before another window.
InterruptEnds == struck /\ pc \in {"build", "ended"} => ended \in Fatal

\* A row without an error has a result of every collector and its requests in
\* the journal.
RowHasEvidence ==
    [][rows' # rows /\ Last(rows') = "ok" => results = Monitors /\ window \in journal]_windowVars

\* Every request is measured by all collectors over the baseline of its window, a
\* failed cleanup (MonitorCleanupError) and an interrupt end the client, and the rows
\* that become of the windows have their evidence.  Threads that were told to end may
\* go on: see NoResidualSampler.
RowsAreMeasured ==
    /\ [](WindowTypeOK /\ RequestsMeasured /\ InterruptEnds)
    /\ CleanupFailureEnds /\ RowHasEvidence

\* Docs: a failed cleanup ends the client so that nothing of a window is left when the
\* next one begins; no sampler of an earlier window is alive while a later one measures.
NoResidualSampler == pc = "run" /\ group = "window" => old = {}
=============================================================================
