----------------------------- MODULE LoadProtocol -----------------------------
(***************************************************************************)
(* The load command: acprof/cli/load.py around run_load of                 *)
(* acprof/host/load_protocol.py.  A main thread offers requests, a pool of *)
(* workers sends them over HTTP; either as fast as answers come back       *)
(* (closed loop), or on a schedule made beforehand, with a bound on what   *)
(* is pending (open loop).  Ctrl-C may come at any point of the offering,  *)
(* while workers take, check, send or read; the container, the capture and *)
(* the final report around it may each fail.                               *)
(***************************************************************************)
EXTENDS Integers, FiniteSets

CONSTANTS
    Requests,       \* --requests
    Workers,        \* --concurrency worker threads
    MaxPending,     \* --max-pending
    Scenarios,      \* the kinds of --scenario to consider
    Reuse           \* --connections reuse

\* LoadConfig.validate
ASSUME LoadAssumption ==
    /\ Requests \in Nat \ {0} /\ MaxPending \in Nat
    /\ IsFiniteSet(Workers) /\ Workers # {}
    /\ Cardinality(Workers) <= MaxPending
    /\ Scenarios \subseteq {"concurrent", "arrival-rate"} /\ Reuse \in BOOLEAN
    /\ Reuse => Cardinality(Workers) < Requests

VARIABLES
    scenario,       \* closed loop (serial has one worker) or open loop
    loadPc,         \* the main thread
    upcoming,       \* the next request to offer
    pending,        \* futures the main thread has not seen finished
    future,         \* future[i]: state of the submitted work item
    outcomes,       \* outcomes[i]: what the report will say of request i
    holds,          \* holds[w]: the request worker w has, or 0
    doing,          \* doing[w]: where in execute() it is
    socket,         \* socket[w]: the connection of the worker
    cancelled,      \* the event
    loadError,      \* the exception the main thread has in hand
    loadSession,    \* the container
    capture,        \* tcpdump
    loadReport      \* status in load.json

loadVars == <<scenario, loadPc, upcoming, pending, future, outcomes, holds, doing, socket,
              cancelled, loadError, loadSession, capture, loadReport>>
pool == <<future, outcomes, holds, doing, socket>>
offering == <<upcoming, pending, cancelled>>
outer == <<loadSession, capture, loadReport>>

OpenLoop == scenario = "arrival-rate"

Index == 1..Requests
Done == {i \in Index : future[i] = "done"}
Queued == {i \in Index : future[i] = "queued"}
First(S) == CHOOSE i \in S : \A j \in S : i <= j

LoadInit ==
    /\ scenario \in Scenarios
    /\ loadPc = "lock" /\ upcoming = 1 /\ pending = {}
    /\ future = [i \in Index |-> "absent"] /\ outcomes = [i \in Index |-> "none"]
    /\ holds = [w \in Workers |-> 0] /\ doing = [w \in Workers |-> "idle"]
    /\ socket = [w \in Workers |-> "none"]
    /\ cancelled = FALSE /\ loadError = "none"
    /\ loadSession = "none" /\ capture = "off" /\ loadReport = "running"
-----------------------------------------------------------------------------
(* cli/load.py before the load: every step may fail or be interrupted      *)

Errors == {"failed", "cancelled"}       \* an exception, KeyboardInterrupt

\* MeasurementLock, require_image_identity, start_container_session.
OpenSession ==
    /\ loadPc = "lock"
    /\ \/ loadPc' = "warmup" /\ loadSession' = "running" /\ UNCHANGED loadError
       \/ loadPc' = "over" /\ loadError' \in Errors /\ UNCHANGED loadSession
    /\ UNCHANGED <<pool, offering, capture, loadReport>>

\* record_case_conditions and the warm-up requests.
Warmup ==
    /\ loadPc = "warmup"
    /\ \/ loadPc' = "capture" /\ UNCHANGED loadError
       \/ loadPc' = "stop" /\ loadError' \in Errors
    /\ UNCHANGED <<pool, offering, outer>>

\* capture_packets up to its yield; the finally clause ends what was started.
StartCapture ==
    /\ loadPc = "capture"
    /\ \/ loadPc' = "offer" /\ capture' = "on" /\ UNCHANGED loadError
       \/ loadPc' = "stop" /\ loadError' \in Errors /\ UNCHANGED capture
    /\ UNCHANGED <<pool, offering, loadSession, loadReport>>
-----------------------------------------------------------------------------
(* The main thread of run_load                                             *)

Submit ==
    /\ future' = [future EXCEPT ![upcoming] = "queued"]
    /\ UNCHANGED outcomes

\* Mutant: the bound is tested before what has finished is taken out.
OfferOnSchedule_Lazy ==
    /\ loadPc = "offer" /\ OpenLoop /\ upcoming <= Requests
    /\ IF Cardinality(pending) > MaxPending
       THEN /\ outcomes' = [outcomes EXCEPT ![upcoming] = "dropped"]
            /\ pending' = pending \ Done /\ UNCHANGED future
       ELSE Submit /\ pending' = (pending \ Done) \cup {upcoming}
    /\ upcoming' = upcoming + 1
    /\ UNCHANGED <<loadPc, holds, doing, socket, cancelled, loadError, outer>>

\* Open loop: at its time a request is submitted, or dropped for good.
OfferOnSchedule ==
    /\ loadPc = "offer" /\ OpenLoop /\ upcoming <= Requests
    /\ IF Cardinality(pending \ Done) >= MaxPending
       THEN /\ outcomes' = [outcomes EXCEPT ![upcoming] = "dropped"]
            /\ pending' = pending \ Done /\ UNCHANGED future
       ELSE Submit /\ pending' = (pending \ Done) \cup {upcoming}
    /\ upcoming' = upcoming + 1
    /\ UNCHANGED <<loadPc, holds, doing, socket, cancelled, loadError, outer>>

\* Closed loop: with every worker busy, wait(FIRST_COMPLETED) comes first.
OfferWhenFree ==
    /\ loadPc = "offer" /\ ~OpenLoop /\ upcoming <= Requests
    /\ Cardinality(pending) >= Cardinality(Workers) => pending \cap Done # {}
    /\ Submit
    /\ pending' = {upcoming} \cup
          (IF Cardinality(pending) >= Cardinality(Workers) THEN pending \ Done ELSE pending)
    /\ upcoming' = upcoming + 1
    /\ UNCHANGED <<loadPc, holds, doing, socket, cancelled, loadError, outer>>

\* Everything is offered, and each pending future has a result.
Drain ==
    /\ loadPc = "offer" /\ upcoming > Requests /\ pending \subseteq Done
    /\ loadPc' = "join"
    /\ UNCHANGED <<pool, offering, loadError, outer>>

\* Mutant: the exception is not raised again.
InterruptLoad_Swallowed ==
    /\ loadPc = "offer"
    /\ cancelled' = TRUE /\ loadPc' = "withdraw"
    /\ UNCHANGED <<pool, upcoming, pending, loadError, outer>>

\* Ctrl-C: first the event that workers look at before they connect.
InterruptLoad ==
    /\ loadPc = "offer"
    /\ loadError' = "cancelled" /\ cancelled' = TRUE /\ loadPc' = "withdraw"
    /\ UNCHANGED <<pool, upcoming, pending, outer>>

\* future.cancel() for each: what a worker has, it keeps.
Withdraw ==
    /\ loadPc = "withdraw"
    /\ future' = [i \in Index |-> IF i \in pending /\ future[i] = "queued"
                                  THEN "withdrawn" ELSE future[i]]
    /\ loadPc' = "shut"
    /\ UNCHANGED <<outcomes, holds, doing, socket, offering, loadError, outer>>

\* Sockets that exist now are shut down.
ShutSockets ==
    /\ loadPc = "shut"
    /\ socket' = [w \in Workers |-> IF socket[w] = "open" THEN "shut" ELSE socket[w]]
    /\ loadPc' = "join"
    /\ UNCHANGED <<future, outcomes, holds, doing, offering, loadError, outer>>

\* Mutant: the pool is left to itself.
Join_NoWait ==
    /\ loadPc = "join"
    /\ future' = [i \in Index |-> IF future[i] = "queued" THEN "withdrawn" ELSE future[i]]
    /\ loadPc' = "count"
    /\ UNCHANGED <<outcomes, holds, doing, socket, offering, loadError, outer>>

\* pool.shutdown(wait=True, cancel_futures=True)
Join ==
    /\ loadPc = "join"
    /\ \A w \in Workers : doing[w] = "idle"
    /\ future' = [i \in Index |-> IF future[i] = "queued" THEN "withdrawn" ELSE future[i]]
    /\ loadPc' = "count"
    /\ UNCHANGED <<outcomes, holds, doing, socket, offering, loadError, outer>>

\* The report of run_load: requests nobody has touched were cancelled.
CountOutcomes ==
    /\ loadPc = "count"
    /\ outcomes' = [i \in Index |-> IF outcomes[i] \in {"none", "taken"} THEN "cancelled" ELSE outcomes[i]]
    /\ loadPc' = "uncapture"
    /\ UNCHANGED <<future, holds, doing, socket, offering, loadError, outer>>
-----------------------------------------------------------------------------
(* A worker in execute()                                                   *)

Move(w, where) == doing' = [doing EXCEPT ![w] = where]

\* The oldest queued item; its record says cancelled until something happens.
Take(w) ==
    /\ doing[w] = "idle" /\ Queued # {}
    /\ LET i == First(Queued) IN
       /\ holds' = [holds EXCEPT ![w] = i]
       /\ future' = [future EXCEPT ![i] = "running"]
       /\ outcomes' = [outcomes EXCEPT ![i] = "taken"]
    /\ Move(w, "check")
    /\ UNCHANGED <<loadPc, socket, offering, loadError, outer>>

FinishLoad(w, outcome) ==
    /\ outcomes' = [outcomes EXCEPT ![holds[w]] = outcome]
    /\ future' = [future EXCEPT ![holds[w]] = "done"]
    /\ holds' = [holds EXCEPT ![w] = 0]
    /\ Move(w, "idle")

\* cancelled.is_set(); the request may still be sent after the event is set.
Check(w) ==
    /\ doing[w] = "check"
    /\ IF cancelled THEN FinishLoad(w, "taken")
       ELSE Move(w, "send") /\ UNCHANGED <<outcomes, future, holds>>
    /\ UNCHANGED <<loadPc, socket, offering, loadError, outer>>

\* client.request: a new connection, or the one that is there.
Send(w) ==
    /\ doing[w] = "send"
    /\ \/ /\ socket[w] # "shut"
          /\ socket' = [socket EXCEPT ![w] = "open"]
          /\ outcomes' = [outcomes EXCEPT ![holds[w]] = "sent"]
          /\ Move(w, "read")
          /\ UNCHANGED <<future, holds>>
       \/ FinishLoad(w, "error") /\ socket' = [socket EXCEPT ![w] = "none"]
    /\ UNCHANGED <<loadPc, offering, loadError, outer>>

\* The answer is a success; or it is an error, a closed connection that was to
\* be reused, a timeout or a socket that was shut down.
Read(w) ==
    /\ doing[w] = "read"
    /\ \/ FinishLoad(w, "ok") /\ socket' = [socket EXCEPT ![w] = IF Reuse THEN @ ELSE "none"]
       \/ FinishLoad(w, "error") /\ socket' = [socket EXCEPT ![w] = "none"]
    /\ UNCHANGED <<loadPc, offering, loadError, outer>>

Work(w) == Take(w) \/ Check(w) \/ Send(w) \/ Read(w)
-----------------------------------------------------------------------------
(* cli/load.py after the load                                              *)

\* The finally clause of capture_packets: terminate, then kill; a capture that
\* ended badly is an error too.
StopCapture ==
    /\ loadPc = "uncapture"
    /\ capture' = "off" /\ loadPc' = "stop"
    /\ \/ UNCHANGED loadError
       \/ loadError = "none" /\ loadError' = "failed"
    /\ UNCHANGED <<pool, offering, loadSession, loadReport>>

\* validate_packets may fail; stop_container_session runs in any case, and may
\* fail itself.
StopSession ==
    /\ loadPc = "stop"
    /\ \/ /\ loadSession' = "none"
          /\ \/ UNCHANGED loadError
             \/ loadError = "none" /\ loadError' = "failed"
       \/ loadSession' = "left" /\ loadError' = "failed"
    /\ loadPc' = "over"
    /\ UNCHANGED <<pool, offering, capture, loadReport>>

\* Mutant: only a load that went through is written.
PublishLoad_OnSuccess ==
    /\ loadPc = "over" /\ loadReport = "running"
    /\ loadReport' = IF loadError = "none" THEN "complete"
                     ELSE IF loadError = "cancelled" THEN loadReport ELSE loadError
    /\ UNCHANGED <<loadPc, pool, offering, loadError, loadSession, capture>>

\* load.json, whatever happened.
PublishLoad ==
    /\ loadPc = "over" /\ loadReport = "running"
    /\ loadReport' = IF loadError = "none" THEN "complete" ELSE loadError
    /\ UNCHANGED <<loadPc, pool, offering, loadError, loadSession, capture>>

MainThread ==
    \/ OpenSession \/ Warmup \/ StartCapture
    \/ OfferOnSchedule \/ OfferWhenFree \/ Drain
    \/ Withdraw \/ ShutSockets \/ Join \/ CountOutcomes
    \/ StopCapture \/ StopSession \/ PublishLoad

LoadNext == (MainThread \/ InterruptLoad \/ \E w \in Workers : Work(w)) /\ UNCHANGED scenario

LoadSpec == LoadInit /\ [][LoadNext]_loadVars

\* The threads run on; a request that is sent is answered, or times out.
LoadFairness == /\ WF_loadVars(MainThread /\ UNCHANGED scenario)
                /\ \A w \in Workers : WF_loadVars(Work(w) /\ UNCHANGED scenario)
LoadFairSpec == LoadSpec /\ LoadFairness
-----------------------------------------------------------------------------
LoadTypeOK ==
    /\ scenario \in Scenarios
    /\ loadPc \in {"lock", "warmup", "capture", "offer", "withdraw", "shut", "join",
                   "count", "uncapture", "stop", "over"}
    /\ upcoming \in 1..(Requests + 1) /\ pending \subseteq Index
    /\ future \in [Index -> {"absent", "queued", "running", "done", "withdrawn"}]
    /\ outcomes \in [Index -> {"none", "taken", "sent", "ok", "error", "dropped", "cancelled"}]
    /\ holds \in [Workers -> Index \cup {0}]
    /\ doing \in [Workers -> {"idle", "check", "send", "read"}]
    /\ socket \in [Workers -> {"none", "open", "shut"}]
    /\ cancelled \in BOOLEAN /\ loadError \in {"none"} \cup Errors
    /\ loadSession \in {"none", "running", "left"} /\ capture \in {"on", "off"}
    /\ loadReport \in {"running", "complete"} \cup Errors

Outstanding == {i \in Index : future[i] \in {"queued", "running"}}
Final == {"ok", "error", "dropped", "cancelled"}

\* What the scenario promises the server: never more outstanding requests than
\* --max-pending, or than workers in a closed loop, however late the main thread
\* learns what has finished.
WithinLimits ==
    Cardinality(Outstanding) <= IF OpenLoop THEN MaxPending ELSE Cardinality(Workers)

\* Once the report is computed no worker can change it: every request has its
\* one outcome, and what is reported as sent has been answered or has failed.
Accounted ==
    loadPc = "uncapture" \/ (loadPc \in {"stop", "over"} /\ upcoming > 1) =>
        /\ \A i \in Index : outcomes[i] \in Final
        /\ \A w \in Workers : doing[w] = "idle"
        /\ Outstanding = {}

\* A complete report stands for a load that was offered to the end: nothing was
\* cancelled, and a closed loop has dropped nothing.
CompleteIsWhole ==
    loadReport = "complete" =>
        \A i \in Index : outcomes[i] \in {"ok", "error"} \cup (IF OpenLoop THEN {"dropped"} ELSE {})

\* A load keeps its limits, its report accounts for every request exactly once
\* though workers run on past an interrupt, and it calls itself complete only if
\* all of it was offered; and types are kept.
LoadIsHonest == LoadTypeOK /\ WithinLimits /\ Accounted /\ CompleteIsWhole

\* The command ends, whenever it was interrupted: no worker, capture or
\* container outlives it unannounced, and load.json does not say running.
LoadEnds ==
    <>[](loadPc = "over" /\ loadReport # "running" /\ capture = "off"
         /\ loadSession # "running" /\ (loadSession = "left" => loadReport = "failed"))
=============================================================================
