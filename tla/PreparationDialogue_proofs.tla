---------------------- MODULE PreparationDialogue_proofs ----------------------
(***************************************************************************)
(* What holds of the dialogue, of the outcome of a run and of the page     *)
(* that follows it, for every number of launches, questions, faults,       *)
(* cases and lines.                                                        *)
(*                                                                         *)
(* PreparationDialogue: no child is lost, every answer fits its question,  *)
(* and a stop reaches only the launch it was meant for.  The three rest    *)
(* on one invariant.  Its parts say which launch the worker thread, the    *)
(* lifecycle and the open question are about (Current, Fresh), that a      *)
(* question is in one place at a time on its way from the child and back   *)
(* (Questions), what every stop() in flight is entitled to (Stops), and    *)
(* what unmounting has settled (Closing).                                  *)
(*                                                                         *)
(* RunOutcome: what the chat and the page say of a run is true, comes in   *)
(* order and agrees.  OutcomeInv relates the state file, the last words    *)
(* and the verdict to how far the run has come.                            *)
(*                                                                         *)
(* RunEvents: the page knows of a measurement, stays still, and shows      *)
(* every diagnostic and every memory.  EventInv follows the tracker        *)
(* through the lines that are still in the pipe: after the last of them    *)
(* it stands where the command stands.                                     *)
(***************************************************************************)
EXTENDS PreparationDialogue, RunOutcome, RunEvents, SequenceTheorems, FiniteSetTheorems, TLAPS

Running == {"check", "checkStop", "read", "deliver", "stopping", "release"}
Told == {"wait 30", "SIGTERM", "wait 5"}
PastLock == {"SIGINT"} \cup Told

\* There is a process exactly while the worker thread has one; it, and the
\* open question, are those of the last launch.
Current ==
    /\ process # None <=> worker \in Running
    /\ process # None => process = token /\ child[process] # "none"
    /\ worker # "off" => kind
    /\ kind => token # 0
    /\ event # 0 <=> worker = "deliver"
    /\ pending # NoRequest => pending[1] = token /\ pending[2] # 0 /\ kind /\ worker # "start"
    /\ stopRequested => token \in wanted

Owned == \A k \in Launches : Alive(k) => process = k

\* A launch that has not started has left no trace.
Fresh ==
    \A k \in Launches : k > token \/ (k = token /\ worker = "start") =>
        child[k] = "none" /\ rid[k] = 0 /\ out[k] = 0 /\ inp[k] = <<>>

\* A child that works has no question under way; one that asks has its last
\* one, in one place.
Questions ==
    \A k \in Launches :
        /\ child[k] \in {"busy", "measure"} =>
              out[k] = 0 /\ event = 0 /\ pending = NoRequest /\ inp[k] = <<>>
        /\ child[k] = "ask" =>
              /\ out[k] # 0 => out[k] = rid[k] /\ event = 0 /\ pending = NoRequest /\ inp[k] = <<>>
              /\ event # 0 => event = rid[k] /\ pending = NoRequest /\ inp[k] = <<>>
              /\ pending # NoRequest => pending[2] = rid[k] /\ inp[k] = <<>>
              /\ inp[k] # <<>> => Len(inp[k]) = 1 /\ Head(inp[k]).id = rid[k]

\* A stop() is under way for a launch somebody wanted to end.
StopsOf(c) ==
    /\ stop[c].st # "idle" /\ stop[c].expected # None => stop[c].expected \in wanted
    /\ stop[c].st # "idle" /\ stop[c].expected = None => token = 0 \/ token \in wanted
    /\ stop[c].st \in PastLock =>
          stop[c].target # None /\ child[stop[c].target] # "none" /\ stop[c].target \in wanted
    /\ stop[c].st \in Told => stop[c].target \in signalled

Stops ==
    /\ \A c \in Callers : StopsOf(c)
    /\ stop["user"].st # "idle" => stop["user"].expected # None
    /\ stop["worker"].st # "idle" => worker \in {"stopping", "checkStop"}
    /\ signalled \subseteq wanted

Closing ==
    /\ ui = "unmounted" => closing
    /\ closing => ui \in {"unmounted", "dead"}
    /\ ui = "closing" \/ closing => token = 0 \/ token \in wanted
    /\ stop["unmount"].st # "idle" => closing /\ stop["unmount"].expected = None
    /\ stop["unmount"].st \in PastLock => process \in {None, stop["unmount"].target}
    /\ ui = "unmounted" /\ stop["unmount"].st = "idle" =>
          \A k \in Launches : Alive(k) => k \in signalled

IInv == TypeOK /\ Current /\ Owned /\ Fresh /\ Questions /\ Stops /\ Closing
-----------------------------------------------------------------------------
(* What the operators the actions are built from do.                       *)

ChildStates == {"none", "busy", "ask", "measure", "cleanup", "exited"}
StopStates == {"idle", "lock", "SIGINT", "wait 30", "SIGTERM", "wait 5"}
StopCall == [st : StopStates, expected : 0..MaxLaunches, target : 0..MaxLaunches]
Replies == [id : 1..MaxAsks, action : {"answer", "cancel"}]
OneAtATime ==
    \A c, d \in Callers : c # d => stop[c].st \in {"idle", "lock"} \/ stop[d].st \in {"idle", "lock"}
Moves(k, where) ==
    /\ child' \in [Launches -> ChildStates]
    /\ child'[k] = where
    /\ \A j \in Launches \ {k} : child'[j] = child[j]
StopsOnly(c, call) ==
    /\ stop' \in [Callers -> StopCall]
    /\ stop'[c].st = call.st /\ stop'[c].expected = call.expected /\ stop'[c].target = call.target
    /\ \A d \in Callers \ {c} : stop'[d] = stop[d]
    /\ OneAtATime'

\* One child goes somewhere.
LEMMA RunMoves ==
    ASSUME TypeOK, NEW k \in Launches, NEW where \in ChildStates, Run(k, where)
    PROVE  Moves(k, where)
BY DEF TypeOK, Run, Moves, ChildStates

LEMMA StopTypes ==
    ASSUME TypeOK
    PROVE  /\ stop \in [Callers -> StopCall] /\ OneAtATime
           /\ \A c \in Callers : stop[c].st \in StopStates
                 /\ stop[c].expected \in 0..MaxLaunches /\ stop[c].target \in 0..MaxLaunches
BY DEF TypeOK, StopCall, StopStates, OneAtATime

\* A stop() is called, gets its process, goes on to its next phase, ends.
LEMMA CallStops ==
    ASSUME TypeOK, NEW c \in Callers, NEW expected \in 0..MaxLaunches, Call(c, expected)
    PROVE  StopsOnly(c, [st |-> "lock", expected |-> expected, target |-> None])
<1> DEFINE call == [st |-> "lock", expected |-> expected, target |-> None]
<1>1. stop \in [Callers -> StopCall] /\ OneAtATime
  BY StopTypes
<1>2. call \in StopCall /\ call.st = "lock" /\ call.expected = expected /\ call.target = None
  BY ConstantsAssumption DEF StopCall, StopStates, None
<1>3. stop' = [stop EXCEPT ![c] = call]
  BY DEF Call
<1>4. stop' \in [Callers -> StopCall] /\ stop'[c] = call /\ \A d \in Callers \ {c} : stop'[d] = stop[d]
  BY <1>1, <1>2, <1>3
<1>5. OneAtATime'
  BY <1>1, <1>2, <1>4 DEF OneAtATime
<1> QED
  BY <1>2, <1>4, <1>5 DEF StopsOnly

LEMMA EndedStops ==
    ASSUME TypeOK, NEW c \in Callers, Ended(c)
    PROVE  StopsOnly(c, Idle)
<1>1. stop \in [Callers -> StopCall] /\ OneAtATime
  BY StopTypes
<1>2. Idle \in StopCall /\ Idle.st = "idle"
  BY ConstantsAssumption DEF StopCall, StopStates, None, Idle
<1>3. stop' \in [Callers -> StopCall] /\ stop'[c] = Idle /\ \A d \in Callers \ {c} : stop'[d] = stop[d]
  BY <1>1, <1>2 DEF Ended
<1>4. OneAtATime'
  BY <1>1, <1>2, <1>3 DEF OneAtATime
<1> QED
  BY <1>3, <1>4 DEF StopsOnly

LEMMA PhaseStops ==
    ASSUME TypeOK, NEW c \in Callers, stop[c].st \in PastLock, NEW s \in Told, Phase(c, s)
    PROVE  StopsOnly(c, [st |-> s, expected |-> stop[c].expected, target |-> stop[c].target])
<1> DEFINE call == [st |-> s, expected |-> stop[c].expected, target |-> stop[c].target]
<1>1. stop \in [Callers -> StopCall] /\ OneAtATime /\ stop[c] \in StopCall
  BY StopTypes
<1>2. [stop[c] EXCEPT !.st = s] = call
  BY <1>1 DEF StopCall
<1>3. call \in StopCall /\ call.st = s
  BY <1>1 DEF StopCall, StopStates, Told
<1>4. stop' = [stop EXCEPT ![c] = call]
  BY <1>2 DEF Phase
<1>5. stop' \in [Callers -> StopCall] /\ stop'[c] = call /\ \A d \in Callers \ {c} : stop'[d] = stop[d]
  BY <1>1, <1>3, <1>4
<1>6. OneAtATime'
  BY <1>1, <1>3, <1>5 DEF OneAtATime, PastLock, Told
<1> QED
  BY <1>3, <1>5, <1>6 DEF StopsOnly

LEMMA TakeStops ==
    ASSUME TypeOK, NEW c \in Callers, \A d \in Callers : stop[d].st \in {"idle", "lock"},
           stop' = [stop EXCEPT ![c].st = "SIGINT", ![c].target = process]
    PROVE  StopsOnly(c, [st |-> "SIGINT", expected |-> stop[c].expected, target |-> process])
<1> DEFINE call == [st |-> "SIGINT", expected |-> stop[c].expected, target |-> process]
<1>1. stop \in [Callers -> StopCall] /\ stop[c] \in StopCall /\ process \in 0..MaxLaunches
  BY StopTypes DEF TypeOK
<1>2. stop' \in [Callers -> StopCall] /\ \A d \in Callers \ {c} : stop'[d] = stop[d]
  BY <1>1 DEF StopCall, StopStates
<1>3. stop'[c].st = "SIGINT" /\ stop'[c].expected = stop[c].expected /\ stop'[c].target = process
  BY <1>1 DEF StopCall
<1>4. OneAtATime'
  BY <1>2 DEF OneAtATime
<1> QED
  BY <1>2, <1>3, <1>4 DEF StopsOnly

LEMMA OneAnswer ==
    ASSUME NEW S, NEW s \in Seq(S), Len(s) = 1
    PROVE  s # <<>> /\ Head(s) = s[1] /\ Tail(s) = <<>>
<1>1. s # <<>> /\ Head(s) = s[1]
  OBVIOUS
<1>2. Tail(s) \in Seq(S) /\ Len(Tail(s)) = 0
  BY <1>1
<1>3. Tail(s) = <<>>
  BY <1>2, EmptySeq
<1> QED
  BY <1>1, <1>3

LEMMA FirstAnswer ==
    ASSUME NEW S, NEW r \in S
    PROVE  Append(<<>>, r) \in Seq(S) /\ Len(Append(<<>>, r)) = 1 /\ Head(Append(<<>>, r)) = r
OBVIOUS

LEMMA NoneIsNoLaunch == None \in 0..MaxLaunches /\ 0 \in 0..MaxLaunches /\ 0 \in 0..MaxAsks
BY ConstantsAssumption DEF None

LEMMA FaultCounts ==
    ASSUME TypeOK, Fault PROVE faults' \in 0..MaxFaults
<1>1. faults \in 0..MaxFaults
  BY DEF TypeOK
<1>2. faults < MaxFaults /\ faults' = faults + 1
  BY DEF Fault
<1> QED
  BY <1>1, <1>2, ConstantsAssumption

\* What the steps need of the types: the launches that are named exist.
LEMMA Bounds ==
    ASSUME IInv
    PROVE  /\ TypeOK /\ stop \in [Callers -> StopCall] /\ faults \in 0..MaxFaults
           /\ token \in Int /\ token \in 0..MaxLaunches /\ process \in 0..MaxLaunches
           /\ \A k \in Launches : k \in Int /\ k # None /\ k # 0 /\ k \in 0..MaxLaunches
           /\ \A c \in Callers : stop[c].st \in StopStates
                 /\ stop[c].expected \in 0..MaxLaunches /\ stop[c].target \in 0..MaxLaunches
                 /\ (stop[c].target # None => stop[c].target \in Launches)
           /\ token # 0 => token \in Launches
           /\ kind \/ process # None \/ worker # "off" => token \in Launches
           /\ process # None => process = token
           /\ worker \in Running => process = token /\ process # None
<1>1. TypeOK /\ Current
  BY DEF IInv
<1>2. /\ stop \in [Callers -> StopCall] /\ faults \in 0..MaxFaults
      /\ token \in 0..MaxLaunches /\ process \in 0..MaxLaunches
  BY <1>1, StopTypes DEF TypeOK
<1>3. \A n \in 0..MaxLaunches : n \in Int /\ (n # 0 => n \in Launches)
  BY ConstantsAssumption DEF Launches
<1>4. \A k \in Launches : k \in Int /\ k # 0 /\ k \in 0..MaxLaunches
  BY ConstantsAssumption DEF Launches
<1>5. \A c \in Callers : stop[c].st \in StopStates
                 /\ stop[c].expected \in 0..MaxLaunches /\ stop[c].target \in 0..MaxLaunches
  BY <1>1, StopTypes
<1>6. token # 0 => token \in Launches
  BY <1>2, <1>3
<1>7. kind \/ process # None \/ worker # "off" => token \in Launches
  BY <1>1, <1>6 DEF Current, Running
<1>8. /\ process # None => process = token
      /\ worker \in Running => process = token /\ process # None
  BY <1>1 DEF Current
<1> QED
  BY <1>1, <1>2, <1>3, <1>4, <1>5, <1>6, <1>7, <1>8 DEF None


\* What a step on one stop() has to respect.
LEMMA StopsMove ==
    ASSUME IInv, NEW c \in Callers, NEW call, StopsOnly(c, call),
           token' = token, wanted \subseteq wanted', signalled \subseteq signalled', signalled' \subseteq wanted',
           \A k \in Launches : child[k] # "none" => child'[k] # "none",
           call.st # "idle" /\ call.expected # None => call.expected \in wanted',
           call.st # "idle" /\ call.expected = None => token = 0 \/ token \in wanted',
           call.st \in PastLock =>
              call.target \in Launches /\ child'[call.target] # "none" /\ call.target \in wanted',
           call.st \in Told => call.target \in signalled',
           c = "user" /\ call.st # "idle" => call.expected # None,
           stop'["worker"].st # "idle" => worker' \in {"stopping", "checkStop"}
    PROVE  Stops'
<1>1. StopsOf(c)'
  BY Bounds DEF StopsOf, StopsOnly
<1>2. \A d \in Callers \ {c} : StopsOf(d)'
  <2> SUFFICES ASSUME NEW d \in Callers \ {c} PROVE StopsOf(d)'
    OBVIOUS
  <2>1. stop'[d] = stop[d] /\ StopsOf(d)
    BY DEF IInv, Stops, StopsOnly
  <2> QED
    BY <2>1, Bounds DEF StopsOf
<1>3. stop'["user"].st # "idle" => stop'["user"].expected # None
  BY DEF IInv, Stops, StopsOnly, Callers
<1> QED
  BY <1>1, <1>2, <1>3 DEF Stops
LEMMA AskKeeps ==
    ASSUME IInv, NEW k \in Launches, Ask(k) PROVE IInv'
<1>1. UNCHANGED <<inp, process, closing, stop, token, kind, stopRequested, pending, dialog, ui, worker, event, wanted, signalled, faults>>
  BY DEF Ask, pipes, lifecycle, app, thread
<1>2. child[k] = "busy" /\ Moves(k, "ask")
  BY Bounds, RunMoves DEF Ask, ChildStates
<1>3. rid \in [Launches -> 0..MaxAsks] /\ out \in [Launches -> 0..MaxAsks]
  BY Bounds DEF TypeOK
<1>4. rid[k] + 1 \in 1..MaxAsks /\ rid[k] + 1 # 0 /\ rid[k] + 1 \in 0..MaxAsks
  BY <1>3, ConstantsAssumption DEF Ask
<1>5. rid' \in [Launches -> 0..MaxAsks] /\ rid'[k] # 0
  BY <1>3, <1>4 DEF Ask
<1>6. out' \in [Launches -> 0..MaxAsks] /\ out'[k] = rid'[k]
  BY <1>3, <1>4, <1>5 DEF Ask
<1>7. \A j \in Launches \ {k} : rid'[j] = rid[j] /\ out'[j] = out[j]
  BY Bounds DEF Ask, TypeOK
<1>8. TypeOK'
  BY <1>1, <1>2, <1>3, <1>4, <1>5, <1>6, <1>7, Bounds, NoneIsNoLaunch DEF TypeOK, Moves, StopsOnly, StopCall, StopStates, OneAtATime, ChildStates, NoRequest, Replies
<1>9. Current'
  BY <1>1, <1>2, <1>3, <1>4, <1>5, <1>6, <1>7, Bounds DEF IInv, Current, Running, Moves, NoRequest, None
<1>10. Owned'
  BY <1>1, <1>2, <1>3, <1>4, <1>5, <1>6, <1>7, Bounds DEF IInv, Owned, Moves, Alive, Exited, None
<1>11. Fresh'
  BY <1>1, <1>2, <1>3, <1>4, <1>5, <1>6, <1>7, Bounds DEF IInv, Fresh, Moves, Alive
<1>12. Questions'
  BY <1>1, <1>2, <1>3, <1>4, <1>5, <1>6, <1>7, Bounds DEF IInv, Questions, Fresh, Owned, Alive, Current, Moves, NoRequest, None
<1>13. Stops'
  BY <1>1, <1>2, <1>3, <1>4, <1>5, <1>6, <1>7, Bounds DEF IInv, Stops, StopsOf, Current, Running, Moves, StopsOnly, Callers, Idle, None, PastLock, Told
<1>14. Closing'
  BY <1>1, <1>2, <1>3, <1>4, <1>5, <1>6, <1>7, Bounds DEF IInv, Closing, Stops, StopsOf, Current, Owned, Alive, Exited, Up, Moves, StopsOnly, Callers, Idle, None, PastLock, Told
<1> QED
  BY <1>8, <1>9, <1>10, <1>11, <1>12, <1>13, <1>14 DEF IInv

LEMMA ReadReplyKeeps ==
    ASSUME IInv, NEW k \in Launches, ReadReply(k) PROVE IInv'
<1>1. UNCHANGED <<rid, out, process, closing, stop, token, kind, stopRequested, pending, dialog, ui, worker, event, wanted, signalled, faults>>
  BY DEF ReadReply, pipes, lifecycle, app, thread
<1>2. child[k] = "ask" /\ inp[k] # <<>>
  BY  DEF ReadReply
<1>3. \E where \in {"busy", "cleanup"} : Moves(k, where)
  BY Bounds, RunMoves DEF ReadReply, ChildStates
<1>4. inp \in [Launches -> Seq(Replies)] /\ inp' = [inp EXCEPT ![k] = Tail(@)]
  BY Bounds DEF ReadReply, TypeOK, Replies
<1>5. Tail(inp[k]) \in Seq(Replies)
  BY <1>2, <1>4, HeadTailProperties
<1>6. inp' \in [Launches -> Seq(Replies)] /\ inp'[k] = Tail(inp[k]) /\ \A j \in Launches \ {k} : inp'[j] = inp[j]
  BY <1>4, <1>5
<1>7. TypeOK'
  BY <1>1, <1>2, <1>3, <1>4, <1>5, <1>6, Bounds, NoneIsNoLaunch DEF TypeOK, Moves, StopsOnly, StopCall, StopStates, OneAtATime, ChildStates, NoRequest, Replies
<1>8. Current'
  BY <1>1, <1>2, <1>3, <1>4, <1>5, <1>6, Bounds DEF IInv, Current, Running, Moves, NoRequest, None
<1>9. Owned'
  BY <1>1, <1>2, <1>3, <1>4, <1>5, <1>6, Bounds DEF IInv, Owned, Moves, Alive, Exited, None
<1>10. Fresh'
  BY <1>1, <1>2, <1>3, <1>4, <1>5, <1>6, Bounds DEF IInv, Fresh, Moves, Alive
<1>11. Questions'
  BY <1>1, <1>2, <1>3, <1>4, <1>5, <1>6, Bounds DEF IInv, Questions, Fresh, Owned, Alive, Current, Moves, NoRequest, None
<1>12. Stops'
  BY <1>1, <1>2, <1>3, <1>4, <1>5, <1>6, Bounds DEF IInv, Stops, StopsOf, Current, Running, Moves, StopsOnly, Callers, Idle, None, PastLock, Told
<1>13. Closing'
  BY <1>1, <1>2, <1>3, <1>4, <1>5, <1>6, Bounds DEF IInv, Closing, Stops, StopsOf, Current, Owned, Alive, Exited, Up, Moves, StopsOnly, Callers, Idle, None, PastLock, Told
<1> QED
  BY <1>7, <1>8, <1>9, <1>10, <1>11, <1>12, <1>13 DEF IInv

LEMMA DisconnectedKeeps ==
    ASSUME IInv, NEW k \in Launches, Disconnected(k) PROVE IInv'
<1>1. UNCHANGED <<rid, out, inp, process, closing, stop, token, kind, stopRequested, pending, dialog, ui, worker, event, wanted, signalled, faults>>
  BY DEF Disconnected, pipes, lifecycle, app, thread
<1>2. Alive(k) /\ Moves(k, "cleanup")
  BY Bounds, RunMoves DEF Disconnected, ChildStates, Alive
<1>3. TypeOK'
  BY <1>1, <1>2, Bounds, NoneIsNoLaunch DEF TypeOK, Moves, StopsOnly, StopCall, StopStates, OneAtATime, ChildStates, NoRequest, Replies
<1>4. Current'
  BY <1>1, <1>2, Bounds DEF IInv, Current, Running, Moves, NoRequest, None
<1>5. Owned'
  BY <1>1, <1>2, Bounds DEF IInv, Owned, Moves, Alive, Exited, None
<1>6. Fresh'
  BY <1>1, <1>2, Bounds DEF IInv, Fresh, Moves, Alive
<1>7. Questions'
  BY <1>1, <1>2, Bounds DEF IInv, Questions, Fresh, Owned, Alive, Current, Moves, NoRequest, None
<1>8. Stops'
  BY <1>1, <1>2, Bounds DEF IInv, Stops, StopsOf, Current, Running, Moves, StopsOnly, Callers, Idle, None, PastLock, Told
<1>9. Closing'
  BY <1>1, <1>2, Bounds DEF IInv, Closing, Stops, StopsOf, Current, Owned, Alive, Exited, Up, Moves, StopsOnly, Callers, Idle, None, PastLock, Told
<1> QED
  BY <1>3, <1>4, <1>5, <1>6, <1>7, <1>8, <1>9 DEF IInv

LEMMA ProceedKeeps ==
    ASSUME IInv, NEW k \in Launches, Proceed(k) PROVE IInv'
<1>1. UNCHANGED <<rid, out, inp, process, closing, stop, token, kind, stopRequested, pending, dialog, ui, worker, event, wanted, signalled, faults>>
  BY DEF Proceed, pipes, lifecycle, app, thread
<1>2. \/ child[k] = "busy" /\ \E where \in {"measure", "cleanup"} : Moves(k, where)
      \/ child[k] = "measure" /\ Moves(k, "cleanup")
  BY Bounds, RunMoves DEF Proceed, ChildStates
<1>3. TypeOK'
  BY <1>1, <1>2, Bounds, NoneIsNoLaunch DEF TypeOK, Moves, StopsOnly, StopCall, StopStates, OneAtATime, ChildStates, NoRequest, Replies
<1>4. Current'
  BY <1>1, <1>2, Bounds DEF IInv, Current, Running, Moves, NoRequest, None
<1>5. Owned'
  BY <1>1, <1>2, Bounds DEF IInv, Owned, Moves, Alive, Exited, None
<1>6. Fresh'
  BY <1>1, <1>2, Bounds DEF IInv, Fresh, Moves, Alive
<1>7. Questions'
  BY <1>1, <1>2, Bounds DEF IInv, Questions, Fresh, Owned, Alive, Current, Moves, NoRequest, None
<1>8. Stops'
  BY <1>1, <1>2, Bounds DEF IInv, Stops, StopsOf, Current, Running, Moves, StopsOnly, Callers, Idle, None, PastLock, Told
<1>9. Closing'
  BY <1>1, <1>2, Bounds DEF IInv, Closing, Stops, StopsOf, Current, Owned, Alive, Exited, Up, Moves, StopsOnly, Callers, Idle, None, PastLock, Told
<1> QED
  BY <1>3, <1>4, <1>5, <1>6, <1>7, <1>8, <1>9 DEF IInv

LEMMA CleanupEndsKeeps ==
    ASSUME IInv, NEW k \in Launches, CleanupEnds(k) PROVE IInv'
<1>1. UNCHANGED <<rid, out, inp, process, closing, stop, token, kind, stopRequested, pending, dialog, ui, worker, event, wanted, signalled, faults>>
  BY DEF CleanupEnds, pipes, lifecycle, app, thread
<1>2. Alive(k) /\ Moves(k, "exited")
  BY Bounds, RunMoves DEF CleanupEnds, ChildStates, Alive
<1>3. TypeOK'
  BY <1>1, <1>2, Bounds, NoneIsNoLaunch DEF TypeOK, Moves, StopsOnly, StopCall, StopStates, OneAtATime, ChildStates, NoRequest, Replies
<1>4. Current'
  BY <1>1, <1>2, Bounds DEF IInv, Current, Running, Moves, NoRequest, None
<1>5. Owned'
  BY <1>1, <1>2, Bounds DEF IInv, Owned, Moves, Alive, Exited, None
<1>6. Fresh'
  BY <1>1, <1>2, Bounds DEF IInv, Fresh, Moves, Alive
<1>7. Questions'
  BY <1>1, <1>2, Bounds DEF IInv, Questions, Fresh, Owned, Alive, Current, Moves, NoRequest, None
<1>8. Stops'
  BY <1>1, <1>2, Bounds DEF IInv, Stops, StopsOf, Current, Running, Moves, StopsOnly, Callers, Idle, None, PastLock, Told
<1>9. Closing'
  BY <1>1, <1>2, Bounds DEF IInv, Closing, Stops, StopsOf, Current, Owned, Alive, Exited, Up, Moves, StopsOnly, Callers, Idle, None, PastLock, Told
<1> QED
  BY <1>3, <1>4, <1>5, <1>6, <1>7, <1>8, <1>9 DEF IInv

LEMMA KilledKeeps ==
    ASSUME IInv, NEW k \in Launches, Killed(k) PROVE IInv'
<1>1. UNCHANGED <<rid, out, inp, process, closing, stop, token, kind, stopRequested, pending, dialog, ui, worker, event, wanted, signalled>>
  BY DEF Killed, pipes, lifecycle, app, thread, Fault
<1>2. Alive(k) /\ Moves(k, "exited")
  BY Bounds, RunMoves DEF Killed, ChildStates
<1>3. faults' \in 0..MaxFaults
  BY Bounds, FaultCounts DEF Killed
<1>4. TypeOK'
  BY <1>1, <1>2, <1>3, Bounds, NoneIsNoLaunch DEF TypeOK, Moves, StopsOnly, StopCall, StopStates, OneAtATime, ChildStates, NoRequest, Replies
<1>5. Current'
  BY <1>1, <1>2, <1>3, Bounds DEF IInv, Current, Running, Moves, NoRequest, None
<1>6. Owned'
  BY <1>1, <1>2, <1>3, Bounds DEF IInv, Owned, Moves, Alive, Exited, None
<1>7. Fresh'
  BY <1>1, <1>2, <1>3, Bounds DEF IInv, Fresh, Moves, Alive
<1>8. Questions'
  BY <1>1, <1>2, <1>3, Bounds DEF IInv, Questions, Fresh, Owned, Alive, Current, Moves, NoRequest, None
<1>9. Stops'
  BY <1>1, <1>2, <1>3, Bounds DEF IInv, Stops, StopsOf, Current, Running, Moves, StopsOnly, Callers, Idle, None, PastLock, Told
<1>10. Closing'
  BY <1>1, <1>2, <1>3, Bounds DEF IInv, Closing, Stops, StopsOf, Current, Owned, Alive, Exited, Up, Moves, StopsOnly, Callers, Idle, None, PastLock, Told
<1> QED
  BY <1>4, <1>5, <1>6, <1>7, <1>8, <1>9, <1>10 DEF IInv

LEMMA AcquireKeeps ==
    ASSUME IInv, NEW c \in Callers, Acquire(c) PROVE IInv'
<1>1. UNCHANGED <<child, rid, out, inp, process, closing, token, kind, stopRequested, pending, dialog, ui, worker, event, wanted, signalled, faults>>
  BY DEF Acquire, pipes, lifecycle, app, thread
<1>2. Up /\ stop[c].st = "lock"
  BY  DEF Acquire
<1>3. \/ /\ process = None \/ (stop[c].expected # None /\ process # stop[c].expected)
         /\ StopsOnly(c, Idle)
      \/ /\ process # None /\ (stop[c].expected = None \/ process = stop[c].expected)
         /\ StopsOnly(c, [st |-> "SIGINT", expected |-> stop[c].expected, target |-> process])
  BY Bounds, EndedStops, TakeStops DEF Acquire
<1>4. TypeOK'
  BY <1>1, <1>2, <1>3, Bounds, NoneIsNoLaunch DEF TypeOK, Moves, StopsOnly, StopCall, StopStates, OneAtATime, ChildStates, NoRequest, Replies
<1>5. Current'
  BY <1>1, <1>2, <1>3, Bounds DEF IInv, Current, Running, Moves, NoRequest, None
<1>6. Owned'
  BY <1>1, <1>2, <1>3, Bounds DEF IInv, Owned, Moves, Alive, Exited, None
<1>7. Fresh'
  BY <1>1, <1>2, <1>3, Bounds DEF IInv, Fresh, Moves, Alive
<1>8. Questions'
  BY <1>1, <1>2, <1>3, Bounds DEF IInv, Questions, Fresh, Owned, Alive, Current, Moves, NoRequest, None
<1>9. Stops'
  <2>1. /\ token' = token /\ wanted' = wanted /\ signalled' = signalled /\ signalled \subseteq wanted
        /\ \A k \in Launches : child'[k] = child[k]
    BY <1>1 DEF IInv, Stops
  <2>2. stop'["worker"].st # "idle" => worker' \in {"stopping", "checkStop"}
    BY <1>1, <1>2, <1>3 DEF IInv, Stops, StopsOnly, Callers
  <2>3. CASE StopsOnly(c, Idle)
    BY <2>1, <2>2, <2>3, StopsMove DEF Idle, PastLock, Told
  <2>4. CASE /\ process # None /\ (stop[c].expected = None \/ process = stop[c].expected)
             /\ StopsOnly(c, [st |-> "SIGINT", expected |-> stop[c].expected, target |-> process])
    <3>1. process \in wanted /\ process \in Launches /\ child[process] # "none"
      BY <1>2, <2>4, Bounds DEF IInv, Stops, StopsOf, Current, None
    <3>2. /\ stop[c].expected # None => stop[c].expected \in wanted
          /\ stop[c].expected = None => token = 0 \/ token \in wanted
          /\ c = "user" => stop[c].expected # None
      BY <1>2 DEF IInv, Stops, StopsOf
    <3> QED
      BY <2>1, <2>2, <2>4, <3>1, <3>2, StopsMove DEF PastLock, Told
  <2> QED
    BY <1>3, <2>3, <2>4
<1>10. Closing'
  BY <1>1, <1>2, <1>3, Bounds DEF IInv, Closing, Stops, StopsOf, Current, Owned, Alive, Exited, Up, Moves, StopsOnly, Callers, Idle, None, PastLock, Told
<1> QED
  BY <1>4, <1>5, <1>6, <1>7, <1>8, <1>9, <1>10 DEF IInv

LEMMA SignalKeeps ==
    ASSUME IInv, NEW c \in Callers, Signal(c) PROVE IInv'
<1>1. UNCHANGED <<rid, out, inp, process, closing, token, kind, stopRequested, pending, dialog, ui, worker, event, wanted, faults>>
  BY DEF Signal, pipes, lifecycle, app, thread
<1>2. stop[c].st \in {"SIGINT", "SIGTERM"} /\ stop[c].target \in Launches /\ child[stop[c].target] # "none"
  BY Bounds DEF Signal, IInv, Stops, StopsOf, PastLock, Told
<1>3. \/ /\ Exited(stop[c].target) /\ StopsOnly(c, Idle) /\ UNCHANGED <<child, signalled>>
      \/ /\ Alive(stop[c].target) /\ Moves(stop[c].target, "cleanup") /\ signalled' = signalled \cup {stop[c].target}
         /\ \E s \in {"wait 30", "wait 5"} :
               StopsOnly(c, [st |-> s, expected |-> stop[c].expected, target |-> stop[c].target])
  <2>1. CASE Exited(stop[c].target)
    BY <2>1, Bounds, EndedStops DEF Signal
  <2>2. CASE ~Exited(stop[c].target)
    <3>1. Alive(stop[c].target)
      BY <1>2, <2>2, Bounds DEF TypeOK, Alive, Exited
    <3>2. Moves(stop[c].target, "cleanup") /\ signalled' = signalled \cup {stop[c].target}
      BY <1>2, <2>2, Bounds, RunMoves DEF Signal, ChildStates
    <3>3. \E s \in {"wait 30", "wait 5"} : Phase(c, s)
      BY <2>2 DEF Signal
    <3> QED
      BY <1>2, <3>1, <3>2, <3>3, Bounds, PhaseStops DEF PastLock, Told
  <2> QED
    BY <2>1, <2>2
<1>4. TypeOK'
  BY <1>1, <1>2, <1>3, Bounds, NoneIsNoLaunch DEF TypeOK, Moves, StopsOnly, StopCall, StopStates, OneAtATime, ChildStates, NoRequest, Replies
<1>5. Current'
  BY <1>1, <1>2, <1>3, Bounds DEF IInv, Current, Running, Moves, NoRequest, None
<1>6. Owned'
  BY <1>1, <1>2, <1>3, Bounds DEF IInv, Owned, Moves, Alive, Exited, None
<1>7. Fresh'
  BY <1>1, <1>2, <1>3, Bounds DEF IInv, Fresh, Moves, Alive
<1>8. Questions'
  BY <1>1, <1>2, <1>3, Bounds DEF IInv, Questions, Fresh, Owned, Alive, Current, Moves, NoRequest, None
<1>9. Stops'
  <2>1. /\ token' = token /\ wanted' = wanted /\ signalled \subseteq signalled'
        /\ stop[c].target \in wanted /\ signalled' \subseteq wanted'
        /\ \A k \in Launches : child[k] # "none" => child'[k] # "none"
    BY <1>1, <1>2, <1>3 DEF IInv, Stops, StopsOf, PastLock, Told, Moves
  <2>2. stop'["worker"].st # "idle" => worker' \in {"stopping", "checkStop"}
    BY <1>1, <1>2, <1>3 DEF IInv, Stops, StopsOnly, Callers, Idle
  <2>3. CASE StopsOnly(c, Idle)
    BY <2>1, <2>2, <2>3, StopsMove DEF Idle, PastLock, Told
  <2>4. ASSUME NEW s \in {"wait 30", "wait 5"}, signalled' = signalled \cup {stop[c].target},
               StopsOnly(c, [st |-> s, expected |-> stop[c].expected, target |-> stop[c].target])
        PROVE  Stops'
    <3>1. /\ stop[c].expected # None => stop[c].expected \in wanted
          /\ stop[c].expected = None => token = 0 \/ token \in wanted
          /\ c = "user" => stop[c].expected # None
      BY <1>2 DEF IInv, Stops, StopsOf
    <3>2. stop[c].target \in signalled' /\ child'[stop[c].target] # "none"
      BY <1>2, <2>1, <2>4
    <3> QED
      BY <1>2, <2>1, <2>2, <2>4, <3>1, <3>2, StopsMove
  <2> QED
    BY <1>3, <2>3, <2>4
<1>10. Closing'
  BY <1>1, <1>2, <1>3, Bounds DEF IInv, Closing, Stops, StopsOf, Current, Owned, Alive, Exited, Up, Moves, StopsOnly, Callers, Idle, None, PastLock, Told
<1> QED
  BY <1>4, <1>5, <1>6, <1>7, <1>8, <1>9, <1>10 DEF IInv

LEMMA WaitKeeps ==
    ASSUME IInv, NEW c \in Callers, Wait(c) PROVE IInv'
<1>1. UNCHANGED <<child, rid, out, inp, process, closing, token, kind, stopRequested, pending, dialog, ui, worker, event, wanted, signalled, faults>>
  BY DEF Wait, pipes, lifecycle, app, thread
<1>2. stop[c].st \in Told
  BY  DEF Wait, Told
<1>3. \/ StopsOnly(c, Idle)
      \/ StopsOnly(c, [st |-> "SIGTERM", expected |-> stop[c].expected, target |-> stop[c].target])
  BY Bounds, EndedStops, PhaseStops DEF Wait, PastLock, Told
<1>4. TypeOK'
  BY <1>1, <1>2, <1>3, Bounds, NoneIsNoLaunch DEF TypeOK, Moves, StopsOnly, StopCall, StopStates, OneAtATime, ChildStates, NoRequest, Replies
<1>5. Current'
  BY <1>1, <1>2, <1>3, Bounds DEF IInv, Current, Running, Moves, NoRequest, None
<1>6. Owned'
  BY <1>1, <1>2, <1>3, Bounds DEF IInv, Owned, Moves, Alive, Exited, None
<1>7. Fresh'
  BY <1>1, <1>2, <1>3, Bounds DEF IInv, Fresh, Moves, Alive
<1>8. Questions'
  BY <1>1, <1>2, <1>3, Bounds DEF IInv, Questions, Fresh, Owned, Alive, Current, Moves, NoRequest, None
<1>9. Stops'
  <2>1. /\ token' = token /\ wanted' = wanted /\ signalled' = signalled /\ signalled \subseteq wanted
        /\ \A k \in Launches : child'[k] = child[k]
    BY <1>1 DEF IInv, Stops
  <2>2. stop'["worker"].st # "idle" => worker' \in {"stopping", "checkStop"}
    BY <1>1, <1>2, <1>3 DEF IInv, Stops, StopsOnly, Callers, Idle, Told
  <2>3. CASE StopsOnly(c, Idle)
    BY <2>1, <2>2, <2>3, StopsMove DEF Idle, PastLock, Told
  <2>4. CASE StopsOnly(c, [st |-> "SIGTERM", expected |-> stop[c].expected, target |-> stop[c].target])
    <3>1. /\ stop[c].expected # None => stop[c].expected \in wanted
          /\ stop[c].expected = None => token = 0 \/ token \in wanted
          /\ c = "user" => stop[c].expected # None
      BY <1>2 DEF IInv, Stops, StopsOf, Told
    <3>2. /\ stop[c].target \in signalled /\ stop[c].target \in wanted
          /\ stop[c].target \in Launches /\ child[stop[c].target] # "none"
      BY <1>2, Bounds DEF IInv, Stops, StopsOf, PastLock
    <3> QED
      BY <2>1, <2>2, <2>4, <3>1, <3>2, StopsMove
  <2> QED
    BY <1>3, <2>3, <2>4
<1>10. Closing'
  BY <1>1, <1>2, <1>3, Bounds DEF IInv, Closing, Stops, StopsOf, Current, Owned, Alive, Exited, Up, Moves, StopsOnly, Callers, Idle, None, PastLock, Told
<1> QED
  BY <1>4, <1>5, <1>6, <1>7, <1>8, <1>9, <1>10 DEF IInv

LEMMA LaunchKeeps ==
    ASSUME IInv, Launch PROVE IInv'
<1>1. UNCHANGED <<child, rid, out, inp, process, closing, stop, pending, dialog, ui, event, wanted, signalled, faults>>
  BY DEF Launch, pipes, lifecycle, app, thread
<1>2. ui = "open" /\ ~kind /\ process = None
  BY  DEF Launch
<1>3. token' = token + 1 /\ token' \in Launches /\ kind' = TRUE /\ stopRequested' = FALSE /\ worker' = "start"
  BY Bounds, ConstantsAssumption DEF Launch, Launches
<1>4. TypeOK'
  BY <1>1, <1>2, <1>3, Bounds, NoneIsNoLaunch DEF TypeOK, Moves, StopsOnly, StopCall, StopStates, OneAtATime, ChildStates, NoRequest, Replies
<1>5. Current'
  BY <1>1, <1>2, <1>3, Bounds DEF IInv, Current, Running, Moves, NoRequest, None
<1>6. Owned'
  BY <1>1, <1>2, <1>3, Bounds DEF IInv, Owned, Moves, Alive, Exited, None
<1>7. Fresh'
  BY <1>1, <1>2, <1>3, Bounds DEF IInv, Fresh, Moves, Alive
<1>8. Questions'
  BY <1>1, <1>2, <1>3, Bounds DEF IInv, Questions, Fresh, Owned, Alive, Current, Moves, NoRequest, None
<1>9. Stops'
  <2>1. stop' = stop /\ wanted' = wanted /\ signalled' = signalled /\ child' = child
    BY <1>1
  <2>2. stop["worker"].st = "idle" /\ stop["unmount"].st = "idle"
    BY <1>2, Bounds DEF IInv, Stops, Closing, Current
  <2>3. ASSUME NEW c \in Callers PROVE StopsOf(c)'
    BY <2>1, <2>2, Bounds DEF IInv, Stops, StopsOf, Callers, PastLock, Told
  <2> QED
    BY <2>1, <2>2, <2>3 DEF IInv, Stops
<1>10. Closing'
  BY <1>1, <1>2, <1>3, Bounds DEF IInv, Closing, Stops, StopsOf, Current, Owned, Alive, Exited, Up, Moves, StopsOnly, Callers, Idle, None, PastLock, Told
<1> QED
  BY <1>4, <1>5, <1>6, <1>7, <1>8, <1>9, <1>10 DEF IInv

LEMMA CancelKeeps ==
    ASSUME IInv, Cancel PROVE IInv'
<1>1. UNCHANGED <<child, rid, out, inp, process, closing, token, kind, pending, dialog, ui, worker, event, signalled, faults>>
  BY DEF Cancel, pipes, lifecycle, app, thread, RequestStop
<1>2. ui = "open" /\ kind
  BY  DEF Cancel
<1>3. stopRequested' = TRUE /\ wanted' = wanted \cup {token} /\ token \in Launches
  BY Bounds DEF Cancel, RequestStop
<1>4. \/ process = None /\ UNCHANGED stop
      \/ process # None /\ StopsOnly("user", [st |-> "lock", expected |-> process, target |-> None])
  BY Bounds, CallStops DEF Cancel, RequestStop, Callers
<1>5. TypeOK'
  BY <1>1, <1>2, <1>3, <1>4, Bounds, NoneIsNoLaunch DEF TypeOK, Moves, StopsOnly, StopCall, StopStates, OneAtATime, ChildStates, NoRequest, Replies
<1>6. Current'
  BY <1>1, <1>2, <1>3, <1>4, Bounds DEF IInv, Current, Running, Moves, NoRequest, None
<1>7. Owned'
  BY <1>1, <1>2, <1>3, <1>4, Bounds DEF IInv, Owned, Moves, Alive, Exited, None
<1>8. Fresh'
  BY <1>1, <1>2, <1>3, <1>4, Bounds DEF IInv, Fresh, Moves, Alive
<1>9. Questions'
  BY <1>1, <1>2, <1>3, <1>4, Bounds DEF IInv, Questions, Fresh, Owned, Alive, Current, Moves, NoRequest, None
<1>10. Stops'
  BY <1>1, <1>2, <1>3, <1>4, Bounds DEF IInv, Stops, StopsOf, Current, Running, Moves, StopsOnly, Callers, Idle, None, PastLock, Told
<1>11. Closing'
  BY <1>1, <1>2, <1>3, <1>4, Bounds DEF IInv, Closing, Stops, StopsOf, Current, Owned, Alive, Exited, Up, Moves, StopsOnly, Callers, Idle, None, PastLock, Told
<1> QED
  BY <1>5, <1>6, <1>7, <1>8, <1>9, <1>10, <1>11 DEF IInv

LEMMA AskToStopKeeps ==
    ASSUME IInv, AskToStop PROVE IInv'
<1>1. UNCHANGED <<child, rid, out, inp, process, closing, stop, token, kind, stopRequested, pending, ui, worker, event, wanted, signalled, faults>>
  BY DEF AskToStop, pipes, lifecycle, app, thread
<1>2. dialog' = token
  BY  DEF AskToStop
<1>3. TypeOK'
  BY <1>1, <1>2, Bounds, NoneIsNoLaunch DEF TypeOK, Moves, StopsOnly, StopCall, StopStates, OneAtATime, ChildStates, NoRequest, Replies
<1>4. Current'
  BY <1>1, <1>2, Bounds DEF IInv, Current, Running, Moves, NoRequest, None
<1>5. Owned'
  BY <1>1, <1>2, Bounds DEF IInv, Owned, Moves, Alive, Exited, None
<1>6. Fresh'
  BY <1>1, <1>2, Bounds DEF IInv, Fresh, Moves, Alive
<1>7. Questions'
  BY <1>1, <1>2, Bounds DEF IInv, Questions, Fresh, Owned, Alive, Current, Moves, NoRequest, None
<1>8. Stops'
  BY <1>1, <1>2, Bounds DEF IInv, Stops, StopsOf, Current, Running, Moves, StopsOnly, Callers, Idle, None, PastLock, Told
<1>9. Closing'
  BY <1>1, <1>2, Bounds DEF IInv, Closing, Stops, StopsOf, Current, Owned, Alive, Exited, Up, Moves, StopsOnly, Callers, Idle, None, PastLock, Told
<1> QED
  BY <1>3, <1>4, <1>5, <1>6, <1>7, <1>8, <1>9 DEF IInv

LEMMA ConfirmStopKeeps ==
    ASSUME IInv, ConfirmStop PROVE IInv'
<1>1. UNCHANGED <<child, rid, out, inp, process, closing, token, kind, pending, ui, worker, event, signalled, faults>>
  BY DEF ConfirmStop, pipes, lifecycle, app, thread, RequestStop
<1>2. ui = "open" /\ dialog' = 0
  BY  DEF ConfirmStop
<1>3. \/ UNCHANGED <<stopRequested, stop, wanted>>
      \/ /\ stopRequested' = TRUE /\ wanted' = wanted \cup {token} /\ process # None /\ token \in Launches
         /\ StopsOnly("user", [st |-> "lock", expected |-> process, target |-> None])
  BY Bounds, CallStops DEF ConfirmStop, RequestStop, Callers
<1>4. TypeOK'
  BY <1>1, <1>2, <1>3, Bounds, NoneIsNoLaunch DEF TypeOK, Moves, StopsOnly, StopCall, StopStates, OneAtATime, ChildStates, NoRequest, Replies
<1>5. Current'
  BY <1>1, <1>2, <1>3, Bounds DEF IInv, Current, Running, Moves, NoRequest, None
<1>6. Owned'
  BY <1>1, <1>2, <1>3, Bounds DEF IInv, Owned, Moves, Alive, Exited, None
<1>7. Fresh'
  BY <1>1, <1>2, <1>3, Bounds DEF IInv, Fresh, Moves, Alive
<1>8. Questions'
  BY <1>1, <1>2, <1>3, Bounds DEF IInv, Questions, Fresh, Owned, Alive, Current, Moves, NoRequest, None
<1>9. Stops'
  BY <1>1, <1>2, <1>3, Bounds DEF IInv, Stops, StopsOf, Current, Running, Moves, StopsOnly, Callers, Idle, None, PastLock, Told
<1>10. Closing'
  BY <1>1, <1>2, <1>3, Bounds DEF IInv, Closing, Stops, StopsOf, Current, Owned, Alive, Exited, Up, Moves, StopsOnly, Callers, Idle, None, PastLock, Told
<1> QED
  BY <1>4, <1>5, <1>6, <1>7, <1>8, <1>9, <1>10 DEF IInv

LEMMA CloseKeeps ==
    ASSUME IInv, Close PROVE IInv'
<1>1. UNCHANGED <<child, rid, out, inp, process, closing, stop, token, kind, stopRequested, pending, dialog, worker, event, signalled>>
  BY DEF Close, pipes, lifecycle, app, thread, Fault
<1>2. ui = "open" /\ ui' = "closing"
  BY  DEF Close
<1>3. faults' \in 0..MaxFaults
  BY Bounds, FaultCounts DEF Close
<1>4. wanted' = IF token = 0 THEN wanted ELSE wanted \cup {token}
  BY  DEF Close
<1>5. TypeOK'
  BY <1>1, <1>2, <1>3, <1>4, Bounds, NoneIsNoLaunch DEF TypeOK, Moves, StopsOnly, StopCall, StopStates, OneAtATime, ChildStates, NoRequest, Replies
<1>6. Current'
  BY <1>1, <1>2, <1>3, <1>4, Bounds DEF IInv, Current, Running, Moves, NoRequest, None
<1>7. Owned'
  BY <1>1, <1>2, <1>3, <1>4, Bounds DEF IInv, Owned, Moves, Alive, Exited, None
<1>8. Fresh'
  BY <1>1, <1>2, <1>3, <1>4, Bounds DEF IInv, Fresh, Moves, Alive
<1>9. Questions'
  BY <1>1, <1>2, <1>3, <1>4, Bounds DEF IInv, Questions, Fresh, Owned, Alive, Current, Moves, NoRequest, None
<1>10. Stops'
  BY <1>1, <1>2, <1>3, <1>4, Bounds DEF IInv, Stops, StopsOf, Current, Running, Moves, StopsOnly, Callers, Idle, None, PastLock, Told
<1>11. Closing'
  BY <1>1, <1>2, <1>3, <1>4, Bounds DEF IInv, Closing, Stops, StopsOf, Current, Owned, Alive, Exited, Up, Moves, StopsOnly, Callers, Idle, None, PastLock, Told
<1> QED
  BY <1>5, <1>6, <1>7, <1>8, <1>9, <1>10, <1>11 DEF IInv

LEMMA UnmountKeeps ==
    ASSUME IInv, Unmount PROVE IInv'
<1>1. UNCHANGED <<child, rid, out, inp, process, token, kind, stopRequested, pending, dialog, worker, event, wanted, signalled, faults>>
  BY DEF Unmount, pipes, lifecycle, app, thread
<1>2. ui = "closing" /\ ui' = "unmounted" /\ closing' = TRUE
  BY  DEF Unmount
<1>3. StopsOnly("unmount", [st |-> "lock", expected |-> None, target |-> None])
  BY Bounds, CallStops, NoneIsNoLaunch DEF Unmount, Callers
<1>4. TypeOK'
  BY <1>1, <1>2, <1>3, Bounds, NoneIsNoLaunch DEF TypeOK, Moves, StopsOnly, StopCall, StopStates, OneAtATime, ChildStates, NoRequest, Replies
<1>5. Current'
  BY <1>1, <1>2, <1>3, Bounds DEF IInv, Current, Running, Moves, NoRequest, None
<1>6. Owned'
  BY <1>1, <1>2, <1>3, Bounds DEF IInv, Owned, Moves, Alive, Exited, None
<1>7. Fresh'
  BY <1>1, <1>2, <1>3, Bounds DEF IInv, Fresh, Moves, Alive
<1>8. Questions'
  BY <1>1, <1>2, <1>3, Bounds DEF IInv, Questions, Fresh, Owned, Alive, Current, Moves, NoRequest, None
<1>9. Stops'
  <2>1. /\ token' = token /\ wanted' = wanted /\ signalled' = signalled /\ signalled \subseteq wanted
        /\ \A k \in Launches : child'[k] = child[k]
    BY <1>1 DEF IInv, Stops
  <2>2. stop'["worker"].st # "idle" => worker' \in {"stopping", "checkStop"}
    BY <1>1, <1>2, <1>3 DEF IInv, Stops, StopsOnly, Callers
  <2>3. token = 0 \/ token \in wanted
    BY <1>2 DEF IInv, Closing
  <2> QED
    BY <1>3, <2>1, <2>2, <2>3, StopsMove DEF Callers, PastLock, Told, None
<1>10. Closing'
  BY <1>1, <1>2, <1>3, Bounds DEF IInv, Closing, Stops, StopsOf, Current, Owned, Alive, Exited, Up, Moves, StopsOnly, Callers, Idle, None, PastLock, Told
<1> QED
  BY <1>4, <1>5, <1>6, <1>7, <1>8, <1>9, <1>10 DEF IInv

LEMMA InterfaceDiesKeeps ==
    ASSUME IInv, InterfaceDies PROVE IInv'
<1>1. UNCHANGED <<child, rid, out, inp, process, closing, stop, token, kind, stopRequested, pending, dialog, worker, event, wanted, signalled>>
  BY DEF InterfaceDies, pipes, lifecycle, app, thread, Fault
<1>2. Up /\ ui' = "dead"
  BY  DEF InterfaceDies
<1>3. faults' \in 0..MaxFaults
  BY Bounds, FaultCounts DEF InterfaceDies
<1>4. TypeOK'
  BY <1>1, <1>2, <1>3, Bounds, NoneIsNoLaunch DEF TypeOK, Moves, StopsOnly, StopCall, StopStates, OneAtATime, ChildStates, NoRequest, Replies
<1>5. Current'
  BY <1>1, <1>2, <1>3, Bounds DEF IInv, Current, Running, Moves, NoRequest, None
<1>6. Owned'
  BY <1>1, <1>2, <1>3, Bounds DEF IInv, Owned, Moves, Alive, Exited, None
<1>7. Fresh'
  BY <1>1, <1>2, <1>3, Bounds DEF IInv, Fresh, Moves, Alive
<1>8. Questions'
  BY <1>1, <1>2, <1>3, Bounds DEF IInv, Questions, Fresh, Owned, Alive, Current, Moves, NoRequest, None
<1>9. Stops'
  BY <1>1, <1>2, <1>3, Bounds DEF IInv, Stops, StopsOf, Current, Running, Moves, StopsOnly, Callers, Idle, None, PastLock, Told
<1>10. Closing'
  BY <1>1, <1>2, <1>3, Bounds DEF IInv, Closing, Stops, StopsOf, Current, Owned, Alive, Exited, Up, Moves, StopsOnly, Callers, Idle, None, PastLock, Told
<1> QED
  BY <1>4, <1>5, <1>6, <1>7, <1>8, <1>9, <1>10 DEF IInv

LEMMA StartKeeps ==
    ASSUME IInv, Start PROVE IInv'
<1>1. UNCHANGED <<rid, out, inp, closing, stop, token, kind, stopRequested, pending, dialog, ui, event, wanted, signalled>>
  BY Bounds DEF Start, pipes, lifecycle, app, thread, Fault
<1>2. worker = "start"
  BY  DEF Start
<1>3. faults' \in 0..MaxFaults
  BY Bounds, FaultCounts DEF Start, TypeOK
<1>4. \/ worker' = "finish" /\ UNCHANGED <<child, process>>
      \/ /\ ~closing /\ process = None /\ token \in Launches
         /\ process' = token /\ Moves(token, "busy") /\ worker' = "check"
  BY Bounds, RunMoves DEF Start, ChildStates
<1>5. TypeOK'
  BY <1>1, <1>2, <1>3, <1>4, Bounds, NoneIsNoLaunch DEF TypeOK, Moves, StopsOnly, StopCall, StopStates, OneAtATime, ChildStates, NoRequest, Replies
<1>6. Current'
  BY <1>1, <1>2, <1>3, <1>4, Bounds DEF IInv, Current, Running, Moves, NoRequest, None
<1>7. Owned'
  BY <1>1, <1>2, <1>3, <1>4, Bounds DEF IInv, Owned, Moves, Alive, Exited, None
<1>8. Fresh'
  BY <1>1, <1>2, <1>3, <1>4, Bounds DEF IInv, Fresh, Moves, Alive
<1>9. Questions'
  BY <1>1, <1>2, <1>3, <1>4, Bounds DEF IInv, Questions, Fresh, Owned, Alive, Current, Moves, NoRequest, None
<1>10. Stops'
  BY <1>1, <1>2, <1>3, <1>4, Bounds DEF IInv, Stops, StopsOf, Current, Running, Moves, StopsOnly, Callers, Idle, None, PastLock, Told
<1>11. Closing'
  BY <1>1, <1>2, <1>3, <1>4, Bounds DEF IInv, Closing, Stops, StopsOf, Current, Owned, Alive, Exited, Up, Moves, StopsOnly, Callers, Idle, None, PastLock, Told
<1> QED
  BY <1>5, <1>6, <1>7, <1>8, <1>9, <1>10, <1>11 DEF IInv

LEMMA CheckKeeps ==
    ASSUME IInv, Check PROVE IInv'
<1>1. UNCHANGED <<child, rid, out, inp, process, closing, token, kind, stopRequested, pending, dialog, ui, event, wanted, signalled, faults>>
  BY DEF Check, pipes, lifecycle, app, thread
<1>2. worker = "check"
  BY  DEF Check
<1>3. \/ worker' = "read" /\ UNCHANGED stop
      \/ stopRequested /\ worker' = "checkStop" /\ StopsOnly("worker", [st |-> "lock", expected |-> None, target |-> None])
  BY Bounds, CallStops, NoneIsNoLaunch DEF Check, Callers
<1>4. TypeOK'
  BY <1>1, <1>2, <1>3, Bounds, NoneIsNoLaunch DEF TypeOK, Moves, StopsOnly, StopCall, StopStates, OneAtATime, ChildStates, NoRequest, Replies
<1>5. Current'
  BY <1>1, <1>2, <1>3, Bounds DEF IInv, Current, Running, Moves, NoRequest, None
<1>6. Owned'
  BY <1>1, <1>2, <1>3, Bounds DEF IInv, Owned, Moves, Alive, Exited, None
<1>7. Fresh'
  BY <1>1, <1>2, <1>3, Bounds DEF IInv, Fresh, Moves, Alive
<1>8. Questions'
  BY <1>1, <1>2, <1>3, Bounds DEF IInv, Questions, Fresh, Owned, Alive, Current, Moves, NoRequest, None
<1>9. Stops'
  BY <1>1, <1>2, <1>3, Bounds DEF IInv, Stops, StopsOf, Current, Running, Moves, StopsOnly, Callers, Idle, None, PastLock, Told
<1>10. Closing'
  BY <1>1, <1>2, <1>3, Bounds DEF IInv, Closing, Stops, StopsOf, Current, Owned, Alive, Exited, Up, Moves, StopsOnly, Callers, Idle, None, PastLock, Told
<1> QED
  BY <1>4, <1>5, <1>6, <1>7, <1>8, <1>9, <1>10 DEF IInv

LEMMA ReadKeeps ==
    ASSUME IInv, Read PROVE IInv'
<1>1. UNCHANGED <<child, rid, inp, process, closing, stop, token, kind, stopRequested, pending, dialog, ui, wanted, signalled, faults>>
  BY DEF Read, pipes, lifecycle, app, thread
<1>2. worker \in {"checkStop", "read"} /\ token \in Launches /\ process = token
  BY Bounds DEF Read, Running
<1>3. \/ worker = "checkStop" /\ stop["worker"].st = "idle" /\ worker' = "read" /\ UNCHANGED <<out, event>>
      \/ /\ worker = "read" /\ out[token] # 0 /\ worker' = "deliver"
         /\ event' = out[token] /\ out' = [out EXCEPT ![token] = 0]
      \/ worker = "read" /\ worker' = "release" /\ UNCHANGED <<out, event>>
  BY  DEF Read, Idle
<1>4. out \in [Launches -> 0..MaxAsks] /\ 0 \in 0..MaxAsks
  BY Bounds, NoneIsNoLaunch DEF TypeOK
<1>5. /\ out' \in [Launches -> 0..MaxAsks] /\ event' \in 0..MaxAsks
      /\ \A k \in Launches : out'[k] = out[k] \/ (k = token /\ out'[k] = 0)
  <2>1. event \in 0..MaxAsks
    BY Bounds DEF TypeOK
  <2> QED
    BY <1>2, <1>3, <1>4, <2>1
<1>6. TypeOK'
  BY <1>1, <1>2, <1>3, <1>4, <1>5, Bounds, NoneIsNoLaunch DEF TypeOK, Moves, StopsOnly, StopCall, StopStates, OneAtATime, ChildStates, NoRequest, Replies
<1>7. Current'
  BY <1>1, <1>2, <1>3, <1>4, <1>5, Bounds DEF IInv, Current, Running, Moves, NoRequest, None
<1>8. Owned'
  BY <1>1, <1>2, <1>3, <1>4, <1>5, Bounds DEF IInv, Owned, Moves, Alive, Exited, None
<1>9. Fresh'
  BY <1>1, <1>2, <1>3, <1>4, <1>5, Bounds DEF IInv, Fresh, Moves, Alive
<1>10. Questions'
  BY <1>1, <1>2, <1>3, <1>4, <1>5, Bounds DEF IInv, Questions, Fresh, Owned, Alive, Current, Moves, NoRequest, None
<1>11. Stops'
  BY <1>1, <1>2, <1>3, <1>4, <1>5, Bounds DEF IInv, Stops, StopsOf, Current, Running, Moves, StopsOnly, Callers, Idle, None, PastLock, Told
<1>12. Closing'
  BY <1>1, <1>2, <1>3, <1>4, <1>5, Bounds DEF IInv, Closing, Stops, StopsOf, Current, Owned, Alive, Exited, Up, Moves, StopsOnly, Callers, Idle, None, PastLock, Told
<1> QED
  BY <1>6, <1>7, <1>8, <1>9, <1>10, <1>11, <1>12 DEF IInv

LEMMA DeliverKeeps ==
    ASSUME IInv, Deliver PROVE IInv'
<1>1. UNCHANGED <<child, rid, out, inp, process, closing, token, kind, stopRequested, dialog, ui, signalled, faults>>
  BY DEF Deliver, pipes, lifecycle, app, thread, StopSelf
<1>2. worker = "deliver" /\ event' = 0 /\ token \in Launches /\ process = token
  BY Bounds DEF Deliver, Running
<1>3. \/ worker' = "read" /\ UNCHANGED <<pending, stop, wanted>>
      \/ /\ worker' = "stopping" /\ wanted' = wanted \cup {token} /\ UNCHANGED pending
         /\ StopsOnly("worker", [st |-> "lock", expected |-> None, target |-> None])
      \/ /\ ui = "open" /\ pending = NoRequest
         /\ pending' = <<process, event>> /\ worker' = "read" /\ UNCHANGED <<stop, wanted>>
  BY Bounds, CallStops, NoneIsNoLaunch DEF Deliver, StopSelf, Callers
<1>4. TypeOK'
  <2>1. pending' \in (0..MaxLaunches) \X (0..MaxAsks) /\ wanted' \subseteq Launches /\ event' \in 0..MaxAsks
    <3>1. pending \in (0..MaxLaunches) \X (0..MaxAsks) /\ wanted \subseteq Launches /\ event \in 0..MaxAsks
      BY Bounds DEF TypeOK
    <3>2. <<process, event>> \in (0..MaxLaunches) \X (0..MaxAsks)
      BY <3>1, Bounds
    <3> QED
      BY <1>2, <1>3, <3>1, <3>2, NoneIsNoLaunch
  <2>2. stop' \in [Callers -> StopCall] /\ OneAtATime'
    BY <1>1, <1>3, Bounds, StopTypes DEF StopsOnly, OneAtATime
  <2> QED
    BY <1>1, <1>2, <1>3, <2>1, <2>2, Bounds DEF TypeOK, StopCall, StopStates, OneAtATime
<1>5. Current'
  BY <1>1, <1>2, <1>3, Bounds DEF IInv, Current, Running, Moves, NoRequest, None
<1>6. Owned'
  BY <1>1, <1>2, <1>3, Bounds DEF IInv, Owned, Moves, Alive, Exited, None
<1>7. Fresh'
  BY <1>1, <1>2, <1>3, Bounds DEF IInv, Fresh, Moves, Alive
<1>8. Questions'
  BY <1>1, <1>2, <1>3, Bounds DEF IInv, Questions, Fresh, Owned, Alive, Current, Moves, NoRequest, None
<1>9. Stops'
  BY <1>1, <1>2, <1>3, Bounds DEF IInv, Stops, StopsOf, Current, Running, Moves, StopsOnly, Callers, Idle, None, PastLock, Told
<1>10. Closing'
  BY <1>1, <1>2, <1>3, Bounds DEF IInv, Closing, Stops, StopsOf, Current, Owned, Alive, Exited, Up, Moves, StopsOnly, Callers, Idle, None, PastLock, Told
<1> QED
  BY <1>4, <1>5, <1>6, <1>7, <1>8, <1>9, <1>10 DEF IInv

LEMMA CallbackFailsKeeps ==
    ASSUME IInv, CallbackFails PROVE IInv'
<1>1. UNCHANGED <<child, rid, out, inp, process, closing, token, kind, stopRequested, pending, dialog, ui, signalled>>
  BY DEF CallbackFails, pipes, lifecycle, app, thread, StopSelf
<1>2. worker \in {"read", "deliver"} /\ worker' = "stopping" /\ event' = 0 /\ token \in Launches /\ wanted' = wanted \cup {token}
  BY Bounds DEF CallbackFails, StopSelf
<1>3. faults' \in 0..MaxFaults
  BY Bounds, FaultCounts DEF CallbackFails
<1>4. StopsOnly("worker", [st |-> "lock", expected |-> None, target |-> None])
  BY Bounds, CallStops, NoneIsNoLaunch DEF CallbackFails, StopSelf, Callers
<1>5. TypeOK'
  BY <1>1, <1>2, <1>3, <1>4, Bounds, NoneIsNoLaunch DEF TypeOK, Moves, StopsOnly, StopCall, StopStates, OneAtATime, ChildStates, NoRequest, Replies
<1>6. Current'
  BY <1>1, <1>2, <1>3, <1>4, Bounds DEF IInv, Current, Running, Moves, NoRequest, None
<1>7. Owned'
  BY <1>1, <1>2, <1>3, <1>4, Bounds DEF IInv, Owned, Moves, Alive, Exited, None
<1>8. Fresh'
  BY <1>1, <1>2, <1>3, <1>4, Bounds DEF IInv, Fresh, Moves, Alive
<1>9. Questions'
  BY <1>1, <1>2, <1>3, <1>4, Bounds DEF IInv, Questions, Fresh, Owned, Alive, Current, Moves, NoRequest, None
<1>10. Stops'
  BY <1>1, <1>2, <1>3, <1>4, Bounds DEF IInv, Stops, StopsOf, Current, Running, Moves, StopsOnly, Callers, Idle, None, PastLock, Told
<1>11. Closing'
  BY <1>1, <1>2, <1>3, <1>4, Bounds DEF IInv, Closing, Stops, StopsOf, Current, Owned, Alive, Exited, Up, Moves, StopsOnly, Callers, Idle, None, PastLock, Told
<1> QED
  BY <1>5, <1>6, <1>7, <1>8, <1>9, <1>10, <1>11 DEF IInv

LEMMA ReleaseKeeps ==
    ASSUME IInv, Release PROVE IInv'
<1>1. UNCHANGED <<child, rid, out, inp, closing, stop, token, kind, stopRequested, pending, dialog, ui, event, wanted, signalled, faults>>
  BY DEF Release, pipes, lifecycle, app, thread
<1>2. worker \in {"stopping", "release"} /\ (worker = "stopping" => stop["worker"].st = "idle")
  BY  DEF Release, Idle
<1>3. token \in Launches /\ Exited(token) /\ process = token /\ process' = None /\ worker' = "finish"
  BY Bounds DEF Release, Running
<1>4. TypeOK'
  BY <1>1, <1>2, <1>3, Bounds, NoneIsNoLaunch DEF TypeOK, Moves, StopsOnly, StopCall, StopStates, OneAtATime, ChildStates, NoRequest, Replies
<1>5. Current'
  BY <1>1, <1>2, <1>3, Bounds DEF IInv, Current, Running, Moves, NoRequest, None
<1>6. Owned'
  BY <1>1, <1>2, <1>3, Bounds DEF IInv, Owned, Moves, Alive, Exited, None
<1>7. Fresh'
  BY <1>1, <1>2, <1>3, Bounds DEF IInv, Fresh, Moves, Alive
<1>8. Questions'
  BY <1>1, <1>2, <1>3, Bounds DEF IInv, Questions, Fresh, Owned, Alive, Current, Moves, NoRequest, None
<1>9. Stops'
  BY <1>1, <1>2, <1>3, Bounds DEF IInv, Stops, StopsOf, Current, Running, Moves, StopsOnly, Callers, Idle, None, PastLock, Told
<1>10. Closing'
  BY <1>1, <1>2, <1>3, Bounds DEF IInv, Closing, Stops, StopsOf, Current, Owned, Alive, Exited, Up, Moves, StopsOnly, Callers, Idle, None, PastLock, Told
<1> QED
  BY <1>4, <1>5, <1>6, <1>7, <1>8, <1>9, <1>10 DEF IInv

LEMMA FinishKeeps ==
    ASSUME IInv, Finish PROVE IInv'
<1>1. UNCHANGED <<child, rid, out, inp, process, closing, stop, token, dialog, ui, event, wanted, signalled, faults>>
  BY DEF Finish, pipes, lifecycle, app, thread
<1>2. worker = "finish" /\ worker' = "off"
  BY  DEF Finish
<1>3. \/ kind' = FALSE /\ stopRequested' = FALSE /\ pending' = NoRequest
      \/ UNCHANGED <<kind, stopRequested, pending>>
  BY  DEF Finish
<1>4. TypeOK'
  <2>1. pending' \in (0..MaxLaunches) \X (0..MaxAsks) /\ kind' \in BOOLEAN /\ stopRequested' \in BOOLEAN
    <3>1. pending \in (0..MaxLaunches) \X (0..MaxAsks) /\ kind \in BOOLEAN /\ stopRequested \in BOOLEAN
      BY Bounds DEF TypeOK
    <3>2. NoRequest \in (0..MaxLaunches) \X (0..MaxAsks)
      BY NoneIsNoLaunch DEF NoRequest
    <3> QED
      BY <1>3, <3>1, <3>2
  <2> QED
    BY <1>1, <1>2, <1>3, <2>1, Bounds DEF TypeOK
<1>5. Current'
  <2>1. process = None /\ event = 0 /\ process' = None /\ event' = 0
    BY <1>1, <1>2 DEF IInv, Current, Running
  <2>2. /\ pending' # NoRequest => pending'[1] = token /\ pending'[2] # 0 /\ kind'
        /\ stopRequested' => token \in wanted
        /\ kind' => token # 0
    BY <1>3 DEF IInv, Current
  <2> QED
    BY <1>1, <1>2, <2>1, <2>2 DEF Current, Running
<1>6. Owned'
  BY <1>1, <1>2, <1>3, Bounds DEF IInv, Owned, Moves, Alive, Exited, None
<1>7. Fresh'
  BY <1>1, <1>2, <1>3, Bounds DEF IInv, Fresh, Moves, Alive
<1>8. Questions'
  BY <1>1, <1>2, <1>3, Bounds DEF IInv, Questions, Fresh, Owned, Alive, Current, Moves, NoRequest, None
<1>9. Stops'
  BY <1>1, <1>2, <1>3, Bounds DEF IInv, Stops, StopsOf, Current, Running, Moves, StopsOnly, Callers, Idle, None, PastLock, Told
<1>10. Closing'
  BY <1>1, <1>2, <1>3, Bounds DEF IInv, Closing, Stops, StopsOf, Current, Owned, Alive, Exited, Up, Moves, StopsOnly, Callers, Idle, None, PastLock, Told
<1> QED
  BY <1>4, <1>5, <1>6, <1>7, <1>8, <1>9, <1>10 DEF IInv
LEMMA AnswerKeeps ==
    ASSUME IInv, NEW action \in {"answer", "cancel"}, Answer(action) PROVE IInv'
<1> DEFINE k == pending[1]
           reply == [id |-> pending[2], action |-> action]
<1>1. UNCHANGED <<child, rid, out, process, closing, token, kind, dialog, ui, worker, event, signalled, faults>>
  BY DEF Answer, lifecycle, thread
<1>2. ui = "open" /\ kind /\ pending # NoRequest /\ pending' = NoRequest
  BY DEF Answer
<1>3. k = token /\ token \in Launches /\ pending[2] \in 0..MaxAsks /\ pending[2] # 0 /\ worker # "start"
  <2>1. pending \in (0..MaxLaunches) \X (0..MaxAsks)
    BY Bounds DEF TypeOK
  <2> QED
    BY <1>2, <2>1, Bounds DEF IInv, Current
<1>4. reply \in Replies
  BY <1>3, ConstantsAssumption DEF Replies
<1>5. /\ stopRequested' \in BOOLEAN
      /\ wanted' = IF stopRequested' THEN wanted \cup {token} ELSE wanted
  BY <1>3 DEF Answer
<1>6. inp \in [Launches -> Seq(Replies)]
  BY Bounds DEF TypeOK, Replies
<1>7. \/ /\ Alive(k) /\ stop' = stop /\ inp' = [inp EXCEPT ![k] = Append(@, reply)]
      \/ /\ inp' = inp /\ token \in wanted'
         /\ StopsOnly("user", [st |-> "lock", expected |-> token, target |-> None])
  <2>1. CASE process = k /\ Alive(k)
    BY <2>1 DEF Answer, Reply
  <2>2. CASE ~(process = k /\ Alive(k))
    <3>1. inp' = inp /\ Call("user", token)
      BY <2>2, <1>3 DEF Answer, Reply
    <3>2. stopRequested' = TRUE
      BY <3>1 DEF Answer
    <3> QED
      BY <1>3, <1>5, <3>1, <3>2, Bounds, CallStops DEF Callers
  <2> QED
    BY <2>1, <2>2
<1>8. /\ inp' \in [Launches -> Seq(Replies)]
      /\ \A j \in Launches : inp'[j] = inp[j] \/ (j = k /\ Alive(k) /\ inp'[k] = Append(inp[k], reply))
  <2>1. inp[k] \in Seq(Replies) /\ Append(inp[k], reply) \in Seq(Replies)
    BY <1>3, <1>4, <1>6, AppendProperties
  <2> QED
    BY <1>3, <1>6, <1>7, <2>1
<1>9. TypeOK'
  <2>1. stop' \in [Callers -> StopCall] /\ OneAtATime'
    BY <1>7, Bounds, StopTypes DEF StopsOnly, OneAtATime
  <2>2. pending' \in (0..MaxLaunches) \X (0..MaxAsks) /\ wanted' \subseteq Launches
    BY <1>2, <1>3, <1>5, Bounds, NoneIsNoLaunch DEF TypeOK, NoRequest
  <2> QED
    BY <1>1, <1>5, <1>8, <2>1, <2>2, Bounds DEF TypeOK, StopCall, StopStates, OneAtATime, Replies
<1>10. Current'
  BY <1>1, <1>2, <1>3, <1>5, Bounds DEF IInv, Current, Running
<1>11. Owned'
  BY <1>1 DEF IInv, Owned, Alive
<1>12. Fresh'
  BY <1>1, <1>3, <1>8, Bounds DEF IInv, Fresh
<1>13. Questions'
  <2> SUFFICES ASSUME NEW j \in Launches
               PROVE  /\ child[j] \in {"busy", "measure"} =>
                            out[j] = 0 /\ event = 0 /\ inp'[j] = <<>>
                      /\ child[j] = "ask" =>
                            /\ out[j] # 0 => out[j] = rid[j] /\ event = 0 /\ inp'[j] = <<>>
                            /\ event # 0 => event = rid[j] /\ inp'[j] = <<>>
                            /\ inp'[j] # <<>> => Len(inp'[j]) = 1 /\ Head(inp'[j]).id = rid[j]
    BY <1>1, <1>2 DEF Questions
  <2>1. child[j] \notin {"busy", "measure"}
    BY <1>2 DEF IInv, Questions
  <2>2. CASE child[j] = "ask"
    <3>1. /\ out[j] = 0 /\ event = 0 /\ pending[2] = rid[j] /\ inp[j] = <<>>
      BY <1>2, <2>2 DEF IInv, Questions
    <3>2. inp'[j] = inp[j] \/ inp'[j] = Append(<<>>, reply)
      BY <1>8, <3>1
    <3>3. /\ Len(Append(<<>>, reply)) = 1 /\ Append(<<>>, reply) # <<>>
          /\ Head(Append(<<>>, reply)) = reply /\ reply.id = pending[2]
      BY <1>4, FirstAnswer
    <3> HIDE DEF reply
    <3> QED
      BY <2>2, <3>1, <3>2, <3>3
  <2> QED
    BY <2>1, <2>2
<1>14. Stops'
  <2>1. /\ token' = token /\ wanted \subseteq wanted' /\ signalled' = signalled /\ signalled \subseteq wanted'
        /\ \A j \in Launches : child'[j] = child[j]
    BY <1>1, <1>5 DEF IInv, Stops
  <2>2. CASE stop' = stop
    <3>1. \A c \in Callers : StopsOf(c)'
      BY <1>1, <2>1, <2>2, Bounds DEF IInv, Stops, StopsOf
    <3> QED
      BY <1>1, <2>1, <2>2, <3>1 DEF IInv, Stops
  <2>3. CASE token \in wanted' /\ StopsOnly("user", [st |-> "lock", expected |-> token, target |-> None])
    <3>1. stop'["worker"].st # "idle" => worker' \in {"stopping", "checkStop"}
      BY <1>1, <2>3 DEF IInv, Stops, StopsOnly, Callers
    <3> QED
      BY <1>3, <2>1, <2>3, <3>1, Bounds, StopsMove DEF Callers, PastLock, Told
  <2> QED
    BY <1>7, <2>2, <2>3
<1>15. Closing'
  BY <1>1, <1>2, <1>5, <1>7, Bounds DEF IInv, Closing, Alive, StopsOnly, Callers
<1> QED
  BY <1>9, <1>10, <1>11, <1>12, <1>13, <1>14, <1>15 DEF IInv

LEMMA StutterKeeps ==
    ASSUME IInv, UNCHANGED vars PROVE IInv'
<1>1. UNCHANGED <<child, rid, out, inp, process, closing, stop, token, kind, stopRequested, pending, dialog, ui, worker, event, wanted, signalled, faults>>
  BY DEF vars, pipes, lifecycle, app, thread
<1>2. TypeOK'
  BY <1>1, Bounds DEF TypeOK
<1>3. Current' /\ Owned' /\ Fresh' /\ Questions'
  BY <1>1 DEF IInv, Current, Owned, Fresh, Questions, Alive
<1>4. Stops' /\ Closing'
  BY <1>1 DEF IInv, Stops, StopsOf, Closing, Alive
<1> QED
  BY <1>2, <1>3, <1>4 DEF IInv

LEMMA InitHolds == Init => IInv
<1> SUFFICES ASSUME Init PROVE IInv
  OBVIOUS
<1>1. TypeOK
  <2>1. Idle \in StopCall /\ Idle.st = "idle"
    BY NoneIsNoLaunch DEF Idle, StopCall, StopStates, None
  <2>2. stop \in [Callers -> StopCall] /\ \A c \in Callers : stop[c].st = "idle"
    BY <2>1 DEF Init
  <2>3. NoRequest \in (0..MaxLaunches) \X (0..MaxAsks)
    BY NoneIsNoLaunch DEF NoRequest
  <2>4. inp \in [Launches -> Seq(Replies)]
    BY EmptySeq DEF Init
  <2>5. faults \in 0..MaxFaults /\ process \in 0..MaxLaunches
    BY ConstantsAssumption, NoneIsNoLaunch DEF Init
  <2> QED
    BY <2>2, <2>3, <2>4, <2>5, NoneIsNoLaunch DEF Init, TypeOK, StopCall, StopStates, Replies
<1>2. Current /\ Owned /\ Fresh /\ Questions
  BY DEF Init, Current, Owned, Fresh, Questions, Alive, Running, NoRequest, None
<1>3. Stops /\ Closing
  BY DEF Init, Stops, StopsOf, Closing, Idle, PastLock, Told, Callers, Alive
<1> QED
  BY <1>1, <1>2, <1>3 DEF IInv

LEMMA NextKeeps == IInv /\ [Next]_vars => IInv'
<1> SUFFICES ASSUME IInv, [Next]_vars PROVE IInv'
  OBVIOUS
<1>1. CASE Worker
  BY <1>1, StartKeeps, CheckKeeps, ReadKeeps, DeliverKeeps, ReleaseKeeps, FinishKeeps DEF Worker
<1>2. CASE \E c \in Callers : Stopper(c)
  BY <1>2, AcquireKeeps, SignalKeeps, WaitKeeps DEF Stopper
<1>3. CASE \E k \in Launches : Ask(k) \/ Proceed(k) \/ Child(k) \/ Killed(k)
  BY <1>3, AskKeeps, ProceedKeeps, ReadReplyKeeps, DisconnectedKeeps, CleanupEndsKeeps, KilledKeeps DEF Child
<1>4. CASE CallbackFails \/ Launch \/ Cancel \/ AskToStop \/ ConfirmStop \/ Close \/ Unmount \/ InterfaceDies
  BY <1>4, CallbackFailsKeeps, LaunchKeeps, CancelKeeps, AskToStopKeeps, ConfirmStopKeeps, CloseKeeps,
     UnmountKeeps, InterfaceDiesKeeps
<1>5. CASE \E action \in {"answer", "cancel"} : Answer(action)
  BY <1>5, AnswerKeeps
<1>6. CASE UNCHANGED vars
  BY <1>6, StutterKeeps
<1> QED
  BY <1>1, <1>2, <1>3, <1>4, <1>5, <1>6 DEF Next

THEOREM AlwaysConsistent == Spec => []IInv
<1> QED
  BY InitHolds, NextKeeps, PTL DEF Spec

\* For any number of launches, questions and faults: the interface never loses
\* a child it could stop (tui/process.py, ProcessLifecycle), and once it has
\* been unmounted nothing runs that was not told to end.
THEOREM ChildrenAreNeverLost == Spec => []NoChildLost
<1>1. IInv => NoChildLost
  <2> SUFFICES ASSUME IInv PROVE NoChildLost
    OBVIOUS
  <2>1. TypeOK /\ LiveChildOwned
    BY DEF IInv, Owned, LiveChildOwned
  <2>2. ClosedIsQuiet
    BY DEF IInv, Closing, ClosedIsQuiet, Idle
  <2> QED
    BY <2>1, <2>2 DEF NoChildLost
<1> QED
  BY <1>1, AlwaysConsistent, PTL

\* An answer that waits for a child is the answer to the question it asked
\* last (_preparation_answered, tui/app.py; PreparationWorkflow.ask).
THEOREM AnswersReachTheirQuestion == Spec => []AnswersFit
<1>1. IInv => AnswersFit
  BY DEF IInv, Questions, AnswersFit
<1> QED
  BY <1>1, AlwaysConsistent, PTL

\* No stop, however late, interrupts a launch nobody asked to end
\* (ProcessLifecycle.stop and its expected process).
THEOREM StopsSpareTheOthers == Spec => []StopsItsOwn
<1>1. IInv => StopsItsOwn
  BY DEF IInv, Stops, StopsItsOwn
<1> QED
  BY <1>1, AlwaysConsistent, PTL

\* Nothing that is late reaches another question or another child
\* (PreparationWorkflow.ask, ProcessLifecycle.stop).
THEOREM LateOnesReachTheirOwn == Spec => []EachReachesItsOwn
BY AnswersReachTheirQuestion, StopsSpareTheOthers, PTL DEF EachReachesItsOwn
-----------------------------------------------------------------------------
(* What RunOutcome promises: the chat and the page tell the truth.         *)

Phases == {"start", "prepare", "tools", "cases", "merge", "checked", "cleanup", "closing", "deliver", "gone"}
Statuses == {"none", "running", "failed", "interrupted", "complete"}
MessageKinds == {"none", "started", "progress", "profiler_success", "profiler_partial", "profiler_failed",
                 "profiler_no_results"} \cup Finals
NoteType == [kind : MessageKinds, n : Nat]
AttemptType == [pid : 1..3, ended : BOOLEAN]
DirType == [status : Statuses, attempts : Seq(AttemptType), rows : [Planned -> RowStates],
            by : [Planned -> Nat], csv : Nat, gaps : BOOLEAN]

\* The types of all variables.
OutcomeTypes ==
    /\ notifying \in BOOLEAN /\ at \in Phases /\ unit \in Nat /\ message \in NoteType /\ tries \in Nat
    /\ chat \in Seq(NoteType) /\ verdictMsg \in Finals \cup {"none"}
    /\ exc \in {"none", "failed", "cancelled"} /\ rc \in {0, 1}
    /\ dir \in DirType /\ before \in DirType /\ pid \in {1, 2}
    /\ opened \in BOOLEAN /\ unread \in BOOLEAN /\ stopped \in BOOLEAN /\ broken \in BOOLEAN
    /\ upsets \in Nat

Recorded == \A c \in Planned : dir.rows[c] # "none"

\* What is left of the run says how far it came.
Progressed ==
    /\ at \in {"tools", "cases", "merge", "checked", "cleanup"} => opened
    /\ at = "tools" => unit \in 1..(Tools + 1)
    /\ at = "cases" => unit \in 1..(PlannedCases + 1)
                       /\ \A c \in Planned : c < unit => dir.rows[c] # "none"
    /\ at \in {"merge", "checked", "cleanup"} => Recorded /\ dir.csv > Len(before.attempts)
    /\ at = "cleanup" => dir.status = "complete"
    /\ dir.status = "complete" => Recorded
    /\ at = "gone" => message = Nothing

\* What is in the directory is of before the process, its own, or an intruder's.
Ours ==
    /\ before.csv <= Len(before.attempts)
    /\ Len(dir.attempts) >= Len(before.attempts)
    /\ opened => Len(dir.attempts) > Len(before.attempts)
    /\ Len(dir.attempts) > Len(before.attempts)
          => opened \/ dir.attempts[Len(dir.attempts)].pid = 3
    /\ dir.csv # before.csv => dir.csv > Len(before.attempts)
    /\ \A c \in Planned : dir.by[c] # before.by[c] => dir.by[c] > Len(before.attempts)

\* The context's last word is true when it is recorded, and remains so.
LastWord ==
    /\ at \notin {"closing", "deliver", "gone"} => verdictMsg = "none" /\ exc = "none"
    /\ exc # "none" => verdictMsg \in {exc, "none"} /\ rc = 1
    /\ verdictMsg = "success" => dir.status = "complete" /\ (~HasErrors(dir) \/ unread) /\ exc = "none"
    /\ verdictMsg = "partial" => dir.status = "complete" /\ HasErrors(dir) /\ exc = "none"
    /\ verdictMsg \in {"success", "partial"} => dir.csv > Len(before.attempts)
    /\ verdictMsg = "cancelled" => (stopped \/ broken) /\ exc = "cancelled"
    /\ verdictMsg = "failed" => exc = "failed"
    /\ verdictMsg # "no_results"

\* A last message is the last word, told when the directory is closed.
LastMessage ==
    /\ message.kind \in Finals => at = "deliver" /\ message.kind = verdictMsg
    /\ \A i \in 1..Len(chat) :
          chat[i].kind \in Finals => at \in {"deliver", "gone"} /\ chat[i].kind = verdictMsg

\* How far the messages may have come.
Level == CASE at \in {"start", "prepare"} -> 0
           [] at = "tools" -> unit - 1
           [] at = "cases" -> Tools + unit - 1
           [] at \in {"merge", "checked", "cleanup", "closing"} -> Tools + PlannedCases
           [] OTHER -> Tools + PlannedCases + 1
InOrder ==
    /\ at = "start" => message = Nothing
    /\ message # Nothing => /\ message.kind # "none" /\ Order(message) <= Level
                            /\ \A i \in 1..Len(chat) : Order(chat[i]) <= Order(message)
    /\ \A i \in 1..Len(chat) : chat[i].kind # "none" /\ Order(chat[i]) <= Level
    /\ \A i, j \in 1..Len(chat) : i < j => Order(chat[i]) <= Order(chat[j])
    /\ message.kind = "progress" => message.n \in Planned /\ dir.rows[message.n] # "none"
    /\ \A i \in 1..Len(chat) :
          chat[i].kind = "progress" => chat[i].n \in Planned /\ dir.rows[chat[i].n] # "none"

\* The page judges once, when the process is gone.
Judged ==
    /\ result.stage # "none" => at = "gone"
    /\ result.mine => result.stage # "none"
    /\ result.csv => result.stage # "none"
    /\ result.new > 0 => result.stage # "none"
    /\ VerdictIsTrue /\ OutcomesAgree

OutcomeInv == OutcomeTypes /\ Progressed /\ Ours /\ LastWord /\ LastMessage /\ InOrder /\ Judged

\* An attempt appended to the list of attempts is its last.
LEMMA Attempts ==
  ASSUME NEW s \in Seq(AttemptType), NEW p \in 1..3, NEW e \in BOOLEAN
  PROVE  /\ Append(s, Attempt(p, e)) \in Seq(AttemptType)
         /\ Len(Append(s, Attempt(p, e))) = Len(s) + 1
         /\ Append(s, Attempt(p, e))[Len(s) + 1] = Attempt(p, e)
         /\ Attempt(p, e).pid = p
<1>1. Attempt(p, e) \in AttemptType
  BY DEF Attempt, AttemptType
<1> QED
  BY <1>1 DEF Attempt

\* A message appended to the chat is its last, and the others stay.
LEMMA Chats ==
  ASSUME NEW s \in Seq(NoteType), NEW m \in NoteType
  PROVE  /\ Append(s, m) \in Seq(NoteType) /\ Len(Append(s, m)) = Len(s) + 1 /\ Len(s) \in Nat
         /\ \A i \in 1..Len(s) : Append(s, m)[i] = s[i]
         /\ Append(s, m)[Len(s) + 1] = m
OBVIOUS

\* Every message is a note.
LEMMA NotesTyped == Nothing \in NoteType /\ \A k \in MessageKinds, n \in Nat : Note(k, n) \in NoteType
BY DEF Nothing, Note, NoteType, MessageKinds

\* A post keeps the types.
LEMMA TPost == OutcomeTypes /\ Post => OutcomeTypes'
<1> SUFFICES ASSUME OutcomeTypes, Post PROVE OutcomeTypes'
  OBVIOUS
<1> USE OutcomeAssumption
<1>1. chat' \in {chat, Append(chat, message)} /\ message' \in {message, Nothing}
      /\ tries' \in {tries, tries + 1} /\ upsets' \in {upsets, upsets + 1}
  BY DEF Post, Upset
<1>2. chat' \in Seq(NoteType) /\ message' \in NoteType /\ tries' \in Nat /\ upsets' \in Nat
  BY <1>1, Chats, NotesTyped DEF OutcomeTypes
<1> QED
  BY <1>2 DEF OutcomeTypes, Post, shop

\* So does the recording of the attempt,
LEMMA TOpen == OutcomeTypes /\ OpenState => OutcomeTypes'
<1> SUFFICES ASSUME OutcomeTypes, OpenState PROVE OutcomeTypes'
  OBVIOUS
<1>1. Append(dir.attempts, Attempt(pid, FALSE)) \in Seq(AttemptType)
  <2>1. dir.attempts \in Seq(AttemptType) /\ pid \in 1..3 /\ FALSE \in BOOLEAN
    BY DEF OutcomeTypes, DirType
  <2> QED
    BY <2>1, Attempts
<1>2. dir' \in DirType
  BY <1>1 DEF OutcomeTypes, DirType, OpenState, Statuses
<1>3. at' \in Phases /\ unit' \in Nat /\ opened' \in BOOLEAN
  BY DEF OpenState, Phases
<1> QED
  BY <1>2, <1>3 DEF OutcomeTypes, OpenState, shop

\* a case,
LEMMA TCase == OutcomeTypes /\ RunCase => OutcomeTypes'
<1> SUFFICES ASSUME OutcomeTypes, RunCase PROVE OutcomeTypes'
  OBVIOUS
<1> USE OutcomeAssumption
<1>1. unit \in Planned /\ unit' = unit + 1 /\ unit' \in Nat
  <2>1. unit \in Planned /\ unit' = unit + 1
    BY DEF RunCase
  <2> QED
    BY <2>1 DEF Planned
<1>2. Mine \in Nat
  BY DEF Mine, OutcomeTypes, DirType
<1>3. dir' \in DirType
  <2>1. CASE UNCHANGED dir
    BY <2>1 DEF OutcomeTypes
  <2>2. ASSUME NEW st \in RowStates, dir' = [dir EXCEPT !.rows[unit] = st, !.by[unit] = Mine]
        PROVE dir' \in DirType
    <3>1. [dir.rows EXCEPT ![unit] = st] \in [Planned -> RowStates]
      BY <2>2 DEF OutcomeTypes, DirType
    <3>2. [dir.by EXCEPT ![unit] = Mine] \in [Planned -> Nat]
      BY <2>2, <1>2 DEF OutcomeTypes, DirType
    <3>3. dir' = [dir EXCEPT !.rows = [dir.rows EXCEPT ![unit] = st], !.by = [dir.by EXCEPT ![unit] = Mine]]
      BY <2>2 DEF OutcomeTypes, DirType
    <3> QED
      BY <3>1, <3>2, <3>3 DEF OutcomeTypes, DirType
  <2> QED
    BY <2>1, <2>2 DEF RunCase
<1>4. message' \in NoteType /\ tries' \in Nat /\ at' \in Phases
  <2>1. Note("progress", unit) \in NoteType
    BY <1>1, NotesTyped DEF MessageKinds, OutcomeTypes
  <2> QED
    BY <2>1, NotesTyped DEF RunCase, Tell, Phases
<1> QED
  BY <1>1, <1>3, <1>4 DEF OutcomeTypes, RunCase, shop

\* the merge, the end of the state and an intruder,
LEMMA TMerge == OutcomeTypes /\ (MergeCases \/ FinishState \/ Intrude) => OutcomeTypes'
<1> SUFFICES ASSUME OutcomeTypes, MergeCases \/ FinishState \/ Intrude PROVE OutcomeTypes'
  OBVIOUS
<1>1. Mine \in Nat
  BY DEF Mine, OutcomeTypes, DirType
<1>2. CASE MergeCases
  <2>1. dir' \in DirType
    BY <1>1, <1>2 DEF OutcomeTypes, DirType, MergeCases
  <2> QED
    BY <1>2, <2>1 DEF OutcomeTypes, MergeCases, shop, Phases
<1>3. CASE FinishState
  <2>1. dir' \in DirType
    BY <1>3 DEF OutcomeTypes, DirType, FinishState, Statuses
  <2> QED
    BY <1>3, <2>1 DEF OutcomeTypes, FinishState, shop, Phases
<1>4. CASE Intrude
  <2>1. Append(dir.attempts, Attempt(3, FALSE)) \in Seq(AttemptType)
    <3>1. dir.attempts \in Seq(AttemptType) /\ 3 \in 1..3 /\ FALSE \in BOOLEAN
      BY DEF OutcomeTypes, DirType
    <3> QED
      BY <3>1, Attempts
  <2>2. dir' \in DirType
    BY <1>4, <2>1 DEF OutcomeTypes, DirType, Intrude
  <2> QED
    BY <1>4, <2>2 DEF OutcomeTypes, Intrude, shop, Upset
<1> QED
  BY <1>2, <1>3, <1>4

\* the last word and a stop,
LEMMA TRecord == OutcomeTypes /\ (Record \/ Stop) => OutcomeTypes'
<1> SUFFICES ASSUME OutcomeTypes, Record \/ Stop PROVE OutcomeTypes'
  OBVIOUS
<1>1. CASE Record
  <2>1. verdictMsg' \in Finals \cup {"none"}
    BY <1>1 DEF OutcomeTypes, Record, CompletionStatus, Finals
  <2>2. unread' \in {unread, TRUE} /\ upsets' \in {upsets, upsets + 1}
    BY <1>1 DEF Record, Upset
  <2>3. unread' \in BOOLEAN
    BY <2>2, Zenon DEF OutcomeTypes
  <2>4. upsets' \in Nat
    BY <2>2 DEF OutcomeTypes
  <2> QED
    BY <1>1, <2>1, <2>3, <2>4 DEF OutcomeTypes, Record, shop, Phases
<1>2. CASE Stop
  <2>1. stopped' \in {stopped, TRUE} /\ broken' \in {broken, TRUE} /\ upsets' = upsets + 1
    BY <1>2 DEF Stop, Upset
  <2>3. stopped' \in BOOLEAN /\ broken' \in BOOLEAN
    BY <2>1, Zenon DEF OutcomeTypes
  <2>4. upsets' \in Nat
    BY <2>1 DEF OutcomeTypes
  <2>2. /\ at' \in Phases /\ message' \in NoteType /\ tries' \in Nat /\ exc' \in {"none", "failed", "cancelled"}
        /\ rc' \in {0, 1} /\ verdictMsg' \in Finals \cup {"none"}
    BY <1>2, NotesTyped DEF OutcomeTypes, Stop, Raise, Phases, Finals
  <2> QED
    BY <1>2, <2>2, <2>3, <2>4 DEF OutcomeTypes, Stop
<1> QED
  BY <1>1, <1>2

\* and closing the state ends its last attempt and nothing else.
LEMMA Closed ==
  ASSUME OutcomeTypes, dir.attempts # <<>>,
         NEW st \in Statuses,
         dir' = [dir EXCEPT !.status = st, !.attempts[Len(dir.attempts)].ended = TRUE]
  PROVE  /\ dir' \in DirType /\ dir'.status = st /\ Len(dir'.attempts) = Len(dir.attempts)
         /\ dir'.rows = dir.rows /\ dir'.by = dir.by /\ dir'.csv = dir.csv /\ dir'.gaps = dir.gaps
         /\ dir'.attempts[Len(dir.attempts)].pid = dir.attempts[Len(dir.attempts)].pid
<1> DEFINE n == Len(dir.attempts)
<1> DEFINE last == [dir.attempts[n] EXCEPT !.ended = TRUE]
<1> DEFINE new == [dir.attempts EXCEPT ![n] = last]
<1>1. dir.attempts \in Seq(AttemptType) /\ n \in 1..Len(dir.attempts)
  BY DEF OutcomeTypes, DirType
<1>2. dir.attempts[n] \in AttemptType
  BY <1>1
<1>3. last \in AttemptType /\ last.pid = dir.attempts[n].pid
  BY <1>2 DEF AttemptType
<1>4. new \in Seq(AttemptType) /\ Len(new) = n /\ new[n] = last
  <2> HIDE DEF last
  <2> QED BY <1>1, <1>3
<1>5. dir' = [dir EXCEPT !.status = st, !.attempts = new]
  BY DEF OutcomeTypes, DirType
<1> HIDE DEF n, new, last
<1>6. dir'.attempts = new /\ dir'.status = st /\ dir'.rows = dir.rows /\ dir'.by = dir.by
      /\ dir'.csv = dir.csv /\ dir'.gaps = dir.gaps /\ dir' \in DirType
  BY <1>4, <1>5 DEF OutcomeTypes, DirType
<1> QED
  BY <1>3, <1>4, <1>6 DEF n

\* So it keeps the types as well.
LEMMA TClose == OutcomeTypes /\ Ours /\ CloseState => OutcomeTypes'
<1> SUFFICES ASSUME OutcomeTypes, Ours, CloseState PROVE OutcomeTypes'
  OBVIOUS
<1>1. dir' \in DirType
  <2>1. CASE opened /\ dir' # dir
    <3>1. Len(dir.attempts) > 0
      BY <2>1 DEF Ours, OutcomeTypes, DirType
    <3>2. dir.attempts # <<>>
      BY <3>1
    <3>3. PICK st \in Statuses : dir' = [dir EXCEPT !.status = st, !.attempts[Len(dir.attempts)].ended = TRUE]
      BY <2>1 DEF CloseState, Statuses
    <3> QED
      BY <3>2, <3>3, Closed
  <2>2. CASE dir' = dir
    BY <2>2 DEF OutcomeTypes
  <2> QED
    BY <2>1, <2>2 DEF CloseState
<1>2. upsets' \in Nat /\ at' \in Phases
  BY DEF OutcomeTypes, CloseState, Upset, Phases, Tell
<1>3. message' \in NoteType /\ tries' \in Nat
  <2>1. Note(verdictMsg, 0) \in NoteType
    BY NotesTyped DEF OutcomeTypes, MessageKinds
  <2> QED
    BY <2>1, NotesTyped DEF OutcomeTypes, CloseState, Tell
<1> QED
  BY <1>1, <1>2, <1>3 DEF OutcomeTypes, CloseState, shop

\* A case leaves its own rows recorded, and those of the others alone.
LEMMA CaseRecorded ==
  ASSUME OutcomeTypes, RunCase
  PROVE  /\ unit \in Planned /\ unit' = unit + 1
         /\ dir'.rows[unit] # "none" /\ dir'.status = dir.status /\ dir'.csv = dir.csv
         /\ dir'.attempts = dir.attempts
         /\ \A c \in Planned \ {unit} : dir'.rows[c] = dir.rows[c] /\ dir'.by[c] = dir.by[c]
         /\ dir'.by[unit] \in {dir.by[unit], Len(dir.attempts)}
<1>0. unit \in Planned /\ unit' = unit + 1
  BY DEF RunCase
<1>1. CASE dir.rows[unit] # "none" /\ UNCHANGED dir
  BY <1>0, <1>1
<1>2. ASSUME dir.rows[unit] = "none", NEW st \in RowStates \ {"none"},
             dir' = [dir EXCEPT !.rows[unit] = st, !.by[unit] = Mine]
      PROVE  /\ dir'.rows[unit] = st /\ dir'.by[unit] = Mine
             /\ dir'.status = dir.status /\ dir'.csv = dir.csv /\ dir'.attempts = dir.attempts
             /\ \A c \in Planned \ {unit} : dir'.rows[c] = dir.rows[c] /\ dir'.by[c] = dir.by[c]
  <2>1. dir' = [dir EXCEPT !.rows = [dir.rows EXCEPT ![unit] = st], !.by = [dir.by EXCEPT ![unit] = Mine]]
    BY <1>2 DEF OutcomeTypes, DirType
  <2>2. dir'.rows = [dir.rows EXCEPT ![unit] = st] /\ dir'.by = [dir.by EXCEPT ![unit] = Mine]
        /\ dir'.status = dir.status /\ dir'.csv = dir.csv /\ dir'.attempts = dir.attempts
    BY <2>1 DEF OutcomeTypes, DirType
  <2> QED
    BY <1>0, <2>2 DEF OutcomeTypes, DirType
<1> QED
  BY <1>0, <1>1, <1>2 DEF RunCase, Mine

\* A case brings the run to the next one,
LEMMA PCase == OutcomeTypes /\ Progressed /\ Ours /\ RunCase => Progressed'
<1> SUFFICES ASSUME OutcomeTypes, Progressed, Ours, RunCase PROVE Progressed'
  OBVIOUS
<1> USE OutcomeAssumption
<1>1. at = "cases" /\ at' = "cases" /\ opened' = opened
  BY DEF RunCase, Ready, Tell
<1>2. \A c \in Planned : dir.rows[c] # "none" => dir'.rows[c] # "none"
  BY CaseRecorded
<1>0. unit \in 1..PlannedCases /\ unit' = unit + 1
  BY CaseRecorded DEF Planned
<1>3. unit' \in 1..(PlannedCases + 1)
  BY <1>0
<1>4. \A c \in Planned : c < unit' => dir'.rows[c] # "none"
  <2>1. \A c \in Planned : c < unit => dir.rows[c] # "none"
    BY <1>1 DEF Progressed
  <2>2. \A c \in Planned : c < unit' => c < unit \/ c = unit
    BY <1>0 DEF Planned
  <2> QED
    BY <1>2, <2>1, <2>2, CaseRecorded
<1>5. dir'.status = "complete" => Recorded'
  BY <1>2, CaseRecorded DEF Progressed, Recorded
<1> QED
  BY <1>1, <1>3, <1>4, <1>5 DEF Progressed

\* with rows of this attempt;
LEMMA OCase == OutcomeTypes /\ Progressed /\ Ours /\ RunCase => Ours'
<1> SUFFICES ASSUME OutcomeTypes, Progressed, Ours, RunCase PROVE Ours'
  OBVIOUS
<1>1. before' = before /\ opened' = opened /\ opened
  BY DEF RunCase, Ready, Progressed, shop
<1>2. Len(dir.attempts) > Len(before.attempts)
  BY <1>1 DEF Ours
<1>3. \A c \in Planned : dir'.by[c] # before.by[c] => dir'.by[c] > Len(before.attempts)
  BY <1>2, CaseRecorded DEF Ours
<1> QED
  BY <1>1, <1>3, CaseRecorded DEF Ours

\* closing the state changes neither rows nor the CSV.
LEMMA OClose == OutcomeTypes /\ Progressed /\ Ours /\ CloseState => Ours'
<1> SUFFICES ASSUME OutcomeTypes, Progressed, Ours, CloseState PROVE Ours'
  OBVIOUS
<1>1. before' = before /\ opened' = opened
  BY DEF CloseState, shop
<1>2. CASE dir' = dir
  BY <1>1, <1>2 DEF Ours
<1>3. CASE opened /\ dir' # dir
  <2>1. Len(dir.attempts) > 0 /\ dir.attempts # <<>>
    BY <1>3 DEF Ours, OutcomeTypes, DirType
  <2>2. PICK st \in Statuses : dir' = [dir EXCEPT !.status = st, !.attempts[Len(dir.attempts)].ended = TRUE]
    BY <1>3 DEF CloseState, Statuses
  <2>3. /\ Len(dir'.attempts) = Len(dir.attempts) /\ dir'.rows = dir.rows /\ dir'.by = dir.by
        /\ dir'.csv = dir.csv
    BY <2>1, <2>2, Closed
  <2> QED
    BY <1>1, <1>3, <2>3 DEF Ours
<1> QED
  BY <1>2, <1>3 DEF CloseState

\* A post repeats the message, it makes no other.
LEMMA MPost == OutcomeTypes /\ Progressed /\ LastWord /\ LastMessage /\ Post => LastMessage'
<1> SUFFICES ASSUME OutcomeTypes, Progressed, LastWord, LastMessage, Post PROVE LastMessage'
  OBVIOUS
<1>1. /\ chat' \in {chat, Append(chat, message)} /\ message' \in {message, Nothing}
      /\ at' = at /\ verdictMsg' = verdictMsg
  BY DEF Post
<1>2. Nothing.kind \notin Finals
  BY DEF Nothing, Finals
<1>3. \A i \in 1..Len(chat') :
         chat'[i].kind \in Finals => at \in {"deliver", "gone"} /\ chat'[i].kind = verdictMsg
  <2>1. CASE chat' = chat
    BY <2>1 DEF LastMessage
  <2>2. CASE chat' = Append(chat, message)
    <3>1. chat \in Seq(NoteType) /\ message \in NoteType
      BY DEF OutcomeTypes
    <3>2. /\ Len(chat') = Len(chat) + 1 /\ Len(chat) \in Nat /\ chat'[Len(chat) + 1] = message
          /\ \A i \in 1..Len(chat) : chat'[i] = chat[i]
      BY <2>2, <3>1, Chats
    <3>3. \A i \in 1..Len(chat') : i \in 1..Len(chat) \/ i = Len(chat) + 1
      BY <3>2
    <3> QED
      BY <3>2, <3>3 DEF LastMessage
  <2> QED
    BY <1>1, <2>1, <2>2
<1> QED
  BY <1>1, <1>2, <1>3 DEF LastMessage

\* However often a message is posted, it comes after those before it.
LEMMA NPost == OutcomeTypes /\ Progressed /\ InOrder /\ Post => InOrder'
<1> SUFFICES ASSUME OutcomeTypes, Progressed, InOrder, Post PROVE InOrder'
  OBVIOUS
<1>1. /\ chat' \in {chat, Append(chat, message)} /\ message' \in {message, Nothing}
      /\ at' = at /\ unit' = unit /\ dir' = dir /\ message # Nothing
  BY DEF Post
<1>2. Level' = Level /\ \A m : Order(m)' = Order(m)
  BY <1>1 DEF Level, Order
<1>3. Nothing.kind # "progress"
  BY DEF Nothing
<1>4. /\ message.kind # "none" /\ Order(message) <= Level
      /\ \A i \in 1..Len(chat) : Order(chat[i]) <= Order(message)
      /\ message.kind = "progress" => message.n \in Planned /\ dir.rows[message.n] # "none"
  BY <1>1 DEF InOrder
<1>5. Order(message) \in Int
  BY OutcomeAssumption DEF OutcomeTypes, Order, NoteType
<1>6. /\ \A i \in 1..Len(chat') : chat'[i].kind # "none" /\ Order(chat'[i]) <= Level
      /\ \A i \in 1..Len(chat') : Order(chat'[i]) <= Order(message)
      /\ \A i, j \in 1..Len(chat') : i < j => Order(chat'[i]) <= Order(chat'[j])
      /\ \A i \in 1..Len(chat') :
            chat'[i].kind = "progress" => chat'[i].n \in Planned /\ dir.rows[chat'[i].n] # "none"
  <2>1. CASE chat' = chat
    BY <1>4, <2>1 DEF InOrder
  <2>2. CASE chat' = Append(chat, message)
    <3>1. chat \in Seq(NoteType) /\ message \in NoteType
      BY DEF OutcomeTypes
    <3>2. /\ Len(chat') = Len(chat) + 1 /\ Len(chat) \in Nat /\ chat'[Len(chat) + 1] = message
          /\ \A i \in 1..Len(chat) : chat'[i] = chat[i]
      BY <2>2, <3>1, Chats
    <3>3. \A i \in 1..Len(chat') : i \in 1..Len(chat) \/ i = Len(chat) + 1
      BY <3>2
    <3>4. \A i \in 1..Len(chat') : chat'[i].kind # "none" /\ Order(chat'[i]) <= Level
          /\ Order(chat'[i]) <= Order(message)
          /\ (chat'[i].kind = "progress" => chat'[i].n \in Planned /\ dir.rows[chat'[i].n] # "none")
      BY <1>4, <1>5, <3>2, <3>3 DEF InOrder
    <3>5. \A i, j \in 1..Len(chat') : i < j => i \in 1..Len(chat)
      BY <3>2
    <3>6. \A i, j \in 1..Len(chat') : i < j => Order(chat'[i]) <= Order(chat'[j])
      BY <1>4, <3>2, <3>3, <3>5 DEF InOrder
    <3> QED
      BY <3>4, <3>6
  <2> QED
    BY <1>1, <2>1, <2>2
<1>7. /\ at' = "start" => message' = Nothing
      /\ message' # Nothing => message' = message
      /\ message'.kind = "progress" => message' = message
  BY <1>1, <1>3 DEF InOrder
<1> QED
  BY <1>1, <1>2, <1>4, <1>6, <1>7 DEF InOrder

\* A profiling stage brings the run to the next one or to the cases.
LEMMA PProfile == OutcomeTypes /\ Progressed /\ Ours /\ Profile => Progressed'
<1> SUFFICES ASSUME OutcomeTypes, Progressed, Ours, Profile PROVE Progressed'
  OBVIOUS
<1>1. /\ at = "tools" /\ opened /\ unit \in 1..(Tools + 1)
      /\ dir' = dir /\ opened' = opened /\ before' = before
  BY DEF Profile, Ready, Progressed, shop
<1>2. \/ at' = "tools" /\ unit <= Tools /\ unit' \in {unit + 1, Tools + 1}
      \/ at' = "cases" /\ unit' = 1
  BY <1>1 DEF Profile, Tell
<1>3. at' = "tools" => unit' \in 1..(Tools + 1)
  BY <1>1, <1>2, OutcomeAssumption
<1>4. at' = "cases" => unit' = 1 /\ 1 \in 1..(PlannedCases + 1) /\ \A c \in Planned : ~(c < 1)
  BY <1>2, OutcomeAssumption DEF Planned
<1> QED
  BY <1>1, <1>2, <1>3, <1>4 DEF Progressed, Recorded

\* Places in the order of the run are numbers.
LEMMA OrdersTyped ==
  OutcomeTypes => /\ Level \in Int
                  /\ \A m \in NoteType : Order(m) \in Int
BY OutcomeAssumption DEF OutcomeTypes, Level, Order, NoteType, Phases

\* A step that sends nothing and does not go back in the run keeps the order,
LEMMA OldNews ==
  ASSUME OutcomeTypes, OutcomeTypes', InOrder, chat' = chat, message' \in {message, Nothing}, at' # "start",
         Level <= Level', \A c \in Planned : dir.rows[c] # "none" => dir'.rows[c] # "none"
  PROVE  InOrder'
<1>1. Level \in Int /\ Level' \in Int /\ \A m : Order(m)' = Order(m)
  BY OrdersTyped, OutcomeAssumption DEF OutcomeTypes, Level, Order, Phases
<1>2. \A m \in NoteType : Order(m) \in Int
  BY OrdersTyped
<1>3. /\ message \in NoteType /\ \A i \in 1..Len(chat) : chat[i] \in NoteType
      /\ Nothing.kind # "progress"
  BY DEF OutcomeTypes, Nothing
<1>4. /\ message # Nothing => Order(message) <= Level'
      /\ \A i \in 1..Len(chat) : Order(chat[i]) <= Level'
  BY <1>1, <1>2, <1>3 DEF InOrder
<1>5. /\ message' # Nothing => message' = message
      /\ message'.kind = "progress" => message' = message
  BY <1>3
<1> QED
  BY <1>1, <1>4, <1>5 DEF InOrder

\* and so does one that sends what is told at the place it comes to.
LEMMA FreshNews ==
  ASSUME OutcomeTypes, OutcomeTypes', InOrder, chat' = chat, at' # "start",
         NEW note \in NoteType, note.kind # "none", message' \in {note, Nothing},
         Level <= Order(note), Order(note) <= Level',
         note.kind = "progress" => note.n \in Planned /\ dir'.rows[note.n] # "none",
         \A c \in Planned : dir.rows[c] # "none" => dir'.rows[c] # "none"
  PROVE  InOrder'
<1>1. Level \in Int /\ Level' \in Int /\ \A m : Order(m)' = Order(m)
  BY OrdersTyped, OutcomeAssumption DEF OutcomeTypes, Level, Order, Phases
<1>2. \A m \in NoteType : Order(m) \in Int
  BY OrdersTyped
<1>3. /\ \A i \in 1..Len(chat) : chat[i] \in NoteType
      /\ Nothing.kind # "progress"
  BY DEF OutcomeTypes, Nothing
<1>4. \A i \in 1..Len(chat) : Order(chat[i]) <= Level' /\ Order(chat[i]) <= Order(note)
  BY <1>1, <1>2, <1>3 DEF InOrder
<1>5. /\ message' # Nothing => message' = note
      /\ message'.kind = "progress" => message' = note
  BY <1>3
<1> QED
  BY <1>1, <1>4, <1>5 DEF InOrder

\* The steps that tell nothing,
LEMMA NQuiet ==
  OutcomeTypes /\ OutcomeTypes' /\ Progressed /\ InOrder /\ (RunFails \/ OpenState \/ MergeCases \/ Stop) => InOrder'
<1> SUFFICES ASSUME OutcomeTypes, OutcomeTypes', Progressed, InOrder, RunFails \/ OpenState \/ MergeCases \/ Stop
             PROVE InOrder'
  OBVIOUS
<1>1. /\ chat' = chat /\ message' \in {message, Nothing}
      /\ at' # "start" /\ \A c \in Planned : dir'.rows[c] = dir.rows[c]
  <2>1. CASE RunFails
    BY <2>1 DEF RunFails, Raise
  <2>2. CASE OpenState
    <3>1. dir'.rows = dir.rows
      BY <2>2 DEF OpenState, OutcomeTypes, DirType
    <3> QED BY <2>2, <3>1 DEF OpenState
  <2>3. CASE MergeCases
    <3>1. dir'.rows = dir.rows
      BY <2>3 DEF MergeCases, OutcomeTypes, DirType
    <3> QED BY <2>3, <3>1 DEF MergeCases
  <2>4. CASE Stop
    BY <2>4 DEF Stop, Raise
  <2> QED
    BY <2>1, <2>2, <2>3, <2>4
<1>2. Level <= Level'
  <2>1. Level \in Int /\ unit \in Nat /\ unit' \in Nat
    BY OrdersTyped DEF OutcomeTypes
  <2>2. CASE RunFails
    BY <2>1, <2>2, OutcomeAssumption DEF RunFails, Raise, Level, OutcomeTypes, Progressed
  <2>3. CASE OpenState
    BY <2>1, <2>3, OutcomeAssumption DEF OpenState, Ready, Level
  <2>4. CASE MergeCases
    <3>0. at = "cases" /\ at' = "merge"
      BY <2>4 DEF MergeCases, Ready
    <3>1. unit <= PlannedCases + 1
      BY <3>0, OutcomeAssumption DEF Progressed
    <3>2. Level = Tools + unit - 1 /\ Level' = Tools + PlannedCases
      BY <3>0 DEF Level
    <3> QED
      BY <2>1, <3>1, <3>2, OutcomeAssumption
  <2>5. CASE Stop
    <3>1. CASE at \notin {"closing", "deliver"} /\ at' = "closing"
      BY <2>1, <2>5, <3>1, OutcomeAssumption DEF Stop, Level, OutcomeTypes, Progressed, Phases
    <3>2. CASE at' = "gone"
      BY <2>1, <2>5, <3>2, OutcomeAssumption DEF Stop, Level, OutcomeTypes, Progressed, Phases
    <3>3. CASE at' = at
      BY <2>1, <2>5, <3>3 DEF Stop, Level
    <3> QED
      BY <2>5, <3>1, <3>2, <3>3 DEF Stop, Raise
  <2> QED
    BY <2>2, <2>3, <2>4, <2>5
<1> QED
  BY <1>1, <1>2, OldNews

\* the end of a stage,
LEMMA NProfile == OutcomeTypes /\ OutcomeTypes' /\ Progressed /\ InOrder /\ Profile => InOrder'
<1> SUFFICES ASSUME OutcomeTypes, OutcomeTypes', Progressed, InOrder, Profile PROVE InOrder'
  OBVIOUS
<1>1. /\ at = "tools" /\ message = Nothing /\ unit \in 1..(Tools + 1) /\ unit \in Nat
      /\ chat' = chat /\ dir' = dir /\ Level = unit - 1
  BY DEF Profile, Ready, Progressed, OutcomeTypes, Level
<1>2. CASE unit > Tools /\ unit' = 1 /\ at' = "cases" /\ UNCHANGED message
  <2>1. Level' = Tools /\ Level = Tools
    BY <1>1, <1>2, OutcomeAssumption DEF Level
  <2> QED
    BY <1>1, <1>2, <2>1, OldNews, OutcomeAssumption
<1>3. CASE unit <= Tools /\ unit' = Tools + 1 /\ UNCHANGED <<at, message>>
  <2>1. Level' = Tools
    BY <1>1, <1>3, OutcomeAssumption DEF Level
  <2> QED
    BY <1>1, <1>3, <2>1, OldNews, OutcomeAssumption
<1>4. ASSUME NEW total \in 0..2, NEW stageError \in BOOLEAN, NEW failed \in 0..total, unit <= Tools,
             unit' = unit + 1, Tell(Note(StageStatus(total, failed, stageError), unit), "tools")
      PROVE  InOrder'
  <2> DEFINE note == Note(StageStatus(total, failed, stageError), unit)
  <2>1. StageStatus(total, failed, stageError)
           \in {"profiler_success", "profiler_partial", "profiler_failed", "profiler_no_results"}
    BY DEF StageStatus
  <2>2. note \in NoteType /\ note.kind \notin {"none", "progress"} /\ Order(note) = unit
    BY <1>1, <2>1 DEF Note, NoteType, MessageKinds, Order
  <2>3. at' = "tools" /\ message' \in {note, Nothing}
    BY <1>4 DEF Tell
  <2>4. Level' = unit
    BY <1>1, <1>4, <2>3 DEF Level
  <2> HIDE DEF note
  <2> QED
    BY <1>1, <2>2, <2>3, <2>4, FreshNews
<1> QED
  BY <1>2, <1>3, <1>4 DEF Profile

\* the end of a case,
LEMMA NCase == OutcomeTypes /\ OutcomeTypes' /\ Progressed /\ InOrder /\ RunCase => InOrder'
<1> SUFFICES ASSUME OutcomeTypes, OutcomeTypes', Progressed, InOrder, RunCase PROVE InOrder'
  OBVIOUS
<1> DEFINE note == Note("progress", unit)
<1>1. /\ at = "cases" /\ at' = "cases" /\ chat' = chat /\ message' \in {note, Nothing}
      /\ unit \in Planned /\ unit' = unit + 1 /\ unit \in Nat
  BY DEF RunCase, Ready, Tell, OutcomeTypes
<1>2. note \in NoteType /\ note.kind = "progress" /\ note.n = unit /\ Order(note) = Tools + unit
  BY <1>1 DEF Note, NoteType, MessageKinds, Order
<1>3. Level = Tools + unit - 1 /\ Level' = Tools + unit
  BY <1>1, OutcomeAssumption DEF Level
<1> HIDE DEF note
<1>4. Level <= Order(note) /\ Order(note) <= Level'
  BY <1>1, <1>2, <1>3, OutcomeAssumption
<1>5. \A c \in Planned : dir.rows[c] # "none" => dir'.rows[c] # "none"
  BY CaseRecorded
<1> QED
  BY <1>1, <1>2, <1>4, <1>5, CaseRecorded, FreshNews

\* and the last word.
LEMMA NClose == OutcomeTypes /\ OutcomeTypes' /\ Progressed /\ Ours /\ InOrder /\ CloseState => InOrder'
<1> SUFFICES ASSUME OutcomeTypes, OutcomeTypes', Progressed, Ours, InOrder, CloseState PROVE InOrder'
  OBVIOUS
<1>1. at = "closing" /\ at' = "deliver" /\ chat' = chat /\ message = Nothing
  BY DEF CloseState, Ready, Tell
<1>2. Level = Tools + PlannedCases /\ Level' = Tools + PlannedCases + 1
  BY <1>1 DEF Level
<1>3. dir'.rows = dir.rows
  <2>1. CASE opened /\ dir' # dir
    <3>1. Len(dir.attempts) > 0 /\ dir.attempts # <<>>
      BY <2>1 DEF Ours, OutcomeTypes, DirType
    <3>2. PICK st \in Statuses : dir' = [dir EXCEPT !.status = st, !.attempts[Len(dir.attempts)].ended = TRUE]
      BY <2>1 DEF CloseState, Statuses
    <3> QED
      BY <3>1, <3>2, Closed
  <2> QED
    BY <2>1 DEF CloseState
<1>4. CASE verdictMsg = "none"
  <2>1. message' = message
    BY <1>4 DEF CloseState
  <2> QED
    BY <1>1, <1>2, <1>3, <2>1, OldNews, OutcomeAssumption
<1>5. CASE verdictMsg # "none"
  <2> DEFINE note == Note(verdictMsg, 0)
  <2>1. message' \in {note, Nothing} /\ verdictMsg \in Finals
    BY <1>5 DEF CloseState, Tell, OutcomeTypes
  <2>2. note \in NoteType /\ note.kind \notin {"none", "progress"} /\ Order(note) = Tools + PlannedCases + 1
    BY <2>1 DEF Note, NoteType, MessageKinds, Order, Finals
  <2> HIDE DEF note
  <2>3. Level <= Order(note) /\ Order(note) <= Level'
    BY <1>2, <2>2, OutcomeAssumption
  <2> QED
    BY <1>1, <1>3, <2>1, <2>2, <2>3, FreshNews
<1> QED
  BY <1>4, <1>5

\* The parts of the invariant, one by one and action by action.
LEMMA OutcomeTypesStep ==
  OutcomeTypes /\ Ours /\ [OutcomeNext]_outcomeVars => OutcomeTypes'
<1> SUFFICES ASSUME OutcomeTypes /\ Ours, [OutcomeNext]_outcomeVars PROVE OutcomeTypes'
  OBVIOUS
<1> USE OutcomeAssumption
<1>1. CASE Post
  BY <1>1, TPost
<1>2. CASE RunFails
  BY <1>2 DEF OutcomeTypes, Ours, RunFails, Raise, Nothing, Upset, shop, NoteType,
     MessageKinds, DirType, Phases, Statuses, Finals, RowStates
<1>3. CASE Begin
  BY <1>3 DEF OutcomeTypes, Ours, Begin, Ready, Tell, Note, Nothing, shop, NoteType,
     MessageKinds, DirType, Phases, Statuses, Finals, RowStates
<1>4. CASE OpenState
  BY <1>4, TOpen
<1>5. CASE Profile
  BY <1>5 DEF OutcomeTypes, Ours, Profile, Ready, Tell, Note, Nothing, Upset, shop,
     StageStatus, NoteType, MessageKinds, DirType, Phases, Statuses, Finals, RowStates
<1>6. CASE RunCase
  BY <1>6, TCase
<1>7. CASE MergeCases
  BY <1>7, TMerge
<1>8. CASE CheckMissing
  BY <1>8 DEF OutcomeTypes, Ours, CheckMissing, Ready, Raise, Nothing, shop, NoteType,
     MessageKinds, DirType, Phases, Statuses, Finals, RowStates
<1>9. CASE FinishState
  BY <1>9, TMerge
<1>10. CASE Record
  BY <1>10, TRecord
<1>11. CASE CloseState
  BY <1>11, TClose
<1>12. CASE ExitRun
  BY <1>12 DEF OutcomeTypes, Ours, ExitRun, Ready, Nothing, shop, NoteType, MessageKinds, DirType,
     Phases, Statuses, Finals, RowStates
<1>13. CASE Stop
  BY <1>13, TRecord
<1>14. CASE Intrude
  BY <1>14, TMerge
<1>15. CASE Inspect
  BY <1>15 DEF OutcomeTypes, Ours, Inspect, run, Belongs, Verdict, NoteType, MessageKinds,
     DirType, Phases, Statuses, Finals, RowStates
<1>16. CASE UNCHANGED outcomeVars
  BY <1>16 DEF outcomeVars, run, shop, OutcomeTypes, Ours, NoteType, MessageKinds, DirType,
     Phases, Statuses, Finals, RowStates
<1> QED
  BY <1>1, <1>2, <1>3, <1>4, <1>5, <1>6, <1>7, <1>8, <1>9, <1>10, <1>11, <1>12, <1>13, <1>14,
     <1>15, <1>16 DEF OutcomeNext

LEMMA ProgressedStep ==
  OutcomeTypes /\ Progressed /\ Ours /\ [OutcomeNext]_outcomeVars => Progressed'
<1> SUFFICES ASSUME OutcomeTypes /\ Progressed /\ Ours, [OutcomeNext]_outcomeVars PROVE Progressed'
  OBVIOUS
<1> USE OutcomeAssumption
<1>1. CASE Post
  BY <1>1 DEF OutcomeTypes, Progressed, Ours, Post, Nothing, Upset, shop, Recorded, DirType,
     Phases, Planned, NoteType
<1>2. CASE RunFails
  BY <1>2 DEF OutcomeTypes, Progressed, Ours, RunFails, Raise, Nothing, Upset, shop, Recorded,
     DirType, Phases, Planned, NoteType
<1>3. CASE Begin
  BY <1>3 DEF OutcomeTypes, Progressed, Ours, Begin, Ready, Tell, Note, Nothing, shop,
     Recorded, DirType, Phases, Planned, NoteType
<1>4. CASE OpenState
  BY <1>4 DEF OutcomeTypes, Progressed, Ours, OpenState, Ready, Nothing, shop, Attempt,
     Recorded, DirType, Phases, Planned, NoteType
<1>5. CASE Profile
  BY <1>5, PProfile
<1>6. CASE RunCase
  BY <1>6, PCase
<1>7. CASE MergeCases
  BY <1>7 DEF OutcomeTypes, Progressed, Ours, MergeCases, Ready, Nothing, shop, Mine, Recorded,
     DirType, Phases, Planned, NoteType
<1>8. CASE CheckMissing
  BY <1>8 DEF OutcomeTypes, Progressed, Ours, CheckMissing, Ready, Raise, Nothing, shop,
     Recorded, DirType, Phases, Planned, NoteType
<1>9. CASE FinishState
  BY <1>9 DEF OutcomeTypes, Progressed, Ours, FinishState, Ready, Nothing, shop, Recorded,
     DirType, Phases, Planned, NoteType
<1>10. CASE Record
  BY <1>10 DEF OutcomeTypes, Progressed, Ours, Record, Ready, Nothing, Upset, shop,
     CompletionStatus, HasErrors, Recorded, DirType, Phases, Planned, NoteType
<1>11. CASE CloseState
  BY <1>11 DEF OutcomeTypes, Progressed, Ours, CloseState, Ready, Tell, Note, Nothing, Upset,
     shop, Recorded, DirType, Phases, Planned, NoteType
<1>12. CASE ExitRun
  BY <1>12 DEF OutcomeTypes, Progressed, Ours, ExitRun, Ready, Nothing, shop, Recorded, DirType,
     Phases, Planned, NoteType
<1>13. CASE Stop
  BY <1>13 DEF OutcomeTypes, Progressed, Ours, Stop, Raise, Nothing, Upset, Recorded, DirType,
     Phases, Planned, NoteType
<1>14. CASE Intrude
  BY <1>14 DEF OutcomeTypes, Progressed, Ours, Intrude, Upset, shop, Attempt, Recorded,
     DirType, Phases, Planned, NoteType
<1>15. CASE Inspect
  BY <1>15 DEF OutcomeTypes, Progressed, Ours, Inspect, run, Belongs, Verdict, Recorded,
     DirType, Phases, Planned, NoteType
<1>16. CASE UNCHANGED outcomeVars
  BY <1>16 DEF outcomeVars, run, shop, OutcomeTypes, Progressed, Ours, Recorded, DirType,
     Phases, Planned, NoteType
<1> QED
  BY <1>1, <1>2, <1>3, <1>4, <1>5, <1>6, <1>7, <1>8, <1>9, <1>10, <1>11, <1>12, <1>13, <1>14,
     <1>15, <1>16 DEF OutcomeNext

LEMMA OursStep ==
  OutcomeTypes /\ Progressed /\ Ours /\ [OutcomeNext]_outcomeVars => Ours'
<1> SUFFICES ASSUME OutcomeTypes /\ Progressed /\ Ours, [OutcomeNext]_outcomeVars PROVE Ours'
  OBVIOUS
<1> USE OutcomeAssumption
<1>1. CASE Post
  BY <1>1 DEF OutcomeTypes, Progressed, Ours, Post, Nothing, Upset, shop, DirType, Planned
<1>2. CASE RunFails
  BY <1>2 DEF OutcomeTypes, Progressed, Ours, RunFails, Raise, Nothing, Upset, shop, DirType,
     Planned
<1>3. CASE Begin
  BY <1>3 DEF OutcomeTypes, Progressed, Ours, Begin, Ready, Tell, Note, Nothing, shop, DirType,
     Planned
<1>4. CASE OpenState
  BY <1>4 DEF OutcomeTypes, Progressed, Ours, OpenState, Ready, Nothing, shop, Attempt,
     DirType, Planned
<1>5. CASE Profile
  BY <1>5 DEF OutcomeTypes, Progressed, Ours, Profile, Ready, Tell, Note, Nothing, Upset, shop,
     StageStatus, DirType, Planned
<1>6. CASE RunCase
  BY <1>6, OCase
<1>7. CASE MergeCases
  BY <1>7 DEF OutcomeTypes, Progressed, Ours, MergeCases, Ready, Nothing, shop, Mine, DirType,
     Planned
<1>8. CASE CheckMissing
  BY <1>8 DEF OutcomeTypes, Progressed, Ours, CheckMissing, Ready, Raise, Nothing, shop,
     DirType, Planned
<1>9. CASE FinishState
  BY <1>9 DEF OutcomeTypes, Progressed, Ours, FinishState, Ready, Nothing, shop, DirType,
     Planned
<1>10. CASE Record
  BY <1>10 DEF OutcomeTypes, Progressed, Ours, Record, Ready, Nothing, Upset, shop,
     CompletionStatus, HasErrors, DirType, Planned
<1>11. CASE CloseState
  BY <1>11, OClose
<1>12. CASE ExitRun
  BY <1>12 DEF OutcomeTypes, Progressed, Ours, ExitRun, Ready, Nothing, shop, DirType, Planned
<1>13. CASE Stop
  BY <1>13 DEF OutcomeTypes, Progressed, Ours, Stop, Raise, Nothing, Upset, DirType, Planned
<1>14. CASE Intrude
  BY <1>14 DEF OutcomeTypes, Progressed, Ours, Intrude, Upset, shop, Attempt, DirType, Planned
<1>15. CASE Inspect
  BY <1>15 DEF OutcomeTypes, Progressed, Ours, Inspect, run, Belongs, Verdict, DirType, Planned
<1>16. CASE UNCHANGED outcomeVars
  BY <1>16 DEF outcomeVars, run, shop, OutcomeTypes, Progressed, Ours, DirType, Planned
<1> QED
  BY <1>1, <1>2, <1>3, <1>4, <1>5, <1>6, <1>7, <1>8, <1>9, <1>10, <1>11, <1>12, <1>13, <1>14,
     <1>15, <1>16 DEF OutcomeNext

LEMMA LastWordStep ==
  OutcomeTypes /\ Progressed /\ LastWord /\ [OutcomeNext]_outcomeVars => LastWord'
<1> SUFFICES ASSUME OutcomeTypes /\ Progressed /\ LastWord, [OutcomeNext]_outcomeVars PROVE LastWord'
  OBVIOUS
<1> USE OutcomeAssumption
<1>1. CASE Post
  BY <1>1 DEF OutcomeTypes, Progressed, LastWord, Post, Nothing, Upset, shop, HasErrors,
     DirType, Phases, Finals, Planned
<1>2. CASE RunFails
  BY <1>2 DEF OutcomeTypes, Progressed, LastWord, RunFails, Raise, Nothing, Upset, shop,
     HasErrors, DirType, Phases, Finals, Planned
<1>3. CASE Begin
  BY <1>3 DEF OutcomeTypes, Progressed, LastWord, Begin, Ready, Tell, Note, Nothing, shop,
     HasErrors, DirType, Phases, Finals, Planned
<1>4. CASE OpenState
  BY <1>4 DEF OutcomeTypes, Progressed, LastWord, OpenState, Ready, Nothing, shop, Attempt,
     HasErrors, DirType, Phases, Finals, Planned
<1>5. CASE Profile
  BY <1>5 DEF OutcomeTypes, Progressed, LastWord, Profile, Ready, Tell, Note, Nothing, Upset,
     shop, StageStatus, HasErrors, DirType, Phases, Finals, Planned
<1>6. CASE RunCase
  BY <1>6 DEF OutcomeTypes, Progressed, LastWord, RunCase, Ready, Tell, Note, Nothing, shop,
     Mine, Planned, HasErrors, DirType, Phases, Finals
<1>7. CASE MergeCases
  BY <1>7 DEF OutcomeTypes, Progressed, LastWord, MergeCases, Ready, Nothing, shop, Mine, HasErrors,
     DirType, Phases, Finals, Planned
<1>8. CASE CheckMissing
  BY <1>8 DEF OutcomeTypes, Progressed, LastWord, CheckMissing, Ready, Raise, Nothing, shop,
     HasErrors, DirType, Phases, Finals, Planned
<1>9. CASE FinishState
  BY <1>9 DEF OutcomeTypes, Progressed, LastWord, FinishState, Ready, Nothing, shop, HasErrors,
     DirType, Phases, Finals, Planned
<1>10. CASE Record
  BY <1>10 DEF OutcomeTypes, Progressed, LastWord, Record, Ready, Nothing, Upset, shop,
     CompletionStatus, HasErrors, DirType, Phases, Finals, Planned
<1>11. CASE CloseState
  BY <1>11 DEF OutcomeTypes, Progressed, LastWord, CloseState, Ready, Tell, Note, Nothing,
     Upset, shop, HasErrors, DirType, Phases, Finals, Planned
<1>12. CASE ExitRun
  BY <1>12 DEF OutcomeTypes, Progressed, LastWord, ExitRun, Ready, Nothing, shop, HasErrors,
     DirType, Phases, Finals, Planned
<1>13. CASE Stop
  BY <1>13 DEF OutcomeTypes, Progressed, LastWord, Stop, Raise, Nothing, Upset, HasErrors,
     DirType, Phases, Finals, Planned
<1>14. CASE Intrude
  BY <1>14 DEF OutcomeTypes, Progressed, LastWord, Intrude, Upset, shop, Attempt, HasErrors,
     DirType, Phases, Finals, Planned
<1>15. CASE Inspect
  BY <1>15 DEF OutcomeTypes, Progressed, LastWord, Inspect, run, Belongs, Verdict, HasErrors,
     DirType, Phases, Finals, Planned
<1>16. CASE UNCHANGED outcomeVars
  BY <1>16 DEF outcomeVars, run, shop, OutcomeTypes, Progressed, LastWord, HasErrors, DirType,
     Phases, Finals, Planned
<1> QED
  BY <1>1, <1>2, <1>3, <1>4, <1>5, <1>6, <1>7, <1>8, <1>9, <1>10, <1>11, <1>12, <1>13, <1>14,
     <1>15, <1>16 DEF OutcomeNext

LEMMA LastMessageStep ==
  OutcomeTypes /\ Progressed /\ LastWord /\ LastMessage /\ [OutcomeNext]_outcomeVars => LastMessage'
<1> SUFFICES ASSUME OutcomeTypes /\ Progressed /\ LastWord /\ LastMessage, [OutcomeNext]_outcomeVars PROVE LastMessage'
  OBVIOUS
<1> USE OutcomeAssumption
<1>1. CASE Post
  BY <1>1, MPost
<1>2. CASE RunFails
  BY <1>2 DEF OutcomeTypes, Progressed, LastWord, LastMessage, RunFails, Raise, Nothing, Upset,
     shop, NoteType, MessageKinds, Finals, Phases
<1>3. CASE Begin
  BY <1>3 DEF OutcomeTypes, Progressed, LastWord, LastMessage, Begin, Ready, Tell, Note,
     Nothing, shop, NoteType, MessageKinds, Finals, Phases
<1>4. CASE OpenState
  BY <1>4 DEF OutcomeTypes, Progressed, LastWord, LastMessage, OpenState, Ready, Nothing, shop,
     Attempt, NoteType, MessageKinds, Finals, Phases
<1>5. CASE Profile
  BY <1>5 DEF OutcomeTypes, Progressed, LastWord, LastMessage, Profile, Ready, Tell, Note,
     Nothing, Upset, shop, StageStatus, NoteType, MessageKinds, Finals, Phases
<1>6. CASE RunCase
  BY <1>6 DEF OutcomeTypes, Progressed, LastWord, LastMessage, RunCase, Ready, Tell, Note,
     Nothing, shop, Mine, Planned, NoteType, MessageKinds, Finals, Phases
<1>7. CASE MergeCases
  BY <1>7 DEF OutcomeTypes, Progressed, LastWord, LastMessage, MergeCases, Ready, Nothing, shop,
     Mine, NoteType, MessageKinds, Finals, Phases
<1>8. CASE CheckMissing
  BY <1>8 DEF OutcomeTypes, Progressed, LastWord, LastMessage, CheckMissing, Ready, Raise,
     Nothing, shop, NoteType, MessageKinds, Finals, Phases
<1>9. CASE FinishState
  BY <1>9 DEF OutcomeTypes, Progressed, LastWord, LastMessage, FinishState, Ready, Nothing,
     shop, NoteType, MessageKinds, Finals, Phases
<1>10. CASE Record
  BY <1>10 DEF OutcomeTypes, Progressed, LastWord, LastMessage, Record, Ready, Nothing, Upset,
     shop, CompletionStatus, HasErrors, NoteType, MessageKinds, Finals, Phases
<1>11. CASE CloseState
  BY <1>11 DEF OutcomeTypes, Progressed, LastWord, LastMessage, CloseState, Ready, Tell, Note,
     Nothing, Upset, shop, NoteType, MessageKinds, Finals, Phases
<1>12. CASE ExitRun
  BY <1>12 DEF OutcomeTypes, Progressed, LastWord, LastMessage, ExitRun, Ready, Nothing, shop,
     NoteType, MessageKinds, Finals, Phases
<1>13. CASE Stop
  BY <1>13 DEF OutcomeTypes, Progressed, LastWord, LastMessage, Stop, Raise, Nothing, Upset,
     NoteType, MessageKinds, Finals, Phases
<1>14. CASE Intrude
  BY <1>14 DEF OutcomeTypes, Progressed, LastWord, LastMessage, Intrude, Upset, shop, Attempt,
     NoteType, MessageKinds, Finals, Phases
<1>15. CASE Inspect
  BY <1>15 DEF OutcomeTypes, Progressed, LastWord, LastMessage, Inspect, run, Belongs, Verdict,
     NoteType, MessageKinds, Finals, Phases
<1>16. CASE UNCHANGED outcomeVars
  BY <1>16 DEF outcomeVars, run, shop, OutcomeTypes, Progressed, LastWord, LastMessage,
     NoteType, MessageKinds, Finals, Phases
<1> QED
  BY <1>1, <1>2, <1>3, <1>4, <1>5, <1>6, <1>7, <1>8, <1>9, <1>10, <1>11, <1>12, <1>13, <1>14,
     <1>15, <1>16 DEF OutcomeNext

LEMMA InOrderStep ==
  OutcomeTypes /\ OutcomeTypes' /\ Progressed /\ Ours /\ LastWord /\ InOrder /\ [OutcomeNext]_outcomeVars => InOrder'
<1> SUFFICES ASSUME OutcomeTypes /\ OutcomeTypes' /\ Progressed /\ Ours /\ LastWord /\ InOrder, [OutcomeNext]_outcomeVars PROVE InOrder'
  OBVIOUS
<1> USE OutcomeAssumption
<1>1. CASE Post
  BY <1>1, NPost
<1>2. CASE RunFails
  BY <1>2, NQuiet
<1>3. CASE Begin
  BY <1>3 DEF OutcomeTypes, Progressed, Ours, LastWord, InOrder, Begin, Ready, Tell, Note,
     Nothing, shop, NoteType, Order, Level, Phases, DirType, Planned, Finals, MessageKinds
<1>4. CASE OpenState
  BY <1>4, NQuiet
<1>5. CASE Profile
  BY <1>5, NProfile
<1>6. CASE RunCase
  BY <1>6, NCase
<1>7. CASE MergeCases
  BY <1>7, NQuiet
<1>8. CASE CheckMissing
  BY <1>8 DEF OutcomeTypes, Progressed, Ours, LastWord, InOrder, CheckMissing, Ready, Raise,
     Nothing, shop, NoteType, Order, Level, Phases, DirType, Planned, Finals, MessageKinds
<1>9. CASE FinishState
  BY <1>9 DEF OutcomeTypes, Progressed, Ours, LastWord, InOrder, FinishState, Ready, Nothing,
     shop, NoteType, Order, Level, Phases, DirType, Planned, Finals, MessageKinds
<1>10. CASE Record
  BY <1>10 DEF OutcomeTypes, Progressed, Ours, LastWord, InOrder, Record, Ready, Nothing,
     Upset, shop, CompletionStatus, HasErrors, NoteType, Order, Level, Phases, DirType,
     Planned, Finals, MessageKinds
<1>11. CASE CloseState
  BY <1>11, NClose
<1>12. CASE ExitRun
  BY <1>12 DEF OutcomeTypes, Progressed, Ours, LastWord, InOrder, ExitRun, Ready, Nothing, shop,
     NoteType, Order, Level, Phases, DirType, Planned, Finals, MessageKinds
<1>13. CASE Stop
  BY <1>13, NQuiet
<1>14. CASE Intrude
  BY <1>14 DEF OutcomeTypes, Progressed, Ours, LastWord, InOrder, Intrude, Upset, shop,
     Attempt, NoteType, Order, Level, Phases, DirType, Planned, Finals, MessageKinds
<1>15. CASE Inspect
  BY <1>15 DEF OutcomeTypes, Progressed, Ours, LastWord, InOrder, Inspect, run, Belongs,
     Verdict, NoteType, Order, Level, Phases, DirType, Planned, Finals, MessageKinds
<1>16. CASE UNCHANGED outcomeVars
  BY <1>16 DEF outcomeVars, run, shop, OutcomeTypes, Progressed, Ours, LastWord, InOrder,
     NoteType, Order, Level, Phases, DirType, Planned, Finals, MessageKinds
<1> QED
  BY <1>1, <1>2, <1>3, <1>4, <1>5, <1>6, <1>7, <1>8, <1>9, <1>10, <1>11, <1>12, <1>13, <1>14,
     <1>15, <1>16 DEF OutcomeNext

\* A last message that was heard is the last word.
LEMMA HeardWord ==
  ASSUME LastMessage, NEW last \in Finals, Heard(last) PROVE verdictMsg = last
BY DEF LastMessage, Heard

\* What the page judges, when it does, is true of the directory and agrees with
\* the chat.
LEMMA JudgedStep ==
  OutcomeTypes /\ Progressed /\ Ours /\ LastWord /\ LastMessage /\ Judged /\ [OutcomeNext]_outcomeVars => Judged'
<1> SUFFICES ASSUME OutcomeTypes, Progressed, Ours, LastWord, LastMessage, Judged, [OutcomeNext]_outcomeVars
             PROVE Judged'
  OBVIOUS
<1>1. CASE result.stage # "none"
  <2>1. at = "gone" /\ message = Nothing
    BY <1>1 DEF Judged, Progressed
  <2>2. UNCHANGED outcomeVars
    BY <1>1, <2>1 DEF OutcomeNext, Ready, Post, RunFails, Begin, OpenState, Profile, RunCase,
       MergeCases, CheckMissing,
       FinishState, Record, CloseState, ExitRun, Stop, Intrude, Inspect
  <2> QED
    BY <2>2 DEF Judged, VerdictIsTrue, OutcomesAgree, Heard, HasErrors, outcomeVars, run, shop
<1>2. CASE result.stage = "none" /\ result' = result
  BY <1>2 DEF Judged, VerdictIsTrue, OutcomesAgree
<1>3. CASE Inspect
  <2>1. at' = "gone" /\ UNCHANGED <<run, before, pid, stopped, broken>>
    BY <1>3 DEF Inspect, run
  <2>2. CASE ~Belongs
    <3>1. result'.mine = FALSE /\ result'.csv = FALSE /\ result'.new = 0 /\ result'.stage \in {"stopped", "failed"}
      BY <1>3, <2>2 DEF Inspect, Verdict
    <3> QED
      BY <2>1, <3>1 DEF Judged, VerdictIsTrue, OutcomesAgree
  <2>3. ASSUME Belongs, NEW valid \in BOOLEAN, NEW new, NEW csv, NEW complete, NEW partial,
               new = Cardinality({c \in Planned : dir.by[c] # before.by[c]}),
               csv = (dir.csv # before.csv), complete = (dir.status = "complete" /\ valid),
               partial = (HasErrors(dir) \/ HasWarnings(dir) \/ dir.gaps),
               result' = [stage |-> Verdict(complete, partial, csv, new), mine |-> TRUE, new |-> new, csv |-> csv]
        PROVE  Judged'
    <3>1. opened
      BY <2>3 DEF Belongs, Ours, OutcomeTypes
    <3>2. csv => dir.csv > Len(before.attempts)
      BY <2>3 DEF Ours
    <3>3. new > 0 => \E c \in Planned : dir.by[c] > Len(before.attempts)
      <4>1. CASE \A c \in Planned : dir.by[c] = before.by[c]
        <5>1. {c \in Planned : dir.by[c] # before.by[c]} = {}
          BY <4>1
        <5>2. new = 0
          BY <2>3, <5>1, FS_EmptySet, Zenon
        <5> QED
          BY <5>2
      <4>2. CASE \E c \in Planned : dir.by[c] # before.by[c]
        BY <4>2 DEF Ours
      <4> QED
        BY <4>1, <4>2
    <3>4. Verdict(complete, partial, csv, new) \in {"stopped", "partial", "done", "failed"}
      BY DEF Verdict
    <3>5. Verdict(complete, partial, csv, new) = "done" => complete /\ ~partial /\ rc = 0 /\ ~broken /\ ~stopped
      BY DEF Verdict
    <3>6. csv => Verdict(complete, partial, csv, new) # "failed"
      BY DEF Verdict
    <3>7. result'.stage = Verdict(complete, partial, csv, new) /\ result'.mine /\ result'.new = new /\ result'.csv = csv
      BY <2>3
    <3>8. result'.stage = "done" =>
             /\ result'.mine /\ rc = 0 /\ ~stopped /\ ~broken
             /\ dir.status = "complete" /\ ~dir.gaps /\ \A c \in Planned : dir.rows[c] = "ok"
      <4> SUFFICES ASSUME result'.stage = "done"
                   PROVE  /\ result'.mine /\ rc = 0 /\ ~stopped /\ ~broken
                          /\ dir.status = "complete" /\ ~dir.gaps /\ \A c \in Planned : dir.rows[c] = "ok"
        OBVIOUS
      <4>1. complete /\ ~partial /\ rc = 0 /\ ~broken /\ ~stopped
        BY <3>5, <3>7
      <4>2. dir.status = "complete" /\ ~HasErrors(dir) /\ ~HasWarnings(dir) /\ ~dir.gaps
        BY <2>3, <4>1
      <4>3. \A c \in Planned : dir.rows[c] \in RowStates /\ dir.rows[c] \notin {"none", "warn", "error"}
        BY <4>2 DEF HasErrors, HasWarnings, Progressed, Recorded, OutcomeTypes, DirType
      <4> QED
        BY <3>7, <4>1, <4>2, <4>3 DEF RowStates
    <3>9. result'.stage = "done" => ~Heard("failed") /\ ~Heard("cancelled") /\ ~Heard("partial")
      <4>1. Heard("failed") \/ Heard("cancelled") => rc = 1
        BY HeardWord DEF Finals, LastWord
      <4>2. Heard("partial") => \E c \in Planned : dir.rows[c] = "error"
        BY HeardWord DEF Finals, LastWord, HasErrors
      <4> QED
        BY <3>8, <4>1, <4>2
    <3>10. Heard("success") => result'.stage # "failed"
      <4>1. Heard("success") => dir.csv > Len(before.attempts)
        BY HeardWord DEF Finals, LastWord
      <4>2. dir.csv > Len(before.attempts) => dir.csv # before.csv
        BY DEF Ours, OutcomeTypes, DirType
      <4>3. dir.csv # before.csv => csv
        BY <2>3, Zenon
      <4> QED
        BY <3>6, <3>7, <4>1, <4>2, <4>3
    <3>11. VerdictIsTrue'
      BY <2>1, <3>1, <3>2, <3>3, <3>7, <3>8 DEF VerdictIsTrue, run
    <3>12. OutcomesAgree'
      BY <2>1, <3>9, <3>10 DEF OutcomesAgree, Heard, run
    <3>13. result'.stage # "none"
      BY <3>4, <3>7
    <3> QED
      BY <2>1, <3>11, <3>12, <3>13 DEF Judged
  <2>4. CASE Belongs
    BY <1>3, <2>3, <2>4 DEF Inspect
  <2> QED
    BY <2>2, <2>4
<1> QED
  BY <1>1, <1>2, <1>3 DEF OutcomeNext, Post, RunFails, Begin, OpenState, Profile, RunCase,
     MergeCases, CheckMissing,
     FinishState, Record, CloseState, ExitRun, Stop, Intrude, outcomeVars, shop

\* A run may start in an empty directory or in one that an earlier run left.
LEMMA OutcomeStart == OutcomeInit => OutcomeInv
<1> SUFFICES ASSUME OutcomeInit PROVE OutcomeInv
  OBVIOUS
<1>1. EmptyDir \in DirType
  BY DEF EmptyDir, DirType, Statuses, RowStates
<1>2. /\ dir \in DirType /\ dir.csv <= Len(dir.attempts) /\ (dir.status = "complete" => Recorded)
  <2>1. CASE dir = EmptyDir
    BY <1>1, <2>1 DEF EmptyDir, DirType
  <2>2. ASSUME NEW rows \in [Planned -> {"none", "ok", "error"}], NEW ended \in BOOLEAN, NEW gaps \in BOOLEAN,
               dir = [status |-> IF \A c \in Planned : rows[c] # "none" THEN "complete" ELSE "failed",
                      attempts |-> <<Attempt(1, ended)>>, rows |-> rows,
                      by |-> [c \in Planned |-> IF rows[c] = "none" THEN 0 ELSE 1],
                      csv |-> IF \A c \in Planned : rows[c] # "none" THEN 1 ELSE 0,
                      gaps |-> gaps /\ \A c \in Planned : rows[c] # "none"]
        PROVE /\ dir \in DirType /\ dir.csv <= Len(dir.attempts) /\ (dir.status = "complete" => Recorded)
    <3>1. Attempt(1, ended) \in AttemptType
      BY DEF Attempt, AttemptType
    <3>2. <<Attempt(1, ended)>> \in Seq(AttemptType) /\ Len(<<Attempt(1, ended)>>) = 1
      BY <3>1
    <3>3. rows \in [Planned -> RowStates]
      BY DEF RowStates
    <3>4. (gaps /\ \A c \in Planned : rows[c] # "none") \in BOOLEAN
      OBVIOUS
    <3>5. /\ dir.status \in Statuses /\ dir.attempts \in Seq(AttemptType) /\ dir.rows \in [Planned -> RowStates]
          /\ dir.by \in [Planned -> Nat] /\ dir.csv \in Nat /\ dir.gaps \in BOOLEAN
      BY <2>2, <3>2, <3>3, <3>4 DEF Statuses
    <3>6. dir \in DirType
      BY <2>2, <3>5 DEF DirType
    <3> QED
      BY <2>2, <3>2, <3>6 DEF Recorded
  <2> QED
    BY <2>1, <2>2 DEF OutcomeInit, Histories
<1>3. chat \in Seq(NoteType) /\ Len(chat) = 0 /\ message \in NoteType /\ message.kind = "none"
  BY NotesTyped DEF OutcomeInit, Nothing
<1>4. OutcomeTypes
  BY <1>2, <1>3, OutcomeAssumption DEF OutcomeInit, OutcomeTypes, Phases, Finals
<1>5. Progressed
  BY <1>2 DEF OutcomeInit, Progressed
<1>6. Ours
  BY <1>2 DEF OutcomeInit, Ours, DirType
<1>7. LastWord /\ LastMessage
  BY <1>3 DEF OutcomeInit, LastWord, LastMessage, Finals
<1>8. InOrder
  BY <1>3 DEF OutcomeInit, InOrder
<1>9. Judged
  BY DEF OutcomeInit, Judged, VerdictIsTrue, OutcomesAgree
<1> QED
  BY <1>4, <1>5, <1>6, <1>7, <1>8, <1>9 DEF OutcomeInv

\* The invariant is inductive,
LEMMA OutcomeStep == OutcomeInv /\ [OutcomeNext]_outcomeVars => OutcomeInv'
BY OutcomeTypesStep, ProgressedStep, OursStep, LastWordStep, LastMessageStep, InOrderStep,
   JudgedStep DEF OutcomeInv

\* holds of every run,
LEMMA OutcomeInvariant == OutcomeSpec => []OutcomeInv
<1> QED
  BY OutcomeStart, OutcomeStep, PTL DEF OutcomeSpec

\* and has the four properties in it.
LEMMA OutcomeGoals == OutcomeInv => FinalIsTrue /\ NewsIsInOrder /\ VerdictIsTrue /\ OutcomesAgree
<1> SUFFICES ASSUME OutcomeInv PROVE FinalIsTrue /\ NewsIsInOrder /\ VerdictIsTrue /\ OutcomesAgree
  OBVIOUS
<1>1. FinalIsTrue
  BY HeardWord DEF OutcomeInv, FinalIsTrue, LastWord, Finals
<1>2. NewsIsInOrder
  BY DEF OutcomeInv, NewsIsInOrder, InOrder
<1> QED
  BY <1>1, <1>2 DEF OutcomeInv, Judged

\* The last message of a run is true of what the run left: the notifier tells
\* success only of a complete run, and one outcome only, for every number of
\* cases, profilers, posts and faults.
THEOREM FinalWordsAreTrue == OutcomeSpec => []FinalIsTrue
BY OutcomeInvariant, OutcomeGoals, PTL

\* The messages of the notifier arrive in the order of the run, repeats and
\* lost answers included, and progress only of a case whose rows are recorded.
THEOREM MessagesComeInOrder == OutcomeSpec => []NewsIsInOrder
BY OutcomeInvariant, OutcomeGoals, PTL

\* The result page calls done only what its own process left complete and
\* without fault, and shows only rows and a CSV of that process.
THEOREM VerdictsAreTrue == OutcomeSpec => []VerdictIsTrue
BY OutcomeInvariant, OutcomeGoals, PTL

\* The chat and the result page never contradict one another about a run.
THEOREM ChatAndPageAgree == OutcomeSpec => []OutcomesAgree
BY OutcomeInvariant, OutcomeGoals, PTL

\* What is said of a run, in the chat and on the result page, is true, in order
\* and of one mind, for any cases, stages, posts, faults and earlier attempts.
THEOREM RunIsToldTruly == OutcomeSpec => []OutcomeIsTold
BY FinalWordsAreTrue, MessagesComeInOrder, VerdictsAreTrue, ChatAndPageAgree, PTL DEF OutcomeIsTold
-----------------------------------------------------------------------------
(* What RunEvents promises: the monitor page follows the command and stays *)
(* still while its client is measured.  st and ct are the forecast of what *)
(* the reader will know after each line still in the pipe.                 *)

EventKinds == CaseEvents \cup Tagged \cup Numbered \cup {"preparation", "failure", "matrix", "complete"}
PipeLine == [kind : EventKinds, item : 0..NumItems, no : Nat]
Openers == {"measurement_started", "asking"}
CallbackType == [lines : Seq(Nat), shown : TrackerType]

EventTypes ==
    /\ command \in {"run", "probe"} /\ item \in 0..NumItems /\ failing \in BOOLEAN
    /\ spoken \in Nat /\ alarm \in BOOLEAN /\ owed \subseteq 1..spoken
    /\ output \in Seq(PipeLine)
    /\ tracker \in TrackerType /\ continuation \in BOOLEAN /\ hidden \in BOOLEAN
    /\ deferred \in Seq(Nat) /\ held \in Seq(CallbackType)
    /\ reader \in {"reading", "ended"}
    /\ screen \in [shown : TrackerType, log : Seq(Nat)] /\ elapsed \in {0, 1}

\* What the tracker will be once it has read all there is, when the command c is
\* in phase ph of its case or memory i: the case the command is in, active in a
\* window, and the count of a probe.
Expected(c, ph, i, e) ==
    IF c = "run"
    THEN /\ ph \in {"prepare", "next", "opening", "session", "capture", "boundary", "done", "merged"} => ~e.active
         /\ ph \in {"session", "capture", "boundary", "client", "ended", "reported", "classify", "stop", "finish",
                    "abandoned"} => e.id = i
         /\ ph = "client" => e.active
    ELSE /\ ph = "client" => e.active
         /\ ph \in {"prepare", "next"} => ~e.active
         /\ ph = "prepare" => i = 0
         /\ ph = "next" => e.done = i /\ e.current = i
         /\ ph \in {"session", "client", "tried"} => i > 0 /\ e.current = i /\ e.done = i - 1
Due(e) == Expected(command, phase, item, e)

\* What reading a line of this kind, about case or memory n, makes of e.
Effect(e, what, n, u) ==
    IF command = "run"
    THEN /\ what \notin CaseEvents \cup {"failure"} => u.active = e.active /\ u.id = e.id
         /\ what = "failure" => ~u.active /\ u.id = e.id
         /\ what = "case_started" => ~u.active /\ u.id = n
         /\ what = "measurement_started" /\ e.id = n => u.active /\ u.id = n
         /\ what = "measurement_stopped" /\ e.id = n => ~u.active /\ u.id = n
         /\ what = "case_finished" /\ e.id = n => ~u.active
    ELSE /\ what = "scan" => ~u.active /\ u.done = 0 /\ u.current = 0
         /\ what = "try" => ~u.active /\ u.current = n /\ u.done = Larger(e.done, n - 1)
         /\ what = "asking" => u.active /\ u.current = e.current /\ u.done = e.done
         /\ what = "memory" => ~u.active /\ u.current = e.current /\ u.done = Larger(e.done, e.current)
         /\ what \in {"result", "probe_error"} => ~u.active
         /\ what \notin {"scan", "try", "asking", "memory", "result", "probe_error"} => u = e

\* A command prints such a line on its way from one phase to another.
Prints(what) == what \in EventKinds /\ (command # "run" => what \notin CaseEvents \cup {"failure", "preparation"})
Leads(from, i, what, to, n) ==
    /\ Prints(what)
    /\ \A e, u \in TrackerType : Expected(command, from, i, e) =>
          ~Rejects(e, what) /\ (Effect(e, what, n, u) => Expected(command, to, n, u))

\* st and ct follow the tracker and the continuation through the lines in the pipe.
Follows(st, ct) ==
    /\ st \in [0..Len(output) -> TrackerType] /\ ct \in [0..Len(output) -> BOOLEAN]
    /\ st[0] = tracker /\ ct[0] = continuation
    /\ \A i \in 1..Len(output) : /\ st[i] = Feed(st[i - 1], output[i]) /\ ~Rejects(st[i - 1], output[i].kind)
                                 /\ ct[i] = Important(ct[i - 1], output[i].kind)
    /\ \A i \in 0..Len(output) : st[Len(output)].active
          => st[i].active \/ \E j \in (i + 1)..Len(output) : output[j].kind \in Openers
    /\ ct[Len(output)] = alarm /\ \A i \in 1..Len(output) : output[i].no \in owed => ct[i]
    /\ Due(st[Len(output)])

\* The screen shows what the reader knew when it last had something to show.
Agrees(shown) == shown.active = tracker.active /\ (~tracker.active => shown = tracker)
Shown ==
    /\ reader = "reading" => IF held = <<>> THEN Agrees(screen.shown) ELSE Agrees(held[Len(held)].shown)
    /\ reader = "reading" /\ held # <<>> /\ tracker.active => ~screen.shown.active /\ Len(held) = 1
    /\ reader = "ended" => phase = "gone" /\ output = <<>>

\* What is held back, and a last callback, come to the screen.
Emits(lines, t) == held' = Append(Flush, Callback(lines, t)) /\ deferred' = <<>> /\ hidden' = FALSE

\* The numbered lines, from the log to the pipe.
Below(s, n) == \A m \in Numbers(s) : m < n
Bounded ==
    /\ \A m \in Numbers(screen.log) \cup Numbers(deferred) : m \in 1..spoken
    /\ \A k \in 1..Len(held) : \A m \in Numbers(held[k].lines) : m \in 1..spoken
    /\ \A i \in 1..Len(output) : output[i].no <= spoken
Queued ==
    \A i \in 1..Len(output) : output[i].no # 0 =>
        /\ Below(screen.log, output[i].no) /\ Below(deferred, output[i].no)
        /\ \A k \in 1..Len(held) : Below(held[k].lines, output[i].no)
        /\ \A j \in 1..Len(output) : i < j /\ output[j].no # 0 => output[i].no < output[j].no
InLine ==
    /\ Rising(screen.log) /\ Rising(deferred) /\ Before(screen.log, deferred)
    /\ \A k \in 1..Len(held) :
          /\ Rising(held[k].lines) /\ Before(screen.log, held[k].lines) /\ Before(held[k].lines, deferred)
          /\ \A l \in 1..Len(held) : k < l => Before(held[k].lines, held[l].lines)
Found(m) ==
    \/ m \in Numbers(screen.log) \cup Numbers(deferred)
    \/ \E k \in 1..Len(held) : m \in Numbers(held[k].lines)
    \/ \E i \in 1..Len(output) : output[i].no = m
Ordered ==
    /\ Bounded /\ Queued /\ InLine
    /\ \A m \in owed : Found(m)
    /\ ~tracker.active \/ reader = "ended" => deferred = <<>> /\ ~hidden

EventInv == EventTypes /\ (\E st, ct : Follows(st, ct)) /\ Shown /\ Ordered

\* The larger of two numbers.
LEMMA Larges == \A a, b \in Nat : Larger(a, b) \in Nat /\ Larger(a, b) >= a /\ Larger(a, b) >= b /\ Larger(a, b) \in {a, b}
BY DEF Larger

\* What an event of the case makes of the tracker,
LEMMA EventFed ==
  ASSUME NEW t \in TrackerType, NEW id \in 0..NumItems, NEW what \in CaseEvents
  PROVE  /\ FeedEvent(t, what, id) \in TrackerType
         /\ what = "case_started" => FeedEvent(t, what, id).id = id /\ ~FeedEvent(t, what, id).active
         /\ what # "case_started" /\ id # t.id => FeedEvent(t, what, id) = t
         /\ what = "measurement_started" /\ id = t.id
               => FeedEvent(t, what, id).id = id /\ FeedEvent(t, what, id).active
         /\ what = "measurement_stopped" /\ id = t.id
               => FeedEvent(t, what, id).id = id /\ ~FeedEvent(t, what, id).active
         /\ what = "case_finished" /\ id = t.id => ~FeedEvent(t, what, id).active
<1>1. CASE what = "case_started"
  BY <1>1 DEF FeedEvent, TrackerType, Stages
<1>2. CASE what # "case_started" /\ id # t.id
  BY <1>2 DEF FeedEvent
<1>3. CASE what = "measurement_started" /\ id = t.id
  BY <1>3 DEF FeedEvent, TrackerType, Stages
<1>4. CASE what = "measurement_stopped" /\ id = t.id
  BY <1>4 DEF FeedEvent, TrackerType, Stages
<1>5. CASE what = "case_finished" /\ id = t.id
  <2>1. Larger(t.done, t.current) \in Nat
    BY Larges DEF TrackerType
  <2>2. 0 \in 0..NumItems
    BY EventsAssumption
  <2>3. FeedEvent(t, what, id)
           = [t EXCEPT !.stage = "done", !.done = Larger(t.done, t.current), !.active = FALSE, !.id = 0]
    BY <1>5 DEF FeedEvent
  <2> DEFINE d == Larger(t.done, t.current)
  <2> HIDE DEF d
  <2>4. FeedEvent(t, what, id) = [t EXCEPT !.stage = "done", !.done = d, !.active = FALSE, !.id = 0] /\ d \in Nat
    BY <2>1, <2>3 DEF d
  <2>5. FeedEvent(t, what, id) \in TrackerType /\ ~FeedEvent(t, what, id).active
    BY <2>2, <2>4 DEF TrackerType, Stages
  <2> QED
    BY <1>5, <2>5
<1> QED
  BY <1>1, <1>2, <1>3, <1>4, <1>5 DEF CaseEvents

\* a line of a run, which leaves a case and its window alone,
LEMMA RunRuled ==
  ASSUME NEW t \in TrackerType, NEW what
  PROVE  /\ Structured(t, RunRule(t, what)) \in TrackerType
         /\ Structured(t, RunRule(t, what)).active = t.active
         /\ Structured(t, RunRule(t, what)).id = t.id
<1>1. RunRule(t, what) \in TrackerType /\ RunRule(t, what).id = t.id
  <2>1. NumItems \in Nat /\ Larger(t.done, t.current) \in Nat /\ t.total \in Nat /\ t.done \in Nat
    BY Larges, EventsAssumption DEF TrackerType
  <2>2. CASE what = "matrix"
    BY <2>1, <2>2 DEF RunRule, TrackerType, Stages
  <2>3. CASE what \in {"ready", "running", "stopping", "merge"}
    BY <2>3 DEF RunRule, TrackerType, Stages
  <2>4. CASE what = "done"
    BY <2>1, <2>4 DEF RunRule, TrackerType, Stages
  <2>5. CASE what = "complete"
    BY <2>1, <2>5 DEF RunRule, TrackerType, Stages
  <2>6. CASE what \notin {"matrix", "ready", "running", "stopping", "done", "merge", "complete"}
    BY <2>6 DEF RunRule
  <2> QED
    BY <2>2, <2>3, <2>4, <2>5, <2>6
<1> DEFINE u == RunRule(t, what)
<1> HIDE DEF u
<1>2. u \in TrackerType /\ u.id = t.id
  BY <1>1 DEF u
<1>3. Structured(t, u) \in TrackerType /\ Structured(t, u).active = t.active /\ Structured(t, u).id = t.id
  BY <1>2 DEF Structured, TrackerType, Stages
<1> QED
  BY <1>3 DEF u

\* a line of a probe,
LEMMA ProbeRuled ==
  ASSUME NEW t \in TrackerType, NEW what, NEW n \in 0..NumItems
  PROVE  /\ ProbeRule(t, what, n) \in TrackerType
         /\ what = "scan" => /\ ~ProbeRule(t, what, n).active /\ ProbeRule(t, what, n).done = 0
                             /\ ProbeRule(t, what, n).current = 0
         /\ what = "try" => /\ ~ProbeRule(t, what, n).active /\ ProbeRule(t, what, n).current = n
                            /\ ProbeRule(t, what, n).done = Larger(t.done, n - 1)
         /\ what = "asking" => /\ ProbeRule(t, what, n).active /\ ProbeRule(t, what, n).current = t.current
                               /\ ProbeRule(t, what, n).done = t.done
         /\ what = "memory" => /\ ~ProbeRule(t, what, n).active /\ ProbeRule(t, what, n).current = t.current
                               /\ ProbeRule(t, what, n).done = Larger(t.done, t.current)
         /\ what \in {"result", "probe_error"} => ~ProbeRule(t, what, n).active
         /\ what \notin {"scan", "try", "asking", "memory", "result", "probe_error"} => ProbeRule(t, what, n) = t
<1>1. NumItems \in Nat /\ Larger(t.done, t.current) \in Nat /\ Larger(1, t.current) \in Nat /\ n \in Nat
      /\ Larger(t.done, n - 1) \in Nat
  <2>1. NumItems \in Nat /\ t.done \in Nat /\ t.current \in Nat /\ n \in Nat
    BY EventsAssumption DEF TrackerType
  <2> QED
    BY <2>1 DEF Larger
<1>2. CASE what = "scan"
  BY <1>1, <1>2 DEF ProbeRule, TrackerType, Stages
<1>3. CASE what = "try"
  BY <1>1, <1>3 DEF ProbeRule, TrackerType, Stages
<1>4. CASE what = "asking"
  BY <1>4 DEF ProbeRule, TrackerType, Stages
<1>5. CASE what = "memory"
  BY <1>1, <1>5 DEF ProbeRule, TrackerType, Stages
<1>6. CASE what = "result"
  BY <1>1, <1>6 DEF ProbeRule, TrackerType, Stages
<1>7. CASE what = "probe_error"
  BY <1>7 DEF ProbeRule, TrackerType, Stages
<1>8. CASE what \notin {"scan", "try", "asking", "memory", "result", "probe_error"}
  BY <1>8 DEF ProbeRule
<1> QED
  BY <1>2, <1>3, <1>4, <1>5, <1>6, <1>7, <1>8

\* and any line the tracker accepts: only the start of a window makes it
\* active.
LEMMA Fed ==
  ASSUME NEW t \in TrackerType, NEW x \in PipeLine, ~Rejects(t, x.kind)
  PROVE  /\ Feed(t, x) \in TrackerType
         /\ Feed(t, x).active => t.active \/ x.kind \in Openers
         /\ command = "run" =>
               /\ x.kind \notin CaseEvents \cup {"failure"} => Feed(t, x).active = t.active /\ Feed(t, x).id = t.id
               /\ x.kind = "failure" => ~Feed(t, x).active /\ Feed(t, x).id = t.id
         /\ x.kind \in CaseEvents => Feed(t, x) = FeedEvent(t, x.kind, x.item)
         /\ command # "run" /\ x.kind \notin CaseEvents \cup {"failure", "preparation"}
               => Feed(t, x) = ProbeRule(t, x.kind, x.item)
<1>1. x.item \in 0..NumItems /\ x.kind \in EventKinds
  BY DEF PipeLine
<1>2. CASE x.kind = "failure"
  <2>1. Feed(t, x) = [t EXCEPT !.stage = "failed", !.active = FALSE]
    BY <1>2 DEF Feed, CaseEvents
  <2>2. Feed(t, x) \in TrackerType /\ ~Feed(t, x).active /\ Feed(t, x).id = t.id
    BY <2>1 DEF TrackerType, Stages
  <2> QED
    BY <1>2, <2>2 DEF CaseEvents
<1>3. CASE x.kind = "preparation"
  <2>1. Feed(t, x) = [t EXCEPT !.stage = "preparing"]
    BY <1>3 DEF Feed, CaseEvents
  <2>2. Feed(t, x) \in TrackerType /\ Feed(t, x).active = t.active /\ Feed(t, x).id = t.id
    BY <2>1 DEF TrackerType, Stages
  <2> QED
    BY <1>3, <2>2 DEF CaseEvents
<1>4. CASE x.kind \in CaseEvents
  <2>1. Feed(t, x) = FeedEvent(t, x.kind, x.item)
    BY <1>4 DEF Feed
  <2>2. Feed(t, x) \in TrackerType
    BY <1>1, <1>4, <2>1, EventFed
  <2>3. Feed(t, x).active => t.active \/ x.kind \in Openers
    <3> DEFINE u == FeedEvent(t, x.kind, x.item)
    <3>1. /\ x.kind = "case_started" => ~u.active
          /\ x.kind # "case_started" /\ x.item # t.id => u = t
          /\ x.kind \in {"measurement_stopped", "case_finished"} /\ x.item = t.id => ~u.active
      BY <1>1, <1>4, EventFed
    <3> HIDE DEF u
    <3>2. u.active => t.active \/ x.kind \in Openers
      BY <1>4, <3>1 DEF CaseEvents, Openers
    <3> QED
      BY <2>1, <3>2 DEF u
  <2> QED
    BY <1>4, <2>1, <2>2, <2>3 DEF CaseEvents
<1>5. CASE x.kind \notin CaseEvents \cup {"failure", "preparation"} /\ command = "run"
  <2>1. Feed(t, x) = Structured(t, RunRule(t, x.kind))
    BY <1>5 DEF Feed
  <2> QED
    BY <1>5, <2>1, RunRuled
<1>6. CASE x.kind \notin CaseEvents \cup {"failure", "preparation"} /\ command # "run"
  <2>1. Feed(t, x) = ProbeRule(t, x.kind, x.item)
    BY <1>6 DEF Feed
  <2> QED
    BY <1>1, <1>6, <2>1, ProbeRuled DEF Openers
<1> QED
  BY <1>2, <1>3, <1>4, <1>5, <1>6

\* So every line has its effect.
LEMMA LineFed ==
  ASSUME NEW e \in TrackerType, NEW x \in PipeLine, ~Rejects(e, x.kind), Prints(x.kind)
  PROVE  Feed(e, x) \in TrackerType /\ Effect(e, x.kind, x.item, Feed(e, x))
<1>1. x.item \in 0..NumItems /\ x.kind \in EventKinds
  BY DEF PipeLine
<1> DEFINE u == Feed(e, x)
<1>2. CASE command = "run" /\ x.kind \in CaseEvents
  <2>1. /\ u = FeedEvent(e, x.kind, x.item)
        /\ x.kind = "case_started" => u.id = x.item /\ ~u.active
        /\ x.kind = "measurement_started" /\ x.item = e.id => u.id = x.item /\ u.active
        /\ x.kind = "measurement_stopped" /\ x.item = e.id => u.id = x.item /\ ~u.active
        /\ x.kind = "case_finished" /\ x.item = e.id => ~u.active
    BY <1>1, <1>2, Fed, EventFed
  <2>2. Effect(e, x.kind, x.item, u)
    <3> HIDE DEF u
    <3> QED
      BY <1>2, <2>1 DEF Effect, CaseEvents
  <2> QED
    BY <2>2, Fed
<1>3. CASE command = "run" /\ x.kind \notin CaseEvents
  <2>1. /\ x.kind # "failure" => u.active = e.active /\ u.id = e.id
        /\ x.kind = "failure" => ~u.active /\ u.id = e.id
    BY <1>3, Fed
  <2>2. Effect(e, x.kind, x.item, u)
    <3> HIDE DEF u
    <3> QED
      BY <1>3, <2>1 DEF Effect, CaseEvents
  <2> QED
    BY <2>2, Fed
<1>4. CASE command # "run"
  <2>1. u = ProbeRule(e, x.kind, x.item)
    BY <1>4, Fed DEF Prints
  <2>2. Effect(e, x.kind, x.item, ProbeRule(e, x.kind, x.item))
    BY <1>1, <1>4, ProbeRuled DEF Effect
  <2> QED
    BY <2>1, <2>2, Fed
<1> QED
  BY <1>2, <1>3, <1>4

\* The lines of a run on its way through its phases: the tracker that follows
\* them is where the run is, and rejects none,
LEMMA RunScript ==
  ASSUME command = "run", item \in 0..NumItems
  PROVE  /\ Leads("prepare", item, "preparation", "prepare", item) /\ Leads("prepare", item, "failure", "leaving", item)
         /\ Leads("prepare", item, "matrix", "next", item) /\ Leads("opening", item, "case_started", "session", item)
         /\ Leads("session", item, "ready", "capture", item)
         /\ \A to \in {"next", "leaving"} : Leads("session", item, "case_finished", to, item)
         /\ Leads("capture", item, "running", "boundary", item) /\ Leads("capture", item, "text", "stop", item)
         /\ Leads("boundary", item, "measurement_started", "client", item)
         /\ Leads("ended", item, "failure", "reported", item)
         /\ \A from \in {"ended", "reported"}, to \in {"stop", "classify"} :
               Leads(from, item, "measurement_stopped", to, item)
         /\ Leads("stop", item, "stopping", "finish", item)
         /\ \A to \in {"leaving", "done"} : Leads("finish", item, "case_finished", to, item)
         /\ Leads("done", item, "done", "next", item) /\ Leads("next", item, "merge", "merged", item)
         /\ Leads("merged", item, "complete", "leaving", item) /\ Leads("merged", item, "warn", "leaving", item)
         /\ Leads("abandoned", item, "case_finished", "leaving", item)
         /\ \A ph \in {"prepare", "session", "classify", "leaving", "client"}, what \in Numbered :
               Leads(ph, item, what, ph, item)
         /\ \A n \in 0..NumItems, to \in {"opening", "next"} : Leads("next", item, "case", to, n)
<1> USE DEF Leads, Prints, Expected, Effect, Rejects, EventKinds, CaseEvents, Tagged, Numbered
<1>1. /\ Leads("prepare", item, "preparation", "prepare", item) /\ Leads("prepare", item, "failure", "leaving", item)
      /\ Leads("prepare", item, "matrix", "next", item) /\ Leads("opening", item, "case_started", "session", item)
      /\ Leads("session", item, "ready", "capture", item)
  OBVIOUS
<1>2. /\ \A to \in {"next", "leaving"} : Leads("session", item, "case_finished", to, item)
      /\ Leads("capture", item, "running", "boundary", item) /\ Leads("capture", item, "text", "stop", item)
      /\ Leads("boundary", item, "measurement_started", "client", item)
      /\ Leads("ended", item, "failure", "reported", item)
  OBVIOUS
<1>3. /\ \A from \in {"ended", "reported"}, to \in {"stop", "classify"} :
            Leads(from, item, "measurement_stopped", to, item)
      /\ Leads("stop", item, "stopping", "finish", item)
      /\ \A to \in {"leaving", "done"} : Leads("finish", item, "case_finished", to, item)
  OBVIOUS
<1>4. /\ Leads("done", item, "done", "next", item) /\ Leads("next", item, "merge", "merged", item)
      /\ Leads("merged", item, "complete", "leaving", item) /\ Leads("merged", item, "warn", "leaving", item)
      /\ Leads("abandoned", item, "case_finished", "leaving", item)
  OBVIOUS
<1>5. \A ph \in {"prepare", "session", "classify", "leaving", "client"}, what \in Numbered :
         Leads(ph, item, what, ph, item)
  OBVIOUS
<1>6. \A n \in 0..NumItems, to \in {"opening", "next"} : Leads("next", item, "case", to, n)
  OBVIOUS
<1> QED
  BY <1>1, <1>2, <1>3, <1>4, <1>5, <1>6

\* and so for a probe.
LEMMA ProbeScript ==
  ASSUME command # "run", item \in 0..NumItems
  PROVE  /\ Leads("prepare", item, "scan", "next", item)
         /\ Leads("prepare", item, "probe_error", "leaving", item)
         /\ Leads("next", item, "try", "session", item + 1)
         /\ Leads("session", item, "asking", "client", item)
         /\ \A to \in {"result", "next"} : Leads("tried", item, "memory", to, item)
         /\ Leads("tried", item, "probe_error", "leaving", item)
         /\ \A to \in {"excuse", "summary"} : Leads("result", item, "result", to, item)
         /\ Leads("result", item, "probe_error", "leaving", item)
         /\ Leads("excuse", item, "probe_error", "summary", item)
         /\ Leads("summary", item, "summary", "leaving", item)
         /\ \A ph \in {"prepare", "session", "classify", "leaving"}, what \in Numbered :
               Leads(ph, item, what, ph, item)
<1> USE DEF Leads, Prints, Expected, Effect, Rejects, EventKinds, CaseEvents, Tagged, Numbered
<1>0. item \in Nat /\ \A e \in TrackerType : e.done \in Nat /\ e.current \in Nat
  BY EventsAssumption DEF TrackerType
<1>1. /\ Leads("prepare", item, "scan", "next", item)
      /\ Leads("prepare", item, "probe_error", "leaving", item)
  OBVIOUS
<1>2. Leads("next", item, "try", "session", item + 1)
  BY <1>0 DEF Larger
<1>3. Leads("session", item, "asking", "client", item)
  BY <1>0
<1>4. \A to \in {"result", "next"} : Leads("tried", item, "memory", to, item)
  BY <1>0 DEF Larger
<1>5. /\ Leads("tried", item, "probe_error", "leaving", item)
      /\ \A to \in {"excuse", "summary"} : Leads("result", item, "result", to, item)
      /\ Leads("result", item, "probe_error", "leaving", item)
      /\ Leads("excuse", item, "probe_error", "summary", item)
      /\ Leads("summary", item, "summary", "leaving", item)
  OBVIOUS
<1>6. \A ph \in {"prepare", "session", "classify", "leaving"}, what \in Numbered : Leads(ph, item, what, ph, item)
  OBVIOUS
<1> QED
  BY <1>1, <1>2, <1>3, <1>4, <1>5, <1>6

\* A step of the command that writes such a line.
Wrote(what, n) ==
    /\ Emit(what, n) /\ n \in 0..NumItems /\ item' = n /\ command' = command /\ Leads(phase, item, what, phase', n)
\* One that writes none.
Silent ==
    /\ UNCHANGED <<output, spoken, alarm, owed, command, item>>
    /\ \A e \in TrackerType : Due(e) => Due(e)'

\* A phase that ends with such a line writes it,
LEMMA Saying ==
  ASSUME NEW from, NEW what, NEW to, item \in 0..NumItems,
         Says(from, what, to) \/ Fails(from, what, to), Leads(from, item, what, to, item)
  PROVE  Wrote(what, item)
BY DEF Says, Fails, Wrote

\* and one that ends without leaves the tracker where it should be.
LEMMA Passing ==
  ASSUME NEW from, NEW to, Passes(from, to),
         \A e \in TrackerType : Expected(command, from, item, e) => Expected(command, to, item, e)
  PROVE  Silent
BY DEF Passes, Silent, Due

\* Every step of the command does one or the other, an interrupt included.
LEMMA WriterStep ==
  ASSUME command \in {"run", "probe"}, item \in 0..NumItems, Produce
  PROVE  Silent \/ \E what \in EventKinds, n \in 0..NumItems : Wrote(what, n)
<1> SUFFICES Silent \/ \E what, n : Wrote(what, n)
  BY DEF Wrote, Leads, Prints
<1>1. CASE Speak
  <2>1. PICK what \in Numbered : Emit(what, item)
    BY <1>1 DEF Speak
  <2>2. Leads(phase, item, what, phase, item)
    BY <1>1, RunScript, ProbeScript DEF Speak
  <2>3. Wrote(what, item)
    BY <1>1, <2>1, <2>2 DEF Speak, Wrote
  <2> QED
    BY <2>3
<1>2. CASE PrepareRun
  BY <1>2, RunScript, Saying DEF PrepareRun
<1>3. CASE NextCase
  <2>1. item + 1 \in 0..NumItems
    BY <1>3, EventsAssumption DEF NextCase
  <2>2. Leads("next", item, "case", phase', item + 1)
    BY <1>3, <2>1, RunScript DEF NextCase
  <2>3. Wrote("case", item + 1)
    BY <1>3, <2>1, <2>2 DEF NextCase, Wrote
  <2> QED
    BY <2>3
<1>4. CASE OpenCase
  BY <1>4, RunScript, Saying DEF OpenCase
<1>5. CASE StartServer
  BY <1>5, RunScript, Saying DEF StartServer
<1>6. CASE StartWorkload
  BY <1>6, RunScript, Saying DEF StartWorkload
<1>7. CASE EnterBoundary
  BY <1>7, RunScript, Saying DEF EnterBoundary
<1>8. CASE ClientEnds
  <2>1. CASE Passes("client", "ended")
    <3>1. \A e \in TrackerType : Expected(command, "client", item, e) => Expected(command, "ended", item, e)
      BY DEF Expected
    <3> QED
      BY <2>1, <3>1, Passing
  <2> QED
    BY <1>8, <2>1, RunScript, Saying DEF ClientEnds
<1>9. CASE LeaveBoundary
  BY <1>9, RunScript, Saying DEF LeaveBoundary
<1>10. CASE JudgeCase
  BY <1>10 DEF JudgeCase, Passes, Silent, Due, Expected
<1>11. CASE StopServer
  BY <1>11, RunScript, Saying DEF StopServer
<1>12. CASE EndCase
  BY <1>12, RunScript, Saying DEF EndCase
<1>13. CASE CaseDone
  BY <1>13, RunScript, Saying DEF CaseDone
<1>14. CASE Complete
  BY <1>14, RunScript, Saying DEF Complete
<1>15. CASE Scan
  BY <1>15, ProbeScript, Saying DEF Scan
<1>16. CASE TryMemory
  <2>1. item + 1 \in 0..NumItems
    BY <1>16, EventsAssumption DEF TryMemory
  <2>2. Leads("next", item, "try", "session", item + 1)
    BY <1>16, ProbeScript DEF TryMemory
  <2>3. Wrote("try", item + 1)
    BY <1>16, <2>1, <2>2 DEF TryMemory, Wrote
  <2> QED
    BY <2>3
<1>17. CASE AskLargest
  <2>1. CASE Passes("session", "tried") \/ Passes("client", "tried")
    <3>1. \A from \in {"session", "client"}, e \in TrackerType :
             Expected(command, from, item, e) => Expected(command, "tried", item, e)
      BY <1>17 DEF Expected, AskLargest
    <3> QED
      BY <2>1, <3>1, Passing
  <2> QED
    BY <1>17, <2>1, ProbeScript, Saying DEF AskLargest
<1>18. CASE MemoryTried
  BY <1>18, ProbeScript, Saying DEF MemoryTried
<1>19. CASE Summarize
  BY <1>19, ProbeScript, Saying DEF Summarize
<1>20. CASE Interrupted
  <2>1. PICK to : Unwinds(to) /\ phase' = to
    BY <1>20 DEF Interrupted
  <2>2. \A e \in TrackerType : Expected(command, phase, item, e) => Expected(command, to, item, e)
    BY <2>1 DEF Unwinds, Expected
  <2> QED
    BY <1>20, <2>1, <2>2 DEF Interrupted, Silent, Due
<1>21. CASE Abandon
  BY <1>21, RunScript, Saying DEF Abandon
<1>22. CASE Leave
  <2>1. \A e \in TrackerType : Expected(command, "gone", item, e)
    BY DEF Expected
  <2> QED
    BY <1>22, <2>1, Passing DEF Leave
<1> QED
  BY <1>1, <1>2, <1>3, <1>4, <1>5, <1>6, <1>7, <1>8, <1>9, <1>10, <1>11, <1>12, <1>13, <1>14,
     <1>15, <1>16, <1>17,
     <1>18, <1>19, <1>20, <1>21, <1>22 DEF Produce

\* What a line written adds to the pipe, the numbers and the diagnostics owed.
LEMMA Written ==
  ASSUME EventTypes, NEW what \in EventKinds, NEW n \in 0..NumItems, Emit(what, n)
  PROVE  \E x \in PipeLine :
            /\ x.kind = what /\ x.item = n /\ output' = Append(output, x)
            /\ x.no = 0 => spoken' = spoken /\ owed' = owed
            /\ x.no # 0 => /\ spoken' = spoken + 1 /\ x.no = spoken + 1
                           /\ owed' \in {owed, owed \cup {x.no}} /\ (x.no \in owed' => alarm')
<1>1. spoken \in Nat /\ owed \subseteq 1..spoken
  BY DEF EventTypes
<1>2. CASE what \in Numbered
  <2> DEFINE x == [kind |-> what, item |-> n, no |-> spoken + 1]
  <2>1. x \in PipeLine /\ output' = Append(output, x) /\ spoken' = spoken + 1
    BY <1>1, <1>2 DEF PipeLine, Emit
  <2>2. owed' \in {owed, owed \cup {x.no}} /\ (x.no \in owed' => alarm')
    BY <1>1, <1>2, <2>1 DEF Emit
  <2>3. x.kind = what /\ x.item = n /\ x.no = spoken + 1 /\ x.no # 0
    BY <1>1
  <2> HIDE DEF x
  <2> QED
    BY <2>1, <2>2, <2>3
<1>3. CASE what \notin Numbered
  <2> DEFINE x == [kind |-> what, item |-> n, no |-> 0]
  <2>1. x \in PipeLine /\ output' = Append(output, x) /\ spoken' = spoken /\ owed' = owed
    BY <1>1, <1>3 DEF PipeLine, Emit
  <2>2. x.kind = what /\ x.item = n /\ x.no = 0
    OBVIOUS
  <2> HIDE DEF x
  <2> QED
    BY <2>1, <2>2
<1> QED
  BY <1>2, <1>3

\* What was held back comes first, in a callback of its own.
LEMMA Flushed ==
  ASSUME deferred \in Seq(Nat), hidden \in BOOLEAN, screen.shown \in TrackerType
  PROVE  /\ Flush \in Seq(CallbackType)
         /\ \A k \in 1..Len(Flush) : Flush[k].lines = IF k = 1 THEN deferred ELSE <<>>
         /\ deferred # <<>> => Len(Flush) > 0
         /\ deferred = <<>> /\ ~hidden => Flush = <<>>
<1> DEFINE a == Callback(deferred, screen.shown)
           b == Callback(<<>>, screen.shown)
<1>1. a \in CallbackType /\ b \in CallbackType /\ a.lines = deferred /\ b.lines = <<>>
  BY DEF Callback, CallbackType
<1>2. Flush = (IF deferred # <<>> THEN <<a>> ELSE <<>>) \o (IF hidden THEN <<b>> ELSE <<>>)
  BY DEF Flush
<1> HIDE DEF a, b
<1>3. CASE deferred # <<>> /\ hidden
  <2>1. Flush = <<a>> \o <<b>>
    BY <1>2, <1>3
  <2>2. <<a>> \in Seq(CallbackType) /\ <<b>> \in Seq(CallbackType) /\ Len(<<a>>) = 1 /\ Len(<<b>>) = 1
    BY <1>1
  <2>3. /\ Flush \in Seq(CallbackType) /\ Len(Flush) = 2
        /\ Flush[1] = a /\ Flush[2] = b
    BY <2>1, <2>2, ConcatProperties
  <2> QED
    BY <1>1, <1>3, <2>3
<1>4. CASE deferred # <<>> /\ ~hidden
  <2>1. Flush = <<a>>
    BY <1>2, <1>4
  <2> QED
    BY <1>1, <1>4, <2>1
<1>5. CASE deferred = <<>> /\ hidden
  <2>1. Flush = <<b>>
    BY <1>2, <1>5
  <2> QED
    BY <1>1, <1>5, <2>1
<1>6. CASE deferred = <<>> /\ ~hidden
  <2>1. Flush = <<>>
    BY <1>2, <1>6
  <2> QED
    BY <1>6, <2>1
<1> QED
  BY <1>3, <1>4, <1>5, <1>6

\* What the screen is given: that, and the line with the snapshot.
LEMMA Emitted ==
  ASSUME EventTypes, NEW lines \in Seq(Nat), NEW t \in TrackerType, Emits(lines, t)
  PROVE  /\ held' \in Seq(CallbackType) /\ deferred' = <<>> /\ hidden' = FALSE
         /\ Len(held') = Len(Flush) + 1 /\ Len(Flush) \in Nat
         /\ held'[Len(held')].shown = t /\ held'[Len(held')].lines = lines
         /\ \A k \in 1..Len(Flush) : held'[k].lines = IF k = 1 THEN deferred ELSE <<>>
         /\ deferred # <<>> => Len(Flush) > 0
         /\ deferred = <<>> /\ ~hidden => Flush = <<>>
<1> DEFINE cb == Callback(lines, t)
<1>1. cb \in CallbackType /\ cb.shown = t /\ cb.lines = lines
  BY DEF Callback, CallbackType
<1>2. /\ Flush \in Seq(CallbackType)
      /\ deferred # <<>> => Len(Flush) > 0
      /\ \A k \in 1..Len(Flush) : Flush[k].lines = IF k = 1 THEN deferred ELSE <<>>
      /\ deferred = <<>> /\ ~hidden => Flush = <<>>
  BY Flushed DEF EventTypes
<1>3. held' = Append(Flush, cb) /\ deferred' = <<>> /\ hidden' = FALSE
  BY DEF Emits
<1> HIDE DEF cb
<1>4. /\ held' \in Seq(CallbackType) /\ Len(held') = Len(Flush) + 1 /\ held'[Len(held')] = cb
      /\ \A k \in 1..Len(Flush) : held'[k] = Flush[k]
  BY <1>1, <1>2, <1>3
<1>5. Len(Flush) \in Nat
  BY <1>2
<1> QED
  BY <1>1, <1>2, <1>3, <1>4, <1>5

\* A line has its number, or none.
LEMMA LinesTyped == ASSUME NEW x \in PipeLine PROVE Line(x) \in Seq(Nat)
BY DEF Line, PipeLine

\* Reading a line holds it back, or gives the screen all there is.
LEMMA LineRead ==
  ASSUME EventTypes, ReadLine, ~Rejects(tracker, output[1].kind), ~tracker.active => deferred = <<>> /\ ~hidden
  PROVE  /\ output # <<>> /\ output[1] \in PipeLine /\ output' = Tail(output) /\ held = <<>>
         /\ reader = "reading" /\ reader' = "reading" /\ UNCHANGED <<producer, page>>
         /\ tracker' = Feed(tracker, output[1]) /\ tracker' \in TrackerType
         /\ continuation' = Important(continuation, output[1].kind)
         /\ \/ /\ tracker.active /\ tracker'.active /\ held' = held
               /\ deferred' = IF continuation' THEN deferred \o Line(output[1]) ELSE deferred
               /\ hidden' \in BOOLEAN
            \/ ~(tracker.active /\ tracker'.active) /\ Emits(Line(output[1]), tracker')
<1> DEFINE x == output[1]
<1>1. output # <<>> /\ x \in PipeLine /\ Head(output) = x
  BY DEF ReadLine, EventTypes
<1>2. /\ output' = Tail(output) /\ held = <<>> /\ reader = "reading" /\ reader' = "reading"
      /\ UNCHANGED <<producer, page>>
      /\ tracker' = Feed(tracker, x) /\ continuation' = Important(continuation, x.kind)
  BY <1>1 DEF ReadLine
<1>3. tracker \in TrackerType /\ tracker' \in TrackerType
  BY <1>1, <1>2, Fed DEF EventTypes
<1>4. \/ /\ tracker.active /\ tracker'.active /\ held' = held
         /\ deferred' = IF continuation' THEN deferred \o Line(x) ELSE deferred
         /\ hidden' = (hidden \/ ~continuation')
      \/ /\ tracker.active /\ ~tracker'.active
         /\ held' = Append(Flush, Callback(Line(x), tracker')) /\ deferred' = <<>> /\ hidden' = FALSE
      \/ /\ ~tracker.active /\ held' = <<Callback(Line(x), tracker')>> /\ deferred' = deferred /\ hidden' = hidden
  BY <1>1 DEF ReadLine
<1>5. hidden \in BOOLEAN /\ deferred \in Seq(Nat) /\ screen.shown \in TrackerType
  BY DEF EventTypes
<1>6. CASE ~tracker.active /\ held' = <<Callback(Line(x), tracker')>> /\ deferred' = deferred /\ hidden' = hidden
  <2>1. deferred = <<>> /\ hidden = FALSE /\ Flush = <<>>
    BY <1>5, <1>6, Flushed
  <2>2. Emits(Line(x), tracker')
    BY <1>6, <2>1 DEF Emits
  <2> QED
    BY <1>1, <1>2, <1>3, <1>6, <2>2
<1>7. CASE /\ tracker.active /\ ~tracker'.active
           /\ held' = Append(Flush, Callback(Line(x), tracker')) /\ deferred' = <<>> /\ hidden' = FALSE
  BY <1>1, <1>2, <1>3, <1>7 DEF Emits
<1>8. CASE /\ tracker.active /\ tracker'.active /\ held' = held
           /\ deferred' = IF continuation' THEN deferred \o Line(x) ELSE deferred
           /\ hidden' = (hidden \/ ~continuation')
  BY <1>1, <1>2, <1>3, <1>5, <1>8
<1> QED
  BY <1>4, <1>6, <1>7, <1>8

\* The types are kept.
LEMMA EventTypesStep ==
  ASSUME EventTypes, [EventsNext]_eventVars, ~tracker.active => deferred = <<>> /\ ~hidden,
         output # <<>> => ~Rejects(tracker, output[1].kind)
  PROVE  EventTypes'
<1>1. CASE Produce
  <2>1. UNCHANGED <<listener, held, page>> /\ failing' \in BOOLEAN
    BY <1>1 DEF EventTypes, Produce, Speak, PrepareRun, NextCase, OpenCase, StartServer,
       StartWorkload, EnterBoundary,
       ClientEnds, LeaveBoundary, JudgeCase, StopServer, EndCase, CaseDone, Complete, Scan, TryMemory, AskLargest,
       MemoryTried, Summarize, Interrupted, Abandon, Leave, Says, Fails, Passes
  <2>2. CASE Silent
    BY <2>1, <2>2 DEF EventTypes, Silent, listener, page
  <2>3. ASSUME NEW what \in EventKinds, NEW n \in 0..NumItems, Wrote(what, n) PROVE EventTypes'
    <3>1. PICK x \in PipeLine :
             /\ output' = Append(output, x) /\ (x.no = 0 => spoken' = spoken /\ owed' = owed)
             /\ (x.no # 0 => /\ spoken' = spoken + 1 /\ x.no = spoken + 1
                             /\ owed' \in {owed, owed \cup {x.no}})
      BY <2>3, Written DEF Wrote
    <3>2. spoken' \in Nat /\ owed' \subseteq 1..spoken'
      <4>1. spoken \in Nat /\ owed \subseteq 1..spoken
        BY DEF EventTypes
      <4>2. CASE x.no = 0
        BY <3>1, <4>1, <4>2
      <4>3. CASE x.no # 0
        <5>1. spoken' = spoken + 1 /\ \A m \in owed' : m \in owed \/ m = spoken + 1
          BY <3>1, <4>3
        <5>2. ASSUME NEW m \in owed' PROVE m \in 1..(spoken + 1)
          <6>1. CASE m \in owed
            <7>1. m \in 1..spoken
              BY <4>1, <6>1
            <7> QED
              BY <4>1, <7>1
          <6>2. CASE m = spoken + 1
            BY <4>1, <6>2
          <6> QED
            BY <5>1, <6>1, <6>2
        <5> QED
          BY <4>1, <5>1, <5>2
      <4> QED
        BY <4>2, <4>3
    <3>3. alarm' \in BOOLEAN
      BY <2>3 DEF EventTypes, Wrote, Emit, Important
    <3>4. output' \in Seq(PipeLine)
      BY <3>1 DEF EventTypes
    <3> QED
      BY <2>1, <2>3, <3>2, <3>3, <3>4 DEF EventTypes, Wrote, listener, page
  <2> QED
    BY <1>1, <2>2, <2>3, WriterStep DEF EventTypes
<1>2. CASE ReadLine
  <2>1. /\ output # <<>> /\ output[1] \in PipeLine /\ output' = Tail(output) /\ held = <<>>
        /\ reader' = "reading" /\ UNCHANGED <<producer, page>> /\ tracker' \in TrackerType
        /\ continuation' = Important(continuation, output[1].kind)
        /\ \/ /\ held' = held /\ hidden' \in BOOLEAN
              /\ deferred' = IF continuation' THEN deferred \o Line(output[1]) ELSE deferred
           \/ Emits(Line(output[1]), tracker')
    BY <1>2, LineRead DEF ReadLine
  <2>2. output' \in Seq(PipeLine) /\ continuation' \in BOOLEAN
    <3>1. output' \in Seq(PipeLine)
      BY <2>1 DEF EventTypes
    <3>2. continuation' \in BOOLEAN
      BY <2>1 DEF EventTypes, Important
    <3> QED
      BY <3>1, <3>2
  <2>3. Line(output[1]) \in Seq(Nat) /\ deferred \in Seq(Nat) /\ deferred \o Line(output[1]) \in Seq(Nat)
    BY <2>1, LinesTyped DEF EventTypes
  <2>4. held' \in Seq(CallbackType) /\ deferred' \in Seq(Nat) /\ hidden' \in BOOLEAN
    <3>1. CASE Emits(Line(output[1]), tracker')
      <4>1. PICK t \in TrackerType : t = tracker'
        BY <2>1
      <4>2. PICK lines \in Seq(Nat) : lines = Line(output[1])
        BY <2>3
      <4>3. Emits(lines, t)
        BY <3>1, <4>1, <4>2
      <4>4. held' \in Seq(CallbackType) /\ deferred' = <<>> /\ hidden' = FALSE
        BY <4>3, Emitted
      <4>5. <<>> \in Seq(Nat)
        OBVIOUS
      <4> QED
        BY <4>4, <4>5
    <3>2. CASE ~Emits(Line(output[1]), tracker')
      BY <2>1, <2>3, <3>2 DEF EventTypes
    <3> QED
      BY <3>1, <3>2
  <2> QED
    BY <2>1, <2>2, <2>4 DEF EventTypes, producer, page
<1>3. CASE EndOfOutput
  <2> DEFINE t == [tracker EXCEPT !.active = FALSE, !.stage = "ended"]
  <2>1. t \in TrackerType
    BY DEF EventTypes, TrackerType, Stages
  <2>2. Emits(<<>>, t) /\ reader' = "ended" /\ UNCHANGED <<producer, output, tracker, continuation, page>>
    BY <1>3 DEF EndOfOutput, Emits
  <2> HIDE DEF t
  <2>3. held' \in Seq(CallbackType) /\ deferred' = <<>> /\ hidden' = FALSE
    <3>1. <<>> \in Seq(Nat)
      OBVIOUS
    <3> QED
      BY <2>1, <2>2, <3>1, Emitted
  <2> QED
    <3>1. deferred' \in Seq(Nat) /\ hidden' \in BOOLEAN /\ reader' \in {"reading", "ended"}
      <4>1. <<>> \in Seq(Nat)
        OBVIOUS
      <4> QED
        BY <2>2, <2>3, <4>1
    <3> QED
      BY <2>2, <2>3, <3>1 DEF EventTypes, producer, page
<1>4. CASE Show
  <2>1. held' = Tail(held) /\ held # <<>> /\ UNCHANGED <<producer, output, listener, elapsed>>
        /\ screen' = [shown |-> Head(held).shown, log |-> screen.log \o Head(held).lines]
    BY <1>4 DEF Show
  <2>2. held' \in Seq(CallbackType) /\ Head(held) \in CallbackType
    BY <2>1 DEF EventTypes
  <2>3. Head(held).shown \in TrackerType /\ Head(held).lines \in Seq(Nat) /\ screen.log \in Seq(Nat)
    BY <2>2 DEF EventTypes, CallbackType
  <2>4. screen' \in [shown : TrackerType, log : Seq(Nat)]
    BY <2>1, <2>3
  <2> QED
    BY <2>1, <2>2, <2>4 DEF EventTypes, producer, listener
<1>5. CASE Tick
  BY <1>5 DEF Tick, EventTypes, producer, listener
<1>6. CASE UNCHANGED eventVars
  BY <1>6 DEF EventTypes, eventVars, producer, listener, page
<1> QED
  BY <1>1, <1>2, <1>3, <1>4, <1>5, <1>6 DEF EventsNext

\* The rules are those of the command.
LEMMA SameFeed == command' = command => \A t, x : Feed(t, x)' = Feed(t, x)
BY DEF Feed

\* The forecast holds when nothing is written or read,
LEMMA FollowsQuietly ==
  ASSUME NEW st, NEW ct, Follows(st, ct), UNCHANGED <<command, output, tracker, continuation, alarm, owed>>,
         \A e \in TrackerType : Due(e) => Due(e)'
  PROVE  Follows(st, ct)'
<1>1. \A t, x : Feed(t, x)' = Feed(t, x)
  BY SameFeed
<1>2. CASE Len(output) \in Nat
  <2>1. st[Len(output)] \in TrackerType
    BY <1>2 DEF Follows
  <2>2. Due(st[Len(output)])'
    BY <2>1 DEF Follows
  <2> QED
    BY <1>1, <2>2 DEF Follows
<1> QED
  BY <1>2

\* is continued by what is written
LEMMA FollowsWritten ==
  ASSUME EventTypes, \A i \in 1..Len(output) : output[i].no <= spoken, NEW st, NEW ct, Follows(st, ct),
         NEW what \in EventKinds, NEW n \in 0..NumItems, Wrote(what, n), UNCHANGED <<tracker, continuation>>
  PROVE  \E s2, c2 : Follows(s2, c2)'
<1> PICK m : m = Len(output)
  OBVIOUS
<1> PICK e : e = st[m]
  OBVIOUS
<1>0. output \in Seq(PipeLine) /\ m \in Nat /\ spoken \in Nat /\ owed \subseteq 1..spoken
  BY DEF EventTypes
<1>1. PICK x \in PipeLine :
         /\ x.kind = what /\ x.item = n /\ output' = Append(output, x)
         /\ x.no = 0 => spoken' = spoken /\ owed' = owed
         /\ x.no # 0 => /\ spoken' = spoken + 1 /\ x.no = spoken + 1
                        /\ owed' \in {owed, owed \cup {x.no}} /\ (x.no \in owed' => alarm')
  BY Written DEF Wrote
<1>2. e \in TrackerType /\ Expected(command, phase, item, e)
  BY <1>0 DEF Follows, Due
<1>3. ~Rejects(e, x.kind) /\ Prints(x.kind)
  BY <1>1, <1>2 DEF Wrote, Leads
<1> PICK u : u = Feed(e, x)
  OBVIOUS
<1>4. u \in TrackerType /\ Effect(e, x.kind, x.item, u) /\ (u.active => e.active \/ x.kind \in Openers)
  BY <1>2, <1>3, LineFed, Fed
<1>5. Expected(command', phase', item', u)
  BY <1>1, <1>2, <1>4 DEF Wrote, Leads
<1>6. /\ output' \in Seq(PipeLine) /\ Len(output') = m + 1 /\ output'[m + 1] = x
      /\ \A i \in 1..m : output'[i] = output[i]
  BY <1>0, <1>1
<1>7. alarm' = Important(alarm, x.kind) /\ command' = command
  BY <1>1 DEF Wrote, Emit
<1>8. PICK al \in BOOLEAN : al = alarm'
  BY <1>7 DEF EventTypes, Important
<1> PICK s2 : s2 = [i \in 0..(m + 1) |-> IF i <= m THEN st[i] ELSE u]
  OBVIOUS
<1> PICK c2 : c2 = [i \in 0..(m + 1) |-> IF i <= m THEN ct[i] ELSE al]
  OBVIOUS
<1>9. /\ s2 \in [0..(m + 1) -> TrackerType] /\ c2 \in [0..(m + 1) -> BOOLEAN]
      /\ \A i \in 0..m : s2[i] = st[i] /\ c2[i] = ct[i]
      /\ s2[m + 1] = u /\ c2[m + 1] = al /\ s2[0] = tracker /\ c2[0] = continuation
  <2>1. st \in [0..m -> TrackerType] /\ ct \in [0..m -> BOOLEAN] /\ st[0] = tracker /\ ct[0] = continuation
    BY DEF Follows
  <2> QED
    BY <1>0, <1>4, <2>1
<1>10. \A i \in 1..(m + 1) : /\ s2[i] = Feed(s2[i - 1], output'[i]) /\ ~Rejects(s2[i - 1], output'[i].kind)
                             /\ c2[i] = Important(c2[i - 1], output'[i].kind)
  <2> SUFFICES ASSUME NEW i \in 1..(m + 1)
               PROVE  /\ s2[i] = Feed(s2[i - 1], output'[i]) /\ ~Rejects(s2[i - 1], output'[i].kind)
                      /\ c2[i] = Important(c2[i - 1], output'[i].kind)
    OBVIOUS
  <2>1. CASE i = m + 1
    <3>1. s2[i - 1] = e /\ c2[i - 1] = alarm
      BY <1>0, <1>9, <2>1 DEF Follows
    <3> QED
      BY <1>3, <1>6, <1>7, <1>8, <1>9, <2>1, <3>1
  <2>2. CASE i \in 1..m
    <3>1. s2[i - 1] = st[i - 1] /\ c2[i - 1] = ct[i - 1] /\ s2[i] = st[i] /\ c2[i] = ct[i] /\ output'[i] = output[i]
      BY <1>0, <1>6, <1>9, <2>2
    <3> QED
      BY <2>2, <3>1 DEF Follows
  <2> QED
    BY <1>0, <2>1, <2>2
<1>11. ASSUME NEW i \in 0..(m + 1), s2[m + 1].active
       PROVE  s2[i].active \/ \E j \in (i + 1)..(m + 1) : output'[j].kind \in Openers
  <2>1. CASE i = m + 1
    BY <1>11, <2>1
  <2>2. CASE i \in 0..m /\ x.kind \in Openers
    <3>1. m + 1 \in (i + 1)..(m + 1) /\ output'[m + 1].kind \in Openers
      BY <1>0, <1>6, <2>2
    <3> QED
      BY <3>1
  <2>3. CASE i \in 0..m /\ x.kind \notin Openers
    <3>1. e.active
      BY <1>4, <1>9, <1>11, <2>3
    <3>2. st[i].active \/ \E j \in (i + 1)..m : output[j].kind \in Openers
      BY <2>3, <3>1 DEF Follows
    <3>3. \A j \in (i + 1)..m : output'[j] = output[j] /\ j \in (i + 1)..(m + 1)
      BY <1>0, <1>6, <2>3
    <3> QED
      BY <1>9, <2>3, <3>2, <3>3
  <2> QED
    BY <1>0, <2>1, <2>2, <2>3
<1>12. ASSUME NEW i \in 1..(m + 1), output'[i].no \in owed' PROVE c2[i]
  <2>1. CASE i \in 1..m
    <3>1. output[i].no \in Nat /\ output[i].no <= spoken
      <4>1. output[i] \in PipeLine
        BY <1>0, <2>1
      <4> QED
        BY <2>1, <4>1 DEF PipeLine
    <3>2. output[i].no \in owed
      BY <1>0, <1>1, <1>6, <1>12, <2>1, <3>1
    <3>3. ct[i]
      BY <2>1, <3>2 DEF Follows
    <3> QED
      BY <1>9, <2>1, <3>3
  <2>2. CASE i = m + 1
    <3>1. x.no \in owed'
      BY <1>6, <1>12, <2>2
    <3>2. alarm'
      BY <1>0, <1>1, <3>1
    <3> QED
      BY <1>8, <1>9, <2>2, <3>2
  <2> QED
    BY <1>0, <2>1, <2>2
<1>13. \A t, y : Feed(t, y)' = Feed(t, y)
  BY <1>7, SameFeed
<1>14. Due(u)'
  BY <1>5 DEF Due
<1>15. s2[Len(output')] = u /\ Len(output') = m + 1 /\ c2[Len(output')] = alarm'
  BY <1>6, <1>8, <1>9
<1>16. Follows(s2, c2)'
  BY <1>9, <1>10, <1>11, <1>12, <1>13, <1>14, <1>15 DEF Follows
<1> QED
  BY <1>16

\* and comes true for what is read.
LEMMA FollowsRead ==
  ASSUME EventTypes, NEW st, NEW ct, Follows(st, ct), output # <<>>, output' = Tail(output),
         tracker' = Feed(tracker, output[1]), continuation' = Important(continuation, output[1].kind),
         UNCHANGED producer
  PROVE  \E s2, c2 : Follows(s2, c2)'
<1> PICK m : m = Len(output)
  OBVIOUS
<1>0. output \in Seq(PipeLine) /\ m \in Nat /\ m > 0 /\ m - 1 \in Nat /\ m = (m - 1) + 1
  BY DEF EventTypes
<1>1. /\ output' \in Seq(PipeLine) /\ Len(output') = m - 1
      /\ \A i \in 1..(m - 1) : output'[i] = output[i + 1]
  BY <1>0, HeadTailProperties
<1> PICK s2 : s2 = [i \in 0..(m - 1) |-> st[i + 1]]
  OBVIOUS
<1> PICK c2 : c2 = [i \in 0..(m - 1) |-> ct[i + 1]]
  OBVIOUS
<1>2. st \in [0..m -> TrackerType] /\ ct \in [0..m -> BOOLEAN]
  BY DEF Follows
<1>3. /\ s2 \in [0..(m - 1) -> TrackerType] /\ c2 \in [0..(m - 1) -> BOOLEAN]
      /\ \A i \in 0..(m - 1) : s2[i] = st[i + 1] /\ c2[i] = ct[i + 1]
  BY <1>0, <1>2
<1>4. s2[0] = tracker' /\ c2[0] = continuation'
  <2>1. st[1] = Feed(st[0], output[1]) /\ ct[1] = Important(ct[0], output[1].kind)
    BY <1>0 DEF Follows
  <2> QED
    BY <1>0, <1>3, <2>1 DEF Follows
<1>5. \A i \in 1..(m - 1) : /\ s2[i] = Feed(s2[i - 1], output'[i]) /\ ~Rejects(s2[i - 1], output'[i].kind)
                            /\ c2[i] = Important(c2[i - 1], output'[i].kind)
                            /\ (output'[i].no \in owed' => c2[i])
  <2> SUFFICES ASSUME NEW i \in 1..(m - 1)
               PROVE  /\ s2[i] = Feed(s2[i - 1], output'[i]) /\ ~Rejects(s2[i - 1], output'[i].kind)
                      /\ c2[i] = Important(c2[i - 1], output'[i].kind)
                      /\ (output'[i].no \in owed' => c2[i])
    OBVIOUS
  <2>1. i + 1 \in 1..m /\ (i + 1) - 1 = i /\ i \in 0..(m - 1) /\ i - 1 \in 0..(m - 1) /\ (i - 1) + 1 = i
    BY <1>0
  <2>2. s2[i - 1] = st[i] /\ c2[i - 1] = ct[i] /\ s2[i] = st[i + 1] /\ c2[i] = ct[i + 1] /\ output'[i] = output[i + 1]
    BY <1>1, <1>3, <2>1
  <2>3. /\ st[i + 1] = Feed(st[(i + 1) - 1], output[i + 1]) /\ ~Rejects(st[(i + 1) - 1], output[i + 1].kind)
        /\ ct[i + 1] = Important(ct[(i + 1) - 1], output[i + 1].kind) /\ (output[i + 1].no \in owed => ct[i + 1])
    BY <2>1 DEF Follows
  <2> QED
    BY <2>1, <2>2, <2>3 DEF producer
<1>6. ASSUME NEW i \in 0..(m - 1), s2[m - 1].active
      PROVE  s2[i].active \/ \E j \in (i + 1)..(m - 1) : output'[j].kind \in Openers
  <2>1. st[m].active /\ s2[i] = st[i + 1]
    BY <1>0, <1>3, <1>6
  <2>2. st[i + 1].active \/ \E j \in (i + 2)..m : output[j].kind \in Openers
    BY <1>0, <2>1 DEF Follows
  <2>3. ASSUME NEW j \in (i + 2)..m PROVE j - 1 \in (i + 1)..(m - 1) /\ output'[j - 1] = output[j]
    <3>1. j - 1 \in 1..(m - 1) /\ j - 1 \in (i + 1)..(m - 1) /\ (j - 1) + 1 = j
      BY <1>0
    <3> QED
      BY <1>1, <3>1
  <2> QED
    BY <2>1, <2>2, <2>3
<1>7. /\ s2[Len(output')] = st[m] /\ c2[Len(output')] = ct[m] /\ Len(output') = m - 1
      /\ Due(st[m]) /\ ct[m] = alarm
  <2>1. s2[m - 1] = st[(m - 1) + 1] /\ c2[m - 1] = ct[(m - 1) + 1]
    BY <1>0, <1>3
  <2> QED
    BY <1>0, <1>1, <2>1 DEF Follows
<1>8. \A t, y : Feed(t, y)' = Feed(t, y)
  BY SameFeed DEF producer
<1>9. Due(st[m])'
  BY <1>7 DEF Due, producer
<1>10. alarm' = alarm
  BY DEF producer
<1>12. Follows(s2, c2)'
  BY <1>3, <1>4, <1>5, <1>6, <1>7, <1>8, <1>9, <1>10 DEF Follows
<1> QED
  BY <1>12

\* So the tracker rejects no line.
LEMMA NotRejected ==
  ASSUME EventTypes, NEW st, NEW ct, Follows(st, ct), output # <<>>
  PROVE  ~Rejects(tracker, output[1].kind)
<1>1. 1 \in 1..Len(output)
  BY DEF EventTypes
<1> QED
  BY <1>1 DEF Follows

\* Every step keeps a forecast.
LEMMA FollowsStep ==
  ASSUME EventTypes, Bounded, NEW st, NEW ct, Follows(st, ct), [EventsNext]_eventVars
  PROVE  (\E s2, c2 : Follows(s2, c2))'
<1>1. CASE Produce
  <2>1. UNCHANGED <<tracker, continuation>>
    BY <1>1 DEF Produce, listener
  <2>2. CASE Silent
    BY <2>1, <2>2, FollowsQuietly DEF Silent
  <2>3. ASSUME NEW what \in EventKinds, NEW n \in 0..NumItems, Wrote(what, n)
        PROVE  \E s2, c2 : Follows(s2, c2)'
    BY <2>1, <2>3, FollowsWritten DEF Bounded
  <2> QED
    BY <1>1, <2>2, <2>3, WriterStep DEF EventTypes
<1>2. CASE ReadLine
  <2>1. output # <<>>
    BY <1>2 DEF ReadLine
  <2>2. Head(output) = output[1]
    BY <2>1 DEF EventTypes
  <2>3. /\ output' = Tail(output) /\ tracker' = Feed(tracker, output[1])
        /\ continuation' = Important(continuation, output[1].kind) /\ UNCHANGED producer
    BY <1>2, <2>2 DEF ReadLine
  <2> QED
    BY <2>1, <2>3, FollowsRead
<1>3. CASE EndOfOutput \/ Show \/ Tick \/ UNCHANGED eventVars
  <2>1. UNCHANGED <<producer, output, tracker, continuation>>
    BY <1>3 DEF EndOfOutput, Show, Tick, eventVars, listener
  <2>2. \A e \in TrackerType : Due(e) => Due(e)'
    BY <2>1 DEF Due, producer
  <2> QED
    BY <2>1, <2>2, FollowsQuietly DEF producer
<1> QED
  BY <1>1, <1>2, <1>3 DEF EventsNext

\* The screen keeps up with the reader, one callback behind.
LEMMA ShownStep ==
  ASSUME EventTypes, Shown, ~tracker.active \/ reader = "ended" => deferred = <<>> /\ ~hidden,
         output # <<>> => ~Rejects(tracker, output[1].kind), [EventsNext]_eventVars
  PROVE  Shown'
<1>1. CASE Produce
  <2>1. UNCHANGED <<tracker, reader, held, screen>>
    BY <1>1 DEF Produce, listener, page
  <2>2. phase # "gone"
    BY <1>1 DEF Produce, Speak, PrepareRun, NextCase, OpenCase, StartServer, StartWorkload,
       EnterBoundary, ClientEnds,
       LeaveBoundary, JudgeCase, StopServer, EndCase, CaseDone, Complete, Scan, TryMemory, AskLargest,
       MemoryTried, Summarize, Interrupted, Abandon, Leave, Says, Fails, Passes
  <2> QED
    BY <2>1, <2>2 DEF Shown, Agrees
<1>2. CASE ReadLine
  <2>1. output # <<>>
    BY <1>2 DEF ReadLine
  <2>2. /\ held = <<>> /\ reader = "reading" /\ reader' = "reading" /\ screen' = screen
        /\ output[1] \in PipeLine /\ tracker' \in TrackerType
        /\ \/ tracker.active /\ tracker'.active /\ held' = held
           \/ ~(tracker.active /\ tracker'.active) /\ Emits(Line(output[1]), tracker')
    BY <1>2, <2>1, LineRead DEF page
  <2>3. CASE tracker.active /\ tracker'.active /\ held' = held
    BY <2>2, <2>3 DEF Shown, Agrees
  <2>4. CASE ~(tracker.active /\ tracker'.active) /\ Emits(Line(output[1]), tracker')
    <3>1. PICK t \in TrackerType, lines \in Seq(Nat) : t = tracker' /\ lines = Line(output[1])
      BY <2>2, LinesTyped
    <3>2. Emits(lines, t)
      BY <2>4, <3>1
    <3>3. /\ held'[Len(held')].shown = t /\ Len(held') = Len(Flush) + 1 /\ Len(Flush) \in Nat
          /\ deferred = <<>> /\ ~hidden => Flush = <<>>
          /\ held' \in Seq(CallbackType)
      BY <3>2, Emitted
    <3>4. held' # <<>>
      BY <3>3
    <3>5. tracker'.active => Len(held') = 1 /\ ~screen.shown.active
      <4>1. tracker'.active => ~tracker.active
        BY <2>4
      <4>2. ~tracker.active => Flush = <<>> /\ ~screen.shown.active
        BY <2>2, <3>3 DEF Shown, Agrees
      <4>3. Flush = <<>> => Len(Flush) = 0
        OBVIOUS
      <4> QED
        BY <3>3, <4>1, <4>2, <4>3
    <3> QED
      BY <2>2, <3>1, <3>3, <3>4, <3>5 DEF Shown, Agrees
  <2> QED
    BY <2>2, <2>3, <2>4
<1>3. CASE EndOfOutput
  BY <1>3 DEF EndOfOutput, Shown, producer
<1>4. CASE Show
  <2>1. /\ held # <<>> /\ held' = Tail(held) /\ UNCHANGED <<producer, output, listener>>
        /\ screen'.shown = Head(held).shown
    BY <1>4 DEF Show
  <2>2. /\ held \in Seq(CallbackType) /\ Len(held) \in Nat /\ Len(held) > 0 /\ Head(held) = held[1]
        /\ held' \in Seq(CallbackType) /\ Len(held') = Len(held) - 1
        /\ \A k \in 1..(Len(held) - 1) : held'[k] = held[k + 1]
    <3>1. held \in Seq(CallbackType)
      BY DEF EventTypes
    <3>2. Len(held) \in Nat /\ Len(held) > 0 /\ Head(held) = held[1]
      BY <2>1, <3>1
    <3>3. Len(held') = Len(held) - 1 /\ held' \in Seq(CallbackType) /\ \A k \in 1..Len(held') : held'[k] = held[k + 1]
      BY <2>1, <3>1, HeadTailProperties
    <3> QED
      BY <3>1, <3>2, <3>3
  <2>3. CASE Len(held) = 1
    <3>1. held' = <<>> /\ screen'.shown = held[Len(held)].shown
      BY <2>1, <2>2, <2>3
    <3> QED
      BY <2>1, <3>1 DEF Shown, Agrees, listener, producer
  <2>4. CASE Len(held) > 1
    <3>1. held' # <<>> /\ held'[Len(held')] = held[Len(held)]
      <4>1. Len(held) - 1 \in 1..(Len(held) - 1) /\ (Len(held) - 1) + 1 = Len(held)
        BY <2>2, <2>4
      <4> QED
        BY <2>2, <2>4, <4>1
    <3>2. reader = "reading" => ~tracker.active
      BY <2>1, <2>2, <2>4 DEF Shown
    <3> QED
      BY <2>1, <3>1, <3>2 DEF Shown, Agrees, listener, producer
  <2> QED
    BY <2>2, <2>3, <2>4
<1>5. CASE Tick
  BY <1>5 DEF Tick, Shown, Agrees, producer, listener
<1>6. CASE UNCHANGED eventVars
  BY <1>6 DEF Shown, Agrees, eventVars, producer, listener, page
<1> QED
  BY <1>1, <1>2, <1>3, <1>4, <1>5, <1>6 DEF EventsNext

\* The numbers of a sequence continued by another.
LEMMA Numberings ==
  /\ Numbers(<<>>) = {} /\ Rising(<<>>)
  /\ \A n \in Nat : Numbers(<<n>>) = {n} /\ Rising(<<n>>)
  /\ \A s, t \in Seq(Nat) :
        /\ Numbers(s \o t) = Numbers(s) \cup Numbers(t)
        /\ Rising(s) /\ Rising(t) /\ Before(s, t) => Rising(s \o t)
<1>1. Numbers(<<>>) = {} /\ Rising(<<>>)
  BY DEF Numbers, Rising
<1>2. ASSUME NEW n \in Nat PROVE Numbers(<<n>>) = {n} /\ Rising(<<n>>)
  BY DEF Numbers, Rising
<1>3. ASSUME NEW s \in Seq(Nat), NEW t \in Seq(Nat)
      PROVE  /\ Numbers(s \o t) = Numbers(s) \cup Numbers(t)
             /\ Rising(s) /\ Rising(t) /\ Before(s, t) => Rising(s \o t)
  <2>1. /\ Len(s) \in Nat /\ Len(t) \in Nat /\ Len(s \o t) = Len(s) + Len(t)
        /\ \A i \in 1..Len(s) : i \in 1..Len(s \o t) /\ (s \o t)[i] = s[i]
        /\ \A i \in 1..Len(t) : Len(s) + i \in 1..Len(s \o t) /\ (s \o t)[Len(s) + i] = t[i]
    BY ConcatProperties
  <2>2. \A i \in 1..Len(s \o t) : i \in 1..Len(s) \/ \E j \in 1..Len(t) : i = Len(s) + j
    <3> SUFFICES ASSUME NEW i \in 1..Len(s \o t), i \notin 1..Len(s) PROVE \E j \in 1..Len(t) : i = Len(s) + j
      OBVIOUS
    <3>1. i - Len(s) \in 1..Len(t) /\ i = Len(s) + (i - Len(s))
      BY <2>1
    <3> QED
      BY <3>1
  <2>3. Numbers(s \o t) = Numbers(s) \cup Numbers(t)
    <3>1. ASSUME NEW m \in Numbers(s \o t) PROVE m \in Numbers(s) \cup Numbers(t)
      BY <2>1, <2>2 DEF Numbers
    <3>2. ASSUME NEW m \in Numbers(s) \cup Numbers(t) PROVE m \in Numbers(s \o t)
      <4>1. CASE m \in Numbers(s)
        BY <2>1, <4>1 DEF Numbers
      <4>2. CASE m \in Numbers(t)
        BY <2>1, <4>2 DEF Numbers
      <4> QED
        BY <4>1, <4>2
    <3> QED
      BY <3>1, <3>2
  <2>4. ASSUME Rising(s), Rising(t), Before(s, t) PROVE Rising(s \o t)
    <3> SUFFICES ASSUME NEW i \in 1..Len(s \o t), NEW j \in 1..Len(s \o t), i < j PROVE (s \o t)[i] < (s \o t)[j]
      BY DEF Rising
    <3>1. CASE i \in 1..Len(s) /\ j \in 1..Len(s)
      BY <2>1, <2>4, <3>1 DEF Rising
    <3>2. CASE i \in 1..Len(s) /\ j \notin 1..Len(s)
      <4>1. PICK k \in 1..Len(t) : j = Len(s) + k
        BY <2>2, <3>2
      <4>2. s[i] \in Numbers(s) /\ t[k] \in Numbers(t)
        BY <3>2, <4>1 DEF Numbers
      <4>3. s[i] < t[k]
        BY <2>4, <4>2 DEF Before
      <4> QED
        BY <2>1, <3>2, <4>1, <4>3
    <3>3. CASE i \notin 1..Len(s)
      <4>1. PICK k \in 1..Len(t) : i = Len(s) + k
        BY <2>2, <3>3
      <4>2. j \notin 1..Len(s)
        BY <2>1, <4>1
      <4>3. PICK l \in 1..Len(t) : j = Len(s) + l
        BY <2>2, <4>2
      <4>4. k < l
        BY <2>1, <4>1, <4>3
      <4> QED
        BY <2>1, <2>4, <4>1, <4>3, <4>4 DEF Rising
    <3> QED
      BY <3>1, <3>2, <3>3
  <2> QED
    BY <2>3, <2>4
<1> QED
  BY <1>1, <1>2, <1>3

\* The number of a line, if it has one.
LEMMA LineNumbers ==
  ASSUME NEW x \in PipeLine
  PROVE  /\ Line(x) \in Seq(Nat) /\ Rising(Line(x)) /\ x.no \in Nat
         /\ Numbers(Line(x)) = IF x.no = 0 THEN {} ELSE {x.no}
<1>1. x.no \in Nat
  BY DEF PipeLine
<1>2. CASE x.no = 0
  <2>1. Line(x) = <<>> /\ <<>> \in Seq(Nat)
    BY <1>2 DEF Line
  <2> QED
    BY <1>1, <1>2, <2>1, Numberings
<1>3. CASE x.no # 0
  <2>1. PICK n \in Nat : n = x.no
    BY <1>1
  <2>2. Line(x) = <<n>> /\ <<n>> \in Seq(Nat)
    BY <1>3, <2>1 DEF Line
  <2> QED
    BY <1>3, <2>1, <2>2, Numberings
<1> QED
  BY <1>2, <1>3

\* Nothing is written, and the screen goes on as it is.
LEMMA OrderKept ==
  ASSUME Ordered, UNCHANGED <<screen, deferred, hidden, held, output, owed, spoken, tracker, reader>>
  PROVE  Ordered'
BY DEF Ordered, Bounded, Queued, InLine, Found

\* A line written comes after all others.
LEMMA OrderedWritten ==
  ASSUME EventTypes, Ordered, NEW what \in EventKinds, NEW n \in 0..NumItems, Wrote(what, n),
         UNCHANGED <<screen, deferred, hidden, held, tracker, reader>>
  PROVE  Ordered'
<1>1. PICK x \in PipeLine :
         /\ output' = Append(output, x)
         /\ x.no = 0 => spoken' = spoken /\ owed' = owed
         /\ x.no # 0 => /\ spoken' = spoken + 1 /\ x.no = spoken + 1
                        /\ owed' \in {owed, owed \cup {x.no}}
  BY Written DEF Wrote
<1> PICK m : m = Len(output)
  OBVIOUS
<1>2. /\ output \in Seq(PipeLine) /\ m \in Nat /\ Len(output') = m + 1 /\ output'[m + 1] = x
      /\ \A i \in 1..m : output'[i] = output[i] /\ output[i].no \in Nat
      /\ spoken \in Nat /\ spoken' \in Nat /\ spoken <= spoken' /\ x.no <= spoken' /\ x.no \in Nat
  <2>1. output \in Seq(PipeLine) /\ spoken \in Nat
    BY DEF EventTypes
  <2>2. m \in Nat /\ Len(output') = m + 1 /\ output'[m + 1] = x /\ \A i \in 1..m : output'[i] = output[i]
    BY <1>1, <2>1
  <2>3. \A i \in 1..m : output[i] \in PipeLine
    BY <2>1
  <2>4. \A y \in PipeLine : y.no \in Nat
    BY DEF PipeLine
  <2>5. spoken' \in Nat /\ spoken <= spoken' /\ x.no <= spoken'
    BY <1>1, <2>1, <2>4
  <2> QED
    BY <2>1, <2>2, <2>3, <2>4, <2>5
<1>3. Bounded'
  <2>1. \A k \in 1..spoken : k \in 1..spoken'
    BY <1>2
  <2>2. ASSUME NEW i \in 1..(m + 1) PROVE output'[i].no <= spoken'
    <3>1. CASE i = m + 1
      BY <1>2, <3>1
    <3>2. CASE i \in 1..m
      <4>1. output[i].no <= spoken /\ output[i].no \in Nat /\ output'[i] = output[i]
        BY <1>2, <3>2 DEF Ordered, Bounded
      <4> QED
        BY <1>2, <4>1
    <3> QED
      BY <1>2, <3>1, <3>2
  <2> QED
    BY <1>2, <2>1, <2>2 DEF Ordered, Bounded
<1>4. x.no # 0 => /\ Below(screen.log, x.no) /\ Below(deferred, x.no)
                  /\ \A k \in 1..Len(held) : Below(held[k].lines, x.no)
                  /\ \A i \in 1..m : output[i].no < x.no
  <2> SUFFICES ASSUME x.no # 0
               PROVE  /\ Below(screen.log, x.no) /\ Below(deferred, x.no)
                      /\ \A k \in 1..Len(held) : Below(held[k].lines, x.no)
                      /\ \A i \in 1..m : output[i].no < x.no
    OBVIOUS
  <2>1. x.no = spoken + 1 /\ \A k \in 1..spoken : k < x.no
    BY <1>1, <1>2
  <2>2. /\ Below(screen.log, x.no) /\ Below(deferred, x.no)
        /\ \A k \in 1..Len(held) : Below(held[k].lines, x.no)
    BY <2>1 DEF Ordered, Bounded, Below
  <2>3. \A i \in 1..m : output[i].no <= spoken
    BY DEF Ordered, Bounded
  <2> QED
    BY <1>2, <2>1, <2>2, <2>3
<1>5. Queued'
  <2> SUFFICES ASSUME NEW i \in 1..(m + 1), output'[i].no # 0
               PROVE  /\ Below(screen.log, output'[i].no) /\ Below(deferred, output'[i].no)
                      /\ \A k \in 1..Len(held) : Below(held[k].lines, output'[i].no)
                      /\ \A j \in 1..(m + 1) : i < j /\ output'[j].no # 0 => output'[i].no < output'[j].no
    BY <1>2 DEF Queued, Below
  <2>1. CASE i = m + 1
    BY <1>2, <1>4, <2>1
  <2>2. CASE i \in 1..m
    <3>1. output'[i] = output[i] /\ \A j \in 1..(m + 1) : j = m + 1 \/ (j \in 1..m /\ output'[j] = output[j])
      <4>1. \A j \in 1..(m + 1) : j = m + 1 \/ j \in 1..m
        BY <1>2
      <4> QED
        BY <1>2, <2>2, <4>1
    <3>2. /\ Below(screen.log, output[i].no) /\ Below(deferred, output[i].no)
          /\ \A k \in 1..Len(held) : Below(held[k].lines, output[i].no)
          /\ \A j \in 1..m : i < j /\ output[j].no # 0 => output[i].no < output[j].no
      BY <2>2, <3>1 DEF Ordered, Queued
    <3>3. x.no # 0 => output[i].no < x.no
      BY <1>4, <2>2
    <3> QED
      BY <1>2, <3>1, <3>2, <3>3
  <2> QED
    BY <1>2, <2>1, <2>2
<1>6. InLine'
  BY DEF Ordered, InLine
<1>7. ASSUME NEW k \in owed' PROVE Found(k)'
  <2>1. CASE k \in owed
    <3>1. Found(k)
      BY <2>1 DEF Ordered
    <3>2. \A i \in 1..m : i \in 1..Len(output') /\ output'[i].no = output[i].no
      BY <1>2
    <3> QED
      BY <3>1, <3>2 DEF Found
  <2>2. CASE x.no # 0 /\ k = x.no
    <3>1. m + 1 \in 1..Len(output') /\ output'[m + 1].no = k
      BY <1>2, <2>2
    <3> QED
      BY <3>1 DEF Found
  <2> QED
    BY <1>1, <1>7, <2>1, <2>2
<1> QED
  BY <1>3, <1>5, <1>6, <1>7 DEF Ordered

\* Lines that come after what is shown and what is held back may come with it.
LEMMA OrderedEmitted ==
  ASSUME EventTypes, Ordered, held = <<>>, UNCHANGED <<screen, owed, spoken>>,
         NEW lines \in Seq(Nat), NEW t \in TrackerType, Emits(lines, t), Rising(lines),
         \A m \in Numbers(lines) : m \in 1..spoken,
         Before(screen.log, lines), Before(deferred, lines),
         \A i \in 1..Len(output') :
            /\ output'[i].no <= spoken
            /\ output'[i].no # 0 => /\ Below(screen.log, output'[i].no) /\ Below(deferred, output'[i].no)
                                    /\ Below(lines, output'[i].no)
                                    /\ \A j \in 1..Len(output') :
                                          i < j /\ output'[j].no # 0 => output'[i].no < output'[j].no,
         \A m \in owed : m \in Numbers(screen.log) \cup Numbers(deferred) \cup Numbers(lines)
                         \/ \E i \in 1..Len(output') : output'[i].no = m
  PROVE  Ordered'
<1> PICK f : f = Len(Flush)
  OBVIOUS
<1>1. /\ f \in Nat /\ deferred' = <<>> /\ hidden' = FALSE /\ Len(held') = f + 1
      /\ held'[f + 1].lines = lines
      /\ \A k \in 1..f : held'[k].lines = IF k = 1 THEN deferred ELSE <<>>
      /\ deferred # <<>> => f > 0
  BY Emitted
<1>2. Numbers(<<>>) = {} /\ Rising(<<>>)
  BY Numberings
<1>3. \A k \in 1..(f + 1) : /\ k = f + 1 => held'[k].lines = lines
                            /\ k # f + 1 /\ k = 1 => held'[k].lines = deferred
                            /\ k # f + 1 /\ k # 1 => held'[k].lines = <<>>
  BY <1>1
<1>4. Bounded'
  BY <1>1, <1>2, <1>3 DEF Ordered, Bounded
<1>5. Queued'
  BY <1>1, <1>2, <1>3 DEF Queued, Below
<1>6. InLine'
  <2>1. /\ Rising(screen.log') /\ Rising(deferred') /\ Before(screen.log', deferred')
    BY <1>1, <1>2 DEF Ordered, InLine, Before
  <2>2. ASSUME NEW k \in 1..(f + 1)
        PROVE  /\ Rising(held'[k].lines) /\ Before(screen.log', held'[k].lines) /\ Before(held'[k].lines, deferred')
               /\ \A l \in 1..(f + 1) : k < l => Before(held'[k].lines, held'[l].lines)
    <3>1. Rising(held'[k].lines) /\ Before(screen.log', held'[k].lines)
      BY <1>2, <1>3 DEF Ordered, InLine, Before
    <3>2. Before(held'[k].lines, deferred')
      BY <1>1, <1>2 DEF Before
    <3>3. ASSUME NEW l \in 1..(f + 1), k < l PROVE Before(held'[k].lines, held'[l].lines)
      <4>1. k # f + 1 /\ l # 1
        BY <1>1, <3>3
      <4>2. CASE l # f + 1 \/ k # 1
        BY <1>2, <1>3, <4>1, <4>2 DEF Before
      <4>3. CASE l = f + 1 /\ k = 1
        BY <1>3, <4>1, <4>3
      <4> QED
        BY <4>2, <4>3
    <3> QED
      BY <3>1, <3>2, <3>3
  <2> QED
    BY <1>1, <2>1, <2>2 DEF InLine
<1>7. ASSUME NEW m \in owed' PROVE Found(m)'
  <2>1. m \in Numbers(screen.log) \cup Numbers(deferred) \cup Numbers(lines)
        \/ \E i \in 1..Len(output') : output'[i].no = m
    OBVIOUS
  <2>2. CASE m \in Numbers(deferred)
    <3>1. f > 0
      BY <1>1, <1>2, <2>2
    <3>2. 1 \in 1..Len(held') /\ held'[1].lines = deferred
      BY <1>1, <3>1
    <3> QED
      BY <2>2, <3>2 DEF Found
  <2>3. CASE m \in Numbers(lines)
    <3>1. f + 1 \in 1..Len(held') /\ held'[f + 1].lines = lines
      BY <1>1
    <3> QED
      BY <2>3, <3>1 DEF Found
  <2> QED
    BY <2>1, <2>2, <2>3 DEF Found
<1> QED
  BY <1>1, <1>4, <1>5, <1>6, <1>7 DEF Ordered

\* A line that is read keeps its place, and is not dropped when it is owed;
LEMMA OrderedRead ==
  ASSUME EventTypes, Ordered, NEW st, NEW ct, Follows(st, ct), ReadLine
  PROVE  Ordered'
<1> PICK x : x = output[1]
  OBVIOUS
<1>1. output # <<>> /\ output \in Seq(PipeLine)
  BY DEF ReadLine, EventTypes
<1>2. ~Rejects(tracker, output[1].kind)
  BY <1>1, NotRejected
<1>3. /\ x \in PipeLine /\ output' = Tail(output) /\ held = <<>>
      /\ reader = "reading" /\ reader' = "reading" /\ UNCHANGED <<producer, page>>
      /\ tracker' \in TrackerType /\ continuation' = Important(continuation, x.kind)
      /\ \/ /\ tracker.active /\ tracker'.active /\ held' = held
            /\ deferred' = IF continuation' THEN deferred \o Line(x) ELSE deferred
         \/ ~(tracker.active /\ tracker'.active) /\ Emits(Line(x), tracker')
  BY <1>2, LineRead DEF Ordered
<1>4. UNCHANGED <<screen, owed, spoken>>
  BY <1>3 DEF producer, page
<1> PICK m : m = Len(output)
  OBVIOUS
<1>5. /\ m \in Nat /\ m > 0 /\ Len(output') = m - 1
      /\ \A i \in 1..(m - 1) : output'[i] = output[i + 1] /\ i + 1 \in 1..m
  <2>1. m \in Nat /\ m > 0
    BY <1>1
  <2>2. Len(output') = m - 1 /\ \A i \in 1..Len(output') : output'[i] = output[i + 1]
    BY <1>1, <1>3, HeadTailProperties
  <2>3. \A i \in 1..(m - 1) : i + 1 \in 1..m
    BY <2>1
  <2> QED
    BY <2>1, <2>2, <2>3
<1>6. PICK lines \in Seq(Nat) : lines = Line(x)
  BY <1>3, LineNumbers
<1>7. /\ Rising(lines) /\ x.no \in Nat /\ Numbers(lines) = IF x.no = 0 THEN {} ELSE {x.no}
      /\ \A n \in Numbers(lines) : n = x.no /\ x.no # 0
  BY <1>3, <1>6, LineNumbers
\* It comes after what was shown and held back, and before the rest.
<1>8. \A n \in Numbers(lines) : n \in 1..spoken
  <2>1. 1 \in 1..m /\ spoken \in Nat
    BY <1>5 DEF EventTypes
  <2>2. x.no <= spoken
    BY <2>1 DEF Ordered, Bounded
  <2> QED
    BY <1>7, <2>1, <2>2
<1>9. x.no # 0 => Below(screen.log, x.no) /\ Below(deferred, x.no)
  BY <1>5 DEF Ordered, Queued
<1>10. Before(screen.log, lines) /\ Before(deferred, lines)
  BY <1>7, <1>9 DEF Before, Below
<1>11. ASSUME NEW i \in 1..(m - 1)
       PROVE  /\ output'[i].no <= spoken
              /\ output'[i].no # 0 => /\ Below(screen.log, output'[i].no) /\ Below(deferred, output'[i].no)
                                      /\ Below(lines, output'[i].no)
                                      /\ \A j \in 1..(m - 1) :
                                            i < j /\ output'[j].no # 0 => output'[i].no < output'[j].no
  <2>1. output'[i] = output[i + 1] /\ i + 1 \in 1..m /\ 1 < i + 1 /\ 1 \in 1..m
    BY <1>5
  <2>2. output[i + 1].no <= spoken
    BY <2>1 DEF Ordered, Bounded
  <2>3. output[i + 1].no # 0 => /\ Below(screen.log, output[i + 1].no) /\ Below(deferred, output[i + 1].no)
                                /\ \A j \in 1..m : i + 1 < j /\ output[j].no # 0 => output[i + 1].no < output[j].no
    BY <2>1 DEF Ordered, Queued
  <2>4. output[i + 1].no # 0 => Below(lines, output[i + 1].no)
    <3>1. x.no # 0 /\ output[i + 1].no # 0 => x.no < output[i + 1].no
      BY <2>1 DEF Ordered, Queued
    <3> QED
      BY <1>7, <3>1 DEF Below
  <2>5. \A j \in 1..(m - 1) : i < j => output'[j] = output[j + 1] /\ j + 1 \in 1..m /\ i + 1 < j + 1
    BY <1>5
  <2> QED
    BY <2>1, <2>2, <2>3, <2>4, <2>5
<1>12. ASSUME NEW n \in owed
       PROVE  \/ n \in Numbers(screen.log) \cup Numbers(deferred)
              \/ n = x.no /\ n \in Numbers(lines)
              \/ \E i \in 1..Len(output') : output'[i].no = n
  <2>1. n # 0
    BY DEF EventTypes
  <2>2. n \in Numbers(screen.log) \cup Numbers(deferred) \/ \E i \in 1..m : output[i].no = n
    BY <1>3 DEF Ordered, Found
  <2>3. ASSUME NEW i \in 1..m, output[i].no = n
        PROVE  (n = x.no /\ n \in Numbers(lines)) \/ \E j \in 1..Len(output') : output'[j].no = n
    <3>1. CASE i = 1
      BY <1>7, <2>1, <2>3, <3>1
    <3>2. CASE i # 1
      <4>1. i - 1 \in 1..(m - 1) /\ (i - 1) + 1 = i
        BY <1>5, <3>2
      <4> QED
        BY <1>5, <2>3, <4>1
    <3> QED
      BY <3>1, <3>2
  <2> QED
    BY <2>2, <2>3
<1>13. CASE ~(tracker.active /\ tracker'.active) /\ Emits(Line(x), tracker')
  <2>1. PICK t \in TrackerType : t = tracker'
    BY <1>3
  <2>2. Emits(lines, t)
    BY <1>6, <1>13, <2>1
  <2>3. \A n \in owed : n \in Numbers(screen.log) \cup Numbers(deferred) \cup Numbers(lines)
                        \/ \E i \in 1..Len(output') : output'[i].no = n
    BY <1>12
  <2> QED
    BY <1>3, <1>4, <1>5, <1>7, <1>8, <1>10, <1>11, <2>2, <2>3, OrderedEmitted
<1>14. CASE /\ tracker.active /\ tracker'.active /\ held' = held
            /\ deferred' = IF continuation' THEN deferred \o Line(x) ELSE deferred
  <2>1. deferred \in Seq(Nat) /\ screen.log \in Seq(Nat)
    BY DEF EventTypes
  <2>2. /\ Numbers(deferred') = Numbers(deferred) \cup (IF continuation' THEN Numbers(lines) ELSE {})
        /\ Rising(deferred')
    <3>1. CASE continuation'
      <4>1. deferred' = deferred \o lines
        BY <1>6, <1>14, <3>1
      <4> QED
        BY <1>6, <1>7, <1>10, <2>1, <3>1, <4>1, Numberings DEF Ordered, InLine
    <3>2. CASE ~continuation'
      BY <1>14, <3>2 DEF Ordered, InLine
    <3> QED
      BY <3>1, <3>2
  <2>3. Bounded'
    BY <1>3, <1>4, <1>5, <1>8, <1>11, <1>14, <2>2 DEF Ordered, Bounded
  <2>4. Queued'
    <3>1. \A n : Below(deferred, n) /\ Below(lines, n) => Below(deferred', n)
      BY <2>2 DEF Below
    <3> SUFFICES ASSUME NEW i \in 1..(m - 1), output'[i].no # 0
                 PROVE  /\ Below(screen.log, output'[i].no) /\ Below(deferred', output'[i].no)
                        /\ \A j \in 1..(m - 1) : i < j /\ output'[j].no # 0 => output'[i].no < output'[j].no
      BY <1>3, <1>4, <1>5, <1>14 DEF Queued, Below
    <3> QED
      BY <1>11, <3>1
  <2>5. InLine'
    <3>1. Before(screen.log, deferred')
      BY <1>10, <2>2 DEF Ordered, InLine, Before
    <3> QED
      BY <1>3, <1>4, <1>14, <2>2, <3>1 DEF Ordered, InLine, Before
  <2>6. ASSUME NEW n \in owed' PROVE Found(n)'
    <3>1. n \in owed
      BY <1>4
    <3>2. n = x.no => continuation'
      <4>1. 1 \in 1..m
        BY <1>5
      <4>2. output[1].no \in owed => ct[1]
        BY <4>1 DEF Follows
      <4>3. ct[1] = Important(ct[1 - 1], output[1].kind)
        BY <4>1 DEF Follows
      <4>4. ct[1] = continuation'
        BY <1>3, <4>3 DEF Follows
      <4> QED
        BY <3>1, <4>2, <4>4
    <3> QED
      BY <1>4, <1>12, <2>2, <3>1, <3>2 DEF Found
  <2> QED
    BY <1>3, <1>14, <2>3, <2>4, <2>5, <2>6 DEF Ordered
<1> QED
  BY <1>3, <1>13, <1>14

\* nor is what is held back at the end.
LEMMA OrderedEnd ==
  ASSUME EventTypes, Ordered, EndOfOutput
  PROVE  Ordered'
<1> PICK t : t = [tracker EXCEPT !.active = FALSE, !.stage = "ended"]
  OBVIOUS
<1>1. t \in TrackerType
  BY DEF EventTypes, TrackerType, Stages
<1>2. /\ held = <<>> /\ output = <<>> /\ output' = <<>> /\ UNCHANGED <<producer, page>> /\ Emits(<<>>, t)
  BY DEF EndOfOutput, Emits
<1>3. UNCHANGED <<screen, owed, spoken>>
  BY <1>2 DEF producer, page
<1>4. PICK lines \in Seq(Nat) : lines = <<>>
  <2>1. <<>> \in Seq(Nat)
    OBVIOUS
  <2> QED
    BY <2>1
<1>5. Rising(lines) /\ Numbers(lines) = {} /\ Before(screen.log, lines) /\ Before(deferred, lines)
  BY <1>4, Numberings DEF Before
<1>6. Emits(lines, t)
  BY <1>2, <1>4
<1>7. Len(output') = 0
  BY <1>2
<1>8. \A m \in owed : m \in Numbers(screen.log) \cup Numbers(deferred) \cup Numbers(lines)
  BY <1>2 DEF Ordered, Found
<1> QED
  BY <1>1, <1>2, <1>3, <1>5, <1>6, <1>7, <1>8, OrderedEmitted

\* A callback moves its lines to the log.
LEMMA OrderedShown ==
  ASSUME EventTypes, Ordered, Show
  PROVE  Ordered'
<1>1. /\ held # <<>> /\ held' = Tail(held) /\ UNCHANGED <<output, owed, spoken, deferred, hidden, tracker, reader>>
      /\ screen'.log = screen.log \o Head(held).lines
  BY DEF Show, producer, listener
<1> PICK m : m = Len(held)
  OBVIOUS
<1> PICK lines : lines = held[1].lines
  OBVIOUS
<1>2. /\ m \in Nat /\ m > 0 /\ Len(held') = m - 1 /\ 1 \in 1..m
      /\ \A k \in 1..(m - 1) : held'[k] = held[k + 1] /\ k + 1 \in 1..m /\ 1 < k + 1
      /\ lines \in Seq(Nat) /\ Head(held) = held[1]
  <2>1. held \in Seq(CallbackType) /\ m \in Nat /\ m > 0
    BY <1>1 DEF EventTypes
  <2>2. Len(held') = m - 1 /\ \A k \in 1..Len(held') : held'[k] = held[k + 1]
    BY <1>1, <2>1, HeadTailProperties
  <2>3. 1 \in 1..m /\ \A k \in 1..(m - 1) : k + 1 \in 1..m /\ 1 < k + 1
    BY <2>1
  <2>4. held[1] \in CallbackType /\ Head(held) = held[1]
    BY <2>1
  <2>5. lines \in Seq(Nat)
    BY <2>4 DEF CallbackType
  <2> QED
    BY <2>1, <2>2, <2>3, <2>4, <2>5
<1>3. screen.log \in Seq(Nat) /\ screen'.log = screen.log \o lines
  BY <1>1, <1>2 DEF EventTypes
<1>4. Rising(lines) /\ Before(screen.log, lines) /\ Rising(screen.log) /\ Before(lines, deferred)
  BY <1>2 DEF Ordered, InLine
<1>5. Numbers(screen'.log) = Numbers(screen.log) \cup Numbers(lines) /\ Rising(screen'.log)
  BY <1>2, <1>3, <1>4, Numberings
<1>6. Bounded'
  <2>1. \A n \in Numbers(lines) : n \in 1..spoken
    BY <1>2 DEF Ordered, Bounded
  <2> QED
    BY <1>1, <1>2, <1>5, <2>1 DEF Ordered, Bounded
<1>7. Queued'
  <2>1. \A i \in 1..Len(output) : output[i].no # 0 => Below(lines, output[i].no)
    BY <1>2 DEF Ordered, Queued
  <2> QED
    BY <1>1, <1>2, <1>5, <2>1 DEF Ordered, Queued, Below
<1>8. InLine'
  <2>1. Before(screen'.log, deferred')
    BY <1>1, <1>4, <1>5 DEF Ordered, InLine, Before
  <2>2. ASSUME NEW k \in 1..(m - 1)
        PROVE  /\ Rising(held'[k].lines) /\ Before(screen'.log, held'[k].lines) /\ Before(held'[k].lines, deferred')
               /\ \A l \in 1..(m - 1) : k < l => Before(held'[k].lines, held'[l].lines)
    <3>1. /\ Rising(held[k + 1].lines) /\ Before(screen.log, held[k + 1].lines)
          /\ Before(held[k + 1].lines, deferred) /\ Before(lines, held[k + 1].lines)
      BY <1>2 DEF Ordered, InLine
    <3>2. \A l \in 1..(m - 1) : k < l => k + 1 < l + 1 /\ held'[l] = held[l + 1] /\ l + 1 \in 1..m
      BY <1>2
    <3>3. \A l \in 1..m : k + 1 < l => Before(held[k + 1].lines, held[l].lines)
      BY <1>2 DEF Ordered, InLine
    <3>4. Before(screen'.log, held[k + 1].lines)
      BY <1>5, <3>1 DEF Before
    <3> QED
      BY <1>1, <1>2, <3>1, <3>2, <3>3, <3>4
  <2> QED
    BY <1>1, <1>2, <1>5, <2>1, <2>2 DEF Ordered, InLine
<1>9. ASSUME NEW n \in owed' PROVE Found(n)'
  <2>1. Found(n)
    BY <1>1 DEF Ordered
  <2>2. ASSUME NEW k \in 1..m, n \in Numbers(held[k].lines)
        PROVE  n \in Numbers(screen'.log) \/ \E l \in 1..Len(held') : n \in Numbers(held'[l].lines)
    <3>1. CASE k = 1
      BY <1>5, <2>2, <3>1
    <3>2. CASE k # 1
      <4>1. k - 1 \in 1..(m - 1) /\ (k - 1) + 1 = k
        BY <1>2, <3>2
      <4> QED
        BY <1>2, <2>2, <4>1
    <3> QED
      BY <3>1, <3>2
  <2> QED
    BY <1>1, <1>5, <2>1, <2>2 DEF Found
<1> QED
  BY <1>1, <1>6, <1>7, <1>8, <1>9 DEF Ordered

\* So the lines stay in order in every step.
LEMMA OrderedStep ==
  ASSUME EventTypes, Ordered, NEW st, NEW ct, Follows(st, ct), [EventsNext]_eventVars
  PROVE  Ordered'
<1>1. CASE Produce
  <2>1. UNCHANGED <<screen, deferred, hidden, held, tracker, reader>>
    BY <1>1 DEF Produce, listener, page
  <2>2. CASE Silent
    BY <2>1, <2>2, OrderKept DEF Silent
  <2>3. ASSUME NEW what \in EventKinds, NEW n \in 0..NumItems, Wrote(what, n) PROVE Ordered'
    BY <2>1, <2>3, OrderedWritten
  <2> QED
    BY <1>1, <2>2, <2>3, WriterStep DEF EventTypes
<1>2. CASE ReadLine
  BY <1>2, OrderedRead
<1>3. CASE EndOfOutput
  BY <1>3, OrderedEnd
<1>4. CASE Show
  BY <1>4, OrderedShown
<1>5. CASE Tick \/ UNCHANGED eventVars
  <2>1. UNCHANGED <<screen, deferred, hidden, held, output, owed, spoken, tracker, reader>>
    BY <1>5 DEF Tick, eventVars, producer, listener, page
  <2> QED
    BY <2>1, OrderKept
<1> QED
  BY <1>1, <1>2, <1>3, <1>4, <1>5 DEF EventsNext

\* The invariant holds at first,
LEMMA EventsStart == EventsInit => EventInv
<1> SUFFICES ASSUME EventsInit PROVE EventInv
  OBVIOUS
<1>1. FreshTracker \in TrackerType /\ ~FreshTracker.active
  BY EventsAssumption DEF FreshTracker, TrackerType, Stages
<1>2. <<>> \in Seq(Nat) /\ <<>> \in Seq(PipeLine) /\ <<>> \in Seq(CallbackType)
  OBVIOUS
<1>3. /\ Len(output) = 0 /\ Len(held) = 0 /\ output = <<>> /\ held = <<>> /\ deferred = <<>> /\ hidden = FALSE
      /\ tracker = FreshTracker /\ continuation = FALSE /\ alarm = FALSE /\ owed = {} /\ reader = "reading"
      /\ screen.log = <<>> /\ screen.shown = FreshTracker /\ phase = "prepare" /\ item = 0
  BY DEF EventsInit
<1>4. EventTypes
  <2>1. /\ command \in {"run", "probe"} /\ item \in 0..NumItems /\ failing \in BOOLEAN /\ elapsed \in {0, 1}
        /\ spoken \in Nat /\ owed \subseteq 1..spoken
    <3>1. NumItems \in Nat /\ command \in {"run", "probe"}
      BY EventsAssumption DEF EventsInit
    <3>2. failing = FALSE /\ elapsed = 0 /\ spoken = 0
      BY DEF EventsInit
    <3>3. owed \subseteq 1..spoken /\ item \in 0..NumItems
      BY <1>3, <3>1
    <3> QED
      BY <3>1, <3>2, <3>3
  <2>2. screen \in [shown : TrackerType, log : Seq(Nat)]
    BY <1>1, <1>2 DEF EventsInit
  <2> QED
    BY <1>1, <1>2, <1>3, <2>1, <2>2 DEF EventTypes
<1>5. \E st, ct : Follows(st, ct)
  <2> PICK st : st = [i \in 0..0 |-> FreshTracker]
    OBVIOUS
  <2> PICK ct : ct = [i \in 0..0 |-> FALSE]
    OBVIOUS
  <2>1. /\ st \in [0..0 -> TrackerType] /\ ct \in [0..0 -> BOOLEAN]
        /\ st[0] = tracker /\ ct[0] = continuation /\ ct[0] = alarm
    <3>1. /\ 0 \in 0..0 /\ st[0] = FreshTracker /\ ct[0] = FALSE
      OBVIOUS
    <3>2. st \in [0..0 -> TrackerType] /\ ct \in [0..0 -> BOOLEAN]
      BY <1>1
    <3> QED
      BY <1>3, <3>1, <3>2
  <2>2. Due(st[0])
    BY <1>1, <1>3, <2>1 DEF Due, Expected
  <2>3. \A i \in 0..0 : st[0].active => st[i].active
    OBVIOUS
  <2>4. Follows(st, ct)
    BY <1>3, <2>1, <2>2, <2>3 DEF Follows
  <2> QED
    BY <2>4
<1>6. Shown
  BY <1>3 DEF Shown, Agrees
<1>7. Ordered
  BY <1>3, Numberings DEF Ordered, Bounded, Queued, InLine, Before
<1> QED
  BY <1>4, <1>5, <1>6, <1>7 DEF EventInv

\* is inductive,
LEMMA EventsStep == EventInv /\ [EventsNext]_eventVars => EventInv'
<1> SUFFICES ASSUME EventInv, [EventsNext]_eventVars PROVE EventInv'
  OBVIOUS
<1>1. EventTypes /\ Shown /\ Ordered /\ Bounded /\ (~tracker.active \/ reader = "ended" => deferred = <<>> /\ ~hidden)
  BY DEF EventInv, Ordered
<1>2. PICK st, ct : Follows(st, ct)
  BY DEF EventInv
<1>3. output # <<>> => ~Rejects(tracker, output[1].kind)
  BY <1>1, <1>2, NotRejected
<1>4. EventTypes'
  BY <1>1, <1>3, EventTypesStep
<1>5. (\E s2, c2 : Follows(s2, c2))'
  BY <1>1, <1>2, FollowsStep
<1>6. Shown'
  BY <1>1, <1>3, ShownStep
<1>7. Ordered'
  BY <1>1, <1>2, OrderedStep
<1> QED
  BY <1>4, <1>5, <1>6, <1>7 DEF EventInv

\* and holds always.
LEMMA EventsInvariant == EventSpec => []EventInv
BY EventsStart, EventsStep, PTL DEF EventSpec

\* In a window it knows of the reader is alive and its tracker active.
LEMMA KnownWindow ==
  ASSUME EventInv, Measuring, Known
  PROVE  tracker.active /\ reader = "reading"
<1>1. PICK st, ct : Follows(st, ct)
  BY DEF EventInv
<1>2. command \in {"run", "probe"} /\ Len(output) \in Nat /\ reader \in {"reading", "ended"}
  BY DEF EventInv, EventTypes
<1>3. st[Len(output)].active
  BY <1>1, <1>2 DEF Follows, Due, Expected, Measuring
<1>4. st[0].active \/ \E j \in (0 + 1)..Len(output) : output[j].kind \in Openers
  BY <1>1, <1>2, <1>3 DEF Follows
<1>5. st[0].active
  BY <1>2, <1>4 DEF Known, Openers
<1>6. tracker.active
  BY <1>1, <1>5 DEF Follows
<1>7. reader = "reading"
  BY <1>2 DEF EventInv, Shown, Measuring
<1> QED
  BY <1>6, <1>7

\* No line, event or interrupt ends a measurement for the monitor page before
\* it ends, and none makes the reader thread stop the command: for every number
\* of cases or memories, size of the pipe, of messages and of interrupts.
THEOREM WindowStaysKnown == EventSpec => []WindowIsKnown
<1>1. EventInv => WindowIsKnown
  <2> SUFFICES ASSUME EventInv PROVE WindowIsKnown
    OBVIOUS
  <2>1. reader # "refused"
    BY DEF EventInv, EventTypes
  <2>2. ASSUME Measuring, Known PROVE tracker.active /\ (held = <<>> => screen.shown.active)
    BY <2>2, KnownWindow DEF EventInv, Shown, Agrees
  <2> QED
    BY <2>1, <2>2 DEF WindowIsKnown
<1> QED
  BY <1>1, EventsInvariant, PTL

\* While the page shows a measurement that runs, it draws nothing: no line, no
\* snapshot and not the clock.
THEOREM ScreenStaysStill == EventSpec => ScreenStill
<1>1. EventInv /\ [EventsNext]_eventVars
      => [Len(held') < Len(held) \/ elapsed' # elapsed
          => ~(Measuring /\ Known /\ screen.shown.active)]_eventVars
  <2> SUFFICES ASSUME EventInv, [EventsNext]_eventVars, Len(held') < Len(held) \/ elapsed' # elapsed,
                      Measuring, Known, screen.shown.active
               PROVE  FALSE
    OBVIOUS
  <2>1. tracker.active /\ reader = "reading"
    BY KnownWindow
  <2>2. held = <<>>
    BY <2>1 DEF EventInv, Shown
  <2>3. Len(held) = 0 /\ held \in Seq(CallbackType)
    BY <2>2 DEF EventInv, EventTypes
  <2>4. held' \in Seq(CallbackType)
    BY EventsStep DEF EventInv, EventTypes
  <2>5. elapsed' # elapsed
    BY <2>3, <2>4
  <2> QED
    BY <2>2, <2>5 DEF EventsNext, Produce, ReadLine, EndOfOutput, Show, Tick, eventVars, page
<1> QED
  BY <1>1, EventsInvariant, PTL DEF EventSpec, ScreenStill

\* Between two memories of a largest-scale probe the page shows how many were
\* tried.
THEOREM MemoriesStayCounted == EventSpec => []MemoriesAreCounted
<1>1. EventInv => MemoriesAreCounted
  <2> SUFFICES ASSUME EventInv, command = "probe", AtRest, phase = "next"
               PROVE  screen.shown.done = item /\ screen.shown.current = item
    BY DEF MemoriesAreCounted
  <2>1. PICK st, ct : Follows(st, ct)
    BY DEF EventInv
  <2>2. Len(output) = 0
    BY DEF AtRest
  <2>3. Due(tracker)
    BY <2>1, <2>2 DEF Follows
  <2>4. ~tracker.active /\ tracker.done = item /\ tracker.current = item
    BY <2>3 DEF Due, Expected
  <2> QED
    BY <2>4 DEF EventInv, Shown, Agrees, AtRest
<1> QED
  BY <1>1, EventsInvariant, PTL

\* Every diagnostic the command printed is in the pipe, held back, with the
\* screen or in the log, once and in order.
THEOREM DiagnosticsStayInOrder == EventSpec => []DiagnosticsAreShown
<1>1. EventInv => DiagnosticsAreShown
  <2> SUFFICES ASSUME EventInv PROVE DiagnosticsAreShown
    OBVIOUS
  <2>1. InLine /\ (\A m \in owed : Found(m)) /\ (reader = "ended" => deferred = <<>> /\ ~hidden)
    BY DEF EventInv, Ordered
  <2> DEFINE inHeld == UNION {Numbers(held[k].lines) : k \in 1..Len(held)}
             inPipe == {output[i].no : i \in 1..Len(output)}
  <2>2. ASSUME NEW m \in owed
        PROVE  m \in Numbers(screen.log) \/ m \in Numbers(deferred) \/ m \in inHeld \/ m \in inPipe
    <3>1. Found(m)
      BY <2>1
    <3>2. CASE \E k \in 1..Len(held) : m \in Numbers(held[k].lines)
      BY <3>2
    <3>3. CASE \E i \in 1..Len(output) : output[i].no = m
      BY <3>3
    <3> QED
      BY <3>1, <3>2, <3>3 DEF Found
  <2>3. owed \subseteq Numbers(screen.log) \cup Numbers(deferred) \cup inHeld \cup inPipe
    <3> HIDE DEF inHeld, inPipe
    <3> QED
      BY <2>2
  <2>4. /\ Rising(screen.log) /\ Rising(deferred) /\ Before(screen.log, deferred)
        /\ \A k \in 1..Len(held) :
              /\ Rising(held[k].lines) /\ Before(screen.log, held[k].lines) /\ Before(held[k].lines, deferred)
              /\ \A l \in 1..Len(held) : k < l => Before(held[k].lines, held[l].lines)
    BY <2>1 DEF InLine
  <2>5. reader = "ended" => deferred = <<>> /\ ~hidden
    BY <2>1
  <2> QED
    BY <2>3, <2>4, <2>5, Zenon DEF DiagnosticsAreShown
<1> QED
  BY <1>1, EventsInvariant, PTL

\* The monitor page follows its command and leaves it undisturbed while it
\* measures, for any number of cases or memories, any pipe and any interrupts.
THEOREM PageAlwaysFollows == EventSpec => PageFollows
BY WindowStaysKnown, DiagnosticsStayInOrder, MemoriesStayCounted, ScreenStaysStill, PTL DEF PageFollows
===============================================================================
