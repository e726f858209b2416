---------------------------- MODULE Services_proofs ----------------------------
(***************************************************************************)
(* What holds of what runs before, beside and around a measurement, each   *)
(* under its own specification.                                            *)
(*                                                                         *)
(* LoadProtocol, for any number of requests and workers, any bound on what *)
(* is pending and either scenario: a load keeps its limits, its report     *)
(* accounts for every request once, and a complete report stands for a     *)
(* whole load. The invariant says who has which request (Held), what is    *)
(* known of a request from where it is (Told), that what is outstanding is *)
(* pending and bounded (Bounded), and what each phase of the main thread   *)
(* has left behind (Phased).                                               *)
(*                                                                         *)
(* AutomationLocks, for any commands: the report of `acprof auto' says of  *)
(* the run what the run's record says.                                     *)
(*                                                                         *)
(* StartupPruning, for any matrix: the cases that run are those the frozen *)
(* plan wants, the plan follows from the report of the probes, and with at *)
(* most one edit of the files a case is inferred only from kills that      *)
(* happened.                                                               *)
(*                                                                         *)
(* LatencyModel, for any results and whatever the fits are off by: a plot  *)
(* that says ready has predicted every case blind and closely. Hardware is *)
(* settled once, in order (Awaited); a prediction is of a point of the     *)
(* table and, of the largest scale, by smaller ones (Predicted); what was  *)
(* found fit stays so while other hardware is predicted (Passed).          *)
(*                                                                         *)
(* ModelSelection, for any tasks, any operations that serve them and any   *)
(* commits: a model is measured at a task the user has named, or at one    *)
(* that nothing seen of the commit contradicts. The invariant says when a  *)
(* task is backed (ModelOK), that the tasks among answers, kept or not,    *)
(* were named for the commit they are kept under (AnswersOK), and carries  *)
(* that over any number of answers given again (GivenIsOK).                *)
(***************************************************************************)
EXTENDS LoadProtocol, AutomationLocks, StartupPruning, LatencyModel, ModelSelection,
        FiniteSetTheorems, SequenceTheorems, WellFoundedInduction, TLAPS

Limit == IF OpenLoop THEN MaxPending ELSE Cardinality(Workers)
Before == {"lock", "warmup", "capture"}
Joined == {"count", "uncapture", "stop", "over"}
Good == {"ok", "error"} \cup (IF OpenLoop THEN {"dropped"} ELSE {})

\* A request that runs is held by one worker, and each busy worker has one.
Held ==
    /\ \A w \in Workers : holds[w] # 0 <=> doing[w] # "idle"
    /\ \A w \in Workers : holds[w] # 0 => future[holds[w]] = "running"
    /\ \A v, w \in Workers : holds[v] = holds[w] /\ holds[v] # 0 => v = w
    /\ \A i \in Index : future[i] = "running" => \E w \in Workers : holds[w] = i
    /\ \A w \in Workers : doing[w] = "read" <=> (doing[w] # "idle" /\ outcomes[holds[w]] = "sent")

\* What has not been offered is absent; what was offered and is absent was
\* dropped; what was sent is still running.
Told ==
    \A i \in Index :
        /\ i >= upcoming => future[i] = "absent" /\ (loadPc \notin Joined => outcomes[i] = "none")
        /\ i < upcoming /\ future[i] = "absent" => OpenLoop /\ outcomes[i] = "dropped"
        /\ outcomes[i] = "sent" => future[i] = "running"
        /\ future[i] = "done" /\ ~cancelled => outcomes[i] \in {"ok", "error"}
        /\ future[i] = "withdrawn" => cancelled

Bounded == Outstanding \subseteq pending /\ IsFiniteSet(pending) /\ Cardinality(pending) <= Limit

Phased ==
    /\ loadPc \in Before => upcoming = 1
    /\ loadPc \in Before \cup {"offer"} => loadError = "none" /\ ~cancelled
    /\ cancelled => loadError # "none"
    /\ loadPc \in {"withdraw", "shut"} => cancelled
    /\ loadPc = "join" /\ ~cancelled => upcoming = Requests + 1 /\ Outstanding = {}
    /\ loadPc \in Joined => Outstanding = {}
    /\ loadPc = "count" /\ ~cancelled => upcoming = Requests + 1
    /\ loadPc = "uncapture" \/ (loadPc \in {"stop", "over"} /\ upcoming > 1) =>
          \A i \in Index : outcomes[i] \in Final
    /\ loadPc \in {"uncapture", "stop", "over"} /\ loadError = "none" =>
          \A i \in Index : outcomes[i] \in Good
    /\ loadReport # "running" => loadPc = "over"
    /\ loadReport = "complete" => loadError = "none"

LoadInv == LoadTypeOK /\ Held /\ Told /\ Bounded /\ Phased
-----------------------------------------------------------------------------
Futures == {"absent", "queued", "running", "done", "withdrawn"}
Fates == {"none", "taken", "sent", "ok", "error", "dropped", "cancelled"}

\* What is well founded has a first element in every set of numbers.
LEMMA MinimumOf ==
    ASSUME NEW Less, IsWellFoundedOn(Less, Nat), NEW T, T \subseteq Nat, T # {}
    PROVE  \E x \in T : \A y \in T : ~ (<<y, x>> \in Less)
BY WFMin

\* A set of numbers has a smallest one.
LEMMA LeastOf ==
    ASSUME NEW T, T \subseteq Nat, T # {}
    PROVE  \E x \in T : \A y \in T : x <= y
<1>1. ASSUME NEW Less, IsWellFoundedOn(Less, Nat), \A a, b \in Nat : a < b => <<a, b>> \in Less
      PROVE  \E x \in T : \A y \in T : x <= y
  <2>1. PICK x \in T : \A y \in T : ~ (<<y, x>> \in Less)
    BY <1>1, MinimumOf
  <2>2. \A y \in T : ~(y < x)
    BY <1>1, <2>1
  <2>3. \A y \in T : x <= y
    BY <2>2
  <2> QED
    BY <2>3
<1>2. \A a, b \in Nat : a < b => <<a, b>> \in OpToRel(<, Nat)
  BY Zenon DEF OpToRel
<1> QED
  BY <1>1, <1>2, NatLessThanWellFounded, Zenon

\* The oldest of a set of requests is one of them.
LEMMA FirstIsOldest ==
    ASSUME NEW S \in SUBSET Nat, S # {} PROVE First(S) \in S
<1>1. \E i \in S : \A j \in S : i <= j
  BY LeastOf
<1> QED
  BY <1>1 DEF First

LEMMA LoadBounds ==
    ASSUME LoadInv
    PROVE  /\ LoadTypeOK
           /\ Requests \in Nat \ {0} /\ upcoming \in Int /\ Index \subseteq Nat \ {0}
           /\ upcoming <= Requests => upcoming \in Index
           /\ \A i \in Index : i <= Requests
           /\ \A w \in Workers : holds[w] # 0 => holds[w] \in Index
           /\ future \in [Index -> Futures] /\ outcomes \in [Index -> Fates]
           /\ \A i \in Index : future[i] \in Futures /\ outcomes[i] \in Fates
           /\ IsFiniteSet(Workers) /\ Cardinality(Workers) \in Nat /\ Cardinality(Workers) # 0
           /\ Limit \in Nat /\ MaxPending \in Nat /\ Cardinality(pending) \in Nat
<1>1. LoadTypeOK /\ Bounded
  BY DEF LoadInv
<1>2. /\ IsFiniteSet(Workers) /\ Cardinality(Workers) \in Nat /\ Cardinality(Workers) # 0
      /\ Cardinality(pending) \in Nat
  BY <1>1, LoadAssumption, FS_CardinalityType, FS_EmptySet DEF Bounded
<1>3. Limit \in Nat /\ MaxPending \in Nat
  BY <1>2, LoadAssumption DEF Limit
<1>4. Requests \in Nat \ {0} /\ upcoming \in 1..(Requests + 1)
  BY <1>1, LoadAssumption DEF LoadTypeOK
<1>5. holds \in [Workers -> Index \cup {0}]
  BY <1>1 DEF LoadTypeOK
<1>6. future \in [Index -> Futures] /\ outcomes \in [Index -> Fates]
  BY <1>1 DEF LoadTypeOK, Futures, Fates
<1> QED
  BY <1>1, <1>2, <1>3, <1>4, <1>5, <1>6 DEF Index

\* What is outstanding only shrinks while the main thread waits.
LEMMA BoundedShrinks ==
    ASSUME LoadInv, UNCHANGED <<scenario, pending>>, Outstanding' \subseteq Outstanding
    PROVE  Bounded'
BY DEF LoadInv, Bounded, Limit, OpenLoop

\* A worker puts its request down.
LEMMA FinishKeeps ==
    ASSUME LoadInv, NEW w \in Workers, doing[w] # "idle",
           NEW outcome \in {"taken", "ok", "error"}, FinishLoad(w, outcome),
           outcome = "taken" => cancelled,
           UNCHANGED <<scenario, loadPc, upcoming, pending, cancelled, loadError, loadReport>>
    PROVE  Held' /\ Told' /\ Bounded' /\ Phased' /\ future' \in [Index -> Futures]
           /\ outcomes' \in [Index -> Fates] /\ holds' \in [Workers -> Index \cup {0}]
           /\ doing' \in [Workers -> {"idle", "check", "send", "read"}]
<1> DEFINE r == holds[w]
<1>1. r # 0 /\ r \in Index /\ future[r] = "running"
  BY LoadBounds DEF LoadInv, Held
<1>2. /\ future' \in [Index -> Futures] /\ future'[r] = "done"
      /\ outcomes' \in [Index -> Fates] /\ outcomes'[r] = outcome
      /\ \A i \in Index \ {r} : future'[i] = future[i] /\ outcomes'[i] = outcomes[i]
  BY <1>1, LoadBounds DEF FinishLoad, Futures, Fates
<1>3. /\ holds \in [Workers -> Index \cup {0}] /\ doing \in [Workers -> {"idle", "check", "send", "read"}]
  BY LoadBounds DEF LoadTypeOK
<1>4. /\ holds' \in [Workers -> Index \cup {0}] /\ doing' \in [Workers -> {"idle", "check", "send", "read"}]
      /\ holds'[w] = 0 /\ doing'[w] = "idle"
      /\ \A v \in Workers \ {w} : holds'[v] = holds[v] /\ doing'[v] = doing[v]
  BY <1>3 DEF FinishLoad, Move
<1>5. \A v \in Workers \ {w} : holds[v] # r
  BY <1>1 DEF LoadInv, Held
<1>6. Held'
  <2>1. \A v \in Workers : holds'[v] # 0 <=> doing'[v] # "idle"
    BY <1>4 DEF LoadInv, Held
  <2>2. \A v \in Workers : holds'[v] # 0 => future'[holds'[v]] = "running"
    BY <1>2, <1>4, <1>5, LoadBounds DEF LoadInv, Held
  <2>3. \A u, v \in Workers : holds'[u] = holds'[v] /\ holds'[u] # 0 => u = v
    BY <1>4 DEF LoadInv, Held
  <2>4. \A i \in Index : future'[i] = "running" => \E v \in Workers : holds'[v] = i
    <3> SUFFICES ASSUME NEW i \in Index, future'[i] = "running" PROVE \E v \in Workers : holds'[v] = i
      OBVIOUS
    <3>1. i # r /\ future[i] = "running"
      BY <1>2
    <3>2. PICK v \in Workers : holds[v] = i
      BY <3>1 DEF LoadInv, Held
    <3> QED
      BY <1>4, <3>1, <3>2
  <2>5. \A v \in Workers : doing'[v] = "read" <=> (doing'[v] # "idle" /\ outcomes'[holds'[v]] = "sent")
    <3> SUFFICES ASSUME NEW v \in Workers \ {w}
                 PROVE  doing'[v] = "read" <=> (doing'[v] # "idle" /\ outcomes'[holds'[v]] = "sent")
      BY <1>4
    <3>1. doing[v] # "idle" => holds[v] \in Index \ {r}
      BY <1>5, LoadBounds DEF LoadInv, Held
    <3> QED
      BY <1>2, <1>4, <3>1 DEF LoadInv, Held
  <2> QED
    BY <2>1, <2>2, <2>3, <2>4, <2>5 DEF Held
<1>7. Told'
  <2> SUFFICES ASSUME NEW i \in Index
               PROVE  /\ i >= upcoming => future'[i] = "absent" /\ (loadPc \notin Joined => outcomes'[i] = "none")
                      /\ i < upcoming /\ future'[i] = "absent" => OpenLoop /\ outcomes'[i] = "dropped"
                      /\ outcomes'[i] = "sent" => future'[i] = "running"
                      /\ future'[i] = "done" /\ ~cancelled => outcomes'[i] \in {"ok", "error"}
                      /\ future'[i] = "withdrawn" => cancelled
    BY DEF Told, OpenLoop
  <2>1. CASE i = r
    BY <1>1, <1>2, <2>1 DEF LoadInv, Told
  <2>2. CASE i # r
    BY <1>2, <2>2 DEF LoadInv, Told
  <2> QED
    BY <2>1, <2>2
<1>8. Outstanding' \subseteq Outstanding
  BY <1>2 DEF Outstanding
<1>9. Bounded'
  BY <1>8, BoundedShrinks
<1>10. r \in Outstanding
  BY <1>1 DEF Outstanding
<1>11. Phased'
  BY <1>8, <1>10 DEF LoadInv, Phased, Joined, Good, OpenLoop
<1> QED
  BY <1>2, <1>4, <1>6, <1>7, <1>9, <1>11
LEMMA OpenSessionKeeps ==
    ASSUME LoadInv, OpenSession, scenario' = scenario PROVE LoadInv'
<1>1. UNCHANGED <<scenario, upcoming, pending, future, outcomes, holds, doing, socket, cancelled, capture, loadReport>>
  BY DEF OpenSession, pool, offering, outer
<1>2. loadPc = "lock"
  BY  DEF OpenSession
<1>3. \/ loadPc' = "warmup" /\ loadSession' = "running" /\ UNCHANGED loadError
      \/ loadPc' = "over" /\ loadError' \in Errors /\ UNCHANGED loadSession
  BY  DEF OpenSession
<1>4. LoadTypeOK'
  BY <1>1, <1>2, <1>3, LoadBounds DEF LoadTypeOK, Errors, Futures, Fates
<1>5. Held'
  BY <1>1, <1>2, <1>3, LoadBounds DEF LoadInv, Held
<1>6. Told'
  BY <1>1, <1>2, <1>3, LoadBounds DEF LoadInv, Told, OpenLoop, Joined, Before, Phased
<1>7. Bounded'
  <2>1. Outstanding' \subseteq Outstanding
    BY <1>1, <1>2, <1>3 DEF Outstanding
  <2> QED
    BY <1>1, <2>1, BoundedShrinks
<1>8. Phased'
  BY <1>1, <1>2, <1>3, LoadBounds DEF LoadInv, Phased, Told, Before, Joined, Good, OpenLoop, Outstanding, Final, Errors
<1> QED
  BY <1>4, <1>5, <1>6, <1>7, <1>8 DEF LoadInv

LEMMA WarmupKeeps ==
    ASSUME LoadInv, Warmup, scenario' = scenario PROVE LoadInv'
<1>1. UNCHANGED <<scenario, upcoming, pending, future, outcomes, holds, doing, socket, cancelled, loadSession, capture, loadReport>>
  BY DEF Warmup, pool, offering, outer
<1>2. loadPc = "warmup"
  BY  DEF Warmup
<1>3. \/ loadPc' = "capture" /\ UNCHANGED loadError
      \/ loadPc' = "stop" /\ loadError' \in Errors
  BY  DEF Warmup
<1>4. LoadTypeOK'
  BY <1>1, <1>2, <1>3, LoadBounds DEF LoadTypeOK, Errors, Futures, Fates
<1>5. Held'
  BY <1>1, <1>2, <1>3, LoadBounds DEF LoadInv, Held
<1>6. Told'
  BY <1>1, <1>2, <1>3, LoadBounds DEF LoadInv, Told, OpenLoop, Joined, Before, Phased
<1>7. Bounded'
  <2>1. Outstanding' \subseteq Outstanding
    BY <1>1, <1>2, <1>3 DEF Outstanding
  <2> QED
    BY <1>1, <2>1, BoundedShrinks
<1>8. Phased'
  BY <1>1, <1>2, <1>3, LoadBounds DEF LoadInv, Phased, Told, Before, Joined, Good, OpenLoop, Outstanding, Final, Errors
<1> QED
  BY <1>4, <1>5, <1>6, <1>7, <1>8 DEF LoadInv

LEMMA StartCaptureKeeps ==
    ASSUME LoadInv, StartCapture, scenario' = scenario PROVE LoadInv'
<1>1. UNCHANGED <<scenario, upcoming, pending, future, outcomes, holds, doing, socket, cancelled, loadSession, loadReport>>
  BY DEF StartCapture, pool, offering, outer
<1>2. loadPc = "capture"
  BY  DEF StartCapture
<1>3. \/ loadPc' = "offer" /\ capture' = "on" /\ UNCHANGED loadError
      \/ loadPc' = "stop" /\ loadError' \in Errors /\ UNCHANGED capture
  BY  DEF StartCapture
<1>4. LoadTypeOK'
  BY <1>1, <1>2, <1>3, LoadBounds DEF LoadTypeOK, Errors, Futures, Fates
<1>5. Held'
  BY <1>1, <1>2, <1>3, LoadBounds DEF LoadInv, Held
<1>6. Told'
  BY <1>1, <1>2, <1>3, LoadBounds DEF LoadInv, Told, OpenLoop, Joined, Before, Phased
<1>7. Bounded'
  <2>1. Outstanding' \subseteq Outstanding
    BY <1>1, <1>2, <1>3 DEF Outstanding
  <2> QED
    BY <1>1, <2>1, BoundedShrinks
<1>8. Phased'
  BY <1>1, <1>2, <1>3, LoadBounds DEF LoadInv, Phased, Told, Before, Joined, Good, OpenLoop, Outstanding, Final, Errors
<1> QED
  BY <1>4, <1>5, <1>6, <1>7, <1>8 DEF LoadInv

LEMMA DrainKeeps ==
    ASSUME LoadInv, Drain, scenario' = scenario PROVE LoadInv'
<1>1. UNCHANGED <<scenario, upcoming, pending, future, outcomes, holds, doing, socket, cancelled, loadError, loadSession, capture, loadReport>>
  BY DEF Drain, pool, offering, outer
<1>2. loadPc = "offer" /\ upcoming = Requests + 1 /\ pending \subseteq Done /\ loadPc' = "join"
  BY LoadBounds DEF Drain, LoadTypeOK
<1>3. Outstanding = {}
  BY <1>2 DEF LoadInv, Bounded, Outstanding, Done
<1>4. LoadTypeOK'
  BY <1>1, <1>2, <1>3, LoadBounds DEF LoadTypeOK, Errors, Futures, Fates
<1>5. Held'
  BY <1>1, <1>2, <1>3, LoadBounds DEF LoadInv, Held
<1>6. Told'
  BY <1>1, <1>2, <1>3, LoadBounds DEF LoadInv, Told, OpenLoop, Joined, Before, Phased
<1>7. Bounded'
  <2>1. Outstanding' \subseteq Outstanding
    BY <1>1, <1>2, <1>3 DEF Outstanding
  <2> QED
    BY <1>1, <2>1, BoundedShrinks
<1>8. Phased'
  BY <1>1, <1>2, <1>3, LoadBounds DEF LoadInv, Phased, Told, Before, Joined, Good, OpenLoop, Outstanding, Final, Errors
<1> QED
  BY <1>4, <1>5, <1>6, <1>7, <1>8 DEF LoadInv

LEMMA InterruptLoadKeeps ==
    ASSUME LoadInv, InterruptLoad, scenario' = scenario PROVE LoadInv'
<1>1. UNCHANGED <<scenario, upcoming, pending, future, outcomes, holds, doing, socket, loadSession, capture, loadReport>>
  BY DEF InterruptLoad, pool, offering, outer
<1>2. loadPc = "offer" /\ loadError' = "cancelled" /\ cancelled' = TRUE /\ loadPc' = "withdraw"
  BY  DEF InterruptLoad
<1>3. LoadTypeOK'
  BY <1>1, <1>2, LoadBounds DEF LoadTypeOK, Errors, Futures, Fates
<1>4. Held'
  BY <1>1, <1>2, LoadBounds DEF LoadInv, Held
<1>5. Told'
  BY <1>1, <1>2, LoadBounds DEF LoadInv, Told, OpenLoop, Joined, Before, Phased
<1>6. Bounded'
  <2>1. Outstanding' \subseteq Outstanding
    BY <1>1, <1>2 DEF Outstanding
  <2> QED
    BY <1>1, <2>1, BoundedShrinks
<1>7. Phased'
  BY <1>1, <1>2, LoadBounds DEF LoadInv, Phased, Told, Before, Joined, Good, OpenLoop, Outstanding, Final, Errors
<1> QED
  BY <1>3, <1>4, <1>5, <1>6, <1>7 DEF LoadInv

LEMMA WithdrawKeeps ==
    ASSUME LoadInv, Withdraw, scenario' = scenario PROVE LoadInv'
<1>1. UNCHANGED <<scenario, upcoming, pending, outcomes, holds, doing, socket, cancelled, loadError, loadSession, capture, loadReport>>
  BY DEF Withdraw, pool, offering, outer
<1>2. loadPc = "withdraw" /\ loadPc' = "shut" /\ cancelled
  BY  DEF Withdraw, LoadInv, Phased
<1>3. /\ future' \in [Index -> Futures]
      /\ \A i \in Index : future'[i] = future[i] \/ (future[i] = "queued" /\ future'[i] = "withdrawn")
  BY LoadBounds DEF Withdraw, Futures
<1>4. LoadTypeOK'
  BY <1>1, <1>2, <1>3, LoadBounds DEF LoadTypeOK, Errors, Futures, Fates
<1>5. Held'
  BY <1>1, <1>2, <1>3, LoadBounds DEF LoadInv, Held
<1>6. Told'
  BY <1>1, <1>2, <1>3, LoadBounds DEF LoadInv, Told, OpenLoop, Joined, Before, Phased
<1>7. Bounded'
  <2>1. Outstanding' \subseteq Outstanding
    BY <1>1, <1>2, <1>3 DEF Outstanding
  <2> QED
    BY <1>1, <2>1, BoundedShrinks
<1>8. Phased'
  BY <1>1, <1>2, <1>3, LoadBounds DEF LoadInv, Phased, Told, Before, Joined, Good, OpenLoop, Outstanding, Final, Errors
<1> QED
  BY <1>4, <1>5, <1>6, <1>7, <1>8 DEF LoadInv

LEMMA ShutSocketsKeeps ==
    ASSUME LoadInv, ShutSockets, scenario' = scenario PROVE LoadInv'
<1>1. UNCHANGED <<scenario, upcoming, pending, future, outcomes, holds, doing, cancelled, loadError, loadSession, capture, loadReport>>
  BY DEF ShutSockets, pool, offering, outer
<1>2. loadPc = "shut" /\ loadPc' = "join" /\ cancelled
  BY  DEF ShutSockets, LoadInv, Phased
<1>3. socket' \in [Workers -> {"none", "open", "shut"}]
  BY LoadBounds DEF ShutSockets, LoadTypeOK
<1>4. LoadTypeOK'
  BY <1>1, <1>2, <1>3, LoadBounds DEF LoadTypeOK, Errors, Futures, Fates
<1>5. Held'
  BY <1>1, <1>2, <1>3, LoadBounds DEF LoadInv, Held
<1>6. Told'
  BY <1>1, <1>2, <1>3, LoadBounds DEF LoadInv, Told, OpenLoop, Joined, Before, Phased
<1>7. Bounded'
  <2>1. Outstanding' \subseteq Outstanding
    BY <1>1, <1>2, <1>3 DEF Outstanding
  <2> QED
    BY <1>1, <2>1, BoundedShrinks
<1>8. Phased'
  BY <1>1, <1>2, <1>3, LoadBounds DEF LoadInv, Phased, Told, Before, Joined, Good, OpenLoop, Outstanding, Final, Errors
<1> QED
  BY <1>4, <1>5, <1>6, <1>7, <1>8 DEF LoadInv

LEMMA JoinKeeps ==
    ASSUME LoadInv, Join, scenario' = scenario PROVE LoadInv'
<1>1. UNCHANGED <<scenario, upcoming, pending, outcomes, holds, doing, socket, cancelled, loadError, loadSession, capture, loadReport>>
  BY DEF Join, pool, offering, outer
<1>2. loadPc = "join" /\ loadPc' = "count" /\ \A w \in Workers : doing[w] = "idle"
  BY  DEF Join
<1>3. /\ future' \in [Index -> Futures]
      /\ \A i \in Index : future'[i] = IF future[i] = "queued" THEN "withdrawn" ELSE future[i]
  BY LoadBounds DEF Join, Futures
<1>4. \A i \in Index : future[i] # "running"
  <2> SUFFICES ASSUME NEW i \in Index, future[i] = "running" PROVE FALSE
    OBVIOUS
  <2>1. PICK w \in Workers : holds[w] = i
    BY DEF LoadInv, Held
  <2>2. i # 0
    BY LoadBounds
  <2> QED
    BY <1>2, <2>1, <2>2 DEF LoadInv, Held
<1>5. \A i \in Index : future[i] = "queued" => cancelled
  BY <1>2 DEF LoadInv, Phased, Outstanding
<1>6. LoadTypeOK'
  BY <1>1, <1>2, <1>3, <1>4, <1>5, LoadBounds DEF LoadTypeOK, Errors, Futures, Fates
<1>7. Held'
  BY <1>1, <1>2, <1>3, <1>4, <1>5, LoadBounds DEF LoadInv, Held
<1>8. Told'
  BY <1>1, <1>2, <1>3, <1>4, <1>5, LoadBounds DEF LoadInv, Told, OpenLoop, Joined, Before, Phased
<1>9. Bounded'
  <2>1. Outstanding' \subseteq Outstanding
    BY <1>1, <1>2, <1>3, <1>4, <1>5 DEF Outstanding
  <2> QED
    BY <1>1, <2>1, BoundedShrinks
<1>10. Phased'
  BY <1>1, <1>2, <1>3, <1>4, <1>5, LoadBounds DEF LoadInv, Phased, Told, Before, Joined, Good, OpenLoop, Outstanding, Final, Errors
<1> QED
  BY <1>6, <1>7, <1>8, <1>9, <1>10 DEF LoadInv

LEMMA CountOutcomesKeeps ==
    ASSUME LoadInv, CountOutcomes, scenario' = scenario PROVE LoadInv'
<1>1. UNCHANGED <<scenario, upcoming, pending, future, holds, doing, socket, cancelled, loadError, loadSession, capture, loadReport>>
  BY DEF CountOutcomes, pool, offering, outer
<1>2. loadPc = "count" /\ loadPc' = "uncapture"
  BY  DEF CountOutcomes
<1>3. /\ outcomes' \in [Index -> Fates]
      /\ \A i \in Index : outcomes'[i] = IF outcomes[i] \in {"none", "taken"} THEN "cancelled" ELSE outcomes[i]
  BY LoadBounds DEF CountOutcomes, Fates
<1>4. \A i \in Index : future[i] \notin {"queued", "running"} /\ outcomes[i] # "sent"
  BY <1>2 DEF LoadInv, Phased, Told, Joined, Outstanding
<1>5. \A w \in Workers : doing[w] = "idle"
  BY <1>4, LoadBounds DEF LoadInv, Held
<1>6. LoadTypeOK'
  BY <1>1, <1>2, <1>3, <1>4, <1>5, LoadBounds DEF LoadTypeOK, Errors, Futures, Fates
<1>7. Held'
  BY <1>1, <1>2, <1>3, <1>4, <1>5, LoadBounds DEF LoadInv, Held
<1>8. Told'
  BY <1>1, <1>2, <1>3, <1>4, <1>5, LoadBounds DEF LoadInv, Told, OpenLoop, Joined, Before, Phased
<1>9. Bounded'
  <2>1. Outstanding' \subseteq Outstanding
    BY <1>1, <1>2, <1>3, <1>4, <1>5 DEF Outstanding
  <2> QED
    BY <1>1, <2>1, BoundedShrinks
<1>10. Phased'
  <2>1. \A i \in Index : outcomes'[i] \in Final
    BY <1>3, <1>4, LoadBounds DEF Fates, Final
  <2>2. ASSUME loadError = "none", NEW i \in Index PROVE outcomes'[i] \in Good
    <3>1. ~cancelled /\ upcoming = Requests + 1
      BY <1>2, <2>2 DEF LoadInv, Phased
    <3>2. i < upcoming
      BY <3>1, LoadBounds
    <3>3. future[i] \in {"absent", "done", "withdrawn"}
      BY <1>4, LoadBounds DEF Futures
    <3>4. outcomes[i] \in {"ok", "error"} \/ (OpenLoop /\ outcomes[i] = "dropped")
      BY <3>1, <3>2, <3>3 DEF LoadInv, Told
    <3> QED
      BY <1>3, <3>4 DEF Good
  <2>3. Outstanding' = Outstanding /\ Outstanding = {}
    BY <1>1, <1>2 DEF LoadInv, Phased, Joined, Outstanding
  <2> QED
    BY <1>1, <1>2, <2>1, <2>2, <2>3 DEF LoadInv, Phased, Before, Joined, Good, OpenLoop
<1> QED
  BY <1>6, <1>7, <1>8, <1>9, <1>10 DEF LoadInv

LEMMA TakeKeeps ==
    ASSUME LoadInv, NEW w \in Workers, Take(w), scenario' = scenario PROVE LoadInv'
<1>1. UNCHANGED <<scenario, loadPc, upcoming, pending, socket, cancelled, loadError, loadSession, capture, loadReport>>
  BY DEF Take, pool, offering, outer, Move
<1>2. doing[w] = "idle" /\ Queued # {}
  BY  DEF Take
<1>3. First(Queued) \in Index /\ future[First(Queued)] = "queued"
  <2>1. Queued \in SUBSET Nat
    BY LoadBounds DEF Queued
  <2> QED
    BY <1>2, <2>1, FirstIsOldest DEF Queued
<1>4. /\ future' \in [Index -> Futures] /\ outcomes' \in [Index -> Fates]
      /\ holds' \in [Workers -> Index \cup {0}] /\ doing' \in [Workers -> {"idle", "check", "send", "read"}]
  BY <1>3, LoadBounds DEF Take, Move, LoadTypeOK, Futures, Fates
<1>5. /\ future'[First(Queued)] = "running" /\ outcomes'[First(Queued)] = "taken"
      /\ \A i \in Index \ {First(Queued)} : future'[i] = future[i] /\ outcomes'[i] = outcomes[i]
  BY <1>3, LoadBounds DEF Take
<1>6. /\ holds'[w] = First(Queued) /\ doing'[w] = "check" /\ holds[w] = 0
      /\ \A v \in Workers \ {w} : holds'[v] = holds[v] /\ doing'[v] = doing[v]
  BY <1>2, <1>3, LoadBounds DEF Take, Move, LoadTypeOK, LoadInv, Held
<1>7. \A v \in Workers : holds[v] # First(Queued)
  BY <1>3, LoadBounds DEF LoadInv, Held
<1>8. LoadTypeOK'
  BY <1>1, <1>2, <1>3, <1>4, <1>5, <1>6, <1>7, LoadBounds DEF LoadTypeOK, Errors, Futures, Fates
<1>9. Held'
  BY <1>1, <1>2, <1>3, <1>4, <1>5, <1>6, <1>7, LoadBounds DEF LoadInv, Held
<1>10. Told'
  BY <1>1, <1>2, <1>3, <1>4, <1>5, <1>6, <1>7, LoadBounds DEF LoadInv, Told, OpenLoop, Joined, Before, Phased
<1>11. Bounded'
  <2>1. Outstanding' \subseteq Outstanding
    BY <1>1, <1>2, <1>3, <1>4, <1>5, <1>6, <1>7 DEF Outstanding
  <2> QED
    BY <1>1, <2>1, BoundedShrinks
<1>12. Phased'
  BY <1>1, <1>2, <1>3, <1>4, <1>5, <1>6, <1>7, LoadBounds DEF LoadInv, Phased, Told, Before, Joined, Good, OpenLoop, Outstanding, Final, Errors
<1> QED
  BY <1>8, <1>9, <1>10, <1>11, <1>12 DEF LoadInv

LEMMA StopCaptureKeeps ==
    ASSUME LoadInv, StopCapture, scenario' = scenario PROVE LoadInv'
<1>1. UNCHANGED <<scenario, upcoming, pending, future, outcomes, holds, doing, socket, cancelled, loadSession, loadReport>>
  BY DEF StopCapture, pool, offering, outer
<1>2. loadPc = "uncapture" /\ capture' = "off" /\ loadPc' = "stop"
  BY  DEF StopCapture
<1>3. UNCHANGED loadError \/ (loadError = "none" /\ loadError' = "failed")
  BY  DEF StopCapture
<1>4. LoadTypeOK'
  BY <1>1, <1>2, <1>3, LoadBounds DEF LoadTypeOK, Errors, Futures, Fates
<1>5. Held'
  BY <1>1, <1>2, <1>3, LoadBounds DEF LoadInv, Held
<1>6. Told'
  BY <1>1, <1>2, <1>3, LoadBounds DEF LoadInv, Told, OpenLoop, Joined, Before, Phased
<1>7. Bounded'
  <2>1. Outstanding' \subseteq Outstanding
    BY <1>1, <1>2, <1>3 DEF Outstanding
  <2> QED
    BY <1>1, <2>1, BoundedShrinks
<1>8. Phased'
  BY <1>1, <1>2, <1>3, LoadBounds DEF LoadInv, Phased, Told, Before, Joined, Good, OpenLoop, Outstanding, Final, Errors
<1> QED
  BY <1>4, <1>5, <1>6, <1>7, <1>8 DEF LoadInv

LEMMA StopSessionKeeps ==
    ASSUME LoadInv, StopSession, scenario' = scenario PROVE LoadInv'
<1>1. UNCHANGED <<scenario, upcoming, pending, future, outcomes, holds, doing, socket, cancelled, capture, loadReport>>
  BY DEF StopSession, pool, offering, outer
<1>2. loadPc = "stop" /\ loadPc' = "over"
  BY  DEF StopSession
<1>3. UNCHANGED loadError \/ loadError' = "failed"
  BY  DEF StopSession
<1>4. loadSession' \in {"none", "left"}
  BY  DEF StopSession
<1>5. LoadTypeOK'
  BY <1>1, <1>2, <1>3, <1>4, LoadBounds DEF LoadTypeOK, Errors, Futures, Fates
<1>6. Held'
  BY <1>1, <1>2, <1>3, <1>4, LoadBounds DEF LoadInv, Held
<1>7. Told'
  BY <1>1, <1>2, <1>3, <1>4, LoadBounds DEF LoadInv, Told, OpenLoop, Joined, Before, Phased
<1>8. Bounded'
  <2>1. Outstanding' \subseteq Outstanding
    BY <1>1, <1>2, <1>3, <1>4 DEF Outstanding
  <2> QED
    BY <1>1, <2>1, BoundedShrinks
<1>9. Phased'
  BY <1>1, <1>2, <1>3, <1>4, LoadBounds DEF LoadInv, Phased, Told, Before, Joined, Good, OpenLoop, Outstanding, Final, Errors
<1> QED
  BY <1>5, <1>6, <1>7, <1>8, <1>9 DEF LoadInv

LEMMA PublishLoadKeeps ==
    ASSUME LoadInv, PublishLoad, scenario' = scenario PROVE LoadInv'
<1>1. UNCHANGED <<scenario, loadPc, upcoming, pending, future, outcomes, holds, doing, socket, cancelled, loadError, loadSession, capture>>
  BY DEF PublishLoad, pool, offering, outer
<1>2. loadPc = "over" /\ loadReport' = IF loadError = "none" THEN "complete" ELSE loadError
  BY  DEF PublishLoad
<1>3. LoadTypeOK'
  BY <1>1, <1>2, LoadBounds DEF LoadTypeOK, Errors, Futures, Fates
<1>4. Held'
  BY <1>1, <1>2, LoadBounds DEF LoadInv, Held
<1>5. Told'
  BY <1>1, <1>2, LoadBounds DEF LoadInv, Told, OpenLoop, Joined, Before, Phased
<1>6. Bounded'
  <2>1. Outstanding' \subseteq Outstanding
    BY <1>1, <1>2 DEF Outstanding
  <2> QED
    BY <1>1, <2>1, BoundedShrinks
<1>7. Phased'
  <2>1. loadError # "complete"
    BY LoadBounds DEF LoadTypeOK, Errors
  <2>2. Outstanding' = Outstanding
    BY <1>1 DEF Outstanding
  <2> QED
    BY <1>1, <1>2, <2>1, <2>2 DEF LoadInv, Phased, Before, Joined, Good, OpenLoop
<1> QED
  BY <1>3, <1>4, <1>5, <1>6, <1>7 DEF LoadInv
\* A request is offered: it is queued or, in an open loop, dropped.
LEMMA OfferKeeps ==
    ASSUME LoadInv, loadPc = "offer", upcoming <= Requests, upcoming' = upcoming + 1,
           \/ Submit
           \/ UNCHANGED future /\ OpenLoop /\ outcomes' = [outcomes EXCEPT ![upcoming] = "dropped"],
           UNCHANGED <<scenario, loadPc, holds, doing, socket, cancelled, loadError, outer>>,
           pending' \in SUBSET Index, Bounded'
    PROVE  LoadInv'
<1>1. UNCHANGED <<scenario, loadPc, holds, doing, socket, cancelled, loadError, loadSession, capture, loadReport>>
  BY DEF outer
<1>2. /\ upcoming \in Index /\ upcoming' \in 1..(Requests + 1)
      /\ future[upcoming] = "absent" /\ outcomes[upcoming] = "none"
  BY LoadBounds DEF LoadInv, Told, Joined, LoadTypeOK
<1>3. ~cancelled /\ loadError = "none" /\ loadReport = "running"
  BY DEF LoadInv, Phased
<1>4. /\ future' \in [Index -> Futures] /\ outcomes' \in [Index -> Fates]
      /\ \A i \in Index \ {upcoming} : future'[i] = future[i] /\ outcomes'[i] = outcomes[i]
      /\ \/ future'[upcoming] = "queued" /\ outcomes'[upcoming] = "none"
         \/ future'[upcoming] = "absent" /\ outcomes'[upcoming] = "dropped" /\ OpenLoop
  BY <1>2, LoadBounds DEF Submit, Futures, Fates
<1>5. LoadTypeOK'
  BY <1>1, <1>2, <1>4, LoadBounds DEF LoadTypeOK, Futures, Fates
<1>6. \A w \in Workers : holds[w] # upcoming
  BY <1>2, LoadBounds DEF LoadInv, Held
<1>7. Held'
  <2>1. \A w \in Workers : holds[w] # 0 => holds[w] \in Index \ {upcoming}
    BY <1>6, LoadBounds
  <2>2. \A w \in Workers : holds[w] # 0 <=> doing[w] # "idle"
    BY DEF LoadInv, Held
  <2> QED
    BY <1>1, <1>2, <1>4, <2>1, <2>2 DEF LoadInv, Held
<1>8. Told'
  <2> SUFFICES ASSUME NEW i \in Index
               PROVE  /\ i >= upcoming' => future'[i] = "absent" /\ outcomes'[i] = "none"
                      /\ i < upcoming' /\ future'[i] = "absent" => OpenLoop /\ outcomes'[i] = "dropped"
                      /\ outcomes'[i] = "sent" => future'[i] = "running"
                      /\ future'[i] = "done" => outcomes'[i] \in {"ok", "error"}
                      /\ future'[i] # "withdrawn"
    BY <1>1 DEF Told, OpenLoop
  <2>1. CASE i = upcoming
    BY <1>2, <1>4, <2>1, LoadBounds
  <2>2. CASE i # upcoming
    <3>1. future'[i] = future[i] /\ outcomes'[i] = outcomes[i]
      BY <1>4, <2>2
    <3>2. i \in Int /\ (i >= upcoming' => i >= upcoming) /\ (i < upcoming' => i < upcoming)
      BY <2>2, LoadBounds
    <3> QED
      BY <1>3, <3>1, <3>2 DEF LoadInv, Told, Joined
  <2> QED
    BY <2>1, <2>2
<1>9. Phased'
  BY <1>1, <1>3 DEF LoadInv, Phased, Before, Joined
<1> QED
  BY <1>5, <1>7, <1>8, <1>9 DEF LoadInv

LEMMA OneMore ==
    ASSUME NEW S, IsFiniteSet(S), NEW x
    PROVE  IsFiniteSet(S \cup {x}) /\ Cardinality(S \cup {x}) \in Nat /\ Cardinality(S \cup {x}) <= Cardinality(S) + 1
<1>1. IsFiniteSet(S \cup {x}) /\ Cardinality(S) \in Nat /\ Cardinality(S \cup {x}) \in Nat
  BY FS_AddElement, FS_CardinalityType
<1>2. CASE x \in S
  <2>1. Cardinality(S \cup {x}) = Cardinality(S)
    BY <1>2, FS_AddElement
  <2> QED
    BY <1>1, <2>1
<1>3. CASE x \notin S
  BY <1>1, <1>3, FS_AddElement
<1> QED
  BY <1>2, <1>3

LEMMA NoMore ==
    ASSUME NEW S, IsFiniteSet(S), NEW T, T \subseteq S
    PROVE  IsFiniteSet(T) /\ Cardinality(T) \in Nat /\ Cardinality(T) <= Cardinality(S)
BY FS_Subset, FS_CardinalityType

LEMMA OneLess ==
    ASSUME NEW S, IsFiniteSet(S), NEW T, T \subseteq S, T # S
    PROVE  Cardinality(T) + 1 <= Cardinality(S)
<1>1. PICK x \in S : x \notin T
  OBVIOUS
<1>2. IsFiniteSet(S \ {x}) /\ Cardinality(S \ {x}) = Cardinality(S) - 1
  BY <1>1, FS_RemoveElement
<1>3. Cardinality(T) \in Nat /\ Cardinality(T) <= Cardinality(S \ {x})
  BY <1>1, <1>2, NoMore
<1>4. Cardinality(S) \in Nat
  BY FS_CardinalityType
<1> QED
  BY <1>2, <1>3, <1>4

LEMMA OfferOnScheduleKeeps ==
    ASSUME LoadInv, OfferOnSchedule, scenario' = scenario PROVE LoadInv'
<1>1. UNCHANGED <<scenario, loadPc, holds, doing, socket, cancelled, loadError, outer>>
  BY DEF OfferOnSchedule
<1>2. loadPc = "offer" /\ OpenLoop /\ upcoming <= Requests /\ upcoming' = upcoming + 1
  BY DEF OfferOnSchedule
<1>3. Limit = MaxPending /\ Limit' = MaxPending
  BY <1>1, <1>2 DEF Limit, OpenLoop
<1>4. /\ IsFiniteSet(pending) /\ Cardinality(pending) <= MaxPending /\ MaxPending \in Nat
      /\ pending \in SUBSET Index /\ Outstanding \subseteq pending
  BY <1>3, LoadBounds DEF LoadInv, Bounded, LoadTypeOK
<1>5. upcoming \in Index
  BY <1>2, LoadBounds
<1>6. Outstanding \subseteq pending \ Done
  BY <1>4 DEF Outstanding, Done
<1>7. /\ IsFiniteSet(pending \ Done) /\ Cardinality(pending \ Done) \in Nat
      /\ Cardinality(pending \ Done) <= MaxPending
  BY <1>4, NoMore, LoadBounds
<1>8. CASE Cardinality(pending \ Done) >= MaxPending
  <2>1. /\ outcomes' = [outcomes EXCEPT ![upcoming] = "dropped"]
        /\ pending' = pending \ Done /\ UNCHANGED future
    BY <1>8 DEF OfferOnSchedule
  <2>2. Outstanding' = Outstanding
    BY <2>1 DEF Outstanding
  <2>3. Bounded'
    BY <1>3, <1>6, <1>7, <2>1, <2>2 DEF Bounded
  <2>4. pending' \in SUBSET Index
    BY <1>4, <2>1
  <2> QED
    BY <1>1, <1>2, <2>1, <2>3, <2>4, OfferKeeps
<1>9. CASE ~(Cardinality(pending \ Done) >= MaxPending)
  <2>1. Submit /\ pending' = (pending \ Done) \cup {upcoming}
    BY <1>9 DEF OfferOnSchedule
  <2>2. Outstanding' \subseteq Outstanding \cup {upcoming}
    BY <2>1, LoadBounds DEF Submit, Outstanding
  <2>3. IsFiniteSet(pending') /\ Cardinality(pending') <= MaxPending
    <3>1. Cardinality(pending \ Done) + 1 <= MaxPending
      BY <1>4, <1>7, <1>9
    <3>2. /\ IsFiniteSet(pending') /\ Cardinality(pending') \in Nat
          /\ Cardinality(pending') <= Cardinality(pending \ Done) + 1
      BY <1>7, <2>1, OneMore
    <3> QED
      BY <1>4, <1>7, <3>1, <3>2
  <2>4. Bounded'
    BY <1>3, <1>6, <2>1, <2>2, <2>3 DEF Bounded
  <2>5. pending' \in SUBSET Index
    BY <1>4, <1>5, <2>1
  <2> QED
    BY <1>1, <1>2, <2>1, <2>4, <2>5, OfferKeeps
<1> QED
  BY <1>8, <1>9

LEMMA OfferWhenFreeKeeps ==
    ASSUME LoadInv, OfferWhenFree, scenario' = scenario PROVE LoadInv'
<1> DEFINE Rest == IF Cardinality(pending) >= Cardinality(Workers) THEN pending \ Done ELSE pending
<1>1. UNCHANGED <<scenario, loadPc, holds, doing, socket, cancelled, loadError, outer>>
  BY DEF OfferWhenFree
<1>2. /\ loadPc = "offer" /\ ~OpenLoop /\ upcoming <= Requests /\ upcoming' = upcoming + 1
      /\ Submit /\ pending' = Rest \cup {upcoming}
      /\ Cardinality(pending) >= Cardinality(Workers) => pending \cap Done # {}
  BY DEF OfferWhenFree
<1>3. Limit = Cardinality(Workers) /\ Limit' = Cardinality(Workers)
  BY <1>1, <1>2 DEF Limit, OpenLoop
<1>4. /\ IsFiniteSet(pending) /\ Cardinality(pending) <= Cardinality(Workers)
      /\ Cardinality(Workers) \in Nat /\ Cardinality(pending) \in Nat
      /\ pending \in SUBSET Index /\ Outstanding \subseteq pending
  BY <1>3, LoadBounds DEF LoadInv, Bounded, LoadTypeOK
<1>5. upcoming \in Index
  BY <1>2, LoadBounds
<1>6. Outstanding \subseteq Rest /\ Rest \subseteq pending
  BY <1>4 DEF Outstanding, Done
<1>7. Cardinality(pending) >= Cardinality(Workers) => Rest # pending
  BY <1>2
<1>8. IsFiniteSet(Rest) /\ Cardinality(Rest) \in Nat /\ Cardinality(Rest) <= Cardinality(pending)
  BY <1>4, <1>6, NoMore
<1>9. Rest # pending => Cardinality(Rest) + 1 <= Cardinality(pending)
  BY <1>4, <1>6, OneLess
<1>10. Cardinality(Rest) + 1 <= Cardinality(Workers)
  <2> HIDE DEF Rest
  <2> QED
    BY <1>4, <1>7, <1>8, <1>9
<1>11. Outstanding' \subseteq Outstanding \cup {upcoming}
  BY <1>2, LoadBounds DEF Submit, Outstanding
<1>12. IsFiniteSet(pending') /\ Cardinality(pending') <= Cardinality(Workers)
  <2> HIDE DEF Rest
  <2> QED
    <3>1. /\ IsFiniteSet(pending') /\ Cardinality(pending') \in Nat
          /\ Cardinality(pending') <= Cardinality(Rest) + 1
      BY <1>2, <1>8, OneMore
    <3> QED
      BY <1>4, <1>8, <1>10, <3>1
<1>13. Bounded'
  <2> HIDE DEF Rest
  <2> QED
    BY <1>2, <1>3, <1>6, <1>11, <1>12 DEF Bounded
<1>14. pending' \in SUBSET Index
  BY <1>2, <1>4, <1>5
<1> QED
  BY <1>1, <1>2, <1>13, <1>14, OfferKeeps

\* A worker goes on with the request it has.
LEMMA MovesOn ==
    ASSUME LoadInv, NEW w \in Workers, doing[w] \in {"check", "send"}, NEW onward \in {"send", "read"},
           Move(w, onward), onward = "read" => outcomes' = [outcomes EXCEPT ![holds[w]] = "sent"],
           onward = "send" => doing[w] = "check" /\ UNCHANGED outcomes,
           UNCHANGED <<scenario, future, holds, loadPc, upcoming, pending, cancelled, loadError, loadReport>>
    PROVE  Held' /\ Told' /\ Bounded' /\ Phased' /\ outcomes' \in [Index -> Fates]
           /\ doing' \in [Workers -> {"idle", "check", "send", "read"}]
<1> DEFINE r == holds[w]
<1>1. r # 0 /\ r \in Index /\ future[r] = "running" /\ outcomes[r] # "sent"
  BY LoadBounds DEF LoadInv, Held
<1>2. /\ outcomes' \in [Index -> Fates]
      /\ outcomes'[r] = IF onward = "read" THEN "sent" ELSE outcomes[r]
      /\ \A i \in Index \ {r} : outcomes'[i] = outcomes[i]
  BY <1>1, LoadBounds DEF Fates
<1>3. doing \in [Workers -> {"idle", "check", "send", "read"}]
  BY LoadBounds DEF LoadTypeOK
<1>4. /\ doing' \in [Workers -> {"idle", "check", "send", "read"}]
      /\ doing'[w] = onward /\ \A v \in Workers \ {w} : doing'[v] = doing[v]
  BY <1>3 DEF Move
<1>5. \A v \in Workers \ {w} : doing[v] # "idle" => holds[v] \in Index \ {r}
  BY <1>1, LoadBounds DEF LoadInv, Held
<1>6. Held'
  <2>1. \A v \in Workers : doing'[v] = "read" <=> (doing'[v] # "idle" /\ outcomes'[holds[v]] = "sent")
    <3>1. doing'[w] = "read" <=> (doing'[w] # "idle" /\ outcomes'[holds[w]] = "sent")
      BY <1>1, <1>2, <1>4
    <3>2. ASSUME NEW v \in Workers \ {w}
          PROVE  doing'[v] = "read" <=> (doing'[v] # "idle" /\ outcomes'[holds[v]] = "sent")
      BY <1>2, <1>4, <1>5 DEF LoadInv, Held
    <3> QED
      BY <3>1, <3>2
  <2>2. \A v \in Workers : holds[v] # 0 <=> doing'[v] # "idle"
    BY <1>4 DEF LoadInv, Held
  <2> QED
    BY <2>1, <2>2 DEF LoadInv, Held
<1>7. Told'
  <2> SUFFICES ASSUME NEW i \in Index
               PROVE  /\ i >= upcoming => future[i] = "absent" /\ (loadPc \notin Joined => outcomes'[i] = "none")
                      /\ i < upcoming /\ future[i] = "absent" => OpenLoop /\ outcomes'[i] = "dropped"
                      /\ outcomes'[i] = "sent" => future[i] = "running"
                      /\ future[i] = "done" /\ ~cancelled => outcomes'[i] \in {"ok", "error"}
                      /\ future[i] = "withdrawn" => cancelled
    BY DEF Told, OpenLoop
  <2>1. CASE i = r
    BY <1>1, <2>1 DEF LoadInv, Told
  <2>2. CASE i # r
    BY <1>2, <2>2 DEF LoadInv, Told
  <2> QED
    BY <2>1, <2>2
<1>8. Outstanding' = Outstanding
  BY DEF Outstanding
<1>9. Bounded'
  BY <1>8, BoundedShrinks
<1>10. r \in Outstanding
  BY <1>1 DEF Outstanding
<1>11. Phased'
  BY <1>8, <1>10 DEF LoadInv, Phased, Joined, Good, OpenLoop
<1> QED
  BY <1>2, <1>4, <1>6, <1>7, <1>9, <1>11

LEMMA CheckKeeps ==
    ASSUME LoadInv, NEW w \in Workers, Check(w), scenario' = scenario PROVE LoadInv'
<1>1. /\ doing[w] = "check"
      /\ UNCHANGED <<scenario, loadPc, socket, upcoming, pending, cancelled, loadError,
                     loadSession, capture, loadReport>>
  BY DEF Check, offering, outer
<1>2. CASE cancelled
  <2>1. FinishLoad(w, "taken")
    BY <1>2 DEF Check
  <2>2. /\ Held' /\ Told' /\ Bounded' /\ Phased' /\ future' \in [Index -> Futures]
        /\ outcomes' \in [Index -> Fates] /\ holds' \in [Workers -> Index \cup {0}]
        /\ doing' \in [Workers -> {"idle", "check", "send", "read"}]
    BY <1>1, <1>2, <2>1, FinishKeeps
  <2>3. LoadTypeOK'
    BY <1>1, <2>2, LoadBounds DEF LoadTypeOK, Futures, Fates
  <2> QED
    BY <2>2, <2>3 DEF LoadInv
<1>3. CASE ~cancelled
  <2>1. Move(w, "send") /\ UNCHANGED <<outcomes, future, holds>>
    BY <1>3 DEF Check
  <2>2. /\ Held' /\ Told' /\ Bounded' /\ Phased'
        /\ doing' \in [Workers -> {"idle", "check", "send", "read"}]
    BY <1>1, <2>1, MovesOn
  <2>3. LoadTypeOK'
    BY <1>1, <2>1, <2>2, LoadBounds DEF LoadTypeOK
  <2> QED
    BY <2>2, <2>3 DEF LoadInv
<1> QED
  BY <1>2, <1>3

LEMMA SendKeeps ==
    ASSUME LoadInv, NEW w \in Workers, Send(w), scenario' = scenario PROVE LoadInv'
<1>1. /\ doing[w] = "send"
      /\ UNCHANGED <<scenario, loadPc, upcoming, pending, cancelled, loadError,
                     loadSession, capture, loadReport>>
  BY DEF Send, offering, outer
<1>2. socket' \in [Workers -> {"none", "open", "shut"}]
  BY LoadBounds DEF LoadTypeOK, Send
<1>3. CASE /\ Move(w, "read") /\ UNCHANGED <<future, holds>>
           /\ outcomes' = [outcomes EXCEPT ![holds[w]] = "sent"]
  <2>1. /\ Held' /\ Told' /\ Bounded' /\ Phased' /\ outcomes' \in [Index -> Fates]
        /\ doing' \in [Workers -> {"idle", "check", "send", "read"}]
    BY <1>1, <1>3, MovesOn
  <2>2. LoadTypeOK'
    BY <1>1, <1>2, <1>3, <2>1, LoadBounds DEF LoadTypeOK, Fates
  <2> QED
    BY <2>1, <2>2 DEF LoadInv
<1>4. CASE FinishLoad(w, "error")
  <2>1. /\ Held' /\ Told' /\ Bounded' /\ Phased' /\ future' \in [Index -> Futures]
        /\ outcomes' \in [Index -> Fates] /\ holds' \in [Workers -> Index \cup {0}]
        /\ doing' \in [Workers -> {"idle", "check", "send", "read"}]
    BY <1>1, <1>4, FinishKeeps
  <2>2. LoadTypeOK'
    BY <1>1, <1>2, <2>1, LoadBounds DEF LoadTypeOK, Futures, Fates
  <2> QED
    BY <2>1, <2>2 DEF LoadInv
<1> QED
  BY <1>3, <1>4 DEF Send

LEMMA ReadKeeps ==
    ASSUME LoadInv, NEW w \in Workers, Read(w), scenario' = scenario PROVE LoadInv'
<1>1. /\ doing[w] = "read"
      /\ UNCHANGED <<scenario, loadPc, upcoming, pending, cancelled, loadError,
                     loadSession, capture, loadReport>>
  BY DEF Read, offering, outer
<1>2. socket' \in [Workers -> {"none", "open", "shut"}]
  BY LoadBounds DEF LoadTypeOK, Read
<1>3. PICK outcome \in {"ok", "error"} : FinishLoad(w, outcome)
  BY DEF Read
<1>4. /\ Held' /\ Told' /\ Bounded' /\ Phased' /\ future' \in [Index -> Futures]
      /\ outcomes' \in [Index -> Fates] /\ holds' \in [Workers -> Index \cup {0}]
      /\ doing' \in [Workers -> {"idle", "check", "send", "read"}]
  BY <1>1, <1>3, FinishKeeps
<1>5. LoadTypeOK'
  BY <1>1, <1>2, <1>4, LoadBounds DEF LoadTypeOK, Futures, Fates
<1> QED
  BY <1>4, <1>5 DEF LoadInv

LEMMA LoadStutters ==
    ASSUME LoadInv, UNCHANGED loadVars PROVE LoadInv'
BY DEF LoadInv, loadVars, LoadTypeOK, Held, Told, Bounded, Phased, Limit, OpenLoop, Outstanding,
       Before, Joined, Good, Final

LEMMA LoadStarts == LoadInit => LoadInv
<1> SUFFICES ASSUME LoadInit PROVE LoadInv
  OBVIOUS
<1>1. Requests \in Nat \ {0} /\ IsFiniteSet(Workers) /\ MaxPending \in Nat
  BY LoadAssumption
<1>2. LoadTypeOK
  <2>1. upcoming \in 1..(Requests + 1)
    BY <1>1 DEF LoadInit
  <2>2. loadPc = "lock" /\ scenario \in Scenarios /\ pending = {} /\ cancelled = FALSE
    BY DEF LoadInit
  <2> QED
    BY <2>1, <2>2 DEF LoadInit, LoadTypeOK
<1>3. Held
  BY DEF LoadInit, Held
<1>4. Told
  BY <1>1 DEF LoadInit, Told, Index
<1>5. Limit \in Nat
  BY <1>1, FS_CardinalityType DEF Limit
<1>6. IsFiniteSet({}) /\ Cardinality({}) = 0
  BY FS_EmptySet
<1>7. Bounded
  BY <1>5, <1>6 DEF LoadInit, Bounded, Outstanding
<1>8. Phased
  BY DEF LoadInit, Phased, Before, Joined
<1> QED
  BY <1>2, <1>3, <1>4, <1>7, <1>8 DEF LoadInv

LEMMA LoadStepKeeps == LoadInv /\ [LoadNext]_loadVars => LoadInv'
<1> SUFFICES ASSUME LoadInv, [LoadNext]_loadVars PROVE LoadInv'
  OBVIOUS
<1>1. CASE UNCHANGED loadVars
  BY <1>1, LoadStutters
<1>2. CASE MainThread /\ scenario' = scenario
  BY <1>2, OpenSessionKeeps, WarmupKeeps, StartCaptureKeeps, OfferOnScheduleKeeps, OfferWhenFreeKeeps,
     DrainKeeps, WithdrawKeeps, ShutSocketsKeeps, JoinKeeps, CountOutcomesKeeps, StopCaptureKeeps,
     StopSessionKeeps, PublishLoadKeeps DEF MainThread
<1>3. CASE InterruptLoad /\ scenario' = scenario
  BY <1>3, InterruptLoadKeeps
<1>4. ASSUME NEW w \in Workers, Work(w), scenario' = scenario PROVE LoadInv'
  BY <1>4, TakeKeeps, CheckKeeps, SendKeeps, ReadKeeps DEF Work
<1> QED
  BY <1>1, <1>2, <1>3, <1>4 DEF LoadNext

\* The invariant says what a load promises.
LEMMA LoadInvIsHonest == LoadInv => LoadIsHonest
<1> SUFFICES ASSUME LoadInv PROVE LoadIsHonest
  OBVIOUS
<1>1. WithinLimits
  <2>1. Cardinality(Outstanding) \in Nat /\ Cardinality(Outstanding) <= Cardinality(pending)
    BY NoMore DEF LoadInv, Bounded
  <2>2. Cardinality(pending) <= Limit
    BY DEF LoadInv, Bounded
  <2>3. Cardinality(Outstanding) <= Limit
    BY <2>1, <2>2, LoadBounds
  <2> QED
    BY <2>3 DEF WithinLimits, Limit
<1>2. Accounted
  <2> SUFFICES ASSUME loadPc = "uncapture" \/ (loadPc \in {"stop", "over"} /\ upcoming > 1)
               PROVE  /\ \A i \in Index : outcomes[i] \in Final
                      /\ \A w \in Workers : doing[w] = "idle"
                      /\ Outstanding = {}
    BY DEF Accounted
  <2>1. (\A i \in Index : outcomes[i] \in Final) /\ Outstanding = {}
    BY DEF LoadInv, Phased, Joined
  <2>2. \A w \in Workers : doing[w] = "idle"
    BY <2>1, LoadBounds DEF LoadInv, Held, Outstanding
  <2> QED
    BY <2>1, <2>2
<1>3. CompleteIsWhole
  BY DEF LoadInv, Phased, CompleteIsWhole, Good
<1> QED
  BY <1>1, <1>2, <1>3 DEF LoadIsHonest, LoadInv

\* A load never has more outstanding than its scenario allows, its report gives
\* every request its one outcome after the last worker is done, and it is
\* complete only when every request was offered and answered, dropped by an open
\* loop or failed: run_load and cli/load.py, whenever Ctrl-C or an error comes.
THEOREM LoadsAreHonest == LoadSpec => []LoadIsHonest
<1>1. LoadInit => LoadInv
  BY LoadStarts
<1>2. LoadInv /\ [LoadNext]_loadVars => LoadInv'
  BY LoadStepKeeps
<1>3. LoadInv => LoadIsHonest
  BY LoadInvIsHonest
<1> QED
  BY <1>1, <1>2, <1>3, PTL DEF LoadSpec
-----------------------------------------------------------------------------
(* Automation.  The invariant: an automatic command that has published its  *)
(* preparation goes by its own two files (Prepared), and what is, or is about *)
(* to be, reported as a success is complete (SucceededIsComplete).           *)

States == {"absent", "preparing", "complete", "interrupted", "failed"}
Places == {"out", "lock", "begin", "resolve", "publish", "open", "run", "finish", "succeeded",
           "failed", "gone"}
ReportStatuses == {"absent", "preparing", "running", "succeeded", "failed"}

AutoTypes ==
    /\ kind \in [Commands -> Kinds \cup {"none"}]
    /\ at \in [Commands -> Places]
    /\ DOMAIN prepared = Commands
    /\ autoReport = [by |-> autoReport.by, status |-> autoReport.status, attempts |-> autoReport.attempts]
    /\ autoReport.status \in ReportStatuses
    /\ runState = [opened |-> runState.opened, status |-> runState.status]
    /\ runState.status \in States

Prepared ==
    \A c \in Commands : kind[c] \in Autos /\ at[c] \in {"open", "run"} =>
        prepared[c] = [report |-> c, resolution |-> c]

AutoInv == AutoTypes /\ Prepared /\ SucceededIsComplete

LEMMA AutoInvInit == AutoInit => AutoInv
  BY DEF AutoInit, AutoInv, AutoTypes, Prepared, SucceededIsComplete, Autos, Kinds, Places,
         ReportStatuses, States, NoAutoReport, NoState

LEMMA AutoInvStep == AutoInv /\ [AutoNext]_autoVars => AutoInv'
  <1> SUFFICES ASSUME AutoInv, [AutoNext]_autoVars PROVE AutoInv'
    OBVIOUS
  <1> USE DEF AutoInv, Go, Files
  <1>1. ASSUME NEW c \in Commands, StartCommand(c) PROVE AutoInv'
    <2>1. AutoTypes'
      BY <1>1 DEF StartCommand, AutoTypes, Kinds, Autos, Places
    <2>2. Prepared'
      BY <1>1 DEF StartCommand, AutoTypes, Kinds, Autos, Prepared
    <2>3. SucceededIsComplete'
      BY <1>1 DEF StartCommand, AutoTypes, SucceededIsComplete
    <2> QED BY <2>1, <2>2, <2>3
  <1>2. ASSUME NEW c \in Commands, TakeLocks(c) PROVE AutoInv'
    <2>1. AutoTypes'
      BY <1>2 DEF TakeLocks, AutoTypes, Places
    <2>2. Prepared'
      BY <1>2 DEF TakeLocks, AutoTypes, Prepared
    <2>3. SucceededIsComplete'
      BY <1>2 DEF TakeLocks, AutoTypes, SucceededIsComplete
    <2> QED BY <2>1, <2>2, <2>3
  <1>3. ASSUME NEW c \in Commands, BeginReport(c) PROVE AutoInv'
    <2>1. AutoTypes'
      BY <1>3 DEF BeginReport, AutoTypes, Places, ReportStatuses
    <2>2. Prepared'
      BY <1>3 DEF BeginReport, AutoTypes, Prepared
    <2>3. SucceededIsComplete'
      BY <1>3 DEF BeginReport, AutoTypes, SucceededIsComplete
    <2> QED BY <2>1, <2>2, <2>3
  <1>4. ASSUME NEW c \in Commands, Resolve(c) PROVE AutoInv'
    <2>1. AutoTypes'
      BY <1>4 DEF Resolve, AutoTypes, Places
    <2>2. Prepared'
      BY <1>4 DEF Resolve, AutoTypes, Prepared
    <2>3. SucceededIsComplete'
      BY <1>4 DEF Resolve, AutoTypes, SucceededIsComplete
    <2> QED BY <2>1, <2>2, <2>3
  <1>5. ASSUME NEW c \in Commands, PublishPreparation(c) PROVE AutoInv'
    <2>1. AutoTypes'
      BY <1>5 DEF PublishPreparation, AutoTypes, Places, ReportStatuses
    <2>2. Prepared'
      BY <1>5 DEF PublishPreparation, AutoTypes, Prepared
    <2>3. SucceededIsComplete'
      BY <1>5 DEF PublishPreparation, AutoTypes, SucceededIsComplete
    <2> QED BY <2>1, <2>2, <2>3
  <1>6. ASSUME NEW c \in Commands, OpenRun(c) PROVE AutoInv'
    <2>1. AutoTypes'
      BY <1>6 DEF OpenRun, Leave, AutoTypes, Places, States
    <2>2. Prepared'
      BY <1>6 DEF OpenRun, Leave, AutoTypes, Prepared
    <2>3. SucceededIsComplete'
      BY <1>6 DEF OpenRun, Leave, Fresh, NoState, AutoTypes, SucceededIsComplete
    <2> QED BY <2>1, <2>2, <2>3
  <1>7. ASSUME NEW c \in Commands, CloseRun(c) PROVE AutoInv'
    <2>1. AutoTypes'
      BY <1>7 DEF CloseRun, Leave, AutoTypes, Places, States
    <2>2. Prepared'
      BY <1>7 DEF CloseRun, Leave, AutoTypes, Prepared
    <2>3. SucceededIsComplete'
      BY <1>7 DEF CloseRun, Leave, AutoTypes, SucceededIsComplete
    <2> QED BY <2>1, <2>2, <2>3
  <1>8. ASSUME NEW c \in Commands, Conclude(c) PROVE AutoInv'
    <2>1. AutoTypes'
      BY <1>8 DEF Conclude, AutoTypes, Places
    <2>2. Prepared'
      BY <1>8 DEF Conclude, AutoTypes, Prepared
    <2>3. SucceededIsComplete'
      BY <1>8 DEF Conclude, Success, AutoTypes, SucceededIsComplete
    <2> QED BY <2>1, <2>2, <2>3
  <1>9. ASSUME NEW c \in Commands, SaveReport(c) PROVE AutoInv'
    <2>1. AutoTypes'
      BY <1>9 DEF SaveReport, AutoTypes, Places, ReportStatuses
    <2>2. Prepared'
      BY <1>9 DEF SaveReport, AutoTypes, Prepared
    <2>3. SucceededIsComplete'
      BY <1>9 DEF SaveReport, AutoTypes, SucceededIsComplete
    <2> QED BY <2>1, <2>2, <2>3
  <1>10. ASSUME NEW c \in Commands, KillCommand(c) PROVE AutoInv'
    <2>1. AutoTypes'
      BY <1>10 DEF KillCommand, AutoTypes, Places
    <2>2. Prepared'
      BY <1>10 DEF KillCommand, AutoTypes, Prepared
    <2>3. SucceededIsComplete'
      BY <1>10 DEF KillCommand, AutoTypes, SucceededIsComplete
    <2> QED BY <2>1, <2>2, <2>3
  <1>11. CASE UNCHANGED autoVars
    BY <1>11 DEF autoVars, AutoTypes, Prepared, SucceededIsComplete
  <1> QED
    BY <1>1, <1>2, <1>3, <1>4, <1>5, <1>6, <1>7, <1>8, <1>9, <1>10, <1>11 DEF AutoNext

Opens ==
    runState'.opened # runState.opened =>
        /\ runState.opened = NoCommand
        /\ kind[runState'.opened] = "auto_new" =>
              autoReport.by = runState'.opened /\ resolution = runState'.opened

LEMMA OpensStep == AutoInv /\ [AutoNext]_autoVars => [Opens]_autoVars
  <1> SUFFICES ASSUME AutoInv, AutoNext, runState'.opened # runState.opened PROVE Opens
    BY DEF Opens
  <1>1. PICK c \in Commands : OpenRun(c)
    <2>1. PICK c \in Commands :
              \/ StartCommand(c) \/ TakeLocks(c) \/ BeginReport(c) \/ Resolve(c)
              \/ PublishPreparation(c) \/ OpenRun(c) \/ CloseRun(c)
              \/ Conclude(c) \/ SaveReport(c) \/ KillCommand(c)
      BY DEF AutoNext
    <2>2. ~CloseRun(c)
      BY DEF CloseRun, AutoInv, AutoTypes
    <2> QED
      BY <2>1, <2>2 DEF StartCommand, TakeLocks, BeginReport, Resolve, PublishPreparation, Conclude,
                        SaveReport, KillCommand, Files
  <1>2. kind[c] \notin Resumes /\ runState' = [opened |-> c, status |-> "preparing"]
    BY <1>1 DEF OpenRun, Leave, AutoInv, AutoTypes
  <1>3. at[c] = "open" /\ Untouched(c) /\ Fresh(prepared[c] # NoArtifacts)
    BY <1>1, <1>2 DEF OpenRun
  <1>4. runState.opened = NoCommand
    BY <1>3 DEF Fresh, NoState
  <1>5. ASSUME kind[c] = "auto_new" PROVE autoReport.by = c /\ resolution = c
    <2>1. prepared[c] = [report |-> c, resolution |-> c]
      BY <1>3, <1>5 DEF AutoInv, Prepared, Autos
    <2> QED BY <1>3, <2>1, CommandsAssumption DEF Untouched, NoArtifacts
  <1> QED BY <1>2, <1>4, <1>5 DEF Opens

\* For any number of commands on one directory, whichever starts, fails or dies
\* between the release of the locks and their second acquisition: the directory
\* has one run, an automatic run goes by its own preparation, and what is reported
\* a success is complete (cli/auto.py, host/automation.py, RunState.__init__).
THEOREM AutomaticReportsAreTrue == AutoSpec => ReportsAreTheRuns
  <1>1. AutoSpec => []AutoInv
    BY AutoInvInit, AutoInvStep, PTL DEF AutoSpec
  <1>2. AutoSpec => []SucceededIsComplete
    BY <1>1, PTL DEF AutoInv
  <1>3. AutoSpec => [][Opens]_autoVars
    BY <1>1, OpensStep, PTL DEF AutoSpec
  <1> QED BY <1>2, <1>3 DEF ReportsAreTheRuns, OneRunPerDirectory, Opens
-----------------------------------------------------------------------------
(* Startup probes and the frozen plan, for any matrix and any number of      *)
(* faults.                                                                   *)

\* What run_state.json has recorded is a plan that follows from the recorded
\* report, and the finished cases are what that plan wants.
BoundOK ==
    /\ bound.plan.st \in {"absent", "sealed"}
    /\ bound.plan.st = "absent" => \A k \in Numbers : result[k] = "none"
    /\ bound.plan.st = "sealed" => bound.plan.pre = OomPrefixes(bound.report)
    /\ \A k \in Numbers : /\ result[k] = "inferred" => IsInferred(bound.plan.pre, k)
                          /\ result[k] = "measured" => ~IsInferred(bound.plan.pre, k)

\* What the process knows of the files where it stands.
PhaseOK ==
    /\ pc = "freeze" => mem = report
    /\ pc = "bind" => plan.st = "sealed" /\ plan.pre = OomPrefixes(report)
    /\ pc \in {"case", "run"} => bound.plan = plan /\ bound.report = report /\ plan.st = "sealed"
    /\ pc = "run" => next \in Numbers

PruningInv == TypeOK /\ BoundOK /\ PhaseOK

\* Records that stand for a kill in time, and prefixes of such records.
Earned(r) == \A x \in Probes : Confirmed(r.att[x]) => x \in killed
Grounded(pre) == \A x \in pre : \A m \in Mems : m <= x[2] => <<x[1], m>> \in killed

\* What the process has in mind was seen; so was what is on disk until it is
\* edited, and again if the plan was deleted: then the report was not edited.
EvidenceOK ==
    /\ Earned(mem)
    /\ edits = 0 \/ plan.st = "absent" => Earned(report)
    /\ plan.st = "sealed" => Grounded(plan.pre)
    /\ bound.plan.st = "sealed" => Grounded(bound.plan.pre)
    /\ box.oom /\ ~late => FirstProbe(todo) \in killed

\* What a case, the report and the plan may be.
ProbeResults == {"none", "running", "inferred", "measured"}
Reports == [st : {"absent", "running", "complete"}, att : [Probes -> Record \cup {NoRecord}]]
Plans == [st : {"absent", "sealed", "edited"}, pre : SUBSET Probes]

LEMMA OrderIsPlanned == Numbers = 1..Len(Order) /\ Len(Order) \in Nat
  BY ConstantsAssumption DEF Numbers

LEMMA NoBoxIsBox == NoBox \in Box
  BY DEF NoBox, Box

LEMMA FaultsAreCounted ==
  ASSUME faults \in 0..MaxFaults, Fault
  PROVE faults' \in 0..MaxFaults
  BY ConstantsAssumption DEF Fault

LEMMA GoingOnShrinks ==
  ASSUME todo \subseteq Probes, NEW x, NEW r, GoOn(x, r)
  PROVE todo' \subseteq Probes
  BY DEF GoOn

LEMMA RecordingIsTyped ==
  ASSUME NEW r \in Reports, NEW x, NEW a \in Record \cup {NoRecord}
  PROVE [r EXCEPT !.att[x] = a] \in Reports
  BY DEF Reports

LEMMA StatusIsTyped ==
  ASSUME NEW r \in Reports, NEW s \in {"running", "complete"}
  PROVE [r EXCEPT !.st = s] \in Reports
  BY DEF Reports

LEMMA PruningStarts == Init => PruningInv /\ EvidenceOK
  <1> SUFFICES ASSUME Init PROVE PruningInv /\ EvidenceOK
    OBVIOUS
  <1> USE ConstantsAssumption, OrderIsPlanned DEF Init, NoReport, NoPlan, Nothing, NoBox
  <1>1. TypeOK
    <2>1. NoReport.att \in [Probes -> Record \cup {NoRecord}]
      OBVIOUS
    <2>2. /\ 0 \in 0..MaxFaults /\ 0 \in 0..MaxEdits /\ 1 \in 1..(Len(Order) + 1)
      OBVIOUS
    <2>3. NoBox \in Box
      BY DEF Box
    <2> QED BY <2>1, <2>2, <2>3 DEF TypeOK
  <1>2. BoundOK /\ PhaseOK
    BY DEF BoundOK, PhaseOK
  <1>3. EvidenceOK
    BY DEF EvidenceOK, Earned, Grounded, Confirmed, NoRecord
  <1> QED BY <1>1, <1>2, <1>3 DEF PruningInv

LEMMA PruningTypes ==
  ASSUME TypeOK, PhaseOK, [Next]_vars
  PROVE TypeOK'
  <1>0. /\ report \in Reports /\ mem \in Reports /\ plan \in Plans
        /\ result \in [Numbers -> ProbeResults] /\ todo \subseteq Probes /\ next \in 1..(Len(Order) + 1)
        /\ box \in Box /\ late \in BOOLEAN /\ (box # NoBox => pc \in {"poll", "fail", "stop"})
        /\ faults \in 0..MaxFaults /\ edits \in 0..MaxEdits
    BY DEF TypeOK, ProbeResults, Reports, Plans
  <1> SUFFICES
        /\ report' \in Reports /\ mem' \in Reports /\ plan' \in Plans
        /\ result' \in [Numbers -> ProbeResults] /\ todo' \subseteq Probes /\ next' \in 1..(Len(Order) + 1)
        /\ box' \in Box /\ late' \in BOOLEAN /\ (box' # NoBox => pc' \in {"poll", "fail", "stop"})
        /\ faults' \in 0..MaxFaults /\ edits' \in 0..MaxEdits
    BY DEF TypeOK, ProbeResults, Reports, Plans
  <1>1. CASE Begin
    BY <1>0, <1>1 DEF Begin, disk, local, probe, vars
  <1>2. CASE OpenReport
    BY <1>0, <1>2, StatusIsTyped, FaultsAreCounted DEF OpenReport, disk, local, probe, vars
  <1>3. CASE LoadPlan
    BY <1>0, <1>3 DEF LoadPlan, disk, local, probe, vars
  <1>4. CASE RefuseLostPlan
    BY <1>0, <1>4 DEF RefuseLostPlan, disk, local, probe, vars
  <1>5. CASE SkipProbed
    BY <1>0, <1>5, GoingOnShrinks DEF SkipProbed, disk, local, probe, vars
  <1>6. CASE Launch
    <2>1. [outcome |-> "error", state |-> NoBox] \in Record
      BY DEF Record, Outcomes, Box, NoBox
    <2>2. [st |-> "running", oom |-> FALSE] \in Box
      BY DEF Box
    <2>3. mem' \in Reports
      <3> DEFINE r == [outcome |-> "error", state |-> NoBox]
      <3>1. mem' = mem \/ mem' = [mem EXCEPT !.att[FirstProbe(todo)] = r]
        BY <1>6 DEF Launch
      <3>2. [mem EXCEPT !.att[FirstProbe(todo)] = r] \in Reports
        BY <1>0, <2>1, RecordingIsTyped
      <3> QED BY <1>0, <3>1, <3>2
    <2>4. faults' \in 0..MaxFaults
      BY <1>0, <1>6, FaultsAreCounted DEF Launch
    <2>5. box' \in Box /\ (box' # NoBox => pc' \in {"poll", "fail", "stop"})
      BY <1>0, <1>6, <2>2 DEF Launch
    <2> QED BY <1>0, <1>6, <2>3, <2>4, <2>5 DEF Launch, disk
  <1>7. CASE Ready
    <2>1. PICK s \in {NoBox, box} : mem' = [mem EXCEPT !.att[FirstProbe(todo)] =
                [outcome |-> "startup_feasible", state |-> s]]
      BY <1>7 DEF Ready
    <2>2. [outcome |-> "startup_feasible", state |-> s] \in Record
      BY <1>0, NoBoxIsBox DEF Record, Outcomes
    <2>3. mem' \in Reports
      BY <1>0, <2>1, <2>2, RecordingIsTyped
    <2> QED BY <1>0, <1>7, <2>3 DEF Ready, disk, local, probe, vars
  <1>8. CASE LooksDead
    BY <1>0, <1>8 DEF LooksDead, disk, local, probe, vars
  <1>9. CASE Fail
    <2>1. PICK s \in {NoBox, box} : mem' = [mem EXCEPT !.att[FirstProbe(todo)] =
                [outcome |-> Outcome(s), state |-> s]]
      BY <1>9 DEF Fail
    <2>2. [outcome |-> Outcome(s), state |-> s] \in Record
      BY <1>0, NoBoxIsBox DEF Record, Outcomes, Outcome
    <2>3. mem' \in Reports
      BY <1>0, <2>1, <2>2, RecordingIsTyped
    <2> QED BY <1>0, <1>9, <2>3 DEF Fail, disk, local, probe, vars
  <1>10. CASE Stop
    BY <1>0, <1>10, FaultsAreCounted DEF Stop, disk, local, probe, vars, NoBox, Box
  <1>11. CASE SaveRecord
    BY <1>0, <1>11, FaultsAreCounted, GoingOnShrinks DEF SaveRecord, disk, local, probe, vars
  <1>12. CASE CompleteReport
    BY <1>0, <1>12, StatusIsTyped, FaultsAreCounted DEF CompleteReport, disk, local, probe, vars
  <1>13. CASE Freeze
    BY <1>0, <1>13, FaultsAreCounted DEF Freeze, disk, local, probe, vars, Plans, OomPrefixes
  <1>14. CASE Bind
    BY <1>0, <1>14, FaultsAreCounted, OrderIsPlanned DEF Bind, disk, local, probe, vars
  <1>15. CASE StartCase
    BY <1>0, <1>15, OrderIsPlanned DEF StartCase, disk, local, probe, vars, ProbeResults
  <1>16. CASE RunCase
    <2>1. next \in Numbers
      BY <1>16 DEF RunCase, PhaseOK
    <2>2. result' \in [Numbers -> ProbeResults]
      <3>1. CASE result' = result
        BY <1>0, <3>1
      <3>2. CASE result' # result
        <4>1. PICK v \in {"inferred", "measured"} : result' = [result EXCEPT ![next] = v]
          BY <1>16, <3>2 DEF RunCase
        <4> QED BY <1>0, <4>1 DEF ProbeResults
      <3> QED BY <3>1, <3>2
    <2>3. next' \in 1..(Len(Order) + 1)
      BY <1>0, <1>16, <2>1, OrderIsPlanned DEF RunCase
    <2>4. faults' \in 0..MaxFaults
      BY <1>0, <1>16, FaultsAreCounted DEF RunCase
    <2> QED BY <1>0, <1>16, <2>2, <2>3, <2>4 DEF RunCase, probe
  <1>17. CASE Finish
    BY <1>0, <1>17 DEF Finish, disk, local, probe, vars
  <1>18. CASE OomKill
    BY <1>0, <1>18 DEF OomKill, disk, local, probe, vars, Box
  <1>19. CASE ServerExits
    BY <1>0, <1>19 DEF ServerExits, disk, local, probe, vars, Box
  <1>20. CASE DeadlinePasses
    BY <1>0, <1>20 DEF DeadlinePasses, disk, local, probe, vars
  <1>21. CASE Crash
    BY <1>0, <1>21, FaultsAreCounted DEF Crash, disk, local, probe, vars, NoBox, Box
  <1>22. CASE Edit
    <2>1. [outcome |-> "startup_oom", state |-> [st |-> "exited", oom |-> TRUE]] \in Record
      BY DEF Record, Outcomes, Box
    <2>2. report' \in Reports
      <3>1. CASE report' = report
        BY <1>0, <3>1
      <3>2. CASE report' # report
        <4>1. PICK x \in Probes, a \in {NoRecord, [outcome |-> "startup_oom", state |-> [st |-> "exited", oom |-> TRUE]]} :
                report' = [report EXCEPT !.att[x] = a]
          BY <1>22, <3>2 DEF Edit
        <4> QED BY <1>0, <2>1, <4>1, RecordingIsTyped
      <3> QED BY <3>1, <3>2
    <2>3. plan' \in Plans
      BY <1>0, <1>22 DEF Edit, Plans, NoPlan
    <2>4. edits' \in 0..MaxEdits
      BY <1>0, <1>22, ConstantsAssumption DEF Edit
    <2> QED BY <1>0, <1>22, <2>2, <2>3, <2>4 DEF Edit, local, probe
  <1>30. CASE UNCHANGED vars
    BY <1>0, <1>30 DEF disk, local, probe, vars
  <1> QED BY <1>1, <1>2, <1>3, <1>4, <1>5, <1>6, <1>7, <1>8, <1>9, <1>10, <1>11, <1>12, <1>13, <1>14, <1>15, <1>16, <1>17, <1>18, <1>19, <1>20, <1>21, <1>22, <1>30 DEF Next, ProcessStep

LEMMA PruningRecords ==
  ASSUME PruningInv, [Next]_vars
  PROVE (BoundOK /\ PhaseOK)'
  <1> USE DEF PruningInv, BoundOK, PhaseOK
  <1>1. CASE Begin
    BY <1>1 DEF Begin, disk, local, probe, vars
  <1>2. CASE OpenReport
    BY <1>2 DEF OpenReport, disk, local, probe, vars
  <1>3. CASE LoadPlan
    BY <1>3 DEF LoadPlan, disk, local, probe, vars, PlanHolds
  <1>4. CASE RefuseLostPlan
    BY <1>4 DEF RefuseLostPlan, disk, local, probe, vars
  <1>5. CASE SkipProbed
    BY <1>5 DEF SkipProbed, disk, local, probe, vars
  <1>6. CASE Launch
    BY <1>6 DEF Launch, disk, local, probe, vars
  <1>7. CASE Ready
    BY <1>7 DEF Ready, disk, local, probe, vars
  <1>8. CASE LooksDead
    BY <1>8 DEF LooksDead, disk, local, probe, vars
  <1>9. CASE Fail
    BY <1>9 DEF Fail, disk, local, probe, vars
  <1>10. CASE Stop
    BY <1>10 DEF Stop, disk, local, probe, vars
  <1>11. CASE SaveRecord
    BY <1>11 DEF SaveRecord, disk, local, probe, vars
  <1>12. CASE CompleteReport
    BY <1>12 DEF CompleteReport, disk, local, probe, vars
  <1>13. CASE Freeze
    BY <1>13 DEF Freeze, disk, local, probe, vars
  <1>14. CASE Bind
    BY <1>14 DEF Bind, disk, local, probe, vars, Intact
  <1>15. CASE StartCase
    <2>1. result \in [Numbers -> ProbeResults]
      BY DEF TypeOK, ProbeResults
    <2>2. bound.plan = plan /\ bound' = bound /\ plan' = plan /\ report' = report /\ plan.st = "sealed"
      BY <1>15 DEF StartCase
    <2> QED BY <1>15, <2>1, <2>2 DEF StartCase, IsInferred, OomPrefixes
  <1>16. CASE RunCase
    <2>1. result \in [Numbers -> ProbeResults]
      BY DEF TypeOK, ProbeResults
    <2>2. bound.plan = plan /\ bound' = bound /\ plan' = plan /\ report' = report /\ plan.st = "sealed"
      BY <1>16 DEF RunCase
    <2> QED BY <1>16, <2>1, <2>2 DEF RunCase, IsInferred, OomPrefixes
  <1>17. CASE Finish
    BY <1>17 DEF Finish, disk, local, probe, vars
  <1>18. CASE OomKill
    BY <1>18 DEF OomKill, disk, local, probe, vars
  <1>19. CASE ServerExits
    BY <1>19 DEF ServerExits, disk, local, probe, vars
  <1>20. CASE DeadlinePasses
    BY <1>20 DEF DeadlinePasses, disk, local, probe, vars
  <1>21. CASE Crash
    BY <1>21 DEF Crash, disk, local, probe, vars
  <1>22. CASE Edit
    BY <1>22 DEF Edit, disk, local, probe, vars
  <1>30. CASE UNCHANGED vars
    BY <1>30 DEF disk, local, probe, vars, OomPrefixes, IsInferred
  <1> QED BY <1>1, <1>2, <1>3, <1>4, <1>5, <1>6, <1>7, <1>8, <1>9, <1>10, <1>11, <1>12, <1>13, <1>14, <1>15, <1>16, <1>17, <1>18, <1>19, <1>20, <1>21, <1>22, <1>30 DEF Next, ProcessStep

LEMMA PruningEvidence ==
  ASSUME MaxEdits <= 1, PruningInv, EvidenceOK, [Next]_vars
  PROVE EvidenceOK'
  <1> USE DEF EvidenceOK, PruningInv
  <1>0. mem \in Reports /\ report \in Reports /\ (box # NoBox => pc \in {"poll", "fail", "stop"})
    BY DEF TypeOK, Reports
  <1>100. ~NoBox.oom
    BY DEF NoBox
  <1>101. edits \in 0..MaxEdits /\ MaxEdits \in Nat
    BY ConstantsAssumption DEF TypeOK
  <1>1. CASE Begin
    BY <1>0, <1>100, <1>1 DEF Begin, disk, local, probe, vars, Earned, Grounded
  <1>2. CASE OpenReport
    BY <1>0, <1>100, <1>2 DEF OpenReport, disk, local, probe, vars, Earned, Grounded, Reports, NoPlan
  <1>3. CASE LoadPlan
    BY <1>0, <1>100, <1>3 DEF LoadPlan, disk, local, probe, vars, Earned, Grounded
  <1>4. CASE RefuseLostPlan
    BY <1>0, <1>100, <1>4 DEF RefuseLostPlan, disk, local, probe, vars, Earned, Grounded
  <1>5. CASE SkipProbed
    BY <1>0, <1>100, <1>5 DEF SkipProbed, disk, local, probe, vars, Earned, Grounded
  <1>6. CASE Launch
    <2>1. Earned(mem')
      BY <1>0, <1>6 DEF Launch, Earned, Reports, Confirmed
    <2> QED BY <1>0, <1>100, <1>6, <2>1 DEF Launch, disk, Earned, Grounded
  <1>7. CASE Ready
    <2>1. Earned(mem')
      BY <1>0, <1>7 DEF Ready, Earned, Reports, Confirmed
    <2> QED BY <1>7, <2>1 DEF Ready, disk, probe, Earned, Grounded
  <1>8. CASE LooksDead
    BY <1>0, <1>100, <1>8 DEF LooksDead, disk, local, probe, vars, Earned, Grounded
  <1>9. CASE Fail
    <2>1. PICK s \in {NoBox, box} : mem' = [mem EXCEPT !.att[FirstProbe(todo)] =
                [outcome |-> Outcome(s), state |-> s]]
      BY <1>9 DEF Fail
    <2>2. ASSUME Confirmed([outcome |-> Outcome(s), state |-> s]) PROVE FirstProbe(todo) \in killed
      BY <1>100, <2>2 DEF Confirmed, Outcome
    <2>3. Earned(mem')
      BY <1>0, <2>1, <2>2 DEF Earned, Reports
    <2> QED BY <1>9, <2>3 DEF Fail, disk, probe, Earned, Grounded
  <1>10. CASE Stop
    BY <1>0, <1>100, <1>10 DEF Stop, disk, local, probe, vars, Earned, Grounded
  <1>11. CASE SaveRecord
    BY <1>0, <1>100, <1>11 DEF SaveRecord, disk, local, probe, vars, Earned, Grounded, PhaseOK
  <1>12. CASE CompleteReport
    BY <1>0, <1>100, <1>12 DEF CompleteReport, disk, local, probe, vars, Earned, Grounded, Reports
  <1>13. CASE Freeze
    <2>1. Grounded(OomPrefixes(mem))
      BY DEF Grounded, OomPrefixes, Earned, Probes
    <2> QED BY <1>13, <2>1 DEF Freeze, local, probe, Earned, Grounded
  <1>14. CASE Bind
    BY <1>0, <1>100, <1>14 DEF Bind, disk, local, probe, vars, Earned, Grounded
  <1>15. CASE StartCase
    BY <1>0, <1>100, <1>15 DEF StartCase, disk, local, probe, vars, Earned, Grounded
  <1>16. CASE RunCase
    BY <1>0, <1>100, <1>16 DEF RunCase, disk, local, probe, vars, Earned, Grounded
  <1>17. CASE Finish
    BY <1>0, <1>100, <1>17 DEF Finish, disk, local, probe, vars, Earned, Grounded
  <1>18. CASE OomKill
    BY <1>0, <1>100, <1>18 DEF OomKill, disk, local, probe, vars, Earned, Grounded
  <1>19. CASE ServerExits
    BY <1>0, <1>100, <1>19 DEF ServerExits, disk, local, probe, vars, Earned, Grounded
  <1>20. CASE DeadlinePasses
    BY <1>0, <1>100, <1>20 DEF DeadlinePasses, disk, local, probe, vars, Earned, Grounded
  <1>21. CASE Crash
    BY <1>0, <1>100, <1>21 DEF Crash, disk, local, probe, vars, Earned, Grounded
  <1>22. CASE Edit
    <2>1. edits = 0 /\ edits' # 0
      BY <1>101, <1>22 DEF Edit
    <2>2. plan' = NoPlan => report' = report
      BY <1>22 DEF Edit, NoPlan
    <2>3. plan'.st = "absent" => report' = report
      BY <1>22 DEF Edit, NoPlan
    <2>4. plan'.st = "sealed" => plan' = plan
      BY <1>22 DEF Edit, NoPlan
    <2> QED BY <1>22, <2>1, <2>3, <2>4 DEF Edit, local, probe, Earned, Grounded
  <1>30. CASE UNCHANGED vars
    BY <1>30 DEF disk, local, probe, vars, Earned, Grounded
  <1> QED BY <1>1, <1>2, <1>3, <1>4, <1>5, <1>6, <1>7, <1>8, <1>9, <1>10, <1>11, <1>12, <1>13, <1>14, <1>15, <1>16, <1>17, <1>18, <1>19, <1>20, <1>21, <1>22, <1>30 DEF Next, ProcessStep

\* However often an attempt is stopped and whatever is edited between two of
\* them, the cases that run are those the evidence on disk asks for.
THEOREM PlansFollowTheirEvidence == Spec => [](TypeOK /\ PlanExplained)
  <1>1. Init => PruningInv
    BY PruningStarts
  <1>2. PruningInv /\ [Next]_vars => PruningInv'
    BY PruningTypes, PruningRecords DEF PruningInv
  <1>3. PruningInv => TypeOK /\ PlanExplained
    BY DEF PruningInv, BoundOK, PhaseOK, PlanExplained
  <1> QED BY <1>1, <1>2, <1>3, PTL DEF Spec

\* And a case is inferred only from kills that happened, if at most one edit is
\* made.  Two can forge a record and delete the plan that would contradict it.
THEOREM InferencesAreJustified == MaxEdits <= 1 => (Spec => []InferenceJustified)
  <1> SUFFICES ASSUME MaxEdits <= 1 PROVE Spec => []InferenceJustified
    OBVIOUS
  <1>1. Init => PruningInv /\ EvidenceOK
    BY PruningStarts
  <1>2. PruningInv /\ EvidenceOK /\ [Next]_vars => (PruningInv /\ EvidenceOK)'
    BY PruningTypes, PruningRecords, PruningEvidence DEF PruningInv
  <1>3. PruningInv /\ EvidenceOK => InferenceJustified
    <2> SUFFICES ASSUME PruningInv, EvidenceOK PROVE InferredIsEarned
      BY DEF PruningInv, BoundOK, PhaseOK, PlanExplained, InferenceJustified
    <2>1. ASSUME NEW k \in Numbers, result[k] = "inferred", NEW m \in Mems, m <= Order[k][2]
          PROVE  <<Order[k][3], m>> \in killed
      BY <2>1 DEF PruningInv, BoundOK, EvidenceOK, Grounded, IsInferred
    <2> QED BY <2>1 DEF InferredIsEarned
  <1> QED BY <1>1, <1>2, <1>3, PTL DEF Spec
-----------------------------------------------------------------------------
(* LatencyModel *)

Hardware == {"cpu", "gpu"}
Queues == {<<>>, <<"cpu">>, <<"gpu">>, <<"cpu", "gpu">>}
Waiting == {unfitted[i] : i \in DOMAIN unfitted}
Settled == {v.hardware : v \in verdicts}

\* The hardware of the table is settled or waits, and not both.
Awaited ==
    /\ unfitted \in Queues /\ Waiting \cap Settled = {}
    /\ plot \notin {"read", "refused", "died"} => \A h \in Hardware : PointsOf(h) # {} => h \in Waiting \cup Settled
    /\ plot \in {"folds", "judge"} => unfitted # <<>>
    /\ plot \in {"read", "write"} => verdicts = {} /\ seen = {}
    /\ plot \in {"report", "done"} => unfitted = <<>> \/ verdicts = {}

\* A prediction is of a point of the table, by a fit of points of the table; the
\* largest scale by smaller ones.
Predicted ==
    \A p \in seen :
        /\ p.kind \in Holdouts /\ p.point \in Points(table) /\ p.fit \subseteq Points(table)
        /\ \/ p.point.case.mode \in Settled
           \/ plot \in {"folds", "judge", "died"} /\ unfitted # <<>> /\ p.point.case.mode = Head(unfitted)
        /\ p.kind = "scale" =>
              LET ps == PointsOf(p.point.case.mode) IN p.point \in ps \ Below(ps) /\ p.fit \subseteq Below(ps)

\* Hardware found fit has passed both tests, and nothing that came later is about it.
Passed ==
    \A v \in verdicts : v.status = "ok" =>
        \A k \in Holdouts : Passes(k, Available(v.hardware, k), Of(v.hardware, k))

\* The files say what was found.
Stated ==
    /\ plot \in {"report", "done"} => residualsFile = [of |-> table, rows |-> seen, ready |-> FALSE]
    /\ plot = "done" => reportFile = [of |-> table, rows |-> {}, ready |-> Overall = "ok"]

LatencyInv == table \in Results /\ Awaited /\ Predicted /\ Passed /\ Stated

LEMMA QueueMoves ==
  ASSUME NEW q \in Queues, q # <<>>
  PROVE  /\ Head(q) \in Hardware /\ Tail(q) \in Queues
         /\ Head(q) \in {q[i] : i \in DOMAIN q}
         /\ {Tail(q)[i] : i \in DOMAIN Tail(q)} = {q[i] : i \in DOMAIN q} \ {Head(q)}
  <1>1. ASSUME NEW h \in Hardware, q = <<h>>
        PROVE  Tail(q) = <<>> /\ DOMAIN q = {1} /\ Head(q) = h /\ q[1] = h
    BY <1>1
  <1>2. CASE q = <<"cpu", "gpu">>
    <2>1. Tail(q) = <<"gpu">> /\ DOMAIN q = {1, 2} /\ Head(q) = "cpu" /\ q[1] = "cpu" /\ q[2] = "gpu"
      BY <1>2
    <2>2. DOMAIN Tail(q) = {1} /\ Tail(q)[1] = "gpu"
      BY <2>1
    <2> QED BY <2>1, <2>2 DEF Queues, Hardware
  <1>3. ASSUME NEW h \in Hardware, q = <<h>>
        PROVE  /\ Head(q) \in Hardware /\ Tail(q) \in Queues /\ Head(q) \in {q[i] : i \in DOMAIN q}
               /\ {Tail(q)[i] : i \in DOMAIN Tail(q)} = {q[i] : i \in DOMAIN q} \ {Head(q)}
    <2>1. DOMAIN Tail(q) = {}
      BY <1>1, <1>3
    <2> QED BY <1>1, <1>3, <2>1 DEF Queues
  <1> QED BY <1>2, <1>3 DEF Queues, Hardware

LEMMA PointsFit ==
  ASSUME NEW t
  PROVE  /\ \A p \in Points(t) : /\ \E w \in Frame(t) : p.case = w.case
                                 /\ p.windows = {w \in Frame(t) : w.case = p.case}
         /\ \A w \in Frame(t) : \E p \in Points(t) : p.case = w.case
  <1> DEFINE Of_(c) == {w \in Frame(t) : w.case = c}
             cases == {w.case : w \in Frame(t)}
  <1>1. Points(t) = {[case |-> c, actual |-> Median2(Of_(c)), windows |-> Of_(c)] : c \in cases}
    BY DEF Points
  <1>2. ASSUME NEW p \in Points(t)
        PROVE  p.case \in cases /\ p.windows = Of_(p.case)
    <2>1. PICK c \in cases : p = [case |-> c, actual |-> Median2(Of_(c)), windows |-> Of_(c)]
      BY <1>1
    <2>2. p.case = c /\ p.windows = Of_(c)
      BY <2>1
    <2> QED BY <2>2
  <1>3. ASSUME NEW w \in Frame(t)
        PROVE  \E p \in Points(t) : p.case = w.case
    <2>1. [case |-> w.case, actual |-> Median2(Of_(w.case)), windows |-> Of_(w.case)] \in Points(t)
      BY <1>1
    <2> QED BY <2>1
  <1> QED BY <1>2, <1>3

LEMMA FitsOf ==
  ASSUME NEW h, NEW ps, NEW fit \in Fits(h, ps)
  PROVE  fit.points = ps
  <1>1. \/ \E e \in FitErrors : fit = Fitted(ps, e)
        \/ \E e \in FitErrors, t \in {x \in TailErrors : TailPossible(h, ps)} : fit = WithTail(ps, e, t)
    BY DEF Fits
  <1>2. \A e : Fitted(ps, e).points = ps
    BY DEF Fitted
  <1>3. \A e, t : WithTail(ps, e, t).points = ps
    BY DEF WithTail, Fitted
  <1> QED BY <1>1, <1>2, <1>3

\* A finite set of numbers has a largest one: the one with the fewest above it.
LEMMA LargestIs ==
  ASSUME NEW S, S \subseteq Nat, IsFiniteSet(S), S # {}
  PROVE  \E x \in S : \A y \in S : y <= x
  <1> DEFINE Above(x) == {y \in S : y > x}
             T == {Cardinality(Above(x)) : x \in S}
  <1>1. \A x \in S : IsFiniteSet(Above(x)) /\ Cardinality(Above(x)) \in Nat
    BY FS_Subset, FS_CardinalityType
  <1>2. T \subseteq Nat /\ T # {}
    BY <1>1
  <1>3. PICK x \in S : \A y \in S : Cardinality(Above(x)) <= Cardinality(Above(y))
    <2> HIDE DEF Above
    <2>1. PICK n \in T : \A m \in T : n <= m
      BY <1>2, LeastOf
    <2> QED BY <2>1
  <1>4. ASSUME NEW y \in S, ~(y <= x)
        PROVE  FALSE
    <2>1. Above(y) \subseteq Above(x) /\ y \in Above(x) /\ y \notin Above(y)
      <3>1. x \in Nat /\ y \in Nat /\ y > x /\ ~(y > y)
        BY <1>4
      <3>2. \A z \in S : z > y => z > x
        BY <3>1
      <3> QED BY <3>1, <3>2
    <2>2. Cardinality(Above(y)) < Cardinality(Above(x))
      <3> HIDE DEF Above
      <3> QED BY <1>1, <2>1, FS_Subset
    <2> QED BY <1>1, <1>3, <2>2
  <1> QED BY <1>4

\* The cases of a result are of some hardware and have a scale.
LEMMA CasesAre ==
  ASSUME table \in Results
  PROVE  /\ Frame(table) \subseteq table.windows
         /\ \A p \in Points(table) : p.case.mode \in Hardware /\ p.case.scale \in Nat
  <1>1. Frame(table) \subseteq table.windows
    BY DEF Frame, Formal
  <1> QED BY <1>1, PointsFit, ResultsAssumption DEF Hardware

LEMMA TopIs ==
  ASSUME table \in Results, NEW h, PointsOf(h) # {}
  PROVE  /\ Top(PointsOf(h)) \in ScalesOf(PointsOf(h))
         /\ \A s \in ScalesOf(PointsOf(h)) : s \in Nat /\ s <= Top(PointsOf(h))
  <1> DEFINE S == ScalesOf(PointsOf(h))
             all == {w.case.scale : w \in table.windows}
  <1>1. S \subseteq Nat /\ S # {}
    BY CasesAre DEF ScalesOf, PointsOf
  <1>2. IsFiniteSet(all)
    <2> DEFINE scale == [w \in table.windows |-> w.case.scale]
    <2>1. scale \in Surjection(table.windows, all)
      BY DEF Surjection
    <2> HIDE DEF scale, all
    <2> QED BY <2>1, ResultsAssumption, FS_Surjection
  <1>3. S \subseteq all
    BY CasesAre, PointsFit DEF ScalesOf, PointsOf
  <1>4. IsFiniteSet(S)
    BY <1>2, <1>3, FS_Subset
  <1> HIDE DEF S
  <1>5. \E x \in S : \A y \in S : y <= x
    BY <1>1, <1>4, LargestIs
  <1>6. \E x \in S : \A y \in S : x >= y
    BY <1>1, <1>5
  <1>7. Max(S) \in S /\ \A y \in S : Max(S) >= y
    BY <1>6 DEF Max
  <1> QED BY <1>1, <1>7 DEF Top, S

LEMMA PlotStarts == PlotInit => LatencyInv
  BY DEF PlotInit, LatencyInv, Awaited, Queues, Waiting, Settled, Predicted, Passed, Stated

\* What was found of some hardware stays when others are predicted.
LEMMA OthersStay ==
  ASSUME NEW h, NEW new, seen' = seen \cup new, \A p \in new : p.point.case.mode # h,
         table' = table, \A c : <<h, c>> \in failed' <=> <<h, c>> \in failed,
         NEW k
  PROVE  Of(h, k)' = Of(h, k) /\ (Available(h, k)' <=> Available(h, k))
  <1>1. Of(h, k)' = Of(h, k)
    BY DEF Of
  <1>2. PointsOf(h)' = PointsOf(h)
    BY DEF PointsOf
  <1> QED BY <1>1, <1>2 DEF Available

\* The predictions of one fold or of the largest scale.
LEMMA PredictionsFit ==
  ASSUME LatencyInv, plot = "folds", NEW holdout \in Holdouts, NEW new, NEW rest, NEW points,
         \A p \in new : p.kind = holdout /\ p.point \in points /\ p.fit = rest,
         points \subseteq PointsOf(Head(unfitted)), rest \subseteq PointsOf(Head(unfitted)),
         holdout = "scale" => /\ points \cap Below(PointsOf(Head(unfitted))) = {}
                           /\ rest \subseteq Below(PointsOf(Head(unfitted))),
         seen' = seen \cup new, plot' \in {"folds", "judge"},
         \A x \in failed' : x \in failed \/ x[1] = Head(unfitted), failed \subseteq failed',
         UNCHANGED <<table, unfitted, verdicts, reportFile, residualsFile>>
  PROVE  LatencyInv'
  <1> DEFINE h == Head(unfitted)
  <1>1. h \in Waiting /\ h \in Hardware /\ h \notin Settled /\ unfitted # <<>>
    BY QueueMoves DEF LatencyInv, Awaited, Waiting
  <1>2. \A p \in PointsOf(h) : p \in Points(table) /\ p.case.mode = h
    BY DEF PointsOf
  <1>3. Awaited'
    BY DEF LatencyInv, Awaited, Waiting, Settled, PointsOf
  <1>4. Predicted'
    BY <1>1, <1>2 DEF LatencyInv, Predicted, Settled, PointsOf
  <1>5. Passed'
    <2> SUFFICES ASSUME NEW v \in verdicts, v.status = "ok", NEW k \in Holdouts
                 PROVE  Passes(k, Available(v.hardware, k)', Of(v.hardware, k)')
      BY DEF Passed
    <2>1. v.hardware # h
      BY <1>1 DEF Settled
    <2>2. Of(v.hardware, k)' = Of(v.hardware, k) /\ (Available(v.hardware, k)' <=> Available(v.hardware, k))
      BY <1>2, <2>1, OthersStay
    <2>3. Passes(k, Available(v.hardware, k), Of(v.hardware, k))
      BY DEF LatencyInv, Passed
    <2> QED BY <2>2, <2>3 DEF Passes
  <1>6. Stated'
    BY DEF Stated
  <1> QED BY <1>3, <1>4, <1>5, <1>6 DEF LatencyInv

\* Hardware is settled: it leaves the queue.
LEMMA SettlingIs ==
  ASSUME LatencyInv, plot \in {"next", "judge"}, unfitted # <<>>, NEW status, plot' = "next",
         status = "ok" => \A k \in Holdouts : Passes(k, Available(Head(unfitted), k), Of(Head(unfitted), k)),
         verdicts' = verdicts \cup {[hardware |-> Head(unfitted), status |-> status]},
         unfitted' = Tail(unfitted),
         UNCHANGED <<table, seen, failed, reportFile, residualsFile>>
  PROVE  LatencyInv'
  <1> DEFINE h == Head(unfitted)
  <1>0. Settled' = Settled \cup {h}
    <2> DEFINE v == [hardware |-> h, status |-> status]
    <2>1. verdicts' = verdicts \cup {v} /\ v.hardware = h
      OBVIOUS
    <2> HIDE DEF v
    <2> QED BY <2>1 DEF Settled
  <1> HIDE DEF h
  <1>1. h \in Waiting /\ unfitted' \in Queues /\ Waiting' = Waiting \ {h} /\ Settled' = Settled \cup {h}
    BY <1>0, QueueMoves DEF LatencyInv, Awaited, Waiting, h
  <1> USE DEF h
  <1>2. Awaited'
    BY <1>1 DEF LatencyInv, Awaited, PointsOf
  <1>3. Predicted'
    BY <1>1 DEF LatencyInv, Predicted, PointsOf
  <1>4. \A g, k : Of(g, k)' = Of(g, k) /\ (Available(g, k)' <=> Available(g, k))
    BY DEF Of, Available, PointsOf
  <1>5. Passed'
    BY <1>4 DEF LatencyInv, Passed, Passes
  <1>6. Stated'
    BY DEF Stated
  <1> QED BY <1>2, <1>3, <1>5, <1>6 DEF LatencyInv

LEMMA PlotSteps == LatencyInv /\ [PlotNext]_plotVars => LatencyInv'
  <1> SUFFICES ASSUME LatencyInv, [PlotNext]_plotVars PROVE LatencyInv'
    OBVIOUS
  <1>1. CASE ReadTable
    <2>1. /\ plot = "read" /\ verdicts = {} /\ seen = {} /\ plot' \in {"refused", "write", "next"}
          /\ UNCHANGED <<table, seen, verdicts, reportFile, residualsFile>>
      BY <1>1 DEF ReadTable, LatencyInv, Awaited
    <2>2. unfitted' \in Queues /\ \A h \in Hardware : PointsOf(h) # {} => h \in Waiting'
      <3> DEFINE first == IF PointsOf("cpu") # {} THEN <<"cpu">> ELSE <<>>
                 second == IF PointsOf("gpu") # {} THEN <<"gpu">> ELSE <<>>
      <3>1. unfitted' = first \o second
        BY <1>1 DEF ReadTable
      <3>2. CASE PointsOf("cpu") = {} /\ PointsOf("gpu") = {}
        <4>1. unfitted' = <<>>
          BY <3>1, <3>2
        <4> QED BY <3>2, <4>1 DEF Queues, Hardware
      <3>3. CASE PointsOf("cpu") # {} /\ PointsOf("gpu") = {}
        <4>1. unfitted' = <<"cpu">>
          <5>1. first = <<"cpu">> /\ second = <<>>
            BY <3>3
          <5>2. <<"cpu">> \o <<>> = <<"cpu">>
            OBVIOUS
          <5> HIDE DEF first, second
          <5> QED BY <3>1, <5>1, <5>2, Zenon
        <4>2. 1 \in DOMAIN unfitted' /\ unfitted'[1] = "cpu"
          BY <4>1
        <4> QED BY <3>3, <4>1, <4>2 DEF Queues, Hardware, Waiting
      <3>4. CASE PointsOf("cpu") = {} /\ PointsOf("gpu") # {}
        <4>1. unfitted' = <<"gpu">>
          <5>1. first = <<>> /\ second = <<"gpu">>
            BY <3>4
          <5>2. <<>> \o <<"gpu">> = <<"gpu">>
            OBVIOUS
          <5> HIDE DEF first, second
          <5> QED BY <3>1, <5>1, <5>2, Zenon
        <4>2. 1 \in DOMAIN unfitted' /\ unfitted'[1] = "gpu"
          BY <4>1
        <4> QED BY <3>4, <4>1, <4>2 DEF Queues, Hardware, Waiting
      <3>5. CASE PointsOf("cpu") # {} /\ PointsOf("gpu") # {}
        <4>1. unfitted' = <<"cpu", "gpu">>
          <5>1. first = <<"cpu">> /\ second = <<"gpu">>
            BY <3>5
          <5>2. <<"cpu">> \o <<"gpu">> = <<"cpu", "gpu">>
            <6> DEFINE q == <<"cpu">> \o <<"gpu">>
                       r == <<"cpu", "gpu">>
            <6>1. /\ q \in Seq({"cpu", "gpu"}) /\ r \in Seq({"cpu", "gpu"}) /\ Len(q) = 2 /\ Len(r) = 2
                  /\ q[1] = r[1] /\ q[2] = r[2]
              OBVIOUS
            <6>2. \A i \in 1..Len(q) : q[i] = r[i]
              <7> HIDE DEF q, r
              <7> QED BY <6>1
            <6> HIDE DEF q, r
            <6>3. q = r
              BY <6>1, <6>2, SeqEqual
            <6> QED BY <6>3 DEF q, r
          <5> HIDE DEF first, second
          <5> QED BY <3>1, <5>1, <5>2, Zenon
        <4>2. {1, 2} \subseteq DOMAIN unfitted' /\ unfitted'[1] = "cpu" /\ unfitted'[2] = "gpu"
          BY <4>1
        <4> QED BY <4>1, <4>2 DEF Queues, Hardware, Waiting
      <3> QED BY <3>2, <3>3, <3>4, <3>5
    <2>3. Waiting' \cap Settled' = {}
      BY <2>1 DEF Settled
    <2>4. Awaited'
      BY <2>1, <2>2, <2>3 DEF Awaited, PointsOf
    <2>5. Predicted' /\ Passed' /\ Stated'
      BY <2>1 DEF Predicted, Passed, Stated
    <2> QED BY <2>1, <2>4, <2>5 DEF LatencyInv
  <1>2. CASE NextHardware
    <2>1. CASE Cardinality(PointsOf(Head(unfitted))) < 3
      <3>1. /\ plot = "next" /\ unfitted # <<>> /\ plot' = "next"
            /\ verdicts' = verdicts \cup {[hardware |-> Head(unfitted), status |-> "skipped"]}
            /\ unfitted' = Tail(unfitted)
            /\ UNCHANGED <<table, seen, failed, reportFile, residualsFile>>
        BY <1>2, <2>1 DEF NextHardware
      <3> DEFINE status == "skipped"
      <3>2. /\ status # "ok"
            /\ verdicts' = verdicts \cup {[hardware |-> Head(unfitted), status |-> status]}
        BY <3>1
      <3> HIDE DEF status
      <3> QED BY <3>1, <3>2, SettlingIs
    <2>2. CASE ~(Cardinality(PointsOf(Head(unfitted))) < 3)
      <3>1. /\ plot = "next" /\ plot' = "folds" /\ unfitted # <<>>
            /\ UNCHANGED <<table, unfitted, seen, failed, verdicts, reportFile, residualsFile>>
        BY <1>2, <2>2 DEF NextHardware
      <3> QED BY <3>1 DEF LatencyInv, Awaited, Waiting, Settled, Predicted, Passed, Stated, PointsOf, Of, Available
    <2> QED BY <2>1, <2>2
  <1>3. CASE Fold
    <2> DEFINE h == Head(unfitted)
               ps == PointsOf(h)
               c == CHOOSE x \in left : \A y \in left : x[1] < y[1] \/ (x[1] = y[1] /\ x[2] <= y[2])
               rest == TrainingRows(ps, c)
               points == {p \in ps : Configuration(p) = c}
    <2>1. plot = "folds" /\ plot' = "folds" /\ UNCHANGED <<table, unfitted, verdicts, reportFile, residualsFile>>
      BY <1>3 DEF Fold
    <2>2. rest \subseteq ps /\ points \subseteq ps
      BY DEF TrainingRows
    <2>3. \/ failed' = failed \cup {<<h, c>>} /\ UNCHANGED seen
          \/ /\ UNCHANGED failed
             /\ \E fit \in Fits(h, rest) : seen' = seen \cup Predictions("configuration", fit, points, Top(ps))
      BY <1>3 DEF Fold
    <2>4. CASE failed' = failed \cup {<<h, c>>} /\ UNCHANGED seen
      <3>1. seen' = seen \cup {} /\ failed \subseteq failed' /\ \A x \in failed' : x \in failed \/ x[1] = h
        BY <2>4
      <3> DEFINE none == {}
                 holdout == "configuration"
      <3>2. holdout \in Holdouts /\ holdout # "scale" /\ none \subseteq ps /\ seen' = seen \cup none
        BY <3>1 DEF Holdouts
      <3>3. \A p \in none : p.kind = holdout /\ p.point \in none /\ p.fit = none
        OBVIOUS
      <3> HIDE DEF none, holdout
      <3> QED BY <2>1, <3>1, <3>2, <3>3, PredictionsFit
    <2>5. CASE /\ UNCHANGED failed
               /\ \E fit \in Fits(h, rest) : seen' = seen \cup Predictions("configuration", fit, points, Top(ps))
      <3>1. PICK fit \in Fits(h, rest) : seen' = seen \cup Predictions("configuration", fit, points, Top(ps))
        BY <2>5
      <3> DEFINE new == Predictions("configuration", fit, points, Top(ps))
      <3>2. \A p \in new : p.kind = "configuration" /\ p.point \in points /\ p.fit = rest
        BY FitsOf DEF Predictions
      <3> HIDE DEF new, points, rest
      <3> QED BY <2>1, <2>2, <2>5, <3>1, <3>2, PredictionsFit DEF Holdouts, new
    <2> QED BY <2>3, <2>4, <2>5
  <1>4. CASE HoldOutScale
    <2> DEFINE h == Head(unfitted)
               ps == PointsOf(h)
    <2>1. plot = "folds" /\ plot' = "judge" /\ UNCHANGED <<table, unfitted, failed, verdicts, reportFile, residualsFile>>
      BY <1>4 DEF HoldOutScale
    <2>2. Below(ps) \subseteq ps
      BY DEF Below
    <2>3. \/ UNCHANGED seen
          \/ \E fit \in Fits(h, Below(ps)) : seen' = seen \cup Predictions("scale", fit, ps \ Below(ps), Top(ps))
      BY <1>4 DEF HoldOutScale
    <2>4. CASE UNCHANGED seen
      <3>1. seen' = seen \cup {} /\ failed \subseteq failed' /\ \A x \in failed' : x \in failed \/ x[1] = h
        BY <2>1, <2>4
      <3> DEFINE none == {}
                 holdout == "configuration"
      <3>2. holdout \in Holdouts /\ holdout # "scale" /\ none \subseteq ps /\ seen' = seen \cup none
        BY <3>1 DEF Holdouts
      <3>3. \A p \in none : p.kind = holdout /\ p.point \in none /\ p.fit = none
        OBVIOUS
      <3> HIDE DEF none, holdout
      <3> QED BY <2>1, <3>1, <3>2, <3>3, PredictionsFit
    <2>5. CASE \E fit \in Fits(h, Below(ps)) : seen' = seen \cup Predictions("scale", fit, ps \ Below(ps), Top(ps))
      <3>1. PICK fit \in Fits(h, Below(ps)) : seen' = seen \cup Predictions("scale", fit, ps \ Below(ps), Top(ps))
        BY <2>5
      <3> DEFINE new == Predictions("scale", fit, ps \ Below(ps), Top(ps))
                 points == ps \ Below(ps)
      <3>2. \A p \in new : p.kind = "scale" /\ p.point \in points /\ p.fit = Below(ps)
        BY FitsOf DEF Predictions
      <3>3. points \subseteq ps /\ points \cap Below(ps) = {}
        OBVIOUS
      <3> HIDE DEF new, points
      <3> QED BY <2>1, <2>2, <3>1, <3>2, <3>3, PredictionsFit DEF Holdouts, new
    <2> QED BY <2>3, <2>4, <2>5
  <1>5. CASE Judge
    <2>1. Status(Head(unfitted)) = "ok" =>
            \A k \in Holdouts : Passes(k, Available(Head(unfitted), k), Of(Head(unfitted), k))
      BY DEF Status
    <2> QED BY <1>5, <2>1, SettlingIs DEF Judge, LatencyInv, Awaited
  <1>6. CASE WriteResiduals
    <2>1. /\ plot \in {"write", "next"} /\ plot' = "report" /\ (unfitted = <<>> \/ verdicts = {})
          /\ residualsFile' = [of |-> table, rows |-> seen, ready |-> FALSE]
          /\ UNCHANGED <<table, unfitted, seen, failed, verdicts>>
      BY <1>6 DEF WriteResiduals, LatencyInv, Awaited
    <2> QED BY <2>1 DEF LatencyInv, Awaited, Waiting, Settled, Predicted, Passed, Stated, PointsOf, Of, Available
  <1>7. CASE WriteReport
    <2>1. /\ plot = "report" /\ plot' = "done" /\ reportFile' = [of |-> table, rows |-> {}, ready |-> Overall = "ok"]
          /\ UNCHANGED <<table, unfitted, seen, failed, verdicts, residualsFile>>
      BY <1>7 DEF WriteReport
    <2> QED BY <2>1 DEF LatencyInv, Awaited, Waiting, Settled, Predicted, Passed, Stated, PointsOf, Of, Available,
               Overall, Statuses
  <1>8. CASE Dies
    <2>1. plot' = "died" /\ UNCHANGED <<table, unfitted, seen, failed, verdicts, reportFile, residualsFile>>
      BY <1>8 DEF Dies
    <2> QED BY <2>1 DEF LatencyInv, Awaited, Waiting, Settled, Predicted, Passed, Stated, PointsOf, Of, Available
  <1>9. CASE UNCHANGED plotVars
    <2>1. UNCHANGED <<table, plot, unfitted, left, seen, failed, verdicts, reportFile, residualsFile>>
      BY <1>9 DEF plotVars
    <2>2. Awaited' /\ Predicted'
      BY <2>1 DEF LatencyInv, Awaited, Waiting, Settled, Predicted, PointsOf
    <2>3. Passed'
      BY <2>1 DEF LatencyInv, Passed, Of, Available, PointsOf
    <2>4. Stated'
      BY <2>1 DEF LatencyInv, Stated, Overall, Statuses
    <2> QED BY <2>1, <2>2, <2>3, <2>4 DEF LatencyInv
  <1> QED BY <1>1, <1>2, <1>3, <1>4, <1>5, <1>6, <1>7, <1>8, <1>9 DEF PlotNext

LEMMA PlotInvariant == PlotSpec => []LatencyInv
  BY PlotStarts, PlotSteps, PTL DEF PlotSpec

\* When a report says that the model is ready, all hardware of the table was
\* settled and passed both tests.
LEMMA ReadyMeans ==
  ASSUME LatencyInv, plot = "done", reportFile.ready
  PROVE  \A h \in Hardware : PointsOf(h) # {} \/ h \in Settled =>
            \A k \in Holdouts : Passes(k, Available(h, k), Of(h, k))
  <1>1. Overall = "ok"
    <2> DEFINE fit == (Overall = "ok")
    <2>1. reportFile = [of |-> table, rows |-> {}, ready |-> fit]
      BY DEF LatencyInv, Stated
    <2> HIDE DEF fit
    <2>2. reportFile.ready = fit
      BY <2>1
    <2> QED BY <2>2, Zenon DEF fit
  <1>2. Statuses = {"ok"}
    BY <1>1 DEF Overall
  <1>3. verdicts # {} /\ \A v \in verdicts : v.status = "ok"
    BY <1>2 DEF Statuses
  <1>4. unfitted = <<>>
    BY <1>3 DEF LatencyInv, Awaited
  <1>5. Waiting = {}
    BY <1>4 DEF Waiting
  <1>6. \A h \in Hardware : PointsOf(h) # {} => h \in Settled
    BY <1>5 DEF LatencyInv, Awaited
  <1>7. \A h \in Settled : \A k \in Holdouts : Passes(k, Available(h, k), Of(h, k))
    BY <1>3 DEF LatencyInv, Passed, Settled
  <1> QED BY <1>6, <1>7

\* A prediction of the largest scale of some hardware is of that scale.
LEMMA LargestPredicted ==
  ASSUME LatencyInv, NEW p \in seen, p.kind = "scale"
  PROVE  LET ps == PointsOf(p.point.case.mode)
         IN /\ ps # {} /\ p.point.case.scale = Top(ps) /\ Top(ps) \in Nat
            /\ \A q \in p.fit : q.case.scale \in Nat /\ q.case.scale < Top(ps)
  <1> DEFINE ps == PointsOf(p.point.case.mode)
  <1>1. p.point \in ps \ Below(ps) /\ p.fit \subseteq Below(ps)
    BY DEF LatencyInv, Predicted
  <1>2. ps # {}
    BY <1>1
  <1>3. Top(ps) \in ScalesOf(ps) /\ \A s \in ScalesOf(ps) : s \in Nat /\ s <= Top(ps)
    BY <1>2, TopIs DEF LatencyInv
  <1>4. \A q \in ps : q.case.scale \in ScalesOf(ps)
    BY DEF ScalesOf
  <1> HIDE DEF ps
  <1>5. p.point.case.scale = Top(ps)
    BY <1>1, <1>3, <1>4 DEF Below
  <1>6. \A q \in p.fit : q.case.scale \in Nat /\ q.case.scale < Top(ps)
    BY <1>1, <1>3, <1>4 DEF Below
  <1> QED BY <1>2, <1>3, <1>5, <1>6 DEF ps

\* What a ready report rests on was predicted by fits that had not seen it.
LEMMA PredictedBlind ==
  ASSUME LatencyInv, plot = "done", reportFile.ready, NEW p \in seen
  PROVE  Blind(p) /\ Off(p) <= 6
  <1> DEFINE h == p.point.case.mode
  <1>1. p.kind \in Holdouts /\ p.point \in Points(table) /\ p.fit \subseteq Points(table) /\ h \in Settled
    BY DEF LatencyInv, Predicted
  <1>2. h \in Hardware
    BY <1>1, CasesAre DEF LatencyInv
  <1>3. Passes(p.kind, Available(h, p.kind), Of(h, p.kind))
    BY <1>1, <1>2, ReadyMeans
  <1>4. p \in Of(h, p.kind)
    BY DEF Of
  <1>5. ~Leaks(p) /\ Off(p) <= 6
    BY <1>3, <1>4 DEF Passes, EachWithin
  <1>6. ASSUME NEW q \in p.fit, NEW w \in q.windows
        PROVE  w.case = q.case
    BY <1>1, PointsFit
  <1>7. CASE p.kind = "configuration"
    <2>1. ASSUME NEW q \in p.fit
          PROVE  Configuration(q) # Configuration(p.point)
      BY <1>5, <1>7 DEF Leaks, Configurations
    <2> QED BY <1>5, <1>6, <1>7, <2>1 DEF Blind, Configuration
  <1>8. CASE p.kind = "scale"
    <2>1. \A q \in p.fit : q.case.scale < p.point.case.scale
      BY <1>8, LargestPredicted
    <2> QED BY <1>5, <1>6, <1>8, <2>1 DEF Blind
  <1> QED BY <1>1, <1>7, <1>8 DEF Holdouts

\* Of one holdout of hardware in the table.
LEMMA HardwarePassed ==
  ASSUME LatencyInv, plot = "done", reportFile.ready, NEW w \in Frame(table)
  PROVE  LET m == w.case.mode
         IN /\ \E p \in PointsOf(m) : p.case = w.case
            /\ \A k \in Holdouts : Passes(k, Available(m, k), Of(m, k))
            /\ {p.point : p \in Of(m, "configuration")} = PointsOf(m)
            /\ Of(m, "scale") # {}
  <1> DEFINE m == w.case.mode
  <1>1. PICK p \in Points(table) : p.case = w.case
    BY PointsFit
  <1>2. p \in PointsOf(m) /\ m \in Hardware
    BY <1>1, CasesAre DEF PointsOf, LatencyInv
  <1>3. \A k \in Holdouts : Passes(k, Available(m, k), Of(m, k))
    BY <1>2, ReadyMeans
  <1>4. \A k \in Holdouts : Available(m, k)
    BY <1>3 DEF Passes
  <1>5. {r.point : r \in Of(m, "configuration")} = PointsOf(m)
    <2>1. Available(m, "configuration")
      BY <1>4 DEF Holdouts
    <2> QED BY <2>1 DEF Available
  <1>6. Of(m, "scale") # {}
    <2>1. Available(m, "scale")
      BY <1>4 DEF Holdouts
    <2> QED BY <2>1 DEF Available
  <1> QED BY <1>1, <1>2, <1>3, <1>5, <1>6

\* The largest scale of some hardware among the windows and among the points.
LEMMA LargestOfWindows ==
  ASSUME LatencyInv, NEW m
  PROVE  ScalesOf(PointsOf(m)) = {w.case.scale : w \in {v \in Frame(table) : v.case.mode = m}}
  <1>1. ASSUME NEW p \in PointsOf(m)
        PROVE  \E w \in {v \in Frame(table) : v.case.mode = m} : p.case.scale = w.case.scale
    BY PointsFit DEF PointsOf
  <1>2. ASSUME NEW w \in {v \in Frame(table) : v.case.mode = m}
        PROVE  \E p \in PointsOf(m) : p.case.scale = w.case.scale
    BY PointsFit DEF PointsOf
  <1> QED BY <1>1, <1>2 DEF ScalesOf

\* For any results, whatever an earlier plot has left and however far the fits
\* are off: a finished plot has replaced both files, and what its report calls
\* ready has passed the thresholds on predictions of all cases, each made by a
\* fit that had seen nothing of the case's configuration, or nothing as large.
\* (cli/plot.py, analysis/latency_model.py)
THEOREM ReadinessIsEarned == PlotSpec => []ReadyIsEarned
  <1>1. ASSUME LatencyInv, plot = "done"
        PROVE  residualsFile.of = table /\ residualsFile.rows = seen /\ reportFile.of = table
    BY <1>1 DEF LatencyInv, Stated
  <1>2. ASSUME LatencyInv, plot = "done", reportFile.ready
        PROVE  LET good == {w \in table.windows : w.status = "ok" /\ ~w.warmup /\ w.latency > 0}
                   shown == residualsFile.rows
                   modes == {w.case.mode : w \in good}
               IN /\ \A p \in shown : Blind(p) /\ Off(p) <= 6
                  /\ \A w \in good :
                       \E p \in shown : p.kind = "configuration" /\ w \in p.point.windows
                                        /\ p.point.windows = {v \in good : v.case = w.case}
                  /\ \A m \in modes : \A k \in Holdouts :
                       LET ps == {p \in shown : p.kind = k /\ p.point.case.mode = m} IN
                       /\ Cardinality(ps) >= 4
                       /\ MapeWithin(ps, 4) /\ RelativeMaeWithin(ps, 4)
                       /\ k = "configuration" =>
                            /\ R2Enough(ps)
                            /\ \A c \in {w.case : w \in good} : c.mode = m =>
                                 MapeWithin({p \in ps : p.point.case.cpu = c.cpu /\ p.point.case.mem = c.mem}, 6)
                       /\ k = "scale" =>
                            {p.point.case.scale : p \in ps} = {Max({w.case.scale : w \in {v \in good : v.case.mode = m}})}
    <2> DEFINE good == {w \in table.windows : w.status = "ok" /\ ~w.warmup /\ w.latency > 0}
               shown == residualsFile.rows
               ofHardware(m, k) == {p \in shown : p.kind = k /\ p.point.case.mode = m}
    <2>1. good = Frame(table) /\ shown = seen
      BY <1>1, <1>2 DEF Frame, Formal
    <2>2. \A m, k : ofHardware(m, k) = Of(m, k)
      BY <2>1 DEF Of
    <2> HIDE DEF good, shown, ofHardware
    <2>3. \A p \in shown : Blind(p) /\ Off(p) <= 6
      BY <1>2, <2>1, PredictedBlind
    <2>4. ASSUME NEW w \in good
          PROVE  \E p \in shown : p.kind = "configuration" /\ w \in p.point.windows
                                  /\ p.point.windows = {v \in good : v.case = w.case}
      <3>1. PICK q \in PointsOf(w.case.mode) : q.case = w.case
        BY <1>2, <2>1, HardwarePassed
      <3>2. PICK p \in Of(w.case.mode, "configuration") : p.point = q
        BY <1>2, <2>1, HardwarePassed
      <3>3. q.windows = {v \in Frame(table) : v.case = w.case}
        BY <3>1, PointsFit DEF PointsOf
      <3>4. p \in shown /\ p.kind = "configuration"
        BY <2>1, <3>2 DEF Of
      <3> QED BY <2>1, <3>2, <3>3, <3>4
    <2>5. ASSUME NEW m \in {w.case.mode : w \in good}, NEW k \in Holdouts
          PROVE  /\ Cardinality(ofHardware(m, k)) >= 4
                 /\ MapeWithin(ofHardware(m, k), 4) /\ RelativeMaeWithin(ofHardware(m, k), 4)
      <3>1. Passes(k, Available(m, k), Of(m, k))
        BY <1>2, <2>1, HardwarePassed
      <3> QED BY <2>2, <3>1 DEF Passes
    <2>6. ASSUME NEW m \in {w.case.mode : w \in good}
          PROVE  /\ R2Enough(ofHardware(m, "configuration"))
                 /\ \A c \in {w.case : w \in good} : c.mode = m =>
                      MapeWithin({p \in ofHardware(m, "configuration") :
                                    p.point.case.cpu = c.cpu /\ p.point.case.mem = c.mem}, 6)
      <3> DEFINE ps == ofHardware(m, "configuration")
      <3>1. Passes("configuration", Available(m, "configuration"), Of(m, "configuration"))
        BY <1>2, <2>1, HardwarePassed DEF Holdouts
      <3>2. FoldsWithin(ps) /\ R2Enough(ps)
        BY <2>2, <3>1 DEF Passes
      <3>3. ASSUME NEW w \in good, w.case.mode = m
            PROVE  MapeWithin({p \in ps : p.point.case.cpu = w.case.cpu /\ p.point.case.mem = w.case.mem}, 6)
        <4> DEFINE c == <<w.case.cpu, w.case.mem>>
        <4>1. PICK q \in PointsOf(m) : q.case = w.case
          BY <1>2, <2>1, <3>3, HardwarePassed
        <4>2. q \in {p.point : p \in ps}
          BY <1>2, <2>1, <2>2, <3>3, <4>1, HardwarePassed
        <4>3. c \in Configurations({p.point : p \in ps})
          BY <4>1, <4>2 DEF Configurations, Configuration
        <4>4. MapeWithin({p \in ps : Configuration(p.point) = c}, 6)
          BY <3>2, <4>3 DEF FoldsWithin
        <4>5. {p \in ps : Configuration(p.point) = c}
                = {p \in ps : p.point.case.cpu = w.case.cpu /\ p.point.case.mem = w.case.mem}
          BY DEF Configuration
        <4> QED BY <4>4, <4>5
      <3> QED BY <3>2, <3>3
    <2>7. ASSUME NEW m \in {w.case.mode : w \in good}
          PROVE  {p.point.case.scale : p \in ofHardware(m, "scale")}
                   = {Max({w.case.scale : w \in {v \in good : v.case.mode = m}})}
      <3>1. Of(m, "scale") # {}
        BY <1>2, <2>1, HardwarePassed
      <3>2. \A p \in Of(m, "scale") : p.point.case.scale = Top(PointsOf(m))
        BY <1>2, LargestPredicted DEF Of
      <3>3. Top(PointsOf(m)) = Max({w.case.scale : w \in {v \in good : v.case.mode = m}})
        BY <1>2, <2>1, LargestOfWindows DEF Top
      <3> QED BY <2>2, <3>1, <3>2, <3>3
    <2>8. \A m \in {w.case.mode : w \in good} : \A k \in Holdouts :
            /\ Cardinality(ofHardware(m, k)) >= 4
            /\ MapeWithin(ofHardware(m, k), 4) /\ RelativeMaeWithin(ofHardware(m, k), 4)
            /\ k = "configuration" =>
                 /\ R2Enough(ofHardware(m, k))
                 /\ \A c \in {w.case : w \in good} : c.mode = m =>
                      MapeWithin({p \in ofHardware(m, k) : p.point.case.cpu = c.cpu /\ p.point.case.mem = c.mem}, 6)
            /\ k = "scale" =>
                 {p.point.case.scale : p \in ofHardware(m, k)}
                   = {Max({w.case.scale : w \in {v \in good : v.case.mode = m}})}
      BY <2>5, <2>6, <2>7, Zenon
    <2> QED BY <2>3, <2>4, <2>8, Zenon DEF good, shown, ofHardware
  <1>3. LatencyInv => ReadyIsEarned
    BY <1>1, <1>2 DEF ReadyIsEarned
  <1> QED BY <1>3, PlotInvariant, PTL
-----------------------------------------------------------------------------
\* Nothing that was seen of the model speaks against its task.
Uncontested(t) ==
    /\ {t.seen.spec, t.seen.hub, TagOf(t.seen, t.seen.spec)} \ {NoTask} \subseteq {t.selected}
    /\ \/ Operations[t.selected] = {} \/ AutoTask(t.seen.auto) = NoTask
       \/ Operations[t.selected] \cap Operations[t.seen.auto] # {}

\* A commit that can be read: finitely many tasks, and an Auto class the library serves.
Readable(s) == IsFiniteSet(s.arch) /\ (AutoTask(s.auto) # NoTask => Operations[s.auto] # {})

\* The user named the task, or nothing speaks against it.
Backed(t, a, names) == a.task # NoTask \/ Named(t, t.selected) \in names \/ Uncontested(t)

\* What is known of a model, as the resolution has it, with the options a, when the
\* user has named the tasks in names.
ModelOK(t, a, names) ==
    /\ t = [commit |-> t.commit, how |-> t.how, seen |-> t.seen, local |-> t.local, drafted |-> t.drafted,
            contract |-> t.contract, candidates |-> t.candidates, selected |-> t.selected, open |-> t.open]
    /\ Readable(t.commit) /\ Readable(t.seen)
    /\ t.drafted \in BOOLEAN
    /\ t.contract = "inputs" => /\ t.local = NoTask /\ t.seen.spec = NoTask /\ t.selected # NoTask
                                /\ Backed(t, a, names)
    /\ ~t.open /\ (t.local = NoTask \/ t.drafted) => Backed(t, a, names)

\* The tasks among some answers were named for the commit.
AnswersOK(commit, answers, names) ==
    /\ \E X : answers \in Seq(X)
    /\ \A i \in 1..Len(answers) :
          answers[i].on = "task" => [commit |-> commit, task |-> answers[i].pick] \in names

\* Of the model, the answers of this resolution, the kept ones and the stages.
InfoOK == main \in Commits \cup NewCommits /\ args \in Options /\ ModelOK(info, args, said)
DecisionsOK ==
    /\ AnswersOK(info.commit, decisions, said)
    /\ entry # NoEntry => entry.of.commit = info.commit
KeptOK == \A k \in kept : AnswersOK(k.of.commit, k.answers, said)
StepOK ==
    /\ step = "idle" => info = NoModel /\ decisions = <<>> /\ entry = NoEntry
    /\ step = "passed" => Agrees(info, args) /\ Supported(info)

SelectionInv == InfoOK /\ DecisionsOK /\ KeptOK /\ StepOK
-----------------------------------------------------------------------------
\* What a few names have in common when they are not two.
LEMMA OneName ==
    ASSUME NEW S, IsFiniteSet(S), ~(Cardinality(S) > 1)
    PROVE  \A x, y \in S : x = y
<1>1. SUFFICES ASSUME NEW x \in S, NEW y \in S, x # y PROVE FALSE
  OBVIOUS
<1>2. IsFiniteSet({x, y}) /\ Cardinality({x, y}) = 2
  <2>1. IsFiniteSet({y}) /\ Cardinality({y}) = 1
    BY FS_Singleton
  <2>2. {y} \cup {x} = {x, y} /\ x \notin {y}
    BY <1>1
  <2>. QED BY <2>1, <2>2, FS_AddElement
<1>3. Cardinality({x, y}) <= Cardinality(S) /\ Cardinality(S) \in Nat
  BY <1>2, FS_Subset, FS_CardinalityType
<1>. QED BY <1>2, <1>3

\* The only name there is.
LEMMA TheName ==
    ASSUME NEW S, IsFiniteSet(S), Cardinality(S) = 1
    PROVE  (CHOOSE x \in S : TRUE) \in S /\ \A y \in S : y = CHOOSE x \in S : TRUE
<1>1. S # {}
  BY FS_EmptySet
<1>. QED BY <1>1, OneName

\* The readings of a model put beside each other.
Chosen(s, d, declared, tag) ==
    /\ {declared, s.hub, tag} \ {NoTask} \subseteq {d.selected}
    /\ \/ Operations[d.selected] = {} \/ AutoTask(s.auto) = NoTask
       \/ Operations[d.selected] \cap Operations[s.auto] # {}

\* A comparison keeps the option, then the declaration; what it selects without them is not contradicted.
LEMMA ComparedIs ==
    ASSUME NEW s, Readable(s), NEW override, NEW declared, NEW tag
    PROVE  LET d == Compared(s, override, declared, tag)
           IN  /\ override # NoTask => d.selected = override
               /\ override = NoTask /\ declared # NoTask => d.selected = declared
               /\ d.missing = (d.selected \notin Adapted)
               /\ override = NoTask /\ ~d.clash /\ d.selected # NoTask => Chosen(s, d, declared, tag)
<1>. DEFINE first == OrElse(override, OrElse(declared, OrElse(s.hub, tag)))
            observed == {declared, s.hub, tag} \ {NoTask}
            named == ({declared, s.hub, tag, override, AutoTask(s.auto)} \cup s.arch) \ {NoTask}
            d == Compared(s, override, declared, tag)
<1>1. first = IF override # NoTask THEN override ELSE IF declared # NoTask THEN declared
              ELSE IF s.hub # NoTask THEN s.hub ELSE tag
  BY DEF OrElse
<1>2. IsFiniteSet(observed) /\ IsFiniteSet(named)
  <2>. DEFINE two == {declared} \cup {s.hub}
              three == two \cup {tag}
              five == three \cup {override} \cup {AutoTask(s.auto)}
  <2>1. IsFiniteSet(two)
    BY FS_Singleton, FS_AddElement
  <2>2. IsFiniteSet(three)
    BY <2>1, FS_AddElement
  <2>3. IsFiniteSet(five)
    BY <2>2, FS_AddElement
  <2>4. IsFiniteSet({declared, s.hub, tag})
    BY <2>2, three = {declared, s.hub, tag}
  <2>5. five = {declared, s.hub, tag, override, AutoTask(s.auto)}
    OBVIOUS
  <2>. HIDE DEF five
  <2>6. IsFiniteSet({declared, s.hub, tag, override, AutoTask(s.auto)} \cup s.arch)
    BY <2>3, <2>5, FS_Union DEF Readable
  <2>. QED BY <2>4, <2>6, FS_Subset
<1>3. /\ d.selected = IF first = NoTask /\ Cardinality(named) = 1 THEN CHOOSE t \in named : TRUE ELSE first
      /\ d.missing = (d.selected \notin Adapted)
      /\ override = NoTask /\ ~d.clash =>
            ~(Cardinality(observed) > 1) /\ ~Opposed(first, {AutoTask(s.auto)})
  BY DEF Compared, Judged
<1>. HIDE DEF first, named, d
<1>4. ASSUME override = NoTask, ~d.clash, d.selected # NoTask
      PROVE  Chosen(s, d, declared, tag)
  <2>1. CASE first = NoTask
    <3>1. observed = {}
      BY <1>1, <1>4, <2>1
    <3>2. \A y \in named : y = d.selected
      BY <1>2, <1>3, <1>4, <2>1, TheName
    <3>3. AutoTask(s.auto) # NoTask => AutoTask(s.auto) = d.selected
      BY <3>2 DEF named
    <3>4. AutoTask(s.auto) # NoTask => AutoTask(s.auto) = s.auto
      BY DEF AutoTask
    <3>. QED BY <3>1, <3>3, <3>4 DEF Chosen
  <2>2. CASE first # NoTask
    <3>1. d.selected = first /\ first \in observed
      BY <1>1, <1>3, <1>4, <2>2
    <3>2. \A x, y \in observed : x = y
      BY <1>2, <1>3, <1>4, OneName
    <3>3. AutoTask(s.auto) # NoTask => AutoTask(s.auto) = s.auto
      BY DEF AutoTask
    <3>4. /\ OperationsOf({first}) = Operations[first]
          /\ AutoTask(s.auto) # NoTask => OperationsOf({AutoTask(s.auto)}) = Operations[s.auto]
      BY <2>2, <3>3 DEF OperationsOf
    <3>5. OperationsOf({first}) # {} /\ OperationsOf({AutoTask(s.auto)}) # {} =>
             OperationsOf({first}) \cap OperationsOf({AutoTask(s.auto)}) # {}
      BY <1>3, <1>4 DEF Opposed
    <3>6. \/ Operations[first] = {} \/ AutoTask(s.auto) = NoTask
          \/ Operations[first] \cap Operations[s.auto] # {}
      BY <3>4, <3>5 DEF Readable
    <3>. QED BY <3>1, <3>2, <3>6 DEF Chosen
  <2>. QED BY <2>1, <2>2
<1>. QED BY <1>1, <1>3, <1>4 DEF d

\* What a resolution leaves alone, and when nothing speaks against what it selects.
ResolvedAs(t, m, override) ==
    /\ t = [commit |-> m.commit, how |-> m.how, seen |-> m.seen, local |-> m.local, drafted |-> FALSE,
            contract |-> t.contract, candidates |-> t.candidates, selected |-> t.selected, open |-> t.open]
    /\ override # NoTask => t.selected = override
    /\ override = NoTask /\ m.local # NoTask => t.selected = m.local
    /\ override = NoTask /\ ~t.open /\ m.local = NoTask => Uncontested(t)
    /\ t.contract = "inputs" => /\ m.local = NoTask /\ m.seen.spec = NoTask /\ t.selected # NoTask
                                /\ override = NoTask => Uncontested(t)

\* So does a resolution, and a gap in the inputs is found only where nobody has declared anything.
LEMMA ResolvedIs ==
    ASSUME NEW m, Readable(m.seen), NEW override, NEW before, NEW chosen
    PROVE  ResolvedAs(Resolved(m, override, before, chosen), m, override)
<1>. DEFINE declared(g) == OrElse(m.local, OrElse(m.seen.spec, g))
            found(g) == Discovered(m, g, override)
            d == found(NoTask)
            contract == Contract(m, d, OrElse(d.selected, before), chosen)
            undeclared == m.local = NoTask /\ m.seen.spec = NoTask
            final == IF contract = "resolved" /\ undeclared THEN found(d.selected) ELSE d
            t == Resolved(m, override, before, chosen)
<1>1. ASSUME NEW g
      PROVE  /\ override # NoTask => found(g).selected = override
             /\ override = NoTask /\ declared(g) # NoTask => found(g).selected = declared(g)
             /\ found(g).missing = (found(g).selected \notin Adapted)
             /\ override = NoTask /\ ~found(g).clash /\ found(g).selected # NoTask =>
                   Chosen(m.seen, found(g), declared(g), TagOf(m.seen, declared(g)))
  BY ComparedIs DEF Discovered, Tagged
<1>2. t = Concluded(m, override, before, contract, final)
  BY DEF Resolved, Interfaced, Completed
<1>3. NoTask \notin Adapted
  BY SelectionAssumption
<1>. HIDE DEF found
<1>4. /\ t = [commit |-> m.commit, how |-> m.how, seen |-> m.seen, local |-> m.local, drafted |-> FALSE,
              contract |-> t.contract, candidates |-> t.candidates, selected |-> t.selected, open |-> t.open]
      /\ t.contract = contract /\ t.selected = OrElse(override, OrElse(final.selected, before))
      /\ t.seen = m.seen
      /\ ~t.open => ~final.clash /\ ~final.missing
  <2>. HIDE DEF contract, final, t
  <2>. QED BY <1>2 DEF Concluded
<1>5. /\ contract = "resolved" /\ undeclared => ~d.clash /\ ~d.missing
      /\ contract = "inputs" => undeclared /\ ~d.clash /\ ~d.missing
  <2>. HIDE DEF d
  <2>. QED BY DEF Contract
<1>. HIDE DEF contract, t
<1>6. ASSUME override = NoTask, m.local = NoTask, ~d.clash, ~d.missing, t.selected = d.selected
      PROVE  Uncontested(t)
  <2>1. d.selected # NoTask
    BY <1>1, <1>3, <1>6
  <2>2. Chosen(m.seen, d, m.seen.spec, TagOf(m.seen, m.seen.spec))
    <3>1. declared(NoTask) = m.seen.spec
      BY <1>6 DEF OrElse
    <3>. QED BY <1>1, <1>6, <2>1, <3>1
  <2>. HIDE DEF d
  <2>. QED BY <1>4, <1>6, <2>2 DEF Chosen, Uncontested
<1>7. override # NoTask => t.selected = override
  BY <1>4 DEF OrElse
<1>8. ASSUME override = NoTask, m.local # NoTask
      PROVE  t.selected = m.local
  <2>1. declared(NoTask) = m.local
    BY <1>8 DEF OrElse
  <2>2. final = d
    BY <1>8
  <2>3. d.selected = m.local
    BY <1>1, <1>8, <2>1
  <2>. QED BY <1>4, <1>8, <2>2, <2>3 DEF OrElse
<1>9. ASSUME override = NoTask, ~t.open, m.local = NoTask
      PROVE  Uncontested(t)
  <2>1. CASE final = d
    <3>1. ~d.clash /\ ~d.missing /\ d.selected # NoTask
      BY <1>1, <1>3, <1>4, <1>9, <2>1
    <3>2. t.selected = d.selected
      BY <1>4, <1>9, <2>1, <3>1 DEF OrElse
    <3>. QED BY <1>6, <1>9, <3>1, <3>2
  <2>2. CASE contract = "resolved" /\ undeclared
    <3>1. ~d.clash /\ ~d.missing /\ d.selected # NoTask
      BY <1>1, <1>3, <1>5, <2>2
    <3>2. declared(d.selected) = d.selected
      BY <2>2 DEF OrElse
    <3>3. found(d.selected).selected = d.selected
      BY <1>1, <1>9, <3>1, <3>2
    <3>4. t.selected = d.selected
      BY <1>4, <1>9, <2>2, <3>1, <3>3 DEF OrElse
    <3>. QED BY <1>6, <1>9, <3>1, <3>4
  <2>. QED BY <2>1, <2>2
<1>10. ASSUME t.contract = "inputs"
       PROVE  /\ m.local = NoTask /\ m.seen.spec = NoTask /\ t.selected # NoTask
              /\ override = NoTask => Uncontested(t)
  <2>1. undeclared /\ ~d.clash /\ ~d.missing /\ final = d
    BY <1>4, <1>5, <1>10
  <2>2. d.selected # NoTask
    BY <1>1, <1>3, <2>1
  <2>3. t.selected # NoTask /\ (override = NoTask => t.selected = d.selected)
    BY <1>4, <2>1, <2>2 DEF OrElse
  <2>. QED BY <1>6, <2>1, <2>3
<1>. QED BY <1>4, <1>7, <1>8, <1>9, <1>10 DEF ResolvedAs, t

\* What is known of a resolution whose answers, if it was given one, were named.
LEMMA ResolvedOK ==
    ASSUME NEW m, Readable(m.seen), Readable(m.commit), NEW override, NEW before, NEW chosen, NEW a, NEW names,
           override = NoTask \/ a.task # NoTask \/ Named(m, override) \in names
    PROVE  ModelOK(Resolved(m, override, before, chosen), a, names)
<1>. DEFINE t == Resolved(m, override, before, chosen)
<1>1. ResolvedAs(t, m, override)
  BY ResolvedIs
<1>. HIDE DEF t
<1>2. /\ t = [commit |-> t.commit, how |-> t.how, seen |-> t.seen, local |-> t.local, drafted |-> t.drafted,
              contract |-> t.contract, candidates |-> t.candidates, selected |-> t.selected, open |-> t.open]
      /\ t.commit = m.commit /\ t.seen = m.seen /\ t.local = m.local /\ t.drafted = FALSE
  BY <1>1 DEF ResolvedAs
<1>3. override # NoTask => Backed(t, a, names)
  BY <1>1, <1>2 DEF ResolvedAs, Backed, Named
<1>4. override = NoTask /\ Uncontested(t) => Backed(t, a, names)
  BY DEF Backed
<1>. QED BY <1>1, <1>2, <1>3, <1>4 DEF ResolvedAs, ModelOK, t

\* What a lookup has seen can be read, whichever way it went.
LEMMA LookedUpIs ==
    ASSUME NEW c, Readable(c), NEW look, NEW a
    PROVE  LET m == LookedUp(c, look, a) IN Readable(m.seen) /\ m.commit = c
<1>1. Readable(Blank)
  BY FS_EmptySet, SelectionAssumption DEF Readable, Blank, AutoTask
<1>2. Readable(FromConfig(c, look))
  <2>1. FromConfig(c, look).arch = c.arch /\ FromConfig(c, look).auto = NoTask
    BY DEF FromConfig, Blank
  <2>. QED BY <2>1, SelectionAssumption DEF Readable, AutoTask
<1>3. LookedUp(c, look, a).seen \in {c, Blank, FromConfig(c, look)} /\ LookedUp(c, look, a).commit = c
  <2>. HIDE DEF Blank
  <2>. QED BY DEF LookedUp
<1>. QED BY <1>1, <1>2, <1>3

\* A model just looked up agrees with the options.
LEMMA DetectedIs ==
    ASSUME NEW c, Readable(c), NEW look, NEW a, NEW names
    PROVE  LET t == Detected(c, look, a) IN ModelOK(t, a, names) /\ t.commit = c /\ Agrees(t, a)
<1>. DEFINE m == LookedUp(c, look, a)  t == Detected(c, look, a)
<1>1. Readable(m.seen) /\ m.commit = c
  BY LookedUpIs
<1>2. t = Resolved(m, a.task, NoTask, 0)
  BY DEF Detected
<1>. HIDE DEF m, t
<1>3. ResolvedAs(t, m, a.task)
  BY <1>1, <1>2, ResolvedIs
<1>4. t.commit = c /\ Agrees(t, a)
  BY <1>1, <1>3 DEF ResolvedAs, Agrees
<1>5. ModelOK(t, a, names)
  BY <1>1, <1>2, ResolvedOK
<1>. QED BY <1>4, <1>5 DEF t

\* An answer that fits keeps what is known of the model.
LEMMA ReviewedIs ==
    ASSUME NEW t, NEW a, NEW names, ModelOK(t, a, names), NEW reply \in Replies(t, a),
           reply.on = "task" => Named(t, reply.pick) \in names
    PROVE  ModelOK(Reviewed(t, reply), a, names) /\ Reviewed(t, reply).commit = t.commit
<1>. DEFINE m == IF reply.on = "inputs" THEN [t EXCEPT !.local = t.selected] ELSE t
            override == IF reply.on = "task" THEN reply.pick ELSE NoTask
            chosen == IF reply.on = "pipeline" THEN reply.pick ELSE 0
            r == Resolved(m, override, t.selected, chosen)
<1>1. Reviewed(t, reply) = [r EXCEPT !.drafted = reply.on = "inputs"]
  BY DEF Reviewed
<1>2. m.seen = t.seen /\ m.commit = t.commit /\ m.local = IF reply.on = "inputs" THEN t.selected ELSE t.local
  BY DEF ModelOK
<1>3. override = NoTask \/ Named(m, override) \in names
  BY <1>2 DEF Named
<1>4. Readable(m.seen) /\ Readable(m.commit)
  BY <1>2 DEF ModelOK
<1>. HIDE DEF m, override, chosen
<1>5. ResolvedAs(r, m, override) /\ ModelOK(r, a, names)
  BY <1>3, <1>4, ResolvedIs, ResolvedOK
<1>. HIDE DEF r
<1>6. CASE reply.on # "inputs"
  <2>1. Reviewed(t, reply) = r
    <3>1. r.drafted = FALSE /\ r = [r EXCEPT !.drafted = r.drafted]
      BY <1>5 DEF ResolvedAs
    <3>2. (reply.on = "inputs") = FALSE
      BY <1>6
    <3>. QED BY <1>1, <3>1, <3>2
  <2>. QED BY <1>2, <1>5, <2>1 DEF ResolvedAs
<1>7. CASE reply.on = "inputs"
  <2>1. t.contract = "inputs"
    BY <1>7 DEF Replies, Offered, Question
  <2>2. t.selected # NoTask /\ Backed(t, a, names)
    BY <2>1 DEF ModelOK
  <2>3. override = NoTask /\ m.local = t.selected
    BY <1>2, <1>7 DEF override
  <2>4. r.selected = t.selected /\ r.seen = t.seen /\ r.commit = t.commit /\ r.contract # "inputs"
    BY <1>2, <1>5, <2>2, <2>3 DEF ResolvedAs
  <2>5. Backed(r, a, names)
    BY <2>2, <2>4 DEF Backed, Named, Uncontested
  <2>. DEFINE s == Reviewed(t, reply)
  <2>6. s = [commit |-> r.commit, how |-> r.how, seen |-> r.seen, local |-> r.local, drafted |-> TRUE,
             contract |-> r.contract, candidates |-> r.candidates, selected |-> r.selected, open |-> r.open]
    BY <1>1, <1>5, <1>7 DEF ModelOK
  <2>. HIDE DEF s
  <2>7. Backed(s, a, names)
    BY <2>5, <2>6 DEF Backed, Named, Uncontested
  <2>8. ModelOK(s, a, names) /\ s.commit = t.commit
    BY <1>5, <2>4, <2>6, <2>7 DEF ModelOK
  <2>. QED BY <2>8 DEF s
<1>. QED BY <1>6, <1>7

\* After an answer, the user's options stand.
StandsAs(r, t, a, names) ==
    /\ r = [done |-> r.done, task |-> r.task, args |-> r.args]
    /\ r.args \in Options /\ r.args.task = a.task /\ r.task.commit = t.commit
    /\ ModelOK(r.task, r.args, names)
    /\ r.done => Agrees(r.task, r.args)

\* Any answer does, and leaves the task the user asked for among the options.
LEMMA AppliedIs ==
    ASSUME NEW t, NEW a \in Options, NEW names, ModelOK(t, a, names), NEW reply, NEW look,
           reply.on = "task" => Named(t, reply.pick) \in names
    PROVE  StandsAs(Applied(t, a, reply, look), t, a, names)
<1>1. CASE reply.on = "spec"
  <2>. DEFINE n == Naming(a)  s == Detected(t.commit, look, n)  readable == Detects(t.commit, look, n)
  <2>1. n \in Options /\ n.task = a.task
    BY DEF Naming, Options
  <2>2. Applied(t, a, reply, look) = Redeclared(s, a, readable)
    BY <1>1 DEF Applied
  <2>3. ModelOK(s, n, names) /\ s.commit = t.commit /\ Agrees(s, n)
    BY DetectedIs DEF ModelOK
  <2>. HIDE DEF n, s, readable
  <2>4. ModelOK(s, a, names)
    BY <2>1, <2>3 DEF ModelOK, Backed
  <2>. DEFINE R == Redeclared(s, a, readable)
  <2>5. R = [done |-> readable /\ Agrees(s, n), task |-> s, args |-> IF readable THEN n ELSE a]
    BY DEF Redeclared, n
  <2>6. R.task = s /\ R.args = IF readable THEN n ELSE a
    BY <2>5
  <2>7. R = [done |-> R.done, task |-> R.task, args |-> R.args]
    BY DEF Redeclared
  <2>8. R.done => readable /\ Agrees(s, n)
    BY DEF Redeclared, n
  <2>. HIDE DEF R
  <2>9. R.args \in Options /\ R.args.task = a.task /\ R.task.commit = t.commit /\ ModelOK(R.task, R.args, names)
    BY <2>1, <2>3, <2>4, <2>6
  <2>10. R.done => Agrees(R.task, R.args)
    BY <2>3, <2>6, <2>8
  <2>11. StandsAs(R, t, a, names)
    BY <2>7, <2>9, <2>10 DEF StandsAs
  <2>. QED BY <2>2, <2>11 DEF R
<1>2. CASE reply.on # "spec" /\ reply \notin Replies(t, a)
  <2>1. Applied(t, a, reply, look) = [done |-> FALSE, task |-> t, args |-> a]
    BY <1>2 DEF Applied
  <2>. QED BY <2>1 DEF StandsAs
<1>3. CASE reply.on # "spec" /\ reply \in Replies(t, a)
  <2>. DEFINE s == Reviewed(t, reply)
  <2>1. Applied(t, a, reply, look) = Revised(s, a, reply)
    BY <1>3 DEF Applied
  <2>2. ModelOK(s, a, names) /\ s.commit = t.commit
    BY <1>3, ReviewedIs
  <2>. HIDE DEF s
  <2>. DEFINE R == Revised(s, a, reply)
  <2>3. /\ R = [done |-> R.done, task |-> R.task, args |-> R.args]
        /\ R.task = s /\ R.args = a
        /\ R.done => Agrees(s, a)
    BY DEF Revised
  <2>. HIDE DEF R
  <2>. QED BY <2>1, <2>2, <2>3 DEF StandsAs, R
<1>. QED BY <1>1, <1>2, <1>3

\* So it is however many answers are given again.
LEMMA GivenIsOK ==
    ASSUME NEW t, NEW a \in Options, NEW names, ModelOK(t, a, names), Agrees(t, a), NEW look,
           NEW answers, AnswersOK(t.commit, answers, names)
    PROVE  StandsAs(GivenAgain(t, a, answers, look), t, a, names)
<1>. DEFINE start == [done |-> TRUE, task |-> t, args |-> a]
            Then(r, reply) == IF r.done THEN Applied(r.task, r.args, reply, look) ELSE r
            L == Len(answers)
            Rule(f) == [i \in 0..L |-> IF i = 0 THEN start
                                       ELSE IF f[i - 1].done
                                            THEN Applied(f[i - 1].task, f[i - 1].args, answers[i], look)
                                       ELSE f[i - 1]]
            Tells(f, k) == /\ DOMAIN f = 0..k /\ f[0] = start
                           /\ \A i \in 1..k : f[i] = Then(f[i - 1], answers[i])
            after == CHOOSE f : f = Rule(f)
<1>1. /\ L \in Nat
      /\ \A i \in 1..L : answers[i].on = "task" => [commit |-> t.commit, task |-> answers[i].pick] \in names
  BY DEF AnswersOK
<1>2. GivenAgain(t, a, answers, look) = after[L]
  BY DEF GivenAgain
<1>3. \A f : Rule(f) = [i \in 0..L |-> IF i = 0 THEN start ELSE Then(f[i - 1], answers[i])]
  OBVIOUS
<1>. HIDE DEF start, Then, L, Rule
<1>4. \E f : f = Rule(f)
  <2>. DEFINE T == {k \in 0..L : ~\E f : Tells(f, k)}
  <2>1. SUFFICES T = {}
    <3>1. ASSUME T = {} PROVE \E f : f = Rule(f)
      <4>1. L \in 0..L
        BY <1>1
      <4>2. PICK f : Tells(f, L)
        BY <3>1, <4>1
      <4>. DEFINE g == [i \in 0..L |-> f[i]]
      <4>3. \A i \in 0..L : g[i] = IF i = 0 THEN start ELSE Then(g[i - 1], answers[i])
        BY <1>1, <4>2
      <4>4. g = Rule(g)
        BY <1>3, <4>3
      <4>. QED BY <4>4
    <3>. QED BY <3>1
  <2>2. ASSUME T # {} PROVE FALSE
    <3>1. T \subseteq Nat
      BY <1>1
    <3>2. \E k \in T : \A j \in T : k <= j
      <4>. HIDE DEF T
      <4>. QED BY <2>2, <3>1, LeastOf
    <3>3. PICK k \in T : \A j \in T : k <= j
      BY <3>2
    <3>4. CASE k = 0
      <4>. DEFINE f == [i \in 0..0 |-> start]
      <4>1. Tells(f, 0)
        OBVIOUS
      <4>. QED BY <3>3, <3>4, <4>1
    <3>5. CASE k # 0
      <4>1. k - 1 \in 0..L /\ k - 1 \notin T /\ k \in Nat
        BY <1>1, <3>3, <3>5
      <4>2. PICK f : Tells(f, k - 1)
        BY <4>1
      <4>. DEFINE g == [i \in 0..k |-> IF i = k THEN Then(f[k - 1], answers[k]) ELSE f[i]]
      <4>3. Tells(g, k)
        BY <3>5, <4>1, <4>2
      <4>. QED BY <3>3, <4>3
    <3>. QED BY <3>4, <3>5
  <2>. QED BY <2>2
<1>5. after = Rule(after)
  BY <1>4
<1>. HIDE DEF after
<1>6. after[0] = start /\ \A i \in 1..L : after[i] = Then(after[i - 1], answers[i])
  BY <1>1, <1>3, <1>5
<1>. DEFINE T == {k \in 0..L : ~StandsAs(after[k], t, a, names)}
<1>7. ASSUME T # {} PROVE FALSE
  <2>1. T \subseteq Nat
    BY <1>1
  <2>2. \E k \in T : \A j \in T : k <= j
    <3>. HIDE DEF T
    <3>. QED BY <1>7, <2>1, LeastOf
  <2>3. PICK k \in T : \A j \in T : k <= j
    BY <2>2
  <2>4. CASE k = 0
    BY <1>6, <2>3, <2>4 DEF start, StandsAs
  <2>5. CASE k # 0
    <3>1. k - 1 \in 0..L /\ k \in 1..L /\ k - 1 \notin T
      BY <1>1, <2>3, <2>5
    <3>. DEFINE s == after[k - 1]
    <3>2. StandsAs(s, t, a, names)
      BY <3>1
    <3>3. after[k] = Then(s, answers[k])
      BY <1>6, <3>1
    <3>4. answers[k].on = "task" => Named(s.task, answers[k].pick) \in names
      BY <1>1, <3>1, <3>2 DEF StandsAs, Named
    <3>. HIDE DEF s
    <3>5. StandsAs(Applied(s.task, s.args, answers[k], look), s.task, s.args, names)
      BY <3>2, <3>4, AppliedIs DEF StandsAs
    <3>6. StandsAs(Then(s, answers[k]), t, a, names)
      BY <3>2, <3>5 DEF StandsAs, Then
    <3>. QED BY <2>3, <3>3, <3>6
  <2>. QED BY <2>4, <2>5
<1>8. L \in 0..L
  BY <1>1
<1>. QED BY <1>2, <1>7, <1>8

\* What a lookup leaves, with answers given again or none.
RecalledAs(r, t) ==
    /\ r.args \in Options /\ r.task.commit = main /\ ModelOK(r.task, r.args, said)
    /\ Agrees(r.task, r.args)
    /\ r.done => AnswersOK(main, (CHOOSE k \in kept : k.of = Identity(t, args)).answers, said)

\* Answers given again are about the commit that was looked up, or come to nothing.
LEMMA RecalledIs ==
    ASSUME InfoOK, KeptOK, NEW look, NEW t, ModelOK(t, args, said), t.commit = main, Agrees(t, args)
    PROVE  RecalledAs(Recalled(t, look), t)
<1>. DEFINE k == CHOOSE x \in kept : x.of = Identity(t, args)
            e == GivenAgain(t, args, k.answers, look)
            r == Recalled(t, look)
<1>1. args \in Options
  BY DEF InfoOK
<1>2. ASSUME \E x \in kept : x.of = Identity(t, args)
      PROVE  AnswersOK(main, k.answers, said) /\ StandsAs(e, t, args, said)
  <2>1. k \in kept /\ k.of = Identity(t, args)
    BY <1>2
  <2>. HIDE DEF k
  <2>2. k.of.commit = main
    BY <2>1 DEF Identity
  <2>3. AnswersOK(main, k.answers, said)
    BY <2>1, <2>2 DEF KeptOK
  <2>. QED BY <1>1, <2>3, GivenIsOK
<1>3. CASE interactive /\ t.how # "manual" /\ \E x \in kept : x.of = Identity(t, args)
  <2>1. r = IF e.done /\ Supported(e.task) THEN e ELSE [e EXCEPT !.done = FALSE, !.task = t]
    BY <1>3 DEF Recalled, Replayed
  <2>2. AnswersOK(main, k.answers, said) /\ StandsAs(e, t, args, said)
    BY <1>2, <1>3
  <2>. HIDE DEF e, k, r
  <2>3. CASE e.done /\ Supported(e.task)
    <3>1. r = e
      BY <2>1, <2>3
    <3>2. r.args \in Options /\ r.task.commit = main /\ ModelOK(r.task, r.args, said) /\ Agrees(r.task, r.args)
      BY <2>2, <2>3, <3>1 DEF StandsAs
    <3>3. r.done => AnswersOK(main, (CHOOSE x \in kept : x.of = Identity(t, args)).answers, said)
      BY <2>2 DEF k
    <3>. QED BY <3>2, <3>3 DEF RecalledAs, r
  <2>4. CASE ~(e.done /\ Supported(e.task))
    <3>1. r.done = FALSE /\ r.task = t /\ r.args = e.args
      BY <2>1, <2>2, <2>4 DEF StandsAs
    <3>2. e.args.task = args.task /\ e.args \in Options
      BY <2>2 DEF StandsAs
    <3>3. ModelOK(t, e.args, said) /\ Agrees(t, e.args)
      BY <3>2 DEF ModelOK, Backed, Agrees
    <3>4. r.args \in Options /\ r.task.commit = main /\ ModelOK(r.task, r.args, said) /\ Agrees(r.task, r.args)
      BY <3>1, <3>2, <3>3
    <3>5. ~r.done
      BY <3>1
    <3>. QED BY <3>4, <3>5 DEF RecalledAs, r
  <2>. QED BY <2>3, <2>4 DEF r
<1>4. CASE ~(interactive /\ t.how # "manual" /\ \E x \in kept : x.of = Identity(t, args))
  <2>1. r = [done |-> FALSE, task |-> t, args |-> args]
    BY <1>4 DEF Recalled
  <2>. HIDE DEF r
  <2>. QED BY <1>1, <2>1 DEF r, RecalledAs
<1>. QED BY <1>3, <1>4
-----------------------------------------------------------------------------
\* What the user has named stays named.
LEMMA MoreIsNamed ==
    ASSUME NEW names, NEW more, names \subseteq more
    PROVE  /\ \A t, a : ModelOK(t, a, names) => ModelOK(t, a, more)
           /\ \A c, answers : AnswersOK(c, answers, names) => AnswersOK(c, answers, more)
<1>1. \A t, a : Backed(t, a, names) => Backed(t, a, more)
  BY DEF Backed
<1>2. ASSUME NEW t, NEW a, ModelOK(t, a, names) PROVE ModelOK(t, a, more)
  BY <1>1, <1>2 DEF ModelOK
<1>3. ASSUME NEW c, NEW answers, AnswersOK(c, answers, names) PROVE AnswersOK(c, answers, more)
  BY <1>3 DEF AnswersOK
<1>. QED BY <1>2, <1>3

\* Whatever is published can be read.
LEMMA CommitsAreReadable == \A c \in Commits \cup NewCommits : Readable(c)
BY SelectionAssumption DEF Readable, AutoTask

\* Nothing is known before a lookup, and nothing is agreed on.
LEMMA NoModelIsOK ==
    ASSUME NEW a, NEW names
    PROVE  ModelOK(NoModel, a, names) /\ AnswersOK(NoModel.commit, <<>>, names)
<1>1. Readable(Blank)
  BY FS_EmptySet, SelectionAssumption DEF Readable, Blank, AutoTask
<1>. HIDE DEF Blank
<1>2. ModelOK(NoModel, a, names)
  <2>. DEFINE N == NoModel
  <2>1. /\ N = [commit |-> Blank, how |-> "manual", seen |-> Blank, local |-> NoTask, drafted |-> FALSE,
                contract |-> "none", candidates |-> {}, selected |-> NoTask, open |-> TRUE]
        /\ N.commit = Blank /\ N.seen = Blank /\ N.contract = "none"
    BY DEF NoModel
  <2>2. N.open /\ N.drafted \in BOOLEAN
    BY DEF NoModel
  <2>3. N = [commit |-> N.commit, how |-> N.how, seen |-> N.seen, local |-> N.local, drafted |-> N.drafted,
             contract |-> N.contract, candidates |-> N.candidates, selected |-> N.selected, open |-> N.open]
    BY DEF NoModel
  <2>. HIDE DEF N
  <2>4. ModelOK(N, a, names)
    BY <1>1, <2>1, <2>2, <2>3 DEF ModelOK
  <2>. QED BY <2>4 DEF N
<1>3. AnswersOK(NoModel.commit, <<>>, names)
  BY DEF AnswersOK
<1>. QED BY <1>2, <1>3

\* No answers name no task.
LEMMA NoAnswers == ASSUME NEW c, NEW names PROVE AnswersOK(c, <<>>, names)
BY DEF AnswersOK

\* One more answer, about a task only if the user named it.
LEMMA AnswerAdded ==
    ASSUME NEW c, NEW answers, NEW names, AnswersOK(c, answers, names), NEW reply,
           reply.on = "task" => [commit |-> c, task |-> reply.pick] \in names
    PROVE  AnswersOK(c, Append(answers, reply), names)
<1>1. PICK X : answers \in Seq(X)
  BY DEF AnswersOK
<1>. DEFINE Y == X \cup {reply}
<1>2. answers \in Seq(Y) /\ reply \in Y
  BY <1>1
<1>. HIDE DEF Y
<1>3. Append(answers, reply) \in Seq(Y)
  BY <1>2
<1>4. /\ Len(Append(answers, reply)) = Len(answers) + 1
      /\ \A i \in 1..Len(answers) + 1 :
            Append(answers, reply)[i] = IF i = Len(answers) + 1 THEN reply ELSE answers[i]
  BY <1>2
<1>5. Len(answers) \in Nat
  BY <1>2
<1>. QED BY <1>3, <1>4, <1>5 DEF AnswersOK

\* The invariant holds of a new output directory.
LEMMA SelectionStarts == SelectionInit => SelectionInv
<1>. SUFFICES ASSUME SelectionInit PROVE SelectionInv
  OBVIOUS
<1>1. InfoOK
  BY NoModelIsOK DEF SelectionInit, InfoOK, Options, NoOptions
<1>2. DecisionsOK /\ KeptOK /\ StepOK
  BY NoModelIsOK DEF SelectionInit, DecisionsOK, KeptOK, StepOK
<1>. QED BY <1>1, <1>2 DEF SelectionInv

\* A run begins with its options and no model.
LEMMA BeginRunKeeps ==
    ASSUME SelectionInv, NEW a \in Options, NEW i, BeginRun(a, i)
    PROVE  SelectionInv'
<1>1. InfoOK'
  BY NoModelIsOK DEF SelectionInv, InfoOK, StepOK, BeginRun
<1>. QED BY <1>1 DEF SelectionInv, DecisionsOK, KeptOK, StepOK, BeginRun

\* A lookup that fails leaves what was known.
LEMMA LookupFailsKeeps == ASSUME SelectionInv, NEW look, LookupFails(look) PROVE SelectionInv'
BY DEF SelectionInv, InfoOK, DecisionsOK, KeptOK, StepOK, LookupFails

\* A lookup passes what it has looked up or recalled, if that is supported.
LEMMA LookupKeeps == ASSUME SelectionInv, NEW look, Lookup(look) PROVE SelectionInv'
<1>. DEFINE t == Detected(main, look, args)
            again == Recalled(t, look)
            answers == (CHOOSE k \in kept : k.of = Identity(t, args)).answers
<1>1. /\ info' = again.task /\ args' = again.args
      /\ decisions' = IF again.done THEN answers ELSE <<>>
      /\ entry' = IF interactive /\ t.how # "manual" THEN [of |-> Identity(t, args)] ELSE NoEntry
      /\ step' = IF interactive /\ Question(again.task, again.args) # "nothing" THEN "review"
                 ELSE Verdict(again.task)
      /\ UNCHANGED <<main, kept, said>>
  BY DEF Lookup
<1>2. Readable(main) /\ main \in Commits \cup NewCommits
  BY CommitsAreReadable DEF SelectionInv, InfoOK
<1>3. ModelOK(t, args, said) /\ t.commit = main /\ Agrees(t, args)
  BY <1>2, DetectedIs
<1>4. Identity(t, args).commit = main
  BY <1>3 DEF Identity
<1>. HIDE DEF t
<1>5. RecalledAs(again, t)
  BY <1>3, RecalledIs DEF SelectionInv
<1>. HIDE DEF again, answers
<1>6. InfoOK' /\ info'.commit = main
  BY <1>1, <1>2, <1>5 DEF InfoOK, RecalledAs
<1>7. AnswersOK(main, decisions', said)
  BY <1>1, <1>5, NoAnswers DEF RecalledAs, answers
<1>8. entry' # NoEntry => entry'.of.commit = main
  BY <1>1, <1>4
<1>9. StepOK'
  BY <1>1, <1>5 DEF StepOK, Verdict, RecalledAs
<1>10. DecisionsOK'
  BY <1>1, <1>6, <1>7, <1>8 DEF DecisionsOK
<1>. QED BY <1>1, <1>6, <1>9, <1>10 DEF SelectionInv, KeptOK

\* A reply names a task before it selects one.
LEMMA ReplyKeeps ==
    ASSUME SelectionInv, NEW look, NEW reply \in Replies(info, args), Reply(reply, look)
    PROVE  SelectionInv'
<1>. DEFINE r == Applied(info, args, reply, look)
<1>1. /\ r.done /\ info' = r.task /\ args' = r.args /\ decisions' = Append(decisions, reply)
      /\ step' = AfterReply(r.task, r.args)
      /\ said' = (IF reply.on = "task" THEN said \cup {Named(info, reply.pick)} ELSE said)
      /\ UNCHANGED <<main, entry, kept>>
  BY DEF Reply
<1>2. said \subseteq said' /\ (reply.on = "task" => Named(info, reply.pick) \in said')
  BY <1>1
<1>3. ModelOK(info, args, said') /\ AnswersOK(info.commit, decisions, said')
  BY <1>2, MoreIsNamed DEF SelectionInv, InfoOK, DecisionsOK
<1>4. StandsAs(r, info, args, said')
  BY <1>2, <1>3, AppliedIs DEF SelectionInv, InfoOK
<1>. HIDE DEF r
<1>5. InfoOK' /\ info'.commit = info.commit
  BY <1>1, <1>4 DEF SelectionInv, InfoOK, StandsAs
<1>6. AnswersOK(info.commit, decisions', said')
  BY <1>1, <1>2, <1>3, AnswerAdded DEF Named
<1>7. DecisionsOK'
  BY <1>1, <1>5, <1>6 DEF SelectionInv, DecisionsOK
<1>8. KeptOK'
  <2>1. \A c, answers : AnswersOK(c, answers, said) => AnswersOK(c, answers, said')
    BY <1>2, MoreIsNamed
  <2>2. (\A k \in kept : AnswersOK(k.of.commit, k.answers, said))
    BY DEF SelectionInv, KeptOK
  <2>3. \A k \in kept : AnswersOK(k.of.commit, k.answers, said')
    BY <2>1, <2>2
  <2>. QED BY <1>1, <2>3 DEF KeptOK
<1>9. StepOK'
  BY <1>1 DEF StepOK, AfterReply
<1>. QED BY <1>5, <1>7, <1>8, <1>9 DEF SelectionInv

\* A changed selection is looked up again, and nothing answered before is kept.
LEMMA ReviseKeeps ==
    ASSUME SelectionInv, NEW look, NEW change \in Options, Revise(change, look)
    PROVE  SelectionInv'
<1>. DEFINE t == Detected(info.commit, look, change)
<1>1. /\ info' = t /\ args' = change /\ decisions' = <<>> /\ entry' = NoEntry
      /\ step' = AfterReply(t, change)
      /\ UNCHANGED <<main, kept, said>>
  BY DEF Revise
<1>2. ModelOK(t, change, said)
  <2>1. Readable(info.commit)
    BY DEF SelectionInv, InfoOK, ModelOK
  <2>. QED BY <2>1, DetectedIs
<1>. HIDE DEF t
<1>3. InfoOK'
  BY <1>1, <1>2 DEF SelectionInv, InfoOK
<1>4. DecisionsOK'
  BY <1>1, NoAnswers DEF DecisionsOK
<1>5. KeptOK' /\ StepOK'
  BY <1>1 DEF SelectionInv, KeptOK, StepOK, AfterReply
<1>. QED BY <1>3, <1>4, <1>5 DEF SelectionInv

\* What is confirmed is kept under the commit it was answered for.
LEMMA ConfirmKeeps == ASSUME SelectionInv, Confirm PROVE SelectionInv'
<1>1. InfoOK' /\ DecisionsOK' /\ StepOK'
  BY DEF SelectionInv, InfoOK, DecisionsOK, StepOK, Confirm
<1>2. KeptOK'
  <2>1. CASE entry # NoEntry /\ decisions # <<>>
    <3>1. kept' = {k \in kept : k.of # entry.of} \cup {[of |-> entry.of, answers |-> decisions]} /\ said' = said
      BY <2>1 DEF Confirm
    <3>2. AnswersOK(entry.of.commit, decisions, said)
      BY <2>1 DEF SelectionInv, DecisionsOK
    <3>. QED BY <3>1, <3>2 DEF SelectionInv, KeptOK
  <2>2. CASE ~(entry # NoEntry /\ decisions # <<>>)
    BY <2>2 DEF SelectionInv, KeptOK, Confirm
  <2>. QED BY <2>1, <2>2
<1>. QED BY <1>1, <1>2 DEF SelectionInv

\* The end of a run forgets the model.
LEMMA EndRunKeeps == ASSUME SelectionInv, EndRun PROVE SelectionInv'
<1>1. InfoOK'
  BY NoModelIsOK DEF SelectionInv, InfoOK, EndRun, Options, NoOptions
<1>2. DecisionsOK' /\ KeptOK' /\ StepOK'
  BY NoAnswers DEF SelectionInv, DecisionsOK, KeptOK, StepOK, EndRun
<1>. QED BY <1>1, <1>2 DEF SelectionInv

\* What is published or edited in between changes nothing that was looked up.
LEMMA OthersKeep ==
    ASSUME SelectionInv,
           \/ TryAgain \/ (\E c \in NewCommits : PublishCommit(c))
           \/ (\E t \in Wanted \cup {NoTask} : EditSpec(t)) \/ UNCHANGED selectionVars
    PROVE  SelectionInv'
<1>1. CASE TryAgain
  BY <1>1 DEF SelectionInv, InfoOK, DecisionsOK, KeptOK, StepOK, TryAgain
<1>2. CASE \E c \in NewCommits : PublishCommit(c)
  BY <1>2 DEF SelectionInv, InfoOK, DecisionsOK, KeptOK, StepOK, PublishCommit
<1>3. CASE \E t \in Wanted \cup {NoTask} : EditSpec(t)
  BY <1>3 DEF SelectionInv, InfoOK, DecisionsOK, KeptOK, StepOK, EditSpec
<1>4. CASE UNCHANGED selectionVars
  BY <1>4 DEF SelectionInv, InfoOK, DecisionsOK, KeptOK, StepOK, selectionVars
<1>. QED BY <1>1, <1>2, <1>3, <1>4

\* Every step keeps the invariant.
LEMMA SelectionKeeps == SelectionInv /\ [SelectionNext]_selectionVars => SelectionInv'
<1>. SUFFICES ASSUME SelectionInv, [SelectionNext]_selectionVars PROVE SelectionInv'
  OBVIOUS
<1>1. CASE \E a \in Options, i \in BOOLEAN : BeginRun(a, i)
  BY <1>1, BeginRunKeeps
<1>2. CASE \E l \in Looks : LookupFails(l) \/ Lookup(l)
  BY <1>2, LookupFailsKeeps, LookupKeeps
<1>3. CASE \E l \in Looks : \E r \in Replies(info, args) : Reply(r, l)
  BY <1>3, ReplyKeeps
<1>4. CASE \E l \in Looks, a \in Options : Revise(a, l)
  BY <1>4, ReviseKeeps
<1>5. CASE Confirm \/ EndRun
  BY <1>5, ConfirmKeeps, EndRunKeeps
<1>. QED BY <1>1, <1>2, <1>3, <1>4, <1>5, OthersKeep DEF SelectionNext

\* The invariant, once the stage has passed, is the property.
LEMMA AgreedFrom == SelectionInv => SelectionIsAgreed
<1>. SUFFICES ASSUME SelectionInv, step = "passed" PROVE SelectionIsAgreed
  BY DEF SelectionIsAgreed
<1>1. Agrees(info, args) /\ Supported(info) /\ ModelOK(info, args, said)
  BY DEF SelectionInv, StepOK, InfoOK
<1>2. args.task \in {NoTask, info.selected} /\ info.local \in {NoTask, info.selected} /\ info.how # "partial"
  BY <1>1 DEF Agrees, Supported, Routed
<1>3. \/ args.task # NoTask
      \/ info.local # NoTask /\ ~info.drafted
      \/ Named(info, info.selected) \in said
      \/ Uncontested(info)
  BY <1>1 DEF Supported, ModelOK, Backed
<1>. QED BY <1>2, <1>3 DEF SelectionIsAgreed, Uncontested, Says

\* A model is measured at a task the user has named, or at one that nothing seen of it contradicts.
THEOREM SelectionsAreAgreed == SelectionSpec => []SelectionIsAgreed
<1>. QED BY SelectionStarts, SelectionKeeps, AgreedFrom, PTL DEF SelectionSpec
================================================================================
