---------------------- MODULE ContainerOwnership_proofs ----------------------
(***************************************************************************)
(* Proofs about ContainerOwnership, for every finite host: any number of   *)
(* PIDs and container ids, any number of acprof processes at a time, of    *)
(* reboots, kills and failing docker commands.                             *)
(*                                                                         *)
(* The inductive invariant IInv rests on one observation: a start time is  *)
(* given to a process that no label carries, so whoever has exited stays   *)
(* exited, however its PID is used again (NewStartIsFresh).                *)
(***************************************************************************)
EXTENDS ContainerOwnership, FiniteSetTheorems, TLAPS

\* A label that names what runs under its PID now.
Current(o) == o.boot = boot /\ proc[o.pid].start = o.start

\* What runs has started; a container that is gone has no label; and a label
\* is never that of a foreign process.
LabelsOK ==
    /\ \A p \in Pids : proc[p].kind \in {"acprof", "other"} => proc[p].start # 0
    /\ \A c \in Ids : cont[c].st = "absent" => cont[c] = NoContainer
    /\ \A c \in Ids : Current(cont[c].by) => proc[cont[c].by.pid].kind # "other"

\* A docker run that outlived its parent will start a container of an id that
\* nobody else has heard of, for a process that has exited in this boot.
OrphansOK ==
    \A o \in orphaned :
        /\ o.by.boot = boot
        /\ Current(o.by) => proc[o.by.pid].kind \notin {"acprof", "other"}
        /\ o.id \notin Listed
        /\ \A p \in Pids : aim[p] # o.id /\ o.id \notin todo[p]
        /\ \A u \in orphaned : u.id = o.id => u = o

\* A process that polls or uses a container has launched it.
SessionsOK ==
    \A p \in Pids : pc[p] \in {"poll", "session"} =>
        aim[p] \in Listed /\ cont[aim[p]].by = Me(p)

\* The process is between its listing and its launch.
Scanning(p) == pc[p] = "scan" \/ (pc[p] = "remove" /\ cont[aim[p]].by # Me(p))

\* What the scan has passed by: containers of living processes, debris that
\* came too late for it, and none of its own.
PassedBy(p, c) == cont[c].by # Me(p) /\ (c \in late \/ Alive(cont[c].by))

ScanOK(p) ==
    /\ Scanning(p) => \A c \in Listed \ (todo[p] \cup {aim[p]}) : PassedBy(p, c)
    /\ pc[p] = "launch" => \A c \in Listed : PassedBy(p, c)
    /\ pc[p] \in {"poll", "session"} => \A c \in Listed \ {aim[p]} : PassedBy(p, c)

ScansOK == \A p \in Pids : ScanOK(p)

IInv == TypeOK /\ LabelsOK /\ OrphansOK /\ LiveOwnersSafe /\ SessionsOK /\ ScansOK
-----------------------------------------------------------------------------
(* Start times. *)

\* There are more start times than labels, so NewStart has something to choose.
LEMMA NewStartIsFresh ==
    ASSUME TypeOK, LabelsOK, OrphansOK, NEW p \in Pids
    PROVE  /\ NewStart(p) \in Starts \ {0}
           /\ \A c \in Ids : cont[c].by.pid = p /\ cont[c].by.boot = boot
                                => cont[c].by.start # NewStart(p)
           /\ \A o \in orphaned : o.by.pid = p => o.by.start # NewStart(p)
<1> DEFINE Free(t) == /\ \A c \in Ids : cont[c].by.pid = p /\ cont[c].by.boot = boot
                                              => cont[c].by.start # t
                      /\ \A o \in orphaned : o.by.pid = p => o.by.start # t
           Given == Starts \ {0}
           Carries(c, t) == \/ cont[c].by.pid = p /\ cont[c].by.start = t
                            \/ \E o \in orphaned : o.id = c /\ o.by.start = t
<1>1. SUFFICES ASSUME \A t \in Given : ~Free(t) PROVE FALSE
  BY DEF NewStart
<1> DEFINE f == [t \in Given |-> CHOOSE c \in Ids : Carries(c, t)]
<1>2. \A t \in Given : \E c \in Ids : Carries(c, t)
  BY <1>1 DEF TypeOK
<1>3. \A t \in Given : f[t] \in Ids /\ Carries(f[t], t)
  BY <1>2
<1>4. f \in [Given -> Ids]
  BY <1>3
<1>5. IsFiniteSet(Given) /\ Cardinality(Given) = Cardinality(Ids) + 1
  <2>1. Cardinality(Ids) \in Nat
    BY ConstantsAssumption, FS_CardinalityType
  <2>2. Given = 1..(Cardinality(Ids) + 1)
    BY <2>1 DEF Starts
  <2> DEFINE n == Cardinality(Ids)
  <2>3. IsFiniteSet(1..(n + 1)) /\ Cardinality(1..(n + 1)) = n + 1
    <3>1. n \in Nat
      BY <2>1
    <3> HIDE DEF n
    <3>2. 1 \in Int /\ n + 1 \in Int /\ ~(1 > n + 1) /\ (n + 1) - 1 + 1 = n + 1
      BY <3>1
    <3>3. QED
      BY <3>2, FS_Interval
  <2>4. QED
    BY <2>2, <2>3
<1> HIDE DEF f, Given
<1>6. PICK x \in Given, y \in Given : x # y /\ f[x] = f[y]
  <2>1. Cardinality(Ids) \in Nat
    BY ConstantsAssumption, FS_CardinalityType
  <2>2. Cardinality(Ids) < Cardinality(Given)
    BY <1>5, <2>1
  <2>3. QED
    BY <1>4, <1>5, <2>2, ConstantsAssumption, FS_PigeonHole
<1>7. \A c \in Ids, o \in orphaned, t \in Given : o.id = c => cont[c].by.start # t
  BY DEF Given, LabelsOK, OrphansOK, Listed, TypeOK, NoContainer, AnyOwner, Starts
<1>8. QED
  <2> DEFINE c == f[x]
  <2>1. c \in Ids /\ Carries(c, x) /\ Carries(c, y)
    BY <1>3, <1>6
  <2>2. QED
    BY <1>6, <1>7, <2>1 DEF OrphansOK
-----------------------------------------------------------------------------
LEMMA InspectKeeps ==
    ASSUME IInv, NEW p \in Pids, NEW c \in Ids, Inspect(p, c)
    PROVE  IInv'
<1>1. TypeOK'
  BY ConstantsAssumption DEF IInv, TypeOK, Inspect, host, docker, Goto, Fault, PCs
<1>2. LabelsOK'
  BY DEF IInv, LabelsOK, Inspect, host, docker, Current
<1>3. OrphansOK'
  BY DEF IInv, TypeOK, OrphansOK, Inspect, host, docker, Current, Listed, Goto
<1>4. LiveOwnersSafe'
  <2> SUFFICES ASSUME NEW q \in Pids, pc'[q] = "remove"
               PROVE  cont[aim'[q]].by = Me(q) \/ ~Alive(cont[aim'[q]].by)
    BY DEF LiveOwnersSafe, Inspect, host, docker, Me, Alive
  <2>1. CASE pc[q] = "remove" /\ aim'[q] = aim[q]
    BY <2>1 DEF IInv, LiveOwnersSafe
  <2>2. CASE ~(pc[q] = "remove" /\ aim'[q] = aim[q])
    <3>1. q = p /\ aim'[q] = c /\ HasExited(cont[c].by)
      BY <2>2 DEF IInv, TypeOK, Inspect, Goto
    <3>2. QED
      BY <3>1 DEF HasExited, Alive
  <2>3. QED
    BY <2>1, <2>2
<1>5. SessionsOK'
  BY DEF IInv, TypeOK, SessionsOK, Inspect, host, docker, Goto, Fault, Me, Listed
<1>6. ScansOK'
  <2>1. /\ Listed' = Listed
        /\ \A x, q : PassedBy(q, x)' <=> PassedBy(q, x)
    BY DEF Inspect, host, docker, Listed, PassedBy, Me, Alive
  <2>2. \A q \in Pids \ {p} :
           pc'[q] = pc[q] /\ todo'[q] = todo[q] /\ aim'[q] = aim[q] /\ (Scanning(q)' <=> Scanning(q))
    BY DEF IInv, TypeOK, Inspect, Goto, Scanning, Me, host, docker
  <2>3. ASSUME Scanning(p)', NEW x \in Listed, x \notin todo'[p], x # aim'[p]
        PROVE  PassedBy(p, x)
    <3>1. CASE x # c
      BY <2>3, <3>1, ConstantsAssumption DEF IInv, TypeOK, ScansOK, ScanOK, Inspect, Scanning, Listed
    <3>2. CASE x = c
      <4>1. cont[c].by # Me(p) /\ ~HasExited(cont[c].by)
        BY <2>3, <3>2 DEF IInv, TypeOK, Inspect, Goto, Scanning, Listed
      <4>2. QED
        BY <3>2, <4>1 DEF IInv, TypeOK, LabelsOK, PassedBy, HasExited, Alive, Current, Process, Owner
    <3>3. QED
      BY <3>1, <3>2
  <2>4. pc'[p] \in {"scan", "remove", "abort"}
    BY DEF IInv, TypeOK, Inspect, Goto
  <2>5. QED
    BY <2>1, <2>2, <2>3, <2>4 DEF IInv, ScansOK, ScanOK
<1>7. QED
  BY <1>1, <1>2, <1>3, <1>4, <1>5, <1>6 DEF IInv

LEMMA ListKeeps ==
    ASSUME IInv, NEW p \in Pids, List(p)
    PROVE  IInv'
<1>1. TypeOK'
  <2>1. faults' \in 0..MaxFaults
    BY ConstantsAssumption DEF IInv, TypeOK, List, Fault
  <2>2. todo' \in [Pids -> SUBSET Ids] /\ pc' \in [Pids -> PCs]
    BY DEF IInv, TypeOK, List, Goto, PCs, Listed
  <2>3. QED
    BY <2>1, <2>2 DEF IInv, TypeOK, List, host, docker, Goto
<1>2. LabelsOK'
  BY DEF IInv, LabelsOK, List, host, docker, Current
<1>3. OrphansOK'
  BY DEF IInv, TypeOK, OrphansOK, List, host, docker, Current, Listed, Goto
<1>4. LiveOwnersSafe'
  BY DEF IInv, TypeOK, LiveOwnersSafe, List, host, docker, Goto, Me, Alive
<1>5. SessionsOK'
  BY DEF IInv, TypeOK, SessionsOK, List, host, docker, Goto, Me, Listed
<1>6. ScansOK'
  <2>1. /\ Listed' = Listed
        /\ \A x, q : PassedBy(q, x)' <=> PassedBy(q, x)
    BY DEF List, host, docker, Listed, PassedBy, Me, Alive
  <2>2. \A q \in Pids \ {p} :
           pc'[q] = pc[q] /\ todo'[q] = todo[q] /\ aim'[q] = aim[q] /\ (Scanning(q)' <=> Scanning(q))
    BY DEF IInv, TypeOK, List, Goto, Scanning, Me, host, docker
  <2>3. (pc'[p] = "scan" /\ todo'[p] = Listed) \/ pc'[p] = "abort"
    BY DEF IInv, TypeOK, List, Goto
  <2>4. QED
    BY <2>1, <2>2, <2>3 DEF IInv, ScansOK, ScanOK, Scanning
<1>7. QED
  BY <1>1, <1>2, <1>3, <1>4, <1>5, <1>6 DEF IInv

LEMMA EndScanKeeps ==
    ASSUME IInv, NEW p \in Pids, EndScan(p)
    PROVE  IInv'
<1>1. TypeOK'
  BY DEF IInv, TypeOK, EndScan, host, docker, Goto, PCs
<1>2. LabelsOK'
  BY DEF IInv, LabelsOK, EndScan, host, docker, Current
<1>3. OrphansOK'
  BY DEF IInv, TypeOK, OrphansOK, EndScan, host, docker, Current, Listed, Goto
<1>4. LiveOwnersSafe'
  BY DEF IInv, TypeOK, LiveOwnersSafe, EndScan, host, docker, Goto, Me, Alive
<1>5. SessionsOK'
  BY DEF IInv, TypeOK, SessionsOK, EndScan, host, docker, Goto, Me, Listed
<1>6. ScansOK'
  <2>1. /\ Listed' = Listed
        /\ \A x, q : PassedBy(q, x)' <=> PassedBy(q, x)
    BY DEF EndScan, host, docker, Listed, PassedBy, Me, Alive
  <2>2. \A q \in Pids \ {p} : pc'[q] = pc[q] /\ (Scanning(q)' <=> Scanning(q))
    BY DEF IInv, TypeOK, EndScan, Goto, Scanning, Me, host, docker
  <2>3. todo' = todo /\ aim' = aim /\ pc'[p] = "launch"
    BY DEF IInv, TypeOK, EndScan, Goto
  <2>4. \A x \in Listed : PassedBy(p, x)
    BY ConstantsAssumption DEF IInv, TypeOK, ScansOK, ScanOK, EndScan, Scanning, Listed
  <2>5. QED
    BY <2>1, <2>2, <2>3, <2>4 DEF IInv, ScansOK, ScanOK, Scanning
<1>7. QED
  BY <1>1, <1>2, <1>3, <1>4, <1>5, <1>6 DEF IInv

LEMMA ReadyKeeps ==
    ASSUME IInv, NEW p \in Pids, Ready(p)
    PROVE  IInv'
<1>1. TypeOK'
  BY DEF IInv, TypeOK, Ready, host, docker, Goto, PCs
<1>2. LabelsOK'
  BY DEF IInv, LabelsOK, Ready, host, docker, Current
<1>3. OrphansOK'
  BY DEF IInv, TypeOK, OrphansOK, Ready, host, docker, Current, Listed, Goto
<1>4. LiveOwnersSafe'
  BY DEF IInv, TypeOK, LiveOwnersSafe, Ready, host, docker, Goto, Me, Alive
<1>5. SessionsOK'
  BY DEF IInv, TypeOK, SessionsOK, Ready, host, docker, Goto, Me, Listed
<1>6. ScansOK'
  <2>1. /\ Listed' = Listed
        /\ \A x, q : PassedBy(q, x)' <=> PassedBy(q, x)
    BY DEF Ready, host, docker, Listed, PassedBy, Me, Alive
  <2>2. \A q \in Pids \ {p} : pc'[q] = pc[q] /\ (Scanning(q)' <=> Scanning(q))
    BY DEF IInv, TypeOK, Ready, Goto, Scanning, Me, host, docker
  <2>3. todo' = todo /\ aim' = aim /\ pc[p] = "poll" /\ pc'[p] = "session"
    BY DEF IInv, TypeOK, Ready, Goto
  <2>4. QED
    BY <2>1, <2>2, <2>3 DEF IInv, ScansOK, ScanOK, Scanning
<1>7. QED
  BY <1>1, <1>2, <1>3, <1>4, <1>5, <1>6 DEF IInv

LEMMA StopKeeps ==
    ASSUME IInv, NEW p \in Pids, Stop(p)
    PROVE  IInv'
<1>1. TypeOK'
  BY DEF IInv, TypeOK, Stop, host, docker, Goto, PCs
<1>2. LabelsOK'
  BY DEF IInv, LabelsOK, Stop, host, docker, Current
<1>3. OrphansOK'
  BY DEF IInv, TypeOK, OrphansOK, Stop, host, docker, Current, Listed, Goto
<1>4. LiveOwnersSafe'
  BY DEF IInv, TypeOK, LiveOwnersSafe, SessionsOK, Stop, host, docker, Goto, Me, Alive
<1>5. SessionsOK'
  BY DEF IInv, TypeOK, SessionsOK, Stop, host, docker, Goto, Me, Listed
<1>6. ScansOK'
  <2>1. /\ Listed' = Listed
        /\ \A x, q : PassedBy(q, x)' <=> PassedBy(q, x)
    BY DEF Stop, host, docker, Listed, PassedBy, Me, Alive
  <2>2. \A q \in Pids \ {p} : pc'[q] = pc[q] /\ (Scanning(q)' <=> Scanning(q))
    BY DEF IInv, TypeOK, Stop, Goto, Scanning, Me, host, docker
  <2>3. todo' = todo /\ aim' = aim /\ pc'[p] = "remove"
    BY DEF IInv, TypeOK, Stop, Goto
  <2>4. ~Scanning(p)'
    BY <2>3 DEF IInv, SessionsOK, Stop, Scanning, host, docker, Me
  <2>5. QED
    BY <2>1, <2>2, <2>3, <2>4 DEF IInv, ScansOK, ScanOK
<1>7. QED
  BY <1>1, <1>2, <1>3, <1>4, <1>5, <1>6 DEF IInv
-----------------------------------------------------------------------------
(* Steps that change the containers. *)

\* A process at work lives; and what it launched is nobody else's.
LEMMA BusyIsAlive ==
    ASSUME TypeOK, NEW p \in Pids, pc[p] # "idle"
    PROVE  proc[p].kind = "acprof" /\ Alive(Me(p)) /\ \A q \in Pids \ {p} : Me(q) # Me(p)
BY DEF TypeOK, Alive, Me

\* The label of a container that is gone names nobody.
LEMMA NoContainerIsNobodys ==
    ASSUME TypeOK, LabelsOK
    PROVE  /\ NoContainer \in [st : Present \cup {"absent"}, by : Owner]
           /\ ~Alive(NoContainer.by)
           /\ Current(NoContainer.by) => proc[NoContainer.by.pid].kind # "other"
<1>1. AnyOwner.pid \in Pids /\ AnyOwner = [boot |-> 0, pid |-> AnyOwner.pid, start |-> 0]
  BY ConstantsAssumption DEF AnyOwner
<1>2. 0 \in 0..MaxBoots
  BY ConstantsAssumption
<1>3. 0 \in Starts
  BY ConstantsAssumption, FS_CardinalityType DEF Starts
<1>4. NoContainer = [st |-> "absent", by |-> AnyOwner]
  BY DEF NoContainer
<1>5. NoContainer \in [st : Present \cup {"absent"}, by : Owner]
  BY <1>1, <1>2, <1>3, <1>4 DEF Owner
<1>6. proc[AnyOwner.pid].start = 0 => proc[AnyOwner.pid].kind \notin {"acprof", "other"}
  BY <1>1 DEF LabelsOK
<1>7. QED
  BY <1>1, <1>4, <1>5, <1>6 DEF Alive, Current

LEMMA RemoveKeeps ==
    ASSUME IInv, NEW p \in Pids, Remove(p)
    PROVE  IInv'
<1> DEFINE c == aim[p]
<1>1. c \in Ids /\ pc[p] = "remove" /\ (cont[c].by = Me(p) \/ ~Alive(cont[c].by))
  BY DEF IInv, TypeOK, LiveOwnersSafe, Remove
<1>2. \A q \in Pids \ {p} : aim[q] = c /\ cont[c].by = Me(q) => pc[q] = "idle"
  BY <1>1, BusyIsAlive DEF IInv
<1>3. /\ todo' = todo /\ boot' = boot /\ proc' = proc /\ orphaned' = orphaned
      /\ \A q \in Pids \ {p} : pc'[q] = pc[q] /\ aim'[q] = aim[q]
      /\ aim'[p] = None
      /\ \A x \in Ids \ {c} : cont'[x] = cont[x] /\ (x \in late' <=> x \in late)
  BY <1>1 DEF IInv, TypeOK, Remove, host, Goto
<1>4. \/ pc'[p] = "abort" /\ cont' = cont /\ late' = late
      \/ cont'[c] = NoContainer /\ pc'[p] = "idle"
      \/ cont'[c] = NoContainer /\ pc'[p] = "scan" /\ cont[c].by # Me(p)
  BY <1>1 DEF IInv, TypeOK, Remove, Goto
<1>5. TypeOK'
  <2>1. faults' \in 0..MaxFaults
    BY ConstantsAssumption DEF IInv, TypeOK, Remove, Fault
  <2>2. cont' \in [Ids -> [st : Present \cup {"absent"}, by : Owner]]
    <3>1. cont' = cont \/ cont' = [cont EXCEPT ![c] = NoContainer]
      BY DEF Remove
    <3>2. QED
      BY <1>1, <3>1, NoContainerIsNobodys DEF IInv, TypeOK
  <2>3. pc' \in [Pids -> PCs] /\ aim' \in [Pids -> Ids \cup {None}]
    BY DEF IInv, TypeOK, Remove, Goto, PCs
  <2>4. late' \subseteq Ids
    BY DEF IInv, TypeOK, Remove
  <2>5. QED
    BY <1>1, <1>3, <1>4, <2>1, <2>2, <2>3, <2>4 DEF IInv, TypeOK
<1>6. Listed' \subseteq Listed /\ \A x \in Ids \ {c} : x \in Listed' <=> x \in Listed
  BY <1>1, <1>3, <1>4 DEF Listed, NoContainer, Present
<1>7. LabelsOK'
  BY <1>1, <1>3, <1>4, NoContainerIsNobodys DEF IInv, LabelsOK, Current
<1>8. OrphansOK'
  <2>1. \A q \in Pids, o \in orphaned : aim'[q] # o.id
    BY <1>3, ConstantsAssumption DEF IInv, TypeOK, OrphansOK
  <2>2. QED
    BY <1>3, <1>6, <2>1 DEF IInv, OrphansOK, Current
<1>9. LiveOwnersSafe'
  <2> SUFFICES ASSUME NEW q \in Pids, pc'[q] = "remove"
               PROVE  cont'[aim[q]].by = Me(q) \/ ~Alive(cont'[aim[q]].by)
    BY <1>3, <1>4 DEF LiveOwnersSafe, Me, Alive
  <2>1. q # p /\ pc[q] = "remove" /\ aim[q] \in Ids
    BY <1>3, <1>4 DEF IInv, TypeOK
  <2>2. CASE cont'[aim[q]] = cont[aim[q]]
    BY <2>1, <2>2 DEF IInv, LiveOwnersSafe
  <2>3. CASE cont'[aim[q]] = NoContainer
    BY <2>3, NoContainerIsNobodys DEF IInv
  <2>4. QED
    BY <1>3, <1>4, <2>1, <2>2, <2>3
<1>10. SessionsOK'
  <2> SUFFICES ASSUME NEW q \in Pids, pc'[q] \in {"poll", "session"}
               PROVE  aim[q] \in Listed' /\ cont'[aim[q]].by = Me(q)
    BY <1>3, <1>4 DEF SessionsOK, Me
  <2>1. q # p /\ pc[q] \in {"poll", "session"} /\ aim[q] \in Listed /\ cont[aim[q]].by = Me(q)
    BY <1>3, <1>4 DEF IInv, SessionsOK
  <2>2. aim[q] # c
    BY <1>2, <2>1
  <2>3. QED
    BY <1>3, <1>6, <2>1, <2>2 DEF Listed
<1>11. ScansOK'
  <2>1. \A q \in Pids, x \in Ids \ {c} : PassedBy(q, x)' <=> PassedBy(q, x)
    BY <1>3 DEF PassedBy, Me, Alive
  <2>2. \A q \in Pids \ {p} : Scanning(q)' => Scanning(q)
    BY <1>2, <1>3 DEF Scanning, Me, IInv, TypeOK
  <2>3. Scanning(p)' => Scanning(p)
    BY <1>1, <1>4 DEF Scanning
  <2>4. CASE pc'[p] = "abort" /\ cont' = cont /\ late' = late
    <3>1. Listed' = Listed /\ \A q, x : PassedBy(q, x)' <=> PassedBy(q, x)
      BY <1>3, <2>4 DEF Listed, PassedBy, Me, Alive
    <3>2. \A q \in Pids \ {p} : ScanOK(q)'
      BY <1>3, <2>2, <3>1 DEF IInv, ScansOK, ScanOK
    <3>3. ScanOK(p)'
      BY <2>4 DEF ScanOK, Scanning
    <3>4. QED
      BY <3>2, <3>3 DEF ScansOK
  <2>5. CASE cont'[c] = NoContainer /\ pc'[p] \in {"idle", "scan"}
    <3>1. \A x \in Listed' : x \in Listed /\ x # c /\ \A q \in Pids : PassedBy(q, x)' <=> PassedBy(q, x)
      BY <1>6, <2>1, <2>5 DEF Listed, NoContainer, Present
    <3>2. \A q \in Pids \ {p} : ScanOK(q)'
      BY <1>3, <2>2, <3>1 DEF IInv, ScansOK, ScanOK
    <3>3. ScanOK(p)'
      BY <1>3, <2>3, <2>5, <3>1 DEF IInv, ScansOK, ScanOK
    <3>4. QED
      BY <3>2, <3>3 DEF ScansOK
  <2>6. QED
    BY <1>4, <2>4, <2>5
<1>12. QED
  BY <1>5, <1>7, <1>8, <1>9, <1>10, <1>11 DEF IInv

LEMMA LaunchKeeps ==
    ASSUME IInv, NEW p \in Pids, Launch(p)
    PROVE  IInv'
<1>1. /\ pc[p] = "launch" /\ todo' = todo /\ UNCHANGED <<boot, proc, late, orphaned>>
      /\ \A q \in Pids \ {p} : pc'[q] = pc[q] /\ aim'[q] = aim[q]
  BY DEF IInv, TypeOK, Launch, host, Goto
<1>2. TypeOK /\ Me(p) \in Owner /\ Alive(Me(p)) /\ \A q \in Pids \ {p} : Me(q) # Me(p)
  BY <1>1, BusyIsAlive DEF IInv, TypeOK, Me, Owner, Process
<1>3. faults' \in 0..MaxFaults
  BY ConstantsAssumption DEF IInv, TypeOK, Launch, Fault
<1>4. CASE Goto(p, "idle") /\ UNCHANGED <<cont, aim>>
  <2>1. TypeOK'
    BY <1>1, <1>3, <1>4, ConstantsAssumption DEF IInv, TypeOK, Goto, PCs
  <2>2. LabelsOK' /\ OrphansOK'
    BY <1>1, <1>4 DEF IInv, LabelsOK, OrphansOK, Current, Listed
  <2>3. LiveOwnersSafe' /\ SessionsOK'
    BY <1>1, <1>4 DEF IInv, TypeOK, LiveOwnersSafe, SessionsOK, Goto, Me, Alive, Listed
  <2>4. ScansOK'
    BY <1>1, <1>4 DEF IInv, TypeOK, ScansOK, ScanOK, Goto, Me, Alive, Listed, PassedBy, Scanning
  <2>5. QED
    BY <2>1, <2>2, <2>3, <2>4 DEF IInv
<1>5. ASSUME NEW c \in Fresh, NEW st \in Present,
             cont' = [cont EXCEPT ![c] = [st |-> st, by |-> Me(p)]],
             \/ pc' = [pc EXCEPT ![p] = "poll"] /\ aim' = [aim EXCEPT ![p] = c]
             \/ pc' = [pc EXCEPT ![p] = "remove"] /\ aim' = [aim EXCEPT ![p] = c]
             \/ pc' = [pc EXCEPT ![p] = "idle"] /\ aim' = aim
      PROVE  IInv'
  <2>1. /\ c \in Ids /\ cont'[c] = [st |-> st, by |-> Me(p)]
        /\ \A x \in Ids \ {c} : cont'[x] = cont[x]
        /\ \A q \in Pids : aim[q] # c /\ c \notin todo[q]
        /\ \A o \in orphaned : o.id # c
    BY <1>5 DEF IInv, TypeOK, Fresh
  <2>2. TypeOK'
    <3>1. cont' \in [Ids -> [st : Present \cup {"absent"}, by : Owner]]
      BY <1>2, <1>5, <2>1 DEF TypeOK
    <3>2. aim' \in [Pids -> Ids \cup {None}] /\ pc' \in [Pids -> PCs]
      BY <1>5, <2>1 DEF IInv, TypeOK, PCs
    <3>3. \A q \in Pids : /\ aim'[q] # None <=> pc'[q] \in {"remove", "poll", "session"}
                          /\ proc[q].kind # "acprof" => pc'[q] = "idle"
      BY <1>1, <1>5, <2>1, BusyIsAlive, ConstantsAssumption DEF IInv, TypeOK
    <3>4. QED
      BY <1>1, <1>3, <3>1, <3>2, <3>3 DEF IInv, TypeOK
  <2>3. Listed' = Listed \cup {c} /\ c \notin Listed
    BY <1>5, <2>1 DEF Listed, Fresh
  <2>4. LabelsOK'
    BY <1>1, <1>2, <1>5, <2>1 DEF IInv, LabelsOK, Current, Present, Alive
  <2>5. OrphansOK'
    <3>1. \A q \in Pids, o \in orphaned : aim'[q] # o.id
      BY <1>5, <2>1 DEF IInv, TypeOK, OrphansOK
    <3>2. QED
      BY <1>1, <2>1, <2>3, <3>1 DEF IInv, OrphansOK, Current
  <2>6. LiveOwnersSafe' /\ SessionsOK'
    <3>1. ASSUME NEW q \in Pids \ {p}
          PROVE  /\ pc'[q] = "remove" => cont'[aim'[q]].by = Me(q) \/ ~Alive(cont'[aim'[q]].by)
                 /\ pc'[q] \in {"poll", "session"} => aim'[q] \in Listed' /\ cont'[aim'[q]].by = Me(q)
      <4>1. aim[q] \in Ids \/ pc[q] \notin {"remove", "poll", "session"}
        BY DEF IInv, TypeOK
      <4>2. QED
        BY <1>1, <2>1, <2>3, <4>1 DEF IInv, LiveOwnersSafe, SessionsOK
    <3>2. /\ pc'[p] = "remove" => cont'[aim'[p]].by = Me(p)
          /\ pc'[p] \in {"poll", "session"} => aim'[p] \in Listed' /\ cont'[aim'[p]].by = Me(p)
      BY <1>5, <2>1, <2>3 DEF IInv, TypeOK
    <3>3. QED
      BY <1>1, <3>1, <3>2 DEF LiveOwnersSafe, SessionsOK, Me, Alive
  <2>7. ScansOK'
    <3>1. \A q \in Pids, x \in Listed : PassedBy(q, x)' <=> PassedBy(q, x)
      BY <1>1, <2>1, <2>3 DEF PassedBy, Me, Alive, Listed
    <3>2. \A q \in Pids \ {p} : PassedBy(q, c)'
      BY <1>1, <1>2, <2>1 DEF PassedBy, Me, Alive
    <3>3. ASSUME NEW q \in Pids \ {p} PROVE ScanOK(q)'
      <4>1. Scanning(q)' => Scanning(q)
        BY <1>1, <2>1 DEF IInv, TypeOK, Scanning, Me
      <4>2. QED
        BY <1>1, <2>3, <3>1, <3>2, <4>1 DEF IInv, ScansOK, ScanOK
    <3>4. ScanOK(p)'
      <4>1. ~Scanning(p)' /\ pc'[p] # "launch"
        BY <1>1, <1>5, <2>1 DEF IInv, TypeOK, Scanning, Me
      <4>2. pc'[p] = "poll" => aim'[p] = c
        BY <1>5 DEF IInv, TypeOK
      <4>3. \A x \in Listed : PassedBy(p, x)
        BY <1>1 DEF IInv, ScansOK, ScanOK
      <4>4. pc'[p] # "session"
        BY <1>5 DEF IInv, TypeOK
      <4>5. QED
        BY <2>3, <3>1, <4>1, <4>2, <4>3, <4>4 DEF ScanOK
    <3>5. QED
      BY <3>3, <3>4 DEF ScansOK
  <2>8. QED
    BY <2>2, <2>4, <2>5, <2>6, <2>7 DEF IInv
<1>6. QED
  BY <1>4, <1>5 DEF Launch, Goto, Present

LEMMA ContainerExitsKeeps ==
    ASSUME IInv, NEW c \in Ids, ContainerExits(c)
    PROVE  IInv'
<1>1. /\ cont' = [cont EXCEPT ![c].st = "exited"] /\ cont[c].st = "running"
      /\ UNCHANGED <<boot, proc, late, orphaned, pc, todo, aim, faults>>
  BY DEF ContainerExits, host, own
<1>2. \A x \in Ids : cont'[x].by = cont[x].by /\ (cont'[x].st = "absent" => cont'[x] = cont[x])
  BY <1>1 DEF IInv, TypeOK
<1>3. Listed' = Listed
  BY <1>1 DEF IInv, TypeOK, Listed, Present
<1>4. TypeOK'
  BY <1>1 DEF IInv, TypeOK, Present
<1>5. LabelsOK' /\ OrphansOK'
  BY <1>1, <1>2, <1>3 DEF IInv, LabelsOK, OrphansOK, Current
<1>6. LiveOwnersSafe' /\ SessionsOK'
  BY <1>1, <1>2, <1>3 DEF IInv, TypeOK, LiveOwnersSafe, SessionsOK, Me, Alive
<1>7. ScansOK'
  <2>1. \A q \in Pids, x \in Ids : PassedBy(q, x)' <=> PassedBy(q, x)
    BY <1>1, <1>2 DEF PassedBy, Me, Alive
  <2>2. \A q \in Pids : Scanning(q)' => Scanning(q)
    BY <1>1, <1>2 DEF IInv, TypeOK, Scanning, Me
  <2>3. QED
    BY <1>1, <1>3, <2>1, <2>2 DEF IInv, ScansOK, ScanOK, Listed
<1>8. QED
  BY <1>4, <1>5, <1>6, <1>7 DEF IInv

LEMMA LateStartKeeps ==
    ASSUME IInv, LateStart
    PROVE  IInv'
<1>1. PICK o \in orphaned :
         /\ cont' = [cont EXCEPT ![o.id] = [st |-> "running", by |-> o.by]]
         /\ late' = late \cup {o.id}
         /\ orphaned' = orphaned \ {o}
         /\ UNCHANGED <<boot, proc, pc, todo, aim, faults>>
  BY DEF LateStart, host, own
<1> DEFINE c == o.id
<1>2. /\ c \in Ids /\ o.by \in Owner
      /\ cont'[c] = [st |-> "running", by |-> o.by]
      /\ \A x \in Ids \ {c} : cont'[x] = cont[x]
  BY <1>1 DEF IInv, TypeOK
<1>3. /\ c \notin Listed /\ \A q \in Pids : aim[q] # c /\ c \notin todo[q]
      /\ ~Alive(o.by) /\ (Current(o.by) => proc[o.by.pid].kind # "other")
  BY <1>1 DEF IInv, OrphansOK, Alive, Current
<1>4. Listed' = Listed \cup {c}
  BY <1>2 DEF Listed, Present
<1>5. TypeOK'
  BY <1>1, <1>2 DEF IInv, TypeOK, Present
<1>6. LabelsOK'
  BY <1>1, <1>2, <1>3 DEF IInv, LabelsOK, Current
<1>7. OrphansOK'
  BY <1>1, <1>2, <1>3, <1>4 DEF IInv, OrphansOK, Current
<1>8. LiveOwnersSafe' /\ SessionsOK'
  BY <1>1, <1>2, <1>3, <1>4 DEF IInv, TypeOK, LiveOwnersSafe, SessionsOK, Me, Alive
<1>9. ScansOK'
  <2>1. \A q \in Pids, x \in Listed : PassedBy(q, x)' <=> PassedBy(q, x)
    BY <1>1, <1>2, <1>3 DEF PassedBy, Me, Alive, Listed
  <2>2. ASSUME NEW q \in Pids, pc[q] # "idle" PROVE PassedBy(q, c)'
    <3>1. o.by # Me(q)
      BY <1>3, <2>2, BusyIsAlive DEF IInv
    <3>2. QED
      BY <1>1, <1>2, <3>1 DEF PassedBy, Me
  <2>3. \A q \in Pids : Scanning(q)' <=> Scanning(q)
    BY <1>1, <1>2, <1>3 DEF IInv, TypeOK, Scanning, Me
  <2>4. QED
    BY <1>1, <1>4, <2>1, <2>2, <2>3 DEF IInv, ScansOK, ScanOK, Scanning
<1>10. QED
  BY <1>5, <1>6, <1>7, <1>8, <1>9 DEF IInv
-----------------------------------------------------------------------------
(* Processes and the host. *)

\* A free PID is taken, by acprof or by a foreign process: nobody who had exited
\* comes back to life.
LEMMA TakenKeeps ==
    ASSUME IInv, NEW p \in Pids, NEW k \in {"acprof", "other"}, proc[p].kind = "none",
           proc' = [proc EXCEPT ![p] = [kind |-> k, start |-> NewStart(p)]],
           UNCHANGED <<boot, cont, late, orphaned, pc, todo, aim, faults>>
    PROVE  IInv'
<1>1. /\ NewStart(p) \in Starts \ {0}
      /\ \A c \in Ids : cont[c].by.pid = p /\ cont[c].by.boot = boot => cont[c].by.start # NewStart(p)
      /\ \A o \in orphaned : o.by.pid = p => o.by.start # NewStart(p)
  BY NewStartIsFresh DEF IInv
<1>2. /\ pc[p] = "idle" /\ proc'[p] = [kind |-> k, start |-> NewStart(p)]
      /\ \A q \in Pids \ {p} : proc'[q] = proc[q]
  BY DEF IInv, TypeOK
<1>3. Listed' = Listed /\ \A q \in Pids \ {p} : Me(q)' = Me(q)
  BY <1>2 DEF Listed, Me
<1>4. \A c \in Ids : /\ ~Alive(cont[c].by) => ~Alive(cont[c].by)'
                     /\ Alive(cont[c].by) => Alive(cont[c].by)'
                     /\ cont[c].by.pid = p => ~Current(cont[c].by)'
  BY <1>1, <1>2 DEF IInv, TypeOK, Owner, Alive, Current
<1>5. \A o \in orphaned : o.by.pid = p => ~Current(o.by)'
  BY <1>1, <1>2 DEF Current
<1>6. TypeOK'
  <2>1. proc' \in [Pids -> Process]
    BY <1>1 DEF IInv, TypeOK, Process
  <2>2. \A q \in Pids : proc'[q].kind # "acprof" => pc[q] = "idle"
    BY <1>2 DEF IInv, TypeOK
  <2>3. QED
    BY <2>1, <2>2 DEF IInv, TypeOK
<1>7. LabelsOK'
  BY <1>1, <1>2, <1>4 DEF IInv, TypeOK, Owner, LabelsOK, Current
<1>8. OrphansOK'
  BY <1>2, <1>3, <1>5 DEF IInv, TypeOK, Owner, OrphansOK, Current
<1>9. LiveOwnersSafe'
  BY <1>2, <1>3, <1>4 DEF IInv, TypeOK, LiveOwnersSafe
<1>10. SessionsOK'
  BY <1>2, <1>3 DEF IInv, SessionsOK
<1>11. ScansOK'
  <2>1. \A q \in Pids \ {p}, x \in Ids : PassedBy(q, x)' <=> PassedBy(q, x)
    BY <1>3, <1>4 DEF PassedBy
  <2>2. \A q \in Pids \ {p} : Scanning(q)' <=> Scanning(q)
    BY <1>3 DEF Scanning
  <2>3. ScanOK(p)'
    BY <1>2 DEF ScanOK, Scanning
  <2>4. QED
    BY <1>3, <2>1, <2>2, <2>3 DEF IInv, ScansOK, ScanOK, Listed
<1>12. QED
  BY <1>6, <1>7, <1>8, <1>9, <1>10, <1>11 DEF IInv

LEMMA ReapKeeps ==
    ASSUME IInv, NEW p \in Pids, Reap(p)
    PROVE  IInv'
<1>1. /\ pc[p] = "idle" /\ proc[p].kind # "acprof" /\ proc'[p] = Nobody
      /\ \A q \in Pids \ {p} : proc'[q] = proc[q]
      /\ UNCHANGED <<boot, cont, late, orphaned, pc, todo, aim, faults>>
  BY DEF IInv, TypeOK, Reap, docker, own
<1>2. Listed' = Listed /\ \A q \in Pids \ {p} : Me(q)' = Me(q)
  BY <1>1 DEF Listed, Me
<1>3. \A c \in Ids : Alive(cont[c].by)' <=> Alive(cont[c].by)
  BY <1>1 DEF IInv, TypeOK, Owner, Alive, Nobody
<1>4. TypeOK'
  <2>1. 0 \in Starts
    BY ConstantsAssumption, FS_CardinalityType DEF Starts
  <2>2. proc' \in [Pids -> Process]
    BY <2>1 DEF IInv, TypeOK, Reap, Process, Nobody
  <2>3. QED
    BY <1>1, <2>2 DEF IInv, TypeOK
<1>5. LabelsOK'
  BY <1>1 DEF IInv, TypeOK, Owner, LabelsOK, Current, Nobody
<1>6. OrphansOK'
  BY <1>1, <1>2 DEF IInv, TypeOK, Owner, OrphansOK, Current, Nobody
<1>7. LiveOwnersSafe'
  BY <1>1, <1>2, <1>3 DEF IInv, TypeOK, LiveOwnersSafe
<1>8. SessionsOK'
  BY <1>1, <1>2 DEF IInv, SessionsOK
<1>9. ScansOK'
  <2>1. \A q \in Pids \ {p}, x \in Ids : PassedBy(q, x)' <=> PassedBy(q, x)
    BY <1>1, <1>2, <1>3 DEF PassedBy
  <2>2. \A q \in Pids \ {p} : Scanning(q)' <=> Scanning(q)
    BY <1>1, <1>2 DEF Scanning
  <2>3. ScanOK(p)'
    BY <1>1 DEF ScanOK, Scanning
  <2>4. QED
    BY <1>1, <1>2, <2>1, <2>2, <2>3 DEF IInv, ScansOK, ScanOK, Listed
<1>10. QED
  BY <1>4, <1>5, <1>6, <1>7, <1>8, <1>9 DEF IInv

\* A process ends, in order or killed: what it leaves behind is debris that
\* came too late for the scans under way.
LEMMA GoneKeeps ==
    ASSUME IInv, NEW p \in Pids, NEW k \in {"none", "zombie"}, proc[p].kind = "acprof",
           proc' = [proc EXCEPT ![p].kind = k], Forget(p), UNCHANGED <<boot, cont>>,
           faults' \in 0..MaxFaults,
           \/ orphaned' = orphaned
           \/ \E c \in Fresh : orphaned' = orphaned \cup {[id |-> c, by |-> Me(p)]}
    PROVE  IInv'
<1>1. /\ proc'[p] = [kind |-> k, start |-> proc[p].start]
      /\ \A q \in Pids \ {p} : proc'[q] = proc[q] /\ pc'[q] = pc[q] /\ todo'[q] = todo[q] /\ aim'[q] = aim[q]
      /\ pc'[p] = "idle" /\ todo'[p] = {} /\ aim'[p] = None
  BY DEF IInv, TypeOK, Process, Forget, Goto
<1>2. Listed' = Listed /\ \A q \in Pids : Me(q)' = Me(q)
  BY <1>1 DEF Listed, Me
<1>3. \A o : Alive(o)' => Alive(o) \/ o.pid \notin Pids
  BY <1>1 DEF Alive
<1>4. Me(p) \in Owner
  BY DEF IInv, TypeOK, Me, Owner, Process
<1>5. TypeOK'
  <2>1. proc' \in [Pids -> Process]
    BY DEF IInv, TypeOK, Process
  <2>2. /\ late' \subseteq Ids /\ pc' \in [Pids -> PCs] /\ todo' \in [Pids -> SUBSET Ids]
        /\ aim' \in [Pids -> Ids \cup {None}]
    BY DEF IInv, TypeOK, Forget, Goto, PCs, Listed
  <2>3. orphaned' \subseteq [id : Ids, by : Owner]
    BY <1>4 DEF IInv, TypeOK, Fresh
  <2>4. QED
    BY <1>1, <2>1, <2>2, <2>3 DEF IInv, TypeOK
<1>6. LabelsOK'
  BY <1>1 DEF IInv, TypeOK, Owner, LabelsOK, Current
<1>7. OrphansOK'
  <2>1. \A o \in orphaned : /\ o.by.boot = boot /\ o.id \notin Listed
                            /\ Current(o.by)' => proc'[o.by.pid].kind \notin {"acprof", "other"}
                            /\ \A q \in Pids : aim'[q] # o.id /\ o.id \notin todo'[q]
    BY <1>1, ConstantsAssumption DEF IInv, TypeOK, Owner, OrphansOK, Current
  <2>2. CASE orphaned' = orphaned
    BY <1>2, <2>1, <2>2 DEF IInv, OrphansOK
  <2>3. ASSUME NEW c \in Fresh, orphaned' = orphaned \cup {[id |-> c, by |-> Me(p)]}
        PROVE  OrphansOK'
    <3> DEFINE n == [id |-> c, by |-> Me(p)]
    <3>1. c \in Ids /\ c \notin Listed /\ \A o \in orphaned : o.id # c
      BY DEF Fresh
    <3>2. \A q \in Pids : aim'[q] # c /\ c \notin todo'[q]
      BY <1>1, <3>1, ConstantsAssumption DEF Fresh
    <3>3. /\ n.id = c /\ n.by.boot = boot
          /\ proc'[n.by.pid].kind \notin {"acprof", "other"}
      BY <1>1 DEF Me
    <3> HIDE DEF n
    <3>4. \A o \in orphaned', u \in orphaned' : u.id = o.id => u = o
      BY <2>3, <3>1, <3>3 DEF n, IInv, OrphansOK
    <3>5. \A o \in orphaned' : o \in orphaned \/ o = n
      BY <2>3 DEF n
    <3>6. QED
      BY <1>2, <2>1, <3>1, <3>2, <3>3, <3>4, <3>5 DEF OrphansOK
  <2>4. QED
    BY <2>2, <2>3
<1>8. LiveOwnersSafe'
  <2> SUFFICES ASSUME NEW q \in Pids, pc'[q] = "remove"
               PROVE  cont[aim'[q]].by = Me(q) \/ ~Alive(cont[aim[q]].by)'
    BY <1>2 DEF LiveOwnersSafe
  <2>1. q # p /\ pc[q] = "remove" /\ aim'[q] = aim[q] /\ aim[q] \in Ids
    BY <1>1 DEF IInv, TypeOK
  <2>2. cont[aim[q]].by.pid \in Pids
    BY <2>1 DEF IInv, TypeOK, Owner
  <2>3. QED
    BY <1>3, <2>1, <2>2 DEF IInv, LiveOwnersSafe
<1>9. SessionsOK'
  BY <1>1, <1>2 DEF IInv, SessionsOK
<1>10. ScansOK'
  <2>1. ASSUME NEW q \in Pids \ {p}, pc[q] # "idle", NEW x \in Listed, PassedBy(q, x)
        PROVE  PassedBy(q, x)'
    <3>1. cont[x].by # Me(q)
      BY <2>1 DEF PassedBy
    <3>2. CASE x \in late \/ cont[x].by = Me(p)
      <4>1. proc[q].kind = "acprof"
        BY <2>1 DEF IInv, TypeOK
      <4>2. x \in late'
        BY <3>2, <4>1 DEF Forget
      <4>3. QED
        BY <1>2, <3>1, <4>2 DEF PassedBy
    <3>3. CASE Alive(cont[x].by) /\ cont[x].by # Me(p)
      <4>1. cont[x].by \in Owner
        BY DEF IInv, TypeOK, Listed
      <4>2. cont[x].by.pid # p
        BY <3>3, <4>1 DEF Alive, Me, Owner
      <4>3. Alive(cont[x].by)'
        BY <1>1, <3>3, <4>1, <4>2 DEF Alive, Owner
      <4>4. QED
        BY <1>2, <3>1, <4>3 DEF PassedBy
    <3>4. QED
      BY <2>1, <3>2, <3>3 DEF PassedBy
  <2>2. ASSUME NEW q \in Pids \ {p} PROVE ScanOK(q)'
    <3>1. Scanning(q)' <=> Scanning(q)
      BY <1>1, <1>2 DEF Scanning
    <3>2. QED
      BY <1>1, <1>2, <2>1, <3>1 DEF IInv, ScansOK, ScanOK, Scanning
  <2>3. ScanOK(p)'
    BY <1>1 DEF ScanOK, Scanning
  <2>4. QED
    BY <2>2, <2>3 DEF ScansOK
<1>11. QED
  BY <1>5, <1>6, <1>7, <1>8, <1>9, <1>10 DEF IInv

LEMMA RebootKeeps ==
    ASSUME IInv, Reboot
    PROVE  IInv'
<1>1. /\ proc' = [q \in Pids |-> Nobody] /\ pc' = [q \in Pids |-> "idle"]
      /\ todo' = [q \in Pids |-> {}] /\ aim' = [q \in Pids |-> None]
      /\ orphaned' = {} /\ boot' = boot + 1 /\ boot < MaxBoots /\ late' = late /\ faults' = faults
      /\ cont' = [c \in Ids |-> IF cont[c].st = "running" THEN [cont[c] EXCEPT !.st = "exited"]
                                                           ELSE cont[c]]
  BY DEF Reboot
<1>2. TypeOK'
  <2>1. proc' \in [Pids -> Process]
    BY <1>1, ConstantsAssumption, FS_CardinalityType DEF Process, Nobody, Starts
  <2>2. cont' \in [Ids -> [st : Present \cup {"absent"}, by : Owner]]
    BY <1>1 DEF IInv, TypeOK, Present
  <2>3. boot' \in 0..MaxBoots
    BY <1>1, ConstantsAssumption DEF IInv, TypeOK
  <2>4. QED
    BY <1>1, <2>1, <2>2, <2>3 DEF IInv, TypeOK, PCs
<1>3. LabelsOK'
  <2>1. \A c \in Ids : cont'[c].st = "absent" => cont'[c] = cont[c] /\ cont[c].st = "absent"
    BY <1>1 DEF IInv, TypeOK
  <2>2. \A c \in Ids : cont'[c].by.pid \in Pids
    BY <1>2 DEF TypeOK, Owner
  <2>3. \A q \in Pids : proc'[q].kind = "none"
    BY <1>1 DEF Nobody
  <2>4. QED
    BY <2>1, <2>2, <2>3 DEF IInv, LabelsOK
<1>4. OrphansOK' /\ LiveOwnersSafe' /\ SessionsOK' /\ ScansOK'
  BY <1>1 DEF OrphansOK, LiveOwnersSafe, SessionsOK, ScansOK, ScanOK, Scanning
<1>5. QED
  BY <1>2, <1>3, <1>4 DEF IInv
-----------------------------------------------------------------------------
LEMMA InitEstablishes == Init => IInv
<1> SUFFICES ASSUME Init PROVE IInv
  OBVIOUS
<1>1. 0 \in Starts /\ 0 \in 0..MaxBoots /\ 0 \in 0..MaxFaults
  BY ConstantsAssumption, FS_CardinalityType DEF Starts
<1>2. AnyOwner \in Owner
  BY <1>1, ConstantsAssumption DEF AnyOwner, Owner
<1>3. TypeOK
  BY <1>1, <1>2 DEF Init, TypeOK, Process, Nobody, NoContainer, PCs
<1>4. LabelsOK
  BY <1>2 DEF Init, LabelsOK, NoContainer, Nobody, Owner
<1>5. OrphansOK /\ LiveOwnersSafe /\ SessionsOK /\ ScansOK
  BY DEF Init, OrphansOK, LiveOwnersSafe, SessionsOK, ScansOK, ScanOK, Scanning
<1>6. QED
  BY <1>3, <1>4, <1>5 DEF IInv

LEMMA NextKeeps == IInv /\ [Next]_vars => IInv'
<1> SUFFICES ASSUME IInv, [Next]_vars PROVE IInv'
  OBVIOUS
<1>1. ASSUME NEW p \in Pids, Step(p) PROVE IInv'
  BY <1>1, ListKeeps, InspectKeeps, RemoveKeeps, EndScanKeeps, LaunchKeeps, ReadyKeeps, StopKeeps DEF Step
<1>2. ASSUME NEW p \in Pids, Spawn(p) \/ Occupy(p) PROVE IInv'
  BY <1>2, TakenKeeps DEF Spawn, Occupy, docker, own
<1>3. ASSUME NEW p \in Pids, Exit(p) PROVE IInv'
  <2>1. faults' \in 0..MaxFaults /\ proc[p].kind = "acprof" /\ Forget(p)
        /\ UNCHANGED <<boot, cont>> /\ orphaned' = orphaned
    BY <1>3 DEF Exit, IInv, TypeOK
  <2>2. PICK k \in {"none", "zombie"} : proc' = [proc EXCEPT ![p].kind = k]
    BY <1>3 DEF Exit
  <2>3. QED
    BY <2>1, <2>2, GoneKeeps
<1>4. ASSUME NEW p \in Pids, Kill(p) PROVE IInv'
  <2>1. faults' \in 0..MaxFaults
    BY <1>4, ConstantsAssumption DEF Kill, Fault, IInv, TypeOK
  <2>2. orphaned' = orphaned \/ \E c \in Fresh : orphaned' = orphaned \cup {[id |-> c, by |-> Me(p)]}
    BY <1>4 DEF Kill
  <2>3. /\ proc[p].kind = "acprof" /\ proc' = [proc EXCEPT ![p].kind = "none"]
        /\ Forget(p) /\ UNCHANGED <<boot, cont>>
    BY <1>4 DEF Kill
  <2>4. QED
    BY <2>1, <2>2, <2>3, GoneKeeps
<1>5. CASE UNCHANGED vars
  <2>1. Listed' = Listed /\ \A q : Me(q)' = Me(q)
    BY <1>5 DEF vars, Listed, Me
  <2>2. TypeOK' /\ LabelsOK' /\ OrphansOK'
    BY <1>5, <2>1 DEF vars, IInv, TypeOK, LabelsOK, OrphansOK, Current
  <2>3. LiveOwnersSafe' /\ SessionsOK'
    BY <1>5, <2>1 DEF vars, IInv, LiveOwnersSafe, SessionsOK, Alive
  <2>4. ScansOK'
    BY <1>5, <2>1 DEF vars, IInv, ScansOK, ScanOK, Scanning, PassedBy, Alive
  <2>5. QED
    BY <2>2, <2>3, <2>4 DEF IInv
<1>6. QED
  BY <1>1, <1>2, <1>3, <1>4, <1>5, ReapKeeps, ContainerExitsKeeps, LateStartKeeps, RebootKeeps DEF Next

LEMMA InvariantHolds == Spec => []IInv
BY InitEstablishes, NextKeeps, PTL DEF Spec
-----------------------------------------------------------------------------
\* No process ever removes a container of another live acprof process, whatever
\* happens between its look at /proc and docker rm (remove_owned_container,
\* _owner_has_exited).
THEOREM LiveOwnersAreSafe == Spec => []LiveOwnersSafe
BY InvariantHolds, PTL DEF IInv

\* Who measures has one container and no neighbour that its scan should have
\* cleared away (start_container_session after recover_abandoned_containers).
THEOREM MeasuringIsAlone == Spec => []MeasuresAlone
<1>1. IInv => MeasuresAlone
  BY DEF IInv, MeasuresAlone, OneSession, CleanMeasurement, ScansOK, ScanOK, PassedBy
<1>2. QED
  BY <1>1, InvariantHolds, PTL

\* Both together: the labels decide who removes a container and who measures
\* beside which (container_lifecycle.py, docker_runtime.py), on every host.
THEOREM OwnersAlwaysDecide == Spec => []OwnersDecide
BY LiveOwnersAreSafe, MeasuringIsAlone, PTL DEF OwnersDecide
=============================================================================
