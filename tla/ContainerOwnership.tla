-------------------------- MODULE ContainerOwnership --------------------------
(***************************************************************************)
(* Who may start and who may remove a Docker container:                    *)
(* acprof/host/container_lifecycle.py and the sessions of                  *)
(* acprof/host/docker_runtime.py, for the processes of one user on one     *)
(* host.  A container carries the boot id, PID and start time of the       *)
(* process that launched it; those three, looked up in /proc, decide       *)
(* whether its owner has exited.                                           *)
(*                                                                         *)
(* PIDs are reused by anybody, processes are killed anywhere, the host may *)
(* reboot, and any docker command may fail or time out.                    *)
(***************************************************************************)
EXTENDS Integers, FiniteSets

CONSTANTS
    Pids,           \* process slots of the host
    Ids,            \* container ids; one nobody knows any more is as good as new
    None,           \* no container
    MaxLive,        \* acprof processes at a time (1: all hold MeasurementLock)
    MaxBoots,       \* bound: reboots
    MaxFaults       \* bound: kills and failing docker commands

ASSUME ConstantsAssumption ==
    /\ None \notin Ids /\ Pids # {} /\ IsFiniteSet(Pids) /\ IsFiniteSet(Ids)
    /\ MaxLive \in Nat /\ MaxBoots \in Nat /\ MaxFaults \in Nat

VARIABLES
    boot,           \* boot id
    proc,           \* proc[p]: what runs under PID p
    cont,           \* cont[c]: the container and its owner labels
    late,           \* history: what became debris when a scan could have passed
    orphaned,       \* docker run commands that outlived the process
    pc, todo,       \* todo[p]: listed containers still to be looked at
    aim,            \* aim[p]: own session, or container to remove
    faults

vars == <<boot, proc, cont, late, orphaned, pc, todo, aim, faults>>
host == <<boot, proc>>
docker == <<cont, late, orphaned>>
own == <<pc, todo, aim>>

\* Start times are only compared, and only under one PID and boot.
Starts == 0..(Cardinality(Ids) + 1)
Owner == [boot : 0..MaxBoots, pid : Pids, start : Starts]
Process == [kind : {"none", "acprof", "other", "zombie"}, start : Starts]
Nobody == [kind |-> "none", start |-> 0]
PCs == {"idle", "scan", "remove", "launch", "poll", "session", "abort"}

\* States of a container that docker ps -a lists.
Present == {"created", "running", "exited"}
AnyOwner == [boot |-> 0, pid |-> CHOOSE p \in Pids : TRUE, start |-> 0]
NoContainer == [st |-> "absent", by |-> AnyOwner]

Init ==
    /\ boot = 0
    /\ proc = [p \in Pids |-> Nobody]
    /\ cont = [c \in Ids |-> NoContainer]
    /\ late = {} /\ orphaned = {}
    /\ pc = [p \in Pids |-> "idle"] /\ todo = [p \in Pids |-> {}]
    /\ aim = [p \in Pids |-> None]
    /\ faults = 0

Goto(p, where) == pc' = [pc EXCEPT ![p] = where]
Fault == faults < MaxFaults /\ faults' = faults + 1

\* container_owner_labels
Me(p) == [boot |-> boot, pid |-> p, start |-> proc[p].start]
Alive(o) == o.boot = boot /\ proc[o.pid].kind = "acprof" /\ proc[o.pid].start = o.start
Listed == {c \in Ids : cont[c].st \in Present}
Fresh == {c \in Ids : /\ c \notin Listed
                       /\ \A p \in Pids : c \notin todo[p] /\ aim[p] # c
                       /\ \A o \in orphaned : o.id # c}

\* Mutant: a PID that exists is taken for the owner, whatever its start time.
HasExited_PidOnly(o) == o.boot # boot \/ proc[o.pid].kind \in {"none", "zombie"}

\* _owner_has_exited: another boot, no such PID, another start time, or a zombie.
HasExited(o) ==
    \/ o.boot # boot
    \/ proc[o.pid].kind \in {"none", "zombie"}
    \/ proc[o.pid].start # o.start
-----------------------------------------------------------------------------
(* recover_abandoned_containers                                            *)

\* docker ps -a over the labels of this host and user.
List(p) ==
    /\ proc[p].kind = "acprof" /\ pc[p] = "idle"
    /\ \/ todo' = [todo EXCEPT ![p] = Listed] /\ Goto(p, "scan") /\ UNCHANGED faults
       \/ Fault /\ Goto(p, "abort") /\ UNCHANGED todo
    /\ UNCHANGED <<host, docker, aim>>

\* Mutant: containers of the current owner are passed over.
Inspect_SkipsOwn(p, c) ==
    /\ pc[p] = "scan" /\ c \in todo[p]
    /\ todo' = [todo EXCEPT ![p] = @ \ {c}]
    /\ IF c \in Listed /\ HasExited(cont[c].by)
       THEN Goto(p, "remove") /\ aim' = [aim EXCEPT ![p] = c]
       ELSE UNCHANGED <<pc, aim>>
    /\ UNCHANGED <<host, docker, faults>>

\* Mutant: whoever owns a listed container is not asked.
Inspect_AnyOwner(p, c) ==
    /\ pc[p] = "scan" /\ c \in todo[p]
    /\ todo' = [todo EXCEPT ![p] = @ \ {c}]
    /\ IF c \in Listed /\ cont[c].by # Me(p)
       THEN Goto(p, "remove") /\ aim' = [aim EXCEPT ![p] = c]
       ELSE UNCHANGED <<pc, aim>>
    /\ UNCHANGED <<host, docker, faults>>

\* One listed container: gone meanwhile, residue of this very process, left by
\* an owner that has exited, or somebody else's.
Inspect(p, c) ==
    /\ pc[p] = "scan" /\ c \in todo[p]
    /\ todo' = [todo EXCEPT ![p] = @ \ {c}]
    /\ \/ /\ c \notin Listed \/ (cont[c].by # Me(p) /\ ~HasExited(cont[c].by))
          /\ UNCHANGED <<pc, aim, faults>>
       \/ /\ c \in Listed /\ cont[c].by = Me(p)
          /\ Goto(p, "abort")
          /\ UNCHANGED <<aim, faults>>
       \/ /\ c \in Listed /\ cont[c].by # Me(p) /\ HasExited(cont[c].by)
          /\ Goto(p, "remove") /\ aim' = [aim EXCEPT ![p] = c]
          /\ UNCHANGED faults
       \/ Fault /\ Goto(p, "abort") /\ UNCHANGED aim
    /\ UNCHANGED <<host, docker>>

\* Mutant: a failed removal is taken for a removal.
Remove_Trusts(p) ==
    /\ pc[p] = "remove"
    /\ LET c == aim[p] mine == cont[c].by = Me(p) IN
       \/ /\ cont' = [cont EXCEPT ![c] = NoContainer]
          /\ Goto(p, IF mine THEN "idle" ELSE "scan") /\ UNCHANGED faults
       \/ Fault /\ Goto(p, IF mine THEN "idle" ELSE "scan") /\ UNCHANGED cont
    /\ aim' = [aim EXCEPT ![p] = None]
    /\ late' = {c \in late : c # aim[p] \/ cont'[c] = cont[c]}
    /\ UNCHANGED <<host, orphaned, todo>>

\* remove_owned_container: the container is gone, or it cannot be proven gone
\* and ContainerCleanupError aborts the run.
Remove(p) ==
    /\ pc[p] = "remove"
    /\ LET c == aim[p] mine == cont[c].by = Me(p) IN
       \/ /\ cont' = [cont EXCEPT ![c] = NoContainer]
          /\ Goto(p, IF mine THEN "idle" ELSE "scan") /\ UNCHANGED faults
       \/ Fault /\ Goto(p, "abort") /\ UNCHANGED cont
    /\ late' = {c \in late : c # aim[p] \/ cont'[c] = cont[c]}
    /\ aim' = [aim EXCEPT ![p] = None]
    /\ UNCHANGED <<host, orphaned, todo>>
-----------------------------------------------------------------------------
(* start_container_session and stop_container_session                      *)

EndScan(p) ==
    /\ pc[p] = "scan" /\ todo[p] = {}
    /\ Goto(p, "launch")
    /\ UNCHANGED <<host, docker, todo, aim, faults>>

\* docker run: it fails before a container exists (any number of times); or it
\* works; or it fails afterwards, with or without a cidfile that names it.
Launch(p) ==
    /\ pc[p] = "launch"
    /\ \/ Goto(p, "idle") /\ UNCHANGED <<cont, aim, faults>>
       \/ \E c \in Fresh :
             \/ /\ cont' = [cont EXCEPT ![c] = [st |-> "running", by |-> Me(p)]]
                /\ Goto(p, "poll") /\ aim' = [aim EXCEPT ![p] = c]
                /\ UNCHANGED faults
             \/ /\ Fault
                /\ cont' = [cont EXCEPT ![c] = [st |-> "created", by |-> Me(p)]]
                /\ \/ Goto(p, "remove") /\ aim' = [aim EXCEPT ![p] = c]
                   \/ Goto(p, "idle") /\ UNCHANGED aim
    /\ UNCHANGED <<host, late, orphaned, todo>>

\* /ready answers; or the container has exited, or the deadline has passed.
Ready(p) ==
    /\ pc[p] = "poll" /\ cont[aim[p]].st = "running"
    /\ Goto(p, "session")
    /\ UNCHANGED <<host, docker, todo, aim, faults>>

\* The session ends, or never began: the container goes.
Stop(p) ==
    /\ pc[p] \in {"poll", "session"}
    /\ Goto(p, "remove")
    /\ UNCHANGED <<host, docker, todo, aim, faults>>

\* An OOM kill, a crash of the server.
ContainerExits(c) ==
    /\ cont[c].st = "running"
    /\ cont' = [cont EXCEPT ![c].st = "exited"]
    /\ UNCHANGED <<host, late, orphaned, own, faults>>
-----------------------------------------------------------------------------
(* Processes and the host                                                  *)

\* A start time that no label of this PID has: time does not repeat.
NewStart(p) ==
    CHOOSE t \in Starts \ {0} :
        /\ \A c \in Ids : cont[c].by.pid = p /\ cont[c].by.boot = boot => cont[c].by.start # t
        /\ \A o \in orphaned : o.by.pid = p => o.by.start # t

Spawn(p) ==
    /\ proc[p].kind = "none"
    /\ Cardinality({q \in Pids : proc[q].kind = "acprof"}) < MaxLive
    /\ proc' = [proc EXCEPT ![p] = [kind |-> "acprof", start |-> NewStart(p)]]
    /\ UNCHANGED <<boot, docker, own, faults>>

\* A process that is not acprof takes the PID; the host does not run out of
\* PIDs.
Occupy(p) ==
    /\ proc[p].kind = "none"
    /\ \E q \in Pids \ {p} : proc[q].kind # "other"
    /\ proc' = [proc EXCEPT ![p] = [kind |-> "other", start |-> NewStart(p)]]
    /\ UNCHANGED <<boot, docker, own, faults>>

\* What p leaves behind while another acprof process lives, whose scan may be
\* over already.
Forget(p) ==
    /\ Goto(p, "idle")
    /\ todo' = [todo EXCEPT ![p] = {}] /\ aim' = [aim EXCEPT ![p] = None]
    /\ late' = late \cup {c \in Listed : /\ cont[c].by = Me(p)
                                        /\ \E q \in Pids \ {p} : proc[q].kind = "acprof"}

\* The run ends, or has been aborted.
Exit(p) ==
    /\ proc[p].kind = "acprof" /\ pc[p] \in {"idle", "abort"}
    /\ \E k \in {"none", "zombie"} : proc' = [proc EXCEPT ![p].kind = k]
    /\ Forget(p)
    /\ UNCHANGED <<boot, cont, orphaned, faults>>

\* SIGKILL, anywhere; a docker run under way goes on without its parent.
Kill(p) ==
    /\ proc[p].kind = "acprof" /\ Fault
    /\ proc' = [proc EXCEPT ![p].kind = "none"]
    /\ orphaned' \in {orphaned} \cup
         (IF pc[p] = "launch" THEN {orphaned \cup {[id |-> c, by |-> Me(p)]} : c \in Fresh} ELSE {})
    /\ Forget(p)
    /\ UNCHANGED <<boot, cont>>

LateStart ==
    \E o \in orphaned :
        /\ cont' = [cont EXCEPT ![o.id] = [st |-> "running", by |-> o.by]]
        /\ late' = late \cup {o.id}
        /\ orphaned' = orphaned \ {o}
        /\ UNCHANGED <<host, own, faults>>

Reap(p) ==
    /\ proc[p].kind \in {"zombie", "other"}
    /\ proc' = [proc EXCEPT ![p] = Nobody]
    /\ UNCHANGED <<boot, docker, own, faults>>

\* Nothing survives a reboot but the stopped containers.
Reboot ==
    /\ boot < MaxBoots /\ boot' = boot + 1
    /\ proc' = [p \in Pids |-> Nobody]
    /\ cont' = [c \in Ids |-> IF cont[c].st = "running" THEN [cont[c] EXCEPT !.st = "exited"] ELSE cont[c]]
    /\ orphaned' = {}
    /\ pc' = [p \in Pids |-> "idle"] /\ todo' = [p \in Pids |-> {}]
    /\ aim' = [p \in Pids |-> None]
    /\ UNCHANGED <<late, faults>>

\* What a live process does next.
Step(p) ==
    \/ List(p) \/ Remove(p) \/ EndScan(p) \/ Launch(p) \/ Ready(p) \/ Stop(p)
    \/ \E c \in Ids : Inspect(p, c)

Next ==
    \/ \E p \in Pids : Step(p) \/ Spawn(p) \/ Occupy(p) \/ Exit(p) \/ Kill(p) \/ Reap(p)
    \/ \E c \in Ids : ContainerExits(c)
    \/ LateStart \/ Reboot

Spec == Init /\ [][Next]_vars

\* Docker finishes what it was asked, a process ends when it has to, zombies are
\* reaped, and people go on measuring: a free PID is used again, and not every
\* run ends before its scan.
Fairness ==
    /\ WF_vars(LateStart)
    /\ \A p \in Pids :
          /\ SF_vars(Step(p))
          /\ WF_vars(pc[p] = "abort" /\ Exit(p))
          /\ WF_vars(proc[p].kind = "zombie" /\ Reap(p))
          /\ SF_vars(Spawn(p))

FairSpec == Spec /\ Fairness
-----------------------------------------------------------------------------
\* Every variable keeps its type; a process has a container in hand exactly
\* while it polls, uses or removes one, and only acprof processes do.
TypeOK ==
    /\ boot \in 0..MaxBoots
    /\ proc \in [Pids -> Process]
    /\ cont \in [Ids -> [st : Present \cup {"absent"}, by : Owner]]
    /\ late \subseteq Ids /\ orphaned \subseteq [id : Ids, by : Owner]
    /\ pc \in [Pids -> PCs] /\ todo \in [Pids -> SUBSET Ids]
    /\ aim \in [Pids -> Ids \cup {None}]
    /\ faults \in 0..MaxFaults
    /\ \A p \in Pids :
          /\ aim[p] # None <=> pc[p] \in {"remove", "poll", "session"}
          /\ proc[p].kind # "acprof" => pc[p] = "idle"

\* Whatever happens between the look at /proc and docker rm, a process removes
\* its own containers and those whose owner has exited, never those of another
\* live acprof process.
LiveOwnersSafe ==
    \A p \in Pids : pc[p] = "remove" =>
        LET o == cont[aim[p]].by IN o = Me(p) \/ ~Alive(o)

\* A process that has a session has no second container, listed or about to
\* be: a container it lost track of keeps it from ever starting another one.
OneSession ==
    \A p \in Pids : pc[p] \in {"poll", "session"} =>
        {c \in Listed : cont[c].by = Me(p)} \subseteq {aim[p]}

\* While a case is measured, every other container on the host belongs to a
\* live acprof process or became debris when the scan could have passed: its
\* owner died beside this process, or a docker run outlived its killed parent.
\* Under the measurement lock only the latter remains.
CleanMeasurement ==
    \A p \in Pids : pc[p] = "session" =>
        \A c \in Listed \ {aim[p]} : c \in late \/ Alive(cont[c].by)

\* Whoever measures has one container and no neighbour that its scan should have
\* cleared away; and types are kept.
MeasuresAlone == TypeOK /\ OneSession /\ CleanMeasurement

\* The labels decide (recover_abandoned_containers, container_lifecycle.py): no
\* container of a live owner is removed, and nobody measures beside what its own
\* scan, or its own earlier container, should have cleared away.
OwnersDecide == LiveOwnersSafe /\ MeasuresAlone

\* A container whose owner is gone is removed, if people go on measuring: it
\* never becomes anybody's, through no reuse of PIDs and no reboot.
AbandonedGoes ==
    \A c \in Ids : (c \in Listed /\ ~Alive(cont[c].by)) ~> c \notin Listed
=============================================================================
