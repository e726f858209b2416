------------------------------ MODULE ModelStore ------------------------------
(***************************************************************************)
(* The host Model Store, acprof/host/model_store.py: one cache of weight   *)
(* files (hf/), one directory of symbolic links per model (entries/<key>)  *)
(* and its plan, shared by every acprof process of the host.  Processes    *)
(* prepare models (prepare_model), mount them (mount_args, verify_entry)   *)
(* under a shared lease, and prune (prune_store), all under one store      *)
(* lock; only the preflight (require_space) reads without it.              *)
(*                                                                         *)
(* A plan is told apart by what its SHA-256 covers and may differ between  *)
(* two preparations of the same model: whether hosts have served files     *)
(* ("fetched") or everything came from the cache ("cached").               *)
(***************************************************************************)
EXTENDS Integers, FiniteSets

CONSTANTS
    Procs,          \* acprof processes of the host
    Models,         \* models, each with its entry key
    Files,          \* weight files of hf/
    FilesOf,        \* FilesOf[k]: the files the plan of k selects
    NoProc,         \* nobody holds the store lock
    MaxFaults       \* bound: failures, interrupts and kills

ASSUME ConstantsAssumption ==
    /\ Models # {} /\ FilesOf \in [Models -> SUBSET Files]
    /\ NoProc \notin Procs
    /\ IsFiniteSet(Files) /\ MaxFaults \in Nat

PlanIds == {"fetched", "cached"}

VARIABLES
    blobs,          \* files present in hf/
    entry,          \* entry[k]: the directory entries/<k>
    strays,         \* models with a finished plan in a .preparing- directory
    lock,           \* who holds the store lock
    lease,          \* lease[k]: processes holding <k>.lease shared
    images,         \* images[k]: plans that model images on the host record
    pc, job,        \* where a process is, and what it is working on
    doomed, junk,   \* what a prune has decided to remove
    settled,        \* history: prepared, and nothing of it pruned since
    faults

vars == <<blobs, entry, strays, lock, lease, images, pc, job, doomed, junk,
          settled, faults>>
store == <<blobs, entry, strays>>
pruning == <<doomed, junk>>

Entry == [dir : BOOLEAN, plan : PlanIds \cup {"none"}, links : SUBSET Files]
NoEntry == [dir |-> FALSE, plan |-> "none", links |-> {}]

Job == [k : Models, plan : PlanIds \cup {"none"}, budget : Nat, used : Nat]
PCs == {"idle", "planned", "fetch", "rename", "finish", "prepared", "mounted",
        "verify", "verified", "rmtree", "unlink", "unreadable"}

AnyModel == CHOOSE k \in Models : TRUE
NoJob == [k |-> AnyModel, plan |-> "none", budget |-> 0, used |-> 0]

Init ==
    /\ blobs = {} /\ strays = {} /\ lock = NoProc
    /\ entry = [k \in Models |-> NoEntry]
    /\ lease = [k \in Models |-> {}] /\ images = [k \in Models |-> {}]
    /\ pc = [p \in Procs |-> "idle"] /\ job = [p \in Procs |-> NoJob]
    /\ doomed = [p \in Procs |-> {}] /\ junk = [p \in Procs |-> {}]
    /\ settled = [k \in Models |-> FALSE] /\ faults = 0

Goto(p, where) == pc' = [pc EXCEPT ![p] = where]
At(p, k, where) == pc[p] = where /\ job[p].k = k

\* read_entry finds a plan, complete or not.
Present(k) == entry[k].plan # "none"
\* verify_entry: every file of the plan is reached through the entry.
Complete(k) == Present(k) /\ entry[k].links = FilesOf[k] /\ FilesOf[k] \subseteq blobs
Missing(k) == FilesOf[k] \ blobs

\* The process ends; the kernel takes back its lock and its leases.
Quit(p) ==
    /\ Goto(p, "idle")
    /\ job' = [job EXCEPT ![p] = NoJob]
    /\ lock' = IF lock = p THEN NoProc ELSE lock
    /\ lease' = [k \in Models |-> lease[k] \ {p}]
    /\ doomed' = [doomed EXCEPT ![p] = {}] /\ junk' = [junk EXCEPT ![p] = {}]

\* disk_report reads entries/*/model_download_plan.json; the name of a
\* .preparing- directory is no entry ID, and read_entry raises ValueError.
Readable == strays = {}
-----------------------------------------------------------------------------
(* Preparation                                                             *)

\* preflight and require_space, without the lock: what is there to download?
Preflight(p, k) ==
    /\ pc[p] = "idle"
    /\ Goto(p, IF Readable THEN "planned" ELSE "unreadable")
    /\ job' = [job EXCEPT ![p] = [NoJob EXCEPT !.k = k, !.budget = Cardinality(Missing(k))]]
    /\ UNCHANGED <<store, lock, lease, images, pruning, settled, faults>>

\* Mutant: the download is not measured against the preflight.
BeginPrepare_NoBudget(p, k) ==
    /\ At(p, k, "planned")
    /\ lock = NoProc
    /\ \/ /\ Readable /\ (Present(k) => Missing(k) = {})
          /\ lock' = p /\ Goto(p, "fetch")
          /\ UNCHANGED <<lease, job, pruning>>
       \/ /\ ~Readable \/ (Present(k) /\ Missing(k) # {})
          /\ Quit(p)
    /\ UNCHANGED <<store, images, settled, faults>>

\* prepare_model gets the lock and checks again: space, the budget of the
\* preflight, and that an existing entry needs no download.
BeginPrepare(p, k) ==
    /\ At(p, k, "planned")
    /\ lock = NoProc
    /\ LET fits == /\ Readable
                   /\ Cardinality(Missing(k)) <= job[p].budget
                   /\ Present(k) => Missing(k) = {}
       IN  \/ fits /\ lock' = p /\ Goto(p, "fetch") /\ UNCHANGED <<lease, job, pruning>>
           \/ ~fits /\ Quit(p)
    /\ UNCHANGED <<store, images, settled, faults>>

\* snapshot_download fetches the files that are not cached, one by one.
Fetch(p, k) ==
    /\ At(p, k, "fetch")
    /\ \E f \in Missing(k) : blobs' = blobs \cup {f}
    /\ job' = [job EXCEPT ![p].used = @ + 1]
    /\ UNCHANGED <<entry, strays, lock, lease, images, pc, pruning, settled, faults>>

\* The snapshot is verified and the plan sealed, with the hosts that served it.
Seal(p, k) == CASE Present(k) -> entry[k].plan
                [] ~Present(k) /\ job[p].used > 0 -> "fetched"
                [] OTHER -> "cached"

\* The view is built in a temporary directory, unless entries/<k> exists, with
\* or without a plan.
BuildView(p, k) ==
    /\ At(p, k, "fetch")
    /\ Missing(k) = {}
    /\ job' = [job EXCEPT ![p].plan = Seal(p, k)]
    /\ IF entry[k].dir
       THEN Goto(p, "finish") /\ UNCHANGED strays
       ELSE Goto(p, "rename") /\ strays' = strays \cup {k}
    /\ UNCHANGED <<blobs, entry, lock, lease, images, pruning, settled, faults>>

Rename(p, k) ==
    /\ At(p, k, "rename")
    /\ entry' = [entry EXCEPT ![k] = [dir |-> TRUE, plan |-> job[p].plan, links |-> FilesOf[k]]]
    /\ strays' = strays \ {k}
    /\ Goto(p, "finish")
    /\ UNCHANGED <<blobs, lock, lease, images, job, pruning, settled, faults>>

\* prepare_model returns its record and lets the lock go.
FinishPrepare(p, k) ==
    /\ At(p, k, "finish")
    /\ lock' = NoProc
    /\ settled' = [settled EXCEPT ![k] = TRUE]
    /\ Goto(p, "prepared")
    /\ UNCHANGED <<store, lease, images, job, pruning, faults>>
-----------------------------------------------------------------------------
(* Mounting                                                                *)

\* mount_args, under the lock: the plan must be the recorded one, then the
\* process holds the lease until it ends.
Acquire(p, k, plan, where) ==
    /\ lock = NoProc
    /\ IF entry[k].plan = plan
       THEN /\ lease' = [lease EXCEPT ![k] = @ \cup {p}]
            /\ Goto(p, where)
            /\ job' = [job EXCEPT ![p] = [NoJob EXCEPT !.k = k, !.plan = plan]]
            /\ UNCHANGED <<lock, pruning>>
       ELSE Quit(p)

\* build_runtime_image bakes the record into an image, prepare_image mounts it.
MountBuilt(p, k) ==
    /\ At(p, k, "prepared")
    /\ Acquire(p, k, job[p].plan, "mounted")
    /\ images' = [images EXCEPT ![k] = @ \cup {job[p].plan}]
    /\ UNCHANGED <<store, settled, faults>>

\* Mutant: the lease is not taken before the entry is verified.
MountRecorded_NoLease(p, k) ==
    /\ pc[p] = "idle"
    /\ \E plan \in images[k] :
          /\ lock = NoProc /\ entry[k].plan = plan
          /\ Goto(p, "verify")
          /\ job' = [job EXCEPT ![p] = [NoJob EXCEPT !.k = k, !.plan = plan]]
    /\ UNCHANGED <<store, lock, lease, images, pruning, settled, faults>>

\* A reused image, a resumed experiment, a post-hoc run: verify_entry mounts
\* what the image recorded ...
MountRecorded(p, k) ==
    /\ pc[p] = "idle"
    /\ \E plan \in images[k] : Acquire(p, k, plan, "verify")
    /\ UNCHANGED <<store, images, settled, faults>>

\* ... and then reads every file through the entry.
VerifyEntry(p, k) ==
    /\ At(p, k, "verify")
    /\ IF Complete(k) THEN Goto(p, "verified") /\ UNCHANGED <<lock, lease, job, pruning>>
                      ELSE Quit(p)
    /\ UNCHANGED <<store, images, settled, faults>>
-----------------------------------------------------------------------------
(* Pruning                                                                 *)

\* Mutant: every file of an entry that goes is removed, shared or not.
Unreferenced_IgnoresShared(going, left) ==
    blobs \ UNION {entry[k].links : k \in {m \in Models \ going : Present(m) /\ lease[m] # {}}}

\* Files no remaining plan refers to; a directory without a plan counts for
\* nothing, a .preparing- directory with one counts.
Unreferenced(going, left) ==
    blobs \ (UNION {entry[k].links : k \in {m \in Models \ going : Present(m)}}
             \cup UNION {FilesOf[k] : k \in left})

\* prune_candidates under the lock: any choice of entries nobody leases (the
\* target size, --keep and the approved entries decide), or the strays.  A
\* target size makes it call disk_report.
BeginPrune(p) ==
    /\ pc[p] = "idle" /\ lock = NoProc
    /\ \E going \in SUBSET {k \in Models : Present(k) /\ lease[k] = {}}, left \in {{}, strays} :
          /\ strays' = left
          /\ doomed' = [doomed EXCEPT ![p] = going]
          /\ junk' = [junk EXCEPT ![p] = Unreferenced(going, left)]
    /\ lock' = p
    /\ Goto(p, "rmtree")
    /\ UNCHANGED <<blobs, entry, lease, images, job, settled, faults>>

\* rmtree removes the plan and the links in whatever order the directory lists
\* them, the directory last.
RemovePart(p, k) ==
    /\ pc[p] = "rmtree" /\ k \in doomed[p]
    /\ \/ Present(k) /\ entry' = [entry EXCEPT ![k].plan = "none"] /\ UNCHANGED doomed
       \/ /\ \E f \in entry[k].links : entry' = [entry EXCEPT ![k].links = @ \ {f}]
          /\ UNCHANGED doomed
       \/ /\ ~Present(k) /\ entry[k].links = {}
          /\ entry' = [entry EXCEPT ![k] = NoEntry]
          /\ doomed' = [doomed EXCEPT ![p] = @ \ {k}]
    /\ settled' = [settled EXCEPT ![k] = FALSE]
    /\ UNCHANGED <<blobs, strays, lock, lease, images, pc, job, junk, faults>>

\* The entries are gone; now the files, then the lock.
UnlinkBlob(p) ==
    /\ pc[p] \in {"rmtree", "unlink"} /\ doomed[p] = {}
    /\ \E f \in junk[p] :
          /\ blobs' = blobs \ {f}
          /\ junk' = [junk EXCEPT ![p] = @ \ {f}]
    /\ Goto(p, "unlink")
    /\ UNCHANGED <<entry, strays, lock, lease, images, job, doomed, settled, faults>>

EndPrune(p) ==
    /\ pc[p] \in {"rmtree", "unlink"} /\ doomed[p] = {} /\ junk[p] = {}
    /\ Quit(p)
    /\ UNCHANGED <<store, images, settled, faults>>
-----------------------------------------------------------------------------
\* The run is over.
Leave(p) ==
    /\ pc[p] \in {"mounted", "verified", "unreadable"}
    /\ Quit(p)
    /\ UNCHANGED <<store, images, settled, faults>>

\* A download error, an interrupt, a kill: whatever is on disk stays.  Only a
\* kill leaves the temporary directory of a half-published entry.
Fail(p) ==
    /\ pc[p] # "idle"
    /\ faults < MaxFaults /\ faults' = faults + 1
    /\ strays' \in {strays, IF pc[p] = "rename" THEN strays \ {job[p].k} ELSE strays}
    /\ Quit(p)
    /\ UNCHANGED <<blobs, entry, images, settled>>

Next == \E p \in Procs :
    \/ \E k \in Models :
          \/ Preflight(p, k) \/ BeginPrepare(p, k) \/ Fetch(p, k) \/ BuildView(p, k)
          \/ Rename(p, k) \/ FinishPrepare(p, k)
          \/ MountBuilt(p, k) \/ MountRecorded(p, k) \/ VerifyEntry(p, k)
          \/ RemovePart(p, k)
    \/ BeginPrune(p) \/ UnlinkBlob(p) \/ EndPrune(p)
    \/ Leave(p) \/ Fail(p)

Spec == Init /\ [][Next]_vars
-----------------------------------------------------------------------------
\* Every variable keeps its type.
TypeOK ==
    /\ blobs \subseteq Files /\ strays \subseteq Models
    /\ entry \in [Models -> Entry]
    /\ lock \in Procs \cup {NoProc} /\ lease \in [Models -> SUBSET Procs]
    /\ images \in [Models -> SUBSET PlanIds]
    /\ pc \in [Procs -> PCs] /\ job \in [Procs -> Job]
    /\ doomed \in [Procs -> SUBSET Models] /\ junk \in [Procs -> SUBSET Files]
    /\ settled \in [Models -> BOOLEAN] /\ faults \in 0..MaxFaults

\* What verify_entry has found whole stays whole while the process lives, with
\* the recorded plan: no prune, preparation or crash takes a file from a run
\* that reads it (the lease, taken before the files are read).
VerifiedIntact ==
    \A p \in Procs : pc[p] = "verified" =>
        Complete(job[p].k) /\ entry[job[p].k].plan = job[p].plan

\* No entry with a plan ever points at a file that is gone, wherever a prune or
\* a preparation was interrupted: entries go before files, files that a
\* remaining entry shares stay (prune_candidates).
NoDangling == \A k \in Models : Present(k) => entry[k].links \subseteq blobs

\* No plan outlives its files, neither one that a run has verified nor one that
\* an entry records; and types are kept.
PlansHaveTheirFiles == TypeOK /\ VerifiedIntact /\ NoDangling

\* A preparation never downloads more than the preflight announced, whatever
\* other processes prune or prepare in between (planned_download_bytes).
WithinBudget ==
    \A p \in Procs : pc[p] \in {"fetch", "rename", "finish", "prepared"} =>
        job[p].used <= job[p].budget

\* mount_args refuses a missing or different plan with "prepare it again
\* first".  Once that is done, and nothing pruned since, every image of the
\* model on this host can be mounted.
PreparingAgainHeals ==
    \A k \in Models : settled[k] => \A plan \in images[k] : entry[k].plan = plan

\* disk_report's comment: unlocked capacity summaries may overlap what another
\* task does to the store.  They do not fail because of it.
SummaryReadable == \A p \in Procs : pc[p] # "unreadable"
=============================================================================
