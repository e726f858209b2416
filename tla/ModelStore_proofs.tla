-------------------------- MODULE ModelStore_proofs --------------------------
(***************************************************************************)
(* Proofs about what is kept between runs.  ModelStore, for any number of  *)
(* processes, any models over any finite set of weight files, however they *)
(* share them, and any number of failures: the inductive invariant IInv    *)
(* says who may touch the store (the lock), whom a prune must spare (the   *)
(* leases) and what a preparation still may download (the budget).         *)
(* RunSettings, for any settings that can be entered or typed and any      *)
(* number of edits and starts: SettingsInv says what forms, saved settings *)
(* and records have in common, what a run that was started will do, and    *)
(* what a reused form owes to its record.                                  *)
(***************************************************************************)
EXTENDS ModelStore, RunSettings, FiniteSetTheorems, TLAPS

Preparing == {"fetch", "rename", "finish"}
Pruning == {"rmtree", "unlink"}
Mounted == {"mounted", "verify", "verified"}

\* Only the process that holds the lock is inside prepare_model or prune_store.
LockOK == \A p \in Procs : pc[p] \in Preparing \cup Pruning <=> lock = p

\* A plan has its directory.
EntryOK == \A k \in Models : Present(k) => entry[k].dir

\* What is about to be published is whole, and no entry stands in its way.
PublishOK ==
    \A p \in Procs :
        /\ pc[p] \in {"rename", "finish", "prepared"} => job[p].plan \in PlanIds
        /\ pc[p] = "rename" => Missing(job[p].k) = {} /\ ~entry[job[p].k].dir

\* A mounted model is leased, and has the plan that was asked for.
LeaseOK ==
    \A p \in Procs :
        /\ pc[p] \in Mounted => p \in lease[job[p].k]
        /\ pc[p] \in {"verify", "verified"} =>
              job[p].plan \in PlanIds /\ entry[job[p].k].plan = job[p].plan
        /\ pc[p] = "verified" => Complete(job[p].k)

\* A prune takes nothing that is leased, and no file of an entry that remains.
PruneOK ==
    \A p \in Procs : pc[p] \in Pruning =>
        /\ \A k \in doomed[p] : lease[k] = {}
        /\ \A k \in Models \ doomed[p] : Present(k) => entry[k].links \cap junk[p] = {}

\* What is left to download fits in what is left of the budget.
BudgetOK ==
    \A p \in Procs :
        /\ pc[p] = "planned" => job[p].used = 0
        /\ pc[p] = "fetch" => job[p].used + Cardinality(Missing(job[p].k)) <= job[p].budget
        /\ pc[p] \in {"rename", "finish", "prepared"} => job[p].used <= job[p].budget

IInv ==
    /\ TypeOK /\ LockOK /\ EntryOK /\ NoDangling
    /\ PublishOK /\ LeaseOK /\ PruneOK /\ BudgetOK
-----------------------------------------------------------------------------
(* Steps that leave the files and the entries alone. *)

LEMMA NoJobIsJob == NoJob \in Job /\ NoJob.used = 0 /\ \A k \in Models, n \in Nat :
    LET j == [[NoJob EXCEPT !.k = k] EXCEPT !.budget = n]
    IN  j \in Job /\ j.k = k /\ j.used = 0 /\ j.budget = n
<1>1. AnyModel \in Models
  BY ConstantsAssumption DEF AnyModel
<1>2. NoJob \in Job
  BY <1>1 DEF NoJob, Job
<1>3. QED
  BY <1>2 DEF NoJob, Job

\* The number of files to download is a number.
LEMMA MissingIsFinite ==
    ASSUME NEW k \in Models
    PROVE  IsFiniteSet(Missing(k)) /\ Cardinality(Missing(k)) \in Nat
<1>1. Missing(k) \in SUBSET Files
  BY ConstantsAssumption DEF Missing
<1>2. QED
  BY <1>1, ConstantsAssumption, FS_Subset, FS_CardinalityType

LEMMA StoreUnchanged ==
    ASSUME UNCHANGED <<blobs, entry>>
    PROVE  /\ \A k : (Present(k)' <=> Present(k)) /\ (Complete(k)' <=> Complete(k)) /\ Missing(k)' = Missing(k)
           /\ EntryOK' <=> EntryOK
           /\ NoDangling' <=> NoDangling
BY DEF Present, Complete, Missing, EntryOK, NoDangling

\* A process that ends lets its lock and its leases go.
LEMMA QuitKeeps ==
    ASSUME IInv, NEW p \in Procs, Quit(p), UNCHANGED <<blobs, entry>>, strays' \subseteq Models,
           images' \in [Models -> SUBSET PlanIds], settled' \in [Models -> BOOLEAN],
           faults' \in 0..MaxFaults
    PROVE  IInv'
<1>1. /\ pc' = [pc EXCEPT ![p] = "idle"] /\ job' = [job EXCEPT ![p] = NoJob]
      /\ lock' = IF lock = p THEN NoProc ELSE lock
      /\ lease' = [k \in Models |-> lease[k] \ {p}]
      /\ doomed' = [doomed EXCEPT ![p] = {}] /\ junk' = [junk EXCEPT ![p] = {}]
  BY DEF Quit, Goto
<1>2. /\ pc'[p] = "idle"
      /\ \A q \in Procs \ {p} : /\ pc'[q] = pc[q] /\ job'[q] = job[q]
                                /\ doomed'[q] = doomed[q] /\ junk'[q] = junk[q]
  BY <1>1 DEF IInv, TypeOK
<1>3. \A q \in Procs : job[q].k \in Models
  BY DEF IInv, TypeOK, Job
<1>4. TypeOK'
  <2>1. pc' \in [Procs -> PCs] /\ job' \in [Procs -> Job] /\ lock' \in Procs \cup {NoProc}
    BY <1>1, NoJobIsJob DEF IInv, TypeOK, PCs
  <2>2. /\ lease' \in [Models -> SUBSET Procs] /\ doomed' \in [Procs -> SUBSET Models]
        /\ junk' \in [Procs -> SUBSET Files]
    BY <1>1 DEF IInv, TypeOK
  <2>3. QED
    BY <2>1, <2>2 DEF IInv, TypeOK
<1>5. LockOK'
  BY <1>1, <1>2, ConstantsAssumption DEF IInv, LockOK, Preparing, Pruning
<1>6. EntryOK' /\ NoDangling'
  BY StoreUnchanged DEF IInv
<1>7. PublishOK' /\ BudgetOK'
  BY <1>2, StoreUnchanged DEF IInv, PublishOK, BudgetOK
<1>8. LeaseOK'
  BY <1>1, <1>2, <1>3, StoreUnchanged DEF IInv, LeaseOK, Mounted
<1>9. PruneOK'
  BY <1>1, <1>2, StoreUnchanged DEF IInv, TypeOK, PruneOK, Pruning
<1>10. QED
  BY <1>4, <1>5, <1>6, <1>7, <1>8, <1>9 DEF IInv

\* A process moves on with its job; nobody else notices.
LEMMA MoveKeeps ==
    ASSUME IInv, NEW p \in Procs, UNCHANGED <<blobs, entry, lease, images, pruning, faults>>,
           strays' \subseteq Models, settled' \in [Models -> BOOLEAN],
           NEW where \in PCs \ (Pruning \cup Mounted), pc' = [pc EXCEPT ![p] = where],
           NEW j \in Job, job' = [job EXCEPT ![p] = j],
           lock' \in Procs \cup {NoProc},
           where \in Preparing <=> lock' = p,
           \A q \in Procs \ {p} : lock' = q <=> lock = q,
           where \in {"rename", "finish", "prepared"} => j.plan \in PlanIds /\ j.used <= j.budget,
           where = "rename" => Missing(j.k) = {} /\ ~entry[j.k].dir,
           where = "planned" => j.used = 0,
           where = "fetch" => j.used + Cardinality(Missing(j.k)) <= j.budget
    PROVE  IInv'
<1>1. /\ pc'[p] = where /\ job'[p] = j
      /\ \A q \in Procs \ {p} : pc'[q] = pc[q] /\ job'[q] = job[q]
      /\ UNCHANGED <<doomed, junk>>
  BY DEF IInv, TypeOK, pruning
<1>2. TypeOK'
  BY <1>1 DEF IInv, TypeOK, pruning
<1>3. LockOK'
  BY <1>1 DEF IInv, LockOK
<1>4. EntryOK' /\ NoDangling'
  BY StoreUnchanged DEF IInv
<1>5. PublishOK' /\ BudgetOK'
  BY <1>1, StoreUnchanged DEF IInv, PublishOK, BudgetOK
<1>6. LeaseOK'
  BY <1>1, StoreUnchanged DEF IInv, LeaseOK, Mounted
<1>7. PruneOK'
  BY <1>1, StoreUnchanged DEF IInv, PruneOK
<1>8. QED
  BY <1>2, <1>3, <1>4, <1>5, <1>6, <1>7 DEF IInv
-----------------------------------------------------------------------------
(* Preparation. *)

LEMMA PreflightKeeps ==
    ASSUME IInv, NEW p \in Procs, NEW k \in Models, Preflight(p, k)
    PROVE  IInv'
<1> DEFINE j == [NoJob EXCEPT !.k = k, !.budget = Cardinality(Missing(k))]
<1>1. j \in Job /\ j.used = 0
  BY MissingIsFinite, NoJobIsJob DEF NoJob, Job
<1>2. PICK where \in {"planned", "unreadable"} : pc' = [pc EXCEPT ![p] = where]
  BY DEF Preflight, Goto
<1>3. /\ job' = [job EXCEPT ![p] = j] /\ pc[p] = "idle" /\ settled' = settled /\ strays' = strays
      /\ lock' = lock /\ UNCHANGED <<blobs, entry, lease, images, pruning, faults>>
  BY DEF Preflight, store
<1>4. lock \in Procs \cup {NoProc} /\ lock # p
  BY <1>3 DEF IInv, TypeOK, LockOK, Preparing, Pruning
<1> HIDE DEF j
<1>5. QED
  BY <1>1, <1>2, <1>3, <1>4, MoveKeeps DEF IInv, TypeOK, PCs, Preparing, Pruning, Mounted

LEMMA BeginPrepareKeeps ==
    ASSUME IInv, NEW p \in Procs, NEW k \in Models, BeginPrepare(p, k)
    PROVE  IInv'
<1>1. CASE Quit(p)
  BY <1>1, QuitKeeps DEF IInv, TypeOK, BeginPrepare, store
<1>2. CASE /\ Cardinality(Missing(k)) <= job[p].budget /\ lock' = p /\ Goto(p, "fetch")
           /\ UNCHANGED <<lease, job, pruning>>
  <2>1. /\ pc[p] = "planned" /\ job[p].k = k /\ job[p].used = 0 /\ lock = NoProc
        /\ UNCHANGED <<blobs, entry, strays, images, settled, faults>>
    BY DEF BeginPrepare, At, store, IInv, BudgetOK
  <2>2. job' = [job EXCEPT ![p] = job[p]] /\ job[p] \in Job /\ pc' = [pc EXCEPT ![p] = "fetch"]
    BY <1>2 DEF IInv, TypeOK, Goto
  <2>3. job[p].used + Cardinality(Missing(job[p].k)) <= job[p].budget
    BY <1>2, <2>1, MissingIsFinite
  <2>4. \A q \in Procs \ {p} : lock' = q <=> lock = q
    BY <1>2, <2>1, ConstantsAssumption
  <2>5. "fetch" \in PCs \ (Pruning \cup Mounted) /\ "fetch" \in Preparing
    BY DEF PCs, Preparing, Pruning, Mounted
  <2>6. QED
    BY <1>2, <2>1, <2>2, <2>3, <2>4, <2>5, MoveKeeps DEF IInv, TypeOK
<1>3. QED
  BY <1>1, <1>2 DEF BeginPrepare

LEMMA BuildViewKeeps ==
    ASSUME IInv, NEW p \in Procs, NEW k \in Models, BuildView(p, k)
    PROVE  IInv'
<1> DEFINE j == [job[p] EXCEPT !.plan = Seal(p, k)]
<1>1. /\ pc[p] = "fetch" /\ job[p].k = k /\ Missing(k) = {}
      /\ job' = [job EXCEPT ![p] = j] /\ lock' = lock
      /\ UNCHANGED <<blobs, entry, lease, images, pruning, settled, faults>>
  BY DEF BuildView, At
<1>2. PICK where \in {"finish", "rename"} :
         /\ pc' = [pc EXCEPT ![p] = where]
         /\ where = "rename" => ~entry[k].dir
         /\ strays' \in {strays, strays \cup {k}}
  BY DEF BuildView, Goto
<1>3. Seal(p, k) \in PlanIds
  BY DEF IInv, TypeOK, Entry, Seal, Present, PlanIds
<1>4. job[p] \in Job
  BY DEF IInv, TypeOK
<1>5. j \in Job /\ j.plan = Seal(p, k) /\ j.k = k /\ j.used = job[p].used /\ j.budget = job[p].budget
  BY <1>1, <1>3, <1>4 DEF Job
<1>6. j.used <= j.budget
  <2>1. Cardinality(Missing(k)) \in Nat /\ job[p].used \in Nat /\ job[p].budget \in Nat
    BY <1>4, MissingIsFinite DEF Job
  <2>2. job[p].used + Cardinality(Missing(k)) <= job[p].budget
    BY <1>1 DEF IInv, BudgetOK
  <2>3. QED
    BY <1>5, <2>1, <2>2
<1>7. lock = p
  BY <1>1 DEF IInv, LockOK, Preparing
<1> HIDE DEF j
<1>8. QED
  BY <1>1, <1>2, <1>3, <1>5, <1>6, <1>7, MoveKeeps DEF IInv, TypeOK, PCs, Preparing, Pruning, Mounted

LEMMA FinishPrepareKeeps ==
    ASSUME IInv, NEW p \in Procs, NEW k \in Models, FinishPrepare(p, k)
    PROVE  IInv'
<1>1. /\ pc[p] = "finish" /\ lock' = NoProc /\ pc' = [pc EXCEPT ![p] = "prepared"]
      /\ UNCHANGED <<blobs, entry, strays, lease, images, job, pruning, faults>>
  BY DEF FinishPrepare, At, Goto, store
<1>2. job' = [job EXCEPT ![p] = job[p]] /\ job[p] \in Job /\ settled' \in [Models -> BOOLEAN]
  BY <1>1 DEF IInv, TypeOK, FinishPrepare
<1>3. lock = p /\ job[p].plan \in PlanIds /\ job[p].used <= job[p].budget
  BY <1>1 DEF IInv, LockOK, Preparing, PublishOK, BudgetOK
<1>4. \A q \in Procs \ {p} : lock' = q <=> lock = q
  BY <1>1, <1>3, ConstantsAssumption
<1>5. "prepared" \in PCs \ (Pruning \cup Mounted) /\ "prepared" \notin Preparing
  BY DEF PCs, Preparing, Pruning, Mounted
<1>6. lock' \in Procs \cup {NoProc} /\ lock' # p
  BY <1>1, ConstantsAssumption
<1>7. QED
  BY <1>1, <1>2, <1>3, <1>4, <1>5, <1>6, MoveKeeps DEF IInv, TypeOK

\* Nobody else is at the store while p prepares or prunes.
LEMMA OneHolder ==
    ASSUME IInv, NEW p \in Procs, pc[p] \in Preparing \cup Pruning
    PROVE  lock = p /\ \A q \in Procs \ {p} : pc[q] \notin Preparing \cup Pruning
BY DEF IInv, LockOK

LEMMA FetchKeeps ==
    ASSUME IInv, NEW p \in Procs, NEW k \in Models, Fetch(p, k)
    PROVE  IInv'
<1>1. PICK f \in Missing(k) : blobs' = blobs \cup {f}
  BY DEF Fetch
<1>2. /\ pc[p] = "fetch" /\ job[p].k = k /\ job' = [job EXCEPT ![p].used = @ + 1]
      /\ UNCHANGED <<entry, strays, lock, lease, images, pc, pruning, settled, faults>>
  BY DEF Fetch, At
<1>3. f \in Files
  BY ConstantsAssumption DEF Missing
<1>4. job[p] \in Job
  BY DEF IInv, TypeOK
<1>5. /\ job'[p] = [job[p] EXCEPT !.used = job[p].used + 1] /\ job'[p] \in Job
      /\ job'[p].used = job[p].used + 1 /\ job'[p].k = k /\ job'[p].budget = job[p].budget
      /\ \A q \in Procs \ {p} : job'[q] = job[q]
  <2>1. /\ job'[p] = [job[p] EXCEPT !.used = job[p].used + 1]
        /\ \A q \in Procs \ {p} : job'[q] = job[q]
    BY <1>2 DEF IInv, TypeOK
  <2>2. job[p].used + 1 \in Nat
    BY <1>4 DEF Job
  <2>3. QED
    BY <1>2, <1>4, <2>1, <2>2 DEF Job
<1>6. TypeOK'
  <2>1. job' \in [Procs -> Job]
    BY <1>2, <1>5 DEF IInv, TypeOK
  <2>2. QED
    BY <1>1, <1>2, <1>3, <2>1 DEF IInv, TypeOK, pruning
<1>7. \A q \in Procs \ {p} : pc[q] \notin Preparing \cup Pruning
  BY <1>2, OneHolder DEF Preparing
<1>8. LockOK' /\ EntryOK' /\ NoDangling'
  BY <1>1, <1>2 DEF IInv, LockOK, EntryOK, NoDangling, Present
<1>9. PublishOK'
  BY <1>2, <1>5, <1>7 DEF IInv, PublishOK, Preparing
<1>10. LeaseOK'
  BY <1>1, <1>2, <1>5 DEF IInv, LeaseOK, Complete, Present, Mounted
<1>11. PruneOK'
  BY <1>2, <1>7 DEF IInv, PruneOK, Pruning, pruning
<1>12. BudgetOK'
  <2>1. Missing(k)' = Missing(k) \ {f}
    BY <1>1 DEF Missing
  <2>2. /\ Cardinality(Missing(k)) \in Nat
        /\ Cardinality(Missing(k)') = Cardinality(Missing(k)) - 1
    BY <2>1, MissingIsFinite, FS_RemoveElement
  <2>3. job[p].used \in Nat /\ job[p].budget \in Nat /\ job[p].used + Cardinality(Missing(k)) <= job[p].budget
    BY <1>2, <1>4 DEF IInv, BudgetOK, Job
  <2>4. job'[p].used + Cardinality(Missing(k)') <= job'[p].budget
    BY <1>5, <2>2, <2>3
  <2>5. \A q \in Procs \ {p} : pc[q] # "fetch"
    BY <1>7 DEF Preparing
  <2>6. Missing(job[p].k)' = Missing(k)'
    BY <1>5 DEF Missing
  <2>7. QED
    BY <1>2, <1>5, <2>4, <2>5, <2>6 DEF IInv, BudgetOK
<1>13. QED
  BY <1>6, <1>8, <1>9, <1>10, <1>11, <1>12 DEF IInv

LEMMA RenameKeeps ==
    ASSUME IInv, NEW p \in Procs, NEW k \in Models, Rename(p, k)
    PROVE  IInv'
<1>1. /\ pc[p] = "rename" /\ job[p].k = k /\ pc' = [pc EXCEPT ![p] = "finish"]
      /\ entry' = [entry EXCEPT ![k] = [dir |-> TRUE, plan |-> job[p].plan, links |-> FilesOf[k]]]
      /\ UNCHANGED <<blobs, lock, lease, images, job, pruning, settled, faults>>
  BY DEF Rename, At, Goto
<1>2. /\ job[p].plan \in PlanIds /\ Missing(k) = {} /\ ~entry[k].dir /\ ~Present(k)
  BY <1>1 DEF IInv, PublishOK, EntryOK
<1>3. /\ entry'[k] = [dir |-> TRUE, plan |-> job[p].plan, links |-> FilesOf[k]]
      /\ \A m \in Models \ {k} : entry'[m] = entry[m]
      /\ pc'[p] = "finish" /\ \A q \in Procs \ {p} : pc'[q] = pc[q]
  BY <1>1 DEF IInv, TypeOK
<1>4. TypeOK'
  <2>1. entry' \in [Models -> Entry]
    BY <1>1, <1>2, ConstantsAssumption DEF IInv, TypeOK, Entry
  <2>2. QED
    BY <1>1, <2>1 DEF Rename, IInv, TypeOK, PCs, pruning
<1>5. \A q \in Procs \ {p} : pc[q] \notin Preparing \cup Pruning
  BY <1>1, OneHolder DEF Preparing
<1>6. LockOK'
  BY <1>1, <1>3 DEF IInv, LockOK, Preparing
<1>7. EntryOK' /\ NoDangling'
  BY <1>1, <1>2, <1>3 DEF IInv, EntryOK, NoDangling, Present, Missing
<1>8. PublishOK'
  BY <1>1, <1>2, <1>3, <1>5 DEF IInv, PublishOK, Preparing
<1>9. LeaseOK'
  <2>1. ASSUME NEW q \in Procs, pc'[q] \in {"verify", "verified"} PROVE job[q].k \in Models \ {k}
    <3>1. pc[q] \in {"verify", "verified"}
      BY <1>3, <2>1
    <3>2. Present(job[q].k)
      BY <3>1 DEF IInv, LeaseOK, Present, PlanIds
    <3>3. QED
      BY <1>2, <3>2 DEF IInv, TypeOK, Job
  <2>2. QED
    BY <1>1, <1>3, <2>1 DEF IInv, LeaseOK, Mounted, Complete, Present
<1>10. PruneOK'
  BY <1>1, <1>3, <1>5 DEF IInv, PruneOK, Pruning
<1>11. BudgetOK'
  BY <1>1, <1>3 DEF IInv, BudgetOK, Missing
<1>12. QED
  BY <1>4, <1>6, <1>7, <1>8, <1>9, <1>10, <1>11 DEF IInv
-----------------------------------------------------------------------------
(* Mounting. *)

LEMMA AcquireKeeps ==
    ASSUME IInv, NEW p \in Procs, NEW k \in Models, NEW plan \in PlanIds,
           NEW where \in {"mounted", "verify"}, pc[p] \in {"idle", "prepared"},
           Acquire(p, k, plan, where), images' \in [Models -> SUBSET PlanIds],
           UNCHANGED <<store, settled, faults>>
    PROVE  IInv'
<1> USE DEF store
<1>1. CASE Quit(p)
  BY <1>1, QuitKeeps DEF IInv, TypeOK
<1>2. CASE /\ entry[k].plan = plan /\ lock = NoProc
           /\ lease' = [lease EXCEPT ![k] = @ \cup {p}]
           /\ Goto(p, where)
           /\ job' = [job EXCEPT ![p] = [NoJob EXCEPT !.k = k, !.plan = plan]]
           /\ UNCHANGED <<lock, pruning>>
  <2> DEFINE j == [NoJob EXCEPT !.k = k, !.plan = plan]
  <2>1. j \in Job /\ j.k = k /\ j.plan = plan
    BY NoJobIsJob DEF NoJob, Job
  <2>2. /\ pc'[p] = where /\ job'[p] = j
        /\ \A q \in Procs \ {p} : pc'[q] = pc[q] /\ job'[q] = job[q]
        /\ \A m \in Models : lease[m] \subseteq lease'[m]
        /\ p \in lease'[k]
    BY <1>2 DEF IInv, TypeOK, Goto
  <2>3. TypeOK'
    <3>1. lease' \in [Models -> SUBSET Procs] /\ pc' \in [Procs -> PCs]
      BY <1>2 DEF IInv, TypeOK, Goto, PCs
    <3>2. job' \in [Procs -> Job]
      BY <1>2, <2>1 DEF IInv, TypeOK
    <3>3. QED
      BY <1>2, <3>1, <3>2 DEF IInv, TypeOK, pruning
  <2>4. LockOK' /\ EntryOK' /\ NoDangling'
    BY <1>2, <2>2, StoreUnchanged DEF IInv, LockOK, Preparing, Pruning
  <2>5. PublishOK' /\ BudgetOK'
    BY <2>2, StoreUnchanged DEF IInv, PublishOK, BudgetOK
  <2>6. LeaseOK'
    <3>1. \A q \in Procs : job[q].k \in Models
      BY DEF IInv, TypeOK, Job
    <3> HIDE DEF j
    <3>2. QED
      BY <1>2, <2>1, <2>2, <3>1, StoreUnchanged DEF IInv, LeaseOK, Mounted
  <2>7. PruneOK'
    <3>1. \A q \in Procs : pc[q] \notin Pruning
      BY <1>2, ConstantsAssumption DEF IInv, LockOK
    <3>2. QED
      BY <2>2, <3>1 DEF PruneOK, Pruning
  <2>8. QED
    BY <2>3, <2>4, <2>5, <2>6, <2>7 DEF IInv
<1>3. QED
  BY <1>1, <1>2 DEF Acquire

LEMMA MountBuiltKeeps ==
    ASSUME IInv, NEW p \in Procs, NEW k \in Models, MountBuilt(p, k)
    PROVE  IInv'
<1>1. pc[p] = "prepared" /\ job[p].plan \in PlanIds
  BY DEF IInv, MountBuilt, At, PublishOK
<1>2. images' \in [Models -> SUBSET PlanIds]
  BY <1>1 DEF IInv, TypeOK, MountBuilt
<1>3. QED
  BY <1>1, <1>2, AcquireKeeps DEF MountBuilt

LEMMA MountRecordedKeeps ==
    ASSUME IInv, NEW p \in Procs, NEW k \in Models, MountRecorded(p, k)
    PROVE  IInv'
<1>1. PICK plan \in images[k] : Acquire(p, k, plan, "verify")
  BY DEF MountRecorded
<1>2. plan \in PlanIds
  BY DEF IInv, TypeOK
<1>3. QED
  BY <1>1, <1>2, AcquireKeeps DEF MountRecorded, IInv, TypeOK

LEMMA VerifyEntryKeeps ==
    ASSUME IInv, NEW p \in Procs, NEW k \in Models, VerifyEntry(p, k)
    PROVE  IInv'
<1>1. CASE Quit(p)
  BY <1>1, QuitKeeps DEF IInv, TypeOK, VerifyEntry, store
<1>2. CASE Complete(k) /\ Goto(p, "verified") /\ UNCHANGED <<lock, lease, job, pruning>>
  <2>1. /\ pc[p] = "verify" /\ job[p].k = k /\ pc'[p] = "verified"
        /\ \A q \in Procs \ {p} : pc'[q] = pc[q]
        /\ UNCHANGED <<blobs, entry, strays, images, settled, faults>>
    BY <1>2 DEF VerifyEntry, At, Goto, IInv, TypeOK, store
  <2>2. TypeOK'
    BY <1>2, <2>1 DEF IInv, TypeOK, pruning, Goto, PCs
  <2>3. LockOK' /\ EntryOK' /\ NoDangling'
    BY <1>2, <2>1, StoreUnchanged DEF IInv, LockOK, Preparing, Pruning
  <2>4. PublishOK' /\ BudgetOK'
    BY <1>2, <2>1, StoreUnchanged DEF IInv, PublishOK, BudgetOK
  <2>5. LeaseOK'
    BY <1>2, <2>1, StoreUnchanged DEF IInv, LeaseOK, Mounted
  <2>6. PruneOK'
    BY <1>2, <2>1, StoreUnchanged DEF IInv, PruneOK, Pruning, pruning
  <2>7. QED
    BY <2>2, <2>3, <2>4, <2>5, <2>6 DEF IInv
<1>3. QED
  BY <1>1, <1>2 DEF VerifyEntry
-----------------------------------------------------------------------------
(* Pruning. *)

LEMMA BeginPruneKeeps ==
    ASSUME IInv, NEW p \in Procs, BeginPrune(p)
    PROVE  IInv'
<1>1. PICK going \in SUBSET {k \in Models : Present(k) /\ lease[k] = {}}, left \in {{}, strays} :
         /\ strays' = left
         /\ doomed' = [doomed EXCEPT ![p] = going]
         /\ junk' = [junk EXCEPT ![p] = Unreferenced(going, left)]
  BY DEF BeginPrune
<1>2. /\ pc[p] = "idle" /\ lock = NoProc /\ lock' = p /\ pc' = [pc EXCEPT ![p] = "rmtree"]
      /\ UNCHANGED <<blobs, entry, lease, images, job, settled, faults>>
  BY DEF BeginPrune, Goto
<1>3. /\ pc'[p] = "rmtree" /\ \A q \in Procs \ {p} : pc'[q] = pc[q]
      /\ doomed'[p] = going /\ junk'[p] = Unreferenced(going, left)
  BY <1>1, <1>2 DEF IInv, TypeOK
<1>4. TypeOK'
  <2>1. Unreferenced(going, left) \subseteq Files
    BY DEF IInv, TypeOK, Unreferenced
  <2>2. /\ strays' \subseteq Models /\ doomed' \in [Procs -> SUBSET Models]
        /\ junk' \in [Procs -> SUBSET Files]
    BY <1>1, <2>1 DEF IInv, TypeOK
  <2>3. QED
    BY <1>2, <2>2 DEF IInv, TypeOK, PCs
<1>5. \A q \in Procs : pc[q] \notin Preparing \cup Pruning
  BY <1>2, ConstantsAssumption DEF IInv, LockOK
<1>6. LockOK' /\ EntryOK' /\ NoDangling'
  BY <1>2, <1>3, <1>5, StoreUnchanged DEF IInv, LockOK, Preparing, Pruning
<1>7. PublishOK' /\ BudgetOK'
  BY <1>2, <1>3, StoreUnchanged DEF IInv, PublishOK, BudgetOK
<1>8. LeaseOK'
  BY <1>2, <1>3, StoreUnchanged DEF IInv, LeaseOK, Mounted
<1>9. PruneOK'
  <2>1. ASSUME NEW k \in Models \ going, Present(k)
        PROVE  entry[k].links \cap Unreferenced(going, left) = {}
    BY <2>1 DEF Unreferenced
  <2>2. QED
    BY <1>2, <1>3, <1>5, <2>1, StoreUnchanged DEF PruneOK
<1>10. QED
  BY <1>4, <1>6, <1>7, <1>8, <1>9 DEF IInv

LEMMA RemovePartKeeps ==
    ASSUME IInv, NEW p \in Procs, NEW k \in Models, RemovePart(p, k)
    PROVE  IInv'
<1>1. /\ pc[p] = "rmtree" /\ k \in doomed[p] /\ settled' = [settled EXCEPT ![k] = FALSE]
      /\ UNCHANGED <<blobs, strays, lock, lease, images, pc, job, junk, faults>>
  BY DEF RemovePart
<1>2. PICK e \in Entry :
         /\ entry' = [entry EXCEPT ![k] = e]
         /\ e.links \subseteq entry[k].links
         /\ e.plan # "none" => Present(k) /\ e.dir = entry[k].dir
         /\ doomed' = doomed \/ (doomed' = [doomed EXCEPT ![p] = @ \ {k}] /\ e.plan = "none")
  <2>1. entry[k] \in Entry
    BY DEF IInv, TypeOK
  <2>2. CASE entry' = [entry EXCEPT ![k].plan = "none"] /\ UNCHANGED doomed
    <3> DEFINE e == [entry[k] EXCEPT !.plan = "none"]
    <3>1. e \in Entry /\ e.links = entry[k].links /\ e.plan = "none"
      BY <2>1 DEF Entry
    <3>2. QED
      BY <2>2, <3>1 DEF IInv, TypeOK
  <2>3. ASSUME NEW f \in entry[k].links, entry' = [entry EXCEPT ![k].links = @ \ {f}], UNCHANGED doomed
        PROVE  \E e \in Entry :
                  /\ entry' = [entry EXCEPT ![k] = e] /\ e.links \subseteq entry[k].links
                  /\ e.plan # "none" => Present(k) /\ e.dir = entry[k].dir
    <3> DEFINE e == [entry[k] EXCEPT !.links = entry[k].links \ {f}]
    <3>1. e \in Entry /\ e.links = entry[k].links \ {f} /\ e.plan = entry[k].plan /\ e.dir = entry[k].dir
      BY <2>1 DEF Entry
    <3>2. entry' = [entry EXCEPT ![k] = e]
      BY <2>3
    <3> HIDE DEF e
    <3>3. QED
      BY <3>1, <3>2 DEF Present
  <2>4. CASE /\ entry[k].links = {} /\ entry' = [entry EXCEPT ![k] = NoEntry]
             /\ doomed' = [doomed EXCEPT ![p] = @ \ {k}]
    <3>1. NoEntry \in Entry /\ NoEntry.links = {} /\ NoEntry.plan = "none"
      BY DEF NoEntry, Entry
    <3>2. QED
      BY <2>4, <3>1
  <2>5. QED
    BY <2>2, <2>3, <2>4 DEF RemovePart
<1>3. /\ entry'[k] = e /\ \A m \in Models \ {k} : entry'[m] = entry[m]
      /\ \A q \in Procs \ {p} : doomed'[q] = doomed[q]
      /\ doomed'[p] \subseteq doomed[p] /\ doomed[p] \subseteq doomed'[p] \cup {k}
      /\ k \in doomed'[p] \/ e.plan = "none"
  BY <1>1, <1>2 DEF IInv, TypeOK
<1>4. TypeOK'
  <2>1. settled' \in [Models -> BOOLEAN] /\ entry' \in [Models -> Entry] /\ doomed' \in [Procs -> SUBSET Models]
    BY <1>1, <1>2 DEF IInv, TypeOK
  <2>2. QED
    BY <1>1, <2>1 DEF IInv, TypeOK
<1>5. lease[k] = {} /\ \A q \in Procs \ {p} : pc[q] \notin Preparing \cup Pruning
  BY <1>1, OneHolder DEF IInv, PruneOK, Pruning
<1>6. LockOK'
  BY <1>1 DEF IInv, LockOK
<1>7. EntryOK' /\ NoDangling'
  BY <1>1, <1>2, <1>3 DEF IInv, EntryOK, NoDangling, Present
<1>8. PublishOK'
  BY <1>1, <1>5 DEF IInv, PublishOK, Preparing, Missing
<1>9. LeaseOK'
  <2>1. ASSUME NEW q \in Procs, pc[q] \in Mounted PROVE job[q].k \in Models \ {k}
    BY <1>5, <2>1 DEF IInv, LeaseOK, TypeOK, Job
  <2>2. QED
    BY <1>1, <1>3, <2>1 DEF IInv, LeaseOK, Complete, Present, Mounted
<1>10. PruneOK'
  <2>1. \A m \in doomed'[p] : lease[m] = {}
    BY <1>1, <1>3 DEF IInv, PruneOK, Pruning
  <2>2. ASSUME NEW m \in Models \ doomed'[p], entry'[m].plan # "none"
        PROVE  entry'[m].links \cap junk[p] = {}
    <3>1. m # k /\ m \notin doomed[p]
      BY <1>3, <2>2
    <3>2. QED
      BY <1>1, <1>3, <2>2, <3>1 DEF IInv, PruneOK, Pruning, Present
  <2>3. \A q \in Procs \ {p} : pc[q] \notin Pruning
    BY <1>5
  <2>4. QED
    BY <1>1, <2>1, <2>2, <2>3 DEF PruneOK, Present
<1>11. BudgetOK'
  BY <1>1 DEF IInv, BudgetOK, Missing
<1>12. QED
  BY <1>4, <1>6, <1>7, <1>8, <1>9, <1>10, <1>11 DEF IInv

LEMMA UnlinkBlobKeeps ==
    ASSUME IInv, NEW p \in Procs, UnlinkBlob(p)
    PROVE  IInv'
<1>1. PICK f \in junk[p] : blobs' = blobs \ {f} /\ junk' = [junk EXCEPT ![p] = @ \ {f}]
  BY DEF UnlinkBlob
<1>2. /\ pc[p] \in Pruning /\ doomed[p] = {} /\ pc' = [pc EXCEPT ![p] = "unlink"]
      /\ UNCHANGED <<entry, strays, lock, lease, images, job, doomed, settled, faults>>
  BY DEF UnlinkBlob, Goto, Pruning
<1>3. /\ pc'[p] = "unlink" /\ \A q \in Procs \ {p} : pc'[q] = pc[q] /\ junk'[q] = junk[q]
      /\ junk'[p] \subseteq junk[p]
  BY <1>1, <1>2 DEF IInv, TypeOK
<1>4. TypeOK'
  BY <1>1, <1>2 DEF IInv, TypeOK, PCs
<1>5. \A k \in Models : Present(k) => entry[k].links \cap junk[p] = {}
  BY <1>2 DEF IInv, PruneOK
<1>6. \A q \in Procs \ {p} : pc[q] \notin Preparing \cup Pruning
  BY <1>2, OneHolder
<1>7. LockOK'
  BY <1>2, <1>3 DEF IInv, LockOK, Pruning
<1>8. EntryOK' /\ NoDangling'
  BY <1>1, <1>2, <1>5 DEF IInv, EntryOK, NoDangling, Present
<1>9. PublishOK'
  BY <1>2, <1>3, <1>6 DEF IInv, PublishOK, Preparing
<1>10. LeaseOK'
  <2>1. ASSUME NEW q \in Procs, pc[q] = "verified" PROVE Complete(job[q].k)'
    <3>1. Complete(job[q].k) /\ job[q].k \in Models
      BY <2>1 DEF IInv, LeaseOK, TypeOK, Job
    <3>2. f \notin FilesOf[job[q].k]
      BY <1>5, <3>1 DEF Complete
    <3>3. QED
      BY <1>1, <1>2, <3>1, <3>2 DEF Complete, Present
  <2>2. QED
    BY <1>2, <1>3, <2>1 DEF IInv, LeaseOK, Mounted
<1>11. PruneOK'
  BY <1>2, <1>3, <1>5, <1>6 DEF IInv, PruneOK, Present
<1>12. BudgetOK'
  BY <1>2, <1>3, <1>6 DEF IInv, BudgetOK, Preparing
<1>13. QED
  BY <1>4, <1>7, <1>8, <1>9, <1>10, <1>11, <1>12 DEF IInv
-----------------------------------------------------------------------------
LEMMA InitEstablishes == Init => IInv
<1> SUFFICES ASSUME Init PROVE IInv
  OBVIOUS
<1>1. TypeOK
  <2>1. NoJob \in Job
    BY NoJobIsJob
  <2>2. NoEntry \in Entry /\ "idle" \in PCs /\ 0 \in 0..MaxFaults
    BY ConstantsAssumption DEF NoEntry, Entry, PCs
  <2>3. settled \in [Models -> BOOLEAN] /\ images \in [Models -> SUBSET PlanIds]
    BY DEF Init
  <2>4. /\ lease \in [Models -> SUBSET Procs] /\ doomed \in [Procs -> SUBSET Models]
        /\ junk \in [Procs -> SUBSET Files]
    BY DEF Init
  <2>5. QED
    BY <2>1, <2>2, <2>3, <2>4 DEF Init, TypeOK
<1>2. LockOK /\ EntryOK /\ NoDangling
  BY ConstantsAssumption DEF Init, LockOK, EntryOK, NoDangling, Present, NoEntry, Preparing, Pruning
<1>3. PublishOK /\ LeaseOK /\ PruneOK /\ BudgetOK
  BY DEF Init, PublishOK, LeaseOK, PruneOK, BudgetOK, Mounted, Pruning
<1>4. QED
  BY <1>1, <1>2, <1>3 DEF IInv

LEMMA NextKeeps == IInv /\ [Next]_vars => IInv'
<1> SUFFICES ASSUME IInv, [Next]_vars PROVE IInv'
  OBVIOUS
<1>1. ASSUME NEW p \in Procs, EndPrune(p) \/ Leave(p) PROVE IInv'
  BY <1>1, QuitKeeps DEF EndPrune, Leave, store, IInv, TypeOK
<1>2. ASSUME NEW p \in Procs, Fail(p) PROVE IInv'
  <2>1. faults' \in 0..MaxFaults /\ strays' \subseteq Models
    BY <1>2, ConstantsAssumption DEF Fail, IInv, TypeOK
  <2>2. QED
    BY <1>2, <2>1, QuitKeeps DEF Fail, IInv, TypeOK
<1>3. CASE UNCHANGED vars
  <2>1. UNCHANGED <<blobs, entry, strays, lock, lease, images, pc, job, doomed, junk, settled, faults>>
    BY <1>3 DEF vars
  <2>2. TypeOK' /\ LockOK' /\ EntryOK' /\ NoDangling'
    BY <2>1, StoreUnchanged DEF IInv, TypeOK, LockOK
  <2>3. PublishOK' /\ LeaseOK' /\ PruneOK' /\ BudgetOK'
    BY <2>1, StoreUnchanged DEF IInv, PublishOK, LeaseOK, PruneOK, BudgetOK
  <2>4. QED
    BY <2>2, <2>3 DEF IInv
<1>4. QED
  BY <1>1, <1>2, <1>3, PreflightKeeps, BeginPrepareKeeps, FetchKeeps, BuildViewKeeps, RenameKeeps,
     FinishPrepareKeeps, MountBuiltKeeps, MountRecordedKeeps, VerifyEntryKeeps, RemovePartKeeps,
     BeginPruneKeeps, UnlinkBlobKeeps DEF Next

LEMMA InvariantHolds == Spec => []IInv
BY InitEstablishes, NextKeeps, PTL DEF Spec
-----------------------------------------------------------------------------
\* No plan outlives its files: neither one that a run has verified (the lease
\* of mount_args) nor one that an entry records (prune_candidates).
THEOREM PlansKeepTheirFiles == Spec => []PlansHaveTheirFiles
<1>1. IInv => PlansHaveTheirFiles
  BY DEF IInv, PlansHaveTheirFiles, VerifiedIntact, LeaseOK
<1>2. QED
  BY <1>1, InvariantHolds, PTL

\* A preparation never downloads more than its preflight announced
\* (planned_download_bytes), whatever others prune or prepare in between.
THEOREM DownloadsStayWithinBudget == Spec => []WithinBudget
<1>1. ASSUME IInv PROVE WithinBudget
  <2> SUFFICES ASSUME NEW p \in Procs, pc[p] = "fetch" PROVE job[p].used <= job[p].budget
    BY <1>1 DEF IInv, WithinBudget, BudgetOK
  <2>1. job[p].used \in Nat /\ job[p].budget \in Nat /\ job[p].k \in Models
    BY <1>1 DEF IInv, TypeOK, Job
  <2>2. job[p].used + Cardinality(Missing(job[p].k)) <= job[p].budget
    BY <1>1 DEF IInv, BudgetOK
  <2>3. QED
    BY <2>1, <2>2, MissingIsFinite
<1>2. QED
  BY <1>1, InvariantHolds, PTL
-----------------------------------------------------------------------------
(* RunSettings                                                             *)

\* What is said of an option whatever it goes through.
Said == Declared \ Ignored

\* A result root is numbered when it is fresh; the numbers from k down are not
\* yet taken.
RootOK(r, k) == r = <<r[1], r[2]>> /\ r[2] \in Nat /\ (r[2] = 0 \/ r[2] > k)

\* What can stand in a form, in a configuration with what the form does not
\* show, in the arguments of a run and in the options that are frozen.
FieldsOK(f, k) ==
    /\ DOMAIN f = Shown /\ f = [n \in Shown |-> f[n]]
    /\ \A n \in Texts \cap Shown : f[n] # Absent
    /\ f.policy # NoText /\ f.prune \in BOOLEAN /\ f.resume \in BOOLEAN
    /\ Tidy(f.model) = f.model
    /\ RootOK(f.output, k)

ConfigOK(c, k) == c = Config(c.fields, c.extra) /\ FieldsOK(c.fields, k)

ArgsOK(a, k) ==
    /\ a.policy # NoText /\ a.prune \in BOOLEAN /\ a.resume \in BOOLEAN
    /\ RootOK(a.output, k) /\ Tidy(a.model) = a.model

OptionsOK(o, model) ==
    /\ DOMAIN o \cap Ignored = {} /\ {"model", "gpus"} \subseteq DOMAIN o
    /\ o.model = model
    /\ \A n \in DOMAIN o \cap Texts \cap Shown : o[n] # Absent /\ Tidy(o[n]) = o[n]
    /\ "policy" \in DOMAIN o => o.policy # NoText
    /\ "prune" \in DOMAIN o => o.prune \in BOOLEAN
    /\ "spec" \in DOMAIN o => AbsolutePath(o.spec) = o.spec
    /\ o.gpus # "off" => "device" \in DOMAIN o /\ o.device = "GPU-1"

\* What a directory has recorded, under the model it is named after.
ExperimentOK(e, k) ==
    /\ e = [place |-> e.place, options |-> e.options, pin |-> e.pin, done |-> e.done]
    /\ e.done \in BOOLEAN
    /\ e.place = <<e.place[1], e.place[2]>> /\ RootOK(e.place[1], k)
    /\ OptionsOK(e.options, e.place[2])

\* Valid and FrozenOptions while the declaration reads d.
Sound(f) == f.model # NoText /\ f.cpus # "0" /\ f.compute \in {"none", "both"}
ValidAt(c, d) ==
    /\ Serializable(c.extra) /\ DOMAIN c.extra \cap Shown = {}
    /\ Sound(c.fields) /\ (c.fields.spec # NoText => d # "unreadable")
FrozenAt(given, device, d) ==
    LET unset == {n \in {"policy"} : given.policy = "auto"} \cup {n \in {"spec"} : given.spec = NoText}
                 \cup {n \in {"device"} : given.device = Absent /\ device = Absent}
        specs == IF given.spec = NoText THEN Bare ELSE [spec |-> AbsolutePath(given.spec), spec_sha256 |-> d]
        gpu == IF device = Absent THEN Bare ELSE [device |-> device]
    IN  Over(specs, Over(gpu, Part(given, DOMAIN given \ (Ignored \cup unset))))

\* A run that is proposed: the command of a configuration that is valid.
OfferOK(p, k) ==
    /\ ConfigOK(p.config, k) /\ p.command = BuildCommand(p.config) /\ ValidAt(p.config, p.declared)

\* The arguments say what was shown; the run that was started, and its arguments.
Says(c, given) == \A n \in Said : given[n] = Means(c, n)

Live == child.phase # "none"
Args == ParsedArgs(child.given)

\* The run will begin unless the declaration or the directory has changed.
Begins ==
    LET S == Settled(Args)  d == child.seen.declared
    IN  /\ ValidAt(Config(FromNamespace(Args), Bare), d)
        /\ IF Args.resume
           THEN \E e \in child.seen.there : Incomplete(e) /\ e.options = FrozenAt(S, Pinned(S), d)
           ELSE child.seen.there = {}

\* A run that was started from the screen is the one that was shown, and while
\* it measures its directory says the same.
ChildOK ==
    /\ child.phase \in {"none", "starting", "measuring"} /\ child.screen \in BOOLEAN
    /\ child = [phase |-> child.phase, place |-> child.place, config |-> child.config,
                given |-> child.given, screen |-> child.screen, seen |-> child.seen]
    /\ Live => /\ ArgsOK(Args, allowance.starts) /\ child.place = Place(Args)
               /\ ~child.screen => child.place[1][2] = 0
               /\ child.screen => /\ "requested" \notin DOMAIN child.given
                                  /\ child.place = Place(child.config.fields)
                                  /\ Says(child.config, Settled(Args))
    /\ child.phase = "starting" /\ child.screen => Begins
    /\ child.phase = "measuring" =>
          \E e \in InPlace(child.place) : ~e.done /\ (child.screen => Agree(child.config, e.options, Said))

\* A form that is reused says what is frozen, at a root nobody has yet.
ReuseOK ==
    source # NoSource =>
        /\ InPlace(source) # {}
        /\ runForm.fields.output[2] # 0 /\ ~(Live /\ child.screen)
        /\ InPlace(Place(runForm.fields)) = {} /\ ~runForm.fields.resume
        /\ \A e \in experiments : e.place = source =>
              /\ Agree(runForm, e.options, Said \ {"revision"})
              /\ runForm.fields.revision \in {e.pin, Stated(e.options, "revision")}

\* What is kept: the form, the saved settings, one record in each directory,
\* and the runs the dialog offers.
AllowanceOK == allowance \in [{"edits", "starts"} -> Nat]
FormOK == ConfigOK(runForm, allowance.starts)
SavedOK ==
    /\ settings = [defaults |-> settings.defaults, last |-> settings.last]
    /\ \A c \in settings.defaults : ConfigOK(c, allowance.starts)
    /\ settings.last # Absent /\ Tidy(settings.last) = settings.last
DiskOK ==
    /\ \A e \in experiments : ExperimentOK(e, allowance.starts)
    /\ \A e, f \in experiments : e.place = f.place => e = f
DialogOK ==
    /\ dialog.open \in BOOLEAN
    /\ \A p \in dialog.offers.resume : ConfigOK(p.config, allowance.starts) /\ p.config.fields.resume = TRUE
    /\ \A p \in dialog.offers.restart : OfferOK(p, allowance.starts) /\ p.config.fields.resume = FALSE

KeptOK == AllowanceOK /\ FormOK /\ SavedOK /\ DiskOK /\ DialogOK

\* The inductive invariant.
SettingsInv == KeptOK /\ ChildOK /\ ReuseOK
-----------------------------------------------------------------------------
\* Nothing that is written is blank or absent.
LEMMA NoTexts ==
  /\ Absent # NoText
  /\ \A v \in {"1,2", "20.0", "1, 2", "20", "spec", "/spec", "0", "none", "both", "auto", "off", "off,on",
             "GPU-1", "1", "smoke", "minimal", "m1", "m2", "commit", "v1", "v2"} : v # NoText /\ v # Absent
<1>1. \A v \in {"1,2", "20.0", "1, 2", "20", "spec", "/spec", "0", "none", "both", "auto", "off", "off,on",
             "GPU-1", "1", "smoke", "minimal", "m1", "m2", "commit", "v1", "v2"} : v # Absent
  BY DEF Absent
<1>2. \A v \in {"1,2", "20.0", "1, 2", "20", "spec", "/spec", "0", "none", "both", "auto", "off", "off,on",
             "GPU-1", "1", "smoke", "minimal", "m1", "m2", "commit", "v1", "v2"} : v # NoText
  BY Zenon DEF NoText
<1>3. Absent # NoText
  BY Zenon DEF NoText, Absent
<1>. QED BY <1>1, <1>2, <1>3

\* Writing numbers and paths out once more changes nothing, and blanks nothing.
LEMMA TidyTwice ==
  ASSUME NEW v
  PROVE  /\ Tidy(Tidy(v)) = Tidy(v) /\ (Tidy(v) = NoText <=> v = NoText) /\ (Tidy(v) = Absent <=> v = Absent)
         /\ AbsolutePath(AbsolutePath(v)) = AbsolutePath(v)
         /\ Tidy(AbsolutePath(Tidy(v))) = AbsolutePath(Tidy(v))
         /\ (AbsolutePath(v) = NoText <=> v = NoText) /\ (AbsolutePath(v) = Absent <=> v = Absent)
         /\ (Tidy(v) = "0" <=> v = "0") /\ (Tidy(v) \in {"none", "both"} <=> v \in {"none", "both"})
  BY NoTexts DEF Tidy, AbsolutePath, Absent

\* What building a command makes of the fields, once and twice.
LEMMA NormalIs ==
  ASSUME NEW f, NEW x
  PROVE  Normal(Config(f, x)) = Config([n \in Shown |-> IF n \in Texts THEN Tidy(f[n]) ELSE f[n]], x)
<1>1. Config(f, x).fields = f
  BY DEF Config
<1>2. Normal(Config(f, x)) =
        [Config(f, x) EXCEPT !.fields = [n \in Shown |-> IF n \in Texts THEN Tidy(f[n]) ELSE f[n]]]
  BY <1>1 DEF Normal
<1>. QED BY <1>2 DEF Config

LEMMA NormalFields ==
  ASSUME NEW f, NEW x
  PROVE  /\ Normal(Normal(Config(f, x))) = Normal(Config(f, x))
         /\ Normal(Config(f, x)) = Config(Normal(Config(f, x)).fields, x)
         /\ DOMAIN Normal(Config(f, x)).fields = Shown
         /\ Normal(Config(f, x)).fields = [n \in Shown |-> IF n \in Texts THEN Tidy(f[n]) ELSE f[n]]
<1>. DEFINE g == [n \in Shown |-> IF n \in Texts THEN Tidy(f[n]) ELSE f[n]]
<1>1. /\ Normal(Config(f, x)) = Config(g, x)
      /\ Normal(Config(g, x)) = Config([n \in Shown |-> IF n \in Texts THEN Tidy(g[n]) ELSE g[n]], x)
  BY NormalIs
<1>2. \A n \in Shown : g[n] = (IF n \in Texts THEN Tidy(f[n]) ELSE f[n])
  OBVIOUS
<1>3. \A n \in Shown : (IF n \in Texts THEN Tidy(g[n]) ELSE g[n]) = (IF n \in Texts THEN Tidy(f[n]) ELSE f[n])
  BY <1>2, TidyTwice
<1>4. [n \in Shown |-> IF n \in Texts THEN Tidy(g[n]) ELSE g[n]] = g
  BY <1>3
<1>. QED BY <1>1, <1>4 DEF Config

LEMMA NormalOf ==
  ASSUME NEW c, c = Config(c.fields, c.extra)
  PROVE  /\ Normal(Normal(c)) = Normal(c)
         /\ Normal(c) = Config(Normal(c).fields, c.extra)
         /\ DOMAIN Normal(c).fields = Shown
         /\ \A n \in Shown : Normal(c).fields[n] = IF n \in Texts THEN Tidy(c.fields[n]) ELSE c.fields[n]
<1>. DEFINE f == c.fields  x == c.extra
<1>1. /\ Normal(Normal(Config(f, x))) = Normal(Config(f, x))
      /\ Normal(Config(f, x)) = Config(Normal(Config(f, x)).fields, x)
      /\ DOMAIN Normal(Config(f, x)).fields = Shown
      /\ Normal(Config(f, x)).fields = [n \in Shown |-> IF n \in Texts THEN Tidy(f[n]) ELSE f[n]]
  BY NormalFields, Zenon
<1>2. /\ Normal(Normal(c)) = Normal(c) /\ Normal(c) = Config(Normal(c).fields, x)
      /\ DOMAIN Normal(c).fields = Shown
      /\ Normal(c).fields = [n \in Shown |-> IF n \in Texts THEN Tidy(f[n]) ELSE f[n]]
  BY <1>1, Zenon
<1>. QED BY <1>2

\* The names, apart.
LEMMA Names ==
  /\ Shown = {"model", "cpus", "gpus", "hz", "compute", "revision", "scales", "policy", "spec",
              "output", "notify", "prune", "resume"}
  /\ Texts = {"model", "cpus", "gpus", "hz", "compute", "revision", "scales", "policy", "spec",
              "device", "notify"}
  /\ Declared = Shown \cup {"seed", "slo", "keep", "device"}
  /\ Optional = {"revision", "scales", "policy", "spec"}
  /\ Ignored = {"resume", "output", "notify"}
  /\ Said = {"model", "cpus", "gpus", "hz", "compute", "revision", "scales", "policy", "spec", "prune",
             "seed", "slo", "keep", "device"}
  BY DEF Shown, Texts, Declared, Optional, Ignored, Said, Required, Hidden

\* What a merge and a restriction give for each name.
LEMMA Merged ==
  ASSUME NEW f, NEW g
  PROVE  /\ DOMAIN Over(f, g) = DOMAIN f \cup DOMAIN g
         /\ \A n \in DOMAIN f : Over(f, g)[n] = f[n]
         /\ \A n \in DOMAIN g \ DOMAIN f : Over(f, g)[n] = g[n]
  BY DEF Over

LEMMA Parts ==
  ASSUME NEW f, NEW names
  PROVE  /\ DOMAIN Part(f, names) = DOMAIN f \cap names
         /\ \A n \in DOMAIN f \cap names : Part(f, names)[n] = f[n]
  BY DEF Part

\* The defaults of the parser and of a configuration, option by option.
LEMMA DefaultsAre ==
  /\ DOMAIN ParserDefaults = Declared
  /\ DOMAIN ConfigDefaults = Shown
  /\ \A n \in Shown : ConfigDefaults[n] =
        IF n \in Texts /\ ParserDefaults[n] = Absent THEN NoText ELSE ParserDefaults[n]
  /\ \A n \in {"model", "revision", "scales", "spec", "device"} : ParserDefaults[n] = Absent
  /\ ParserDefaults.policy = "auto" /\ ParserDefaults.cpus = "1,2" /\ ParserDefaults.gpus = "off,on"
  /\ ParserDefaults.hz = "20.0" /\ ParserDefaults.compute = "none" /\ ParserDefaults.notify = "auto"
  /\ ParserDefaults.output = <<"results", 0>> /\ ParserDefaults.prune = TRUE /\ ParserDefaults.resume = FALSE
  /\ ParserDefaults.slo = << >>
<1>. DEFINE a == [n \in Optional \cup {"model", "device"} |-> IF n = "policy" THEN "auto" ELSE Absent]
            b == [cpus |-> "1,2", gpus |-> "off,on", hz |-> "20.0", compute |-> "none", output |-> <<"results", 0>>,
                  notify |-> "auto", prune |-> TRUE, resume |-> FALSE, seed |-> 0, slo |-> << >>, keep |-> TRUE]
<1>1. ParserDefaults = Over(a, b)
  BY DEF ParserDefaults
<1>2. DOMAIN a = {"revision", "scales", "policy", "spec", "model", "device"}
  BY Names
<1>3. DOMAIN b = {"cpus", "gpus", "hz", "compute", "output", "notify", "prune", "resume", "seed", "slo", "keep"}
  OBVIOUS
<1>4. /\ b["cpus"] = "1,2" /\ b["gpus"] = "off,on" /\ b["hz"] = "20.0" /\ b["compute"] = "none"
      /\ b["notify"] = "auto" /\ b["output"] = <<"results", 0>> /\ b["prune"] = TRUE
      /\ b["resume"] = FALSE /\ b["slo"] = << >>
  OBVIOUS
<1>5. /\ \A n \in {"model", "revision", "scales", "spec", "device"} : a[n] = Absent
      /\ a["policy"] = "auto"
  BY Names
<1>. HIDE DEF a, b
<1>6. /\ DOMAIN ParserDefaults = DOMAIN a \cup DOMAIN b
      /\ \A n \in DOMAIN a : ParserDefaults[n] = a[n]
      /\ \A n \in DOMAIN b \ DOMAIN a : ParserDefaults[n] = b[n]
  BY <1>1 DEF Over
<1>7. DOMAIN ParserDefaults = Declared
  BY <1>2, <1>3, <1>6, Names
<1>8. /\ ParserDefaults.cpus = "1,2" /\ ParserDefaults.gpus = "off,on"
      /\ ParserDefaults.hz = "20.0" /\ ParserDefaults.compute = "none" /\ ParserDefaults.notify = "auto"
      /\ ParserDefaults.output = <<"results", 0>> /\ ParserDefaults.prune = TRUE /\ ParserDefaults.resume = FALSE
      /\ ParserDefaults.slo = << >>
  BY <1>2, <1>3, <1>4, <1>6
<1>9. /\ \A n \in {"model", "revision", "scales", "spec", "device"} : ParserDefaults[n] = Absent
      /\ ParserDefaults.policy = "auto"
  BY <1>2, <1>5, <1>6
<1>10. /\ DOMAIN ConfigDefaults = Shown
       /\ \A n \in Shown : ConfigDefaults[n] =
             IF n \in Texts /\ ParserDefaults[n] = Absent THEN NoText ELSE ParserDefaults[n]
  BY DEF ConfigDefaults
<1>. QED BY <1>7, <1>8, <1>9, <1>10

\* What the parser, a configuration and the run make of what is given.
LEMMA ParsedIs ==
  ASSUME NEW g
  PROVE  /\ DOMAIN ParsedArgs(g) = Declared
         /\ \A n \in Declared : ParsedArgs(g)[n] = IF n \in DOMAIN g THEN g[n] ELSE ParserDefaults[n]
  BY DefaultsAre DEF ParsedArgs, Part, Over

LEMMA FromIs ==
  ASSUME NEW g, Declared \subseteq DOMAIN g
  PROVE  /\ DOMAIN FromNamespace(g) = Shown
         /\ \A n \in Shown : FromNamespace(g)[n] =
               IF n \in Texts /\ g[n] = Absent THEN ConfigDefaults[n] ELSE g[n]
  BY DEF FromNamespace, Declared

LEMMA SettledIs ==
  ASSUME NEW g, Declared \subseteq DOMAIN g
  PROVE  /\ DOMAIN Settled(g) = DOMAIN g
         /\ \A n \in Shown : Settled(g)[n] =
               IF n \in Texts THEN Tidy(IF g[n] = Absent THEN ConfigDefaults[n] ELSE g[n]) ELSE g[n]
         /\ \A n \in DOMAIN g \ Shown : Settled(g)[n] = g[n]
<1>. DEFINE F == Normal(Config(FromNamespace(g), Bare)).fields
<1>1. /\ DOMAIN F = Shown
      /\ \A n \in Shown : F[n] = IF n \in Texts THEN Tidy(FromNamespace(g)[n]) ELSE FromNamespace(g)[n]
  <2>1. /\ DOMAIN F = Shown
        /\ F = [n \in Shown |-> IF n \in Texts THEN Tidy(FromNamespace(g)[n]) ELSE FromNamespace(g)[n]]
    BY NormalFields, Zenon
  <2>. QED BY <2>1
<1>2. Settled(g) = Over(F, g)
  BY DEF Settled
<1>. HIDE DEF F
<1>3. /\ DOMAIN Settled(g) = Shown \cup DOMAIN g
      /\ \A n \in Shown : Settled(g)[n] = F[n]
      /\ \A n \in DOMAIN g \ Shown : Settled(g)[n] = g[n]
  BY <1>1, <1>2 DEF Over
<1>. QED BY <1>1, <1>3, FromIs DEF Declared

\* Arguments are left out only where leaving them out says the same.
LEMMA ArgumentsAre ==
  ASSUME NEW o
  PROVE  /\ DOMAIN Arguments(o) \subseteq DOMAIN o
         /\ \A n \in DOMAIN Arguments(o) : Arguments(o)[n] = o[n]
         /\ \A n \in DOMAIN o \ DOMAIN Arguments(o) :
               (n = "slo" /\ o[n] = << >>) \/ (n \in Texts /\ o[n] = Absent) \/ n = "resume"
  BY DEF Arguments

\* What the parser reads in the command of a configuration.
LEMMA BuiltIs ==
  ASSUME NEW c, c = Config(c.fields, c.extra), Serializable(c.extra), DOMAIN c.extra \cap Shown = {},
         c.fields.policy # NoText, c.fields.prune \in BOOLEAN, c.fields.resume \in BOOLEAN
  PROVE  /\ DOMAIN BuildCommand(c) \subseteq Declared
         /\ \A n \in Shown : ParsedArgs(BuildCommand(c))[n] =
               IF n \in {"revision", "scales", "spec"} /\ Normal(c).fields[n] = NoText
               THEN Absent ELSE Normal(c).fields[n]
         /\ \A n \in Hidden : ParsedArgs(BuildCommand(c))[n] =
               IF n \in DOMAIN c.extra THEN c.extra[n] ELSE ParserDefaults[n]
<1>. DEFINE N == Normal(c).fields
            A == Arguments(c.extra)
            B == BuildCommand(c)
<1>1. DOMAIN N = Shown /\ \A n \in Shown : N[n] = IF n \in Texts THEN Tidy(c.fields[n]) ELSE c.fields[n]
  BY NormalOf
<1>2. B = Over(Part(N, Shown \ Omitted(N)), A)
  BY DEF BuildCommand
<1>3. DOMAIN A \subseteq Hidden /\ DOMAIN c.extra \subseteq Hidden
  BY ArgumentsAre DEF Serializable, Declared
<1>4. N.policy # NoText /\ N.prune \in BOOLEAN /\ N.resume \in BOOLEAN
  <2>. HIDE DEF N
  <2>1. N.policy = Tidy(c.fields.policy) /\ N.prune = c.fields.prune /\ N.resume = c.fields.resume
    BY <1>1, Names
  <2>. QED BY <2>1, TidyTwice
<1>5. /\ Omitted(N) \subseteq {"revision", "scales", "spec", "prune", "resume"}
      /\ \A n \in {"revision", "scales", "spec"} : n \in Omitted(N) <=> N[n] = NoText
      /\ "prune" \in Omitted(N) <=> N.prune = TRUE
      /\ "resume" \in Omitted(N) <=> N.resume = FALSE
  BY <1>4 DEF Omitted, Optional
<1>. HIDE DEF N, A, B
<1>6. Shown \cap Hidden = {}
  BY Names DEF Hidden
<1>7. /\ DOMAIN B = (Shown \ Omitted(N)) \cup DOMAIN A
      /\ \A n \in Shown \ Omitted(N) : B[n] = N[n]
      /\ \A n \in DOMAIN A : B[n] = A[n]
  BY <1>1, <1>2, <1>3, <1>6 DEF Over, Part
<1>8. DOMAIN B \subseteq Declared
  BY <1>3, <1>7 DEF Declared
<1>9. ASSUME NEW n \in Shown
      PROVE  ParsedArgs(B)[n] = IF n \in {"revision", "scales", "spec"} /\ N[n] = NoText THEN Absent ELSE N[n]
  <2>1. ParsedArgs(B)[n] = IF n \in Omitted(N) THEN ParserDefaults[n] ELSE N[n]
    BY <1>3, <1>6, <1>7, ParsedIs DEF Declared
  <2>2. CASE n \in {"revision", "scales", "spec"}
    BY <2>1, <2>2, <1>5, DefaultsAre
  <2>3. CASE n = "prune"
    BY <2>1, <2>3, <1>4, <1>5, DefaultsAre
  <2>4. CASE n = "resume"
    BY <2>1, <2>4, <1>4, <1>5, DefaultsAre
  <2>5. CASE n \notin {"revision", "scales", "spec", "prune", "resume"}
    BY <2>1, <2>5, <1>5
  <2>. QED BY <2>2, <2>3, <2>4, <2>5
<1>10. ASSUME NEW n \in Hidden
       PROVE  ParsedArgs(B)[n] = IF n \in DOMAIN c.extra THEN c.extra[n] ELSE ParserDefaults[n]
  <2>1. ParsedArgs(B)[n] = IF n \in DOMAIN A THEN A[n] ELSE ParserDefaults[n]
    BY <1>6, <1>7, ParsedIs DEF Declared
  <2>2. /\ n \in DOMAIN A => A[n] = c.extra[n] /\ n \in DOMAIN c.extra
        /\ n \in DOMAIN c.extra /\ n \notin DOMAIN A => c.extra[n] = ParserDefaults[n]
    <3>1. /\ DOMAIN A \subseteq DOMAIN c.extra
          /\ \A m \in DOMAIN A : A[m] = c.extra[m]
          /\ \A m \in DOMAIN c.extra \ DOMAIN A :
               (m = "slo" /\ c.extra[m] = << >>) \/ (m \in Texts /\ c.extra[m] = Absent) \/ m = "resume"
      BY ArgumentsAre, Zenon DEF A
    <3>2. n \in Texts => n = "device"
      BY Names DEF Hidden
    <3>3. n # "resume"
      BY DEF Hidden
    <3>. QED BY <3>1, <3>2, <3>3, DefaultsAre
  <2>. QED BY <2>1, <2>2
<1>. QED BY <1>8, <1>9, <1>10 DEF N, B

\* What the frozen options o hold of the settings S on the device dev.
FrozenAs(o, S, dev) ==
    /\ DOMAIN o \cap Ignored = {}
    /\ \A n \in DOMAIN o \ {"spec", "device", "spec_sha256"} : n \in DOMAIN S /\ o[n] = S[n]
    /\ \A n \in DOMAIN S \ (Ignored \cup {"policy", "spec", "device"}) : n \in DOMAIN o
    /\ "policy" \notin DOMAIN o => S.policy = "auto"
    /\ "spec" \in DOMAIN o <=> S.spec # NoText
    /\ "spec" \in DOMAIN o => o.spec = AbsolutePath(S.spec)
    /\ "device" \in DOMAIN o <=> ~(S.device = Absent /\ dev = Absent)
    /\ "device" \in DOMAIN o => o.device = IF dev = Absent THEN S.device ELSE dev

LEMMA FrozenIs ==
  ASSUME NEW S, Declared \subseteq DOMAIN S, NEW dev, NEW d
  PROVE  FrozenAs(FrozenAt(S, dev, d), S, dev)
<1>. DEFINE o == FrozenAt(S, dev, d)
<1>. DEFINE unset == {n \in {"policy"} : S.policy = "auto"} \cup {n \in {"spec"} : S.spec = NoText}
                     \cup {n \in {"device"} : S.device = Absent /\ dev = Absent}
            specs == IF S.spec = NoText THEN Bare ELSE [spec |-> AbsolutePath(S.spec), spec_sha256 |-> d]
            gpu == IF dev = Absent THEN Bare ELSE [device |-> dev]
            P == Part(S, DOMAIN S \ (Ignored \cup unset))
<1>1. o = Over(specs, Over(gpu, P))
  BY DEF FrozenAt
<1>2. /\ DOMAIN P = DOMAIN S \ (Ignored \cup unset)
      /\ \A n \in DOMAIN P : P[n] = S[n]
  BY DEF Part
<1>3. /\ DOMAIN gpu = IF dev = Absent THEN {} ELSE {"device"}
      /\ dev # Absent => gpu["device"] = dev
  BY DEF Bare
<1>4. /\ DOMAIN specs = IF S.spec = NoText THEN {} ELSE {"spec", "spec_sha256"}
      /\ S.spec # NoText => specs["spec"] = AbsolutePath(S.spec)
  <2>1. CASE S.spec = NoText
    <3>1. specs = Bare
      BY <2>1
    <3>. HIDE DEF specs
    <3>. QED BY <3>1, <2>1 DEF Bare
  <2>2. CASE S.spec # NoText
    <3>1. specs = [spec |-> AbsolutePath(S.spec), spec_sha256 |-> d]
      BY <2>2
    <3>. HIDE DEF specs
    <3>. QED BY <3>1, <2>2
  <2>. QED BY <2>1, <2>2
<1>5. \A n : n \in unset <=> \/ n = "policy" /\ S.policy = "auto"
                             \/ n = "spec" /\ S.spec = NoText
                             \/ n = "device" /\ S.device = Absent /\ dev = Absent
  BY Zenon
<1>. HIDE DEF unset, specs, gpu, P, o
<1>6. /\ DOMAIN o = DOMAIN specs \cup DOMAIN gpu \cup DOMAIN P
      /\ \A n \in DOMAIN specs : o[n] = specs[n]
      /\ \A n \in DOMAIN gpu \ DOMAIN specs : o[n] = gpu[n]
      /\ \A n \in DOMAIN P \ (DOMAIN specs \cup DOMAIN gpu) : o[n] = P[n]
  BY <1>1 DEF Over
<1>7. {"policy", "spec", "device"} \subseteq DOMAIN S /\ {"policy", "spec", "device"} \cap Ignored = {}
  BY Names
<1>8. \A n \in DOMAIN o \ {"spec", "device", "spec_sha256"} : n \in DOMAIN S /\ o[n] = S[n]
  BY <1>2, <1>3, <1>4, <1>6
<1>9. \A n \in DOMAIN S \ (Ignored \cup {"policy", "spec", "device"}) : n \in DOMAIN o
  BY <1>2, <1>5, <1>6
<1>10. "policy" \notin DOMAIN o => S.policy = "auto"
  BY <1>2, <1>5, <1>6, <1>7
<1>11. /\ "spec" \in DOMAIN o <=> S.spec # NoText
       /\ "spec" \in DOMAIN o => o.spec = AbsolutePath(S.spec)
  <2>1. "spec" \in DOMAIN P => S.spec # NoText
    BY <1>2, <1>5, <1>7
  <2>2. "spec" \notin DOMAIN gpu
    BY <1>3
  <2>3. "spec" \in DOMAIN specs <=> S.spec # NoText
    BY <1>4
  <2>. QED BY <2>1, <2>2, <2>3, <1>4, <1>6
<1>12. /\ "device" \in DOMAIN o <=> ~(S.device = Absent /\ dev = Absent)
       /\ "device" \in DOMAIN o => o.device = IF dev = Absent THEN S.device ELSE dev
  BY <1>2, <1>3, <1>4, <1>5, <1>6, <1>7
<1>13. DOMAIN o \cap Ignored = {}
  BY <1>2, <1>3, <1>4, <1>6, Names
<1>14. FrozenAs(o, S, dev)
  BY <1>8, <1>9, <1>10, <1>11, <1>12, <1>13 DEF FrozenAs
<1>. QED BY <1>14 DEF o

\* And what they state, with the defaults of what they leave out.
StatedAs(o, S, dev) ==
    /\ \A n \in Said \ {"spec", "device"} : Stated(o, n) = S[n]
    /\ Stated(o, "spec") = AbsolutePath(S.spec)
    /\ Stated(o, "device") = IF dev = Absent THEN S.device ELSE dev

LEMMA StatedIs ==
  ASSUME NEW S, Declared \subseteq DOMAIN S, NEW dev, NEW o, FrozenAs(o, S, dev)
  PROVE  StatedAs(o, S, dev)
<1>1. /\ \A n \in Said \ {"spec", "device", "policy"} : n \in DOMAIN o /\ o[n] = S[n]
      /\ Stated(o, "policy") = S.policy
  <2>1. \A n \in Said \ {"spec", "device", "policy"} : n \in DOMAIN o
    BY DEF FrozenAs, Said
  <2>2. \A n \in DOMAIN o \ {"spec", "device", "spec_sha256"} : o[n] = S[n]
    BY DEF FrozenAs
  <2>3. "spec_sha256" \notin Said
    BY Names
  <2>4. "policy" \notin DOMAIN o => S.policy = "auto"
    BY DEF FrozenAs
  <2>5. ConfigDefaults.policy = "auto" /\ "policy" \in Shown
    BY DefaultsAre, Names DEF Absent
  <2>. QED BY <2>1, <2>2, <2>3, <2>4, <2>5 DEF Stated
<1>2. Stated(o, "spec") = AbsolutePath(S.spec)
  <2>1. ConfigDefaults.spec = NoText /\ "spec" \in Shown
    BY DefaultsAre, Names
  <2>2. AbsolutePath(NoText) = NoText
    BY NoTexts DEF AbsolutePath
  <2>. QED BY <2>1, <2>2 DEF Stated, FrozenAs
<1>3. Stated(o, "device") = IF dev = Absent THEN S.device ELSE dev
  <2>1. ParserDefaults.device = Absent /\ "device" \notin Shown
    BY DefaultsAre, Names
  <2>. QED BY <2>1 DEF Stated, FrozenAs
<1>. QED BY <1>1, <1>2, <1>3 DEF Stated, StatedAs

\* A configuration that says the settings agrees with what they freeze.
LEMMA SaysAgrees ==
  ASSUME NEW c, NEW S, Declared \subseteq DOMAIN S, NEW d, Says(c, S)
  PROVE  Agree(c, FrozenAt(S, Pinned(S), d), Said)
<1>. DEFINE o == FrozenAt(S, Pinned(S), d)
<1>1. StatedAs(o, S, Pinned(S))
  BY FrozenIs, StatedIs
<1>2. \A n \in Said : S[n] = Means(c, n)
  BY DEF Says
<1>3. S.gpus = "off" => Pinned(S) = Absent
  BY DEF Pinned
<1>. HIDE DEF o
<1>4. "gpus" \in Said \ {"spec", "device"} /\ "spec" \in Said /\ "device" \in Said
  BY Names
<1>5. Agree(c, o, Said)
  BY <1>1, <1>2, <1>3, <1>4 DEF Agree, StatedAs
<1>. QED BY <1>5 DEF o

\* A configuration is its fields and the rest, in order before and after.
LEMMA ConfigParts ==
  ASSUME NEW k, NEW c, ConfigOK(c, k)
  PROVE  /\ c = Config(c.fields, c.extra) /\ FieldsOK(c.fields, k)
         /\ Normal(Normal(c)) = Normal(c)
         /\ Normal(c) = Config(Normal(c).fields, c.extra)
         /\ Normal(c).extra = c.extra
         /\ DOMAIN Normal(c).fields = Shown
         /\ \A n \in Shown : Normal(c).fields[n] = IF n \in Texts THEN Tidy(c.fields[n]) ELSE c.fields[n]
         /\ Normal(c).fields.model = c.fields.model /\ Normal(c).fields.output = c.fields.output
         /\ Normal(c).fields.prune = c.fields.prune /\ Normal(c).fields.resume = c.fields.resume
<1>1. c = Config(c.fields, c.extra) /\ FieldsOK(c.fields, k)
  BY DEF ConfigOK
<1>2. /\ Normal(Normal(c)) = Normal(c)
      /\ Normal(c) = Config(Normal(c).fields, c.extra)
      /\ DOMAIN Normal(c).fields = Shown
      /\ \A n \in Shown : Normal(c).fields[n] = IF n \in Texts THEN Tidy(c.fields[n]) ELSE c.fields[n]
  BY <1>1, NormalOf
<1>3. Normal(c).extra = c.extra
  BY <1>2 DEF Config
<1>4. Tidy(c.fields.model) = c.fields.model
  BY <1>1 DEF FieldsOK
<1>5. /\ {"model", "output", "prune", "resume"} \subseteq Shown
      /\ "model" \in Texts /\ {"output", "prune", "resume"} \cap Texts = {}
  BY Names
<1>. QED BY <1>1, <1>2, <1>3, <1>4, <1>5

\* Putting a configuration in order changes nothing it means.
LEMMA NormalOK ==
  ASSUME NEW k, NEW c, ConfigOK(c, k)
  PROVE  /\ ConfigOK(Normal(c), k)
         /\ \A d : ValidAt(c, d) <=> ValidAt(Normal(c), d)
         /\ \A n : Means(Normal(c), n) = Means(c, n)
         /\ BuildCommand(Normal(c)) = BuildCommand(c)
         /\ Place(Normal(c).fields) = Place(c.fields)
<1>. DEFINE N == Normal(c).fields
<1>1. /\ c = Config(c.fields, c.extra) /\ FieldsOK(c.fields, k)
      /\ Normal(Normal(c)) = Normal(c) /\ Normal(c) = Config(N, c.extra) /\ Normal(c).extra = c.extra
      /\ DOMAIN N = Shown
      /\ \A n \in Shown : N[n] = IF n \in Texts THEN Tidy(c.fields[n]) ELSE c.fields[n]
      /\ N.model = c.fields.model /\ N.output = c.fields.output
      /\ N.prune = c.fields.prune /\ N.resume = c.fields.resume
  BY ConfigParts, Zenon
<1>2. N = [n \in Shown |-> N[n]]
  <2>1. Normal(Config(c.fields, c.extra)).fields =
          [n \in Shown |-> IF n \in Texts THEN Tidy(c.fields[n]) ELSE c.fields[n]]
    BY NormalFields, Zenon
  <2>2. N = [n \in Shown |-> IF n \in Texts THEN Tidy(c.fields[n]) ELSE c.fields[n]]
    BY <2>1, <1>1, Zenon
  <2>. HIDE DEF N
  <2>. QED BY <2>2, <1>1
<1>. HIDE DEF N
<1>3. {"cpus", "compute", "spec", "policy", "model"} \subseteq Shown \cap Texts
  BY Names
<1>4. FieldsOK(N, k)
  <2>1. \A n \in Texts \cap Shown : N[n] # Absent
    BY <1>1, TidyTwice DEF FieldsOK
  <2>2. N.policy # NoText
    BY <1>1, <1>3, TidyTwice DEF FieldsOK
  <2>. QED BY <1>1, <1>2, <2>1, <2>2 DEF FieldsOK
<1>5. ConfigOK(Normal(c), k)
  BY <1>1, <1>4 DEF ConfigOK, N
<1>6. \A d : ValidAt(c, d) <=> ValidAt(Normal(c), d)
  <2>1. /\ N.cpus # "0" <=> c.fields.cpus # "0"
        /\ N.compute \in {"none", "both"} <=> c.fields.compute \in {"none", "both"}
        /\ N.spec # NoText <=> c.fields.spec # NoText
    BY <1>1, <1>3, TidyTwice
  <2>2. Normal(c).fields = N
    BY DEF N
  <2>. QED BY <1>1, <2>1, <2>2 DEF ValidAt, Sound
<1>7. \A n : Means(Normal(c), n) = Means(c, n)
  BY <1>1 DEF Means
<1>8. BuildCommand(Normal(c)) = BuildCommand(c)
  BY <1>1 DEF BuildCommand
<1>9. Place(Normal(c).fields) = Place(c.fields)
  BY <1>1 DEF Place, N
<1>. QED BY <1>5, <1>6, <1>7, <1>8, <1>9

\* What a valid configuration says reaches the options of the run it starts.
LEMMA BuiltSays ==
  ASSUME NEW k, NEW c, ConfigOK(c, k), NEW d, ValidAt(c, d)
  PROVE  /\ ArgsOK(ParsedArgs(BuildCommand(c)), k)
         /\ "requested" \notin DOMAIN BuildCommand(c)
         /\ Place(ParsedArgs(BuildCommand(c))) = Place(c.fields)
         /\ ParsedArgs(BuildCommand(c)).resume = c.fields.resume
         /\ Says(c, Settled(ParsedArgs(BuildCommand(c))))
         /\ ValidAt(Config(FromNamespace(ParsedArgs(BuildCommand(c))), Bare), d)
<1>. DEFINE N == Normal(c).fields
            g == ParsedArgs(BuildCommand(c))
<1>1. /\ c = Config(c.fields, c.extra) /\ FieldsOK(c.fields, k)
      /\ \A n \in Shown : N[n] = IF n \in Texts THEN Tidy(c.fields[n]) ELSE c.fields[n]
      /\ N.model = c.fields.model /\ N.output = c.fields.output
      /\ N.prune = c.fields.prune /\ N.resume = c.fields.resume
  BY ConfigParts, Zenon
<1>2. /\ Serializable(c.extra) /\ DOMAIN c.extra \cap Shown = {} /\ Sound(c.fields)
      /\ c.fields.spec # NoText => d # "unreadable"
  BY DEF ValidAt
<1>3. c.fields.policy # NoText /\ c.fields.prune \in BOOLEAN /\ c.fields.resume \in BOOLEAN
  BY <1>1 DEF FieldsOK
<1>4. /\ DOMAIN BuildCommand(c) \subseteq Declared
      /\ \A n \in Shown : g[n] = IF n \in {"revision", "scales", "spec"} /\ N[n] = NoText THEN Absent ELSE N[n]
      /\ \A n \in Hidden : g[n] = IF n \in DOMAIN c.extra THEN c.extra[n] ELSE ParserDefaults[n]
  BY <1>1, <1>2, <1>3, BuiltIs
<1>5. DOMAIN g = Declared
  BY ParsedIs
<1>6. /\ \A n \in Shown : Settled(g)[n] =
            IF n \in Texts THEN Tidy(IF g[n] = Absent THEN ConfigDefaults[n] ELSE g[n]) ELSE g[n]
      /\ \A n \in Hidden : Settled(g)[n] = g[n]
  <2>1. Hidden \subseteq Declared \ Shown
    BY Names DEF Hidden
  <2>. QED BY <1>5, <2>1, SettledIs
<1>7. /\ \A n \in Shown : FromNamespace(g)[n] = IF n \in Texts /\ g[n] = Absent THEN ConfigDefaults[n] ELSE g[n]
  BY <1>5, FromIs
<1>. HIDE DEF N, g
<1>8. \A n \in Texts \cap Shown : N[n] # Absent
  BY <1>1, TidyTwice DEF FieldsOK
<1>9. \A n \in {"revision", "scales", "spec"} : n \in Texts /\ n \in Shown /\ ConfigDefaults[n] = NoText
  BY DefaultsAre, Names
<1>10. \A n \in Shown : FromNamespace(g)[n] = N[n]
  BY <1>4, <1>7, <1>8, <1>9, NoTexts
<1>11. \A n \in Shown : Settled(g)[n] = N[n]
  <2>1. \A n \in Shown : n \in Texts => Tidy(N[n]) = N[n]
    BY <1>1, TidyTwice
  <2>2. \A n \in Shown : Settled(g)[n] = IF n \in Texts THEN Tidy(FromNamespace(g)[n]) ELSE g[n]
    BY <1>6, <1>7
  <2>3. \A n \in Shown \ Texts : g[n] = N[n]
    BY <1>4, <1>9
  <2>. QED BY <1>10, <2>1, <2>2, <2>3
<1>12. Says(c, Settled(g))
  <2>1. \A n \in Shown : Means(c, n) = N[n]
    BY DEF Means, N
  <2>2. \A n \in Hidden : Settled(g)[n] = Means(c, n)
    <3>1. Hidden \cap Shown = {}
      BY Names DEF Hidden
    <3>. QED BY <3>1, <1>4, <1>6 DEF Means
  <2>3. Said \subseteq Shown \cup Hidden
    BY DEF Said, Declared
  <2>. QED BY <1>11, <2>1, <2>2, <2>3 DEF Says
<1>13. /\ {"policy", "prune", "resume", "output", "model", "cpus", "compute", "spec"} \subseteq Shown
       /\ {"policy", "prune", "resume", "output", "model"} \cap {"revision", "scales", "spec"} = {}
       /\ {"policy", "cpus", "compute", "spec", "model"} \subseteq Texts
  BY Names
<1>14. ArgsOK(g, k) /\ Place(g) = Place(c.fields) /\ g.resume = c.fields.resume
  <2>1. /\ g.policy = N.policy /\ g.prune = N.prune /\ g.resume = N.resume
        /\ g.output = N.output /\ g.model = N.model
    BY <1>4, <1>13
  <2>2. N.policy # NoText
    BY <1>1, <1>3, <1>13, TidyTwice
  <2>3. RootOK(c.fields.output, k) /\ Tidy(c.fields.model) = c.fields.model
    BY <1>1 DEF FieldsOK
  <2>. QED BY <1>1, <1>3, <2>1, <2>2, <2>3 DEF ArgsOK, Place
<1>15. ValidAt(Config(FromNamespace(g), Bare), d)
  <2>1. /\ FromNamespace(g).model = Tidy(c.fields.model) /\ FromNamespace(g).cpus = Tidy(c.fields.cpus)
        /\ FromNamespace(g).compute = Tidy(c.fields.compute) /\ FromNamespace(g).spec = Tidy(c.fields.spec)
    BY <1>1, <1>10, <1>13
  <2>2. Sound(FromNamespace(g)) /\ (FromNamespace(g).spec # NoText => d # "unreadable")
    BY <2>1, <1>2, TidyTwice DEF Sound
  <2>. QED BY <2>2 DEF ValidAt, Config, Serializable, Bare
<1>16. "requested" \notin Declared
  BY Names
<1>. QED BY <1>4, <1>12, <1>14, <1>15, <1>16 DEF g

\* Setting a field leaves a configuration.
LEMMA FieldSet ==
  ASSUME NEW c, c = Config(c.fields, c.extra), NEW n, NEW v
  PROVE  [c EXCEPT !.fields[n] = v] = Config([c.fields EXCEPT ![n] = v], c.extra)
<1>. DEFINE f == c.fields  x == c.extra
<1>1. c = [fields |-> f, extra |-> x]
  BY DEF Config
<1>2. f = c.fields /\ x = c.extra
  OBVIOUS
<1>. HIDE DEF f, x
<1>3. [c EXCEPT !.fields[n] = v] = [fields |-> [f EXCEPT ![n] = v], extra |-> x]
  BY <1>1
<1>. QED BY <1>2, <1>3 DEF Config

LEMMA AttemptIs ==
  ASSUME NEW c, c = Config(c.fields, c.extra), NEW r, NEW b
  PROVE  [c EXCEPT !.fields.output = r, !.fields.resume = b]
            = Config([c.fields EXCEPT !.output = r, !.resume = b], c.extra)
<1>. DEFINE f == c.fields  x == c.extra
<1>1. c = [fields |-> f, extra |-> x]
  BY DEF Config
<1>2. f = c.fields /\ x = c.extra
  OBVIOUS
<1>. HIDE DEF f, x
<1>. DEFINE g == [f EXCEPT !.output = r]  a == [c EXCEPT !.fields.output = r]
<1>3. a = [fields |-> g, extra |-> x]
  BY <1>1
<1>4. [f EXCEPT !.output = r, !.resume = b] = [g EXCEPT !.resume = b]
  OBVIOUS
<1>5. [c EXCEPT !.fields.output = r, !.fields.resume = b] = [a EXCEPT !.fields.resume = b]
  OBVIOUS
<1>. HIDE DEF a, g
<1>6. [a EXCEPT !.fields.resume = b] = [fields |-> [g EXCEPT !.resume = b], extra |-> x]
  BY <1>3
<1>7. [c EXCEPT !.fields.output = r, !.fields.resume = b]
        = [fields |-> [f EXCEPT !.output = r, !.resume = b], extra |-> x]
  BY <1>4, <1>5, <1>6
<1>. QED BY <1>2, <1>7 DEF Config

\* A text that is shown and read as it is written may be exchanged.
Exchangeable(n, v) ==
    n \in Texts \cap Shown /\ v # Absent /\ (n = "policy" => v # NoText) /\ (n = "model" => Tidy(v) = v)

\* A configuration with one text, and with another root, exchanged.
Reads(c, n, v) == [c EXCEPT !.fields[n] = v]
Rooted(c, r, b) == [c EXCEPT !.fields.output = r, !.fields.resume = b]

LEMMA WithText ==
  ASSUME NEW k, NEW c, ConfigOK(c, k), NEW n, NEW v, Exchangeable(n, v)
  PROVE  /\ ConfigOK(Reads(c, n, v), k)
         /\ Reads(c, n, v).extra = c.extra
         /\ DOMAIN Reads(c, n, v).fields = Shown
         /\ Reads(c, n, v).fields[n] = v
         /\ \A m \in Shown : m # n => Reads(c, n, v).fields[m] = c.fields[m]
<1>. DEFINE g == [c.fields EXCEPT ![n] = v]  r == Reads(c, n, v)
<1>1. r = Config(g, c.extra)
  BY FieldSet DEF ConfigOK, Reads
<1>2. DOMAIN c.fields = Shown /\ c.fields = [m \in Shown |-> c.fields[m]] /\ n \in Shown
  BY DEF ConfigOK, FieldsOK, Exchangeable
<1>3. /\ DOMAIN g = Shown /\ g = [m \in Shown |-> g[m]] /\ g[n] = v
      /\ \A m \in Shown : m # n => g[m] = c.fields[m]
  BY <1>2
<1>. HIDE DEF r, g
<1>4. r.fields = g /\ r.extra = c.extra
  BY <1>1 DEF Config
<1>5. FieldsOK(g, k)
  <2>1. /\ \A m \in Texts \cap Shown : g[m] # Absent
        /\ g.policy # NoText /\ Tidy(g.model) = g.model
    BY <1>3, Names DEF ConfigOK, FieldsOK, Exchangeable
  <2>2. n \notin {"prune", "resume", "output"} /\ {"prune", "resume", "output"} \subseteq Shown
    BY Names DEF Exchangeable
  <2>3. g.prune \in BOOLEAN /\ g.resume \in BOOLEAN /\ RootOK(g.output, k)
    BY <1>3, <2>2 DEF ConfigOK, FieldsOK
  <2>. QED BY <1>3, <2>1, <2>3 DEF FieldsOK
<1>6. ConfigOK(r, k)
  BY <1>1, <1>4, <1>5 DEF ConfigOK
<1>. QED BY <1>3, <1>4, <1>6 DEF r

RootedAs(a, c, r, b, k) ==
    /\ ConfigOK(a, k) /\ a.extra = c.extra /\ a.fields.output = r /\ a.fields.resume = b
    /\ \A m \in Shown \ {"output", "resume"} : a.fields[m] = c.fields[m]

LEMMA WithRoot ==
  ASSUME NEW k, NEW c, ConfigOK(c, k), NEW r, RootOK(r, k), NEW b \in BOOLEAN
  PROVE  RootedAs(Rooted(c, r, b), c, r, b, k)
<1>. DEFINE g == [c.fields EXCEPT !.output = r, !.resume = b]
            a == Rooted(c, r, b)
<1>1. a = Config(g, c.extra)
  BY AttemptIs DEF ConfigOK, Rooted
<1>2. DOMAIN c.fields = Shown /\ c.fields = [m \in Shown |-> c.fields[m]] /\ {"output", "resume"} \subseteq Shown
  BY Names DEF ConfigOK, FieldsOK
<1>3. /\ DOMAIN g = Shown /\ g = [m \in Shown |-> g[m]] /\ g.output = r /\ g.resume = b
      /\ \A m \in Shown \ {"output", "resume"} : g[m] = c.fields[m]
  BY <1>2
<1>. HIDE DEF a, g
<1>4. a.fields = g /\ a.extra = c.extra
  BY <1>1 DEF Config
<1>5. FieldsOK(g, k)
  <2>1. {"policy", "model", "prune"} \subseteq Shown \ {"output", "resume"}
        /\ Texts \cap Shown \subseteq Shown \ {"output", "resume"}
    BY Names
  <2>. QED BY <1>3, <2>1 DEF ConfigOK, FieldsOK
<1>6. ConfigOK(a, k)
  BY <1>1, <1>4, <1>5 DEF ConfigOK
<1>. QED BY <1>3, <1>4, <1>6 DEF a, RootedAs

\* What is read back from the record of an experiment.
RecordedAs(e, k) ==
    /\ ConfigOK(Recorded(e), k)
    /\ \A n \in Shown : Recorded(e).fields[n] = IF n \in DOMAIN e.options THEN e.options[n] ELSE ConfigDefaults[n]
    /\ DOMAIN Recorded(e).extra = DOMAIN e.options \ (Shown \cup Derived)
    /\ \A n \in DOMAIN e.options \ (Shown \cup Derived) : Recorded(e).extra[n] = e.options[n]

LEMMA RecordedIs ==
  ASSUME NEW k, NEW e, ExperimentOK(e, k)
  PROVE  RecordedAs(e, k)
<1>. DEFINE o == e.options
            F == FromNamespace(o)
            X == Part(o, DOMAIN o \ (Shown \cup Derived))
<1>1. Recorded(e) = Config(F, X)
  BY DEF Recorded
<1>2. OptionsOK(o, e.place[2])
  BY DEF ExperimentOK
<1>3. /\ DOMAIN F = Shown /\ F = [n \in Shown |-> F[n]]
      /\ \A n \in Shown : F[n] =
            IF n \notin DOMAIN o \/ (n \in Texts /\ o[n] = Absent) THEN ConfigDefaults[n] ELSE o[n]
  BY DEF FromNamespace
<1>4. /\ DOMAIN X = DOMAIN o \ (Shown \cup Derived)
      /\ \A n \in DOMAIN X : X[n] = o[n]
  BY DEF Part
<1>. HIDE DEF F, X, o
<1>5. \A n \in Shown : F[n] = IF n \in DOMAIN o THEN o[n] ELSE ConfigDefaults[n]
  BY <1>2, <1>3 DEF OptionsOK
<1>6. FieldsOK(F, k)
  <2>1. ConfigDefaults.policy # NoText /\ ConfigDefaults.output = <<"results", 0>>
        /\ ConfigDefaults.prune = TRUE /\ ConfigDefaults.resume = FALSE
        /\ \A n \in Texts \cap Shown : ConfigDefaults[n] # Absent
    <3>1. {"policy", "output", "prune", "resume"} \subseteq Shown /\ {"output", "prune", "resume"} \cap Texts = {}
      BY Names
    <3>2. \A n \in Texts \cap Shown : ConfigDefaults[n] # Absent
      BY DefaultsAre, NoTexts
    <3>3. ConfigDefaults.policy # NoText
      BY <3>1, DefaultsAre, NoTexts
    <3>. QED BY <3>1, <3>2, <3>3, DefaultsAre
  <2>2. F.policy # NoText /\ F.prune \in BOOLEAN /\ F.resume \in BOOLEAN
    BY <1>2, <1>5, <2>1, Names DEF OptionsOK
  <2>3. RootOK(F.output, k)
    <3>1. "output" \in Shown /\ "output" \notin DOMAIN o
      BY <1>2, Names DEF OptionsOK
    <3>2. F.output = <<"results", 0>>
      BY <1>5, <3>1, <2>1
    <3>. QED BY <3>2 DEF RootOK
  <2>4. Tidy(F.model) = F.model
    BY <1>2, <1>5, Names DEF OptionsOK
  <2>5. \A n \in Texts \cap Shown : F[n] # Absent
    BY <1>2, <1>5, <2>1 DEF OptionsOK
  <2>. QED BY <1>3, <2>2, <2>3, <2>4, <2>5 DEF FieldsOK
<1>7. Recorded(e).fields = F /\ Recorded(e).extra = X
  BY <1>1 DEF Config
<1>8. ConfigOK(Recorded(e), k)
  BY <1>1, <1>6, <1>7 DEF ConfigOK
<1>. QED BY <1>4, <1>5, <1>7, <1>8 DEF RecordedAs, o

\* What a form says that is filled in with a configuration.
LEMMA FormSays ==
  ASSUME NEW k, NEW c, ConfigOK(c, k)
  PROVE  /\ ConfigOK(FormOf(c), k) /\ FormOf(c).extra = c.extra
         /\ \A n \in Shown : Tidy(FormOf(c).fields[n]) = Tidy(c.fields[n])
         /\ \A n \in Shown : n # "hz" => FormOf(c).fields[n] = c.fields[n]
<1>. DEFINE f == c.fields  x == c.extra  g == [n \in Shown |-> Displayed(n, c.fields[n])]
<1>1. c = [fields |-> f, extra |-> x] /\ FormOf(c) = [c EXCEPT !.fields = g]
  BY DEF Config, ConfigOK, FormOf
<1>2. \A n \in Shown : g[n] = Displayed(n, c.fields[n])
  OBVIOUS
<1>3. DOMAIN g = Shown /\ g = [n \in Shown |-> g[n]]
  BY <1>2
<1>4. FieldsOK(f, k) /\ c.fields = f /\ c.extra = x
  BY DEF ConfigOK
<1>. HIDE DEF f, x, g
<1>5. FormOf(c) = [fields |-> g, extra |-> x]
  BY <1>1
<1>6. \A n \in Shown : n # "hz" => g[n] = f[n]
  BY <1>2, <1>4 DEF Displayed
<1>7. \A n \in Shown : Tidy(g[n]) = Tidy(f[n]) /\ (g[n] = Absent => f[n] = Absent)
  BY <1>2, <1>4, NoTexts DEF Displayed, Tidy
<1>8. FieldsOK(g, k)
  BY <1>3, <1>4, <1>6, <1>7, Names DEF FieldsOK
<1>9. FormOf(c).fields = g /\ FormOf(c).extra = x
  BY <1>5
<1>. QED BY <1>4, <1>5, <1>6, <1>7, <1>8, <1>9 DEF ConfigOK, Config

\* Defaults are written as they are read.
LEMMA DefaultsTidy ==
  \A n \in Texts \cap Shown : Tidy(ConfigDefaults[n]) = ConfigDefaults[n] /\ ConfigDefaults[n] # Absent
<1>1. \A v \in {Absent, NoText, "auto", "1,2", "off,on", "20.0", "none"} : Tidy(v) = v
  BY NoTexts DEF Tidy
<1>2. \A n \in Texts \cap Shown : ParserDefaults[n] \in {Absent, "auto", "1,2", "off,on", "20.0", "none"}
  BY DefaultsAre, Names
<1>3. \A n \in Texts \cap Shown : ConfigDefaults[n] = IF ParserDefaults[n] = Absent THEN NoText ELSE ParserDefaults[n]
  BY DefaultsAre
<1>4. \A v \in {"auto", "1,2", "off,on", "20.0", "none"} : v # Absent
  BY NoTexts
<1>5. \A n \in Texts \cap Shown : ConfigDefaults[n] \in {NoText, "auto", "1,2", "off,on", "20.0", "none"}
  BY <1>2, <1>3
<1>. QED BY <1>1, <1>4, <1>5, NoTexts

\* c has the fields and the hidden options of the record of e.
ReadsAs(c, e, names) ==
    /\ c.extra = Recorded(e).extra
    /\ \A m \in names \cap Shown : /\ m \in Texts => Tidy(c.fields[m]) = Tidy(Recorded(e).fields[m])
                                   /\ m \notin Texts => c.fields[m] = Recorded(e).fields[m]
MeansAs(c, e, names) == \A n \in names : Means(c, n) = Stated(e.options, n)

\* A configuration that reads as a record does means what the record states.
LEMMA RecordedMeans ==
  ASSUME NEW k, NEW e, ExperimentOK(e, k), NEW c, ConfigOK(c, k),
         NEW names \in SUBSET Said, ReadsAs(c, e, names)
  PROVE  MeansAs(c, e, names)
<1>. DEFINE o == e.options
<1>1. RecordedAs(e, k)
  BY RecordedIs
<1>2. OptionsOK(o, e.place[2])
  BY DEF ExperimentOK
<1>3. \A n \in Shown : Means(c, n) = IF n \in Texts THEN Tidy(c.fields[n]) ELSE c.fields[n]
  BY ConfigParts DEF Means
<1>4. \A n \in Shown : Recorded(e).fields[n] = IF n \in DOMAIN o THEN o[n] ELSE ConfigDefaults[n]
  BY <1>1 DEF RecordedAs
<1>. HIDE DEF o
<1>5. ASSUME NEW n \in names \cap Shown
      PROVE  Means(c, n) = Stated(o, n)
  <2>1. Stated(o, n) = Recorded(e).fields[n]
    BY <1>4 DEF Stated
  <2>2. CASE n \in Texts
    <3>1. Means(c, n) = Tidy(Recorded(e).fields[n])
      BY <1>3, <2>2 DEF ReadsAs
    <3>2. n \in DOMAIN o => Tidy(o[n]) = o[n]
      BY <1>2, <2>2 DEF OptionsOK
    <3>. QED BY <2>1, <2>2, <3>1, <3>2, <1>4, DefaultsTidy
  <2>3. CASE n \notin Texts
    BY <2>1, <2>3, <1>3 DEF ReadsAs
  <2>. QED BY <2>2, <2>3
<1>6. ASSUME NEW n \in names \ Shown
      PROVE  Means(c, n) = Stated(o, n)
  <2>1. n \notin Shown /\ n \notin Derived
    BY Names DEF Derived
  <2>3. n \in DOMAIN Recorded(e).extra <=> n \in DOMAIN o
    BY <1>1, <2>1 DEF RecordedAs, o
  <2>4. n \in DOMAIN o => Recorded(e).extra[n] = o[n]
    BY <1>1, <2>1 DEF RecordedAs, o
  <2>. QED BY <2>1, <2>3, <2>4 DEF Means, Stated, ReadsAs
<1>. QED BY <1>5, <1>6 DEF o, MeansAs

\* The declaration is frozen with its whole path.
LEMMA StatedPath ==
  ASSUME NEW k, NEW e, ExperimentOK(e, k)
  PROVE  AbsolutePath(Stated(e.options, "spec")) = Stated(e.options, "spec")
<1>1. "spec" \in DOMAIN e.options => AbsolutePath(e.options.spec) = e.options.spec
  BY DEF ExperimentOK, OptionsOK
<1>2. "spec" \in Shown /\ ConfigDefaults["spec"] = NoText /\ AbsolutePath(NoText) = NoText
  BY DefaultsAre, Names, NoTexts DEF AbsolutePath
<1>. QED BY <1>1, <1>2 DEF Stated

\* A form filled in from a record says what is frozen there, whatever the
\* revision, the root and whether it resumes.
LEMMA ReuseAgrees ==
  ASSUME NEW k, NEW e, ExperimentOK(e, k), NEW c, ConfigOK(c, k),
         c.extra = Recorded(e).extra,
         \A m \in Shown \ {"revision", "output", "resume"} : c.fields[m] = Recorded(e).fields[m]
  PROVE  Agree(FormOf(c), e.options, Said \ {"revision"})
<1>1. /\ ConfigOK(FormOf(c), k) /\ FormOf(c).extra = c.extra
      /\ \A n \in Shown : Tidy(FormOf(c).fields[n]) = Tidy(c.fields[n])
      /\ \A n \in Shown : n # "hz" => FormOf(c).fields[n] = c.fields[n]
  BY FormSays
<1>2. "hz" \in Texts /\ Said \cap {"output", "resume"} = {}
  BY Names
<1>3. \A n \in Said \ {"revision"} : Means(FormOf(c), n) = Stated(e.options, n)
  <2>1. ReadsAs(FormOf(c), e, Said \ {"revision"})
    BY <1>1, <1>2 DEF ReadsAs
  <2>2. Said \ {"revision"} \in SUBSET Said
    OBVIOUS
  <2>. QED BY <2>1, <2>2, <1>1, RecordedMeans DEF MeansAs
<1>. QED BY <1>3, StatedPath DEF Agree

\* The options frozen by a run are those of the next one whose arguments mean
\* the same.
LEMMA FrozenSame ==
  ASSUME NEW S, NEW T, DOMAIN S = Declared, DOMAIN T = Declared, \A n \in Said : S[n] = T[n], NEW dev, NEW d
  PROVE  /\ FrozenAt(S, dev, d) = FrozenAt(T, dev, d) /\ Pinned(S) = Pinned(T)
<1>. DEFINE us(X) == {n \in {"policy"} : X.policy = "auto"} \cup {n \in {"spec"} : X.spec = NoText}
                     \cup {n \in {"device"} : X.device = Absent /\ dev = Absent}
            P(X) == Part(X, DOMAIN X \ (Ignored \cup us(X)))
            gpu == IF dev = Absent THEN Bare ELSE [device |-> dev]
            specs(X) == IF X.spec = NoText THEN Bare ELSE [spec |-> AbsolutePath(X.spec), spec_sha256 |-> d]
<1>1. S.policy = T.policy /\ S.spec = T.spec /\ S.device = T.device /\ S.gpus = T.gpus
  BY Names
<1>2. us(S) = us(T) /\ specs(S) = specs(T)
  BY <1>1, Zenon
<1>3. P(S) = P(T)
  <2>. HIDE DEF us
  <2>1. Declared \ (Ignored \cup us(S)) \subseteq Said
    BY DEF Said
  <2>2. [n \in Declared \ (Ignored \cup us(S)) |-> S[n]] = [n \in Declared \ (Ignored \cup us(S)) |-> T[n]]
    BY <2>1
  <2>3. P(S) = [n \in Declared \ (Ignored \cup us(S)) |-> S[n]]
    <3>1. DOMAIN S \cap (DOMAIN S \ (Ignored \cup us(S))) = Declared \ (Ignored \cup us(S))
      OBVIOUS
    <3>. QED BY <3>1 DEF Part
  <2>4. P(T) = [n \in Declared \ (Ignored \cup us(S)) |-> T[n]]
    <3>1. DOMAIN T \cap (DOMAIN T \ (Ignored \cup us(T))) = Declared \ (Ignored \cup us(S))
      BY <1>2
    <3>. QED BY <3>1 DEF Part
  <2>. QED BY <2>2, <2>3, <2>4
<1>4. FrozenAt(S, dev, d) = Over(specs(S), Over(gpu, P(S))) /\ FrozenAt(T, dev, d) = Over(specs(T), Over(gpu, P(T)))
  BY DEF FrozenAt
<1>. HIDE DEF us, P, gpu, specs
<1>. QED BY <1>1, <1>2, <1>3, <1>4 DEF Pinned

\* Nor does it matter whether the GPU was pinned before.
LEMMA FrozenPinned ==
  ASSUME NEW S, DOMAIN S = Declared, S.device = "GPU-1", NEW d
  PROVE  FrozenAt(S, Absent, d) = FrozenAt(S, "GPU-1", d)
<1>. DEFINE us(dev) == {n \in {"policy"} : S.policy = "auto"} \cup {n \in {"spec"} : S.spec = NoText}
                     \cup {n \in {"device"} : S.device = Absent /\ dev = Absent}
            P(dev) == Part(S, DOMAIN S \ (Ignored \cup us(dev)))
            specs == IF S.spec = NoText THEN Bare ELSE [spec |-> AbsolutePath(S.spec), spec_sha256 |-> d]
<1>1. "GPU-1" # Absent
  BY NoTexts
<1>2. us(Absent) = us("GPU-1") /\ "device" \notin us("GPU-1")
  BY <1>1
<1>3. P(Absent) = P("GPU-1")
  <2>. HIDE DEF us
  <2>. QED BY <1>2
<1>4. "device" \in DOMAIN P("GPU-1") /\ P("GPU-1").device = "GPU-1"
  <2>. HIDE DEF us
  <2>1. "device" \in Declared /\ "device" \notin Ignored
    BY Names
  <2>. QED BY <1>2, <2>1 DEF Part
<1>5. /\ FrozenAt(S, Absent, d) = Over(specs, Over(Bare, P(Absent)))
      /\ FrozenAt(S, "GPU-1", d) = Over(specs, Over([device |-> "GPU-1"], P("GPU-1")))
  BY <1>1 DEF FrozenAt
<1>. HIDE DEF us, specs
<1>. DEFINE Q == P("GPU-1")
<1>6. Q = [n \in DOMAIN Q |-> Q[n]]
  BY DEF Part
<1>7. "device" \in DOMAIN Q /\ Q.device = "GPU-1"
  BY <1>4
<1>. HIDE DEF Q, P
<1>8. Over(Bare, Q) = Q
  <2>1. DOMAIN Bare = {}
    BY DEF Bare
  <2>. QED BY <1>6, <2>1 DEF Over
<1>9. Over([device |-> "GPU-1"], Q) = Q
  <2>. DEFINE R == [device |-> "GPU-1"]
  <2>1. DOMAIN R = {"device"} /\ R["device"] = "GPU-1"
    OBVIOUS
  <2>. HIDE DEF R
  <2>2. DOMAIN R \cup DOMAIN Q = DOMAIN Q /\ \A n \in DOMAIN Q : (IF n \in DOMAIN R THEN R[n] ELSE Q[n]) = Q[n]
    BY <2>1, <1>7
  <2>3. Over(R, Q) = Q
    BY <1>6, <2>2 DEF Over
  <2>. QED BY <2>3 DEF R
<1>. QED BY <1>3, <1>5, <1>8, <1>9 DEF Q

\* The command of a resume gives back what was frozen.
ResumedAs(e, g, root) ==
    /\ DOMAIN g = Declared /\ g.resume = TRUE /\ g.output = root
    /\ \A n \in Said : g[n] = IF n \in DOMAIN e.options THEN e.options[n] ELSE ParserDefaults[n]

LEMMA ResumedIs ==
  ASSUME NEW k, NEW e, ExperimentOK(e, k), NEW v
  PROVE  /\ ResumedAs(e, ParsedArgs(ResumeCommand(e)), e.place[1])
         /\ ResumedAs(e, ParsedArgs(Over([notify |-> v], ResumeCommand(e))), e.place[1])
         /\ DOMAIN ResumeCommand(e) \subseteq DOMAIN e.options \cup {"resume", "output"}
<1>. DEFINE o == e.options
            R == ResumeOptions(e)
            A == Arguments(R)
            h == [resume |-> TRUE, output |-> e.place[1]]
            n1 == [notify |-> v]
            C == ResumeCommand(e)
            D == Over(n1, C)
<1>1. OptionsOK(o, e.place[2])
  BY DEF ExperimentOK
<1>2. C = Over(h, A) /\ D = Over(n1, C)
  BY DEF ResumeCommand
<1>3. DOMAIN R = DOMAIN o \ (Derived \cup Ignored) /\ \A n \in DOMAIN R : R[n] = o[n]
  BY DEF ResumeOptions, Part
<1>4. /\ DOMAIN A \subseteq DOMAIN R
      /\ \A n \in DOMAIN A : A[n] = R[n]
      /\ \A n \in DOMAIN R \ DOMAIN A : (n = "slo" /\ R[n] = << >>) \/ (n \in Texts /\ R[n] = Absent) \/ n = "resume"
  BY ArgumentsAre, Zenon
<1>5. /\ DOMAIN h = {"resume", "output"} /\ h["resume"] = TRUE /\ h["output"] = e.place[1]
      /\ DOMAIN n1 = {"notify"} /\ n1["notify"] = v
  OBVIOUS
<1>. HIDE DEF o, R, A, h, n1, C, D
<1>6. /\ DOMAIN C = {"resume", "output"} \cup DOMAIN A /\ C["resume"] = TRUE /\ C["output"] = e.place[1]
      /\ \A n \in DOMAIN A \ {"resume", "output"} : C[n] = A[n]
  BY <1>2, <1>5 DEF Over
<1>7. /\ DOMAIN D = {"notify"} \cup DOMAIN C /\ \A n \in DOMAIN C \ {"notify"} : D[n] = C[n]
  BY <1>2, <1>5 DEF Over
<1>8. /\ {"resume", "output"} \subseteq Declared
      /\ "notify" \notin Said /\ "resume" \notin Said /\ "output" \notin Said
      /\ Said \subseteq Declared /\ Said \cap Derived = {} /\ Said \cap Ignored = {}
  BY Names DEF Derived
<1>9. ASSUME NEW n \in Said
      PROVE  /\ n \in DOMAIN A => n \in DOMAIN o /\ A[n] = o[n]
             /\ n \in DOMAIN o /\ n \notin DOMAIN A => o[n] = ParserDefaults[n]
  <2>1. n \in DOMAIN A => n \in DOMAIN o /\ A[n] = o[n]
    BY <1>3, <1>4
  <2>2. ASSUME n \in DOMAIN o, n \notin DOMAIN A PROVE o[n] = ParserDefaults[n]
    <3>1. n \in DOMAIN R /\ R[n] = o[n]
      BY <2>2, <1>3, <1>8
    <3>2. (n = "slo" /\ o[n] = << >>) \/ (n \in Texts /\ o[n] = Absent)
      BY <3>1, <2>2, <1>4, <1>8
    <3>3. n \in Texts => n = "device" \/ n \in Texts \cap Shown
      BY Names
    <3>4. n \in Texts \cap Shown => o[n] # Absent
      BY <2>2, <1>1 DEF OptionsOK
    <3>. QED BY <3>2, <3>3, <3>4, DefaultsAre
  <2>. QED BY <2>1, <2>2
<1>10. ResumedAs(e, ParsedArgs(C), e.place[1])
  <2>. DEFINE g == ParsedArgs(C)
  <2>1. DOMAIN g = Declared /\ \A n \in Declared : g[n] = IF n \in DOMAIN C THEN C[n] ELSE ParserDefaults[n]
    BY ParsedIs
  <2>. HIDE DEF g
  <2>2. g.resume = TRUE /\ g.output = e.place[1]
    BY <2>1, <1>6, <1>8
  <2>3. \A n \in Said : g[n] = IF n \in DOMAIN o THEN o[n] ELSE ParserDefaults[n]
    BY <2>1, <1>6, <1>8, <1>9
  <2>4. ResumedAs(e, g, e.place[1])
    BY <2>1, <2>2, <2>3 DEF ResumedAs, o
  <2>. QED BY <2>4 DEF g
<1>11. ResumedAs(e, ParsedArgs(D), e.place[1])
  <2>. DEFINE g == ParsedArgs(D)
  <2>1. DOMAIN g = Declared /\ \A n \in Declared : g[n] = IF n \in DOMAIN D THEN D[n] ELSE ParserDefaults[n]
    BY ParsedIs
  <2>. HIDE DEF g
  <2>2. g.resume = TRUE /\ g.output = e.place[1]
    BY <2>1, <1>6, <1>7, <1>8
  <2>3. \A n \in Said : g[n] = IF n \in DOMAIN o THEN o[n] ELSE ParserDefaults[n]
    BY <2>1, <1>6, <1>7, <1>8, <1>9
  <2>4. ResumedAs(e, g, e.place[1])
    BY <2>1, <2>2, <2>3 DEF ResumedAs, o
  <2>. QED BY <2>4 DEF g
<1>. QED BY <1>3, <1>4, <1>6, <1>10, <1>11 DEF o, C, D, n1

\* What is said again is what is settled again.
LEMMA ResumedSays ==
  ASSUME NEW k, NEW e, ExperimentOK(e, k), NEW g, ResumedAs(e, g, e.place[1])
  PROVE  /\ DOMAIN Settled(g) = Declared
         /\ \A n \in Said : Settled(g)[n] = Stated(e.options, n)
         /\ Settled(g).resume = TRUE /\ Settled(g).output = e.place[1]
         /\ g.model = e.place[2]
         /\ \A n \in Said \cap Shown : FromNamespace(g)[n] = Stated(e.options, n)
<1>. DEFINE o == e.options  S == Settled(g)  F == FromNamespace(g)
<1>1. OptionsOK(o, e.place[2])
  BY DEF ExperimentOK
<1>2. /\ DOMAIN g = Declared /\ g.resume = TRUE /\ g.output = e.place[1]
      /\ \A n \in Said : g[n] = IF n \in DOMAIN o THEN o[n] ELSE ParserDefaults[n]
  BY DEF ResumedAs
<1>3. /\ DOMAIN S = Declared
      /\ \A n \in Shown : S[n] = IF n \in Texts THEN Tidy(IF g[n] = Absent THEN ConfigDefaults[n] ELSE g[n]) ELSE g[n]
      /\ \A n \in Declared \ Shown : S[n] = g[n]
  BY <1>2, SettledIs
<1>4. \A n \in Shown : F[n] = IF n \in Texts /\ g[n] = Absent THEN ConfigDefaults[n] ELSE g[n]
  BY <1>2, FromIs
<1>. HIDE DEF o, S, F
<1>5. ASSUME NEW n \in Said \cap Shown PROVE F[n] = Stated(o, n)
  <2>1. n \in DOMAIN o /\ n \in Texts => o[n] # Absent
    BY <1>1 DEF OptionsOK
  <2>2. ConfigDefaults[n] = IF n \in Texts /\ ParserDefaults[n] = Absent THEN NoText ELSE ParserDefaults[n]
    BY DefaultsAre
  <2>. QED BY <2>1, <2>2, <1>2, <1>4 DEF Stated
<1>6. ASSUME NEW n \in Said \cap Shown PROVE S[n] = Stated(o, n)
  <2>1. CASE n \in Texts
    <3>1. S[n] = Tidy(F[n])
      BY <2>1, <1>3, <1>4
    <3>2. Tidy(Stated(o, n)) = Stated(o, n)
      BY <2>1, <1>1, DefaultsTidy DEF Stated, OptionsOK
    <3>. QED BY <3>1, <3>2, <1>5
  <2>2. CASE n \notin Texts
    BY <2>2, <1>3, <1>4, <1>5
  <2>. QED BY <2>1, <2>2
<1>7. ASSUME NEW n \in Said \ Shown PROVE S[n] = Stated(o, n)
  BY <1>2, <1>3 DEF Stated, Said
<1>8. S.resume = TRUE /\ S.output = e.place[1] /\ g.model = e.place[2]
  <2>1. {"resume", "output"} \subseteq Shown \ Texts /\ "model" \in Said
    BY Names
  <2>. QED BY <2>1, <1>1, <1>2, <1>3 DEF OptionsOK
<1>. QED BY <1>3, <1>5, <1>6, <1>7, <1>8 DEF S, F, o

\* The run of the offer q would continue e.
OfferStands(e, q, k) ==
    LET g == ParsedArgs(q.command)
    IN  /\ q.declared = declaration /\ Incomplete(e) /\ ~Writing(e.place)
        /\ ConfigOK(q.config, k) /\ q.config.fields.resume = TRUE
        /\ "requested" \notin DOMAIN q.command /\ ArgsOK(g, k) /\ g.resume = TRUE
        /\ Place(g) = e.place /\ Place(q.config.fields) = e.place
        /\ Says(q.config, Settled(g))
        /\ ValidAt(Config(FromNamespace(g), Bare), declaration)
        /\ e.options = FrozenAt(Settled(g), Pinned(Settled(g)), declaration)

\* Valid speaks of the declaration as it is now.
LEMMA ValidNow ==
  ASSUME NEW c
  PROVE  Valid(c) <=> ValidAt(c, declaration)
  BY DEF Valid, ValidAt, Sound

\* A resume that is offered is one the run would not refuse.
LEMMA OfferHolds ==
  ASSUME NEW k, NEW e, ExperimentOK(e, k), NEW c, ConfigOK(c, k), NEW q \in ResumeOffer(e, c)
  PROVE  OfferStands(e, q, k)
<1>. DEFINE v == c.fields.notify
            C1 == ResumeCommand(e)
            C == Over([notify |-> v], C1)
            g1 == ParsedArgs(C1)  g == ParsedArgs(C)
            S1 == Settled(g1)  S == Settled(g)
            T == ToResume(e)
            N == Normal(T)
            K == [N EXCEPT !.fields.notify = v]
            o == e.options
<1>1. /\ Incomplete(e) /\ ~Writing(e.place) /\ Accepted(g1)
      /\ o = FrozenOptions(S1, Absent)
      /\ q = Proposed(C, K)
  BY Zenon DEF ResumeOffer, Same
<1>2. q.command = C /\ q.config = K /\ q.declared = declaration
  BY <1>1 DEF Proposed
<1>3. /\ ResumedAs(e, g1, e.place[1]) /\ ResumedAs(e, g, e.place[1])
      /\ DOMAIN C1 \subseteq DOMAIN o \cup {"resume", "output"}
  BY ResumedIs, Zenon
<1>4. /\ DOMAIN S1 = Declared
      /\ \A n \in Said : S1[n] = Stated(o, n)
      /\ \A n \in Said \cap Shown : FromNamespace(g1)[n] = Stated(o, n)
  BY <1>3, ResumedSays, Zenon
<1>5. /\ DOMAIN S = Declared
      /\ \A n \in Said : S[n] = Stated(o, n)
      /\ S.resume = TRUE /\ S.output = e.place[1] /\ g.model = e.place[2]
      /\ \A n \in Said \cap Shown : FromNamespace(g)[n] = Stated(o, n)
  BY <1>3, ResumedSays, Zenon
<1>6. v # Absent /\ v = c.fields.notify
  BY Names DEF ConfigOK, FieldsOK
<1>7. RecordedAs(e, k) /\ OptionsOK(o, e.place[2]) /\ RootOK(e.place[1], k) /\ e.place = <<e.place[1], e.place[2]>>
  BY RecordedIs DEF ExperimentOK
<1>8. /\ ConfigOK(T, k) /\ T.extra = Recorded(e).extra /\ T.fields.output = e.place[1] /\ T.fields.resume = TRUE
      /\ \A m \in Shown \ {"output", "resume"} : T.fields[m] = Recorded(e).fields[m]
  <2>1. ConfigOK(Recorded(e), k) /\ RootOK(e.place[1], k) /\ TRUE \in BOOLEAN
    BY <1>7 DEF RecordedAs
  <2>2. T = Rooted(Recorded(e), e.place[1], TRUE)
    BY DEF ToResume, Rooted
  <2>. HIDE DEF T
  <2>. DEFINE t == TRUE
  <2>3. t = TRUE /\ t \in BOOLEAN
    OBVIOUS
  <2>. HIDE DEF t
  <2>4. T = Rooted(Recorded(e), e.place[1], t)
    BY <2>2, <2>3
  <2>5. RootedAs(Rooted(Recorded(e), e.place[1], t), Recorded(e), e.place[1], t, k)
    BY <2>1, <2>3, WithRoot
  <2>. QED BY <2>3, <2>4, <2>5 DEF RootedAs
<1>. HIDE DEF T
<1>9. /\ ConfigOK(N, k) /\ N.extra = T.extra
      /\ \A n \in Shown : N.fields[n] = IF n \in Texts THEN Tidy(T.fields[n]) ELSE T.fields[n]
  BY <1>8, NormalOK, ConfigParts
<1>. HIDE DEF N
<1>10. Exchangeable("notify", v)
  BY <1>6, Names DEF Exchangeable
<1>11. /\ ConfigOK(K, k) /\ K.extra = N.extra
       /\ \A m \in Shown : m # "notify" => K.fields[m] = N.fields[m]
  <2>1. K = Reads(N, "notify", v)
    BY DEF Reads
  <2>. HIDE DEF K
  <2>. QED BY <2>1, <1>9, <1>10, WithText
<1>. HIDE DEF K, v, C1, C, g1, g, S1, S, o
<1>12. \A n \in Said : Means(K, n) = Stated(o, n)
  <2>1. Said \cap {"output", "resume", "notify"} = {}
    BY Names
  <2>2. \A m \in Said \cap Shown : T.fields[m] = Recorded(e).fields[m] /\ K.fields[m] = N.fields[m]
    BY <2>1, <1>8, <1>11
  <2>3. ReadsAs(K, e, Said)
    BY <2>2, <1>8, <1>9, <1>11, TidyTwice DEF ReadsAs
  <2>. QED BY <2>3, <1>11, RecordedMeans DEF o, MeansAs
<1>13. Says(K, S)
  BY <1>5, <1>12 DEF Says
<1>14. ValidAt(Config(FromNamespace(g), Bare), declaration)
  <2>1. ValidAt(Config(FromNamespace(g1), Bare), declaration)
    BY <1>1, ValidNow DEF Accepted
  <2>2. {"model", "cpus", "compute", "spec"} \subseteq Said \cap Shown
    BY Names
  <2>3. \A n \in {"model", "cpus", "compute", "spec"} : FromNamespace(g)[n] = FromNamespace(g1)[n]
    BY <2>2, <1>4, <1>5
  <2>. QED BY <2>1, <2>3 DEF ValidAt, Config, Sound
<1>15. o = FrozenAt(S, Pinned(S), declaration)
  <2>1. o = FrozenAt(S1, Absent, declaration)
    BY <1>1 DEF FrozenOptions, FrozenAt
  <2>2. FrozenAt(S1, Absent, declaration) = FrozenAt(S, Absent, declaration)
    BY <1>4, <1>5, FrozenSame
  <2>3. CASE S.gpus = "off"
    BY <2>1, <2>2, <2>3 DEF Pinned
  <2>4. CASE S.gpus # "off"
    <3>1. S.gpus = Stated(o, "gpus") /\ S.device = Stated(o, "device")
      BY <1>5, Names
    <3>2. S.device = "GPU-1"
      BY <3>1, <2>4, <1>7 DEF Stated, OptionsOK
    <3>3. Pinned(S) = "GPU-1"
      BY <2>4 DEF Pinned
    <3>. QED BY <2>1, <2>2, <3>2, <3>3, <1>5, FrozenPinned
  <2>. QED BY <2>3, <2>4
<1>16. DOMAIN g = Declared /\ g.resume = TRUE /\ g.output = e.place[1]
  BY <1>3 DEF ResumedAs
<1>17. ArgsOK(g, k)
  <2>1. g.policy = IF "policy" \in DOMAIN o THEN o.policy ELSE ParserDefaults.policy
    BY <1>3, Names DEF ResumedAs, o
  <2>2. g.prune = IF "prune" \in DOMAIN o THEN o.prune ELSE ParserDefaults.prune
    BY <1>3, Names DEF ResumedAs, o
  <2>3. Tidy(g.model) = g.model
    <3>1. g.model = o.model
      BY <1>5, <1>7 DEF OptionsOK
    <3>. QED BY <3>1, <1>7, Names DEF OptionsOK
  <2>4. g.policy # NoText /\ g.prune \in BOOLEAN
    BY <2>1, <2>2, <1>7, DefaultsAre, NoTexts DEF OptionsOK
  <2>. QED BY <2>3, <2>4, <1>7, <1>16 DEF ArgsOK
<1>18. "requested" \notin DOMAIN C \/ "requested" \in DOMAIN o
  BY <1>3 DEF C, Over
<1>19. "requested" \notin DOMAIN o
  <2>1. FrozenAs(FrozenAt(S1, Absent, declaration), S1, Absent)
    BY <1>4, FrozenIs
  <2>2. FrozenAs(o, S1, Absent)
    BY <2>1, <1>1 DEF FrozenOptions, FrozenAt
  <2>. QED BY <2>2, <1>4, Names DEF FrozenAs
<1>20. Place(g) = e.place
  BY <1>5, <1>7, <1>16 DEF Place
<1>21. Place(K.fields) = e.place /\ K.fields.resume = TRUE
  <2>1. {"output", "model", "resume"} \subseteq Shown /\ "model" \in Texts /\ {"output", "resume"} \cap Texts = {}
    BY Names
  <2>2. K.fields.output = e.place[1] /\ K.fields.resume = TRUE
    BY <2>1, <1>8, <1>9, <1>11
  <2>3. Recorded(e).fields.model = e.place[2]
    BY <2>1, <1>7 DEF RecordedAs, OptionsOK, o
  <2>4. K.fields.model = Tidy(e.place[2])
    BY <2>1, <2>3, <1>8, <1>9, <1>11
  <2>5. Tidy(e.place[2]) = e.place[2]
    BY <2>1, <1>7 DEF OptionsOK
  <2>. QED BY <2>2, <2>4, <2>5, <1>7 DEF Place
<1>. QED BY <1>1, <1>2, <1>11, <1>13, <1>14, <1>15, <1>16, <1>17, <1>18, <1>19, <1>20, <1>21 DEF OfferStands, g, S, o

-----------------------------------------------------------------------------
\* What holds while more starts are left holds with fewer.
LEMMA Lower ==
  ASSUME NEW k \in Nat, NEW j \in Nat, j <= k
  PROVE  /\ \A c : ConfigOK(c, k) => ConfigOK(c, j)
         /\ \A e : ExperimentOK(e, k) => ExperimentOK(e, j)
         /\ \A p : OfferOK(p, k) => OfferOK(p, j)
         /\ \A a : ArgsOK(a, k) => ArgsOK(a, j)
<1>1. \A r : RootOK(r, k) => RootOK(r, j)
  BY DEF RootOK
<1>2. \A c : ConfigOK(c, k) => ConfigOK(c, j)
  BY <1>1 DEF ConfigOK, FieldsOK
<1>3. \A e : ExperimentOK(e, k) => ExperimentOK(e, j)
  BY <1>1 DEF ExperimentOK
<1>4. \A p : OfferOK(p, k) => OfferOK(p, j)
  BY <1>2 DEF OfferOK
<1>5. \A a : ArgsOK(a, k) => ArgsOK(a, j)
  BY <1>1 DEF ArgsOK
<1>. QED BY <1>2, <1>3, <1>4, <1>5

\* Spending.
LEMMA SpentIs ==
  ASSUME AllowanceOK, NEW what \in {"edits", "starts"}, Spent(what)
  PROVE  /\ AllowanceOK' /\ allowance'.starts <= allowance.starts
         /\ allowance.starts \in Nat /\ allowance'.starts \in Nat
         /\ what = "starts" => allowance.starts > 0 /\ allowance'.starts = allowance.starts - 1
         /\ what = "edits" => allowance'.starts = allowance.starts
  BY DEF AllowanceOK, Spent

\* What an action leaves alone is still in order.
LEMMA Untouched ==
  ASSUME SettingsInv, AllowanceOK', allowance'.starts <= allowance.starts
  PROVE  /\ runForm' = runForm => FormOK'
         /\ settings' = settings => SavedOK'
         /\ experiments' = experiments => DiskOK'
         /\ dialog' = dialog => DialogOK'
         /\ child' = child /\ experiments' = experiments => ChildOK'
<1>. DEFINE k == allowance.starts  j == allowance'.starts
<1>1. k \in Nat /\ j \in Nat /\ j <= k
  BY DEF AllowanceOK, SettingsInv, KeptOK
<1>2. /\ \A c : ConfigOK(c, k) => ConfigOK(c, j)
      /\ \A e : ExperimentOK(e, k) => ExperimentOK(e, j)
      /\ \A p : OfferOK(p, k) => OfferOK(p, j)
      /\ \A a : ArgsOK(a, k) => ArgsOK(a, j)
  <2>. HIDE DEF k, j
  <2>. QED BY <1>1, Lower
<1>3. runForm' = runForm => FormOK'
  BY <1>2 DEF FormOK, SettingsInv, KeptOK
<1>4. settings' = settings => SavedOK'
  BY <1>2 DEF SavedOK, SettingsInv, KeptOK
<1>5. experiments' = experiments => DiskOK'
  BY <1>2 DEF DiskOK, SettingsInv, KeptOK
<1>6. dialog' = dialog => DialogOK'
  BY <1>2 DEF DialogOK, SettingsInv, KeptOK
<1>7. ASSUME child' = child, experiments' = experiments PROVE ChildOK'
  <2>1. Args' = Args /\ Live' = Live /\ Begins' = Begins /\ InPlace(child.place)' = InPlace(child.place)
    BY <1>7 DEF Args, Live, Begins, InPlace
  <2>2. ChildOK
    BY DEF SettingsInv
  <2>. HIDE DEF k, j
  <2>3. Live => ArgsOK(Args, k) /\ ArgsOK(Args, j)
    BY <1>2, <2>2 DEF ChildOK, k
  <2>. QED BY <1>7, <2>1, <2>2, <2>3 DEF ChildOK, j
<1>. QED BY <1>3, <1>4, <1>5, <1>6, <1>7

\* A fresh attempt that is offered is one that could be started now.
LEMMA RestartHolds ==
  ASSUME NEW k \in Nat \ {0}, NEW c, ConfigOK(c, k), NEW found, NEW p \in RestartOffer(found, c, k)
  PROVE  OfferOK(p, k - 1) /\ p.declared = declaration /\ p.config.fields.resume = FALSE
<1>. DEFINE fresh == NewAttempt(c, c.fields.output, k)
            pins == {e.pin : e \in {x \in found : /\ x.pin # Absent /\ c.fields.model = x.options.model
                                                  /\ c.fields.revision = x.options.revision}}
            pin == CHOOSE x \in pins : TRUE
            config == IF pins = {} THEN fresh ELSE [fresh EXCEPT !.fields.revision = pin]
            j == k - 1
            root == FreshRoot(c.fields.output, k)
            no == FALSE
<1>1. Valid(config) /\ p = Proposed(BuildCommand(config), config)
  BY DEF RestartOffer
<1>2. j \in Nat /\ j <= k /\ RootOK(root, j)
  BY DEF FreshRoot, RootOK
<1>3. no = FALSE /\ no \in BOOLEAN
  OBVIOUS
<1>4. pins # {} => pin # Absent
  <2>1. \A x \in pins : x # Absent
    OBVIOUS
  <2>. HIDE DEF pins
  <2>. QED BY <2>1
<1>5. fresh = Rooted(c, root, FALSE)
  BY DEF NewAttempt, Rooted
<1>6. pins # {} => config = Reads(fresh, "revision", pin)
  BY DEF Reads
<1>7. pins = {} => config = fresh
  OBVIOUS
<1>. HIDE DEF fresh, pins, pin, config, j, root, no
<1>8. ConfigOK(c, j)
  BY <1>2, Lower
<1>9. RootedAs(Rooted(c, root, no), c, root, no, j)
  BY <1>2, <1>3, <1>8, WithRoot
<1>10. ConfigOK(fresh, j) /\ fresh.fields.resume = FALSE
  BY <1>3, <1>5, <1>9 DEF RootedAs
<1>11. ConfigOK(config, j) /\ config.fields.resume = FALSE
  <2>1. CASE pins = {}
    BY <2>1, <1>7, <1>10
  <2>2. CASE pins # {}
    <3>1. Exchangeable("revision", pin)
      BY <2>2, <1>4, Names DEF Exchangeable
    <3>2. /\ ConfigOK(Reads(fresh, "revision", pin), j)
          /\ \A m \in Shown : m # "revision" => Reads(fresh, "revision", pin).fields[m] = fresh.fields[m]
      BY <1>10, <3>1, WithText
    <3>3. "resume" \in Shown
      BY Names
    <3>. QED BY <2>2, <1>6, <1>10, <3>2, <3>3
  <2>. QED BY <2>1, <2>2
<1>12. p.config = config /\ p.command = BuildCommand(config) /\ p.declared = declaration
  BY <1>1 DEF Proposed
<1>13. OfferOK(p, j)
  BY <1>1, <1>11, <1>12, ValidNow DEF OfferOK
<1>. QED BY <1>11, <1>12, <1>13 DEF j

-----------------------------------------------------------------------------
\* A proposal that can be launched now, and what a review finds.
LaunchOK(p, j) ==
    LET g == ParsedArgs(p.command)  S == Settled(g)
    IN  /\ ConfigOK(p.config, j) /\ ArgsOK(g, j) /\ "requested" \notin DOMAIN p.command
        /\ Place(g) = Place(p.config.fields) /\ Says(p.config, S)
        /\ ValidAt(Config(FromNamespace(g), Bare), p.declared)
        /\ IF g.resume
           THEN \E e \in InPlace(Place(g)) : Incomplete(e) /\ e.options = FrozenAt(S, Pinned(S), p.declared)
           ELSE InPlace(Place(g)) = {}

AssessedAs(r, c, chosen, j) ==
    /\ r.direct \in BOOLEAN
    /\ r.direct => chosen = {} /\ ~c.fields.resume /\ InPlace(Place(c.fields)) = {}
    /\ \A q \in r.resume : LaunchOK(q, j) /\ q.config.fields.resume = TRUE
    /\ \A p \in r.restart : OfferOK(p, j) /\ p.config.fields.resume = FALSE

\* A valid configuration with no experiment in its directory can be launched,
\* and so can a resume that was offered.
LEMMA DirectLaunch ==
  ASSUME NEW k, NEW p, OfferOK(p, k), p.config.fields.resume = FALSE, InPlace(Place(p.config.fields)) = {}
  PROVE  LaunchOK(p, k)
<1>. DEFINE g == ParsedArgs(p.command)
<1>1. /\ ArgsOK(g, k) /\ "requested" \notin DOMAIN p.command
      /\ Place(g) = Place(p.config.fields) /\ g.resume = FALSE
      /\ Says(p.config, Settled(g))
      /\ ValidAt(Config(FromNamespace(g), Bare), p.declared)
  <2>1. ConfigOK(p.config, k) /\ ValidAt(p.config, p.declared) /\ p.command = BuildCommand(p.config)
    BY DEF OfferOK
  <2>2. /\ ArgsOK(ParsedArgs(BuildCommand(p.config)), k)
        /\ "requested" \notin DOMAIN BuildCommand(p.config)
        /\ Place(ParsedArgs(BuildCommand(p.config))) = Place(p.config.fields)
        /\ ParsedArgs(BuildCommand(p.config)).resume = p.config.fields.resume
        /\ Says(p.config, Settled(ParsedArgs(BuildCommand(p.config))))
        /\ ValidAt(Config(FromNamespace(ParsedArgs(BuildCommand(p.config))), Bare), p.declared)
    BY <2>1, BuiltSays, Zenon
  <2>. QED BY <2>1, <2>2
<1>. HIDE DEF g
<1>2. ConfigOK(p.config, k)
  BY DEF OfferOK
<1>. QED BY <1>1, <1>2 DEF LaunchOK, g

LEMMA ResumeLaunch ==
  ASSUME NEW k, NEW e \in experiments, NEW q, OfferStands(e, q, k)
  PROVE  LaunchOK(q, k) /\ q.config.fields.resume = TRUE
<1>. DEFINE g == ParsedArgs(q.command)
<1>1. /\ q.declared = declaration /\ Incomplete(e)
      /\ ConfigOK(q.config, k) /\ q.config.fields.resume = TRUE
      /\ "requested" \notin DOMAIN q.command /\ ArgsOK(g, k) /\ g.resume = TRUE
      /\ Place(g) = e.place /\ Place(q.config.fields) = e.place
      /\ Says(q.config, Settled(g))
      /\ ValidAt(Config(FromNamespace(g), Bare), declaration)
      /\ e.options = FrozenAt(Settled(g), Pinned(Settled(g)), declaration)
  BY DEF OfferStands
<1>. HIDE DEF g
<1>2. e \in InPlace(Place(g))
  BY <1>1 DEF InPlace
<1>. QED BY <1>1, <1>2 DEF LaunchOK, g

\* What a review finds can be launched, or is a fresh attempt.
LEMMA AssessedIs ==
  ASSUME DiskOK, allowance.starts \in Nat \ {0}, NEW c, ConfigOK(c, allowance.starts), NEW chosen
  PROVE  AssessedAs(Assessed(c, chosen, allowance.starts), c, chosen, allowance.starts - 1)
<1>. DEFINE k == allowance.starts  j == allowance.starts - 1
            found == IF chosen = {} THEN InPlace(Place(c.fields)) ELSE chosen \cap experiments
            r == Assessed(c, chosen, k)
            now == chosen = {} /\ ~c.fields.resume /\ found = {}
            rs == UNION {ResumeOffer(e, c) : e \in found}
            rt == RestartOffer(found, c, k)
<1>1. r = IF now THEN [NoOffers EXCEPT !.direct = TRUE] ELSE [resume |-> rs, restart |-> rt, direct |-> FALSE]
  BY DEF Assessed
<1>2. found \subseteq experiments
  BY DEF InPlace
<1>3. chosen = {} => found = InPlace(Place(c.fields))
  OBVIOUS
<1>4. now \in BOOLEAN /\ (now => chosen = {} /\ ~c.fields.resume /\ found = {})
  OBVIOUS
<1>5. \A q \in rs : \E e \in found : q \in ResumeOffer(e, c)
  BY Zenon
<1>6. \A e \in experiments : ExperimentOK(e, k)
  BY DEF DiskOK
<1>7. k \in Nat \ {0} /\ j = k - 1 /\ j \in Nat /\ j <= k /\ ConfigOK(c, k)
  OBVIOUS
<1>. HIDE DEF r, now, rs, rt, found, k, j
<1>8. ASSUME NEW q \in rs PROVE LaunchOK(q, j) /\ q.config.fields.resume = TRUE
  <2>1. PICK e \in experiments : q \in ResumeOffer(e, c)
    BY <1>2, <1>5
  <2>2. ExperimentOK(e, j) /\ ConfigOK(c, j)
    BY <1>6, <1>7, Lower
  <2>3. OfferStands(e, q, j)
    BY <2>1, <2>2, OfferHolds
  <2>. QED BY <2>3, ResumeLaunch
<1>9. ASSUME NEW p \in rt PROVE OfferOK(p, j) /\ p.config.fields.resume = FALSE
  <2>1. p \in RestartOffer(found, c, k)
    BY DEF rt
  <2>2. OfferOK(p, k - 1) /\ p.config.fields.resume = FALSE
    BY <2>1, <1>7, RestartHolds, Zenon
  <2>. QED BY <2>2, <1>7
<1>10. CASE now
  <2>1. r.direct = TRUE /\ r.resume = {} /\ r.restart = {}
    BY <1>1, <1>10 DEF NoOffers
  <2>2. AssessedAs(r, c, chosen, j)
    BY <2>1, <1>3, <1>4, <1>10 DEF AssessedAs
  <2>. QED BY <2>2 DEF r, j, k
<1>11. CASE ~now
  <2>1. r.direct = FALSE /\ r.resume = rs /\ r.restart = rt
    BY <1>1, <1>11
  <2>2. AssessedAs(r, c, chosen, j)
    BY <2>1, <1>8, <1>9 DEF AssessedAs
  <2>. QED BY <2>2 DEF r, j, k
<1>. QED BY <1>10, <1>11

\* A launch hands over what was proposed.
LEMMA LaunchKeeps ==
  ASSUME SettingsInv, AllowanceOK', allowance'.starts <= allowance.starts, UNCHANGED <<declaration, experiments>>,
         NEW p, LaunchOK(p, allowance'.starts), Launched(p)
  PROVE  SettingsInv'
<1>. DEFINE g == ParsedArgs(p.command)  j == allowance'.starts
<1>1. /\ ConfigOK(p.config, j) /\ ArgsOK(g, j) /\ "requested" \notin DOMAIN p.command
      /\ Place(g) = Place(p.config.fields) /\ Says(p.config, Settled(g))
      /\ ValidAt(Config(FromNamespace(g), Bare), p.declared)
      /\ IF g.resume
         THEN \E e \in InPlace(Place(g)) :
                Incomplete(e) /\ e.options = FrozenAt(Settled(g), Pinned(Settled(g)), p.declared)
         ELSE InPlace(Place(g)) = {}
  BY Zenon DEF LaunchOK
<1>2. /\ runForm' = FormOf(p.config) /\ dialog' = NoDialog /\ source' = NoSource
      /\ settings' = [settings EXCEPT !.last = p.config.fields.model]
  BY DEF Launched, ShowConfig
<1>3. /\ child'.phase = "starting" /\ child'.place = Place(g) /\ child'.config = p.config
      /\ child'.given = p.command /\ child'.screen = TRUE
      /\ child'.seen.declared = p.declared /\ child'.seen.there = InPlace(Place(g))
      /\ child' = [phase |-> child'.phase, place |-> child'.place, config |-> child'.config,
                   given |-> child'.given, screen |-> child'.screen, seen |-> child'.seen]
  BY DEF Launched, StartsRun
<1>4. Args' = g
  BY <1>3 DEF Args
<1>. HIDE DEF g
<1>5. FormOK'
  BY <1>1, <1>2, FormSays DEF FormOK
<1>6. SavedOK'
  <2>1. settings = [defaults |-> settings.defaults, last |-> settings.last]
    BY DEF SettingsInv, KeptOK, SavedOK
  <2>2. /\ settings' = [defaults |-> settings'.defaults, last |-> settings'.last]
        /\ settings'.defaults = settings.defaults /\ settings'.last = p.config.fields.model
    BY <1>2, <2>1
  <2>3. p.config.fields.model # Absent /\ Tidy(p.config.fields.model) = p.config.fields.model
    BY <1>1, Names DEF ConfigOK, FieldsOK
  <2>4. \A c \in settings.defaults : ConfigOK(c, j)
    <3>1. \A c \in settings.defaults : ConfigOK(c, allowance.starts)
      BY DEF SettingsInv, KeptOK, SavedOK
    <3>. QED BY <3>1, Lower DEF SettingsInv, KeptOK, AllowanceOK
  <2>. QED BY <2>2, <2>3, <2>4 DEF SavedOK
<1>7. DiskOK'
  BY Untouched
<1>8. DialogOK'
  BY <1>2 DEF DialogOK, NoDialog, NoOffers
<1>9. Begins'
  <2>1. InPlace(Place(g))' = InPlace(Place(g))
    BY DEF InPlace
  <2>. QED BY <1>1, <1>3, <1>4 DEF Begins
<1>10. ChildOK'
  BY <1>1, <1>3, <1>4, <1>9 DEF ChildOK
<1>11. ReuseOK'
  BY <1>2 DEF ReuseOK
<1>. QED BY <1>5, <1>6, <1>7, <1>8, <1>10, <1>11 DEF SettingsInv, KeptOK

\* A review, and what starts when nothing is left to ask.
LEMMA ReviewKeeps ==
  ASSUME SettingsInv, Spent("starts"), UNCHANGED <<declaration, experiments>>,
         NEW p, ConfigOK(p.config, allowance.starts), NEW chosen, NEW confirmed \in BOOLEAN,
         chosen = {} /\ ~p.config.fields.resume => OfferOK(p, allowance.starts),
         ReviewThen(p, chosen, confirmed)
  PROVE  SettingsInv'
<1>. DEFINE k == allowance.starts  r == Assessed(p.config, chosen, allowance.starts)
<1>1. /\ AllowanceOK' /\ allowance'.starts <= allowance.starts
      /\ k \in Nat \ {0} /\ allowance'.starts = k - 1 /\ k - 1 \in Nat
  BY SpentIs DEF SettingsInv, KeptOK
<1>2. AssessedAs(r, p.config, chosen, allowance'.starts)
  <2>1. AssessedAs(r, p.config, chosen, allowance.starts - 1)
    BY <1>1, AssessedIs DEF SettingsInv, KeptOK
  <2>. QED BY <2>1, <1>1
<1>3. \/ r.direct /\ Launched(p)
      \/ ~r.direct /\ \E q \in r.resume : Launched(q)
      \/ /\ dialog' = [open |-> TRUE, offers |-> r,
                       record |-> IF chosen = {} THEN InPlace(Place(p.config.fields)) ELSE chosen \cap experiments]
         /\ UNCHANGED <<runForm, source, settings, child>>
  BY Zenon DEF ReviewThen
<1>. HIDE DEF r
<1>4. CASE r.direct /\ Launched(p)
  <2>1. chosen = {} /\ ~p.config.fields.resume /\ InPlace(Place(p.config.fields)) = {}
    BY <1>2, <1>4 DEF AssessedAs
  <2>2. p.config.fields.resume = FALSE
    BY <2>1 DEF ConfigOK, FieldsOK
  <2>3. OfferOK(p, allowance'.starts)
    BY <2>1, <1>1, Lower
  <2>4. LaunchOK(p, allowance'.starts)
    BY <2>1, <2>2, <2>3, DirectLaunch
  <2>. QED BY <1>1, <1>4, <2>4, LaunchKeeps
<1>5. CASE \E q \in r.resume : Launched(q)
  <2>1. PICK q \in r.resume : Launched(q)
    BY <1>5
  <2>2. LaunchOK(q, allowance'.starts)
    BY <1>2 DEF AssessedAs
  <2>. QED BY <1>1, <2>1, <2>2, LaunchKeeps
<1>6. CASE /\ dialog' = [open |-> TRUE, offers |-> r,
                       record |-> IF chosen = {} THEN InPlace(Place(p.config.fields)) ELSE chosen \cap experiments]
           /\ UNCHANGED <<runForm, source, settings, child>>
  <2>1. FormOK' /\ SavedOK' /\ DiskOK' /\ ChildOK'
    BY <1>1, <1>6, Untouched
  <2>2. DialogOK'
    <3>1. dialog'.open = TRUE /\ dialog'.offers = r
      BY <1>6
    <3>2. \A q \in r.resume : ConfigOK(q.config, allowance'.starts) /\ q.config.fields.resume = TRUE
      BY <1>2 DEF AssessedAs, LaunchOK
    <3>. QED BY <3>1, <3>2, <1>2 DEF DialogOK, AssessedAs
  <2>3. ReuseOK'
    BY <1>6 DEF ReuseOK, SettingsInv, Live, InPlace
  <2>. QED BY <1>1, <2>1, <2>2, <2>3 DEF SettingsInv, KeptOK
<1>. QED BY <1>3, <1>4, <1>5, <1>6

-----------------------------------------------------------------------------
\* Where only the form changes, and what it was reused from is forgotten.
LEMMA FormKeeps ==
  ASSUME SettingsInv, Spent("edits"), FormOK', source' = NoSource,
         UNCHANGED <<settings, declaration, experiments, dialog, child>>
  PROVE  SettingsInv'
<1>1. AllowanceOK' /\ allowance'.starts <= allowance.starts
  BY SpentIs DEF SettingsInv, KeptOK
<1>2. SavedOK' /\ DiskOK' /\ DialogOK' /\ ChildOK'
  BY <1>1, Untouched
<1>3. ReuseOK'
  BY DEF ReuseOK
<1>. QED BY <1>1, <1>2, <1>3 DEF SettingsInv, KeptOK

\* What a user enters can stand in a form.
LEMMA EnterKeeps ==
  ASSUME SettingsInv, EnterField
  PROVE  SettingsInv'
<1>1. PICK i \in Inputs : runForm' = [runForm EXCEPT !.fields[i[1]] = i[2]]
  BY DEF EnterField
<1>. DEFINE n == i[1]  v == i[2]  g == [runForm.fields EXCEPT ![n] = v]  k == allowance.starts
<1>2. Spent("edits") /\ source' = NoSource /\ UNCHANGED <<settings, declaration, experiments, dialog, child>>
  BY DEF EnterField
<1>3. ConfigOK(runForm, k) /\ allowance'.starts = k /\ k \in Nat
  BY <1>2, SpentIs DEF SettingsInv, KeptOK, FormOK
<1>4. Enterable(n, v)
  BY SettingsAssumption
<1>5. runForm' = Config(g, runForm.extra)
  BY <1>1, <1>3, FieldSet DEF ConfigOK
<1>6. FieldsOK(runForm.fields, k)
  BY <1>3 DEF ConfigOK
<1>7. /\ DOMAIN g = Shown /\ g = [m \in Shown |-> g[m]]
      /\ n \in Shown => g[n] = v
      /\ \A m \in Shown : m # n => g[m] = runForm.fields[m]
  BY <1>6 DEF FieldsOK
<1>. HIDE DEF n, v, g, k
<1>8. \A m \in Shown : g[m] = runForm.fields[m] \/ (m = n /\ g[m] = v)
  BY <1>7
<1>9. FieldsOK(g, k)
  <2>1. \A m \in Texts \cap Shown : g[m] # Absent
    BY <1>4, <1>6, <1>8 DEF FieldsOK, Enterable
  <2>2. g.policy # NoText
    BY <1>4, <1>6, <1>8, Names DEF FieldsOK, Enterable
  <2>3. g.prune \in BOOLEAN
    BY <1>4, <1>6, <1>8, Names DEF FieldsOK, Enterable
  <2>4. g.resume \in BOOLEAN
    BY <1>4, <1>6, <1>8, Names DEF FieldsOK, Enterable
  <2>5. RootOK(g.output, k)
    <3>1. g.output = runForm.fields.output \/ (n = "output" /\ g.output = v)
      BY <1>8, Names
    <3>2. n = "output" => v = <<v[1], 0>>
      BY <1>4 DEF Enterable
    <3>3. n = "output" => RootOK(v, k)
      BY <3>2 DEF RootOK
    <3>. QED BY <3>1, <3>3, <1>6 DEF FieldsOK
  <2>6. Tidy(g.model) = g.model
    <3>1. g.model = runForm.fields.model \/ (n = "model" /\ g.model = v)
      BY <1>8, Names
    <3>2. n = "model" => Tidy(v) = v
      BY <1>4 DEF Enterable, Tidy
    <3>. QED BY <3>1, <3>2, <1>6 DEF FieldsOK
  <2>. QED BY <1>7, <2>1, <2>2, <2>3, <2>4, <2>5, <2>6 DEF FieldsOK
<1>10. runForm'.fields = g /\ runForm'.extra = runForm.extra
  BY <1>5 DEF Config
<1>11. FormOK'
  BY <1>3, <1>5, <1>9, <1>10 DEF FormOK, ConfigOK
<1>. QED BY <1>2, <1>11, FormKeeps

\* The presets leave a configuration in order.
LEMMA TemplatesOK ==
  ASSUME NEW p, NEW k
  PROVE  FieldsOK(PresetValue(p), k)
<1>1. \A n \in Texts \cap Shown : ConfigDefaults[n] # Absent /\ Tidy(ConfigDefaults[n]) = ConfigDefaults[n]
  BY DefaultsTidy
<1>2. /\ {"policy", "model", "cpus", "gpus", "notify"} \subseteq Texts \cap Shown
      /\ {"output", "prune", "resume"} \subseteq Shown \ Texts
  BY Names
<1>3. /\ DOMAIN ConfigDefaults = Shown /\ ConfigDefaults = [n \in Shown |-> ConfigDefaults[n]]
      /\ ConfigDefaults.output = <<"results", 0>> /\ ConfigDefaults.prune = TRUE /\ ConfigDefaults.resume = FALSE
      /\ ConfigDefaults.policy = "auto"
  <2>1. ConfigDefaults = [n \in Shown |-> ConfigDefaults[n]]
    BY DEF ConfigDefaults
  <2>2. ConfigDefaults.policy = "auto"
    BY <1>2, DefaultsAre, NoTexts
  <2>3. ConfigDefaults.output = <<"results", 0>> /\ ConfigDefaults.prune = TRUE /\ ConfigDefaults.resume = FALSE
    BY <1>2, DefaultsAre
  <2>. QED BY <2>1, <2>2, <2>3, DefaultsAre
<1>4. FieldsOK(ConfigDefaults, k)
  <2>1. RootOK(<<"results", 0>>, k)
    BY DEF RootOK
  <2>. QED BY <1>1, <1>2, <1>3, <2>1, NoTexts DEF FieldsOK
<1>5. FieldsOK(SmokeTemplate, k)
  <2>. DEFINE s == SmokeTemplate  f == ConfigDefaults
  <2>1. s =
          [f EXCEPT !.cpus = "1", !.gpus = "off", !.policy = "minimal", !.output = <<"smoke", 0>>, !.notify = "none"]
    BY DEF SmokeTemplate
  <2>. HIDE DEF s, f
  <2>2. DOMAIN f = Shown /\ f = [n \in Shown |-> f[n]]
    BY <1>3 DEF f
  <2>3. /\ DOMAIN s = Shown /\ s = [n \in Shown |-> s[n]]
        /\ s.cpus = "1" /\ s.gpus = "off" /\ s.policy = "minimal" /\ s.output = <<"smoke", 0>> /\ s.notify = "none"
        /\ \A n \in Shown \ {"cpus", "gpus", "policy", "output", "notify"} : s[n] = f[n]
    BY <1>2, <2>1, <2>2
  <2>4. RootOK(<<"smoke", 0>>, k)
    BY DEF RootOK
  <2>5. \A n \in Texts \cap Shown : s[n] # Absent
    BY <1>1, <1>2, <2>3, NoTexts DEF f
  <2>6. s.model = f.model /\ s.prune = f.prune /\ s.resume = f.resume
    BY <1>2, <2>3
  <2>7. FieldsOK(s, k)
    BY <1>1, <1>2, <1>3, <2>3, <2>4, <2>5, <2>6, NoTexts DEF FieldsOK, f
  <2>. QED BY <2>7 DEF s
<1>. QED BY <1>4, <1>5 DEF PresetValue

LEMMA PresetIs ==
  ASSUME NEW k, NEW c, ConfigOK(c, k), NEW p
  PROVE  ConfigOK(PresetOf(c, p), k)
<1>. DEFINE V == PresetValue(p)  f == c.fields  x == c.extra  P == Part(V, PresetFields)  g == Over(P, f)
<1>1. FieldsOK(V, k) /\ FieldsOK(f, k) /\ c = [fields |-> f, extra |-> x]
  BY TemplatesOK DEF ConfigOK, Config
<1>2. PresetFields \subseteq Shown \ {"output", "model", "resume"}
  BY Names DEF PresetFields
<1>3. PresetOf(c, p) = [c EXCEPT !.fields = g]
  BY DEF PresetOf
<1>. HIDE DEF V, f, x
<1>4. DOMAIN P = PresetFields /\ \A n \in PresetFields : P[n] = V[n]
  BY <1>1, <1>2 DEF Part, FieldsOK
<1>. HIDE DEF P
<1>5. /\ DOMAIN g = Shown /\ g = [n \in Shown |-> g[n]]
      /\ \A n \in Shown : g[n] = IF n \in PresetFields THEN V[n] ELSE f[n]
  BY <1>1, <1>2, <1>4 DEF Over, FieldsOK
<1>. HIDE DEF g
<1>6. FieldsOK(g, k)
  <2>1. \A n \in Shown : g[n] = V[n] \/ g[n] = f[n]
    BY <1>5
  <2>2. g.output = f.output /\ g.model = f.model /\ g.resume = f.resume
    BY <1>2, <1>5, Names
  <2>3. \A n \in Texts \cap Shown : g[n] # Absent
    BY <1>1, <2>1 DEF FieldsOK
  <2>4. g.policy # NoText /\ g.prune \in BOOLEAN
    BY <1>1, <2>1, Names DEF FieldsOK
  <2>. QED BY <1>1, <1>5, <2>2, <2>3, <2>4 DEF FieldsOK
<1>7. PresetOf(c, p) = [fields |-> g, extra |-> x]
  BY <1>1, <1>3
<1>. QED BY <1>6, <1>7 DEF ConfigOK, Config

\* Choosing a preset, saving, and coming back to what was saved.
LEMMA PresetKeeps ==
  ASSUME SettingsInv, ChoosePreset
  PROVE  SettingsInv'
<1>1. PICK p \in Presets : ShowConfig(PresetOf(Normal(runForm), p))
  BY DEF ChoosePreset
<1>2. Spent("edits") /\ source' = NoSource /\ UNCHANGED <<settings, declaration, experiments, dialog, child>>
  BY DEF ChoosePreset
<1>3. allowance'.starts = allowance.starts /\ ConfigOK(runForm, allowance.starts)
  BY <1>2, SpentIs DEF SettingsInv, KeptOK, FormOK
<1>4. ConfigOK(PresetOf(Normal(runForm), p), allowance.starts)
  BY <1>3, NormalOK, PresetIs
<1>5. FormOK'
  BY <1>1, <1>3, <1>4, FormSays DEF ShowConfig, FormOK
<1>. QED BY <1>2, <1>5, FormKeeps

LEMMA SaveKeeps ==
  ASSUME SettingsInv, SaveDefaults
  PROVE  SettingsInv'
<1>1. /\ Spent("edits") /\ UNCHANGED <<runForm, source, declaration, experiments, dialog, child>>
      /\ settings' = [settings EXCEPT !.defaults = {Normal(runForm)}]
  BY DEF SaveDefaults
<1>2. /\ AllowanceOK' /\ allowance'.starts = allowance.starts /\ allowance'.starts <= allowance.starts
      /\ ConfigOK(runForm, allowance.starts)
  BY <1>1, SpentIs DEF SettingsInv, KeptOK, FormOK
<1>3. FormOK' /\ DiskOK' /\ DialogOK' /\ ChildOK'
  BY <1>1, <1>2, Untouched
<1>4. SavedOK'
  <2>1. settings = [defaults |-> settings.defaults, last |-> settings.last]
        /\ settings.last # Absent /\ Tidy(settings.last) = settings.last
    BY DEF SettingsInv, KeptOK, SavedOK
  <2>2. /\ settings' = [defaults |-> settings'.defaults, last |-> settings'.last]
        /\ settings'.defaults = {Normal(runForm)} /\ settings'.last = settings.last
    BY <1>1, <2>1
  <2>3. ConfigOK(Normal(runForm), allowance.starts)
    BY <1>2, NormalOK
  <2>. QED BY <1>2, <2>1, <2>2, <2>3 DEF SavedOK
<1>5. ReuseOK'
  BY <1>1 DEF ReuseOK, SettingsInv, Live, InPlace
<1>. QED BY <1>2, <1>3, <1>4, <1>5 DEF SettingsInv, KeptOK

LEMMA ReopenKeeps ==
  ASSUME SettingsInv, Reopen
  PROVE  SettingsInv'
<1>. DEFINE usable ==
             \A c \in settings.defaults : Valid([c EXCEPT !.fields.model = IF @ = NoText THEN "default" ELSE @])
            saved == IF usable THEN settings ELSE [defaults |-> {}, last |-> NoText]
            c0 == Opened(saved)
            k == allowance.starts
            named(m) ==
               IF m \in {NoText, c0.fields.model} THEN c0 ELSE [c0 EXCEPT !.fields.model = m, !.fields.revision = NoText]
<1>1. PICK m \in {NoText, "m1", "m2"}, p \in Presets \cup {NoText} :
         ShowConfig(IF p = NoText THEN named(m) ELSE PresetOf(named(m), p))
  BY Zenon DEF Reopen
<1>2. Spent("edits") /\ source' = NoSource /\ UNCHANGED <<settings, declaration, experiments, dialog, child>>
  BY DEF Reopen
<1>3. allowance'.starts = k
  BY <1>2, SpentIs DEF SettingsInv, KeptOK
<1>4. ASSUME NEW c, ConfigOK(c, k), NEW v, v # Absent, Tidy(v) = v
      PROVE  ConfigOK([c EXCEPT !.fields.model = v, !.fields.revision = NoText], k)
  <2>. DEFINE a == Reads(c, "model", v)
  <2>1. Exchangeable("model", v) /\ Exchangeable("revision", NoText)
    BY <1>4, Names, NoTexts DEF Exchangeable
  <2>. HIDE DEF a
  <2>2. ConfigOK(a, k)
    BY <1>4, <2>1, WithText DEF a
  <2>3. ConfigOK(Reads(a, "revision", NoText), k)
    BY <2>1, <2>2, WithText
  <2>4. [c EXCEPT !.fields.model = v, !.fields.revision = NoText] = Reads(a, "revision", NoText)
    BY DEF a, Reads
  <2>. QED BY <2>3, <2>4
<1>5. /\ \A c \in saved.defaults : ConfigOK(c, k)
      /\ saved.last # Absent /\ Tidy(saved.last) = saved.last
  <2>1. CASE usable
    BY <2>1 DEF SettingsInv, KeptOK, SavedOK
  <2>2. CASE ~usable
    <3>1. saved = [defaults |-> {}, last |-> NoText]
      BY <2>2
    <3>. HIDE DEF saved
    <3>2. saved.defaults = {} /\ saved.last = NoText
      BY <3>1
    <3>. QED BY <3>2, NoTexts DEF Tidy
  <2>. QED BY <2>1, <2>2
<1>. HIDE DEF usable, saved
<1>6. ConfigOK(c0, k)
  <2>. DEFINE d == IF saved.defaults = {} THEN Config(SmokeTemplate, Bare) ELSE CHOOSE x \in saved.defaults : TRUE
  <2>1. ConfigOK(d, k)
    <3>1. CASE saved.defaults = {}
      <4>1. ConfigOK(Config(SmokeTemplate, Bare), k)
        <5>1. FieldsOK(PresetValue("smoke"), k) /\ PresetValue("smoke") = SmokeTemplate
          BY TemplatesOK DEF PresetValue
        <5>. QED BY <5>1 DEF ConfigOK, Config
      <4>. QED BY <3>1, <4>1
    <3>2. CASE saved.defaults # {}
      <4>1. d \in saved.defaults
        BY <3>2
      <4>. QED BY <4>1, <1>5
    <3>. QED BY <3>1, <3>2
  <2>2. c0 = IF saved.last \in {NoText, d.fields.model} THEN d
             ELSE [d EXCEPT !.fields.model = saved.last, !.fields.revision = NoText]
    BY Zenon DEF Opened
  <2>. HIDE DEF d, c0
  <2>3. ConfigOK([d EXCEPT !.fields.model = saved.last, !.fields.revision = NoText], k)
    BY <2>1, <1>4, <1>5
  <2>. QED BY <2>1, <2>2, <2>3
<1>. HIDE DEF c0
<1>7. ConfigOK(named(m), k)
  <2>1. m # Absent /\ Tidy(m) = m
    BY NoTexts DEF Tidy
  <2>2. ConfigOK([c0 EXCEPT !.fields.model = m, !.fields.revision = NoText], k)
    BY <2>1, <1>4, <1>6
  <2>. QED BY <2>2, <1>6
<1>. HIDE DEF named, k
<1>8. ConfigOK(PresetOf(named(m), p), k)
  BY <1>7, PresetIs
<1>9. FormOK'
  BY <1>1, <1>3, <1>7, <1>8, FormSays DEF ShowConfig, FormOK, k
<1>. QED BY <1>2, <1>9, FormKeeps

\* A reused form says what its record does, at a fresh root.
LEMMA ReuseKeeps ==
  ASSUME SettingsInv, NEW e \in experiments, ReuseExperiment(e)
  PROVE  SettingsInv'
<1>. DEFINE k == allowance.starts  j == allowance'.starts
            b == Recorded(e)
            c == IF e.pin = Absent THEN b ELSE [b EXCEPT !.fields.revision = e.pin]
            no == FALSE
            root == FreshRoot(e.place[1], k)
            T == ToReuse(e, k)
<1>1. /\ Spent("starts") /\ UNCHANGED <<settings, declaration, experiments, dialog, child>>
      /\ runForm' = FormOf(T) /\ source' = e.place /\ ~(child.phase # "none" /\ child.screen)
  BY DEF ReuseExperiment, ShowConfig, Free
<1>2. /\ AllowanceOK' /\ j <= k /\ k \in Nat \ {0} /\ j = k - 1 /\ j \in Nat
  BY <1>1, SpentIs DEF SettingsInv, KeptOK
<1>3. SavedOK' /\ DiskOK' /\ DialogOK' /\ ChildOK'
  BY <1>1, <1>2, Untouched
<1>4. /\ \A f \in experiments : ExperimentOK(f, k)
      /\ \A f \in experiments : f.place = e.place => f = e
  BY DEF SettingsInv, KeptOK, DiskOK
<1>5. ExperimentOK(e, j)
  BY <1>2, <1>4, Lower
<1>6. RecordedAs(e, j)
  BY <1>5, RecordedIs
<1>7. /\ ConfigOK(c, j) /\ c.extra = b.extra
      /\ \A m \in Shown \ {"revision"} : c.fields[m] = b.fields[m]
      /\ c.fields.revision \in {e.pin, b.fields.revision}
  <2>. HIDE DEF b
  <2>1. ConfigOK(b, j)
    BY <1>6 DEF RecordedAs, b
  <2>2. CASE e.pin = Absent
    BY <2>1, <2>2
  <2>3. CASE e.pin # Absent
    <3>1. Exchangeable("revision", e.pin)
      BY <2>3, Names DEF Exchangeable
    <3>2. c = Reads(b, "revision", e.pin)
      BY <2>3 DEF Reads
    <3>. HIDE DEF c
    <3>3. /\ ConfigOK(Reads(b, "revision", e.pin), j) /\ Reads(b, "revision", e.pin).extra = b.extra
          /\ Reads(b, "revision", e.pin).fields["revision"] = e.pin
          /\ \A m \in Shown : m # "revision" => Reads(b, "revision", e.pin).fields[m] = b.fields[m]
      BY <2>1, <3>1, WithText
    <3>. QED BY <3>2, <3>3
  <2>. QED BY <2>2, <2>3
<1>8. T = Rooted(c, root, FALSE) /\ no = FALSE /\ no \in BOOLEAN
  BY DEF ToReuse, NewAttempt, Rooted
<1>9. RootOK(root, j) /\ root[2] = k
  BY <1>2 DEF FreshRoot, RootOK
<1>. HIDE DEF c, T, root, no
<1>10. RootedAs(T, c, root, no, j)
  <2>1. RootedAs(Rooted(c, root, no), c, root, no, j)
    BY <1>7, <1>8, <1>9, WithRoot
  <2>. QED BY <2>1, <1>8
<1>11. /\ ConfigOK(T, j) /\ T.extra = b.extra /\ T.fields.output = root /\ T.fields.resume = FALSE
       /\ \A m \in Shown \ {"revision", "output", "resume"} : T.fields[m] = b.fields[m]
       /\ T.fields.revision \in {e.pin, b.fields.revision}
  BY <1>7, <1>8, <1>10, Names DEF RootedAs
<1>12. /\ ConfigOK(FormOf(T), j)
       /\ \A n \in Shown : n # "hz" => FormOf(T).fields[n] = T.fields[n]
  BY <1>11, FormSays
<1>13. Agree(FormOf(T), e.options, Said \ {"revision"})
  BY <1>5, <1>11, ReuseAgrees
<1>14. FormOK'
  BY <1>1, <1>12 DEF FormOK
<1>15. /\ runForm'.fields.output = root /\ runForm'.fields.resume = FALSE
       /\ runForm'.fields.revision \in {e.pin, Stated(e.options, "revision")}
  <2>1. {"output", "resume", "revision"} \subseteq Shown
    BY Names
  <2>2. b.fields.revision = Stated(e.options, "revision")
    BY <2>1, <1>6 DEF RecordedAs, Stated
  <2>. QED BY <2>1, <2>2, <1>1, <1>11, <1>12
<1>16. ReuseOK'
  <2>1. InPlace(Place(runForm.fields))' = {}
    <3>1. ASSUME NEW f \in experiments, f.place = Place(runForm.fields)' PROVE FALSE
      <4>1. f.place[1] = root
        BY <3>1, <1>15 DEF Place
      <4>2. RootOK(f.place[1], k)
        BY <1>4 DEF ExperimentOK
      <4>. QED BY <4>1, <4>2, <1>2, <1>9 DEF RootOK
    <3>. QED BY <3>1, <1>1 DEF InPlace
  <2>2. e \in InPlace(source)'
    BY <1>1 DEF InPlace
  <2>3. ~(Live /\ child.screen)'
    BY <1>1 DEF Live
  <2>4. \A f \in experiments' : f.place = source' =>
              /\ Agree(runForm', f.options, Said \ {"revision"})
              /\ runForm'.fields.revision \in {f.pin, Stated(f.options, "revision")}
    BY <1>1, <1>4, <1>13, <1>15
  <2>5. runForm'.fields.output[2] # 0 /\ ~runForm'.fields.resume
    BY <1>2, <1>9, <1>15
  <2>. QED BY <2>1, <2>2, <2>3, <2>4, <2>5 DEF ReuseOK
<1>. QED BY <1>2, <1>3, <1>14, <1>16 DEF SettingsInv, KeptOK

\* Starting, from the form, from a record or from the dialog.
LEMMA StartKeeps ==
  ASSUME SettingsInv, PressStart
  PROVE  SettingsInv'
<1>. DEFINE p == Proposed(BuildCommand(runForm), Normal(runForm))  none == {}  no == FALSE
<1>1. /\ Spent("starts") /\ UNCHANGED <<declaration, experiments>> /\ Valid(runForm)
      /\ ReviewThen(p, {}, FALSE)
  BY DEF PressStart
<1>2. ConfigOK(runForm, allowance.starts)
  BY DEF SettingsInv, KeptOK, FormOK
<1>3. p.config = Normal(runForm) /\ p.command = BuildCommand(runForm) /\ p.declared = declaration
  BY DEF Proposed
<1>4. none = {} /\ no = FALSE /\ no \in BOOLEAN
  OBVIOUS
<1>. HIDE DEF p, no, none
<1>5. OfferOK(p, allowance.starts)
  <2>1. ValidAt(runForm, declaration)
    BY <1>1, ValidNow
  <2>2. /\ ConfigOK(Normal(runForm), allowance.starts) /\ ValidAt(Normal(runForm), declaration)
        /\ BuildCommand(Normal(runForm)) = BuildCommand(runForm)
    BY <1>2, <2>1, NormalOK
  <2>. QED BY <1>3, <2>2 DEF OfferOK
<1>6. ConfigOK(p.config, allowance.starts) /\ ReviewThen(p, none, no)
  BY <1>1, <1>4, <1>5 DEF OfferOK
<1>. QED BY <1>1, <1>4, <1>5, <1>6, ReviewKeeps

LEMMA ChosenKeeps ==
  ASSUME SettingsInv, NEW e \in experiments, ResumeChosen(e)
  PROVE  SettingsInv'
<1>. DEFINE T == ToResume(e)  p == Proposed(BuildCommand(T), T)  no == FALSE  yes == TRUE
            k == allowance.starts
<1>1. /\ Spent("starts") /\ UNCHANGED <<declaration, experiments>>
      /\ ReviewThen(p, {e}, FALSE)
  BY DEF ResumeChosen
<1>2. ExperimentOK(e, k)
  BY DEF SettingsInv, KeptOK, DiskOK
<1>3. p.config = T
  BY DEF Proposed
<1>4. no = FALSE /\ no \in BOOLEAN /\ yes = TRUE /\ yes \in BOOLEAN
  OBVIOUS
<1>5. T = Rooted(Recorded(e), e.place[1], TRUE)
  BY DEF ToResume, Rooted
<1>. HIDE DEF T, p, no, yes
<1>6. ConfigOK(T, k)
  <2>1. ConfigOK(Recorded(e), k) /\ RootOK(e.place[1], k)
    BY <1>2, RecordedIs DEF RecordedAs, ExperimentOK
  <2>2. RootedAs(Rooted(Recorded(e), e.place[1], yes), Recorded(e), e.place[1], yes, k)
    BY <2>1, <1>4, WithRoot
  <2>. QED BY <2>2, <1>4, <1>5 DEF RootedAs
<1>7. {e} # {} /\ ReviewThen(p, {e}, no)
  BY <1>1, <1>4
<1>8. ConfigOK(p.config, allowance.starts)
  BY <1>3, <1>6
<1>. QED BY <1>1, <1>4, <1>7, <1>8, ReviewKeeps

LEMMA AnswerKeeps ==
  ASSUME SettingsInv, AnswerReview
  PROVE  SettingsInv'
<1>. DEFINE yes == TRUE  none == {}
<1>1. yes = TRUE /\ yes \in BOOLEAN /\ none = {}
  OBVIOUS
<1>2. UNCHANGED <<declaration, experiments>>
  BY DEF AnswerReview
<1>3. DialogOK
  BY DEF SettingsInv, KeptOK
<1>4. CASE dialog' = NoDialog /\ UNCHANGED <<runForm, source, settings, child, allowance>>
  <2>1. AllowanceOK' /\ allowance'.starts <= allowance.starts
    BY <1>4 DEF SettingsInv, KeptOK, AllowanceOK
  <2>2. FormOK' /\ SavedOK' /\ DiskOK' /\ ChildOK'
    BY <1>2, <1>4, <2>1, Untouched
  <2>3. DialogOK'
    BY <1>4 DEF DialogOK, NoDialog, NoOffers
  <2>4. ReuseOK'
    BY <1>2, <1>4 DEF ReuseOK, SettingsInv, Live, InPlace
  <2>. QED BY <2>1, <2>2, <2>3, <2>4 DEF SettingsInv, KeptOK
<1>5. CASE Spent("starts") /\ \E p \in dialog.offers.resume : ReviewThen(p, dialog.record, TRUE)
  <2>1. PICK p \in dialog.offers.resume : ReviewThen(p, dialog.record, TRUE)
    BY <1>5
  <2>2. ConfigOK(p.config, allowance.starts) /\ p.config.fields.resume = TRUE
    BY <1>3 DEF DialogOK
  <2>. HIDE DEF yes
  <2>3. ReviewThen(p, dialog.record, yes)
    BY <1>1, <2>1
  <2>. QED BY <1>1, <1>2, <1>5, <2>2, <2>3, ReviewKeeps
<1>6. CASE Spent("starts") /\ \E p \in dialog.offers.restart : ReviewThen(p, {}, TRUE)
  <2>1. PICK p \in dialog.offers.restart : ReviewThen(p, {}, TRUE)
    BY <1>6
  <2>2. OfferOK(p, allowance.starts) /\ ConfigOK(p.config, allowance.starts)
    BY <1>3 DEF DialogOK, OfferOK
  <2>. HIDE DEF yes, none
  <2>3. ReviewThen(p, none, yes)
    BY <1>1, <2>1
  <2>. QED BY <1>1, <1>2, <1>6, <2>2, <2>3, ReviewKeeps
<1>. QED BY <1>4, <1>5, <1>6 DEF AnswerReview

\* A command that is typed was shown nowhere.
LEMMA TypeKeeps ==
  ASSUME SettingsInv, TypeCommand
  PROVE  SettingsInv'
<1>1. PICK t \in Typed : StartsRun(Proposed(t, Config(ConfigDefaults, Bare)), FALSE)
  BY DEF TypeCommand
<1>. DEFINE g == ParsedArgs(t)  j == allowance'.starts
<1>2. Spent("starts") /\ UNCHANGED <<runForm, source, settings, declaration, experiments, dialog>>
  BY DEF TypeCommand
<1>3. AllowanceOK' /\ j <= allowance.starts
  BY <1>2, SpentIs DEF SettingsInv, KeptOK
<1>4. FormOK' /\ SavedOK' /\ DiskOK' /\ DialogOK'
  BY <1>2, <1>3, Untouched
<1>5. /\ child'.phase = "starting" /\ child'.place = Place(g) /\ child'.given = t /\ child'.screen = FALSE
      /\ child' = [phase |-> child'.phase, place |-> child'.place, config |-> child'.config,
                   given |-> child'.given, screen |-> child'.screen, seen |-> child'.seen]
  BY <1>1 DEF StartsRun, Proposed
<1>6. DOMAIN g = Declared /\ \A n \in Declared : g[n] = IF n \in DOMAIN t THEN t[n] ELSE ParserDefaults[n]
  BY ParsedIs
<1>7. Args' = g
  BY <1>5 DEF Args
<1>. HIDE DEF g, j
<1>8. \A n \in DOMAIN t : Enterable(n, t[n])
  BY SettingsAssumption
<1>9. ArgsOK(g, j) /\ g.output[2] = 0
  <2>1. {"policy", "prune", "resume", "output", "model"} \subseteq Declared
    BY Names
  <2>2. g.policy # NoText
    BY <1>6, <1>8, <2>1, DefaultsAre, NoTexts DEF Enterable
  <2>3. g.prune \in BOOLEAN /\ g.resume \in BOOLEAN
    BY <1>6, <1>8, <2>1, DefaultsAre DEF Enterable
  <2>4. Tidy(g.model) = g.model
    <3>1. "model" \in DOMAIN t => Tidy(t.model) = t.model
      BY <1>8 DEF Enterable, Tidy
    <3>2. Tidy(ParserDefaults.model) = ParserDefaults.model
      BY DefaultsAre, NoTexts DEF Tidy
    <3>. QED BY <3>1, <3>2, <1>6, <2>1
  <2>5. g.output[2] = 0 /\ RootOK(g.output, j)
    <3>1. g.output = <<g.output[1], 0>>
      <4>1. "output" \in DOMAIN t => t.output = <<t.output[1], 0>>
        BY <1>8 DEF Enterable
      <4>2. "output" \notin DOMAIN t => g.output = <<"results", 0>>
        BY <1>6, <2>1, DefaultsAre
      <4>3. "output" \in DOMAIN t => g.output = t.output
        BY <1>6, <2>1
      <4>4. "output" \notin DOMAIN t => g.output = <<g.output[1], 0>>
        BY <4>2
      <4>. QED BY <4>1, <4>3, <4>4
    <3>. QED BY <3>1 DEF RootOK
  <2>. QED BY <2>2, <2>3, <2>4, <2>5 DEF ArgsOK
<1>10. ChildOK'
  <2>1. child'.place[1][2] = 0
    BY <1>5, <1>9 DEF Place
  <2>. QED BY <1>5, <1>7, <1>9, <2>1 DEF ChildOK, j
<1>11. ReuseOK'
  BY <1>2, <1>5 DEF ReuseOK, SettingsInv, Live, InPlace
<1>. QED BY <1>3, <1>4, <1>10, <1>11 DEF SettingsInv, KeptOK

-----------------------------------------------------------------------------
\* What is frozen of accepted arguments can be resumed and reused.
LEMMA FrozenOK ==
  ASSUME NEW g, Declared \subseteq DOMAIN g, NEW k, ArgsOK(g, k), NEW d,
         Sound(FromNamespace(g))
  PROVE  OptionsOK(FrozenAt(Settled(g), Pinned(Settled(g)), d), g.model)
<1>. DEFINE S == Settled(g)  dev == Pinned(S)  o == FrozenAt(S, dev, d)  F == FromNamespace(g)
<1>1. /\ DOMAIN S = DOMAIN g
      /\ \A n \in Shown : S[n] = IF n \in Texts THEN Tidy(IF g[n] = Absent THEN ConfigDefaults[n] ELSE g[n]) ELSE g[n]
  BY SettledIs
<1>2. FrozenAs(o, S, dev)
  BY <1>1, FrozenIs
<1>3. \A n \in Shown : F[n] = IF n \in Texts /\ g[n] = Absent THEN ConfigDefaults[n] ELSE g[n]
  BY FromIs
<1>4. dev = IF S.gpus = "off" THEN Absent ELSE "GPU-1"
  BY DEF Pinned
<1>. HIDE DEF S, dev, o, F
<1>5. /\ DOMAIN o \cap Ignored = {}
      /\ \A n \in DOMAIN o \ {"spec", "device", "spec_sha256"} : n \in DOMAIN S /\ o[n] = S[n]
      /\ \A n \in DOMAIN S \ (Ignored \cup {"policy", "spec", "device"}) : n \in DOMAIN o
      /\ "spec" \in DOMAIN o => o.spec = AbsolutePath(S.spec)
      /\ "device" \in DOMAIN o <=> ~(S.device = Absent /\ dev = Absent)
      /\ "device" \in DOMAIN o => o.device = IF dev = Absent THEN S.device ELSE dev
  BY <1>2 DEF FrozenAs
<1>6. /\ {"model", "gpus"} \subseteq DOMAIN S \ (Ignored \cup {"policy", "spec", "device"})
      /\ {"model", "gpus", "policy", "prune"} \cap {"spec", "device", "spec_sha256"} = {}
      /\ {"model", "policy", "spec", "gpus"} \subseteq Texts \cap Shown /\ "prune" \in Shown \ Texts
  BY <1>1, Names
<1>7. {"model", "gpus"} \subseteq DOMAIN o /\ o.model = S.model /\ o.gpus = S.gpus
  BY <1>5, <1>6
<1>8. S.model = g.model
  <2>1. g.model = Absent => F.model = NoText
    BY <1>3, <1>6, DefaultsAre
  <2>2. F.model # NoText
    BY DEF Sound, F
  <2>. QED BY <1>1, <1>6, <2>1, <2>2 DEF ArgsOK
<1>9. \A n \in Texts \cap Shown : S[n] # Absent /\ Tidy(S[n]) = S[n]
  BY <1>1, DefaultsTidy, TidyTwice
<1>10. ASSUME NEW n \in DOMAIN o \cap Texts \cap Shown PROVE o[n] # Absent /\ Tidy(o[n]) = o[n]
  <2>1. CASE n = "spec"
    <3>1. o[n] = AbsolutePath(S[n]) /\ n \in Texts \cap Shown /\ S[n] = Tidy(S[n])
      BY <2>1, <1>5, <1>6, <1>9
    <3>2. o[n] = AbsolutePath(Tidy(S[n]))
      BY <3>1
    <3>. QED BY <3>1, <3>2, <1>9, TidyTwice
  <2>2. CASE n # "spec"
    <3>1. n \notin {"spec", "device", "spec_sha256"}
      BY <2>2, Names
    <3>. QED BY <3>1, <1>5, <1>9
  <2>. QED BY <2>1, <2>2
<1>11. "policy" \in DOMAIN o => o.policy # NoText
  <2>1. S.policy # NoText
    <3>1. ConfigDefaults.policy = "auto"
      BY <1>6, DefaultsAre, NoTexts
    <3>2. g.policy # NoText /\ "auto" # NoText
      BY NoTexts DEF ArgsOK
    <3>3. (IF g.policy = Absent THEN ConfigDefaults.policy ELSE g.policy) # NoText
      BY <3>1, <3>2
    <3>4. S.policy = Tidy(IF g.policy = Absent THEN ConfigDefaults.policy ELSE g.policy)
      BY <1>1, <1>6
    <3>. QED BY <3>3, <3>4, TidyTwice
  <2>. QED BY <2>1, <1>5, <1>6
<1>12. "prune" \in DOMAIN o => o.prune \in BOOLEAN
  BY <1>1, <1>5, <1>6 DEF ArgsOK
<1>13. "spec" \in DOMAIN o => AbsolutePath(o.spec) = o.spec
  BY <1>5, TidyTwice
<1>14. o.gpus # "off" => "device" \in DOMAIN o /\ o.device = "GPU-1"
  BY <1>4, <1>5, <1>7, NoTexts
<1>15. OptionsOK(o, g.model)
  BY <1>5, <1>7, <1>8, <1>10, <1>11, <1>12, <1>13, <1>14 DEF OptionsOK
<1>. QED BY <1>15 DEF o, dev, S

\* auto resolves the revision and nothing else that is said.
LEMMA GivenIs ==
  ASSUME ArgsOK(Args, allowance.starts)
  PROVE  /\ Declared \subseteq DOMAIN Given /\ ArgsOK(Given, allowance.starts)
         /\ Given.model = Args.model /\ Given.resume = Args.resume
         /\ "requested" \notin DOMAIN child.given => Given = Args
<1>. DEFINE h == [revision |-> "commit", requested |-> child.given.requested, identity |-> "found"]
            a == Args
<1>1. DOMAIN a = Declared
  BY ParsedIs DEF Args
<1>2. DOMAIN h = {"revision", "requested", "identity"}
  OBVIOUS
<1>3. Given = IF "requested" \notin DOMAIN child.given THEN a ELSE Over(h, a)
  BY DEF Given, Prepared, Args
<1>. HIDE DEF h, a
<1>4. CASE "requested" \notin DOMAIN child.given
  BY <1>1, <1>3, <1>4 DEF a
<1>5. CASE "requested" \in DOMAIN child.given
  <2>1. Given = Over(h, a)
    BY <1>3, <1>5
  <2>2. DOMAIN Given = {"revision", "requested", "identity"} \cup Declared
        /\ \A n \in Declared \ {"revision", "requested", "identity"} : Given[n] = a[n]
    BY <1>1, <1>2, <2>1 DEF Over
  <2>3. {"policy", "prune", "resume", "output", "model"} \subseteq Declared \ {"revision", "requested", "identity"}
    BY Names
  <2>. QED BY <1>5, <2>2, <2>3 DEF ArgsOK, a
<1>. QED BY <1>4, <1>5

\* What a run that is accepted freezes is what was shown.
LEMMA FreezesIs ==
  ASSUME SettingsInv, child.phase = "starting", Accepted(Given)
  PROVE  /\ OptionsOK(Freezes, child.place[2])
         /\ child.place = <<child.place[1], child.place[2]>> /\ RootOK(child.place[1], allowance.starts)
         /\ child.screen => Agree(child.config, Freezes, Said)
         /\ Given.resume = Args.resume
<1>1. /\ ArgsOK(Args, allowance.starts) /\ child.place = Place(Args)
      /\ child.screen => "requested" \notin DOMAIN child.given /\ Says(child.config, Settled(Args))
  BY DEF SettingsInv, ChildOK, Live
<1>2. /\ Declared \subseteq DOMAIN Given /\ ArgsOK(Given, allowance.starts)
      /\ Given.model = Args.model /\ Given.resume = Args.resume
      /\ "requested" \notin DOMAIN child.given => Given = Args
  BY <1>1, GivenIs
<1>3. child.place[2] = Args.model /\ child.place[1] = Args.output /\ child.place = <<child.place[1], child.place[2]>>
  BY <1>1 DEF Place
<1>4. Freezes = FrozenAt(Settled(Given), Pinned(Settled(Given)), declaration)
  BY DEF Freezes, FrozenOptions, FrozenAt
<1>5. Sound(FromNamespace(Given))
  <2>1. ValidAt(Config(FromNamespace(Given), Bare), declaration)
    BY ValidNow DEF Accepted
  <2>. QED BY <2>1 DEF ValidAt, Config
<1>6. OptionsOK(Freezes, child.place[2])
  <2>1. OptionsOK(FrozenAt(Settled(Given), Pinned(Settled(Given)), declaration), Given.model)
    BY <1>2, <1>5, FrozenOK
  <2>. QED BY <2>1, <1>2, <1>3, <1>4
<1>7. ASSUME child.screen PROVE Agree(child.config, Freezes, Said)
  <2>1. Given = Args /\ Says(child.config, Settled(Given)) /\ DOMAIN Settled(Given) = DOMAIN Given
    BY <1>1, <1>2, <1>7, SettledIs
  <2>. QED BY <2>1, <1>2, <1>4, SaysAgrees
<1>. QED BY <1>1, <1>2, <1>3, <1>6, <1>7 DEF ArgsOK

\* A run that begins, goes on, is refused, and ends.
LEMMA BeginKeeps ==
  ASSUME SettingsInv, BeginNew
  PROVE  SettingsInv'
<1>1. /\ child.phase = "starting" /\ Accepted(Given) /\ ~Given.resume /\ InPlace(child.place) = {}
      /\ UNCHANGED <<runForm, source, settings, declaration, dialog, allowance>>
      /\ child' = [child EXCEPT !.phase = "measuring"]
  BY DEF BeginNew, MayBegin
<1>2. PICK pin : experiments' = experiments \cup
                    {[place |-> child.place, options |-> Freezes, pin |-> pin, done |-> FALSE]}
  BY DEF BeginNew
<1>. DEFINE x == [place |-> child.place, options |-> Freezes, pin |-> pin, done |-> FALSE]
            k == allowance.starts
<1>3. /\ OptionsOK(Freezes, child.place[2])
      /\ child.place = <<child.place[1], child.place[2]>> /\ RootOK(child.place[1], k)
      /\ child.screen => Agree(child.config, Freezes, Said)
  BY <1>1, FreezesIs
<1>4. x.place = child.place /\ x.options = Freezes /\ x.pin = pin /\ x.done = FALSE
      /\ x = [place |-> x.place, options |-> x.options, pin |-> x.pin, done |-> x.done]
  OBVIOUS
<1>5. experiments' = experiments \cup {x} /\ \A e \in experiments : e.place # child.place
  BY <1>1, <1>2 DEF InPlace
<1>. HIDE DEF x, k
<1>6. AllowanceOK' /\ allowance'.starts <= allowance.starts
  BY <1>1 DEF SettingsInv, KeptOK, AllowanceOK
<1>7. FormOK' /\ SavedOK' /\ DialogOK'
  BY <1>1, <1>6, Untouched
<1>8. DiskOK'
  <2>1. ExperimentOK(x, k)
    BY <1>3, <1>4 DEF ExperimentOK
  <2>. QED BY <1>1, <1>4, <1>5, <2>1 DEF DiskOK, SettingsInv, KeptOK, k
<1>9. /\ child'.phase = "measuring" /\ child'.place = child.place /\ child'.config = child.config
      /\ child'.given = child.given /\ child'.screen = child.screen /\ child'.seen = child.seen
      /\ child' = [phase |-> child'.phase, place |-> child'.place, config |-> child'.config,
                   given |-> child'.given, screen |-> child'.screen, seen |-> child'.seen]
  BY <1>1 DEF SettingsInv, ChildOK
<1>10. ChildOK'
  <2>1. Args' = Args /\ x \in InPlace(child.place)'
    BY <1>4, <1>5, <1>9 DEF Args, InPlace
  <2>2. ~x.done /\ (child'.screen => Agree(child'.config, x.options, Said))
    BY <1>3, <1>4, <1>9
  <2>. QED BY <1>1, <1>9, <2>1, <2>2 DEF ChildOK, SettingsInv, Live
<1>11. ReuseOK'
  <2>1. ASSUME source # NoSource PROVE child.place # Place(runForm.fields) /\ child.place # source /\ ~child.screen
    <3>1. ~child.screen /\ runForm.fields.output[2] # 0 /\ InPlace(source) # {}
      BY <2>1, <1>1 DEF SettingsInv, ReuseOK, Live
    <3>2. child.place[1][2] = 0
      BY <1>1, <3>1 DEF SettingsInv, ChildOK, Live
    <3>. QED BY <3>1, <3>2, <1>5 DEF Place, InPlace
  <2>2. source # NoSource => InPlace(source)' # {} /\ InPlace(Place(runForm.fields))' = {}
    BY <1>1, <1>4, <1>5, <2>1 DEF InPlace, SettingsInv, ReuseOK
  <2>3. source # NoSource => \A e \in experiments' : e.place = source => e \in experiments
    BY <1>4, <1>5, <2>1
  <2>4. source # NoSource => ~child'.screen
    BY <1>9, <2>1
  <2>. QED BY <1>1, <2>2, <2>3, <2>4 DEF ReuseOK, SettingsInv
<1>. QED BY <1>6, <1>7, <1>8, <1>10, <1>11 DEF SettingsInv, KeptOK

LEMMA ContinueKeeps ==
  ASSUME SettingsInv, ContinueOld
  PROVE  SettingsInv'
<1>1. /\ child.phase = "starting" /\ Accepted(Given) /\ Continues # {}
      /\ UNCHANGED <<runForm, source, settings, declaration, experiments, dialog, allowance>>
      /\ child' = [child EXCEPT !.phase = "measuring"]
  BY DEF ContinueOld, MayBegin
<1>2. PICK e \in InPlace(child.place) : ~e.done /\ e.options = Freezes
  BY <1>1 DEF Continues, Incomplete, Same
<1>3. child.screen => Agree(child.config, Freezes, Said)
  BY <1>1, FreezesIs
<1>4. AllowanceOK' /\ allowance'.starts <= allowance.starts
  BY <1>1 DEF SettingsInv, KeptOK, AllowanceOK
<1>5. FormOK' /\ SavedOK' /\ DialogOK' /\ DiskOK'
  BY <1>1, <1>4, Untouched
<1>6. /\ child'.phase = "measuring" /\ child'.place = child.place /\ child'.config = child.config
      /\ child'.given = child.given /\ child'.screen = child.screen /\ child'.seen = child.seen
      /\ child' = [phase |-> child'.phase, place |-> child'.place, config |-> child'.config,
                   given |-> child'.given, screen |-> child'.screen, seen |-> child'.seen]
  BY <1>1 DEF SettingsInv, ChildOK
<1>7. ChildOK'
  <2>1. Args' = Args /\ e \in InPlace(child.place)'
    BY <1>1, <1>6 DEF Args, InPlace
  <2>. QED BY <1>1, <1>2, <1>3, <1>6, <2>1 DEF ChildOK, SettingsInv, Live
<1>8. ReuseOK'
  <2>1. InPlace(source)' = InPlace(source) /\ InPlace(Place(runForm.fields))' = InPlace(Place(runForm.fields))
        /\ Live' = Live /\ child'.screen = child.screen
    BY <1>1, <1>6 DEF InPlace, Live
  <2>. QED BY <2>1, <1>1 DEF ReuseOK, SettingsInv
<1>. QED BY <1>4, <1>5, <1>7, <1>8 DEF SettingsInv, KeptOK

LEMMA RefusedKeeps ==
  ASSUME SettingsInv, Refused
  PROVE  SettingsInv'
<1>1. UNCHANGED <<runForm, source, settings, declaration, experiments, dialog, allowance>> /\ child' = NoRun
  BY DEF Refused
<1>2. AllowanceOK' /\ allowance'.starts <= allowance.starts
  BY <1>1 DEF SettingsInv, KeptOK, AllowanceOK
<1>3. FormOK' /\ SavedOK' /\ DialogOK' /\ DiskOK'
  BY <1>1, <1>2, Untouched
<1>4. ChildOK' /\ ~Live'
  BY <1>1 DEF ChildOK, Live, NoRun
<1>5. ReuseOK'
  BY <1>1, <1>4 DEF ReuseOK, SettingsInv, InPlace
<1>. QED BY <1>2, <1>3, <1>4, <1>5 DEF SettingsInv, KeptOK

LEMMA EndKeeps ==
  ASSUME SettingsInv, NEW complete \in BOOLEAN, RunEnds(complete)
  PROVE  SettingsInv'
<1>. DEFINE ended(e) == IF e.place = child.place THEN [e EXCEPT !.done = complete] ELSE e
            k == allowance.starts
<1>1. /\ UNCHANGED <<runForm, source, settings, declaration, dialog, allowance>> /\ child' = NoRun
      /\ experiments' = {ended(e) : e \in experiments}
  BY DEF RunEnds
<1>2. AllowanceOK' /\ allowance'.starts <= allowance.starts
  BY <1>1 DEF SettingsInv, KeptOK, AllowanceOK
<1>3. FormOK' /\ SavedOK' /\ DialogOK'
  BY <1>1, <1>2, Untouched
<1>4. \A e \in experiments : ExperimentOK(e, k)
  BY DEF SettingsInv, KeptOK, DiskOK
<1>5. ASSUME NEW e \in experiments
      PROVE  /\ ended(e).place = e.place /\ ended(e).options = e.options /\ ended(e).pin = e.pin
             /\ ended(e).done \in BOOLEAN
             /\ ended(e) = [place |-> ended(e).place, options |-> ended(e).options, pin |-> ended(e).pin,
                            done |-> ended(e).done]
  BY <1>4 DEF ExperimentOK
<1>. HIDE DEF ended, k
<1>6. DiskOK'
  <2>1. \A f \in experiments' : ExperimentOK(f, k)
    BY <1>1, <1>4, <1>5 DEF ExperimentOK
  <2>2. ASSUME NEW f \in experiments', NEW g \in experiments', f.place = g.place PROVE f = g
    <3>1. PICK e \in experiments : f = ended(e)
      BY <1>1
    <3>2. PICK h \in experiments : g = ended(h)
      BY <1>1
    <3>3. e.place = h.place
      BY <1>5, <2>2, <3>1, <3>2
    <3>. QED BY <3>1, <3>2, <3>3 DEF SettingsInv, KeptOK, DiskOK
  <2>. QED BY <1>1, <2>1, <2>2 DEF DiskOK, k
<1>7. ChildOK' /\ ~Live'
  BY <1>1 DEF ChildOK, Live, NoRun
<1>8. ReuseOK'
  <2>2. \A f \in experiments' : \E e \in experiments : f.place = e.place /\ f.options = e.options /\ f.pin = e.pin
    BY <1>1, <1>5
  <2>3. /\ InPlace(source)' = {} <=> InPlace(source) = {}
        /\ InPlace(Place(runForm.fields))' = {} <=> InPlace(Place(runForm.fields)) = {}
    BY <1>1, <1>5 DEF InPlace
  <2>4. ASSUME source # NoSource, NEW f \in experiments', f.place = source
        PROVE  /\ Agree(runForm, f.options, Said \ {"revision"})
               /\ runForm.fields.revision \in {f.pin, Stated(f.options, "revision")}
    <3>1. PICK e \in experiments : f.place = e.place /\ f.options = e.options /\ f.pin = e.pin
      BY <2>2
    <3>. QED BY <2>4, <3>1 DEF SettingsInv, ReuseOK
  <2>5. ReuseOK
    BY DEF SettingsInv
  <2>. QED BY <1>1, <1>7, <2>3, <2>4, <2>5 DEF ReuseOK
<1>. QED BY <1>2, <1>3, <1>6, <1>7, <1>8 DEF SettingsInv, KeptOK

\* Another declaration changes no setting.
LEMMA DeclarationKeeps ==
  ASSUME SettingsInv, EditDeclaration
  PROVE  SettingsInv'
<1>1. Spent("edits") /\ UNCHANGED <<runForm, source, settings, experiments, dialog, child>>
  BY DEF EditDeclaration
<1>2. AllowanceOK' /\ allowance'.starts <= allowance.starts
  BY <1>1, SpentIs DEF SettingsInv, KeptOK
<1>3. FormOK' /\ SavedOK' /\ DialogOK' /\ DiskOK' /\ ChildOK'
  BY <1>1, <1>2, Untouched
<1>4. ReuseOK'
  BY <1>1 DEF ReuseOK, SettingsInv, Live, InPlace
<1>. QED BY <1>2, <1>3, <1>4 DEF SettingsInv, KeptOK

\* The screen opens with the smoke settings, and every step keeps what holds.
LEMMA SettingsStart ==
  ASSUME SettingsInit
  PROVE  SettingsInv
<1>. DEFINE k == allowance.starts  c == Config(SmokeTemplate, Bare)
<1>1. /\ settings = [defaults |-> {}, last |-> NoText] /\ runForm = FormOf(c) /\ source = NoSource
      /\ experiments = {} /\ dialog = NoDialog /\ child = NoRun
      /\ allowance = [edits |-> MaxEdits, starts |-> MaxStarts]
  BY DEF SettingsInit
<1>2. AllowanceOK
  <2>1. MaxEdits \in Nat /\ MaxStarts \in Nat
    BY SettingsAssumption
  <2>2. allowance = [n \in {"edits", "starts"} |-> IF n = "edits" THEN MaxEdits ELSE MaxStarts]
    BY <1>1
  <2>. QED BY <2>1, <2>2 DEF AllowanceOK
<1>3. ConfigOK(c, k)
  <2>1. FieldsOK(PresetValue("smoke"), k) /\ PresetValue("smoke") = SmokeTemplate
    BY TemplatesOK DEF PresetValue
  <2>. QED BY <2>1 DEF ConfigOK, Config
<1>. HIDE DEF c, k
<1>4. FormOK
  BY <1>1, <1>3, FormSays DEF FormOK, k
<1>5. SavedOK
  BY <1>1, NoTexts DEF SavedOK, Tidy
<1>6. DiskOK /\ DialogOK
  BY <1>1 DEF DiskOK, DialogOK, NoDialog, NoOffers
<1>7. ChildOK
  BY <1>1 DEF ChildOK, Live, NoRun
<1>8. ReuseOK
  BY <1>1 DEF ReuseOK
<1>. QED BY <1>2, <1>4, <1>5, <1>6, <1>7, <1>8 DEF SettingsInv, KeptOK

LEMMA SettingsKeep ==
  ASSUME SettingsInv, [SettingsNext]_settingVars
  PROVE  SettingsInv'
<1>1. CASE UNCHANGED settingVars
  <2>1. UNCHANGED <<runForm, source, settings, declaration, experiments, dialog, child, allowance>>
    BY <1>1 DEF settingVars
  <2>2. AllowanceOK' /\ allowance'.starts <= allowance.starts
    BY <2>1 DEF SettingsInv, KeptOK, AllowanceOK
  <2>3. FormOK' /\ SavedOK' /\ DialogOK' /\ DiskOK' /\ ChildOK'
    BY <2>1, <2>2, Untouched
  <2>4. ReuseOK'
    BY <2>1 DEF ReuseOK, SettingsInv, Live, InPlace
  <2>. QED BY <2>2, <2>3, <2>4 DEF SettingsInv, KeptOK
<1>2. ASSUME NEW e \in experiments, ReuseExperiment(e) \/ ResumeChosen(e) PROVE SettingsInv'
  BY <1>2, ReuseKeeps, ChosenKeeps
<1>3. ASSUME NEW complete \in BOOLEAN, RunEnds(complete) PROVE SettingsInv'
  BY <1>3, EndKeeps
<1>. QED BY <1>1, <1>2, <1>3, EnterKeeps, PresetKeeps, SaveKeeps, ReopenKeeps, DeclarationKeeps, StartKeeps,
         AnswerKeeps, TypeKeeps, BeginKeeps, ContinueKeeps, RefusedKeeps DEF SettingsNext

\* What the invariant says of what is shown, offered and reused.
LEMMA SettingsHold ==
  ASSUME SettingsInv
  PROVE  ShownIsFrozen /\ OffersHold /\ ReusedIsSame
<1>1. ShownIsFrozen
  BY DEF SettingsInv, ChildOK, Live, ShownIsFrozen, Said
<1>2. ASSUME child.phase = "starting", child.screen,
             child.seen = [declared |-> declaration, there |-> InPlace(child.place)]
      PROVE  MayBegin
  <2>. DEFINE S == Settled(Args)
  <2>1. child.seen.declared = declaration /\ child.seen.there = InPlace(child.place)
    BY <1>2
  <2>2. /\ ArgsOK(Args, allowance.starts) /\ "requested" \notin DOMAIN child.given /\ Begins
    BY <1>2 DEF SettingsInv, ChildOK, Live
  <2>3. Given = Args
    BY <2>2, GivenIs
  <2>4. Accepted(Given)
    BY <2>1, <2>2, <2>3, ValidNow DEF Begins, Accepted
  <2>5. Freezes = FrozenAt(S, Pinned(S), declaration)
    BY <2>3 DEF Freezes, FrozenOptions, FrozenAt
  <2>6. IF Args.resume
        THEN \E e \in InPlace(child.place) : Incomplete(e) /\ e.options = FrozenAt(S, Pinned(S), declaration)
        ELSE InPlace(child.place) = {}
    BY <2>1, <2>2 DEF Begins
  <2>7. Args.resume => Continues # {}
    BY <2>5, <2>6 DEF Continues, Same
  <2>. QED BY <2>3, <2>4, <2>6, <2>7 DEF MayBegin
<1>3. ReusedIsSame
  <2>1. ASSUME NEW e \in experiments, source = e.place PROVE source # NoSource
    <3>1. e.place = <<e.place[1], e.place[2]>>
      BY DEF SettingsInv, KeptOK, DiskOK, ExperimentOK
    <3>2. Len(e.place) = 2
      BY <3>1
    <3>. QED BY <2>1, <3>2 DEF NoSource
  <2>2. Declared \ (Ignored \cup {"revision"}) = Said \ {"revision"}
    BY DEF Said
  <2>. QED BY <2>1, <2>2 DEF ReusedIsSame, SettingsInv, ReuseOK
<1>. QED BY <1>1, <1>2, <1>3 DEF OffersHold

\* A step leaves what is frozen.
FrozenStay == \A e \in experiments : \E f \in experiments' :
    f.place = e.place /\ f.options = e.options /\ (e.done => f.done)

LEMMA FrozenKept ==
  ASSUME SettingsInv, [SettingsNext]_settingVars
  PROVE  FrozenStay
<1>1. CASE experiments' = experiments
  BY <1>1 DEF FrozenStay
<1>2. CASE BeginNew
  BY <1>2 DEF BeginNew, FrozenStay
<1>3. ASSUME NEW complete \in BOOLEAN, RunEnds(complete) PROVE FrozenStay
  <2>1. PICK d \in InPlace(child.place) : ~d.done
    BY <1>3 DEF RunEnds, SettingsInv, ChildOK
  <2>2. ASSUME NEW e \in experiments
        PROVE  \E f \in experiments' : f.place = e.place /\ f.options = e.options /\ (e.done => f.done)
    <3>1. e = [place |-> e.place, options |-> e.options, pin |-> e.pin, done |-> e.done]
      BY DEF SettingsInv, KeptOK, DiskOK, ExperimentOK
    <3>2. CASE e.place = child.place
      <4>1. e = d
        BY <2>1, <3>2 DEF InPlace, SettingsInv, KeptOK, DiskOK
      <4>. DEFINE f == [e EXCEPT !.done = complete]
      <4>2. f \in experiments'
        BY <1>3, <3>2 DEF RunEnds
      <4>3. f.place = e.place /\ f.options = e.options
        BY <3>1
      <4>. QED BY <2>1, <4>1, <4>2, <4>3
    <3>3. CASE e.place # child.place
      <4>1. e \in experiments'
        BY <1>3, <3>3 DEF RunEnds
      <4>. QED BY <4>1
    <3>. QED BY <3>2, <3>3
  <2>. QED BY <2>2 DEF FrozenStay
<1>4. experiments' = experiments \/ BeginNew \/ \E complete \in BOOLEAN : RunEnds(complete)
  BY DEF SettingsNext, settingVars, EnterField, ChoosePreset, SaveDefaults, Reopen, EditDeclaration,
         ReuseExperiment, ResumeChosen, PressStart, AnswerReview, TypeCommand, ContinueOld, Refused
<1>. QED BY <1>1, <1>2, <1>3, <1>4

\* Settings survive every conversion: a started run measures what was shown, an
\* offered resume is accepted by the run, a reused form says what was frozen, and
\* nothing that is started changes what another run has frozen.
THEOREM SettingsAlwaysSurvive == SettingsSpec => SettingsSurvive
<1>1. SettingsInit => SettingsInv
  BY SettingsStart
<1>2. SettingsInv /\ [SettingsNext]_settingVars => SettingsInv'
  BY SettingsKeep
<1>3. SettingsInv => ShownIsFrozen /\ OffersHold /\ ReusedIsSame
  BY SettingsHold
<1>4. SettingsInv /\ [SettingsNext]_settingVars => FrozenStay
  BY FrozenKept
<1>5. SettingsSpec => []SettingsInv
  BY <1>1, <1>2, PTL DEF SettingsSpec
<1>6. SettingsSpec => [](ShownIsFrozen /\ OffersHold /\ ReusedIsSame)
  BY <1>3, <1>5, PTL
<1>7. SettingsSpec => [][FrozenStay]_settingVars
  BY <1>4, <1>5, PTL DEF SettingsSpec
<1>. QED BY <1>6, <1>7, PTL DEF SettingsSurvive, FrozenStays, FrozenStay
=============================================================================
