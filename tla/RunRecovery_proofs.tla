------------------------- MODULE RunRecovery_proofs -------------------------
(***************************************************************************)
(* Proofs about RunRecovery, for every set of processes and users, every   *)
(* number of cases and every bound.  The inductive invariant is IInv; its  *)
(* parts say what a process inside the directory knows about the disk.     *)
(***************************************************************************)
EXTENDS RunRecovery, TLAPS

\* TypeOK and what it needs to be inductive: a process at work has an attempt
\* number, and a CSV without an author is no CSV.
TypeInv ==
    /\ TypeOK
    /\ \A p \in Procs : pc[p] \in Working => att[p] \in Attempts
    /\ \A c \in Cases : csv[c].by = 0 => csv[c] = NoCsv
-----------------------------------------------------------------------------
(* What is on disk. *)

\* The samples of case c by attempt a are where a checkpoint expects them.
Requested(c, a) == IF RequestEvidence(c, a) \in produced THEN a ELSE 0

\* A checkpointed case has its rows and its samples.
Checkpointed(r, c) ==
    /\ r.cases[c].sha \in Attempts
    /\ csv[c].full /\ csv[c].by \in {r.cases[c].sha, Foreign}
    /\ csv[c].rt = r.rt /\ csv[c].id = r.id
    /\ work[c] = 0 /\ kept[c] = Requested(c, r.cases[c].sha)

\* A complete experiment has published what its checkpoints name.
PublishedAs(r) ==
    /\ r.rt # 0 /\ r.plan = r.rt
    /\ \A c \in Cases :
          /\ r.cases[c].st = "complete" /\ r.cases[c].sha \in Attempts
          /\ final[c] = [by |-> r.cases[c].sha, rt |-> r.rt, id |-> r.id, full |-> TRUE]

\* The records that tell the truth about the disk.
Truthful ==
    {r \in RunRecord :
        IF r.st = "complete" THEN PublishedAs(r)
        ELSE \A c \in Cases : r.cases[c].st = "complete" => Checkpointed(r, c)}

\* Attempt numbers are fresh.
FreshInv == \A e \in produced : e.by \in 1..attempts

DataInv == FreshInv /\ rec \in Truthful /\ EvidencePreserved
-----------------------------------------------------------------------------
(* What a process knows at each program point inside the directory. *)

\* The record in memory is the one on disk, and the experiment is unfinished.
Synced(p) ==
    /\ mem[p] = rec /\ rec.id = ident[p] /\ rec.st # "complete"
    /\ att[p] = attempts

\* This attempt has not asked for any sample of the cases from number k on.
Unrequested(p, k) ==
    \A c \in Cases : c >= k => RequestEvidence(c, att[p]) \notin produced

AttemptOK(p) ==
    /\ mem[p].st # "absent" /\ mem[p].id = ident[p]
    /\ mem[p].cases = rec.cases /\ mem[p].rt = rec.rt /\ mem[p].plan = rec.plan
    /\ mem[p].st = "complete" <=> rec.st = "complete"
    /\ rec.st = "complete" => mem[p] = rec
    /\ mem[p] \in Truthful
    /\ mem[p].rt = 0 /\ mem[p].st # "complete" =>
          NoCaseStarted(mem[p]) /\ PrepLeftovers \subseteq backup

Preparing(p) == Synced(p) /\ Unrequested(p, 1) /\ NoCaseStarted(rec)

PrepareOK(p) == Preparing(p) /\ PrepLeftovers \subseteq backup

BindRuntimeOK(p) == Preparing(p) /\ meta = att[p]

PlanOK(p) == Synced(p) /\ Unrequested(p, 1) /\ rec.rt # 0

BindPlanOK(p) == PlanOK(p) /\ plan = rec.rt

\* Cases before the loop's index are checkpointed and were verified.
LoopOK(p) ==
    /\ Synced(p) /\ rec.rt # 0 /\ rec.plan = rec.rt
    /\ \A c \in Cases : c < idx[p] =>
          rec.cases[c].st = "complete" /\ csv[c].by = rec.cases[c].sha

CaseOK(p) == LoopOK(p) /\ Unrequested(p, idx[p])

OpenCase(p) == LoopOK(p) /\ idx[p] \in Cases /\ rec.cases[idx[p]].st # "complete"

ArchiveOK(p) ==
    /\ OpenCase(p) /\ Unrequested(p, idx[p])
    /\ Leftovers(idx[p]) \subseteq backup

RowsOf(p, f) == [by |-> att[p], rt |-> rec.rt, id |-> rec.id, full |-> f]

MeasureOK(p) ==
    /\ OpenCase(p) /\ Unrequested(p, idx[p] + 1)
    /\ csv[idx[p]] \in {NoCsv, RowsOf(p, FALSE)}
    /\ kept[idx[p]] = 0 /\ work[idx[p]] = Requested(idx[p], att[p])

FinishOK(p) ==
    /\ OpenCase(p) /\ Unrequested(p, idx[p] + 1)
    /\ csv[idx[p]] = RowsOf(p, TRUE)
    /\ kept[idx[p]] = 0 /\ work[idx[p]] = Requested(idx[p], att[p])

RecordOK(p) ==
    /\ OpenCase(p) /\ Unrequested(p, idx[p] + 1)
    /\ csv[idx[p]] = RowsOf(p, TRUE)
    /\ work[idx[p]] = 0 /\ kept[idx[p]] = Requested(idx[p], att[p])

GateOK(p) ==
    /\ Synced(p) /\ rec.rt # 0 /\ rec.plan = rec.rt
    /\ final = csv
    /\ \A c \in Cases : rec.cases[c].st = "complete" /\ csv[c].by = rec.cases[c].sha

CleanupOK(p) ==
    /\ mem[p] = rec /\ rec.st = "complete"
    /\ \A c \in Cases : work[c] = 0 /\ csv[c] \in {NoCsv, final[c]}

\* After a failed write the record in memory is ahead of the one on disk by
\* that write, which decides at most one case.
Ahead(m, r) ==
    \/ m.cases = r.cases
    \/ /\ m.st # "complete"
       /\ \E c \in Cases : /\ r.cases[c].st # "complete"
                           /\ \A d \in Cases \ {c} : m.cases[d] = r.cases[d]

ClosingOK(p) ==
    /\ Ahead(mem[p], rec)
    /\ rec.st = "complete" => mem[p] = rec
    /\ mem[p] \in Truthful

ProcOK(p) ==
    /\ pc[p] = "attempt" => AttemptOK(p)
    /\ pc[p] = "prepare" => PrepareOK(p)
    /\ pc[p] = "bindRuntime" => BindRuntimeOK(p)
    /\ pc[p] = "plan" => PlanOK(p)
    /\ pc[p] = "bindPlan" => BindPlanOK(p)
    /\ pc[p] = "case" => CaseOK(p)
    /\ pc[p] \in {"archive", "unlink"} => ArchiveOK(p)
    /\ pc[p] = "measure" => MeasureOK(p)
    /\ pc[p] = "finish" => FinishOK(p)
    /\ pc[p] = "record" => RecordOK(p)
    /\ pc[p] = "gate" => GateOK(p)
    /\ pc[p] = "cleanup" => CleanupOK(p)
    /\ pc[p] = "closing" => ClosingOK(p)

IInv == TypeInv /\ LockDiscipline /\ DataInv /\ \A p \in Procs : ProcOK(p)
-----------------------------------------------------------------------------
(* Types *)

\* What the constants give: tokens, attempts, users and processes.
LEMMA ConstantTypes ==
    /\ 0 \in Token /\ Foreign \in Token /\ Attempts \subseteq Token
    /\ 0 \in Idents \cup {0}
    /\ \A a \in Attempts : a # 0 /\ a # Foreign
    /\ \A p \in Procs : UserOf[p] \in Users /\ p # NoProc
BY ConstantsAssumption DEF Token, Foreign, Attempts, Users

\* Updating a field of a run record gives a run record.
LEMMA RecordTypes ==
    /\ NoRecord \in RunRecord
    /\ \A m \in RunRecord :
          /\ \A s \in Statuses : [m EXCEPT !.st = s] \in RunRecord
          /\ \A i \in Idents \cup {0} : [m EXCEPT !.id = i] \in RunRecord
          /\ \A r \in Token : /\ [m EXCEPT !.plan = r] \in RunRecord
                             /\ [m EXCEPT !.rt = r, !.st = "running"] \in RunRecord
<1>1. NoRecord \in RunRecord
  BY ConstantTypes DEF NoRecord, RunRecord, NoCase, CaseRecord, CaseStates, Statuses
<1>2. ASSUME NEW m \in RunRecord, NEW s \in Statuses PROVE [m EXCEPT !.st = s] \in RunRecord
  BY <1>2 DEF RunRecord
<1>3. ASSUME NEW m \in RunRecord, NEW i \in Idents \cup {0} PROVE [m EXCEPT !.id = i] \in RunRecord
  BY <1>3 DEF RunRecord
<1>4. ASSUME NEW m \in RunRecord, NEW r \in Token
      PROVE  /\ [m EXCEPT !.plan = r] \in RunRecord
             /\ [m EXCEPT !.rt = r, !.st = "running"] \in RunRecord
  BY <1>4 DEF RunRecord, Statuses
<1>. QED BY <1>1, <1>2, <1>3, <1>4

\* A CSV stays a CSV when it is started, completed or edited.
LEMMA CsvTypes ==
    /\ NoCsv \in CsvFile /\ NoCsv.by = 0 /\ NoFinal \in [Cases -> CsvFile]
    /\ \A a, r \in Token, i \in Idents \cup {0} :
          [by |-> a, rt |-> r, id |-> i, full |-> FALSE] \in CsvFile
    /\ \A f \in CsvFile : /\ f.by \in Token
                          /\ [f EXCEPT !.full = TRUE] \in CsvFile
                          /\ [f EXCEPT !.full = TRUE].by = f.by
                          /\ [f EXCEPT !.by = Foreign] \in CsvFile
                          /\ [f EXCEPT !.by = Foreign].by = Foreign
BY ConstantTypes DEF NoCsv, NoFinal, CsvFile

\* Whatever an attempt leaves behind is evidence.
LEMMA EvidenceTypes ==
    \A a \in Token \ {0} :
        /\ PrepEvidence(a) \in Evidence
        /\ \A c \in Cases : CsvEvidence(c, a) \in Evidence /\ RequestEvidence(c, a) \in Evidence
BY ConstantsAssumption DEF Evidence, PrepEvidence, CsvEvidence, RequestEvidence, Cases

\* Writing a checkpoint into a run record gives a run record.
LEMMA SetCaseType ==
    \A m \in RunRecord, c \in Cases, st \in CaseStates, sha \in Token :
        SetCase(m, c, st, sha) \in RunRecord
<1>. SUFFICES ASSUME NEW m \in RunRecord, NEW c \in Cases, NEW st \in CaseStates, NEW sha \in Token
              PROVE  SetCase(m, c, st, sha) \in RunRecord
  OBVIOUS
<1>1. [st |-> st, sha |-> sha] \in CaseRecord
  BY DEF CaseRecord
<1>2. [m.cases EXCEPT ![c] = [st |-> st, sha |-> sha]] \in [Cases -> CaseRecord]
  BY <1>1 DEF RunRecord
<1>. QED BY <1>2 DEF SetCase, RunRecord

\* The fields of a run record.
LEMMA RecordFields ==
    \A m \in RunRecord : m.rt \in Token /\ m.plan \in Token /\ m.id \in Idents \cup {0}
BY DEF RunRecord

\* RunState.save keeps the types, whether it succeeds or fails.
LEMMA SaveType ==
    ASSUME TypeInv, NEW p \in Procs, NEW m \in RunRecord, NEW where \in PCs, Save(p, m, where)
    PROVE  /\ rec' \in RunRecord /\ mem' \in [Procs -> RunRecord]
           /\ pc' \in [Procs -> PCs]
BY DEF Save, Goto, Fault, TypeInv, TypeOK, DiskOK, LocalOK, PCs

\* A process that lets go keeps the types.
LEMMA ForgetType == ASSUME TypeInv, NEW p \in Procs, Forget(p) PROVE LocalOK'
<1>1. NoRecord \in RunRecord
  BY RecordTypes
<1>2. 0 \in 0..(NumCases + 1)
  BY ConstantsAssumption
<1>. QED BY <1>1, <1>2 DEF Forget, Goto, TypeInv, TypeOK, LocalOK, PCs

\* The loop's index stays within the cases and their end.
LEMMA IdxType == 1 \in 0..(NumCases + 1) /\ \A c \in Cases : c + 1 \in 0..(NumCases + 1)
BY ConstantsAssumption DEF Cases

\* What _archive_preparation copies is evidence.
LEMMA PrepType == TypeInv => PrepLeftovers \subseteq Evidence
BY EvidenceTypes DEF PrepLeftovers, TypeInv, TypeOK, DiskOK

\* What prepare_case copies is evidence.
LEMMA LeftoversType == ASSUME TypeInv, NEW c \in Cases PROVE Leftovers(c) \subseteq Evidence
<1>1. csv[c] # NoCsv => CsvEvidence(c, csv[c].by) \in Evidence
  BY EvidenceTypes, CsvTypes DEF TypeInv, TypeOK, DiskOK
<1>2. \A a \in {work[c], kept[c]} \ {0} : RequestEvidence(c, a) \in Evidence
  BY EvidenceTypes DEF TypeInv, TypeOK, DiskOK
<1>. QED BY <1>1, <1>2 DEF Leftovers

\* Every step keeps the types.
LEMMA TypeInvStep == TypeInv /\ [Next]_vars => TypeInv'
<1>. SUFFICES ASSUME TypeInv, [Next]_vars PROVE TypeInv'
  OBVIOUS
<1>1. ASSUME NEW p \in Procs, LaunchNew(p) PROVE TypeInv'
  <2>1. DiskOK'
    BY <1>1 DEF LaunchNew, Launch, Goto, disk, bounds, TypeInv, TypeOK, DiskOK
  <2>2. LocksOK'
    BY <1>1, ConstantTypes DEF LaunchNew, Launch, Goto, disk, bounds, TypeInv, TypeOK,
       LocksOK
  <2>3. LocalOK'
    BY <1>1, ConstantsAssumption DEF LaunchNew, Launch, Goto, disk, bounds, TypeInv,
       TypeOK, LocalOK, PCs
  <2>4. BoundsOK'
    BY <1>1, ConstantsAssumption DEF LaunchNew, Launch, Goto, disk, bounds, TypeInv,
       TypeOK, BoundsOK
  <2>5. \A q \in Procs : pc'[q] \in Working => att'[q] \in Attempts
    BY <1>1 DEF LaunchNew, Launch, Goto, disk, bounds, TypeInv, TypeOK, LocalOK,
       BoundsOK, PCs, Working, Inside, Opening, Attempts
  <2>6. \A d \in Cases : csv'[d].by = 0 => csv'[d] = NoCsv
    BY <1>1 DEF LaunchNew, Launch, Goto, disk, bounds, TypeInv, TypeOK, DiskOK
  <2>. QED BY <2>1, <2>2, <2>3, <2>4, <2>5, <2>6 DEF TypeInv, TypeOK
<1>2. ASSUME NEW p \in Procs, LaunchResume(p) PROVE TypeInv'
  <2>1. DiskOK'
    BY <1>2 DEF LaunchResume, Launch, Goto, disk, bounds, TypeInv, TypeOK, DiskOK
  <2>2. LocksOK'
    BY <1>2, ConstantTypes DEF LaunchResume, Launch, Goto, disk, bounds, TypeInv,
       TypeOK, LocksOK
  <2>3. LocalOK'
    BY <1>2, ConstantsAssumption DEF LaunchResume, Launch, Goto, disk, bounds, TypeInv,
       TypeOK, LocalOK, PCs
  <2>4. BoundsOK'
    BY <1>2, ConstantsAssumption DEF LaunchResume, Launch, Goto, disk, bounds, TypeInv,
       TypeOK, BoundsOK
  <2>5. \A q \in Procs : pc'[q] \in Working => att'[q] \in Attempts
    BY <1>2 DEF LaunchResume, Launch, Goto, disk, bounds, TypeInv, TypeOK, LocalOK,
       BoundsOK, PCs, Working, Inside, Opening, Attempts
  <2>6. \A d \in Cases : csv'[d].by = 0 => csv'[d] = NoCsv
    BY <1>2 DEF LaunchResume, Launch, Goto, disk, bounds, TypeInv, TypeOK, DiskOK
  <2>. QED BY <2>1, <2>2, <2>3, <2>4, <2>5, <2>6 DEF TypeInv, TypeOK
<1>3. ASSUME NEW p \in Procs, pc[p] \in {"wantDirNew", "wantDirResume"}, AcquireDir(p)
     PROVE TypeInv'
  <2>1. DiskOK'
    BY <1>3 DEF AcquireDir, Goto, disk, bounds, TypeInv, TypeOK, DiskOK
  <2>2. LocksOK'
    BY <1>3 DEF AcquireDir, Goto, disk, bounds, TypeInv, TypeOK, LocksOK
  <2>3. LocalOK'
    BY <1>3, ConstantsAssumption DEF AcquireDir, Goto, disk, bounds, TypeInv, TypeOK,
       LocalOK, PCs
  <2>4. BoundsOK'
    BY <1>3, ConstantsAssumption DEF AcquireDir, Goto, disk, bounds, TypeInv, TypeOK,
       BoundsOK
  <2>5. \A q \in Procs : pc'[q] \in Working => att'[q] \in Attempts
    BY <1>3 DEF AcquireDir, Goto, disk, bounds, TypeInv, TypeOK, LocalOK, BoundsOK, PCs,
       Working, Inside, Opening, Attempts
  <2>6. \A d \in Cases : csv'[d].by = 0 => csv'[d] = NoCsv
    BY <1>3 DEF AcquireDir, Goto, disk, bounds, TypeInv, TypeOK, DiskOK
  <2>. QED BY <2>1, <2>2, <2>3, <2>4, <2>5, <2>6 DEF TypeInv, TypeOK
<1>4. ASSUME NEW p \in Procs, pc[p] \in {"wantDirNew", "wantDirResume"}, DirBusy(p)
     PROVE TypeInv'
  <2>1. DiskOK'
    BY <1>4 DEF DirBusy, ReleaseAll, Forget, Goto, disk, bounds, TypeInv, TypeOK, DiskOK
  <2>2. LocksOK'
    BY <1>4 DEF DirBusy, ReleaseAll, Forget, Goto, disk, bounds, TypeInv, TypeOK, LocksOK
  <2>3. LocalOK'
    BY <1>4, ForgetType DEF DirBusy
  <2>4. BoundsOK'
    BY <1>4, ConstantsAssumption DEF DirBusy, ReleaseAll, Forget, Goto, disk, bounds,
       TypeInv, TypeOK, BoundsOK
  <2>5. \A q \in Procs : pc'[q] \in Working => att'[q] \in Attempts
    BY <1>4 DEF DirBusy, ReleaseAll, Forget, Goto, disk, bounds, TypeInv, TypeOK,
       LocalOK, BoundsOK, PCs, Working, Inside, Opening, Attempts
  <2>6. \A d \in Cases : csv'[d].by = 0 => csv'[d] = NoCsv
    BY <1>4 DEF DirBusy, ReleaseAll, Forget, Goto, disk, bounds, TypeInv, TypeOK, DiskOK
  <2>. QED BY <2>1, <2>2, <2>3, <2>4, <2>5, <2>6 DEF TypeInv, TypeOK
<1>5. ASSUME NEW p \in Procs, OpenNew(p) PROVE TypeInv'
  <2>1. DiskOK'
    BY <1>5 DEF OpenNew, Goto, disk, locks, bounds, TypeInv, TypeOK, DiskOK
  <2>2. LocksOK'
    BY <1>5 DEF OpenNew, Goto, disk, locks, bounds, TypeInv, TypeOK, LocksOK
  <2>3. LocalOK'
    BY <1>5, ConstantsAssumption, RecordTypes DEF OpenNew, Goto, disk, locks, bounds,
       TypeInv, TypeOK, LocalOK, PCs, Statuses
  <2>4. BoundsOK'
    BY <1>5, ConstantsAssumption DEF OpenNew, Goto, disk, locks, bounds, TypeInv,
       TypeOK, BoundsOK
  <2>5. \A q \in Procs : pc'[q] \in Working => att'[q] \in Attempts
    BY <1>5 DEF OpenNew, Goto, disk, locks, bounds, TypeInv, TypeOK, LocalOK, BoundsOK,
       PCs, Working, Inside, Opening, Attempts
  <2>6. \A d \in Cases : csv'[d].by = 0 => csv'[d] = NoCsv
    BY <1>5 DEF OpenNew, Goto, disk, locks, bounds, TypeInv, TypeOK, DiskOK
  <2>. QED BY <2>1, <2>2, <2>3, <2>4, <2>5, <2>6 DEF TypeInv, TypeOK
<1>6. ASSUME NEW p \in Procs, OpenResume(p) PROVE TypeInv'
  <2>1. DiskOK'
    BY <1>6, PrepType DEF OpenResume, Goto, locks, bounds, TypeInv, TypeOK, DiskOK
  <2>2. LocksOK'
    BY <1>6 DEF OpenResume, Goto, locks, bounds, TypeInv, TypeOK, LocksOK
  <2>3. LocalOK'
    <3>1. rec \in RunRecord /\ [rec EXCEPT !.st = "preparing"] \in RunRecord
      BY RecordTypes DEF TypeInv, TypeOK, DiskOK, Statuses
    <3>. QED BY <1>6, <3>1 DEF OpenResume, Goto, TypeInv, TypeOK, LocalOK, PCs
  <2>4. BoundsOK'
    BY <1>6, ConstantsAssumption DEF OpenResume, Goto, locks, bounds, TypeInv, TypeOK,
       BoundsOK
  <2>5. \A q \in Procs : pc'[q] \in Working => att'[q] \in Attempts
    BY <1>6 DEF OpenResume, Goto, locks, bounds, TypeInv, TypeOK, LocalOK, BoundsOK,
       PCs, Working, Inside, Opening, Attempts
  <2>6. \A d \in Cases : csv'[d].by = 0 => csv'[d] = NoCsv
    BY <1>6 DEF OpenResume, Goto, locks, bounds, TypeInv, TypeOK, DiskOK
  <2>. QED BY <2>1, <2>2, <2>3, <2>4, <2>5, <2>6 DEF TypeInv, TypeOK
<1>7. ASSUME NEW p \in Procs, RecordAttempt(p) PROVE TypeInv'
  <2>1. DiskOK'
    BY <1>7 DEF RecordAttempt, Goto, locks, TypeInv, TypeOK, DiskOK, LocalOK
  <2>2. LocksOK'
    BY <1>7 DEF RecordAttempt, Goto, locks, TypeInv, TypeOK, LocksOK
  <2>3. LocalOK'
    BY <1>7, ConstantsAssumption DEF RecordAttempt, Goto, locks, TypeInv, TypeOK,
       LocalOK, PCs, BoundsOK, Attempts
  <2>4. BoundsOK'
    BY <1>7, ConstantsAssumption DEF RecordAttempt, Goto, locks, TypeInv, TypeOK, BoundsOK
  <2>5. \A q \in Procs : pc'[q] \in Working => att'[q] \in Attempts
    BY <1>7, ConstantsAssumption DEF RecordAttempt, Goto, locks, TypeInv, TypeOK,
       LocalOK, BoundsOK, PCs, Working, Inside, Opening, Attempts
  <2>6. \A d \in Cases : csv'[d].by = 0 => csv'[d] = NoCsv
    BY <1>7 DEF RecordAttempt, Goto, locks, TypeInv, TypeOK, DiskOK
  <2>. QED BY <2>1, <2>2, <2>3, <2>4, <2>5, <2>6 DEF TypeInv, TypeOK
<1>8. ASSUME NEW p \in Procs, Refuse(p) PROVE TypeInv'
  <2>1. DiskOK'
    BY <1>8 DEF Refuse, ReleaseAll, Forget, Fault, Goto, disk, TypeInv, TypeOK, DiskOK
  <2>2. LocksOK'
    BY <1>8 DEF Refuse, ReleaseAll, Forget, Fault, Goto, disk, TypeInv, TypeOK, LocksOK
  <2>3. LocalOK'
    BY <1>8, ForgetType DEF Refuse
  <2>4. BoundsOK'
    BY <1>8, ConstantsAssumption DEF Refuse, ReleaseAll, Forget, Fault, Goto, disk,
       TypeInv, TypeOK, BoundsOK
  <2>5. \A q \in Procs : pc'[q] \in Working => att'[q] \in Attempts
    BY <1>8 DEF Refuse, ReleaseAll, Forget, Fault, Goto, disk, TypeInv, TypeOK, LocalOK,
       BoundsOK, PCs, Working, Inside, Opening, Attempts
  <2>6. \A d \in Cases : csv'[d].by = 0 => csv'[d] = NoCsv
    BY <1>8 DEF Refuse, ReleaseAll, Forget, Fault, Goto, disk, TypeInv, TypeOK, DiskOK
  <2>. QED BY <2>1, <2>2, <2>3, <2>4, <2>5, <2>6 DEF TypeInv, TypeOK
<1>9. ASSUME NEW p \in Procs, Prepare(p) PROVE TypeInv'
  <2>1. DiskOK'
    BY <1>9, EvidenceTypes, ConstantTypes DEF Prepare, Goto, locks, TypeInv, TypeOK,
       DiskOK, LocalOK, Working, Inside, Opening
  <2>2. LocksOK'
    BY <1>9 DEF Prepare, Goto, locks, TypeInv, TypeOK, LocksOK
  <2>3. LocalOK'
    BY <1>9, ConstantsAssumption DEF Prepare, Goto, locks, TypeInv, TypeOK, LocalOK, PCs
  <2>4. BoundsOK'
    BY <1>9, ConstantsAssumption DEF Prepare, Goto, locks, TypeInv, TypeOK, BoundsOK
  <2>5. \A q \in Procs : pc'[q] \in Working => att'[q] \in Attempts
    BY <1>9 DEF Prepare, Goto, locks, TypeInv, TypeOK, LocalOK, BoundsOK, PCs, Working,
       Inside, Opening, Attempts
  <2>6. \A d \in Cases : csv'[d].by = 0 => csv'[d] = NoCsv
    BY <1>9 DEF Prepare, Goto, locks, TypeInv, TypeOK, DiskOK
  <2>. QED BY <2>1, <2>2, <2>3, <2>4, <2>5, <2>6 DEF TypeInv, TypeOK
<1>10. ASSUME NEW p \in Procs, BindRuntime(p) PROVE TypeInv'
  <2>1. DiskOK'
    <3>1. [mem[p] EXCEPT !.rt = meta, !.st = "running"] \in RunRecord
      BY <1>10, RecordTypes DEF BindRuntime, TypeInv, TypeOK, DiskOK, LocalOK
    <3>. QED BY <1>10, <3>1, SaveType DEF BindRuntime, AtCase, locks, TypeInv, TypeOK,
       DiskOK, PCs
  <2>2. LocksOK'
    BY <1>10 DEF BindRuntime, Save, Fault, Goto, locks, TypeInv, TypeOK, LocksOK
  <2>3. LocalOK'
    BY <1>10, ConstantsAssumption, RecordTypes DEF BindRuntime, Save, Fault, Goto,
       locks, TypeInv, TypeOK, LocalOK, PCs, Statuses, DiskOK
  <2>4. BoundsOK'
    BY <1>10, ConstantsAssumption DEF BindRuntime, Save, Fault, Goto, locks, TypeInv,
       TypeOK, BoundsOK
  <2>5. \A q \in Procs : pc'[q] \in Working => att'[q] \in Attempts
    BY <1>10 DEF BindRuntime, Save, Fault, Goto, locks, TypeInv, TypeOK, LocalOK,
       BoundsOK, PCs, Working, Inside, Opening, Attempts
  <2>6. \A d \in Cases : csv'[d].by = 0 => csv'[d] = NoCsv
    BY <1>10 DEF BindRuntime, Save, Fault, Goto, locks, TypeInv, TypeOK, DiskOK
  <2>. QED BY <2>1, <2>2, <2>3, <2>4, <2>5, <2>6 DEF TypeInv, TypeOK
<1>11. ASSUME NEW p \in Procs, FreezePlan(p) PROVE TypeInv'
  <2>1. DiskOK'
    BY <1>11, RecordFields DEF FreezePlan, Goto, locks, bounds, TypeInv, TypeOK, DiskOK,
       LocalOK
  <2>2. LocksOK'
    BY <1>11 DEF FreezePlan, Goto, locks, bounds, TypeInv, TypeOK, LocksOK
  <2>3. LocalOK'
    BY <1>11, ConstantsAssumption DEF FreezePlan, Goto, locks, bounds, TypeInv, TypeOK,
       LocalOK, PCs
  <2>4. BoundsOK'
    BY <1>11, ConstantsAssumption DEF FreezePlan, Goto, locks, bounds, TypeInv, TypeOK,
       BoundsOK
  <2>5. \A q \in Procs : pc'[q] \in Working => att'[q] \in Attempts
    BY <1>11 DEF FreezePlan, Goto, locks, bounds, TypeInv, TypeOK, LocalOK, BoundsOK,
       PCs, Working, Inside, Opening, Attempts
  <2>6. \A d \in Cases : csv'[d].by = 0 => csv'[d] = NoCsv
    BY <1>11 DEF FreezePlan, Goto, locks, bounds, TypeInv, TypeOK, DiskOK
  <2>. QED BY <2>1, <2>2, <2>3, <2>4, <2>5, <2>6 DEF TypeInv, TypeOK
<1>12. ASSUME NEW p \in Procs, BindPlan(p) PROVE TypeInv'
  <2>1. DiskOK'
    <3>1. [mem[p] EXCEPT !.plan = plan] \in RunRecord
      BY RecordTypes DEF TypeInv, TypeOK, DiskOK, LocalOK
    <3>2. CASE mem[p].plan \in {0, plan}
      BY <1>12, <3>1, <3>2, SaveType DEF BindPlan, locks, TypeInv, TypeOK, DiskOK, PCs
    <3>3. CASE mem[p].plan \notin {0, plan}
      BY <1>12, <3>3 DEF BindPlan, Goto, locks, TypeInv, TypeOK, DiskOK, PCs
    <3>. QED BY <3>2, <3>3
  <2>2. LocksOK'
    BY <1>12 DEF BindPlan, Save, Fault, Goto, locks, TypeInv, TypeOK, LocksOK
  <2>3. LocalOK'
    <3>1. [mem[p] EXCEPT !.plan = plan] \in RunRecord
      BY RecordTypes DEF TypeInv, TypeOK, DiskOK, LocalOK
    <3>2. mem' \in [Procs -> RunRecord] /\ pc' \in [Procs -> PCs]
      <4>1. CASE mem[p].plan \in {0, plan}
        BY <1>12, <3>1, <4>1, SaveType DEF BindPlan, PCs
      <4>2. CASE mem[p].plan \notin {0, plan}
        BY <1>12, <4>2 DEF BindPlan, Goto, TypeInv, TypeOK, LocalOK, PCs
      <4>. QED BY <4>1, <4>2
    <3>. QED BY <1>12, <3>2, IdxType DEF BindPlan, TypeInv, TypeOK, LocalOK
  <2>4. BoundsOK'
    BY <1>12, ConstantsAssumption DEF BindPlan, Save, Fault, Goto, locks, TypeInv,
       TypeOK, BoundsOK
  <2>5. \A q \in Procs : pc'[q] \in Working => att'[q] \in Attempts
    BY <1>12 DEF BindPlan, Save, Fault, Goto, locks, TypeInv, TypeOK, LocalOK, BoundsOK,
       PCs, Working, Inside, Opening, Attempts
  <2>6. \A d \in Cases : csv'[d].by = 0 => csv'[d] = NoCsv
    BY <1>12 DEF BindPlan, Save, Fault, Goto, locks, TypeInv, TypeOK, DiskOK
  <2>. QED BY <2>1, <2>2, <2>3, <2>4, <2>5, <2>6 DEF TypeInv, TypeOK
<1>13. ASSUME NEW p \in Procs, NEW c \in Cases, ReuseCase(p, c) PROVE TypeInv'
  <2>1. DiskOK'
    BY <1>13 DEF ReuseCase, AtCase, Goto, disk, locks, bounds, TypeInv, TypeOK, DiskOK
  <2>2. LocksOK'
    BY <1>13 DEF ReuseCase, AtCase, Goto, disk, locks, bounds, TypeInv, TypeOK, LocksOK
  <2>3. LocalOK'
    BY <1>13, ConstantsAssumption DEF ReuseCase, AtCase, Goto, disk, locks, bounds,
       TypeInv, TypeOK, LocalOK, PCs, Cases
  <2>4. BoundsOK'
    BY <1>13, ConstantsAssumption DEF ReuseCase, AtCase, Goto, disk, locks, bounds,
       TypeInv, TypeOK, BoundsOK
  <2>5. \A q \in Procs : pc'[q] \in Working => att'[q] \in Attempts
    BY <1>13 DEF ReuseCase, AtCase, Goto, disk, locks, bounds, TypeInv, TypeOK, LocalOK,
       BoundsOK, PCs, Working, Inside, Opening, Attempts
  <2>6. \A d \in Cases : csv'[d].by = 0 => csv'[d] = NoCsv
    BY <1>13 DEF ReuseCase, AtCase, Goto, disk, locks, bounds, TypeInv, TypeOK, DiskOK
  <2>. QED BY <2>1, <2>2, <2>3, <2>4, <2>5, <2>6 DEF TypeInv, TypeOK
<1>14. ASSUME NEW p \in Procs, NEW c \in Cases, CopyLeftovers(p, c) PROVE TypeInv'
  <2>1. DiskOK'
    BY <1>14, LeftoversType DEF CopyLeftovers, AtCase, Goto, locks, bounds, TypeInv,
       TypeOK, DiskOK
  <2>2. LocksOK'
    BY <1>14 DEF CopyLeftovers, AtCase, Goto, locks, bounds, TypeInv, TypeOK, LocksOK
  <2>3. LocalOK'
    BY <1>14, ConstantsAssumption DEF CopyLeftovers, AtCase, Goto, locks, bounds,
       TypeInv, TypeOK, LocalOK, PCs
  <2>4. BoundsOK'
    BY <1>14, ConstantsAssumption DEF CopyLeftovers, AtCase, Goto, locks, bounds,
       TypeInv, TypeOK, BoundsOK
  <2>5. \A q \in Procs : pc'[q] \in Working => att'[q] \in Attempts
    BY <1>14 DEF CopyLeftovers, AtCase, Goto, locks, bounds, TypeInv, TypeOK, LocalOK,
       BoundsOK, PCs, Working, Inside, Opening, Attempts
  <2>6. \A d \in Cases : csv'[d].by = 0 => csv'[d] = NoCsv
    BY <1>14 DEF CopyLeftovers, AtCase, Goto, locks, bounds, TypeInv, TypeOK, DiskOK
  <2>. QED BY <2>1, <2>2, <2>3, <2>4, <2>5, <2>6 DEF TypeInv, TypeOK
<1>15. ASSUME NEW p \in Procs, NEW c \in Cases, MarkArchived(p, c) PROVE TypeInv'
  <2>1. DiskOK'
    BY <1>15, SetCaseType, ConstantTypes DEF MarkArchived, AtCase, Save, Fault, Goto,
       locks, TypeInv, TypeOK, DiskOK, LocalOK, CaseStates
  <2>2. LocksOK'
    BY <1>15 DEF MarkArchived, AtCase, Save, Fault, Goto, locks, TypeInv, TypeOK, LocksOK
  <2>3. LocalOK'
    BY <1>15, ConstantsAssumption, SetCaseType, ConstantTypes DEF MarkArchived, AtCase,
       Save, Fault, Goto, locks, TypeInv, TypeOK, LocalOK, PCs, CaseStates
  <2>4. BoundsOK'
    BY <1>15, ConstantsAssumption DEF MarkArchived, AtCase, Save, Fault, Goto, locks,
       TypeInv, TypeOK, BoundsOK
  <2>5. \A q \in Procs : pc'[q] \in Working => att'[q] \in Attempts
    BY <1>15 DEF MarkArchived, AtCase, Save, Fault, Goto, locks, TypeInv, TypeOK,
       LocalOK, BoundsOK, PCs, Working, Inside, Opening, Attempts
  <2>6. \A d \in Cases : csv'[d].by = 0 => csv'[d] = NoCsv
    BY <1>15 DEF MarkArchived, AtCase, Save, Fault, Goto, locks, TypeInv, TypeOK, DiskOK
  <2>. QED BY <2>1, <2>2, <2>3, <2>4, <2>5, <2>6 DEF TypeInv, TypeOK
<1>16. ASSUME NEW p \in Procs, NEW c \in Cases, UnlinkLeftover(p, c) PROVE TypeInv'
  <2>1. DiskOK'
    <3>1. [csv EXCEPT ![c] = NoCsv] \in [Cases -> CsvFile]
      BY CsvTypes DEF TypeInv, TypeOK, DiskOK
    <3>2. [work EXCEPT ![c] = 0] \in [Cases -> Token] /\ [kept EXCEPT ![c] = 0] \in [Cases -> Token]
      BY ConstantTypes DEF TypeInv, TypeOK, DiskOK
    <3>. QED BY <1>16, <3>1, <3>2 DEF UnlinkLeftover, locks, local, bounds, TypeInv,
       TypeOK, DiskOK
  <2>2. LocksOK'
    BY <1>16 DEF UnlinkLeftover, AtCase, locks, local, bounds, TypeInv, TypeOK, LocksOK
  <2>3. LocalOK'
    BY <1>16, ConstantsAssumption DEF UnlinkLeftover, AtCase, locks, local, bounds,
       TypeInv, TypeOK, LocalOK, PCs
  <2>4. BoundsOK'
    BY <1>16, ConstantsAssumption DEF UnlinkLeftover, AtCase, locks, local, bounds,
       TypeInv, TypeOK, BoundsOK
  <2>5. \A q \in Procs : pc'[q] \in Working => att'[q] \in Attempts
    BY <1>16 DEF UnlinkLeftover, AtCase, locks, local, bounds, TypeInv, TypeOK, LocalOK,
       BoundsOK, PCs, Working, Inside, Opening, Attempts
  <2>6. \A d \in Cases : csv'[d].by = 0 => csv'[d] = NoCsv
    BY <1>16, CsvTypes, ConstantTypes DEF UnlinkLeftover, AtCase, locks, local, bounds,
       TypeInv, TypeOK, DiskOK
  <2>. QED BY <2>1, <2>2, <2>3, <2>4, <2>5, <2>6 DEF TypeInv, TypeOK
<1>17. ASSUME NEW p \in Procs, NEW c \in Cases, StartCase(p, c) PROVE TypeInv'
  <2>1. DiskOK'
    BY <1>17, SetCaseType, ConstantTypes DEF StartCase, AtCase, Save, Fault, Goto,
       locks, TypeInv, TypeOK, DiskOK, LocalOK, CaseStates
  <2>2. LocksOK'
    BY <1>17 DEF StartCase, AtCase, Save, Fault, Goto, locks, TypeInv, TypeOK, LocksOK
  <2>3. LocalOK'
    BY <1>17, ConstantsAssumption, SetCaseType, ConstantTypes DEF StartCase, AtCase,
       Save, Fault, Goto, locks, TypeInv, TypeOK, LocalOK, PCs, CaseStates
  <2>4. BoundsOK'
    BY <1>17, ConstantsAssumption DEF StartCase, AtCase, Save, Fault, Goto, locks,
       TypeInv, TypeOK, BoundsOK
  <2>5. \A q \in Procs : pc'[q] \in Working => att'[q] \in Attempts
    BY <1>17 DEF StartCase, AtCase, Save, Fault, Goto, locks, TypeInv, TypeOK, LocalOK,
       BoundsOK, PCs, Working, Inside, Opening, Attempts
  <2>6. \A d \in Cases : csv'[d].by = 0 => csv'[d] = NoCsv
    BY <1>17 DEF StartCase, AtCase, Save, Fault, Goto, locks, TypeInv, TypeOK, DiskOK
  <2>. QED BY <2>1, <2>2, <2>3, <2>4, <2>5, <2>6 DEF TypeInv, TypeOK
<1>18. ASSUME NEW p \in Procs, NEW c \in Cases, AppendRequests(p, c) PROVE TypeInv'
  <2>1. DiskOK'
    BY <1>18, EvidenceTypes, ConstantTypes DEF AppendRequests, AtCase, locks, local,
       TypeInv, TypeOK, DiskOK, LocalOK, Working, Inside, Opening
  <2>2. LocksOK'
    BY <1>18 DEF AppendRequests, AtCase, locks, local, TypeInv, TypeOK, LocksOK
  <2>3. LocalOK'
    BY <1>18, ConstantsAssumption DEF AppendRequests, AtCase, locks, local, TypeInv,
       TypeOK, LocalOK, PCs
  <2>4. BoundsOK'
    BY <1>18, ConstantsAssumption DEF AppendRequests, AtCase, locks, local, TypeInv,
       TypeOK, BoundsOK
  <2>5. \A q \in Procs : pc'[q] \in Working => att'[q] \in Attempts
    BY <1>18 DEF AppendRequests, AtCase, locks, local, TypeInv, TypeOK, LocalOK,
       BoundsOK, PCs, Working, Inside, Opening, Attempts
  <2>6. \A d \in Cases : csv'[d].by = 0 => csv'[d] = NoCsv
    BY <1>18 DEF AppendRequests, AtCase, locks, local, TypeInv, TypeOK, DiskOK
  <2>. QED BY <2>1, <2>2, <2>3, <2>4, <2>5, <2>6 DEF TypeInv, TypeOK
<1>19. ASSUME NEW p \in Procs, NEW c \in Cases, AppendRow(p, c) PROVE TypeInv'
  <2>1. DiskOK'
    <3>. DEFINE row == [by |-> att[p], rt |-> mem[p].rt, id |-> ident[p], full |-> FALSE]
    <3>1. att[p] \in Token \ {0} /\ mem[p].rt \in Token /\ ident[p] \in Idents \cup {0}
      BY <1>19, RecordFields, ConstantTypes DEF AppendRow, AtCase, TypeInv, TypeOK,
         LocalOK, Working, Inside, Opening, PCs
    <3>2. row \in CsvFile
      BY <3>1 DEF CsvFile
    <3>3. [csv EXCEPT ![c] = row] \in [Cases -> CsvFile]
      BY <3>2 DEF TypeInv, TypeOK, DiskOK
    <3>4. CsvEvidence(c, att[p]) \in Evidence
      BY <3>1, EvidenceTypes
    <3>. QED BY <1>19, <3>3, <3>4 DEF AppendRow, locks, local, TypeInv, TypeOK, DiskOK
  <2>2. LocksOK'
    BY <1>19 DEF AppendRow, AtCase, locks, local, TypeInv, TypeOK, LocksOK
  <2>3. LocalOK'
    BY <1>19, ConstantsAssumption DEF AppendRow, AtCase, locks, local, TypeInv, TypeOK,
       LocalOK, PCs
  <2>4. BoundsOK'
    BY <1>19, ConstantsAssumption DEF AppendRow, AtCase, locks, local, TypeInv, TypeOK,
       BoundsOK
  <2>5. \A q \in Procs : pc'[q] \in Working => att'[q] \in Attempts
    BY <1>19 DEF AppendRow, AtCase, locks, local, TypeInv, TypeOK, LocalOK, BoundsOK,
       PCs, Working, Inside, Opening, Attempts
  <2>6. \A d \in Cases : csv'[d].by = 0 => csv'[d] = NoCsv
    BY <1>19, RecordFields, CsvTypes, EvidenceTypes, ConstantTypes DEF AppendRow,
       AtCase, locks, local, TypeInv, TypeOK, DiskOK, LocalOK, Working, Inside, Opening
  <2>. QED BY <2>1, <2>2, <2>3, <2>4, <2>5, <2>6 DEF TypeInv, TypeOK
<1>20. ASSUME NEW p \in Procs, NEW c \in Cases, CompleteCsv(p, c) PROVE TypeInv'
  <2>1. DiskOK'
    <3>1. [csv[c] EXCEPT !.full = TRUE] \in CsvFile
      BY CsvTypes DEF TypeInv, TypeOK, DiskOK
    <3>2. [csv EXCEPT ![c].full = TRUE] \in [Cases -> CsvFile]
      BY <3>1 DEF TypeInv, TypeOK, DiskOK
    <3>. QED BY <1>20, <3>2 DEF CompleteCsv, locks, bounds, TypeInv, TypeOK, DiskOK
  <2>2. LocksOK'
    BY <1>20 DEF CompleteCsv, AtCase, Goto, locks, bounds, TypeInv, TypeOK, LocksOK
  <2>3. LocalOK'
    BY <1>20, ConstantsAssumption DEF CompleteCsv, AtCase, Goto, locks, bounds, TypeInv,
       TypeOK, LocalOK, PCs
  <2>4. BoundsOK'
    BY <1>20, ConstantsAssumption DEF CompleteCsv, AtCase, Goto, locks, bounds, TypeInv,
       TypeOK, BoundsOK
  <2>5. \A q \in Procs : pc'[q] \in Working => att'[q] \in Attempts
    BY <1>20 DEF CompleteCsv, AtCase, Goto, locks, bounds, TypeInv, TypeOK, LocalOK,
       BoundsOK, PCs, Working, Inside, Opening, Attempts
  <2>6. \A d \in Cases : csv'[d].by = 0 => csv'[d] = NoCsv
    <3>1. csv'[c].by = csv[c].by /\ csv[c].by # 0
      BY <1>20, CsvTypes, ConstantTypes DEF CompleteCsv, AtCase, TypeInv, TypeOK,
         DiskOK, LocalOK, Working, Inside, Opening, PCs
    <3>2. \A d \in Cases \ {c} : csv'[d] = csv[d]
      BY <1>20 DEF CompleteCsv, TypeInv, TypeOK, DiskOK
    <3>. QED BY <3>1, <3>2 DEF TypeInv
  <2>. QED BY <2>1, <2>2, <2>3, <2>4, <2>5, <2>6 DEF TypeInv, TypeOK
<1>21. ASSUME NEW p \in Procs, NEW c \in Cases, FinishCase(p, c) PROVE TypeInv'
  <2>1. DiskOK'
    BY <1>21, ConstantTypes DEF FinishCase, AtCase, Retain, Goto, locks, bounds,
       TypeInv, TypeOK, DiskOK
  <2>2. LocksOK'
    BY <1>21 DEF FinishCase, AtCase, Retain, Goto, locks, bounds, TypeInv, TypeOK, LocksOK
  <2>3. LocalOK'
    BY <1>21, ConstantsAssumption DEF FinishCase, AtCase, Retain, Goto, locks, bounds,
       TypeInv, TypeOK, LocalOK, PCs
  <2>4. BoundsOK'
    BY <1>21, ConstantsAssumption DEF FinishCase, AtCase, Retain, Goto, locks, bounds,
       TypeInv, TypeOK, BoundsOK
  <2>5. \A q \in Procs : pc'[q] \in Working => att'[q] \in Attempts
    BY <1>21 DEF FinishCase, AtCase, Retain, Goto, locks, bounds, TypeInv, TypeOK,
       LocalOK, BoundsOK, PCs, Working, Inside, Opening, Attempts
  <2>6. \A d \in Cases : csv'[d].by = 0 => csv'[d] = NoCsv
    BY <1>21 DEF FinishCase, AtCase, Retain, Goto, locks, bounds, TypeInv, TypeOK, DiskOK
  <2>. QED BY <2>1, <2>2, <2>3, <2>4, <2>5, <2>6 DEF TypeInv, TypeOK
<1>22. ASSUME NEW p \in Procs, NEW c \in Cases, RecordCase(p, c) PROVE TypeInv'
  <2>1. DiskOK'
    <3>1. SetCase(mem[p], c, "complete", csv[c].by) \in RunRecord
      BY SetCaseType, CsvTypes DEF TypeInv, TypeOK, DiskOK, LocalOK, CaseStates
    <3>. QED BY <1>22, <3>1, SaveType, ConstantsAssumption DEF RecordCase, AtCase,
       locks, TypeInv, TypeOK, DiskOK, PCs, Cases
  <2>2. LocksOK'
    BY <1>22 DEF RecordCase, AtCase, Save, Fault, Goto, locks, TypeInv, TypeOK, LocksOK
  <2>3. LocalOK'
    <3>1. SetCase(mem[p], c, "complete", csv[c].by) \in RunRecord
      BY SetCaseType, CsvTypes DEF TypeInv, TypeOK, DiskOK, LocalOK, CaseStates
    <3>. QED BY <1>22, <3>1, SaveType, ConstantsAssumption DEF RecordCase, AtCase,
       locks, TypeInv, TypeOK, LocalOK, PCs, Cases
  <2>4. BoundsOK'
    BY <1>22, ConstantsAssumption DEF RecordCase, AtCase, Save, Fault, Goto, locks,
       TypeInv, TypeOK, BoundsOK
  <2>5. \A q \in Procs : pc'[q] \in Working => att'[q] \in Attempts
    BY <1>22 DEF RecordCase, AtCase, Save, Fault, Goto, locks, TypeInv, TypeOK, LocalOK,
       BoundsOK, PCs, Working, Inside, Opening, Attempts
  <2>6. \A d \in Cases : csv'[d].by = 0 => csv'[d] = NoCsv
    BY <1>22 DEF RecordCase, AtCase, Save, Fault, Goto, locks, TypeInv, TypeOK, DiskOK
  <2>. QED BY <2>1, <2>2, <2>3, <2>4, <2>5, <2>6 DEF TypeInv, TypeOK
<1>23. ASSUME NEW p \in Procs, Merge(p) PROVE TypeInv'
  <2>1. DiskOK'
    BY <1>23 DEF Merge, Goto, locks, bounds, TypeInv, TypeOK, DiskOK
  <2>2. LocksOK'
    BY <1>23 DEF Merge, Goto, locks, bounds, TypeInv, TypeOK, LocksOK
  <2>3. LocalOK'
    BY <1>23, ConstantsAssumption DEF Merge, Goto, locks, bounds, TypeInv, TypeOK,
       LocalOK, PCs
  <2>4. BoundsOK'
    BY <1>23, ConstantsAssumption DEF Merge, Goto, locks, bounds, TypeInv, TypeOK, BoundsOK
  <2>5. \A q \in Procs : pc'[q] \in Working => att'[q] \in Attempts
    BY <1>23 DEF Merge, Goto, locks, bounds, TypeInv, TypeOK, LocalOK, BoundsOK, PCs,
       Working, Inside, Opening, Attempts
  <2>6. \A d \in Cases : csv'[d].by = 0 => csv'[d] = NoCsv
    BY <1>23 DEF Merge, Goto, locks, bounds, TypeInv, TypeOK, DiskOK
  <2>. QED BY <2>1, <2>2, <2>3, <2>4, <2>5, <2>6 DEF TypeInv, TypeOK
<1>24. ASSUME NEW p \in Procs, FinishRun(p) PROVE TypeInv'
  <2>1. DiskOK'
    BY <1>24, RecordTypes DEF FinishRun, Save, Fault, Goto, locks, TypeInv, TypeOK,
       DiskOK, LocalOK, Statuses
  <2>2. LocksOK'
    BY <1>24 DEF FinishRun, Save, Fault, Goto, locks, TypeInv, TypeOK, LocksOK
  <2>3. LocalOK'
    <3>1. [mem[p] EXCEPT !.st = "complete"] \in RunRecord
      BY RecordTypes DEF TypeInv, TypeOK, LocalOK, Statuses
    <3>2. mem' \in [Procs -> RunRecord] /\ pc' \in [Procs -> PCs]
      BY <1>24, <3>1, SaveType DEF FinishRun, Goto, TypeInv, TypeOK, LocalOK, PCs
    <3>. QED BY <1>24, <3>2, IdxType DEF FinishRun, TypeInv, TypeOK, LocalOK
  <2>4. BoundsOK'
    BY <1>24, ConstantsAssumption DEF FinishRun, Save, Fault, Goto, locks, TypeInv,
       TypeOK, BoundsOK
  <2>5. \A q \in Procs : pc'[q] \in Working => att'[q] \in Attempts
    BY <1>24 DEF FinishRun, Save, Fault, Goto, locks, TypeInv, TypeOK, LocalOK,
       BoundsOK, PCs, Working, Inside, Opening, Attempts
  <2>6. \A d \in Cases : csv'[d].by = 0 => csv'[d] = NoCsv
    BY <1>24 DEF FinishRun, Save, Fault, Goto, locks, TypeInv, TypeOK, DiskOK
  <2>. QED BY <2>1, <2>2, <2>3, <2>4, <2>5, <2>6 DEF TypeInv, TypeOK
<1>25. ASSUME NEW p \in Procs, Cleanup(p) PROVE TypeInv'
  <2>1. DiskOK'
    <3>1. \A c \in Cases : [csv EXCEPT ![c] = NoCsv] \in [Cases -> CsvFile]
      BY CsvTypes DEF TypeInv, TypeOK, DiskOK
    <3>2. \A c \in Cases : Retain(c) => work' \in [Cases -> Token] /\ kept' \in [Cases -> Token]
      BY ConstantTypes DEF Retain, TypeInv, TypeOK, DiskOK
    <3>. QED BY <1>25, <3>1, <3>2 DEF Cleanup, locks, bounds, TypeInv, TypeOK, DiskOK
  <2>2. LocksOK'
    BY <1>25 DEF Cleanup, Retain, Goto, locks, bounds, TypeInv, TypeOK, LocksOK
  <2>3. LocalOK'
    BY <1>25, ConstantsAssumption DEF Cleanup, Retain, Goto, locks, bounds, TypeInv,
       TypeOK, LocalOK, PCs, Cases
  <2>4. BoundsOK'
    BY <1>25, ConstantsAssumption DEF Cleanup, Retain, Goto, locks, bounds, TypeInv,
       TypeOK, BoundsOK
  <2>5. \A q \in Procs : pc'[q] \in Working => att'[q] \in Attempts
    BY <1>25 DEF Cleanup, Retain, Goto, locks, bounds, TypeInv, TypeOK, LocalOK,
       BoundsOK, PCs, Working, Inside, Opening, Attempts
  <2>6. \A d \in Cases : csv'[d].by = 0 => csv'[d] = NoCsv
    BY <1>25, CsvTypes, ConstantTypes DEF Cleanup, Retain, Goto, locks, bounds, TypeInv,
       TypeOK, DiskOK
  <2>. QED BY <2>1, <2>2, <2>3, <2>4, <2>5, <2>6 DEF TypeInv, TypeOK
<1>26. ASSUME NEW p \in Procs, Close(p) PROVE TypeInv'
  <2>1. DiskOK'
    <3>1. mem[p] \in RunRecord /\ mem[p].st \in Statuses
      BY <1>26 DEF TypeInv, TypeOK, LocalOK, RunRecord
    <3>2. [mem[p] EXCEPT !.st = IF @ = "complete" THEN @ ELSE "failed"] \in RunRecord
      BY <3>1, RecordTypes DEF Statuses
    <3>. QED BY <1>26, <3>2 DEF Close, TypeInv, TypeOK, DiskOK
  <2>2. LocksOK'
    BY <1>26 DEF Close, Fault, Goto, TypeInv, TypeOK, LocksOK
  <2>3. LocalOK'
    BY <1>26, ConstantsAssumption DEF Close, Fault, Goto, TypeInv, TypeOK, LocalOK, PCs,
       Statuses
  <2>4. BoundsOK'
    BY <1>26, ConstantsAssumption DEF Close, Fault, Goto, TypeInv, TypeOK, BoundsOK
  <2>5. \A q \in Procs : pc'[q] \in Working => att'[q] \in Attempts
    BY <1>26 DEF Close, Fault, Goto, TypeInv, TypeOK, LocalOK, BoundsOK, PCs, Working,
       Inside, Opening, Attempts
  <2>6. \A d \in Cases : csv'[d].by = 0 => csv'[d] = NoCsv
    BY <1>26 DEF Close, Fault, Goto, TypeInv, TypeOK, DiskOK
  <2>. QED BY <2>1, <2>2, <2>3, <2>4, <2>5, <2>6 DEF TypeInv, TypeOK
<1>27. ASSUME NEW p \in Procs, Exit(p) PROVE TypeInv'
  <2>1. DiskOK'
    BY <1>27 DEF Exit, ReleaseAll, Forget, Goto, disk, bounds, TypeInv, TypeOK, DiskOK
  <2>2. LocksOK'
    BY <1>27 DEF Exit, ReleaseAll, Forget, Goto, disk, bounds, TypeInv, TypeOK, LocksOK
  <2>3. LocalOK'
    BY <1>27, ForgetType DEF Exit
  <2>4. BoundsOK'
    BY <1>27, ConstantsAssumption DEF Exit, ReleaseAll, Forget, Goto, disk, bounds,
       TypeInv, TypeOK, BoundsOK
  <2>5. \A q \in Procs : pc'[q] \in Working => att'[q] \in Attempts
    BY <1>27 DEF Exit, ReleaseAll, Forget, Goto, disk, bounds, TypeInv, TypeOK, LocalOK,
       BoundsOK, PCs, Working, Inside, Opening, Attempts
  <2>6. \A d \in Cases : csv'[d].by = 0 => csv'[d] = NoCsv
    BY <1>27 DEF Exit, ReleaseAll, Forget, Goto, disk, bounds, TypeInv, TypeOK, DiskOK
  <2>. QED BY <2>1, <2>2, <2>3, <2>4, <2>5, <2>6 DEF TypeInv, TypeOK
<1>28. ASSUME NEW p \in Procs, Fail(p) PROVE TypeInv'
  <2>1. DiskOK'
    BY <1>28 DEF Fail, Fault, Goto, disk, locks, TypeInv, TypeOK, DiskOK
  <2>2. LocksOK'
    BY <1>28 DEF Fail, Fault, Goto, disk, locks, TypeInv, TypeOK, LocksOK
  <2>3. LocalOK'
    BY <1>28, ConstantsAssumption DEF Fail, Fault, Goto, disk, locks, TypeInv, TypeOK,
       LocalOK, PCs
  <2>4. BoundsOK'
    BY <1>28, ConstantsAssumption DEF Fail, Fault, Goto, disk, locks, TypeInv, TypeOK,
       BoundsOK
  <2>5. \A q \in Procs : pc'[q] \in Working => att'[q] \in Attempts
    BY <1>28 DEF Fail, Fault, Goto, disk, locks, TypeInv, TypeOK, LocalOK, BoundsOK,
       PCs, Working, Inside, Opening, Attempts
  <2>6. \A d \in Cases : csv'[d].by = 0 => csv'[d] = NoCsv
    BY <1>28 DEF Fail, Fault, Goto, disk, locks, TypeInv, TypeOK, DiskOK
  <2>. QED BY <2>1, <2>2, <2>3, <2>4, <2>5, <2>6 DEF TypeInv, TypeOK
<1>29. ASSUME NEW p \in Procs, Crash(p) PROVE TypeInv'
  <2>1. DiskOK'
    BY <1>29 DEF Crash, ReleaseAll, Forget, Fault, Goto, TypeInv, TypeOK, DiskOK
  <2>2. LocksOK'
    BY <1>29 DEF Crash, ReleaseAll, Forget, Fault, Goto, TypeInv, TypeOK, LocksOK
  <2>3. LocalOK'
    BY <1>29, ForgetType DEF Crash
  <2>4. BoundsOK'
    BY <1>29, ConstantsAssumption DEF Crash, ReleaseAll, Forget, Fault, Goto, TypeInv,
       TypeOK, BoundsOK
  <2>5. \A q \in Procs : pc'[q] \in Working => att'[q] \in Attempts
    BY <1>29 DEF Crash, ReleaseAll, Forget, Fault, Goto, TypeInv, TypeOK, LocalOK,
       BoundsOK, PCs, Working, Inside, Opening, Attempts
  <2>6. \A d \in Cases : csv'[d].by = 0 => csv'[d] = NoCsv
    BY <1>29 DEF Crash, ReleaseAll, Forget, Fault, Goto, TypeInv, TypeOK, DiskOK
  <2>. QED BY <2>1, <2>2, <2>3, <2>4, <2>5, <2>6 DEF TypeInv, TypeOK
<1>30. ASSUME Edit PROVE TypeInv'
  <2>1. DiskOK'
    <3>1. \A c \in Cases : [csv EXCEPT ![c].by = Foreign] \in [Cases -> CsvFile]
      BY CsvTypes DEF TypeInv, TypeOK, DiskOK
    <3>. QED BY <1>30, <3>1, ConstantTypes DEF Edit, locks, local, TypeInv, TypeOK, DiskOK
  <2>2. LocksOK'
    BY <1>30 DEF Edit, locks, local, TypeInv, TypeOK, LocksOK
  <2>3. LocalOK'
    BY <1>30, ConstantsAssumption DEF Edit, locks, local, TypeInv, TypeOK, LocalOK, PCs
  <2>4. BoundsOK'
    BY <1>30, ConstantsAssumption DEF Edit, locks, local, TypeInv, TypeOK, BoundsOK
  <2>5. \A q \in Procs : pc'[q] \in Working => att'[q] \in Attempts
    BY <1>30 DEF Edit, locks, local, TypeInv, TypeOK, LocalOK, BoundsOK, PCs, Working,
       Inside, Opening, Attempts
  <2>6. \A d \in Cases : csv'[d].by = 0 => csv'[d] = NoCsv
    <3>1. ASSUME NEW c \in Cases, csv' = [csv EXCEPT ![c].by = Foreign], NEW d \in Cases
          PROVE  csv'[d] = csv[d] \/ csv'[d].by = Foreign
      BY <3>1, CsvTypes DEF TypeInv, TypeOK, DiskOK
    <3>2. csv' = csv \/ \E c \in Cases : csv' = [csv EXCEPT ![c].by = Foreign]
      BY <1>30 DEF Edit
    <3>. QED BY <3>1, <3>2 DEF Foreign, TypeInv
  <2>. QED BY <2>1, <2>2, <2>3, <2>4, <2>5, <2>6 DEF TypeInv, TypeOK
<1>31. CASE UNCHANGED vars
  BY <1>31 DEF vars, TypeInv, TypeOK, DiskOK, LocksOK, LocalOK, BoundsOK
<1>. QED BY <1>1, <1>2, <1>3, <1>4, <1>5, <1>6, <1>7, <1>8, <1>9, <1>10, <1>11, <1>12,
   <1>13, <1>14, <1>15, <1>16, <1>17, <1>18, <1>19, <1>20, <1>21, <1>22, <1>23, <1>24,
   <1>25, <1>26, <1>27, <1>28, <1>29, <1>30, <1>31 DEF Next, Step, LockDir,
   CaseStep

\* The initial state has the types.
LEMMA TypeInvInit == Init => TypeInv
<1>. SUFFICES ASSUME Init PROVE TypeInv
  OBVIOUS
<1>1. DiskOK
  BY RecordTypes, CsvTypes, ConstantTypes DEF Init, DiskOK
<1>2. LocksOK /\ BoundsOK
  BY ConstantsAssumption DEF Init, LocksOK, BoundsOK
<1>3. /\ NoRecord \in RunRecord
      /\ 0 \in 0..(NumCases + 1)
  <2>1. NoRecord \in RunRecord
    BY RecordTypes
  <2>2. 0 \in 0..(NumCases + 1)
    BY ConstantsAssumption
  <2>. QED BY <2>1, <2>2
<1>4. LocalOK
  BY <1>3 DEF Init, LocalOK, PCs
<1>5. \A p \in Procs : pc[p] \notin Working
  BY DEF Init, Working, Inside, Opening, PCs
<1>6. \A c \in Cases : csv[c] = NoCsv
  BY DEF Init, NoFinal
<1>. QED BY <1>1, <1>2, <1>4, <1>5, <1>6 DEF TypeInv, TypeOK

\* Every variable of RunRecovery keeps its type in every run of it.
THEOREM TypeCorrect == Spec => []TypeOK
<1>1. TypeInv => TypeOK
  BY DEF TypeInv
<1>. QED BY <1>1, TypeInvInit, TypeInvStep, PTL DEF Spec
-----------------------------------------------------------------------------
(* Locks *)

\* Initially nobody holds a lock.
LEMMA LockInit == Init => LockDiscipline
BY ConstantTypes DEF Init, LockDiscipline, Inside, PCs

\* Every step keeps the lock discipline.
LEMMA LockStep == TypeInv /\ LockDiscipline /\ [Next]_vars => LockDiscipline'
<1>. SUFFICES ASSUME TypeInv, LockDiscipline, [Next]_vars PROVE LockDiscipline'
  OBVIOUS
<1>. USE ConstantTypes DEF TypeInv, TypeOK, LocksOK, LocalOK, LockDiscipline, PCs, Inside
<1>1. ASSUME NEW p \in Procs, LaunchNew(p) PROVE LockDiscipline'
  BY <1>1 DEF LaunchNew, Launch, Goto
<1>2. ASSUME NEW p \in Procs, LaunchResume(p) PROVE LockDiscipline'
  BY <1>2 DEF LaunchResume, Launch, Goto
<1>3. ASSUME NEW p \in Procs, pc[p] \in {"wantDirNew", "wantDirResume"}, AcquireDir(p)
     PROVE LockDiscipline'
  BY <1>3 DEF AcquireDir, Goto
<1>4. ASSUME NEW p \in Procs, pc[p] \in {"wantDirNew", "wantDirResume"}, DirBusy(p)
     PROVE LockDiscipline'
  BY <1>4 DEF DirBusy, ReleaseAll, Forget, Goto
<1>5. ASSUME NEW p \in Procs, OpenNew(p) PROVE LockDiscipline'
  BY <1>5 DEF OpenNew, Goto, locks
<1>6. ASSUME NEW p \in Procs, OpenResume(p) PROVE LockDiscipline'
  BY <1>6 DEF OpenResume, Goto, locks
<1>7. ASSUME NEW p \in Procs, RecordAttempt(p) PROVE LockDiscipline'
  BY <1>7 DEF RecordAttempt, Goto, locks
<1>8. ASSUME NEW p \in Procs, Refuse(p) PROVE LockDiscipline'
  BY <1>8 DEF Refuse, ReleaseAll, Forget, Fault, Goto
<1>9. ASSUME NEW p \in Procs, Prepare(p) PROVE LockDiscipline'
  BY <1>9 DEF Prepare, Goto, locks
<1>10. ASSUME NEW p \in Procs, BindRuntime(p) PROVE LockDiscipline'
  BY <1>10 DEF BindRuntime, Save, Fault, Goto, locks
<1>11. ASSUME NEW p \in Procs, FreezePlan(p) PROVE LockDiscipline'
  BY <1>11 DEF FreezePlan, Goto, locks
<1>12. ASSUME NEW p \in Procs, BindPlan(p) PROVE LockDiscipline'
  BY <1>12 DEF BindPlan, Save, Fault, Goto, locks
<1>13. ASSUME NEW p \in Procs, NEW c \in Cases, ReuseCase(p, c) PROVE LockDiscipline'
  BY <1>13 DEF ReuseCase, AtCase, Goto, locks
<1>14. ASSUME NEW p \in Procs, NEW c \in Cases, CopyLeftovers(p, c) PROVE LockDiscipline'
  BY <1>14 DEF CopyLeftovers, AtCase, Goto, locks
<1>15. ASSUME NEW p \in Procs, NEW c \in Cases, MarkArchived(p, c) PROVE LockDiscipline'
  BY <1>15 DEF MarkArchived, AtCase, Save, Fault, Goto, locks
<1>16. ASSUME NEW p \in Procs, NEW c \in Cases, UnlinkLeftover(p, c) PROVE LockDiscipline'
  BY <1>16 DEF UnlinkLeftover, AtCase, locks, local
<1>17. ASSUME NEW p \in Procs, NEW c \in Cases, StartCase(p, c) PROVE LockDiscipline'
  BY <1>17 DEF StartCase, AtCase, Save, Fault, Goto, locks
<1>18. ASSUME NEW p \in Procs, NEW c \in Cases, AppendRequests(p, c) PROVE LockDiscipline'
  BY <1>18 DEF AppendRequests, AtCase, locks, local
<1>19. ASSUME NEW p \in Procs, NEW c \in Cases, AppendRow(p, c) PROVE LockDiscipline'
  BY <1>19 DEF AppendRow, AtCase, locks, local
<1>20. ASSUME NEW p \in Procs, NEW c \in Cases, CompleteCsv(p, c) PROVE LockDiscipline'
  BY <1>20 DEF CompleteCsv, AtCase, Goto, locks
<1>21. ASSUME NEW p \in Procs, NEW c \in Cases, FinishCase(p, c) PROVE LockDiscipline'
  BY <1>21 DEF FinishCase, AtCase, Goto, locks
<1>22. ASSUME NEW p \in Procs, NEW c \in Cases, RecordCase(p, c) PROVE LockDiscipline'
  BY <1>22 DEF RecordCase, AtCase, Save, Fault, Goto, locks
<1>23. ASSUME NEW p \in Procs, Merge(p) PROVE LockDiscipline'
  BY <1>23 DEF Merge, Goto, locks
<1>24. ASSUME NEW p \in Procs, FinishRun(p) PROVE LockDiscipline'
  BY <1>24 DEF FinishRun, Save, Fault, Goto, locks
<1>25. ASSUME NEW p \in Procs, Cleanup(p) PROVE LockDiscipline'
  BY <1>25 DEF Cleanup, Goto, locks
<1>26. ASSUME NEW p \in Procs, Close(p) PROVE LockDiscipline'
  BY <1>26 DEF Close, Fault, Goto
<1>27. ASSUME NEW p \in Procs, Exit(p) PROVE LockDiscipline'
  BY <1>27 DEF Exit, ReleaseAll, Forget, Goto
<1>28. ASSUME NEW p \in Procs, Fail(p) PROVE LockDiscipline'
  BY <1>28 DEF Fail, Fault, Goto, locks, Working, Opening
<1>29. ASSUME NEW p \in Procs, Crash(p) PROVE LockDiscipline'
  BY <1>29 DEF Crash, ReleaseAll, Forget, Fault, Goto
<1>30. ASSUME Edit PROVE LockDiscipline'
  BY <1>30 DEF Edit, locks, local
<1>31. CASE UNCHANGED vars
  BY <1>31 DEF vars
<1>. QED BY <1>1, <1>2, <1>3, <1>4, <1>5, <1>6, <1>7, <1>8, <1>9, <1>10, <1>11, <1>12,
   <1>13, <1>14, <1>15, <1>16, <1>17, <1>18, <1>19, <1>20, <1>21, <1>22, <1>23, <1>24,
   <1>25, <1>26, <1>27, <1>28, <1>29, <1>30, <1>31 DEF Next, Step, LockDir,
   CaseStep

\* No lock is held twice or by a dead process, whoever uses the directory.
THEOREM LocksSafe == Spec => []LockDiscipline
<1>. QED BY TypeInvInit, TypeInvStep, LockInit, LockStep, PTL DEF Spec
-----------------------------------------------------------------------------
(* What a step leaves true of the disk *)

\* Evidence of different kinds, cases or attempts is different.
LEMMA EvidenceDistinct ==
    /\ \A c, d \in Cases, a, b \in Token :
          /\ RequestEvidence(c, a) = RequestEvidence(d, b) <=> c = d /\ a = b
          /\ CsvEvidence(c, a) = CsvEvidence(d, b) <=> c = d /\ a = b
          /\ RequestEvidence(c, a) # CsvEvidence(d, b)
    /\ \A c \in Cases, a, b \in Token :
          PrepEvidence(b) # RequestEvidence(c, a) /\ PrepEvidence(b) # CsvEvidence(c, a)
BY DEF RequestEvidence, CsvEvidence, PrepEvidence

\* Writing the checkpoint of one case changes nothing else.
LEMMA SetCaseFacts ==
    ASSUME NEW m \in RunRecord, NEW c \in Cases, NEW st, NEW sha
    PROVE  LET n == SetCase(m, c, st, sha) IN
           /\ n.st = m.st /\ n.id = m.id /\ n.rt = m.rt /\ n.plan = m.plan
           /\ n.cases[c].st = st /\ n.cases[c].sha = sha
           /\ \A d \in Cases \ {c} : n.cases[d] = m.cases[d]
BY DEF SetCase, RunRecord

\* Which records are true depends on the data files only.
LEMMA TruthfulStable ==
    ASSUME UNCHANGED <<csv, work, kept, final, produced>>
    PROVE  Truthful' = Truthful
BY DEF Truthful, Checkpointed, PublishedAs, Requested

\* A step on the files of a case that is not checkpointed keeps the record true.
LEMMA TruthfulElsewhere ==
    ASSUME NEW c \in Cases, rec \in Truthful, rec.st # "complete", rec.cases[c].st # "complete",
           UNCHANGED rec,
           \A d \in Cases \ {c} :
               /\ csv'[d] = csv[d] /\ work'[d] = work[d] /\ kept'[d] = kept[d]
               /\ \A a \in Attempts : RequestEvidence(d, a) \in produced' <=> RequestEvidence(d, a) \in produced
    PROVE  rec' \in Truthful'
BY DEF Truthful, Checkpointed, Requested

\* A new record is true if each case it calls complete was so already, with
\* the same runtime and identity.
LEMMA TruthfulRecord ==
    ASSUME NEW m \in RunRecord, m.st # "complete", rec \in Truthful, rec.st # "complete",
           m.id = rec.id,
           \A c \in Cases : m.cases[c].st = "complete" =>
               \/ m.cases[c] = rec.cases[c] /\ m.rt = rec.rt
               \/ Checkpointed(m, c)
    PROVE  m \in Truthful
BY DEF Truthful, Checkpointed

\* Evidence is safe as long as nothing is removed.
LEMMA EvidenceStable ==
    ASSUME EvidencePreserved,
           UNCHANGED <<meta, csv, work, kept, final, produced>>,
           backup \subseteq backup',
           rec.st = "complete" => rec'.st = "complete"
    PROVE  EvidencePreserved'
BY DEF EvidencePreserved, InPlace

\* A step that writes none of the data files keeps what is true of them.
LEMMA DataStable ==
    ASSUME DataInv,
           UNCHANGED <<rec, meta, csv, work, kept, final, produced, attempts>>,
           backup \subseteq backup'
    PROVE  DataInv'
BY EvidenceStable, TruthfulStable DEF DataInv, FreshInv
-----------------------------------------------------------------------------
(* One lemma per step inside the directory *)

\* A new run: the first attempt finds an empty directory.
LEMMA StepOpenNew == ASSUME IInv, NEW p \in Procs, OpenNew(p) PROVE ProcOK(p)' /\ DataInv'
<1>. DEFINE m == [NoRecord EXCEPT !.st = "preparing", !.id = ident[p]]
<1>1. /\ pc'[p] = "attempt" /\ mem'[p] = m /\ rec = NoRecord /\ meta = 0
      /\ UNCHANGED <<disk, ident, attempts, produced>>
  BY DEF OpenNew, NewRunAllowed, Goto, bounds, IInv, TypeInv, TypeOK, LocalOK
<1>2. m \in RunRecord
  <2>1. NoRecord \in RunRecord
    BY RecordTypes
  <2>. QED BY <2>1 DEF IInv, TypeInv, TypeOK, LocalOK, RunRecord, Statuses
<1>3. /\ m.st = "preparing" /\ m.id = ident[p] /\ m.cases = NoRecord.cases
      /\ m.rt = NoRecord.rt /\ m.plan = NoRecord.plan /\ NoRecord.st = "absent"
      /\ \A c \in Cases : m.cases[c].st = "none"
  BY DEF NoRecord, NoCase
<1>4. m \in Truthful
  BY <1>2, <1>3 DEF Truthful
<1>5. mem'[p] \in Truthful'
  BY <1>1, <1>4, TruthfulStable DEF disk
<1>6. AttemptOK(p)'
  BY <1>1, <1>3, <1>5 DEF AttemptOK, NoCaseStarted, PrepLeftovers, disk
<1>7. DataInv'
  BY <1>1, DataStable DEF IInv, disk
<1>. QED BY <1>1, <1>6, <1>7 DEF ProcOK

\* validate_resume and _archive_preparation.
LEMMA StepOpenResume == ASSUME IInv, NEW p \in Procs, OpenResume(p) PROVE ProcOK(p)' /\ DataInv'
<1>1. /\ pc'[p] = "attempt" /\ rec.st # "absent" /\ rec.id = ident[p]
      /\ Phase = "measurement" => rec.rt # 0
      /\ UNCHANGED <<rec, meta, csv, work, kept, final, ident, attempts, produced>>
      /\ backup \subseteq backup'
  BY DEF OpenResume, Resumable, Goto, bounds, IInv, TypeInv, TypeOK, LocalOK
<1>2. rec \in RunRecord /\ rec \in Truthful
  BY DEF IInv, TypeInv, TypeOK, DiskOK, DataInv
<1>3. DataInv'
  BY <1>1, DataStable DEF IInv
<1>4. CASE Phase = "preparation"
  <2>. DEFINE m == [rec EXCEPT !.st = "preparing"]
  <2>1. mem'[p] = m /\ PrepLeftovers \subseteq backup'
    BY <1>4 DEF OpenResume, IInv, TypeInv, TypeOK, LocalOK
  <2>2. rec.st # "complete" /\ \A c \in Cases : rec.cases[c].st = "none"
    BY <1>2, <1>4 DEF Phase, RunRecord, CaseRecord
  <2>3. /\ m \in RunRecord /\ m.st = "preparing" /\ m.id = rec.id /\ m.cases = rec.cases
        /\ m.rt = rec.rt /\ m.plan = rec.plan
    BY <1>2, RecordTypes DEF RunRecord, Statuses
  <2>4. m \in Truthful
    BY <2>2, <2>3 DEF Truthful
  <2>5. mem'[p] \in Truthful'
    BY <1>1, <2>1, <2>4, TruthfulStable
  <2>6. AttemptOK(p)'
    BY <1>1, <2>1, <2>2, <2>3, <2>5 DEF AttemptOK, NoCaseStarted, PrepLeftovers
  <2>. QED BY <1>1, <1>3, <2>6 DEF ProcOK
<1>5. CASE Phase # "preparation"
  <2>1. mem'[p] = rec
    BY <1>5 DEF OpenResume, IInv, TypeInv, TypeOK, LocalOK
  <2>2. rec.rt = 0 => rec.st = "complete"
    BY <1>1, <1>5 DEF Phase
  <2>3. mem'[p] \in Truthful'
    BY <1>1, <1>2, <2>1, TruthfulStable
  <2>4. AttemptOK(p)'
    BY <1>1, <2>1, <2>2, <2>3 DEF AttemptOK
  <2>. QED BY <1>1, <1>3, <2>4 DEF ProcOK
<1>. QED BY <1>4, <1>5

\* The attempt is recorded under a number no evidence carries yet.
LEMMA StepRecordAttempt ==
    ASSUME IInv, NEW p \in Procs, RecordAttempt(p) PROVE ProcOK(p)' /\ DataInv'
<1>1. AttemptOK(p) /\ DataInv
  BY DEF RecordAttempt, IInv, ProcOK
<1>2. /\ rec' = mem[p] /\ mem'[p] = mem[p] /\ ident'[p] = ident[p]
      /\ att'[p] = attempts' /\ attempts' = attempts + 1
      /\ UNCHANGED <<meta, csv, work, kept, final, backup, produced>>
  BY DEF RecordAttempt, IInv, TypeInv, TypeOK, LocalOK
<1>3. pc'[p] = CASE mem[p].st = "complete" -> "closing"
                 [] mem[p].st # "complete" /\ mem[p].rt # 0 -> "plan"
                 [] OTHER -> "prepare"
  BY DEF RecordAttempt, Goto, IInv, TypeInv, TypeOK, LocalOK
<1>4. Truthful' = Truthful
  BY <1>2, TruthfulStable
<1>5. Unrequested(p, 1)'
  <2>1. attempts + 1 \notin 1..attempts
    BY DEF IInv, TypeInv, TypeOK, BoundsOK
  <2>2. \A c \in Cases : RequestEvidence(c, attempts + 1) \notin produced
    BY <1>1, <2>1 DEF DataInv, FreshInv, RequestEvidence
  <2>. QED BY <1>2, <2>2 DEF Unrequested
<1>6. DataInv'
  <2>1. FreshInv'
    BY <1>1, <1>2 DEF DataInv, FreshInv, IInv, TypeInv, TypeOK, BoundsOK
  <2>2. EvidencePreserved'
    BY <1>1, <1>2, EvidenceStable DEF DataInv, AttemptOK
  <2>. QED BY <1>1, <1>2, <1>4, <2>1, <2>2 DEF DataInv, AttemptOK
<1>7. CASE mem[p].st = "complete"
  <2>1. ClosingOK(p)'
    BY <1>1, <1>2, <1>4 DEF ClosingOK, AttemptOK, Ahead
  <2>2. pc'[p] = "closing"
    BY <1>3, <1>7
  <2>. QED BY <2>1, <2>2, <1>6 DEF ProcOK
<1>8. CASE mem[p].st # "complete"
  <2>1. Synced(p)'
    BY <1>1, <1>2, <1>8 DEF Synced, AttemptOK
  <2>2. CASE mem[p].rt # 0
    <3>1. pc'[p] = "plan"
      BY <1>3, <1>8, <2>2
    <3>2. PlanOK(p)'
      BY <1>2, <1>5, <2>1, <2>2 DEF PlanOK
    <3>. QED BY <3>1, <3>2, <1>6 DEF ProcOK
  <2>3. CASE mem[p].rt = 0
    <3>1. pc'[p] = "prepare"
      BY <1>3, <1>8, <2>3
    <3>2. PrepareOK(p)'
      BY <1>1, <1>2, <1>5, <1>8, <2>1, <2>3 DEF PrepareOK, Preparing, AttemptOK,
         PrepLeftovers, NoCaseStarted
    <3>. QED BY <3>1, <3>2, <1>6 DEF ProcOK
  <2>. QED BY <2>2, <2>3
<1>. QED BY <1>7, <1>8

\* Preparing anew may overwrite artifacts: they were archived.
LEMMA StepPrepare == ASSUME IInv, NEW p \in Procs, Prepare(p) PROVE ProcOK(p)' /\ DataInv'
<1>1. PrepareOK(p) /\ DataInv
  BY DEF Prepare, IInv, ProcOK
<1>2. /\ pc'[p] = "bindRuntime" /\ att[p] \in Attempts /\ meta' = att[p]
      /\ produced' = produced \cup {PrepEvidence(att[p])}
      /\ UNCHANGED <<rec, csv, work, kept, final, backup, mem, att, ident, attempts>>
  BY DEF Prepare, Goto, IInv, TypeInv, TypeOK, LocalOK, Working, Inside, Opening, PCs
<1>3. \A c \in Cases, a \in Token : RequestEvidence(c, a) # PrepEvidence(att[p])
  BY <1>2, EvidenceDistinct, ConstantTypes
<1>4. Unrequested(p, 1)'
  BY <1>1, <1>2, <1>3, ConstantTypes DEF Unrequested, PrepareOK, Preparing
<1>5. BindRuntimeOK(p)'
  BY <1>1, <1>2, <1>4 DEF BindRuntimeOK, PrepareOK, Preparing, Synced
<1>6. rec' \in Truthful'
  <2>1. \A c \in Cases, a \in Attempts : Requested(c, a)' = Requested(c, a)
    BY <1>2, <1>3, ConstantTypes DEF Requested
  <2>. QED BY <1>1, <1>2, <2>1 DEF Truthful, Checkpointed, DataInv, PrepareOK,
     Preparing, Synced
<1>7. FreshInv'
  <2>1. att[p] \in 1..attempts
    BY <1>1, <1>2 DEF PrepareOK, Preparing, Synced, Attempts
  <2>2. PrepEvidence(att[p]).by = att[p]
    BY DEF PrepEvidence
  <2>. QED BY <1>1, <1>2, <2>1, <2>2 DEF FreshInv, DataInv
<1>8. EvidencePreserved'
  <2>. SUFFICES ASSUME NEW e \in produced'
                PROVE  InPlace(e)' \/ e \in backup'
    BY DEF EvidencePreserved
  <2>1. CASE e = PrepEvidence(att[p])
    BY <1>2, <2>1 DEF InPlace, PrepEvidence
  <2>2. CASE e \in produced /\ e.kind # "prep"
    BY <1>1, <1>2, <2>2 DEF InPlace, EvidencePreserved, DataInv, PrepareOK, Preparing,
       Synced
  <2>3. CASE e \in produced /\ e.kind = "prep"
    <3>1. e \in backup \/ meta = e.by
      BY <1>1, <2>3 DEF InPlace, EvidencePreserved, DataInv
    <3>2. meta = e.by => e = PrepEvidence(meta) /\ meta # 0
      BY <2>3 DEF IInv, TypeInv, TypeOK, DiskOK, Evidence, PrepEvidence
    <3>3. e \in backup
      BY <1>1, <3>1, <3>2 DEF PrepareOK, PrepLeftovers
    <3>. QED BY <1>2, <3>3
  <2>. QED BY <1>2, <2>1, <2>2, <2>3
<1>. QED BY <1>2, <1>5, <1>6, <1>7, <1>8 DEF ProcOK, DataInv

\* A successful or failed save of a record m that is as true as the old one.
LEMMA SaveStep ==
    ASSUME IInv, NEW p \in Procs, NEW m \in RunRecord, NEW where \in PCs,
           Save(p, m, where), Synced(p), m \in Truthful, Ahead(m, rec), rec \in Truthful,
           UNCHANGED <<meta, csv, work, kept, final, produced, attempts>>, backup \subseteq backup'
    PROVE  /\ DataInv'
           /\ mem'[p] = m /\ m \in Truthful'
           /\ \/ pc'[p] = where /\ rec' = m
              \/ pc'[p] = "closing" /\ ProcOK(p)'
<1>1. mem'[p] = m /\ Truthful' = Truthful
  BY TruthfulStable DEF Save, IInv, TypeInv, TypeOK, LocalOK
<1>2. FreshInv' /\ EvidencePreserved'
  BY EvidenceStable DEF IInv, DataInv, FreshInv, Synced
<1>3. CASE rec' = m /\ Goto(p, where)
  BY <1>1, <1>2, <1>3 DEF Goto, DataInv, IInv, TypeInv, TypeOK, LocalOK
<1>4. CASE rec' = rec /\ Goto(p, "closing")
  <2>1. pc'[p] = "closing"
    BY <1>4 DEF Goto, IInv, TypeInv, TypeOK, LocalOK
  <2>2. ClosingOK(p)'
    BY <1>1, <1>4 DEF ClosingOK, Synced, Ahead
  <2>. QED BY <1>1, <1>2, <1>4, <2>1, <2>2 DEF ProcOK, DataInv
<1>. QED BY <1>3, <1>4 DEF Save

\* bind_runtime freezes the artifacts this attempt has just written.
LEMMA StepBindRuntime ==
    ASSUME IInv, NEW p \in Procs, BindRuntime(p) PROVE ProcOK(p)' /\ DataInv'
<1>1. /\ BindRuntimeOK(p) /\ rec \in Truthful
      /\ rec \in RunRecord /\ mem[p] \in RunRecord /\ meta \in Token
  BY DEF BindRuntime, IInv, ProcOK, DataInv, TypeInv, TypeOK, DiskOK, LocalOK
<1>2. PICK m \in RunRecord : m = [mem[p] EXCEPT !.rt = meta, !.st = "running"]
  BY <1>1, RecordTypes
<1>3. /\ m.st = "running" /\ m.rt = meta /\ m.id = rec.id /\ m.cases = rec.cases
  BY <1>1, <1>2 DEF RunRecord, BindRuntimeOK, Preparing, Synced
<1>4. Save(p, m, "plan") /\ "plan" \in PCs
  BY <1>2 DEF BindRuntime, PCs
<1>5. m \in Truthful
  BY <1>1, <1>3 DEF Truthful, BindRuntimeOK, Preparing, NoCaseStarted
<1>6. /\ UNCHANGED <<meta, csv, work, kept, final, produced, attempts, att, ident>>
      /\ backup \subseteq backup'
  BY DEF BindRuntime
<1>7. /\ DataInv' /\ mem'[p] = m
      /\ \/ pc'[p] = "plan" /\ rec' = m
         \/ pc'[p] = "closing" /\ ProcOK(p)'
  BY <1>1, <1>3, <1>4, <1>5, <1>6, SaveStep DEF BindRuntimeOK, Preparing, Ahead
<1>8. pc'[p] = "plan" /\ rec' = m => PlanOK(p)'
  <2>1. att[p] \in Attempts /\ meta = att[p]
    BY <1>1 DEF BindRuntime, BindRuntimeOK, IInv, TypeInv, Working, Inside, Opening, PCs
  <2>2. meta # 0
    BY <2>1, ConstantTypes
  <2>. QED BY <1>1, <1>3, <1>6, <1>7, <2>2 DEF PlanOK, BindRuntimeOK, Preparing, Synced,
     Unrequested
<1>. QED BY <1>7, <1>8 DEF ProcOK

\* A step to close() with nothing written, from any point of the run.
LEMMA Unwind ==
    ASSUME IInv, NEW p \in Procs, pc'[p] = "closing", mem[p] = rec,
           UNCHANGED <<rec, meta, csv, work, kept, final, produced, attempts>>,
           mem'[p] = mem[p], backup \subseteq backup'
    PROVE  ProcOK(p)' /\ DataInv'
<1>1. rec \in Truthful
  BY DEF IInv, DataInv
<1>2. ClosingOK(p)'
  BY <1>1, TruthfulStable DEF ClosingOK, Ahead
<1>. QED BY <1>2, DataStable DEF ProcOK, IInv

\* The plan on disk belongs to the bound runtime.
LEMMA StepFreezePlan ==
    ASSUME IInv, NEW p \in Procs, FreezePlan(p) PROVE ProcOK(p)' /\ DataInv'
<1>1. PlanOK(p)
  BY DEF FreezePlan, IInv, ProcOK
<1>2. /\ UNCHANGED <<rec, meta, csv, work, kept, final, backup, produced, attempts, mem, att, ident>>
      /\ \/ pc'[p] = "bindPlan" /\ plan' = mem[p].rt
         \/ pc'[p] = "closing"
  BY DEF FreezePlan, Goto, bounds, IInv, TypeInv, TypeOK, LocalOK
<1>3. CASE pc'[p] = "bindPlan" /\ plan' = mem[p].rt
  <2>1. BindPlanOK(p)'
    BY <1>1, <1>2, <1>3 DEF BindPlanOK, PlanOK, Synced, Unrequested
  <2>. QED BY <1>2, <1>3, <2>1, DataStable DEF ProcOK, IInv
<1>4. CASE pc'[p] = "closing"
  BY <1>1, <1>2, <1>4, Unwind DEF PlanOK, Synced
<1>. QED BY <1>2, <1>3, <1>4

\* bind_matrix_plan, then the loop over the cases begins.
LEMMA StepBindPlan ==
    ASSUME IInv, NEW p \in Procs, BindPlan(p) PROVE ProcOK(p)' /\ DataInv'
<1>1. /\ BindPlanOK(p) /\ rec \in Truthful
      /\ rec \in RunRecord /\ mem[p] \in RunRecord /\ plan \in Token
  BY DEF BindPlan, IInv, ProcOK, DataInv, TypeInv, TypeOK, DiskOK, LocalOK
<1>2. /\ UNCHANGED <<meta, csv, work, kept, final, produced, attempts, att, ident, backup>>
      /\ idx'[p] = 1
  BY DEF BindPlan, IInv, TypeInv, TypeOK, LocalOK
<1>3. CASE mem[p].plan \in {0, plan}
  <2>1. PICK m \in RunRecord : m = [mem[p] EXCEPT !.plan = plan]
    BY <1>1, RecordTypes
  <2>2. /\ m.plan = plan /\ m.st = rec.st /\ m.rt = rec.rt /\ m.id = rec.id /\ m.cases = rec.cases
    BY <1>1, <2>1 DEF RunRecord, BindPlanOK, PlanOK, Synced
  <2>3. Save(p, m, "case") /\ "case" \in PCs
    BY <1>3, <2>1 DEF BindPlan, PCs
  <2>4. m \in Truthful
    BY <1>1, <2>2, TruthfulRecord DEF BindPlanOK, PlanOK, Synced
  <2>5. /\ DataInv' /\ mem'[p] = m
        /\ \/ pc'[p] = "case" /\ rec' = m
           \/ pc'[p] = "closing" /\ ProcOK(p)'
    BY <1>1, <1>2, <2>2, <2>3, <2>4, SaveStep DEF BindPlanOK, PlanOK, Ahead
  <2>6. \A c \in Cases : ~(c < 1)
    BY ConstantsAssumption DEF Cases
  <2>7. pc'[p] = "case" /\ rec' = m => CaseOK(p)'
    BY <1>1, <1>2, <2>2, <2>5, <2>6 DEF CaseOK, LoopOK, BindPlanOK, PlanOK, Synced,
       Unrequested
  <2>. QED BY <2>5, <2>7 DEF ProcOK
<1>4. CASE mem[p].plan \notin {0, plan}
  <2>1. pc'[p] = "closing" /\ UNCHANGED <<rec, mem>>
    BY <1>4 DEF BindPlan, Goto, IInv, TypeInv, TypeOK, LocalOK
  <2>. QED BY <1>1, <1>2, <2>1, Unwind DEF BindPlanOK, PlanOK, Synced
<1>. QED BY <1>3, <1>4

\* A reused case is the one the checkpoint names.
LEMMA StepReuseCase ==
    ASSUME IInv, NEW p \in Procs, NEW c \in Cases, ReuseCase(p, c) PROVE ProcOK(p)' /\ DataInv'
<1>1. CaseOK(p) /\ idx[p] = c
  BY DEF ReuseCase, AtCase, IInv, ProcOK
<1>2. /\ UNCHANGED <<disk, attempts, produced, mem, att, ident>>
      /\ \/ /\ pc'[p] = "case" /\ idx'[p] = c + 1
            /\ csv[c].by = mem[p].cases[c].sha
         \/ pc'[p] = "closing"
  BY DEF ReuseCase, Goto, bounds, IInv, TypeInv, TypeOK, LocalOK
<1>3. CASE /\ pc'[p] = "case" /\ idx'[p] = c + 1
           /\ csv[c].by = mem[p].cases[c].sha
  <2>1. mem[p].cases[c].st = "complete"
    BY DEF ReuseCase
  <2>2. \A d \in Cases : (d < c + 1 <=> d < c \/ d = c) /\ (d >= c + 1 => d >= c)
    BY ConstantsAssumption DEF Cases
  <2>3. CaseOK(p)'
    BY <1>1, <1>2, <1>3, <2>1, <2>2 DEF CaseOK, LoopOK, Synced, Unrequested, disk
  <2>. QED BY <1>2, <1>3, <2>3, DataStable DEF ProcOK, IInv, disk
<1>4. CASE pc'[p] = "closing"
  BY <1>1, <1>2, <1>4, Unwind DEF CaseOK, LoopOK, Synced, disk
<1>. QED BY <1>2, <1>3, <1>4

\* Leftovers are copied before anything is removed.
LEMMA StepCopyLeftovers ==
    ASSUME IInv, NEW p \in Procs, NEW c \in Cases, CopyLeftovers(p, c) PROVE ProcOK(p)' /\ DataInv'
<1>1. CaseOK(p) /\ idx[p] = c /\ mem[p].cases[c].st # "complete"
  BY DEF CopyLeftovers, AtCase, IInv, ProcOK
<1>2. /\ UNCHANGED <<rec, meta, csv, work, kept, final, attempts, produced, mem, att, ident, idx>>
      /\ pc'[p] = "archive" /\ backup' = backup \cup Leftovers(c)
  BY DEF CopyLeftovers, Goto, bounds, IInv, TypeInv, TypeOK, LocalOK
<1>3. Leftovers(c)' = Leftovers(c)
  BY <1>2 DEF Leftovers
<1>4. ArchiveOK(p)'
  BY <1>1, <1>2, <1>3 DEF ArchiveOK, OpenCase, CaseOK, LoopOK, Synced, Unrequested
<1>. QED BY <1>2, <1>4, DataStable DEF ProcOK, IInv

\* The case is marked archived while its leftovers are still there.
LEMMA StepMarkArchived ==
    ASSUME IInv, NEW p \in Procs, NEW c \in Cases, MarkArchived(p, c) PROVE ProcOK(p)' /\ DataInv'
<1>1. /\ ArchiveOK(p) /\ idx[p] = c /\ rec \in Truthful /\ rec \in RunRecord /\ mem[p] \in RunRecord
  BY DEF MarkArchived, AtCase, IInv, ProcOK, DataInv, TypeInv, TypeOK, DiskOK, LocalOK
<1>2. PICK m \in RunRecord : m = SetCase(mem[p], c, "archived", 0)
  BY <1>1, SetCaseType, ConstantTypes DEF CaseStates
<1>3. /\ m.st = rec.st /\ m.id = rec.id /\ m.rt = rec.rt /\ m.plan = rec.plan
      /\ m.cases[c].st = "archived" /\ \A d \in Cases \ {c} : m.cases[d] = rec.cases[d]
  BY <1>1, <1>2, SetCaseFacts DEF ArchiveOK, OpenCase, LoopOK, Synced
<1>4. Save(p, m, "unlink") /\ "unlink" \in PCs
  BY <1>2 DEF MarkArchived, PCs
<1>5. m \in Truthful
  BY <1>1, <1>3, TruthfulRecord DEF ArchiveOK, OpenCase, LoopOK, Synced
<1>6. UNCHANGED <<meta, csv, work, kept, final, backup, attempts, produced, att, ident, idx>>
  BY DEF MarkArchived
<1>7. /\ DataInv' /\ mem'[p] = m
      /\ \/ pc'[p] = "unlink" /\ rec' = m
         \/ pc'[p] = "closing" /\ ProcOK(p)'
  BY <1>1, <1>3, <1>4, <1>5, <1>6, SaveStep DEF ArchiveOK, OpenCase, LoopOK, Ahead, Synced
<1>8. pc'[p] = "unlink" /\ rec' = m => ArchiveOK(p)'
  <2>1. Leftovers(c)' = Leftovers(c)
    BY <1>6 DEF Leftovers
  <2>2. \A d \in Cases : d < c => d # c
    BY ConstantsAssumption DEF Cases
  <2>. QED BY <1>1, <1>3, <1>6, <1>7, <2>1, <2>2 DEF ArchiveOK, OpenCase, LoopOK,
     Synced, Unrequested
<1>. QED BY <1>7, <1>8 DEF ProcOK

\* What is unlinked has a copy.
LEMMA StepUnlinkLeftover ==
    ASSUME IInv, NEW p \in Procs, NEW c \in Cases, UnlinkLeftover(p, c) PROVE ProcOK(p)' /\ DataInv'
<1>1. /\ ArchiveOK(p) /\ idx[p] = c /\ pc[p] = "unlink" /\ DataInv
      /\ csv \in [Cases -> CsvFile] /\ work \in [Cases -> Token] /\ kept \in [Cases -> Token]
  BY DEF UnlinkLeftover, AtCase, IInv, ProcOK, TypeInv, TypeOK, DiskOK
<1>2. /\ UNCHANGED <<rec, meta, final, backup, attempts, produced, pc, mem, att, ident, idx>>
      /\ csv'[c] \in {csv[c], NoCsv} /\ work'[c] \in {work[c], 0} /\ kept'[c] \in {kept[c], 0}
      /\ \A d \in Cases \ {c} : csv'[d] = csv[d] /\ work'[d] = work[d] /\ kept'[d] = kept[d]
  BY <1>1 DEF UnlinkLeftover, local, bounds
<1>3. rec' \in Truthful'
  BY <1>1, <1>2, TruthfulElsewhere DEF ArchiveOK, OpenCase, LoopOK, Synced, DataInv
<1>4. Leftovers(c)' \subseteq Leftovers(c)
  BY <1>2 DEF Leftovers
<1>5. \A d \in Cases : d < c => d # c
  BY ConstantsAssumption DEF Cases
<1>6. ArchiveOK(p)'
  BY <1>1, <1>2, <1>4, <1>5 DEF ArchiveOK, OpenCase, LoopOK, Synced, Unrequested
<1>7. EvidencePreserved'
  <2>. SUFFICES ASSUME NEW e \in produced
                PROVE  InPlace(e)' \/ e \in backup
    BY <1>2 DEF EvidencePreserved
  <2>1. InPlace(e) \/ e \in backup
    BY <1>1 DEF EvidencePreserved, DataInv, ArchiveOK, OpenCase, LoopOK, Synced
  <2>2. e \in Evidence
    BY DEF IInv, TypeInv, TypeOK, DiskOK
  <2>3. CASE e.kind = "prep" \/ e.c # c
    <3>1. e.kind = "prep" \/ e.c \in Cases \ {c}
      BY <2>2, <2>3 DEF Evidence
    <3>. QED BY <1>2, <2>1, <2>2, <3>1 DEF InPlace, Evidence
  <2>4. CASE e.kind = "csv" /\ e.c = c /\ csv[c].by = e.by
    <3>1. e = CsvEvidence(c, csv[c].by) /\ csv[c] # NoCsv
      BY <2>2, <2>4 DEF Evidence, CsvEvidence, NoCsv
    <3>. QED BY <1>1, <3>1 DEF Leftovers, ArchiveOK
  <2>5. CASE e.kind = "requests" /\ e.c = c /\ e.by \in {work[c], kept[c]}
    <3>1. e = RequestEvidence(c, e.by) /\ e.by # 0
      BY <2>2, <2>5 DEF Evidence, RequestEvidence
    <3>. QED BY <1>1, <2>5, <3>1 DEF Leftovers, ArchiveOK
  <2>. QED BY <2>1, <2>2, <2>3, <2>4, <2>5 DEF InPlace, Evidence
<1>8. FreshInv'
  BY <1>1, <1>2 DEF FreshInv, DataInv
<1>. QED BY <1>1, <1>2, <1>3, <1>6, <1>7, <1>8 DEF ProcOK, DataInv

\* The case starts without rows and without samples.
LEMMA StepStartCase ==
    ASSUME IInv, NEW p \in Procs, NEW c \in Cases, StartCase(p, c) PROVE ProcOK(p)' /\ DataInv'
<1>1. /\ LoopOK(p) /\ Unrequested(p, c) /\ idx[p] = c /\ rec.cases[c].st # "complete"
      /\ rec \in Truthful /\ rec \in RunRecord /\ mem[p] \in RunRecord
  BY DEF StartCase, AtCase, IInv, ProcOK, DataInv, TypeInv, TypeOK, DiskOK, LocalOK,
         CaseOK, ArchiveOK, OpenCase, LoopOK, Synced
<1>2. PICK m \in RunRecord : m = SetCase(mem[p], c, "running", 0)
  BY <1>1, SetCaseType, ConstantTypes DEF CaseStates
<1>3. /\ m.st = rec.st /\ m.id = rec.id /\ m.rt = rec.rt /\ m.plan = rec.plan
      /\ m.cases[c].st = "running" /\ \A d \in Cases \ {c} : m.cases[d] = rec.cases[d]
  BY <1>1, <1>2, SetCaseFacts DEF LoopOK, Synced
<1>4. Save(p, m, "measure") /\ "measure" \in PCs
  BY <1>2 DEF StartCase, PCs
<1>5. m \in Truthful
  BY <1>1, <1>3, TruthfulRecord DEF LoopOK, Synced
<1>6. UNCHANGED <<meta, csv, work, kept, final, backup, attempts, produced, att, ident, idx>>
  BY DEF StartCase
<1>7. /\ DataInv' /\ mem'[p] = m
      /\ \/ pc'[p] = "measure" /\ rec' = m
         \/ pc'[p] = "closing" /\ ProcOK(p)'
  BY <1>1, <1>3, <1>4, <1>5, <1>6, SaveStep DEF LoopOK, Ahead, Synced
<1>8. csv[c] = NoCsv /\ work[c] = 0 /\ kept[c] = 0
  BY DEF StartCase, Leftovers
<1>9. Requested(c, att[p]) = 0
  BY <1>1, ConstantsAssumption DEF Requested, Unrequested, Cases
<1>10. pc'[p] = "measure" /\ rec' = m => MeasureOK(p)'
  <2>1. \A d \in Cases : (d < c => d # c) /\ (d >= c + 1 => d >= c)
    BY ConstantsAssumption DEF Cases
  <2>2. Requested(c, att[p])' = Requested(c, att[p])
    BY <1>6 DEF Requested
  <2>. SUFFICES ASSUME pc'[p] = "measure", rec' = m PROVE MeasureOK(p)'
    OBVIOUS
  <2>3. OpenCase(p)'
    BY <1>1, <1>3, <1>6, <1>7, <2>1 DEF OpenCase, LoopOK, Synced
  <2>4. Unrequested(p, idx[p] + 1)'
    BY <1>1, <1>6, <2>1 DEF Unrequested
  <2>. QED BY <1>1, <1>6, <1>8, <1>9, <2>2, <2>3, <2>4 DEF MeasureOK
<1>. QED BY <1>7, <1>10 DEF ProcOK

\* New samples are those of this attempt.
LEMMA StepAppendRequests ==
    ASSUME IInv, NEW p \in Procs, NEW c \in Cases, AppendRequests(p, c) PROVE ProcOK(p)' /\ DataInv'
<1>1. /\ MeasureOK(p) /\ idx[p] = c /\ pc[p] = "measure" /\ DataInv /\ att[p] \in Attempts
      /\ work[c] = 0 /\ csv[c] = NoCsv
      /\ work \in [Cases -> Token] /\ produced \subseteq Evidence
  BY DEF AppendRequests, AtCase, IInv, ProcOK, TypeInv, TypeOK, DiskOK, Working, Inside,
     Opening, PCs
<1>2. /\ UNCHANGED <<rec, meta, csv, kept, final, backup, attempts, pc, mem, att, ident, idx>>
      /\ work' = [work EXCEPT ![c] = att[p]]
      /\ produced' = produced \cup {RequestEvidence(c, att[p])}
  BY DEF AppendRequests, local
<1>3. \A d \in Cases, a \in Token : d # c => RequestEvidence(d, a) # RequestEvidence(c, att[p])
  BY <1>1, EvidenceDistinct, ConstantTypes
<1>4. rec' \in Truthful'
  BY <1>1, <1>2, <1>3, ConstantTypes, TruthfulElsewhere
     DEF MeasureOK, OpenCase, LoopOK, Synced, DataInv
<1>5. \A d \in Cases : (d < c => d # c) /\ (d >= c + 1 => d # c)
  BY ConstantsAssumption DEF Cases
<1>6. MeasureOK(p)'
  <2>1. OpenCase(p)'
    BY <1>1, <1>2 DEF MeasureOK, OpenCase, LoopOK, Synced
  <2>2. Unrequested(p, c + 1)'
    BY <1>1, <1>2, <1>3, <1>5, ConstantTypes DEF MeasureOK, Unrequested
  <2>3. work'[c] = Requested(c, att[p])'
    BY <1>1, <1>2 DEF Requested
  <2>. QED BY <1>1, <1>2, <2>1, <2>2, <2>3 DEF MeasureOK
<1>7. FreshInv'
  <2>1. att[p] \in 1..attempts
    BY <1>1 DEF MeasureOK, OpenCase, LoopOK, Synced, Attempts
  <2>2. RequestEvidence(c, att[p]).by = att[p]
    BY DEF RequestEvidence
  <2>. QED BY <1>1, <1>2, <2>1, <2>2 DEF FreshInv, DataInv
<1>8. EvidencePreserved'
  <2>. SUFFICES ASSUME NEW e \in produced'
                PROVE  InPlace(e)' \/ e \in backup
    BY <1>2 DEF EvidencePreserved
  <2>1. CASE e = RequestEvidence(c, att[p])
    BY <1>1, <1>2, <2>1 DEF InPlace, RequestEvidence
  <2>2. CASE e \in produced
    <3>1. InPlace(e) \/ e \in backup
      BY <1>1, <2>2 DEF EvidencePreserved, DataInv, MeasureOK, OpenCase, LoopOK, Synced
    <3>2. e.by # 0 /\ (e.kind = "requests" => e.c \in Cases)
      BY <1>1, <2>2 DEF Evidence
    <3>. QED BY <1>1, <1>2, <3>1, <3>2 DEF InPlace
  <2>. QED BY <1>2, <2>1, <2>2
<1>. QED BY <1>1, <1>2, <1>4, <1>6, <1>7, <1>8 DEF ProcOK, DataInv

\* New rows are those of this attempt, runtime and identity.
LEMMA StepAppendRow ==
    ASSUME IInv, NEW p \in Procs, NEW c \in Cases, AppendRow(p, c) PROVE ProcOK(p)' /\ DataInv'
<1>1. /\ MeasureOK(p) /\ idx[p] = c /\ pc[p] = "measure" /\ DataInv /\ att[p] \in Attempts
      /\ csv[c] = NoCsv /\ csv \in [Cases -> CsvFile] /\ produced \subseteq Evidence
  BY DEF AppendRow, AtCase, IInv, ProcOK, TypeInv, TypeOK, DiskOK, Working, Inside,
     Opening, PCs
<1>2. /\ UNCHANGED <<rec, meta, work, kept, final, backup, attempts, pc, mem, att, ident, idx>>
      /\ csv' = [csv EXCEPT ![c] = RowsOf(p, FALSE)]
      /\ produced' = produced \cup {CsvEvidence(c, att[p])}
  BY <1>1 DEF AppendRow, local, RowsOf, MeasureOK, OpenCase, LoopOK, Synced
<1>3. \A d \in Cases, a \in Token : RequestEvidence(d, a) # CsvEvidence(c, att[p])
  BY <1>1, EvidenceDistinct, ConstantTypes
<1>4. rec' \in Truthful'
  BY <1>1, <1>2, <1>3, ConstantTypes, TruthfulElsewhere
     DEF MeasureOK, OpenCase, LoopOK, Synced, DataInv
<1>5. \A d \in Cases : d < c => d # c
  BY ConstantsAssumption DEF Cases
<1>6. MeasureOK(p)'
  <2>1. OpenCase(p)'
    BY <1>1, <1>2, <1>5 DEF MeasureOK, OpenCase, LoopOK, Synced
  <2>2. Unrequested(p, c + 1)'
    BY <1>1, <1>2, <1>3, ConstantTypes DEF MeasureOK, Unrequested
  <2>3. Requested(c, att[p])' = Requested(c, att[p])
    BY <1>1, <1>2, <1>3, ConstantTypes DEF Requested
  <2>4. csv'[c] = RowsOf(p, FALSE) /\ RowsOf(p, FALSE)' = RowsOf(p, FALSE)
    BY <1>1, <1>2 DEF RowsOf
  <2>. QED BY <1>1, <1>2, <2>1, <2>2, <2>3, <2>4 DEF MeasureOK
<1>7. FreshInv'
  <2>1. att[p] \in 1..attempts
    BY <1>1 DEF MeasureOK, OpenCase, LoopOK, Synced, Attempts
  <2>2. CsvEvidence(c, att[p]).by = att[p]
    BY DEF CsvEvidence
  <2>. QED BY <1>1, <1>2, <2>1, <2>2 DEF FreshInv, DataInv
<1>8. EvidencePreserved'
  <2>. SUFFICES ASSUME NEW e \in produced'
                PROVE  InPlace(e)' \/ e \in backup
    BY <1>2 DEF EvidencePreserved
  <2>1. CASE e = CsvEvidence(c, att[p])
    BY <1>1, <1>2, <2>1 DEF InPlace, CsvEvidence, RowsOf
  <2>2. CASE e \in produced
    <3>1. InPlace(e) \/ e \in backup
      BY <1>1, <2>2 DEF EvidencePreserved, DataInv, MeasureOK, OpenCase, LoopOK, Synced
    <3>2. e.by # 0 /\ (e.kind = "csv" => e.c \in Cases)
      BY <1>1, <2>2 DEF Evidence
    <3>. QED BY <1>1, <1>2, <3>1, <3>2, CsvTypes DEF InPlace
  <2>. QED BY <1>2, <2>1, <2>2
<1>. QED BY <1>1, <1>2, <1>4, <1>6, <1>7, <1>8 DEF ProcOK, DataInv

\* Completing the rows changes neither their author nor their runtime.
LEMMA StepCompleteCsv ==
    ASSUME IInv, NEW p \in Procs, NEW c \in Cases, CompleteCsv(p, c) PROVE ProcOK(p)' /\ DataInv'
<1>1. /\ MeasureOK(p) /\ idx[p] = c /\ DataInv /\ att[p] \in Attempts
      /\ csv[c].by = att[p] /\ csv \in [Cases -> CsvFile]
  BY DEF CompleteCsv, AtCase, IInv, ProcOK, TypeInv, TypeOK, DiskOK, Working, Inside,
     Opening, PCs
<1>2. /\ UNCHANGED <<rec, meta, work, kept, final, backup, attempts, produced, mem, att, ident, idx>>
      /\ pc'[p] = "finish"
      /\ csv' = [csv EXCEPT ![c].full = TRUE]
  BY DEF CompleteCsv, Goto, bounds, IInv, TypeInv, TypeOK, LocalOK
<1>3. csv[c] = RowsOf(p, FALSE)
  BY <1>1, CsvTypes, ConstantTypes DEF MeasureOK
<1>4. csv'[c] = RowsOf(p, TRUE) /\ \A d \in Cases \ {c} : csv'[d] = csv[d]
  <2>1. csv'[c] = [csv[c] EXCEPT !.full = TRUE] /\ \A d \in Cases \ {c} : csv'[d] = csv[d]
    BY <1>1, <1>2
  <2>2. csv'[c] \in CsvFile /\ csv'[c].full = TRUE
    BY <1>1, <2>1, CsvTypes DEF CsvFile
  <2>3. csv'[c].by = att[p] /\ csv'[c].rt = rec.rt /\ csv'[c].id = rec.id
    BY <1>1, <1>3, <2>1 DEF RowsOf, CsvFile
  <2>. QED BY <2>1, <2>2, <2>3 DEF RowsOf, CsvFile
<1>5. rec' \in Truthful'
  BY <1>1, <1>2, <1>4, TruthfulElsewhere DEF MeasureOK, OpenCase, LoopOK, Synced, DataInv
<1>6. \A d \in Cases : d < c => d # c
  BY ConstantsAssumption DEF Cases
<1>7. FinishOK(p)'
  <2>1. OpenCase(p)'
    BY <1>1, <1>2, <1>4, <1>6 DEF MeasureOK, OpenCase, LoopOK, Synced
  <2>2. Unrequested(p, c + 1)' /\ Requested(c, att[p])' = Requested(c, att[p])
    BY <1>1, <1>2 DEF MeasureOK, Unrequested, Requested
  <2>3. RowsOf(p, TRUE)' = RowsOf(p, TRUE)
    BY <1>2 DEF RowsOf
  <2>. QED BY <1>1, <1>2, <1>4, <2>1, <2>2, <2>3 DEF FinishOK, MeasureOK
<1>8. EvidencePreserved'
  <2>1. \A d \in Cases : csv'[d].by = csv[d].by
    BY <1>3, <1>4 DEF RowsOf
  <2>2. \A e \in produced : e.kind = "csv" => e.c \in Cases
    BY DEF IInv, TypeInv, TypeOK, DiskOK, Evidence
  <2>. QED BY <1>1, <1>2, <2>1, <2>2 DEF EvidencePreserved, InPlace, DataInv
<1>9. FreshInv'
  BY <1>1, <1>2 DEF FreshInv, DataInv
<1>. QED BY <1>2, <1>5, <1>7, <1>8, <1>9 DEF ProcOK, DataInv

\* Moving the samples of a case that has none retained loses nothing.
LEMMA RetainKeeps ==
    ASSUME IInv, NEW c \in Cases, Retain(c), kept[c] = 0 \/ work[c] = 0,
           UNCHANGED <<rec, meta, final, backup, produced>>,
           \A d \in Cases : \/ csv'[d] = csv[d]
                            \/ rec.st = "complete" /\ csv[d] = final[d]
    PROVE  /\ EvidencePreserved'
           /\ \A d \in Cases \ {c} : work'[d] = work[d] /\ kept'[d] = kept[d]
           /\ work'[c] = 0 /\ kept'[c] = IF work[c] # 0 THEN work[c] ELSE kept[c]
<1>1. /\ work \in [Cases -> Token] /\ kept \in [Cases -> Token] /\ produced \subseteq Evidence
  BY DEF IInv, TypeInv, TypeOK, DiskOK
<1>2. /\ \A d \in Cases \ {c} : work'[d] = work[d] /\ kept'[d] = kept[d]
      /\ work'[c] = 0 /\ kept'[c] = IF work[c] # 0 THEN work[c] ELSE kept[c]
  BY <1>1 DEF Retain
<1>3. EvidencePreserved'
  <2>. SUFFICES ASSUME NEW e \in produced
                PROVE  \/ InPlace(e)' \/ e \in backup
                       \/ e.kind = "csv" /\ rec.st = "complete" /\ final[e.c].by = e.by
    BY DEF EvidencePreserved
  <2>1. \/ InPlace(e) \/ e \in backup
        \/ e.kind = "csv" /\ rec.st = "complete" /\ final[e.c].by = e.by
    BY DEF EvidencePreserved, IInv, DataInv
  <2>2. e.by # 0 /\ (e.kind # "prep" => e.c \in Cases)
    BY <1>1 DEF Evidence
  <2>3. CASE e.kind = "requests" /\ e.by \in {work[e.c], kept[e.c]}
    <3>1. e.by \in {work'[e.c], kept'[e.c]}
      BY <1>2, <2>2, <2>3
    <3>. QED BY <2>3, <3>1 DEF InPlace
  <2>4. CASE e.kind = "csv" /\ csv[e.c].by = e.by
    BY <2>2, <2>4 DEF InPlace
  <2>5. CASE e.kind = "prep" /\ meta = e.by
    BY <2>5 DEF InPlace
  <2>. QED BY <2>1, <2>3, <2>4, <2>5 DEF InPlace
<1>. QED BY <1>2, <1>3

\* The samples move to raw/requests before the checkpoint.
LEMMA StepFinishCase ==
    ASSUME IInv, NEW p \in Procs, NEW c \in Cases, FinishCase(p, c) PROVE ProcOK(p)' /\ DataInv'
<1>1. /\ FinishOK(p) /\ idx[p] = c /\ DataInv /\ att[p] \in Attempts
  BY DEF FinishCase, AtCase, IInv, ProcOK, Working, Inside, Opening, PCs, TypeInv
<1>2. /\ UNCHANGED <<rec, meta, csv, final, backup, attempts, produced, mem, att, ident, idx>>
      /\ pc'[p] = "record" /\ Retain(c)
  <2>1. csv[c].full
    BY <1>1 DEF FinishOK, RowsOf
  <2>. QED BY <2>1 DEF FinishCase, Goto, bounds, IInv, TypeInv, TypeOK, LocalOK
<1>3. /\ EvidencePreserved'
      /\ \A d \in Cases \ {c} : work'[d] = work[d] /\ kept'[d] = kept[d]
      /\ work'[c] = 0 /\ kept'[c] = IF work[c] # 0 THEN work[c] ELSE kept[c]
  BY <1>1, <1>2, RetainKeeps DEF FinishOK
<1>4. rec' \in Truthful'
  BY <1>1, <1>2, <1>3, TruthfulElsewhere DEF FinishOK, OpenCase, LoopOK, Synced, DataInv
<1>5. RecordOK(p)'
  <2>1. OpenCase(p)'
    BY <1>1, <1>2 DEF FinishOK, OpenCase, LoopOK, Synced
  <2>2. Unrequested(p, c + 1)' /\ Requested(c, att[p])' = Requested(c, att[p])
    BY <1>1, <1>2 DEF FinishOK, Unrequested, Requested
  <2>3. RowsOf(p, TRUE)' = RowsOf(p, TRUE)
    BY <1>2 DEF RowsOf
  <2>4. kept'[c] = Requested(c, att[p])
    BY <1>1, <1>3 DEF FinishOK, Requested
  <2>. QED BY <1>1, <1>2, <1>3, <2>1, <2>2, <2>3, <2>4 DEF FinishOK, RecordOK
<1>6. FreshInv'
  BY <1>1, <1>2 DEF FreshInv, DataInv
<1>. QED BY <1>2, <1>3, <1>4, <1>5, <1>6 DEF ProcOK, DataInv

\* The checkpoint names what is on disk.
LEMMA StepRecordCase ==
    ASSUME IInv, NEW p \in Procs, NEW c \in Cases, RecordCase(p, c) PROVE ProcOK(p)' /\ DataInv'
<1>1. /\ RecordOK(p) /\ idx[p] = c /\ rec \in Truthful /\ att[p] \in Attempts
      /\ rec \in RunRecord /\ mem[p] \in RunRecord /\ csv[c].by \in Token
  BY CsvTypes DEF RecordCase, AtCase, IInv, ProcOK, DataInv, TypeInv, TypeOK, DiskOK,
     LocalOK,
                  Working, Inside, Opening, PCs
<1>2. PICK m \in RunRecord : m = SetCase(mem[p], c, "complete", csv[c].by)
  BY <1>1, SetCaseType DEF CaseStates
<1>3. /\ m.st = rec.st /\ m.id = rec.id /\ m.rt = rec.rt /\ m.plan = rec.plan
      /\ m.cases[c].st = "complete" /\ m.cases[c].sha = csv[c].by
      /\ \A d \in Cases \ {c} : m.cases[d] = rec.cases[d]
  BY <1>1, <1>2, SetCaseFacts DEF RecordOK, OpenCase, LoopOK, Synced
<1>4. Save(p, m, "case") /\ "case" \in PCs
  BY <1>2 DEF RecordCase, PCs
<1>5. m \in Truthful
  <2>1. csv[c] = RowsOf(p, TRUE)
    BY <1>1 DEF RecordOK
  <2>2. Checkpointed(m, c)
    BY <1>1, <1>3, <2>1 DEF Checkpointed, RecordOK, RowsOf
  <2>. QED BY <1>1, <1>3, <2>2, TruthfulRecord DEF RecordOK, OpenCase, LoopOK, Synced
<1>6. /\ UNCHANGED <<meta, csv, work, kept, final, backup, attempts, produced, att, ident>>
      /\ idx'[p] = c + 1
  BY DEF RecordCase, IInv, TypeInv, TypeOK, LocalOK
<1>7. /\ DataInv' /\ mem'[p] = m
      /\ \/ pc'[p] = "case" /\ rec' = m
         \/ pc'[p] = "closing" /\ ProcOK(p)'
  BY <1>1, <1>3, <1>4, <1>5, <1>6, SaveStep DEF RecordOK, OpenCase, LoopOK, Ahead, Synced
<1>8. ASSUME pc'[p] = "case", rec' = m PROVE CaseOK(p)'
  <2>1. \A d \in Cases : d < c + 1 <=> d < c \/ d = c
    BY ConstantsAssumption DEF Cases
  <2>2. LoopOK(p)'
    BY <1>1, <1>3, <1>6, <1>7, <1>8, <2>1 DEF RecordOK, OpenCase, LoopOK, Synced
  <2>3. Unrequested(p, c + 1)'
    BY <1>1, <1>6 DEF RecordOK, Unrequested
  <2>. QED BY <1>6, <2>2, <2>3 DEF CaseOK
<1>. QED BY <1>7, <1>8 DEF ProcOK

\* The merge copies the checkpointed rows.
LEMMA StepMerge == ASSUME IInv, NEW p \in Procs, Merge(p) PROVE ProcOK(p)' /\ DataInv'
<1>1. /\ CaseOK(p) /\ DataInv /\ idx[p] > NumCases /\ idx[p] \in Int
  BY ConstantsAssumption DEF Merge, IInv, ProcOK, TypeInv, TypeOK, LocalOK
<1>2. UNCHANGED <<rec, meta, csv, work, kept, backup, attempts, produced, mem, att, ident>>
  BY DEF Merge, bounds
<1>3. CASE pc'[p] = "gate" /\ final' = csv
  <2>1. \A c \in Cases : c < idx[p]
    BY <1>1, ConstantsAssumption DEF Cases
  <2>2. GateOK(p)'
    BY <1>1, <1>2, <1>3, <2>1 DEF GateOK, CaseOK, LoopOK, Synced
  <2>3. rec' \in Truthful'
    BY <1>1, <1>2 DEF Truthful, Checkpointed, Requested, DataInv, CaseOK, LoopOK, Synced
  <2>4. EvidencePreserved' /\ FreshInv'
    BY <1>1, <1>2 DEF EvidencePreserved, InPlace, FreshInv, DataInv, CaseOK, LoopOK, Synced
  <2>. QED BY <1>3, <2>2, <2>3, <2>4 DEF ProcOK, DataInv
<1>4. CASE pc'[p] = "closing" /\ final' = final
  BY <1>1, <1>2, <1>4, Unwind DEF CaseOK, LoopOK, Synced
<1>. QED BY <1>3, <1>4 DEF Merge, Goto, IInv, TypeInv, TypeOK, LocalOK

\* status=complete is written over a whole result.
LEMMA StepFinishRun == ASSUME IInv, NEW p \in Procs, FinishRun(p) PROVE ProcOK(p)' /\ DataInv'
<1>1. /\ GateOK(p) /\ rec \in Truthful /\ rec \in RunRecord /\ mem[p] \in RunRecord
      /\ csv \in [Cases -> CsvFile]
  BY DEF FinishRun, IInv, ProcOK, DataInv, TypeInv, TypeOK, DiskOK, LocalOK
<1>2. UNCHANGED <<meta, csv, work, kept, final, backup, attempts, produced, att, ident>>
  BY DEF FinishRun
<1>3. \A c \in Cases : Checkpointed(rec, c)
  BY <1>1 DEF GateOK, Truthful, Synced
<1>4. PICK m \in RunRecord : m = [mem[p] EXCEPT !.st = "complete"]
  BY <1>1, RecordTypes DEF Statuses
<1>5. m.st = "complete" /\ m.rt = rec.rt /\ m.plan = rec.plan /\ m.id = rec.id /\ m.cases = rec.cases
  BY <1>1, <1>4 DEF RunRecord, GateOK, Synced
<1>6. m \in Truthful
  <2>. SUFFICES ASSUME NEW c \in Cases
                PROVE  final[c] = [by |-> m.cases[c].sha, rt |-> m.rt, id |-> m.id, full |-> TRUE]
    BY <1>1, <1>3, <1>5 DEF Truthful, PublishedAs, Checkpointed, GateOK
  <2>1. /\ csv[c] \in CsvFile /\ final[c] = csv[c] /\ csv[c].by = m.cases[c].sha
        /\ csv[c].rt = m.rt /\ csv[c].id = m.id /\ csv[c].full = TRUE
    BY <1>1, <1>3, <1>5 DEF GateOK, Checkpointed, CsvFile
  <2>. QED BY <2>1 DEF CsvFile
<1>7. Save(p, m, "cleanup") /\ "cleanup" \in PCs
  BY <1>1, <1>3, <1>4 DEF FinishRun, PCs, GateOK, Checkpointed
<1>8. /\ DataInv' /\ mem'[p] = m
      /\ \/ pc'[p] = "cleanup" /\ rec' = m
         \/ pc'[p] = "closing" /\ ProcOK(p)'
  BY <1>1, <1>2, <1>5, <1>6, <1>7, SaveStep DEF GateOK, Ahead
<1>9. pc'[p] = "cleanup" /\ rec' = m => CleanupOK(p)'
  BY <1>1, <1>2, <1>3, <1>5, <1>8 DEF CleanupOK, GateOK, Checkpointed
<1>. QED BY <1>8, <1>9 DEF ProcOK

\* Cleanup removes rows only after they are published.
LEMMA StepCleanup == ASSUME IInv, NEW p \in Procs, Cleanup(p) PROVE ProcOK(p)' /\ DataInv'
<1>1. CleanupOK(p) /\ DataInv /\ csv \in [Cases -> CsvFile]
  BY DEF Cleanup, IInv, ProcOK, TypeInv, TypeOK, DiskOK
<1>2. /\ UNCHANGED <<rec, meta, final, backup, attempts, produced, mem, att, ident>>
      /\ csv' = csv \/ csv' = [csv EXCEPT ![idx[p]] = NoCsv]
  BY DEF Cleanup, bounds
<1>3. CASE idx[p] \in Cases /\ Retain(idx[p]) /\ UNCHANGED pc
  <2>1. \A d \in Cases : csv'[d] = csv[d] \/ (csv'[d] = NoCsv /\ d = idx[p])
    BY <1>1, <1>2
  <2>2. \A d \in Cases : csv'[d] \in {NoCsv, final[d]}
    BY <1>1, <2>1 DEF CleanupOK
  <2>3. \A d \in Cases : csv[d] # NoCsv => csv[d] = final[d]
    BY <1>1 DEF CleanupOK
  <2>4. \A d \in Cases : csv'[d] = csv[d] \/ (rec.st = "complete" /\ csv[d] = final[d])
    BY <1>1, <2>1, <2>3 DEF CleanupOK
  <2>5. /\ EvidencePreserved'
        /\ \A d \in Cases : work'[d] = 0
    BY <1>1, <1>2, <1>3, <2>4, RetainKeeps DEF CleanupOK
  <2>6. rec' \in Truthful'
    BY <1>1, <1>2 DEF Truthful, PublishedAs, DataInv, CleanupOK
  <2>7. FreshInv'
    BY <1>1, <1>2 DEF FreshInv, DataInv
  <2>8. CleanupOK(p)' /\ pc'[p] = "cleanup"
    BY <1>1, <1>2, <1>3, <2>2, <2>5 DEF CleanupOK, Cleanup
  <2>. QED BY <2>5, <2>6, <2>7, <2>8 DEF ProcOK, DataInv
<1>4. CASE Goto(p, "closing") /\ UNCHANGED <<csv, work, kept>>
  <2>1. pc'[p] = "closing"
    BY <1>4 DEF Goto, IInv, TypeInv, TypeOK, LocalOK
  <2>. QED BY <1>1, <1>2, <1>4, <2>1, Unwind DEF CleanupOK
<1>. QED BY <1>3, <1>4 DEF Cleanup

\* Unwinding writes nothing.
LEMMA StepFail == ASSUME IInv, NEW p \in Procs, Fail(p) PROVE ProcOK(p)' /\ DataInv'
<1>1. /\ UNCHANGED <<disk, mem, attempts, produced>> /\ pc'[p] = "closing"
  BY DEF Fail, Goto, IInv, TypeInv, TypeOK, LocalOK
<1>2. pc[p] \in {"prepare", "bindRuntime", "plan", "bindPlan", "case", "archive", "unlink",
                 "measure", "finish", "record", "gate", "cleanup"}
  BY DEF Fail, Working, Inside, Opening, PCs
<1>3. ProcOK(p)
  BY DEF IInv
<1>4. mem[p] = rec
  BY <1>2, <1>3 DEF ProcOK, PrepareOK, BindRuntimeOK, Preparing, BindPlanOK, PlanOK,
     CaseOK, ArchiveOK,
                    MeasureOK, FinishOK, RecordOK, GateOK, CleanupOK, OpenCase, LoopOK, Synced
<1>. QED BY <1>1, <1>4, Unwind DEF disk

\* close() writes the record it has in memory.
LEMMA StepClose == ASSUME IInv, NEW p \in Procs, Close(p) PROVE ProcOK(p)' /\ DataInv'
<1>1. /\ ClosingOK(p) /\ DataInv /\ mem[p] \in RunRecord
  BY DEF Close, IInv, ProcOK, TypeInv, TypeOK, LocalOK
<1>2. /\ UNCHANGED <<meta, csv, work, kept, final, backup, attempts, produced>>
      /\ pc'[p] = "release"
      /\ \/ rec' = [mem[p] EXCEPT !.st = IF @ = "complete" THEN @ ELSE "failed"]
         \/ rec' = rec
  BY DEF Close, Goto, IInv, TypeInv, TypeOK, LocalOK
<1>3. Truthful' = Truthful
  BY <1>2, TruthfulStable
<1>4. CASE rec' = [mem[p] EXCEPT !.st = IF @ = "complete" THEN @ ELSE "failed"]
  <2>1. /\ rec'.id = mem[p].id /\ rec'.rt = mem[p].rt /\ rec'.plan = mem[p].plan
        /\ rec'.cases = mem[p].cases /\ rec' \in RunRecord
        /\ IF mem[p].st = "complete" THEN rec'.st = "complete" ELSE rec'.st = "failed"
    BY <1>1, <1>4 DEF RunRecord, Statuses
  <2>2. rec' \in Truthful
    BY <1>1, <2>1 DEF ClosingOK, Truthful, PublishedAs, Checkpointed
  <2>3. rec.st = "complete" => rec'.st = "complete"
    BY <1>1, <2>1 DEF ClosingOK
  <2>. QED BY <1>1, <1>2, <1>3, <2>2, <2>3, EvidenceStable DEF ProcOK, DataInv, FreshInv
<1>5. CASE rec' = rec
  BY <1>1, <1>2, <1>5, DataStable DEF ProcOK
<1>. QED BY <1>2, <1>4, <1>5

-----------------------------------------------------------------------------
(* The steps together *)

\* Whoever is inside the directory is alone there.
LEMMA Alone ==
    ASSUME LockDiscipline, NEW p \in Procs, pc[p] \in Inside, NEW q \in Procs \ {p}
    PROVE  pc[q] \notin Inside
BY DEF LockDiscipline

\* Nothing is asked of a process before it has opened the directory.
LEMMA NothingKnown ==
    ASSUME NEW q \in Procs, pc'[q] \notin Inside \ {"openNew", "openResume"}
    PROVE  ProcOK(q)'
BY DEF ProcOK, Inside, PCs

\* A step of a process inside the directory need only be looked at from there.
LEMMA InsideStep ==
    ASSUME IInv, NEW p \in Procs, pc[p] \in Inside,
           \A q \in Procs \ {p} : pc'[q] = pc[q],
           ProcOK(p)' /\ DataInv'
    PROVE  DataInv' /\ \A q \in Procs : ProcOK(q)'
BY Alone, NothingKnown DEF IInv

\* What a process knows survives a step that touches neither it nor the disk.
LEMMA Untouched ==
    ASSUME NEW q \in Procs, ProcOK(q),
           UNCHANGED <<rec, meta, plan, csv, work, kept, final, backup, attempts, produced>>,
           pc'[q] = pc[q], mem'[q] = mem[q], att'[q] = att[q], ident'[q] = ident[q], idx'[q] = idx[q]
    PROVE  ProcOK(q)'
<1>1. Synced(q)' = Synced(q) /\ \A k : Unrequested(q, k)' = Unrequested(q, k)
  BY DEF Synced, Unrequested
<1>2. Truthful' = Truthful
  BY TruthfulStable
<1>3. /\ PrepLeftovers' = PrepLeftovers /\ \A c \in Cases : Leftovers(c)' = Leftovers(c)
      /\ \A a : \A c \in Cases : Requested(c, a)' = Requested(c, a)
      /\ \A f : RowsOf(q, f)' = RowsOf(q, f)
  BY DEF PrepLeftovers, Leftovers, Requested, RowsOf
<1>4. LoopOK(q)' = LoopOK(q) /\ OpenCase(q)' = OpenCase(q)
  BY <1>1 DEF LoopOK, OpenCase
<1>5. pc[q] = "attempt" => AttemptOK(q)'
  BY <1>2, <1>3 DEF ProcOK, AttemptOK, NoCaseStarted
<1>6. pc[q] = "prepare" => PrepareOK(q)'
  BY <1>1, <1>3 DEF ProcOK, PrepareOK, Preparing, NoCaseStarted
<1>7. pc[q] = "bindRuntime" => BindRuntimeOK(q)'
  BY <1>1 DEF ProcOK, BindRuntimeOK, Preparing, NoCaseStarted
<1>8. /\ pc[q] = "plan" => PlanOK(q)'
      /\ pc[q] = "bindPlan" => BindPlanOK(q)'
  BY <1>1 DEF ProcOK, PlanOK, BindPlanOK
<1>9. pc[q] = "case" => CaseOK(q)'
  BY <1>1, <1>4 DEF ProcOK, CaseOK
<1>10. pc[q] \in {"archive", "unlink"} => ArchiveOK(q)'
  BY <1>1, <1>3, <1>4 DEF ProcOK, ArchiveOK, OpenCase
<1>11. pc[q] = "measure" => MeasureOK(q)'
  BY <1>1, <1>3, <1>4 DEF ProcOK, MeasureOK, OpenCase
<1>12. pc[q] = "finish" => FinishOK(q)'
  BY <1>1, <1>3, <1>4 DEF ProcOK, FinishOK, OpenCase
<1>13. pc[q] = "record" => RecordOK(q)'
  BY <1>1, <1>3, <1>4 DEF ProcOK, RecordOK, OpenCase
<1>14. /\ pc[q] = "gate" => GateOK(q)'
       /\ pc[q] = "cleanup" => CleanupOK(q)'
       /\ pc[q] = "closing" => ClosingOK(q)'
  BY <1>1, <1>2 DEF ProcOK, GateOK, CleanupOK, ClosingOK, Ahead
<1>. QED
  BY <1>5, <1>6, <1>7, <1>8, <1>9, <1>10, <1>11, <1>12, <1>13, <1>14 DEF ProcOK

\* A step that only lets a process in front of the door, or back to it.
LEMMA OutsideStep ==
    ASSUME IInv, NEW p \in Procs,
           UNCHANGED <<rec, meta, plan, csv, work, kept, final, backup, attempts, produced>>,
           pc'[p] \notin Inside,
           \A q \in Procs \ {p} : /\ pc'[q] = pc[q] /\ mem'[q] = mem[q] /\ att'[q] = att[q]
                                  /\ ident'[q] = ident[q] /\ idx'[q] = idx[q]
    PROVE  DataInv' /\ \A q \in Procs : ProcOK(q)'
<1>1. DataInv'
  BY DataStable DEF IInv
<1>2. ProcOK(p)'
  BY NothingKnown
<1>3. ASSUME NEW q \in Procs \ {p} PROVE ProcOK(q)'
  BY Untouched DEF IInv
<1>. QED BY <1>1, <1>2, <1>3

\* Nobody is inside, and an edit takes its own evidence with it.
LEMMA StepEdit == ASSUME IInv, Edit PROVE DataInv' /\ \A q \in Procs : ProcOK(q)'
<1>1. \A q \in Procs : pc'[q] \notin Inside
  BY ConstantTypes DEF IInv, LockDiscipline, Edit, local
<1>2. /\ DataInv /\ csv \in [Cases -> CsvFile] /\ produced \subseteq Evidence
      /\ UNCHANGED <<rec, work, kept, final, backup, attempts>>
  BY DEF IInv, TypeInv, TypeOK, DiskOK, Edit
<1>3. ASSUME meta \in Attempts, meta' = Foreign, produced' = produced \ {PrepEvidence(meta)},
             UNCHANGED csv
      PROVE  DataInv'
  <2>1. \A c \in Cases, a \in Attempts : RequestEvidence(c, a) # PrepEvidence(meta)
    BY <1>3, EvidenceDistinct, ConstantTypes
  <2>2. \A c \in Cases, a \in Attempts : Requested(c, a)' = Requested(c, a)
    BY <1>3, <2>1 DEF Requested
  <2>3. rec' \in Truthful'
    BY <1>2, <1>3, <2>2 DEF Truthful, Checkpointed, PublishedAs, DataInv
  <2>4. \A e \in produced' : ~(e.kind = "prep" /\ meta = e.by)
    BY <1>2, <1>3 DEF Evidence, PrepEvidence
  <2>5. EvidencePreserved' /\ FreshInv'
    BY <1>2, <1>3, <2>4 DEF EvidencePreserved, InPlace, FreshInv, DataInv
  <2>. QED BY <2>3, <2>5 DEF DataInv
<1>4. ASSUME UNCHANGED <<meta, csv, produced>> PROVE DataInv'
  BY <1>2, <1>4, DataStable
<1>5. ASSUME NEW c \in Cases, csv[c].by \in Attempts, csv' = [csv EXCEPT ![c].by = Foreign],
             produced' = produced \ {CsvEvidence(c, csv[c].by)}, UNCHANGED meta
      PROVE  DataInv'
  <2>1. /\ \A d \in Cases \ {c} : csv'[d] = csv[d]
        /\ csv'[c].by = Foreign /\ csv'[c].rt = csv[c].rt /\ csv'[c].id = csv[c].id
        /\ csv'[c].full = csv[c].full
    BY <1>2, <1>5 DEF CsvFile
  <2>2. \A d \in Cases, a \in Attempts : RequestEvidence(d, a) # CsvEvidence(c, csv[c].by)
    BY <1>5, EvidenceDistinct, ConstantTypes
  <2>3. \A d \in Cases, a \in Attempts : Requested(d, a)' = Requested(d, a)
    BY <1>5, <2>2 DEF Requested
  <2>4. \A d \in Cases : Checkpointed(rec, d) => Checkpointed(rec, d)'
    BY <1>2, <2>1, <2>3 DEF Checkpointed
  <2>5. rec' \in Truthful'
    BY <1>2, <2>4 DEF Truthful, PublishedAs, DataInv, Checkpointed
  <2>6. \A e \in produced' : e.kind = "csv" /\ csv[e.c].by = e.by => e.c \in Cases \ {c}
    BY <1>2, <1>5 DEF Evidence, CsvEvidence
  <2>7. EvidencePreserved' /\ FreshInv'
    BY <1>2, <1>5, <2>1, <2>6 DEF EvidencePreserved, InPlace, FreshInv, DataInv
  <2>. QED BY <2>5, <2>7 DEF DataInv
<1>6. DataInv'
  BY <1>3, <1>4, <1>5 DEF Edit
<1>. QED BY <1>1, <1>6, NothingKnown

\* The invariant holds initially.
LEMMA IInvInit == Init => IInv
<1>. SUFFICES ASSUME Init PROVE IInv
  OBVIOUS
<1>1. TypeInv /\ LockDiscipline
  BY TypeInvInit, LockInit
<1>2. rec \in Truthful
  BY RecordTypes DEF Init, Truthful, NoRecord, NoCase
<1>3. DataInv
  BY <1>2 DEF Init, DataInv, FreshInv, EvidencePreserved
<1>4. \A p \in Procs : ProcOK(p)
  BY DEF Init, ProcOK
<1>. QED BY <1>1, <1>3, <1>4 DEF IInv

\* Every step of the protocol keeps the record true, the evidence safe and each
\* process's knowledge right.
LEMMA DataStep == IInv /\ [Next]_vars => DataInv' /\ \A q \in Procs : ProcOK(q)'
<1>. SUFFICES ASSUME IInv, [Next]_vars PROVE DataInv' /\ \A q \in Procs : ProcOK(q)'
  OBVIOUS
<1>1. ASSUME NEW p \in Procs, LaunchNew(p) PROVE DataInv' /\ \A q \in Procs : ProcOK(q)'
  <2>1. /\ UNCHANGED <<rec, meta, plan, csv, work, kept, final, backup, attempts, produced>>
        /\ pc'[p] \notin Inside
        /\ \A q \in Procs \ {p} : /\ pc'[q] = pc[q] /\ mem'[q] = mem[q] /\ att'[q] = att[q]
                                 /\ ident'[q] = ident[q] /\ idx'[q] = idx[q]
    BY <1>1 DEF LaunchNew, Launch, Goto, disk, bounds, IInv, TypeInv, TypeOK, LocalOK,
       Inside
  <2>. QED BY <2>1, OutsideStep
<1>2. ASSUME NEW p \in Procs, LaunchResume(p) PROVE DataInv' /\ \A q \in Procs : ProcOK(q)'
  <2>1. /\ UNCHANGED <<rec, meta, plan, csv, work, kept, final, backup, attempts, produced>>
        /\ pc'[p] \notin Inside
        /\ \A q \in Procs \ {p} : /\ pc'[q] = pc[q] /\ mem'[q] = mem[q] /\ att'[q] = att[q]
                                 /\ ident'[q] = ident[q] /\ idx'[q] = idx[q]
    BY <1>2 DEF LaunchResume, Launch, Goto, disk, bounds, IInv, TypeInv, TypeOK,
       LocalOK, Inside
  <2>. QED BY <2>1, OutsideStep
<1>3. ASSUME NEW p \in Procs, pc[p] \in {"wantDirNew", "wantDirResume"}, AcquireDir(p)
     PROVE DataInv' /\ \A q \in Procs : ProcOK(q)'
  <2>1. /\ UNCHANGED <<rec, meta, csv, work, kept, final, backup, attempts, produced>>
        /\ \A q \in Procs : pc'[q] \notin Inside \ {"openNew", "openResume"}
    BY <1>3, ConstantTypes DEF AcquireDir, Goto, disk, bounds, IInv, TypeInv, TypeOK,
       LocalOK, LockDiscipline
  <2>. QED BY <2>1, DataStable, NothingKnown DEF IInv
<1>4. ASSUME NEW p \in Procs, pc[p] \in {"wantDirNew", "wantDirResume"}, DirBusy(p)
     PROVE DataInv' /\ \A q \in Procs : ProcOK(q)'
  <2>1. /\ UNCHANGED <<rec, meta, plan, csv, work, kept, final, backup, attempts, produced>>
        /\ pc'[p] \notin Inside
        /\ \A q \in Procs \ {p} : /\ pc'[q] = pc[q] /\ mem'[q] = mem[q] /\ att'[q] = att[q]
                                 /\ ident'[q] = ident[q] /\ idx'[q] = idx[q]
    BY <1>4 DEF DirBusy, Forget, Goto, disk, bounds, IInv, TypeInv, TypeOK, LocalOK, Inside
  <2>. QED BY <2>1, OutsideStep
<1>5. ASSUME NEW p \in Procs, OpenNew(p) PROVE DataInv' /\ \A q \in Procs : ProcOK(q)'
  <2>1. pc[p] \in Inside /\ \A q \in Procs \ {p} : pc'[q] = pc[q]
    BY <1>5 DEF OpenNew, Goto, IInv, TypeInv, TypeOK, LocalOK, Inside, PCs
  <2>. QED BY <1>5, <2>1, StepOpenNew, InsideStep
<1>6. ASSUME NEW p \in Procs, OpenResume(p) PROVE DataInv' /\ \A q \in Procs : ProcOK(q)'
  <2>1. pc[p] \in Inside /\ \A q \in Procs \ {p} : pc'[q] = pc[q]
    BY <1>6 DEF OpenResume, Goto, IInv, TypeInv, TypeOK, LocalOK, Inside, PCs
  <2>. QED BY <1>6, <2>1, StepOpenResume, InsideStep
<1>7. ASSUME NEW p \in Procs, RecordAttempt(p) PROVE DataInv' /\ \A q \in Procs : ProcOK(q)'
  <2>1. pc[p] \in Inside /\ \A q \in Procs \ {p} : pc'[q] = pc[q]
    BY <1>7 DEF RecordAttempt, Goto, IInv, TypeInv, TypeOK, LocalOK, Inside, PCs
  <2>. QED BY <1>7, <2>1, StepRecordAttempt, InsideStep
<1>8. ASSUME NEW p \in Procs, Refuse(p) PROVE DataInv' /\ \A q \in Procs : ProcOK(q)'
  <2>1. /\ UNCHANGED <<rec, meta, plan, csv, work, kept, final, backup, attempts, produced>>
        /\ pc'[p] \notin Inside
        /\ \A q \in Procs \ {p} : /\ pc'[q] = pc[q] /\ mem'[q] = mem[q] /\ att'[q] = att[q]
                                 /\ ident'[q] = ident[q] /\ idx'[q] = idx[q]
    BY <1>8 DEF Refuse, Forget, Goto, disk, IInv, TypeInv, TypeOK, LocalOK, Inside
  <2>. QED BY <2>1, OutsideStep
<1>9. ASSUME NEW p \in Procs, Prepare(p) PROVE DataInv' /\ \A q \in Procs : ProcOK(q)'
  <2>1. pc[p] \in Inside /\ \A q \in Procs \ {p} : pc'[q] = pc[q]
    BY <1>9 DEF Prepare, Goto, IInv, TypeInv, TypeOK, LocalOK, Inside, PCs
  <2>. QED BY <1>9, <2>1, StepPrepare, InsideStep
<1>10. ASSUME NEW p \in Procs, BindRuntime(p) PROVE DataInv' /\ \A q \in Procs : ProcOK(q)'
  <2>1. pc[p] \in Inside /\ \A q \in Procs \ {p} : pc'[q] = pc[q]
    BY <1>10 DEF BindRuntime, Save, Goto, IInv, TypeInv, TypeOK, LocalOK, Inside, PCs
  <2>. QED BY <1>10, <2>1, StepBindRuntime, InsideStep
<1>11. ASSUME NEW p \in Procs, FreezePlan(p) PROVE DataInv' /\ \A q \in Procs : ProcOK(q)'
  <2>1. pc[p] \in Inside /\ \A q \in Procs \ {p} : pc'[q] = pc[q]
    BY <1>11 DEF FreezePlan, Goto, IInv, TypeInv, TypeOK, LocalOK, Inside, PCs
  <2>. QED BY <1>11, <2>1, StepFreezePlan, InsideStep
<1>12. ASSUME NEW p \in Procs, BindPlan(p) PROVE DataInv' /\ \A q \in Procs : ProcOK(q)'
  <2>1. pc[p] \in Inside /\ \A q \in Procs \ {p} : pc'[q] = pc[q]
    BY <1>12 DEF BindPlan, Save, Goto, IInv, TypeInv, TypeOK, LocalOK, Inside, PCs
  <2>. QED BY <1>12, <2>1, StepBindPlan, InsideStep
<1>13. ASSUME NEW p \in Procs, NEW c \in Cases, ReuseCase(p, c) PROVE DataInv' /\ \A q \in Procs : ProcOK(q)'
  <2>1. pc[p] \in Inside /\ \A q \in Procs \ {p} : pc'[q] = pc[q]
    BY <1>13 DEF ReuseCase, AtCase, Goto, IInv, TypeInv, TypeOK, LocalOK, Inside, PCs
  <2>. QED BY <1>13, <2>1, StepReuseCase, InsideStep
<1>14. ASSUME NEW p \in Procs, NEW c \in Cases, CopyLeftovers(p, c) PROVE DataInv' /\ \A q \in Procs : ProcOK(q)'
  <2>1. pc[p] \in Inside /\ \A q \in Procs \ {p} : pc'[q] = pc[q]
    BY <1>14 DEF CopyLeftovers, AtCase, Goto, IInv, TypeInv, TypeOK, LocalOK, Inside, PCs
  <2>. QED BY <1>14, <2>1, StepCopyLeftovers, InsideStep
<1>15. ASSUME NEW p \in Procs, NEW c \in Cases, MarkArchived(p, c) PROVE DataInv' /\ \A q \in Procs : ProcOK(q)'
  <2>1. pc[p] \in Inside /\ \A q \in Procs \ {p} : pc'[q] = pc[q]
    BY <1>15 DEF MarkArchived, AtCase, Save, Goto, IInv, TypeInv, TypeOK, LocalOK,
       Inside, PCs
  <2>. QED BY <1>15, <2>1, StepMarkArchived, InsideStep
<1>16. ASSUME NEW p \in Procs, NEW c \in Cases, UnlinkLeftover(p, c) PROVE DataInv' /\ \A q \in Procs : ProcOK(q)'
  <2>1. pc[p] \in Inside /\ \A q \in Procs \ {p} : pc'[q] = pc[q]
    BY <1>16 DEF UnlinkLeftover, AtCase, local, IInv, TypeInv, TypeOK, LocalOK, Inside, PCs
  <2>. QED BY <1>16, <2>1, StepUnlinkLeftover, InsideStep
<1>17. ASSUME NEW p \in Procs, NEW c \in Cases, StartCase(p, c) PROVE DataInv' /\ \A q \in Procs : ProcOK(q)'
  <2>1. pc[p] \in Inside /\ \A q \in Procs \ {p} : pc'[q] = pc[q]
    BY <1>17 DEF StartCase, AtCase, Save, Goto, IInv, TypeInv, TypeOK, LocalOK, Inside, PCs
  <2>. QED BY <1>17, <2>1, StepStartCase, InsideStep
<1>18. ASSUME NEW p \in Procs, NEW c \in Cases, AppendRequests(p, c) PROVE DataInv' /\ \A q \in Procs : ProcOK(q)'
  <2>1. pc[p] \in Inside /\ \A q \in Procs \ {p} : pc'[q] = pc[q]
    BY <1>18 DEF AppendRequests, AtCase, local, IInv, TypeInv, TypeOK, LocalOK, Inside, PCs
  <2>. QED BY <1>18, <2>1, StepAppendRequests, InsideStep
<1>19. ASSUME NEW p \in Procs, NEW c \in Cases, AppendRow(p, c) PROVE DataInv' /\ \A q \in Procs : ProcOK(q)'
  <2>1. pc[p] \in Inside /\ \A q \in Procs \ {p} : pc'[q] = pc[q]
    BY <1>19 DEF AppendRow, AtCase, local, IInv, TypeInv, TypeOK, LocalOK, Inside, PCs
  <2>. QED BY <1>19, <2>1, StepAppendRow, InsideStep
<1>20. ASSUME NEW p \in Procs, NEW c \in Cases, CompleteCsv(p, c) PROVE DataInv' /\ \A q \in Procs : ProcOK(q)'
  <2>1. pc[p] \in Inside /\ \A q \in Procs \ {p} : pc'[q] = pc[q]
    BY <1>20 DEF CompleteCsv, AtCase, Goto, IInv, TypeInv, TypeOK, LocalOK, Inside, PCs
  <2>. QED BY <1>20, <2>1, StepCompleteCsv, InsideStep
<1>21. ASSUME NEW p \in Procs, NEW c \in Cases, FinishCase(p, c) PROVE DataInv' /\ \A q \in Procs : ProcOK(q)'
  <2>1. pc[p] \in Inside /\ \A q \in Procs \ {p} : pc'[q] = pc[q]
    BY <1>21 DEF FinishCase, AtCase, Goto, IInv, TypeInv, TypeOK, LocalOK, Inside, PCs
  <2>. QED BY <1>21, <2>1, StepFinishCase, InsideStep
<1>22. ASSUME NEW p \in Procs, NEW c \in Cases, RecordCase(p, c) PROVE DataInv' /\ \A q \in Procs : ProcOK(q)'
  <2>1. pc[p] \in Inside /\ \A q \in Procs \ {p} : pc'[q] = pc[q]
    BY <1>22 DEF RecordCase, AtCase, Save, Goto, IInv, TypeInv, TypeOK, LocalOK, Inside, PCs
  <2>. QED BY <1>22, <2>1, StepRecordCase, InsideStep
<1>23. ASSUME NEW p \in Procs, Merge(p) PROVE DataInv' /\ \A q \in Procs : ProcOK(q)'
  <2>1. pc[p] \in Inside /\ \A q \in Procs \ {p} : pc'[q] = pc[q]
    BY <1>23 DEF Merge, Goto, IInv, TypeInv, TypeOK, LocalOK, Inside, PCs
  <2>. QED BY <1>23, <2>1, StepMerge, InsideStep
<1>24. ASSUME NEW p \in Procs, FinishRun(p) PROVE DataInv' /\ \A q \in Procs : ProcOK(q)'
  <2>1. pc[p] \in Inside /\ \A q \in Procs \ {p} : pc'[q] = pc[q]
    BY <1>24 DEF FinishRun, Save, Goto, IInv, TypeInv, TypeOK, LocalOK, Inside, PCs
  <2>. QED BY <1>24, <2>1, StepFinishRun, InsideStep
<1>25. ASSUME NEW p \in Procs, Cleanup(p) PROVE DataInv' /\ \A q \in Procs : ProcOK(q)'
  <2>1. pc[p] \in Inside /\ \A q \in Procs \ {p} : pc'[q] = pc[q]
    BY <1>25 DEF Cleanup, Goto, IInv, TypeInv, TypeOK, LocalOK, Inside, PCs
  <2>. QED BY <1>25, <2>1, StepCleanup, InsideStep
<1>26. ASSUME NEW p \in Procs, Close(p) PROVE DataInv' /\ \A q \in Procs : ProcOK(q)'
  <2>1. pc[p] \in Inside /\ \A q \in Procs \ {p} : pc'[q] = pc[q]
    BY <1>26 DEF Close, Goto, IInv, TypeInv, TypeOK, LocalOK, Inside, PCs
  <2>. QED BY <1>26, <2>1, StepClose, InsideStep
<1>27. ASSUME NEW p \in Procs, Exit(p) PROVE DataInv' /\ \A q \in Procs : ProcOK(q)'
  <2>1. /\ UNCHANGED <<rec, meta, plan, csv, work, kept, final, backup, attempts, produced>>
        /\ pc'[p] \notin Inside
        /\ \A q \in Procs \ {p} : /\ pc'[q] = pc[q] /\ mem'[q] = mem[q] /\ att'[q] = att[q]
                                 /\ ident'[q] = ident[q] /\ idx'[q] = idx[q]
    BY <1>27 DEF Exit, Forget, Goto, disk, bounds, IInv, TypeInv, TypeOK, LocalOK, Inside
  <2>. QED BY <2>1, OutsideStep
<1>28. ASSUME NEW p \in Procs, Fail(p) PROVE DataInv' /\ \A q \in Procs : ProcOK(q)'
  <2>1. pc[p] \in Inside /\ \A q \in Procs \ {p} : pc'[q] = pc[q]
    BY <1>28 DEF Fail, Goto, IInv, TypeInv, TypeOK, LocalOK, Inside, PCs, Working, Opening
  <2>. QED BY <1>28, <2>1, StepFail, InsideStep
<1>29. ASSUME NEW p \in Procs, Crash(p) PROVE DataInv' /\ \A q \in Procs : ProcOK(q)'
  <2>1. /\ UNCHANGED <<rec, meta, plan, csv, work, kept, final, backup, attempts, produced>>
        /\ pc'[p] \notin Inside
        /\ \A q \in Procs \ {p} : /\ pc'[q] = pc[q] /\ mem'[q] = mem[q] /\ att'[q] = att[q]
                                 /\ ident'[q] = ident[q] /\ idx'[q] = idx[q]
    BY <1>29 DEF Crash, Forget, Goto, IInv, TypeInv, TypeOK, LocalOK, Inside
  <2>. QED BY <2>1, OutsideStep
<1>30. ASSUME Edit PROVE DataInv' /\ \A q \in Procs : ProcOK(q)'
  BY <1>30, StepEdit
<1>31. CASE UNCHANGED vars
  BY <1>31, Untouched, DataStable DEF vars, IInv
<1>. QED BY <1>1, <1>2, <1>3, <1>4, <1>5, <1>6, <1>7, <1>8, <1>9, <1>10, <1>11, <1>12,
  <1>13, <1>14, <1>15, <1>16, <1>17, <1>18, <1>19, <1>20, <1>21, <1>22, <1>23, <1>24, <1>25,
  <1>26, <1>27, <1>28, <1>29, <1>30, <1>31 DEF Next, Step, LockDir,
   CaseStep

\* Every step keeps the invariant.
LEMMA IInvStep == IInv /\ [Next]_vars => IInv'
BY TypeInvStep, LockStep, DataStep DEF IInv

\* The invariant holds in every run.
LEMMA Invariant == Spec => []IInv
BY IInvInit, IInvStep, PTL DEF Spec
-----------------------------------------------------------------------------
(* What the invariant says to a reader of a result directory *)

\* What run_state.json calls complete is on disk, from the recorded attempt,
\* with that attempt's samples (prepare_case, finish_case, validate_resume).
THEOREM CheckpointsTrue == Spec => []CheckpointMatchesDisk
<1>1. IInv => CheckpointMatchesDisk
  BY DEF IInv, DataInv, Truthful, Checkpointed, Requested, CheckpointMatchesDisk
<1>. QED BY <1>1, Invariant, PTL

\* No crash, failed write or retry loses rows, samples or preparation files
\* (_archive_preparation, prepare_case, retain_requests, the cleanup).
THEOREM EvidenceSafe == Spec => []EvidencePreserved
<1>1. IInv => EvidencePreserved
  BY DEF IInv, DataInv
<1>. QED BY <1>1, Invariant, PTL

\* A complete experiment is whole and of one runtime, identity and plan
\* (merge_all_csvs, RunState.finish, bind_runtime, bind_matrix_plan).
THEOREM PublishedWhole == Spec => []PublishedResultUnmixed
<1>1. IInv => PublishedResultUnmixed
  BY DEF IInv, DataInv, Truthful, PublishedAs, PublishedResultUnmixed
<1>. QED BY <1>1, Invariant, PTL
-----------------------------------------------------------------------------
(* The protocol keeps the promise of ExperimentPromise *)

\* What is published is what was decided.
PublishedDecided ==
    rec.st = "complete" =>
        \A c \in Cases : rec.cases[c].st = "complete" /\ final[c].by = rec.cases[c].sha

\* The invariant says so.
LEMMA DecisionsPublished == IInv => PublishedDecided
<1>. SUFFICES ASSUME IInv, rec.st = "complete", NEW c \in Cases
              PROVE  rec.cases[c].st = "complete" /\ final[c].by = rec.cases[c].sha
  BY DEF PublishedDecided
<1>1. PublishedAs(rec)
  BY DEF IInv, DataInv, Truthful
<1>2. /\ rec.cases[c].st = "complete"
      /\ final[c] = [by |-> rec.cases[c].sha, rt |-> rec.rt, id |-> rec.id, full |-> TRUE]
  BY <1>1 DEF PublishedAs
<1>3. \A a, r, i : [by |-> a, rt |-> r, id |-> i, full |-> TRUE].by = a
  OBVIOUS
<1>. QED BY <1>2, <1>3

\* A record reaches the disk that is ahead of the old one by at most one write:
\* a case is decided, or the experiment published, or nothing that was promised.
LEMMA Commit ==
    ASSUME IInv, IInv', Ahead(rec', rec), UNCHANGED final,
           rec.st = "complete" => rec'.st = "complete" /\ rec'.cases = rec.cases
    PROVE  [Promise!PromiseNext]_(Promise!promiseVars)
<1>. USE DEF Promise!promiseVars
<1>1. rec' \in Truthful' /\ rec \in Truthful
  BY DEF IInv, DataInv
<1>2. \A c \in Cases : rec'.cases[c].st = "complete" => rec'.cases[c].sha \in Attempts
  BY <1>1 DEF Truthful, PublishedAs, Checkpointed
<1>3. CASE rec.st = "complete"
  BY <1>3 DEF Decided, Published
<1>4. CASE rec.st # "complete" /\ rec'.st = "complete"
  <2>1. rec'.cases = rec.cases
    BY <1>4 DEF Ahead
  <2>2. Decided' = Decided /\ \A c \in Cases : Decided[c] \in Attempts /\ final'[c].by = Decided[c]
    <3>1. PublishedDecided'
      BY DecisionsPublished, PTL
    <3>. QED BY <1>2, <1>4, <2>1, <3>1 DEF PublishedDecided, Decided
  <2>3. Published = [c \in Cases |-> 0] /\ Published' = Decided
    BY <1>4, <2>2 DEF Published, Decided
  <2>4. Promise!Publish
    BY <2>2, <2>3, ConstantTypes DEF Promise!Publish, Promise!Unpublished
  <2>. QED BY <2>4 DEF Promise!PromiseNext
<1>5. CASE rec.st # "complete" /\ rec'.st # "complete"
  <2>1. Published = [c \in Cases |-> 0] /\ Published' = Published
    BY <1>5 DEF Published
  <2>2. CASE rec'.cases = rec.cases
    BY <2>1, <2>2 DEF Decided
  <2>3. ASSUME NEW c \in Cases, rec.cases[c].st # "complete",
               \A d \in Cases \ {c} : rec'.cases[d] = rec.cases[d]
        PROVE  [Promise!PromiseNext]_(Promise!promiseVars)
    <3>1. CASE rec'.cases[c].st = "complete"
      <4>1. Decided[c] = 0 /\ Decided' = [Decided EXCEPT ![c] = rec'.cases[c].sha]
        BY <2>3, <3>1 DEF Decided
      <4>2. Promise!Decide(c, rec'.cases[c].sha)
        BY <2>1, <4>1 DEF Promise!Decide, Promise!Unpublished
      <4>. QED BY <1>2, <3>1, <4>2 DEF Promise!PromiseNext
    <3>2. CASE rec'.cases[c].st # "complete"
      BY <2>1, <2>3, <3>2 DEF Decided
    <3>. QED BY <3>1, <3>2
  <2>. QED BY <2>2, <2>3 DEF Ahead
<1>. QED BY <1>3, <1>4, <1>5

\* A step that writes no record and publishes nothing is a stutter.
LEMMA NoCommit ==
    ASSUME UNCHANGED rec, final' = final \/ rec.st # "complete"
    PROVE  UNCHANGED Promise!promiseVars
BY DEF Promise!promiseVars, Decided, Published

\* Every step decides a case, publishes the experiment or promises nothing.
LEMMA PromiseStep == IInv /\ IInv' /\ [Next]_vars => [Promise!PromiseNext]_(Promise!promiseVars)
<1>. SUFFICES ASSUME IInv, IInv', [Next]_vars PROVE [Promise!PromiseNext]_(Promise!promiseVars)
  OBVIOUS
<1>1. \A p \in Procs : ProcOK(p) /\ mem[p] \in RunRecord
  BY DEF IInv, TypeInv, TypeOK, LocalOK
<1>2. ASSUME NEW p \in Procs, RecordAttempt(p) PROVE [Promise!PromiseNext]_(Promise!promiseVars)
  <2>1. AttemptOK(p) /\ rec' = mem[p] /\ UNCHANGED final
    BY <1>1, <1>2 DEF RecordAttempt, ProcOK
  <2>. QED BY <2>1, Commit DEF AttemptOK, Ahead
<1>3. ASSUME NEW p \in Procs, Close(p) PROVE [Promise!PromiseNext]_(Promise!promiseVars)
  <2>1. /\ ClosingOK(p) /\ UNCHANGED final
        /\ \/ rec' = rec
           \/ rec' = [mem[p] EXCEPT !.st = IF @ = "complete" THEN @ ELSE "failed"]
    BY <1>1, <1>3 DEF Close, ProcOK
  <2>2. CASE rec' = rec
    BY <2>1, <2>2, NoCommit
  <2>3. CASE rec' = [mem[p] EXCEPT !.st = IF @ = "complete" THEN @ ELSE "failed"]
    <3>1. /\ rec'.cases = mem[p].cases
          /\ IF mem[p].st = "complete" THEN rec'.st = "complete" ELSE rec'.st = "failed"
      BY <1>1, <2>3 DEF RunRecord
    <3>2. Ahead(rec', rec)
      BY <2>1, <3>1 DEF ClosingOK, Ahead
    <3>. QED BY <2>1, <3>1, <3>2, Commit DEF ClosingOK
  <2>. QED BY <2>1, <2>2, <2>3
<1>4. ASSUME NEW p \in Procs, NEW m \in RunRecord, NEW where, Save(p, m, where),
             Synced(p), Ahead(m, rec), UNCHANGED final
      PROVE  [Promise!PromiseNext]_(Promise!promiseVars)
  <2>1. rec' = m \/ rec' = rec
    BY <1>4 DEF Save
  <2>. QED BY <1>4, <2>1, Commit, NoCommit DEF Synced
<1>5. ASSUME NEW p \in Procs, BindRuntime(p) PROVE [Promise!PromiseNext]_(Promise!promiseVars)
  <2>1. Synced(p) /\ meta \in Token
    BY <1>1, <1>5 DEF BindRuntime, ProcOK, BindRuntimeOK, Preparing, IInv, TypeInv,
       TypeOK, DiskOK
  <2>2. PICK m \in RunRecord : m = [mem[p] EXCEPT !.rt = meta, !.st = "running"]
    BY <1>1, <2>1, RecordTypes
  <2>3. m.cases = rec.cases
    BY <1>1, <2>1, <2>2 DEF RunRecord, Synced
  <2>. QED BY <1>4, <1>5, <2>1, <2>2, <2>3 DEF BindRuntime, Ahead
<1>6. ASSUME NEW p \in Procs, BindPlan(p) PROVE [Promise!PromiseNext]_(Promise!promiseVars)
  <2>1. Synced(p) /\ plan \in Token /\ UNCHANGED final
    BY <1>1, <1>6 DEF BindPlan, ProcOK, BindPlanOK, PlanOK, IInv, TypeInv, TypeOK, DiskOK
  <2>2. PICK m \in RunRecord : m = [mem[p] EXCEPT !.plan = plan]
    BY <1>1, <2>1, RecordTypes
  <2>3. m.cases = rec.cases
    BY <1>1, <2>1, <2>2 DEF RunRecord, Synced
  <2>4. Save(p, m, "case") \/ rec' = rec
    BY <1>6, <2>2 DEF BindPlan
  <2>. QED BY <1>4, <2>1, <2>3, <2>4, NoCommit DEF Ahead
<1>7. ASSUME NEW p \in Procs, NEW c \in Cases, NEW st \in CaseStates, NEW sha \in Token, NEW where,
             Save(p, SetCase(mem[p], c, st, sha), where),
             Synced(p), rec.cases[c].st # "complete", UNCHANGED final
      PROVE  [Promise!PromiseNext]_(Promise!promiseVars)
  <2>1. PICK m \in RunRecord : m = SetCase(mem[p], c, st, sha)
    BY <1>1, SetCaseType
  <2>2. m.st = mem[p].st /\ \A d \in Cases \ {c} : m.cases[d] = mem[p].cases[d]
    BY <1>1, <2>1, SetCaseFacts
  <2>. QED BY <1>4, <1>7, <2>1, <2>2 DEF Ahead, Synced
<1>8. ASSUME NEW p \in Procs, NEW c \in Cases, MarkArchived(p, c)
      PROVE  [Promise!PromiseNext]_(Promise!promiseVars)
  <2>1. Synced(p) /\ rec.cases[c].st # "complete"
    BY <1>1, <1>8 DEF MarkArchived, AtCase, ProcOK, ArchiveOK, OpenCase, LoopOK
  <2>. QED BY <1>7, <1>8, <2>1, ConstantTypes DEF MarkArchived, CaseStates
<1>9. ASSUME NEW p \in Procs, NEW c \in Cases, StartCase(p, c)
      PROVE  [Promise!PromiseNext]_(Promise!promiseVars)
  <2>1. Synced(p) /\ rec.cases[c].st # "complete"
    BY <1>1, <1>9 DEF StartCase, AtCase, ProcOK, CaseOK, ArchiveOK, OpenCase, LoopOK, Synced
  <2>. QED BY <1>7, <1>9, <2>1, ConstantTypes DEF StartCase, CaseStates
<1>10. ASSUME NEW p \in Procs, NEW c \in Cases, RecordCase(p, c)
       PROVE  [Promise!PromiseNext]_(Promise!promiseVars)
  <2>1. Synced(p) /\ rec.cases[c].st # "complete"
    BY <1>1, <1>10 DEF RecordCase, AtCase, ProcOK, RecordOK, OpenCase, LoopOK
  <2>2. csv[c].by \in Token
    BY CsvTypes DEF IInv, TypeInv, TypeOK, DiskOK
  <2>. QED BY <1>7, <1>10, <2>1, <2>2 DEF RecordCase, CaseStates
<1>11. ASSUME NEW p \in Procs, FinishRun(p) PROVE [Promise!PromiseNext]_(Promise!promiseVars)
  <2>1. Synced(p) /\ UNCHANGED final
    BY <1>1, <1>11 DEF FinishRun, ProcOK, GateOK
  <2>2. PICK m \in RunRecord : m = [mem[p] EXCEPT !.st = "complete"]
    BY <1>1, RecordTypes DEF Statuses
  <2>3. m.cases = rec.cases
    BY <1>1, <2>1, <2>2 DEF RunRecord, Synced
  <2>4. Save(p, m, "cleanup") \/ rec' = rec
    BY <1>11, <2>2 DEF FinishRun
  <2>. QED BY <1>4, <2>1, <2>3, <2>4, NoCommit DEF Ahead
<1>12. ASSUME NEW p \in Procs, Merge(p) PROVE [Promise!PromiseNext]_(Promise!promiseVars)
  <2>1. rec.st # "complete" /\ UNCHANGED rec
    BY <1>1, <1>12 DEF Merge, ProcOK, CaseOK, LoopOK, Synced
  <2>. QED BY <2>1, NoCommit
<1>13. ASSUME NEW p \in Procs, LaunchNew(p) \/ LaunchResume(p) \/ AcquireDir(p) \/
       DirBusy(p) \/ OpenNew(p) \/ OpenResume(p) \/ Refuse(p) \/ Prepare(p) \/ FreezePlan(p)
       \/ Cleanup(p) \/ Exit(p) \/ Fail(p) \/ Crash(p)
       PROVE  UNCHANGED Promise!promiseVars
  BY <1>13, NoCommit DEF LaunchNew, LaunchResume, AcquireDir, DirBusy, OpenNew, OpenResume,
     Refuse, Prepare, FreezePlan, Cleanup, Exit, Fail, Crash, Launch, disk
<1>14. ASSUME NEW p \in Procs, NEW c \in Cases, ReuseCase(p, c) \/ CopyLeftovers(p, c) \/
       UnlinkLeftover(p, c) \/ AppendRequests(p, c) \/ AppendRow(p, c) \/ CompleteCsv(p, c)
       \/ FinishCase(p, c)
       PROVE  UNCHANGED Promise!promiseVars
  BY <1>14, NoCommit DEF ReuseCase, CopyLeftovers, UnlinkLeftover, AppendRequests,
     AppendRow, CompleteCsv, FinishCase, disk
<1>15. CASE Edit \/ UNCHANGED vars
  BY <1>15, NoCommit DEF Edit, vars
<1>. QED BY <1>2, <1>3, <1>5, <1>6, <1>8, <1>9, <1>10, <1>11, <1>12, <1>13, <1>14, <1>15 DEF
  Next, Step, LockDir, CaseStep

\* RunRecovery implements ExperimentPromise: whatever crashes, failed writes and
\* retries happen, a case is decided once and the experiment published once,
\* with exactly what was decided (run_state.json, finish_case, RunState.finish).
THEOREM PromiseKept == Spec => KeepsPromise
<1>1. Init => Promise!PromiseInit
  BY DEF Init, NoRecord, NoCase, Decided, Published, Promise!PromiseInit,
     Promise!Unpublished
<1>. QED BY <1>1, Invariant, PromiseStep, PTL DEF Spec, KeepsPromise, Promise!PromiseSpec
=============================================================================
