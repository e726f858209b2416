------------------------ MODULE PosthocBackfill_proofs ------------------------
(***************************************************************************)
(* Proofs about PosthocBackfill, for any number of processes, profilers,   *)
(* runs and faults, and with every command line, whether it names the      *)
(* result directory in full or not.  And about ProfilePlans, what these    *)
(* runs put in, for any result.                                            *)
(*                                                                         *)
(* The inductive invariant IInv says that the holder of the locks has the  *)
(* highest number, what it has replaced so far and what it can put back,   *)
(* and that all a reader may have missed is remembered in over.  PlansInv  *)
(* says of plans what they hold.                                           *)
(***************************************************************************)
EXTENDS PosthocBackfill, ProfilePlans, TLAPS

Backing == {"putCsv"} \cup Publishing
Locked == {"collect", "backup"} \cup Backing

LockOK == \A p \in Procs : pc[p] \in Locked <=> lock = p

\* No record has a number that is still to be given out; the holder has the last.
NumbersOK ==
    /\ \A r \in hist : r.run <= runs
    /\ \A p \in Procs : \A r \in ctx[p].hist : r.run <= runs
    /\ \A p \in Procs : pc[p] \in Locked => run[p] = runs /\ run[p] \in Runs

\* A reader knows of everybody who publishes while it reads.
OverOK ==
    \A p, q \in Procs : pc[p] \in BeforeLock /\ pc[q] \in Publishing => Behind(q) \subseteq over[p]

\* A recorded collection is in the other two files.
Backs(f, r) == \A t \in r.tools : f.csv[t].by >= r.run /\ f.meta[t] >= r.run

Now == [csv |-> csv, meta |-> meta, hist |-> hist]
Backed == \A r \in hist : r.run \notin LostNow => Backs(Now, r)

\* The records a process would not publish over.
Kept(p) == {r \in hist : r.run \notin lost \cup over[p]}

\* What the result in memory has to do with the files.
ReaderOK(p) ==
    /\ pc[p] \in BeforeLock \cup Locked =>
          \A r \in Kept(p) : \A t \in r.tools : ctx[p].csv[t].by >= r.run
    /\ pc[p] \in {"readHist", "lock"} \cup Locked =>
          \A r \in Kept(p) : \A t \in r.tools : ctx[p].meta[t] >= r.run
    /\ pc[p] \in {"lock"} \cup Locked =>
          /\ Kept(p) \subseteq ctx[p].hist
          /\ \A r \in ctx[p].hist : r \in hist \/ r.run \in lost
    /\ pc[p] \in BeforeLock \cup {"collect", "backup", "putCsv"} /\ over[p] = {} => ctx[p].csv = csv

\* What the holder of the locks has replaced, and what it can put back.
HolderOK(p) ==
    /\ pc[p] \in Locked => need[p] = Needed(p, want[p])
    /\ pc[p] \in {"collect", "backup"} => before[p] = Now
    /\ pc[p] \in Backing => /\ before[p] = backup[p] /\ backup[p].hist = hist
                            /\ over[p] = {} => backup[p].csv = ctx[p].csv
                            /\ \A r \in hist : r.run \notin lost => Backs(backup[p], r)
    /\ pc[p] = "putCsv" => backup[p] = Now
    /\ pc[p] \in {"putMeta", "undoCsv"} => csv = NewCsv(p) /\ meta = backup[p].meta
    /\ pc[p] \in {"putHist", "undoBoth"} => csv = NewCsv(p) /\ meta = NewMeta(p)
    /\ pc[p] = "undoMeta" => csv = backup[p].csv /\ meta = NewMeta(p)

IInv ==
    /\ TypeOK /\ LockOK /\ NumbersOK /\ OverOK /\ Backed
    /\ \A p \in Procs : ReaderOK(p) /\ HolderOK(p)
-----------------------------------------------------------------------------
(* What a step leaves alone. *)

Same(q) ==
    /\ pc'[q] = pc[q] /\ run'[q] = run[q] /\ want'[q] = want[q] /\ ctx'[q] = ctx[q]
    /\ need'[q] = need[q] /\ got'[q] = got[q] /\ backup'[q] = backup[q]
    /\ before'[q] = before[q] /\ over'[q] = over[q]

\* What a process knows stays true while the files stay as they are.
LEMMA OthersKeep ==
    ASSUME NEW q \in Procs, ReaderOK(q), HolderOK(q), Same(q), UNCHANGED files, lost \subseteq lost'
    PROVE  ReaderOK(q)' /\ HolderOK(q)'
<1>1. UNCHANGED <<csv, meta, hist>> /\ Now' = Now /\ Kept(q)' \subseteq Kept(q)
  BY DEF files, Now, Kept, Same
<1>2. NewCsv(q)' = NewCsv(q) /\ NewMeta(q)' = NewMeta(q) /\ Needed(q, want[q])' = Needed(q, want[q])
  BY DEF Same, NewCsv, NewMeta, Needed
<1>3. ReaderOK(q)'
  BY <1>1 DEF ReaderOK, Same
<1>4. HolderOK(q)'
  BY <1>1, <1>2 DEF HolderOK, Same, Backs
<1>5. QED
  BY <1>3, <1>4

\* The set of runs published over depends on the holder of the locks only.
LEMMA LostToHolder ==
    ASSUME LockOK, NEW p \in Procs, pc[p] \in Locked
    PROVE  /\ LostNow = IF pc[p] \in Publishing THEN lost \cup over[p] ELSE lost
           /\ \A q \in Procs \ {p} : pc[q] \notin Locked
<1>1. \A q \in Procs \ {p} : pc[q] \notin Locked
  BY DEF LockOK
<1>2. {q \in Procs : pc[q] \in Publishing} = IF pc[p] \in Publishing THEN {p} ELSE {}
  BY <1>1 DEF Locked, Backing
<1>3. QED
  BY <1>1, <1>2 DEF LostNow

\* A process that moves on without touching the files: what matters is whether
\* it begins to read or to publish.
LEMMA MoveKeeps ==
    ASSUME IInv, NEW p \in Procs, NEW where \in PCs, pc' = [pc EXCEPT ![p] = where],
           pc[p] \in Locked <=> where \in Locked, pc[p] \in Publishing <=> where \in Publishing,
           where \in BeforeLock => pc[p] \in BeforeLock,
           UNCHANGED <<files, lock, run, ghosts, runs>>,
           \A q \in Procs \ {p} : ctx'[q] = ctx[q], \A r \in ctx'[p].hist : r.run <= runs
    PROVE  LockOK' /\ NumbersOK' /\ OverOK' /\ Backed'
<1>1. pc'[p] = where /\ \A q \in Procs \ {p} : pc'[q] = pc[q]
  BY DEF IInv, TypeOK
<1>2. UNCHANGED <<csv, meta, hist, lock, run, over, lost, runs>>
  BY DEF files, ghosts
<1>3. \A q \in Procs : pc'[q] \in Publishing <=> pc[q] \in Publishing
  BY <1>1
<1>4. LostNow' = LostNow
  BY <1>2, <1>3 DEF LostNow
<1>5. LockOK'
  BY <1>1, <1>2 DEF IInv, LockOK
<1>6. NumbersOK'
  BY <1>1, <1>2 DEF IInv, NumbersOK
<1>7. OverOK'
  BY <1>1, <1>2, <1>3 DEF IInv, OverOK, Behind
<1>8. Backed'
  BY <1>2, <1>4 DEF IInv, Backed, Backs, Now
<1>9. QED
  BY <1>5, <1>6, <1>7, <1>8

\* A process that ends leaves the others alone and sets the locks free.
LEMMA QuitLeaves ==
    ASSUME IInv, NEW p \in Procs, Quit(p)
    PROVE  /\ LockOK'
           /\ pc'[p] = "idle" /\ over'[p] = {} /\ ctx'[p] = Nothing /\ \A q \in Procs \ {p} : Same(q)
           /\ lock' \in Procs \cup {NoProc} /\ pc' \in [Procs -> PCs]
           /\ run' \in [Procs -> {0} \cup Runs]
           /\ inFull' \in [Procs -> BOOLEAN] /\ want' \in [Procs -> Wish]
           /\ ctx' \in [Procs -> Contents] /\ backup' \in [Procs -> Contents]
           /\ before' \in [Procs -> Contents]
           /\ need' \in [Procs -> SUBSET Tools] /\ got' \in [Procs -> SUBSET Tools]
           /\ over' \in [Procs -> SUBSET Runs]
<1>1. /\ pc' = [pc EXCEPT ![p] = "idle"] /\ run' = [run EXCEPT ![p] = 0]
      /\ lock' = IF lock = p THEN NoProc ELSE lock
      /\ inFull' = [inFull EXCEPT ![p] = FALSE] /\ want' = [want EXCEPT ![p] = NoWish]
      /\ ctx' = [ctx EXCEPT ![p] = Nothing]
      /\ need' = [need EXCEPT ![p] = {}] /\ got' = [got EXCEPT ![p] = {}]
      /\ backup' = [backup EXCEPT ![p] = Nothing] /\ before' = [before EXCEPT ![p] = Nothing]
      /\ over' = [over EXCEPT ![p] = {}]
  BY DEF Quit, Goto
<1>2. /\ pc'[p] = "idle" /\ over'[p] = {} /\ ctx'[p] = Nothing
      /\ \A q \in Procs \ {p} : Same(q)
  BY <1>1 DEF IInv, TypeOK, Same
<1>3. Nothing \in Contents /\ NoWish \in Wish
  BY DEF Nothing, Contents, Filled, Empty, NoWish, Wish
<1>4. LockOK'
  BY <1>1, <1>2, ConstantsAssumption DEF IInv, LockOK, Locked, Backing, Publishing, Same
<1>5. /\ lock' \in Procs \cup {NoProc} /\ pc' \in [Procs -> PCs]
      /\ run' \in [Procs -> {0} \cup Runs]
  BY <1>1 DEF IInv, TypeOK, PCs
<1>6. /\ inFull' \in [Procs -> BOOLEAN] /\ want' \in [Procs -> Wish]
      /\ need' \in [Procs -> SUBSET Tools] /\ got' \in [Procs -> SUBSET Tools]
      /\ over' \in [Procs -> SUBSET Runs]
  BY <1>1, <1>3 DEF IInv, TypeOK
<1>7. /\ ctx' \in [Procs -> Contents] /\ backup' \in [Procs -> Contents]
      /\ before' \in [Procs -> Contents]
  BY <1>1, <1>3 DEF IInv, TypeOK
<1>8. QED
  BY <1>2, <1>4, <1>5, <1>6, <1>7

\* A process that has ended knows nothing and publishes nothing.
LEMMA IdleKnowsNothing ==
    ASSUME NEW p \in Procs, pc'[p] = "idle"
    PROVE  ReaderOK(p)' /\ HolderOK(p)'
BY DEF ReaderOK, HolderOK, BeforeLock, Locked, Backing, Publishing

\* After a process has ended, its number and its reading matter no more.
LEMMA QuitOrder ==
    ASSUME IInv, NEW p \in Procs, Quit(p), runs' = runs,
           \A r \in hist' : r.run <= runs
    PROVE  /\ NumbersOK' /\ OverOK'
           /\ LostNow' = lost' \cup UNION {over[q] : q \in {o \in Procs \ {p} : pc[o] \in Publishing}}
<1>1. pc'[p] = "idle" /\ ctx'[p] = Nothing /\ \A q \in Procs \ {p} : Same(q)
  BY QuitLeaves
<1>2. NumbersOK'
  BY <1>1 DEF IInv, NumbersOK, Same, Nothing, Locked, Backing, Publishing
<1>3. OverOK'
  BY <1>1 DEF IInv, OverOK, Behind, Same, BeforeLock, Publishing
<1>4. {o \in Procs : pc'[o] \in Publishing} = {o \in Procs \ {p} : pc[o] \in Publishing}
  BY <1>1 DEF Same, Publishing
<1>5. {over'[q] : q \in {o \in Procs \ {p} : pc[o] \in Publishing}}
         = {over[q] : q \in {o \in Procs \ {p} : pc[o] \in Publishing}}
  BY <1>1 DEF Same
<1>6. QED
  BY <1>2, <1>3, <1>4, <1>5 DEF LostNow

\* A process that ends without touching the files: what it has put there stays.
LEMMA QuitKeeps ==
    ASSUME IInv, NEW p \in Procs, Quit(p), runs' = runs, faults' \in 0..MaxFaults, UNCHANGED files,
           lost' = IF pc[p] \in Publishing THEN lost \cup over[p] ELSE lost
    PROVE  IInv'
<1>1. UNCHANGED <<csv, meta, hist>> /\ lost \subseteq lost' /\ lost' \subseteq Runs
  BY DEF files, IInv, TypeOK
<1>2. TypeOK'
  BY <1>1, QuitLeaves DEF IInv, TypeOK
<1>3. NumbersOK' /\ OverOK'
  BY <1>1, QuitOrder DEF IInv, NumbersOK
<1>4. LostNow' = LostNow
  <2>1. LostNow' = lost' \cup UNION {over[q] : q \in {o \in Procs \ {p} : pc[o] \in Publishing}}
    BY <1>1, QuitOrder DEF IInv, NumbersOK
  <2>2. CASE pc[p] \in Publishing
    <3>1. {o \in Procs : pc[o] \in Publishing} = {o \in Procs \ {p} : pc[o] \in Publishing} \cup {p}
      BY <2>2
    <3>2. QED
      BY <2>1, <2>2, <3>1 DEF LostNow
  <2>3. CASE pc[p] \notin Publishing
    <3>1. {o \in Procs : pc[o] \in Publishing} = {o \in Procs \ {p} : pc[o] \in Publishing}
      BY <2>3
    <3>2. QED
      BY <2>1, <2>3, <3>1 DEF LostNow
  <2>4. QED
    BY <2>2, <2>3
<1>5. Backed'
  BY <1>1, <1>4 DEF IInv, Backed, Backs, Now
<1>6. \A q \in Procs : ReaderOK(q)' /\ HolderOK(q)'
  BY <1>1, QuitLeaves, IdleKnowsNothing, OthersKeep DEF IInv
<1>7. QED
  BY <1>2, <1>3, <1>5, <1>6, QuitLeaves DEF IInv
-----------------------------------------------------------------------------
(* Before the locks. *)

LEMMA LaunchKeeps ==
    ASSUME IInv, NEW p \in Procs, Launch(p)
    PROVE  IInv'
<1>1. /\ pc[p] = "idle" /\ pc' = [pc EXCEPT ![p] = "scan"] /\ pc'[p] = "scan"
      /\ inFull' \in [Procs -> BOOLEAN]
      /\ UNCHANGED <<csv, meta, hist, lock, run, want, ctx, need, got, backup, before, over, lost,
                     runs, faults>>
  BY DEF Launch, At, Goto, files, ghosts, IInv, TypeOK
<1>2. TypeOK'
  BY <1>1 DEF IInv, TypeOK, PCs
<1>3. LockOK' /\ NumbersOK' /\ OverOK' /\ Backed'
  BY <1>1, MoveKeeps DEF PCs, Locked, Backing, Publishing, BeforeLock, files, ghosts, IInv, NumbersOK
<1>4. ReaderOK(p)' /\ HolderOK(p)'
  BY <1>1 DEF ReaderOK, HolderOK, BeforeLock, Locked, Backing, Publishing
<1>5. \A q \in Procs \ {p} : ReaderOK(q)' /\ HolderOK(q)'
  BY <1>1, OthersKeep DEF IInv, TypeOK, Same, files
<1>6. QED
  BY <1>2, <1>3, <1>4, <1>5 DEF IInv

LEMMA ScanKeeps ==
    ASSUME IInv, NEW p \in Procs, Scan(p)
    PROVE  IInv'
<1>1. CASE Quit(p) /\ UNCHANGED <<files, lost, runs, faults>>
  BY <1>1, QuitKeeps DEF IInv, TypeOK, Scan, Publishing
<1>2. CASE Goto(p, "readCsv") /\ UNCHANGED <<files, lock, job, ghosts, runs, faults>>
  <2>1. /\ pc[p] = "scan" /\ pc' = [pc EXCEPT ![p] = "readCsv"] /\ pc'[p] = "readCsv"
        /\ UNCHANGED <<csv, meta, hist, lock, run, inFull, want, ctx, need, got, backup, before,
                       over, lost, runs, faults>>
    BY <1>2 DEF IInv, TypeOK, Scan, Goto, files, job, ghosts
  <2>2. TypeOK'
    BY <2>1 DEF IInv, TypeOK, PCs
  <2>3. LockOK' /\ NumbersOK' /\ OverOK' /\ Backed'
    BY <2>1, MoveKeeps DEF PCs, Locked, Backing, Publishing, BeforeLock, files, ghosts, IInv, NumbersOK
  <2>4. ReaderOK(p)' /\ HolderOK(p)'
    BY <2>1 DEF ReaderOK, HolderOK, BeforeLock, Locked, Backing, Publishing
  <2>5. \A q \in Procs \ {p} : ReaderOK(q)' /\ HolderOK(q)'
    BY <2>1, OthersKeep DEF IInv, TypeOK, Same, files
  <2>6. QED
    BY <2>2, <2>3, <2>4, <2>5 DEF IInv
<1>3. QED
  BY <1>1, <1>2 DEF Scan

\* A part of the files read into memory is of their type.
LEMMA ReadIsContents ==
    ASSUME TypeOK, NEW p \in Procs
    PROVE  /\ [ctx EXCEPT ![p].csv = csv] \in [Procs -> Contents]
           /\ [ctx EXCEPT ![p].meta = meta] \in [Procs -> Contents]
           /\ [ctx EXCEPT ![p].hist = hist] \in [Procs -> Contents]
<1>1. \A x \in [Tools -> Filled], y \in [Tools -> {0} \cup Runs], z \in SUBSET Record :
         [csv |-> x, meta |-> y, hist |-> z] \in Contents
  BY DEF Contents
<1>2. /\ ctx[p] = [csv |-> ctx[p].csv, meta |-> ctx[p].meta, hist |-> ctx[p].hist]
      /\ ctx[p].csv \in [Tools -> Filled] /\ ctx[p].meta \in [Tools -> {0} \cup Runs]
      /\ ctx[p].hist \in SUBSET Record
  BY DEF TypeOK, Contents
<1>3. /\ [ctx[p] EXCEPT !.csv = csv] = [csv |-> csv, meta |-> ctx[p].meta, hist |-> ctx[p].hist]
      /\ [ctx[p] EXCEPT !.meta = meta] = [csv |-> ctx[p].csv, meta |-> meta, hist |-> ctx[p].hist]
      /\ [ctx[p] EXCEPT !.hist = hist] = [csv |-> ctx[p].csv, meta |-> ctx[p].meta, hist |-> hist]
  BY <1>2
<1>4. csv \in [Tools -> Filled] /\ meta \in [Tools -> {0} \cup Runs] /\ hist \in SUBSET Record
  BY DEF TypeOK
<1>5. /\ [ctx[p] EXCEPT !.csv = csv] \in Contents
      /\ [ctx[p] EXCEPT !.meta = meta] \in Contents
      /\ [ctx[p] EXCEPT !.hist = hist] \in Contents
  BY <1>1, <1>2, <1>3, <1>4
<1>6. QED
  BY <1>5 DEF TypeOK

\* The first file: whoever publishes meanwhile is remembered.
LEMMA ReadCsvKeeps ==
    ASSUME IInv, NEW p \in Procs, ReadCsv(p)
    PROVE  IInv'
<1> DEFINE All == UNION {Behind(q) : q \in {o \in Procs : pc[o] \in Publishing}}
<1>1. /\ pc[p] = "readCsv" /\ pc' = [pc EXCEPT ![p] = "readMeta"] /\ pc'[p] = "readMeta"
      /\ ctx' = [ctx EXCEPT ![p].csv = csv] /\ ctx'[p].csv = csv /\ ctx'[p].hist = ctx[p].hist
      /\ over' = [over EXCEPT ![p] = All] /\ over'[p] = All
      /\ \A q \in Procs \ {p} : pc'[q] = pc[q] /\ ctx'[q] = ctx[q] /\ over'[q] = over[q]
      /\ UNCHANGED <<csv, meta, hist, lock, run, inFull, want, need, got, backup, before, lost,
                     runs, faults>>
  BY DEF ReadCsv, At, Goto, files, IInv, TypeOK, Contents
<1>2. All \subseteq Runs
  BY DEF IInv, TypeOK, NumbersOK, Behind, Locked, Backing
<1>3. TypeOK'
  BY <1>1, <1>2, ReadIsContents DEF IInv, TypeOK, PCs
<1>4. LockOK' /\ NumbersOK'
  BY <1>1 DEF IInv, LockOK, NumbersOK, Locked, Backing, Publishing
<1>5. \A q \in Procs : pc'[q] \in Publishing <=> pc[q] \in Publishing
  BY <1>1 DEF Publishing
<1>6. \A q \in Procs : pc[q] \in Publishing => q # p /\ Behind(q)' = Behind(q)
  BY <1>1 DEF Publishing, Behind
<1>7. OverOK'
  BY <1>1, <1>5, <1>6 DEF IInv, OverOK
<1>8. LostNow' = LostNow
  <2>1. \A q \in {o \in Procs : pc[o] \in Publishing} : over'[q] = over[q]
    BY <1>1, <1>6
  <2>2. {q \in Procs : pc'[q] \in Publishing} = {q \in Procs : pc[q] \in Publishing}
    BY <1>5
  <2>3. {over'[q] : q \in {o \in Procs : pc'[o] \in Publishing}}
           = {over[q] : q \in {o \in Procs : pc[o] \in Publishing}}
    BY <2>1, <2>2
  <2>4. QED
    BY <1>1, <2>3 DEF LostNow
<1>9. Backed'
  BY <1>1, <1>8 DEF IInv, Backed, Backs, Now
<1>10. LostNow \subseteq lost \cup All
  BY DEF LostNow, Behind
<1>11. ReaderOK(p)'
  <2>1. \A r \in Kept(p)' : r \in hist /\ r.run \notin LostNow
    BY <1>1, <1>10 DEF Kept
  <2>2. \A r \in Kept(p)' : \A t \in r.tools : ctx'[p].csv[t].by >= r.run
    BY <1>1, <2>1 DEF IInv, Backed, Backs, Now
  <2>3. QED
    BY <1>1, <2>2 DEF ReaderOK, BeforeLock, Locked, Backing, Publishing
<1>12. HolderOK(p)'
  BY <1>1 DEF HolderOK, Locked, Backing, Publishing
<1>13. \A q \in Procs \ {p} : ReaderOK(q)' /\ HolderOK(q)'
  BY <1>1, OthersKeep DEF IInv, Same, files
<1>14. QED
  BY <1>3, <1>4, <1>7, <1>9, <1>11, <1>12, <1>13 DEF IInv

LEMMA ReadMetaKeeps ==
    ASSUME IInv, NEW p \in Procs, ReadMeta(p)
    PROVE  IInv'
<1>1. /\ pc[p] = "readMeta" /\ pc' = [pc EXCEPT ![p] = "readHist"] /\ pc'[p] = "readHist"
      /\ ctx' = [ctx EXCEPT ![p].meta = meta] /\ ctx'[p].meta = meta
      /\ ctx'[p].hist = ctx[p].hist /\ ctx'[p].csv = ctx[p].csv
      /\ \A q \in Procs \ {p} : pc'[q] = pc[q] /\ ctx'[q] = ctx[q]
      /\ UNCHANGED <<csv, meta, hist, lock, run, inFull, want, need, got, backup, before, over, lost,
                     runs, faults>>
  BY DEF ReadMeta, At, Goto, files, ghosts, IInv, TypeOK, Contents
<1>2. TypeOK'
  BY <1>1, ReadIsContents DEF IInv, TypeOK, PCs
<1>3. LockOK' /\ NumbersOK' /\ OverOK' /\ Backed'
  BY <1>1, MoveKeeps DEF PCs, Locked, Backing, Publishing, BeforeLock, files, ghosts, IInv, NumbersOK
<1>4. ReaderOK(p)'
  <2>1. LostNow \subseteq lost \cup over[p]
    BY <1>1 DEF LostNow, IInv, OverOK, BeforeLock, Behind
  <2>2. \A r \in Kept(p) : \A t \in r.tools : meta[t] >= r.run
    BY <2>1 DEF Kept, IInv, Backed, Backs, Now
  <2>3. Kept(p)' = Kept(p)
    BY <1>1 DEF Kept
  <2>4. QED
    BY <1>1, <2>2, <2>3 DEF IInv, ReaderOK, BeforeLock, Locked, Backing, Publishing
<1>5. HolderOK(p)'
  BY <1>1 DEF HolderOK, Locked, Backing, Publishing
<1>6. \A q \in Procs \ {p} : ReaderOK(q)' /\ HolderOK(q)'
  BY <1>1, OthersKeep DEF IInv, Same, files
<1>7. QED
  BY <1>2, <1>3, <1>4, <1>5, <1>6 DEF IInv

LEMMA ReadHistKeeps ==
    ASSUME IInv, NEW p \in Procs, ReadHist(p)
    PROVE  IInv'
<1>1. /\ pc[p] = "readHist" /\ pc' = [pc EXCEPT ![p] = "lock"] /\ pc'[p] = "lock"
      /\ ctx' = [ctx EXCEPT ![p].hist = hist] /\ ctx'[p].hist = hist
      /\ ctx'[p].meta = ctx[p].meta /\ ctx'[p].csv = ctx[p].csv
      /\ \A q \in Procs \ {p} : pc'[q] = pc[q] /\ ctx'[q] = ctx[q]
      /\ UNCHANGED <<csv, meta, hist, lock, run, inFull, want, need, got, backup, before, over, lost,
                     runs, faults>>
  BY DEF ReadHist, At, Goto, files, ghosts, IInv, TypeOK, Contents
<1>2. TypeOK'
  BY <1>1, ReadIsContents DEF IInv, TypeOK, PCs
<1>3. LockOK' /\ NumbersOK' /\ OverOK' /\ Backed'
  BY <1>1, MoveKeeps DEF PCs, Locked, Backing, Publishing, BeforeLock, files, ghosts, IInv, NumbersOK
<1>4. ReaderOK(p)'
  BY <1>1 DEF IInv, ReaderOK, BeforeLock, Locked, Backing, Publishing, Kept
<1>5. HolderOK(p)'
  BY <1>1 DEF HolderOK, Locked, Backing, Publishing
<1>6. \A q \in Procs \ {p} : ReaderOK(q)' /\ HolderOK(q)'
  BY <1>1, OthersKeep DEF IInv, Same, files
<1>7. QED
  BY <1>2, <1>3, <1>4, <1>5, <1>6 DEF IInv

\* The locks are taken: the number is given out, the files are as found.
LEMMA LockKeeps ==
    ASSUME IInv, NEW p \in Procs, Lock(p)
    PROVE  IInv'
<1>1. CASE Quit(p) /\ UNCHANGED <<files, lost, runs, faults>>
  BY <1>1, QuitKeeps DEF IInv, TypeOK, Lock, Publishing
<1>2. ASSUME NEW wish \in Wish, lock = NoProc, lock' = p, Goto(p, "collect"),
             runs < MaxRuns, runs' = runs + 1, run' = [run EXCEPT ![p] = runs + 1],
             want' = [want EXCEPT ![p] = wish], need' = [need EXCEPT ![p] = Needed(p, wish)],
             before' = [before EXCEPT ![p] = Now],
             UNCHANGED <<files, inFull, ctx, got, backup, ghosts, faults>>
      PROVE  IInv'
  <2>1. /\ pc[p] = "lock" /\ pc' = [pc EXCEPT ![p] = "collect"] /\ pc'[p] = "collect"
        /\ need'[p] = Needed(p, wish) /\ want'[p] = wish /\ before'[p] = Now /\ run'[p] = runs + 1
        /\ \A q \in Procs \ {p} : Same(q)
        /\ UNCHANGED <<csv, meta, hist, ctx, got, backup, over, lost, faults>>
    BY <1>2 DEF IInv, TypeOK, Lock, Goto, Same, files, ghosts
  <2>2. Now \in Contents /\ Needed(p, wish) \in SUBSET Tools /\ runs + 1 \in Runs /\ runs \in Int
    BY <1>2, ConstantsAssumption DEF IInv, TypeOK, Now, Contents, Needed, Wish, Runs
  <2>3. TypeOK'
    <3>1. runs' \in 0..MaxRuns /\ run' \in [Procs -> {0} \cup Runs] /\ lock' \in Procs \cup {NoProc}
      BY <1>2, <2>2 DEF IInv, TypeOK, Runs
    <3>2. pc' \in [Procs -> PCs] /\ want' \in [Procs -> Wish] /\ need' \in [Procs -> SUBSET Tools]
          /\ before' \in [Procs -> Contents]
      BY <1>2, <2>1, <2>2 DEF IInv, TypeOK, PCs
    <3>3. QED
      BY <1>2, <2>1, <3>1, <3>2 DEF IInv, TypeOK
  <2>4. \A q \in Procs : pc[q] \notin Locked
    BY <1>2, ConstantsAssumption DEF IInv, LockOK
  <2>5. LockOK'
    BY <1>2, <2>1, <2>4, ConstantsAssumption DEF LockOK, Locked, Same
  <2>6. NumbersOK'
    <3>1. \A r \in hist : r.run \in Int
      BY DEF IInv, TypeOK, Record, Runs
    <3>2. \A q \in Procs : \A r \in ctx[q].hist : r.run \in Int
      BY DEF IInv, TypeOK, Contents, Record, Runs
    <3>3. \A q \in Procs \ {p} : pc'[q] \notin Locked
      BY <2>1, <2>4 DEF Same
    <3>4. QED
      BY <1>2, <2>1, <2>2, <3>1, <3>2, <3>3 DEF IInv, NumbersOK
  <2>7. \A q \in Procs : pc'[q] \notin Publishing /\ pc[q] \notin Publishing
    BY <2>1, <2>4 DEF Same, Locked, Backing, Publishing
  <2>8. OverOK'
    BY <2>7 DEF OverOK
  <2>9. Backed'
    <3>1. LostNow' = lost' /\ LostNow = lost
      BY <2>7 DEF LostNow
    <3>2. QED
      BY <2>1, <3>1 DEF IInv, Backed, Backs, Now
  <2>10. ReaderOK(p)'
    <3>1. Kept(p)' = Kept(p)
      BY <2>1 DEF Kept
    <3>2. QED
      BY <2>1, <3>1 DEF IInv, ReaderOK, BeforeLock, Locked
  <2>11. HolderOK(p)'
    <3>1. Needed(p, want[p])' = Needed(p, wish) /\ Now' = Now
      BY <2>1 DEF Needed, Now
    <3>2. QED
      BY <2>1, <3>1 DEF HolderOK, Locked, Backing, Publishing
  <2>12. \A q \in Procs \ {p} : ReaderOK(q)' /\ HolderOK(q)'
    BY <2>1, OthersKeep DEF IInv, files
  <2>13. QED
    BY <2>3, <2>5, <2>6, <2>8, <2>9, <2>10, <2>11, <2>12 DEF IInv
<1>3. QED
  BY <1>1, <1>2 DEF Lock, Now
-----------------------------------------------------------------------------
(* With the locks held. *)

LEMMA CollectKeeps ==
    ASSUME IInv, NEW p \in Procs, Collect(p)
    PROVE  IInv'
<1>1. /\ pc[p] = "collect" /\ pc' = [pc EXCEPT ![p] = "backup"] /\ pc'[p] = "backup"
      /\ got' \in [Procs -> SUBSET Tools] /\ \A q \in Procs \ {p} : Same(q)
      /\ UNCHANGED <<csv, meta, hist, lock, run, inFull, want, ctx, need, backup, before, over, lost,
                     runs, faults>>
  BY DEF IInv, TypeOK, Collect, At, Goto, files, ghosts, Same
<1>2. LockOK' /\ NumbersOK' /\ OverOK' /\ Backed'
  BY <1>1, MoveKeeps DEF PCs, Locked, Backing, Publishing, BeforeLock, files, ghosts, IInv, NumbersOK
<1>3. TypeOK'
  BY <1>1 DEF IInv, TypeOK, PCs
<1>4. ReaderOK(p)' /\ HolderOK(p)'
  <2>1. Needed(p, want[p])' = Needed(p, want[p]) /\ Now' = Now /\ Kept(p)' = Kept(p)
    BY <1>1 DEF Needed, Now, Kept
  <2>2. QED
    BY <1>1, <2>1 DEF IInv, ReaderOK, HolderOK, BeforeLock, Locked, Backing, Publishing
<1>5. \A q \in Procs \ {p} : ReaderOK(q)' /\ HolderOK(q)'
  BY <1>1, OthersKeep DEF IInv, files
<1>6. QED
  BY <1>2, <1>3, <1>4, <1>5 DEF IInv

LEMMA CreateBackupKeeps ==
    ASSUME IInv, NEW p \in Procs, CreateBackup(p)
    PROVE  IInv'
<1>1. /\ pc[p] = "backup" /\ pc' = [pc EXCEPT ![p] = "putCsv"] /\ pc'[p] = "putCsv"
      /\ backup' = [backup EXCEPT ![p] = Now] /\ backup'[p] = Now /\ \A q \in Procs \ {p} : Same(q)
      /\ UNCHANGED <<csv, meta, hist, lock, run, inFull, want, ctx, need, got, before, over, lost,
                     runs, faults>>
  BY DEF IInv, TypeOK, CreateBackup, At, Goto, files, ghosts, Now, Same
<1>2. LockOK' /\ NumbersOK' /\ OverOK' /\ Backed'
  BY <1>1, MoveKeeps DEF PCs, Locked, Backing, Publishing, BeforeLock, files, ghosts, IInv, NumbersOK
<1>3. Now \in Contents
  BY DEF IInv, TypeOK, Now, Contents
<1>4. TypeOK'
  BY <1>1, <1>3 DEF IInv, TypeOK, PCs
<1>5. Needed(p, want[p])' = Needed(p, want[p]) /\ Now' = Now /\ Kept(p)' = Kept(p)
  BY <1>1 DEF Needed, Now, Kept
<1>6. ReaderOK(p)'
  BY <1>1, <1>5 DEF IInv, ReaderOK, BeforeLock, Locked, Backing, Publishing
<1>7. HolderOK(p)'
  <2>1. LostNow = lost
    BY <1>1, LostToHolder DEF IInv, Locked, Backing, Publishing
  <2>2. \A r \in hist : r.run \notin lost => Backs(Now, r)
    BY <2>1 DEF IInv, Backed
  <2>3. over[p] = {} => ctx[p].csv = csv
    BY <1>1 DEF IInv, ReaderOK
  <2>4. before[p] = Now
    BY <1>1 DEF IInv, HolderOK
  <2>5. QED
    BY <1>1, <1>5, <2>2, <2>3, <2>4 DEF IInv, HolderOK, Locked, Backing, Publishing, Now, Backs
<1>8. \A q \in Procs \ {p} : ReaderOK(q)' /\ HolderOK(q)'
  BY <1>1, OthersKeep DEF IInv, files
<1>9. QED
  BY <1>2, <1>4, <1>6, <1>7, <1>8 DEF IInv

\* What the new files hold: this run's entries for the needed tools, and what
\* was read for the others; no collection that is kept is ahead of them.
LEMMA NewFiles ==
    ASSUME IInv, NEW p \in Procs, pc[p] \in Locked
    PROVE  /\ run[p] = runs /\ run[p] \in Runs /\ run[p] \in Int
           /\ need[p] = Needed(p, want[p]) /\ need[p] \subseteq Tools
           /\ NewCsv(p) \in [Tools -> Filled] /\ NewMeta(p) \in [Tools -> {0} \cup Runs]
           /\ \A t \in need[p] : NewCsv(p)[t].by = run[p] /\ NewMeta(p)[t] = run[p]
           /\ \A r \in Kept(p) : \A t \in r.tools : NewCsv(p)[t].by >= r.run /\ NewMeta(p)[t] >= r.run
           /\ \A r \in hist : r \in Record
<1>1. run[p] = runs /\ run[p] \in Runs /\ run[p] \in Int /\ need[p] = Needed(p, want[p])
  BY DEF IInv, NumbersOK, HolderOK, Runs
<1>2. need[p] \subseteq Tools /\ \A r \in hist : r \in Record
  BY DEF IInv, TypeOK
<1>3. NewCsv(p) \in [Tools -> Filled] /\ NewMeta(p) \in [Tools -> {0} \cup Runs]
  BY <1>1 DEF IInv, TypeOK, NewCsv, NewMeta, Contents, Filled
<1>4. \A t \in need[p] : NewCsv(p)[t].by = run[p] /\ NewMeta(p)[t] = run[p]
  BY <1>2 DEF NewCsv, NewMeta
<1>5. ASSUME NEW r \in Kept(p), NEW t \in r.tools
      PROVE  NewCsv(p)[t].by >= r.run /\ NewMeta(p)[t] >= r.run
  <2>1. r \in hist /\ r \in Record /\ t \in Tools /\ r.run \in Int /\ r.run <= run[p]
    BY <1>1, <1>2 DEF Kept, Record, Runs, IInv, NumbersOK
  <2>2. ctx[p].csv[t].by >= r.run /\ ctx[p].meta[t] >= r.run
    BY DEF IInv, ReaderOK
  <2>3. CASE t \in need[p]
    BY <1>1, <1>4, <2>1, <2>3
  <2>4. CASE t \notin need[p]
    BY <2>1, <2>2, <2>4 DEF NewCsv, NewMeta
  <2>5. QED
    BY <2>3, <2>4
<1>6. QED
  BY <1>1, <1>2, <1>3, <1>4, <1>5

\* While the holder replaces files, the others know what they may have missed.
LEMMA ReadersKeep ==
    ASSUME IInv, NEW p \in Procs, pc[p] \in Locked, NEW q \in Procs \ {p},
           pc'[q] = pc[q], ctx'[q] = ctx[q], over[q] \subseteq over'[q], lost \subseteq lost',
           pc[q] \in BeforeLock => csv' = csv \/ over'[q] # {},
           pc[q] \in BeforeLock => \A r \in hist' \ hist : r.run \in lost' \cup over'[q],
           \A r \in hist \ hist' : r.run \in lost'
    PROVE  ReaderOK(q)' /\ HolderOK(q)'
<1>1. pc[q] \notin Locked
  BY LostToHolder DEF IInv
<1>2. HolderOK(q)'
  BY <1>1 DEF HolderOK, Locked, Backing, Publishing
<1>3. pc[q] \in BeforeLock => Kept(q)' \subseteq Kept(q)
  BY DEF Kept
<1>4. ReaderOK(q)
  BY DEF IInv
<1>5. ReaderOK(q)'
  <2>1. CASE pc[q] \in BeforeLock
    <3>1. \A r \in Kept(q)' : \A t \in r.tools : ctx[q].csv[t].by >= r.run
      BY <1>3, <1>4, <2>1 DEF ReaderOK
    <3>2. pc[q] \in {"readHist", "lock"} => \A r \in Kept(q)' : \A t \in r.tools : ctx[q].meta[t] >= r.run
      BY <1>3, <1>4, <2>1 DEF ReaderOK
    <3>3. pc[q] = "lock" => /\ Kept(q)' \subseteq ctx[q].hist
                            /\ \A r \in ctx[q].hist : r \in hist' \/ r.run \in lost'
      BY <1>3, <1>4, <2>1 DEF ReaderOK
    <3>4. over'[q] = {} => ctx[q].csv = csv'
      BY <1>4, <2>1 DEF ReaderOK
    <3>5. QED
      BY <1>1, <2>1, <3>1, <3>2, <3>3, <3>4 DEF ReaderOK, BeforeLock, Locked, Backing
  <2>2. CASE pc[q] \notin BeforeLock
    BY <1>1, <2>2 DEF ReaderOK, BeforeLock, Locked, Backing
  <2>3. QED
    BY <2>1, <2>2
<1>6. QED
  BY <1>2, <1>5
-----------------------------------------------------------------------------
(* The replacement of the files and its rollback. *)

\* The first replacement: all who read now may have missed it.
LEMMA PutCsvKeeps ==
    ASSUME IInv, NEW p \in Procs, PutCsv(p)
    PROVE  IInv'
<1>1. /\ pc[p] = "putCsv" /\ pc' = [pc EXCEPT ![p] = "putMeta"] /\ csv' = NewCsv(p)
      /\ over' = [q \in Procs |-> IF pc[q] \in BeforeLock THEN over[q] \cup Behind(p) ELSE over[q]]
      /\ UNCHANGED <<meta, hist, lock, run, inFull, want, ctx, need, got, backup, before, lost,
                     runs, faults>>
  BY DEF PutCsv, At, Goto, job
<1>2. /\ pc'[p] = "putMeta" /\ over'[p] = over[p] /\ pc[p] \in Locked
      /\ \A q \in Procs \ {p} : pc'[q] = pc[q] /\ pc[q] \notin Locked
      /\ \A q \in Procs : pc[q] \in BeforeLock => over'[q] = over[q] \cup Behind(p)
      /\ \A q \in Procs : over[q] \subseteq over'[q]
  BY <1>1, LostToHolder DEF IInv, TypeOK, BeforeLock, Locked, Backing
<1>3. run[p] \in Runs /\ Behind(p) \subseteq Runs /\ Behind(p) # {}
  BY <1>2, NewFiles DEF Behind, IInv, TypeOK
<1>4. TypeOK'
  <2>1. over' \in [Procs -> SUBSET Runs]
    BY <1>1, <1>3 DEF IInv, TypeOK
  <2>2. QED
    BY <1>1, <1>2, <2>1, NewFiles DEF IInv, TypeOK, PCs
<1>5. LockOK' /\ NumbersOK'
  BY <1>1, <1>2 DEF IInv, LockOK, NumbersOK, Locked, Backing, Publishing
<1>6. \A q \in Procs : pc'[q] \in Publishing => q = p
  BY <1>2 DEF Locked, Backing
<1>7. OverOK'
  <2>1. \A q \in Procs : pc'[q] \in BeforeLock => pc[q] \in BeforeLock
    BY <1>2 DEF BeforeLock
  <2>2. Behind(p)' = Behind(p)
    BY <1>1, <1>2 DEF Behind
  <2>3. QED
    BY <1>2, <1>6, <2>1, <2>2 DEF OverOK
<1>8. LostNow' = lost \cup over[p] /\ LostNow = lost
  <2>1. LostNow' = lost' \cup over'[p]
    <3>1. pc'[p] \in Publishing
      BY <1>2 DEF Publishing
    <3>2. {q \in Procs : pc'[q] \in Publishing} = {p}
      BY <1>6, <3>1
    <3>3. QED
      BY <3>2 DEF LostNow
  <2>2. LostNow = lost
    BY <1>1, <1>2, LostToHolder DEF IInv, Publishing
  <2>3. QED
    BY <1>1, <1>2, <2>1, <2>2
<1>9. Backed'
  <2> SUFFICES ASSUME NEW r \in hist, r.run \notin lost \cup over[p], NEW t \in r.tools
               PROVE  csv'[t].by >= r.run /\ meta[t] >= r.run
    BY <1>1, <1>8 DEF Backed, Backs, Now
  <2>1. meta[t] >= r.run
    BY <1>8 DEF IInv, Backed, Backs, Now
  <2>2. QED
    BY <1>1, <1>2, <2>1, NewFiles DEF Kept
<1>10. ReaderOK(p)' /\ HolderOK(p)'
  <2>1. /\ NewCsv(p)' = NewCsv(p) /\ NewMeta(p)' = NewMeta(p)
        /\ Needed(p, want[p])' = Needed(p, want[p]) /\ Kept(p)' = Kept(p)
    BY <1>1, <1>2 DEF NewCsv, NewMeta, Needed, Kept
  <2>2. ReaderOK(p)'
    BY <1>1, <1>2, <2>1 DEF IInv, ReaderOK, BeforeLock, Locked, Backing, Publishing
  <2>3. backup[p] = Now
    BY <1>1 DEF IInv, HolderOK
  <2>4. HolderOK(p)'
    BY <1>1, <1>2, <2>1, <2>3 DEF IInv, HolderOK, Locked, Backing, Publishing, Now, Backs
  <2>5. QED
    BY <2>2, <2>4
<1>11. \A q \in Procs \ {p} : ReaderOK(q)' /\ HolderOK(q)'
  BY <1>1, <1>2, <1>3, ReadersKeep
<1>12. QED
  BY <1>4, <1>5, <1>7, <1>9, <1>10, <1>11 DEF IInv

\* Nobody starts or ceases to publish.
LEMMA StillPublishing ==
    ASSUME IInv, NEW p \in Procs, pc[p] \in Publishing, NEW where \in Publishing,
           pc' = [pc EXCEPT ![p] = where], UNCHANGED <<hist, lock, run, ctx, over, lost, runs>>
    PROVE  /\ LockOK' /\ NumbersOK' /\ OverOK' /\ LostNow = lost \cup over[p] /\ LostNow' = LostNow
           /\ pc[p] \in Locked /\ pc'[p] = where
           /\ \A q \in Procs \ {p} : pc'[q] = pc[q] /\ pc[q] \notin Locked
           /\ \A q \in Procs : pc[q] \in BeforeLock => over[q] # {}
<1>1. /\ pc'[p] = where /\ \A q \in Procs \ {p} : pc'[q] = pc[q]
      /\ pc[p] \in Locked /\ where \in Locked
  BY DEF IInv, TypeOK, Locked, Backing
<1>2. LostNow = lost \cup over[p] /\ \A q \in Procs \ {p} : pc[q] \notin Locked
  BY <1>1, LostToHolder DEF IInv
<1>3. \A q \in Procs : /\ pc'[q] \in Publishing <=> pc[q] \in Publishing
                       /\ pc'[q] \in Locked <=> pc[q] \in Locked
                       /\ pc'[q] \in BeforeLock <=> pc[q] \in BeforeLock
  BY <1>1 DEF Publishing, BeforeLock
<1>4. LostNow' = LostNow
  BY <1>3 DEF LostNow
<1>5. LockOK' /\ NumbersOK'
  BY <1>1, <1>3 DEF IInv, LockOK, NumbersOK
<1>6. OverOK'
  BY <1>3 DEF IInv, OverOK, Behind
<1>7. \A q \in Procs : pc[q] \in BeforeLock => over[q] # {}
  BY DEF IInv, OverOK, Behind
<1>8. QED
  BY <1>1, <1>2, <1>4, <1>5, <1>6, <1>7

LEMMA PutMetaKeeps ==
    ASSUME IInv, NEW p \in Procs, PutMeta(p)
    PROVE  IInv'
<1>1. /\ pc[p] = "putMeta" /\ pc' = [pc EXCEPT ![p] = "putHist"] /\ meta' = NewMeta(p)
      /\ UNCHANGED <<csv, hist, lock, run, inFull, want, ctx, need, got, backup, before, over, lost,
                     runs, faults>>
  BY DEF PutMeta, At, Goto, job, ghosts
<1>2. /\ LockOK' /\ NumbersOK' /\ OverOK' /\ LostNow = lost \cup over[p] /\ LostNow' = LostNow
      /\ pc[p] \in Locked /\ pc'[p] = "putHist"
      /\ \A q \in Procs \ {p} : pc'[q] = pc[q] /\ pc[q] \notin Locked
  BY <1>1, StillPublishing DEF Publishing
<1>3. TypeOK'
  BY <1>1, <1>2, NewFiles DEF IInv, TypeOK, PCs
<1>4. csv = NewCsv(p)
  BY <1>1 DEF IInv, HolderOK
<1>5. Backed'
  <2> SUFFICES ASSUME NEW r \in hist, r.run \notin lost \cup over[p], NEW t \in r.tools
               PROVE  csv[t].by >= r.run /\ meta'[t] >= r.run
    BY <1>1, <1>2 DEF Backed, Backs, Now
  <2>1. QED
    BY <1>1, <1>2, <1>4, NewFiles DEF Kept
<1>6. ReaderOK(p)' /\ HolderOK(p)'
  <2>1. /\ NewCsv(p)' = NewCsv(p) /\ NewMeta(p)' = NewMeta(p)
        /\ Needed(p, want[p])' = Needed(p, want[p]) /\ Kept(p)' = Kept(p)
    BY <1>1 DEF NewCsv, NewMeta, Needed, Kept
  <2>2. ReaderOK(p)'
    BY <1>1, <1>2, <2>1 DEF IInv, ReaderOK, BeforeLock, Locked, Backing, Publishing
  <2>3. HolderOK(p)'
    BY <1>1, <1>2, <1>4, <2>1 DEF IInv, HolderOK, Locked, Backing, Publishing, Backs
  <2>4. QED
    BY <2>2, <2>3
<1>7. \A q \in Procs \ {p} : ReaderOK(q)' /\ HolderOK(q)'
  BY <1>1, <1>2, ReadersKeep
<1>8. QED
  BY <1>2, <1>3, <1>5, <1>6, <1>7 DEF IInv

\* The last replacement: only records that the run may have missed go.
LEMMA NewHistKeeps ==
    ASSUME IInv, NEW p \in Procs, pc[p] \in Locked
    PROVE  /\ \A r \in hist \ NewHist(p) : r.run \in lost \cup over[p]
           /\ \A r \in NewHist(p) : \/ r \in hist \/ r.run \in lost
                                    \/ r = [run |-> run[p], tools |-> need[p]]
           /\ \A r \in NewHist(p) : r.run <= runs
           /\ NewHist(p) \subseteq Record
<1>1. /\ Kept(p) \subseteq ctx[p].hist /\ \A r \in ctx[p].hist : r \in hist \/ r.run \in lost
      /\ \A r \in ctx[p].hist : r.run <= runs /\ r \in Record
  BY DEF IInv, TypeOK, Contents, ReaderOK, NumbersOK
<1>2. [run |-> run[p], tools |-> need[p]] \in Record /\ run[p] <= runs
  BY NewFiles DEF Record
<1>3. QED
  BY <1>1, <1>2 DEF NewHist, Kept

LEMMA PutHistKeeps ==
    ASSUME IInv, NEW p \in Procs, PutHist(p)
    PROVE  IInv'
<1>1. /\ pc[p] = "putHist" /\ hist' = NewHist(p) /\ lost' = lost \cup over[p] /\ Quit(p)
      /\ UNCHANGED <<csv, meta, runs, faults>>
  BY DEF PutHist
<1>2. pc[p] \in Locked /\ pc[p] \in Publishing /\ csv = NewCsv(p) /\ meta = NewMeta(p)
  BY <1>1 DEF IInv, HolderOK, Locked, Backing, Publishing
<1>3. /\ \A r \in hist \ hist' : r.run \in lost'
      /\ \A r \in hist' : r \in hist \/ r.run \in lost \/ r = [run |-> run[p], tools |-> need[p]]
      /\ \A r \in hist' : r.run <= runs
      /\ hist' \subseteq Record
  BY <1>1, <1>2, NewHistKeeps
<1>4. TypeOK'
  BY <1>1, <1>3, QuitLeaves DEF IInv, TypeOK
<1>5. NumbersOK' /\ OverOK'
  BY <1>1, <1>3, QuitOrder
<1>6. LostNow = lost' /\ LostNow' = lost'
  <2>1. LostNow = lost \cup over[p] /\ \A q \in Procs \ {p} : pc[q] \notin Locked
    BY <1>2, LostToHolder DEF IInv
  <2>2. {o \in Procs \ {p} : pc[o] \in Publishing} = {}
    BY <2>1 DEF Locked, Backing
  <2>3. LostNow' = lost' \cup UNION {over[q] : q \in {o \in Procs \ {p} : pc[o] \in Publishing}}
    BY <1>1, <1>3, QuitOrder
  <2>4. QED
    BY <1>1, <2>1, <2>2, <2>3
<1>7. Backed'
  <2> SUFFICES ASSUME NEW r \in hist', r.run \notin lost', NEW t \in r.tools
               PROVE  csv[t].by >= r.run /\ meta[t] >= r.run
    BY <1>1, <1>6 DEF Backed, Backs, Now
  <2>1. CASE r \in hist
    BY <1>6, <2>1 DEF IInv, Backed, Backs, Now
  <2>2. CASE r = [run |-> run[p], tools |-> need[p]]
    BY <1>2, <2>2, NewFiles
  <2>3. QED
    BY <1>1, <1>3, <2>1, <2>2
<1>8. \A q \in Procs \ {p} : ReaderOK(q)' /\ HolderOK(q)'
  <2> SUFFICES ASSUME NEW q \in Procs \ {p} PROVE ReaderOK(q)' /\ HolderOK(q)'
    OBVIOUS
  <2>1. Same(q)
    BY <1>1, QuitLeaves
  <2>2. pc[q] \in BeforeLock => run[p] \in over[q]
    BY <1>2 DEF IInv, OverOK, Behind
  <2>3. pc[q] \in BeforeLock => \A r \in hist' \ hist : r.run \in lost' \cup over'[q]
    BY <1>1, <1>3, <2>1, <2>2 DEF Same
  <2>4. QED
    BY <1>1, <1>2, <1>3, <2>1, <2>3, ReadersKeep DEF Same
<1>9. QED
  BY <1>1, <1>4, <1>5, <1>7, <1>8, QuitLeaves, IdleKnowsNothing DEF IInv

LEMMA PutFailsKeeps ==
    ASSUME IInv, NEW p \in Procs, PutFails(p)
    PROVE  IInv'
<1>1. PICK where \in {"undoCsv", "undoBoth"} :
         /\ where = IF pc[p] = "putMeta" THEN "undoCsv" ELSE "undoBoth"
         /\ pc[p] \in {"putMeta", "putHist"} /\ pc' = [pc EXCEPT ![p] = where] /\ Fault
         /\ UNCHANGED <<csv, meta, hist, lock, run, inFull, want, ctx, need, got, backup, before,
                        over, lost, runs>>
  BY DEF PutFails, Goto, files, job, ghosts
<1>2. /\ LockOK' /\ NumbersOK' /\ OverOK' /\ LostNow' = LostNow
      /\ pc[p] \in Locked /\ pc'[p] = where /\ \A q \in Procs \ {p} : pc'[q] = pc[q]
  BY <1>1, StillPublishing DEF Publishing
<1>3. TypeOK'
  <2>1. faults' \in 0..MaxFaults
    BY <1>1, ConstantsAssumption DEF Fault, IInv, TypeOK
  <2>2. QED
    BY <1>1, <2>1 DEF IInv, TypeOK, PCs
<1>4. Backed'
  BY <1>1, <1>2 DEF IInv, Backed, Backs, Now
<1>5. ReaderOK(p)' /\ HolderOK(p)'
  <2>1. /\ NewCsv(p)' = NewCsv(p) /\ NewMeta(p)' = NewMeta(p)
        /\ Needed(p, want[p])' = Needed(p, want[p]) /\ Kept(p)' = Kept(p)
    BY <1>1 DEF NewCsv, NewMeta, Needed, Kept
  <2>2. ReaderOK(p)'
    BY <1>1, <1>2, <2>1 DEF IInv, ReaderOK, BeforeLock, Locked, Backing, Publishing
  <2>3. HolderOK(p)'
    BY <1>1, <1>2, <2>1 DEF IInv, HolderOK, Locked, Backing, Publishing, Backs
  <2>4. QED
    BY <2>2, <2>3
<1>6. \A q \in Procs \ {p} : ReaderOK(q)' /\ HolderOK(q)'
  BY <1>1, <1>2, OthersKeep DEF IInv, Same, files
<1>7. QED
  BY <1>2, <1>3, <1>4, <1>5, <1>6 DEF IInv

\* The rollback ends: the three files are those of the backup.
LEMMA RestoredKeeps ==
    ASSUME IInv, NEW p \in Procs, pc[p] \in {"undoCsv", "undoMeta"}, Quit(p),
           csv' = backup[p].csv, meta' = backup[p].meta, UNCHANGED <<hist, lost, runs, faults>>
    PROVE  IInv'
<1>1. pc[p] \in Locked /\ pc[p] \in Publishing
  BY DEF Locked, Backing, Publishing
<1>2. /\ backup[p].csv \in [Tools -> Filled] /\ backup[p].meta \in [Tools -> {0} \cup Runs]
      /\ \A r \in hist : r.run \notin lost => Backs(backup[p], r)
  BY <1>1 DEF IInv, TypeOK, Contents, HolderOK, Backing
<1>3. TypeOK'
  BY <1>2, QuitLeaves DEF IInv, TypeOK
<1>4. NumbersOK' /\ OverOK'
  BY QuitOrder DEF IInv, NumbersOK
<1>5. LostNow' = lost
  <2>1. \A q \in Procs \ {p} : pc[q] \notin Locked
    BY <1>1, LostToHolder DEF IInv
  <2>2. {o \in Procs \ {p} : pc[o] \in Publishing} = {}
    BY <2>1 DEF Locked, Backing
  <2>3. LostNow' = lost' \cup UNION {over[q] : q \in {o \in Procs \ {p} : pc[o] \in Publishing}}
    BY QuitOrder DEF IInv, NumbersOK
  <2>4. QED
    BY <2>2, <2>3
<1>6. Backed'
  BY <1>2, <1>5 DEF Backed, Backs, Now
<1>7. \A q \in Procs \ {p} : ReaderOK(q)' /\ HolderOK(q)'
  <2> SUFFICES ASSUME NEW q \in Procs \ {p} PROVE ReaderOK(q)' /\ HolderOK(q)'
    OBVIOUS
  <2>1. Same(q)
    BY QuitLeaves
  <2>2. pc[q] \in BeforeLock => over[q] # {}
    BY <1>1 DEF IInv, OverOK, Behind
  <2>3. QED
    BY <1>1, <2>1, <2>2, ReadersKeep DEF Same
<1>8. QED
  BY <1>3, <1>4, <1>6, <1>7, QuitLeaves, IdleKnowsNothing DEF IInv

LEMMA RestoreCsvKeeps ==
    ASSUME IInv, NEW p \in Procs, RestoreCsv(p)
    PROVE  IInv'
<1>1. CASE pc[p] = "undoCsv"
  BY <1>1, RestoredKeeps DEF RestoreCsv, IInv, HolderOK
<1>2. CASE pc[p] = "undoBoth"
  <2>1. /\ pc' = [pc EXCEPT ![p] = "undoMeta"] /\ csv' = backup[p].csv
        /\ UNCHANGED <<meta, hist, lock, run, inFull, want, ctx, need, got, backup, before, over,
                       lost, runs, faults>>
    BY <1>2 DEF RestoreCsv, Goto, job
  <2>2. /\ LockOK' /\ NumbersOK' /\ OverOK' /\ LostNow = lost \cup over[p] /\ LostNow' = LostNow
        /\ pc[p] \in Locked /\ pc'[p] = "undoMeta"
        /\ \A q \in Procs \ {p} : pc'[q] = pc[q] /\ pc[q] \notin Locked
        /\ \A q \in Procs : pc[q] \in BeforeLock => over[q] # {}
    BY <1>2, <2>1, StillPublishing DEF Publishing
  <2>3. /\ backup[p].csv \in [Tools -> Filled]
        /\ \A r \in hist : r.run \notin lost => Backs(backup[p], r)
    BY <1>2 DEF IInv, TypeOK, Contents, HolderOK, Backing, Publishing
  <2>4. TypeOK'
    BY <2>1, <2>3 DEF IInv, TypeOK, PCs
  <2>5. Backed'
    BY <2>1, <2>2, <2>3 DEF IInv, Backed, Backs, Now
  <2>6. ReaderOK(p)' /\ HolderOK(p)'
    <3>1. /\ NewCsv(p)' = NewCsv(p) /\ NewMeta(p)' = NewMeta(p)
          /\ Needed(p, want[p])' = Needed(p, want[p]) /\ Kept(p)' = Kept(p)
      BY <2>1 DEF NewCsv, NewMeta, Needed, Kept
    <3>2. ReaderOK(p)'
      BY <1>2, <2>1, <2>2, <3>1 DEF IInv, ReaderOK, BeforeLock, Locked, Backing, Publishing
    <3>3. HolderOK(p)'
      BY <1>2, <2>1, <2>2, <3>1 DEF IInv, HolderOK, Locked, Backing, Publishing, Backs
    <3>4. QED
      BY <3>2, <3>3
  <2>7. \A q \in Procs \ {p} : ReaderOK(q)' /\ HolderOK(q)'
    BY <2>1, <2>2, ReadersKeep
  <2>8. QED
    BY <2>2, <2>4, <2>5, <2>6, <2>7 DEF IInv
<1>3. QED
  BY <1>1, <1>2 DEF RestoreCsv

LEMMA RestoreMetaKeeps ==
    ASSUME IInv, NEW p \in Procs, RestoreMeta(p)
    PROVE  IInv'
BY RestoredKeeps DEF RestoreMeta, IInv, HolderOK

LEMMA AbortKeeps ==
    ASSUME IInv, NEW p \in Procs, Abort(p)
    PROVE  IInv'
<1>1. faults' \in 0..MaxFaults
  BY ConstantsAssumption DEF IInv, TypeOK, Abort, Fault
<1>2. QED
  BY <1>1, QuitKeeps DEF Abort
-----------------------------------------------------------------------------
LEMMA InitEstablishes == Init => IInv
<1> SUFFICES ASSUME Init PROVE IInv
  OBVIOUS
<1>1. Nothing \in Contents /\ Nothing.hist = {} /\ NoWish \in Wish
  BY DEF Nothing, Contents, Filled, Empty, NoWish, Wish
<1>2. TypeOK
  BY <1>1, ConstantsAssumption DEF Init, TypeOK, PCs, Contents
<1>3. LockOK /\ NumbersOK /\ OverOK /\ Backed
  BY <1>1, ConstantsAssumption
     DEF Init, LockOK, NumbersOK, OverOK, Backed, Locked, Backing, Publishing, BeforeLock
<1>4. \A p \in Procs : ReaderOK(p) /\ HolderOK(p)
  BY DEF Init, ReaderOK, HolderOK, BeforeLock, Locked, Backing, Publishing
<1>5. QED
  BY <1>2, <1>3, <1>4 DEF IInv

LEMMA NextKeeps == IInv /\ [Next]_vars => IInv'
<1> SUFFICES ASSUME IInv, [Next]_vars PROVE IInv'
  OBVIOUS
<1>1. CASE Next
  BY <1>1, LaunchKeeps, ScanKeeps, ReadCsvKeeps, ReadMetaKeeps, ReadHistKeeps, LockKeeps,
     CollectKeeps, CreateBackupKeeps, PutCsvKeeps, PutMetaKeeps, PutHistKeeps, PutFailsKeeps,
     RestoreCsvKeeps, RestoreMetaKeeps, AbortKeeps DEF Next
<1>2. CASE UNCHANGED vars
  <2>1. UNCHANGED <<csv, meta, hist, lock, pc, run, inFull, want, ctx, need, got, backup, before,
                    over, lost, runs, faults>>
    BY <1>2 DEF vars
  <2>2. LostNow' = LostNow
    BY <2>1 DEF LostNow
  <2>3. TypeOK' /\ LockOK' /\ NumbersOK' /\ OverOK' /\ Backed'
    BY <2>1, <2>2 DEF IInv, TypeOK, LockOK, NumbersOK, OverOK, Behind, Backed, Backs, Now
  <2>4. \A q \in Procs : ReaderOK(q)' /\ HolderOK(q)'
    BY <2>1, OthersKeep DEF IInv, Same, files
  <2>5. QED
    BY <2>3, <2>4 DEF IInv
<1>3. QED
  BY <1>1, <1>2

LEMMA InvariantHolds == Spec => []IInv
BY InitEstablishes, NextKeeps, PTL DEF Spec
-----------------------------------------------------------------------------
\* Provenance never runs ahead of the data: every collection recorded in
\* collection_history.json is in static_meta.json and result_all.csv, or was
\* replaced there by a later run (commit_result_files and its rollback), or by
\* one that had read the result before the collection was published.
THEOREM HistoryIsBacked == Spec => []HistoryBacked
<1>1. IInv => HistoryBacked
  BY DEF IInv, HistoryBacked, Backed, Backs, Now
<1>2. QED
  BY <1>1, InvariantHolds, PTL

\* A record goes only if the run that takes it away may have missed it.
LEMMA RecordsGoToReaders == IInv /\ [Next]_vars => \A r \in hist \ hist' : r.run \in lost'
<1> SUFFICES ASSUME IInv, [Next]_vars PROVE \A r \in hist \ hist' : r.run \in lost'
  OBVIOUS
<1>1. ASSUME NEW p \in Procs, PutHist(p) PROVE \A r \in hist \ hist' : r.run \in lost'
  <2>1. pc[p] \in Locked
    BY <1>1 DEF PutHist, Locked, Backing, Publishing
  <2>2. QED
    BY <1>1, <2>1, NewHistKeeps DEF PutHist
<1>2. CASE hist' = hist
  BY <1>2
<1>3. QED
  BY <1>1, <1>2 DEF Next, vars, files, Launch, Scan, ReadCsv, ReadMeta, ReadHist, Lock, Collect,
     CreateBackup, PutCsv, PutMeta, PutFails, RestoreCsv, RestoreMeta, Abort

Keeps(t) ==
    \E p \in Procs :
        /\ lock = p
        /\ \/ over[p] # {} /\ pc[p] \in {"putCsv", "undoCsv", "undoBoth"}
           \/ pc[p] = "putCsv" /\ t \in want[p].tools /\ want[p].force
           \/ pc[p] \in {"undoCsv", "undoBoth"} /\ csv[t].by = run[p]

\* Successful values are replaced on purpose only, taken back by the run that
\* put them there, or missed by one that read too early (backfill_rows).
LEMMA ValuesReplacedOnPurpose ==
    IInv /\ [Next]_vars => \A t \in Tools : csv[t].ok /\ csv'[t] # csv[t] => Keeps(t)
<1> SUFFICES ASSUME IInv, [Next]_vars, NEW t \in Tools, csv[t].ok, csv'[t] # csv[t]
             PROVE  Keeps(t)
  OBVIOUS
<1>1. ASSUME NEW p \in Procs, PutCsv(p) PROVE Keeps(t)
  <2>1. pc[p] = "putCsv" /\ pc[p] \in Locked /\ csv' = NewCsv(p) /\ lock = p
    BY <1>1 DEF PutCsv, At, Locked, Backing, IInv, LockOK
  <2>2. CASE over[p] # {}
    BY <2>1, <2>2 DEF Keeps
  <2>3. CASE over[p] = {}
    <3>1. ctx[p].csv = csv
      BY <2>1, <2>3 DEF IInv, ReaderOK
    <3>2. t \in need[p] /\ need[p] = Needed(p, want[p])
      BY <2>1, <3>1, NewFiles DEF NewCsv
    <3>3. t \in want[p].tools /\ want[p].force
      BY <3>1, <3>2 DEF Needed
    <3>4. QED
      BY <2>1, <3>3 DEF Keeps
  <2>4. QED
    BY <2>2, <2>3
<1>2. ASSUME NEW p \in Procs, RestoreCsv(p) PROVE Keeps(t)
  <2>1. /\ pc[p] \in {"undoCsv", "undoBoth"} /\ pc[p] \in Locked /\ pc[p] \in Backing /\ lock = p
        /\ csv = NewCsv(p) /\ csv' = backup[p].csv
    BY <1>2 DEF IInv, RestoreCsv, HolderOK, Locked, Backing, Publishing, LockOK
  <2>2. CASE over[p] # {}
    BY <2>1, <2>2 DEF Keeps
  <2>3. CASE over[p] = {}
    <3>1. backup[p].csv = ctx[p].csv
      BY <2>1, <2>3 DEF IInv, HolderOK
    <3>2. csv[t].by = run[p]
      BY <2>1, <3>1 DEF NewCsv
    <3>3. QED
      BY <2>1, <3>2 DEF Keeps
  <2>4. QED
    BY <2>2, <2>3
<1>3. CASE csv' = csv
  BY <1>3
<1>4. QED
  BY <1>1, <1>2, <1>3 DEF Next, vars, files, Launch, Scan, ReadCsv, ReadMeta, ReadHist, Lock, Collect,
     CreateBackup, PutMeta, PutHist, PutFails, RestoreMeta, Abort

Restored(p) ==
    pc[p] \in {"undoCsv", "undoMeta"} /\ pc'[p] = "idle" /\ faults' = faults =>
        <<csv', meta', hist'>> = <<before[p].csv, before[p].meta, before[p].hist>>

\* A rollback that ends has restored all three files (_restore_from_backup).
LEMMA RollbackRestores == IInv /\ [Next]_vars => \A p \in Procs : Restored(p)
<1> SUFFICES ASSUME IInv, [Next]_vars, NEW p \in Procs,
                    pc[p] \in {"undoCsv", "undoMeta"}, pc'[p] = "idle", faults' = faults
             PROVE  <<csv', meta', hist'>> = <<before[p].csv, before[p].meta, before[p].hist>>
  BY DEF Restored
<1>1. /\ pc[p] \in Backing /\ pc[p] \in Publishing
      /\ before[p] = backup[p] /\ backup[p].hist = hist
      /\ pc[p] = "undoCsv" => meta = backup[p].meta
      /\ pc[p] = "undoMeta" => csv = backup[p].csv
  BY DEF IInv, HolderOK, Backing, Publishing
<1>2. CASE RestoreCsv(p)
  BY <1>1, <1>2 DEF RestoreCsv
<1>3. CASE RestoreMeta(p)
  BY <1>1, <1>3 DEF RestoreMeta
<1>4. ASSUME NEW q \in Procs \ {p},
             Launch(q) \/ Scan(q) \/ ReadCsv(q) \/ ReadMeta(q) \/ ReadHist(q) \/ Lock(q) \/ Collect(q)
             \/ CreateBackup(q) \/ PutCsv(q) \/ PutMeta(q) \/ PutHist(q) \/ PutFails(q)
             \/ RestoreCsv(q) \/ RestoreMeta(q) \/ Abort(q)
      PROVE FALSE
  BY <1>4 DEF IInv, TypeOK, Launch, Scan, ReadCsv, ReadMeta, ReadHist, Lock, Collect, CreateBackup,
     PutCsv, PutMeta, PutHist, PutFails, RestoreCsv, RestoreMeta, Abort, At, Goto, Quit
<1>5. ~(Launch(p) \/ Scan(p) \/ ReadCsv(p) \/ ReadMeta(p) \/ ReadHist(p) \/ Lock(p) \/ Collect(p)
        \/ CreateBackup(p) \/ PutCsv(p) \/ PutMeta(p) \/ PutHist(p) \/ PutFails(p))
  BY DEF Launch, Scan, ReadCsv, ReadMeta, ReadHist, Lock, Collect, CreateBackup, PutCsv, PutMeta,
     PutHist, PutFails, At
<1>6. ~Abort(p)
  BY <1>1 DEF IInv, TypeOK, Abort, Fault
<1>7. pc' # pc
  BY DEF IInv
<1>8. QED
  BY <1>2, <1>3, <1>4, <1>5, <1>6, <1>7 DEF Next, vars

\* What a finished run has contributed is not changed by the rollback of one
\* that failed, and is lost only to one that had read the result too early.
THEOREM ContributionsAreKept == Spec => ContributionsKept
<1>1. IInv /\ [Next]_vars => [\A r \in hist \ hist' : r.run \in lost']_hist
  BY RecordsGoToReaders
<1>2. IInv /\ [Next]_vars => [\A t \in Tools : csv[t].ok /\ csv'[t] # csv[t] => Keeps(t)]_csv
  BY ValuesReplacedOnPurpose
<1>3. IInv /\ [Next]_vars => [\A p \in Procs : Restored(p)]_vars
  BY RollbackRestores
<1>4. Spec => RecordsLostToReadersOnly
  BY <1>1, InvariantHolds, PTL DEF RecordsLostToReadersOnly, Spec
<1>5. Spec => ValuesKept
  BY <1>2, InvariantHolds, PTL DEF ValuesKept, Spec, Keeps
<1>6. Spec => RollbackExact
  BY <1>3, InvariantHolds, PTL DEF RollbackExact, Spec, Restored
<1>7. QED
  BY <1>4, <1>5, <1>6, PTL DEF ContributionsKept

-----------------------------------------------------------------------------
(* ProfilePlans: what later runs fill in, for any results, any sampling    *)
(* and any number of runs.  The invariant says of every plan, on disk or   *)
(* in hand, that each entry was measured for the rows its key is looked up *)
(* for, and of every tool still wanted that its plan is to come or chosen. *)

EntriesOf(k, entries) ==
    \A s \in DOMAIN entries : entries[s].is = "value" =>
        /\ entries[s].gpu = k[2] /\ entries[s].scale = s
        /\ k[1] \in ExecutionTools => Stands(entries[s], k[3])

PlanOK(plan) == \A k \in DOMAIN plan : EntriesOf(k, plan[k].entries)

CellsOK ==
    \A r \in result.rows, t \in PlanTools :
        Own(cells[r][t], t, r) /\ (cells[r][t].is = "value" => t \in named)

WantsOK ==
    planStage \in {"plans", "merge", "fill"} =>
        /\ wants.tools \subseteq PlanTools
        /\ IF planStage = "plans"
           THEN /\ toolsLeft # {} /\ toolsLeft \subseteq PlanTools
                /\ wants.tools \subseteq DOMAIN chosen \cup toolsLeft
           ELSE wants.tools \subseteq DOMAIN chosen

PlansInv ==
    /\ result \in Results /\ result.tools \subseteq PlanTools
    /\ \A p \in DOMAIN planAt : PlanOK(planAt[p])
    /\ \A t \in DOMAIN chosen : PlanOK(chosen[t])
    /\ WantsOK /\ CellsOK
    /\ settled \subseteq PlanTools /\ (planStage = "new" => settled = {})
    /\ CompletePlanFills

\* What is found in a plan for a row was measured for that row
\* (find_compute_profile_entry, find_execution_profile_entry).
LEMMA LookUpIsOwn ==
    ASSUME NEW plan, PlanOK(plan), NEW t, NEW row
    PROVE  Own(LookUp(plan, t, row), t, row)
<1> DEFINE k == KeyFor(t, row)
           e == EntryAt(plan, k, row.scale)
<1>1. SUFFICES ASSUME LookUp(plan, t, row).is = "value"
               PROVE  /\ Applies(t, row) /\ LookUp(plan, t, row).gpu = row.gpu /\ LookUp(plan, t, row).scale = row.scale
                      /\ t \in ExecutionTools => Stands(LookUp(plan, t, row), CaseOf(row))
  BY DEF Own
<1>2. BlankCell.is # "value" /\ Failed.is # "value"
  BY DEF BlankCell, Failed
<1>3. Applies(t, row) /\ k \in DOMAIN plan /\ LookUp(plan, t, row) = e
  BY <1>1, <1>2 DEF LookUp, ComputeCell, ExecutionCell
<1>4. row.scale \in DOMAIN plan[k].entries /\ e = plan[k].entries[row.scale]
  BY <1>1, <1>2, <1>3 DEF EntryAt
<1>5. /\ e.gpu = k[2] /\ e.scale = row.scale
      /\ k[1] \in ExecutionTools => Stands(e, k[3])
  BY <1>1, <1>3, <1>4 DEF PlanOK, EntriesOf
<1>6. k[1] = t /\ k[2] = row.gpu
  BY DEF KeyFor
<1>7. ASSUME t \in ExecutionTools PROVE Stands(e, CaseOf(row))
  <2>1. k[3] = CaseOf(row)
    BY <1>7 DEF KeyFor, ExecutionTools, ComputeTools
  <2>2. QED BY <1>5, <1>6, <1>7, <2>1
<1>8. QED BY <1>3, <1>5, <1>6, <1>7

\* What is found is in the plan, under the row's key.
LEMMA FoundIsThere ==
    ASSUME NEW plan, NEW t, NEW row, LookUp(plan, t, row).is = "value"
    PROVE  Applies(t, row) /\ KeyFor(t, row) \in DOMAIN plan
BY DEF LookUp, ComputeCell, ExecutionCell, BlankCell, Failed

\* A collected plan keeps its keys: full profiles are of the case itself,
\* sampled ones of what stands for it (_profile_source_resource).
LEMMA CollectedIsOK ==
    ASSUME NEW t \in PlanTools, NEW how \in Hows(t), NEW rows, NEW modes, NEW missed
    PROVE  PlanOK(Collected(t, how, Grid(rows), modes, missed))
<1> DEFINE P == Collected(t, how, Grid(rows), modes, missed)
<1>1. SUFFICES ASSUME NEW k \in DOMAIN P, NEW s \in DOMAIN P[k].entries, P[k].entries[s].is = "value"
               PROVE  /\ P[k].entries[s].gpu = k[2] /\ P[k].entries[s].scale = s
                      /\ k[1] \in ExecutionTools => Stands(P[k].entries[s], k[3])
  BY DEF PlanOK, EntriesOf
<1> DEFINE at == SourceFor(t, how, Grid(rows), k[3])
<1>2. k \in {t} \X (modes \cap ToolModes(t)) \X CasesFor(t, Grid(rows))
  BY DEF Collected
<1>3. P[k].entries = [x \in result.scales |-> IF <<at, k[2], x>> \in missed
                                              THEN Failed ELSE Value(at, k[2], x, how.by)]
  BY <1>2 DEF Collected
<1>4. P[k].entries[s] = Value(at, k[2], s, how.by)
  BY <1>1, <1>3 DEF Failed
<1>5. ASSUME k[1] \in ExecutionTools PROVE Stands(P[k].entries[s], k[3])
  <2>1. t \in ExecutionTools /\ k[3] \in Grid(rows)
    BY <1>2, <1>5 DEF CasesFor, ExecutionTools, ComputeTools
  <2>2. k[3] = <<k[3][1], k[3][2]>>
    BY <2>1 DEF Grid
  <2>3. how.by \in {"full", "per-cpu-scale", "per-scale"}
    BY <2>1 DEF Hows, ExecutionTools, ComputeTools
  <2>4. at = <<IF how.by = "per-scale" THEN Resolve(how.cpu, {c[1] : c \in Grid(rows)}) ELSE k[3][1],
               IF how.by = "full" THEN k[3][2] ELSE Resolve(how.mem, {c[2] : c \in Grid(rows)})>>
    BY <2>1 DEF SourceFor, ExecutionTools, ComputeTools
  <2>5. Value(at, k[2], s, how.by).how = how.by /\ Value(at, k[2], s, how.by).at = at
    BY DEF Value
  <2>6. CASE how.by = "full"
    BY <1>4, <2>2, <2>4, <2>5, <2>6 DEF Stands
  <2>7. CASE how.by = "per-cpu-scale"
    <3> DEFINE a == IF how.by = "per-scale" THEN Resolve(how.cpu, {c[1] : c \in Grid(rows)}) ELSE k[3][1]
               b == IF how.by = "full" THEN k[3][2] ELSE Resolve(how.mem, {c[2] : c \in Grid(rows)})
    <3>1. a = k[3][1]
      BY <2>7
    <3> HIDE DEF a, b
    <3>2. <<a, b>>[1] = a
      OBVIOUS
    <3>3. at = <<a, b>>
      BY <2>4 DEF a, b
    <3>4. at[1] = k[3][1]
      BY <3>1, <3>2, <3>3
    <3>5. QED BY <1>4, <2>5, <2>7, <3>4 DEF Stands
  <2>8. CASE how.by = "per-scale"
    BY <1>4, <2>5, <2>8 DEF Stands
  <2>9. QED BY <2>3, <2>6, <2>7, <2>8
<1>6. QED BY <1>4, <1>5 DEF Value

\* Of the chosen plans, the merged one has what the tools' own have
\* (merge_compute_plans, merge_execution_plans).
LEMMA MergedIsOK ==
    ASSUME \A t \in DOMAIN chosen : PlanOK(chosen[t]), NEW kind_
    PROVE  PlanOK(Merged(kind_))
<1>1. SUFFICES ASSUME NEW k \in DOMAIN Merged(kind_) PROVE EntriesOf(k, Merged(kind_)[k].entries)
  BY DEF PlanOK
<1>2. PICK t \in DOMAIN chosen : k \in DOMAIN chosen[t] /\ k[1] = t
  BY DEF Merged
<1>3. Merged(kind_)[k] = chosen[t][k]
  BY <1>2 DEF Merged
<1>4. QED BY <1>2, <1>3 DEF PlanOK

LEMMA MergedHasOwn ==
    ASSUME NEW t \in DOMAIN chosen, NEW row, LookUp(chosen[t], t, row).is = "value"
    PROVE  LookUp(Merged(Kind(t)), t, row) = LookUp(chosen[t], t, row)
<1> DEFINE k == KeyFor(t, row)
           M == Merged(Kind(t))
<1>1. Applies(t, row) /\ k \in DOMAIN chosen[t]
  BY FoundIsThere
<1>2. k[1] = t
  BY DEF KeyFor
<1>3. k \in DOMAIN M
  BY <1>1, <1>2 DEF Merged
<1>4. M[k] = chosen[t][k]
  BY <1>2, <1>3 DEF Merged
<1>5. Enabled(M, t) /\ Enabled(chosen[t], t)
  BY <1>1, <1>2, <1>3 DEF Enabled
<1>6. EntryAt(M, k, row.scale) = EntryAt(chosen[t], k, row.scale)
  BY <1>4 DEF EntryAt
<1>7. QED BY <1>1, <1>3, <1>5, <1>6 DEF LookUp, ComputeCell, ExecutionCell

\* A plan that covers a tool has a value for each of the tool's rows.
LEMMA CoveredIsFound ==
    ASSUME PlansAssumption, result \in Results, NEW plan, NEW t, PlanCovers(plan, t),
           NEW r \in result.rows, Applies(t, r)
    PROVE  LookUp(plan, t, r).is = "value"
<1>1. r.gpu \in ToolModes(t) /\ r \in RowsOf(r.gpu)
  BY DEF Applies, RowsOf
<1>2. LookUp(plan, t, [r EXCEPT !.scale = r.scale]).is = "value"
  BY <1>1 DEF PlanCovers
<1>3. [r EXCEPT !.scale = r.scale] = r
  BY DEF PlansAssumption
<1>4. QED BY <1>2, <1>3

\* A union of plans has nothing that is in none of them.
LEMMA JoinIsOK ==
    ASSUME NEW plans, \A p \in plans : PlanOK(p)
    PROVE  PlanOK(Join(plans))
<1>1. SUFFICES ASSUME NEW k \in DOMAIN Join(plans) PROVE EntriesOf(k, Join(plans)[k].entries)
  BY DEF PlanOK
<1>2. \E p \in plans : k \in DOMAIN p
  BY DEF Join
<1>3. PICK p \in plans : k \in DOMAIN p /\ Join(plans)[k] = p[k]
  BY <1>2 DEF Join
<1>4. QED BY <1>3 DEF PlanOK

\* Whose turn it is: a tool that is left (service.run_posthoc).
LEMMA TurnIsLeft ==
    ASSUME toolsLeft # {}, toolsLeft \subseteq PlanTools
    PROVE  Turn \in toolsLeft
<1> DEFINE First(i) == Order[i] \in toolsLeft /\ \A j \in 1..(i - 1) : Order[j] \notin toolsLeft
<1>1. Order[1] = "torch" /\ Order[2] = "ncu" /\ Order[3] = "nsys" /\ Order[4] = "massif"
  BY DEF Order
<1>2. \E i \in 1..4 : Order[i] \in toolsLeft
  <2>1. PICK t \in toolsLeft : t \in {"torch", "ncu", "massif", "nsys"}
    BY DEF PlanTools, ComputeTools, ExecutionTools
  <2>2. 1 \in 1..4 /\ 2 \in 1..4 /\ 3 \in 1..4 /\ 4 \in 1..4
    OBVIOUS
  <2>3. t = Order[1] \/ t = Order[2] \/ t = Order[3] \/ t = Order[4]
    BY <1>1, <2>1
  <2>4. QED BY <2>2, <2>3
<1>3. \E i \in 1..4 : First(i)
  <2>1. CASE Order[1] \in toolsLeft
    <3>1. First(1) BY <2>1
    <3>2. QED BY <3>1
  <2>2. CASE Order[1] \notin toolsLeft /\ Order[2] \in toolsLeft
    <3>1. First(2) BY <2>2
    <3>2. QED BY <3>1
  <2>3. CASE Order[1] \notin toolsLeft /\ Order[2] \notin toolsLeft /\ Order[3] \in toolsLeft
    <3>1. First(3) BY <2>3
    <3>2. QED BY <3>1
  <2>4. CASE Order[1] \notin toolsLeft /\ Order[2] \notin toolsLeft /\ Order[3] \notin toolsLeft
    <3>1. First(4) BY <1>2, <2>4
    <3>2. QED BY <3>1
  <2>5. QED BY <2>1, <2>2, <2>3, <2>4
<1>4. (CHOOSE i \in 1..4 : First(i)) \in 1..4 /\ First(CHOOSE i \in 1..4 : First(i))
  <2> HIDE DEF First
  <2> QED BY <1>3
<1>5. QED BY <1>4 DEF Turn

\* The first usable candidate is one (_find_reusable_plan).
LEMMA LeastIsUsable ==
    ASSUME NEW S \in SUBSET (1..3), S # {}
    PROVE  (CHOOSE i \in S : \A j \in S : i <= j) \in S
<1>1. \E i \in S : \A j \in S : i <= j
  <2>1. CASE 1 \in S BY <2>1
  <2>2. CASE 1 \notin S /\ 2 \in S BY <2>2
  <2>3. CASE 1 \notin S /\ 2 \notin S
    <3>1. \A j \in S : j = 3 BY <2>3
    <3>2. PICK x \in S : TRUE OBVIOUS
    <3>3. QED BY <3>1, <3>2
  <2>4. QED BY <2>1, <2>2, <2>3
<1>2. QED BY <1>1

LEMMA PlansInvInit == PlansAssumption /\ PlansInit => PlansInv
<1> SUFFICES ASSUME PlansAssumption, PlansInit PROVE PlansInv
  OBVIOUS
<1>1. \A r \in result.rows, t \in PlanTools : cells[r][t] = BlankCell
  BY DEF PlansInit
<1>2. CellsOK
  BY <1>1 DEF CellsOK, Own, BlankCell
<1>3. DOMAIN planAt = {} /\ DOMAIN chosen = {}
  BY DEF PlansInit
<1>4. QED
  BY <1>2, <1>3 DEF PlansInv, PlansInit, PlansAssumption, PlanTools, ComputeTools, ExecutionTools, WantsOK,
     CompletePlanFills

\* What stays the same when a run only prepares plans.
KeepsCells == UNCHANGED <<result, csvFiles, settled>>

LEMMA CellsKept ==
    ASSUME PlansInv, KeepsCells, planStage' # "new"
    PROVE  /\ result' \in Results /\ result'.tools \subseteq PlanTools
           /\ CellsOK' /\ settled' \subseteq PlanTools /\ CompletePlanFills'
           /\ (planStage' = "new" => settled' = {})
BY DEF PlansInv, KeepsCells, csvFiles, CellsOK, CompletePlanFills, Own, Applies

\* The plan taken for a tool: its turn is over, its plan is there (service.run_posthoc).
LEMMA TakeKeeps ==
    ASSUME PlansInv, planStage = "plans", NEW t, NEW plan, PlanOK(plan), Take(t, plan), wants' = wants
    PROVE  WantsOK' /\ (\A u \in DOMAIN chosen' : PlanOK(chosen'[u])) /\ planStage' # "new"
<1>1. /\ chosen' = [u \in DOMAIN chosen \cup {t} |-> IF u = t THEN plan ELSE chosen[u]]
      /\ toolsLeft' = toolsLeft \ {t}
      /\ planStage' = IF toolsLeft' = {} THEN "merge" ELSE "plans"
  BY DEF Take
<1>2. DOMAIN chosen' = DOMAIN chosen \cup {t}
  BY <1>1
<1>3. ASSUME NEW u \in DOMAIN chosen' PROVE PlanOK(chosen'[u])
  <2>1. CASE u = t
    <3>1. chosen'[u] = plan BY <1>1, <1>2, <2>1
    <3>2. QED BY <3>1
  <2>2. CASE u # t
    <3>1. chosen'[u] = chosen[u] /\ u \in DOMAIN chosen BY <1>1, <1>2, <1>3, <2>2
    <3>2. QED BY <3>1 DEF PlansInv
  <2>3. QED BY <2>1, <2>2
<1>4. WantsOK'
  <2>1. /\ wants.tools \subseteq PlanTools /\ toolsLeft \subseteq PlanTools
        /\ wants.tools \subseteq DOMAIN chosen \cup toolsLeft
    BY DEF PlansInv, WantsOK
  <2>2. CASE toolsLeft' = {}
    BY <1>1, <1>2, <2>1, <2>2 DEF WantsOK
  <2>3. CASE toolsLeft' # {}
    BY <1>1, <1>2, <2>1, <2>3 DEF WantsOK
  <2>4. QED BY <2>2, <2>3
<1>5. QED BY <1>1, <1>3, <1>4

LEMMA GiveUpKeeps ==
    ASSUME GiveUp
    PROVE  WantsOK' /\ (\A u \in DOMAIN chosen' : PlanOK(chosen'[u])) /\ planStage' # "new"
BY DEF GiveUp, WantsOK


\* acprof run (_prepare_runtime, the client's rows).
LEMMA MeasureKeepsPlans ==
    ASSUME PlansAssumption, PlansInv, Measure
    PROVE  PlansInv'
<1> DEFINE grid == Grid(result.rows)
           modes == {r.gpu : r \in result.rows}
<1> DEFINE Does(asked, how, missed) ==
        /\ \A t \in asked : /\ how[t] \in Hows(t) /\ ~Refused(t, how[t], grid)
                            /\ missed[t] \in Misses(Probes(t, how[t], grid, modes))
        /\ LET plans == [k \in {Kind(t) : t \in asked} |->
                           Join({Collected(t, how[t], grid, modes, missed[t]) :
                                    t \in {u \in asked : Kind(u) = k}})]
           IN  /\ planAt' = [p \in {<<"result", k>> : k \in DOMAIN plans} |-> plans[p[2]]]
               /\ cells' = [r \in result.rows |-> [t \in PlanTools |-> Measured(plans, t, r)]]
               /\ named' = {t \in asked : modes \cap ToolModes(t) # {}}
               /\ strategy' = [t \in ExecutionTools |-> IF t \in named' THEN how[t].by ELSE "none"]
<1>1. PICK asked \in SUBSET result.tools : \E how, missed : Does(asked, how, missed)
  <2>1. \E asked \in SUBSET result.tools :
        \E how \in [asked -> UNION {Hows(t) : t \in asked}] :
        \E missed \in [asked -> SUBSET UNION {Probes(t, how[t], grid, modes) : t \in asked}] :
           Does(asked, how, missed)
    BY DEF Measure
  <2> HIDE DEF Does
  <2>2. QED BY <2>1
<1>2. PICK how, missed : Does(asked, how, missed)
  BY <1>1
<1> DEFINE plansOf(k) == {Collected(t, how[t], grid, modes, missed[t]) : t \in {u \in asked : Kind(u) = k}}
           plans == [k \in {Kind(t) : t \in asked} |-> Join(plansOf(k))]
<1>0. /\ planAt' = [p \in {<<"result", k>> : k \in DOMAIN plans} |-> plans[p[2]]]
      /\ cells' = [r \in result.rows |-> [t \in PlanTools |-> Measured(plans, t, r)]]
      /\ named' = {t \in asked : modes \cap ToolModes(t) # {}}
  BY <1>2
<1>3. asked \subseteq PlanTools /\ (\A t \in asked : how[t] \in Hows(t))
  BY <1>2 DEF PlansInv
<1>4. planStage = "new" /\ planStage' = "idle" /\ UNCHANGED <<result, settled, chosen>>
  BY DEF Measure, work
<1>5. ASSUME NEW k PROVE PlanOK(Join(plansOf(k)))
  <2>1. ASSUME NEW p \in plansOf(k) PROVE PlanOK(p)
    <3>1. PICK t \in asked : p = Collected(t, how[t], grid, modes, missed[t])
      BY <2>1
    <3>2. t \in PlanTools /\ how[t] \in Hows(t)
      BY <1>3
    <3>3. QED BY <3>1, <3>2, CollectedIsOK
  <2> HIDE DEF plansOf
  <2>2. QED BY <2>1, JoinIsOK
<1>6. ASSUME NEW p \in DOMAIN planAt' PROVE PlanOK(planAt'[p])
  <2>1. PICK k \in DOMAIN plans : p = <<"result", k>>
    BY <1>0, <1>6
  <2>2. planAt'[p] = plans[k]
    BY <1>0, <2>1
  <2>3. plans[k] = Join(plansOf(k))
    BY <2>1
  <2>4. QED BY <1>5, <2>2, <2>3
<1>7. ASSUME NEW r \in result.rows, NEW t \in PlanTools
      PROVE  Own(Measured(plans, t, r), t, r) /\ (Measured(plans, t, r).is = "value" => t \in named')
  <2>1. CASE Kind(t) \in DOMAIN plans
    <3>1. Measured(plans, t, r) = LookUp(Join(plansOf(Kind(t))), t, r)
      BY <2>1 DEF Measured
    <3>2. Own(Measured(plans, t, r), t, r)
      BY <1>5, <3>1, LookUpIsOwn
    <3>3. ASSUME Measured(plans, t, r).is = "value" PROVE t \in named'
      <4>1. KeyFor(t, r) \in DOMAIN Join(plansOf(Kind(t)))
        BY <3>1, <3>3, FoundIsThere
      <4>2. PICK p \in plansOf(Kind(t)) : KeyFor(t, r) \in DOMAIN p
        <5> HIDE DEF plansOf
        <5> QED BY <4>1 DEF Join
      <4>3. PICK u \in asked : p = Collected(u, how[u], grid, modes, missed[u])
        BY <4>2
      <4>4. KeyFor(t, r) \in {u} \X (modes \cap ToolModes(u)) \X CasesFor(u, grid)
        BY <4>2, <4>3 DEF Collected
      <4>5. KeyFor(t, r)[1] = t
        BY DEF KeyFor
      <4>6. t = u /\ modes \cap ToolModes(u) # {}
        BY <4>4, <4>5
      <4>7. QED BY <1>0, <4>3, <4>6
    <3>4. QED BY <3>2, <3>3
  <2>2. CASE Kind(t) \notin DOMAIN plans
    <3>1. Measured(plans, t, r).is # "value"
      BY <2>2 DEF Measured, Failed, BlankCell
    <3>2. QED BY <3>1 DEF Own
  <2>3. QED BY <2>1, <2>2
<1>8. CellsOK'
  <2>1. SUFFICES ASSUME NEW r \in result.rows, NEW t \in PlanTools
                 PROVE  Own(cells'[r][t], t, r) /\ (cells'[r][t].is = "value" => t \in named')
    BY <1>4 DEF CellsOK, Own, Applies
  <2>2. cells'[r][t] = Measured(plans, t, r)
    <3> HIDE DEF plans
    <3> QED BY <1>0
  <2>3. QED BY <1>7, <2>2
<1>9. settled' = {} /\ chosen' = chosen
  BY <1>4 DEF PlansInv
<1>10. QED
  BY <1>4, <1>6, <1>8, <1>9 DEF PlansInv, WantsOK, CompletePlanFills

\* service.run_posthoc: what is asked for and not complete.
LEMMA ProfileKeepsPlans ==
    ASSUME PlansAssumption, PlansInv, Profile
    PROVE  PlansInv'
<1>1. /\ planStage' = "plans" /\ planStage = "idle" /\ chosen' = <<>> /\ KeepsCells /\ planAt' = planAt
      /\ toolsLeft' # {} /\ toolsLeft' \subseteq result.tools /\ wants'.tools = toolsLeft'
  BY DEF Profile, KeepsCells
<1>2. DOMAIN chosen' = {}
  BY <1>1
<1>3. WantsOK'
  BY <1>1 DEF WantsOK, PlansInv
<1>4. QED BY <1>1, <1>2, <1>3, CellsKept DEF PlansInv

LEMMA ReuseKeepsPlans ==
    ASSUME PlansInv, Reuse
    PROVE  PlansInv'
<1> DEFINE i == CHOOSE j \in Usable(Turn) : \A h \in Usable(Turn) : j <= h
           place == Candidates(Turn)[i]
<1>1. /\ planStage = "plans" /\ Usable(Turn) # {} /\ Take(Turn, planAt[place])
      /\ KeepsCells /\ planAt' = planAt /\ wants' = wants
  BY DEF Reuse, KeepsCells
<1>2. Usable(Turn) \in SUBSET (1..3)
  BY DEF Usable
<1>3. i \in Usable(Turn)
  BY <1>1, <1>2, LeastIsUsable
<1>4. place \in DOMAIN planAt
  BY <1>3 DEF Usable
<1>5. PlanOK(planAt[place])
  BY <1>4 DEF PlansInv
<1>6. WantsOK' /\ (\A u \in DOMAIN chosen' : PlanOK(chosen'[u])) /\ planStage' # "new"
  BY <1>1, <1>5, TakeKeeps
<1>7. QED BY <1>1, <1>6, CellsKept DEF PlansInv

LEMMA EndKeepsPlans ==
    ASSUME PlansInv, ValidationFails \/ Interrupted
    PROVE  PlansInv'
<1>1. GiveUp /\ KeepsCells /\ planAt' = planAt
  BY DEF ValidationFails, Interrupted, KeepsCells
<1>2. QED BY <1>1, GiveUpKeeps, CellsKept DEF PlansInv

\* _collect_compute_plan, _collect_execution_plan.
LEMMA CollectPlanKeepsPlans ==
    ASSUME PlansInv, CollectPlan
    PROVE  PlansInv'
<1> DEFINE t == Turn
           rows == {r \in result.rows : Applies(t, r)}
           modes == {r.gpu : r \in rows}
           place == <<t, Kind(t)>>
<1>1. planStage = "plans" /\ KeepsCells
  BY DEF CollectPlan, Collecting, KeepsCells
<1>2. PICK how \in Hows(t) :
        IF Refused(t, how, Grid(rows)) THEN GiveUp /\ UNCHANGED planAt
        ELSE \E missed \in Misses(Probes(t, how, Grid(rows), modes)) :
               LET plan == Collected(t, how, Grid(rows), modes, missed)
               IN  /\ planAt' = [p \in DOMAIN planAt \cup {place} |-> IF p = place THEN plan ELSE planAt[p]]
                   /\ Take(t, plan)
                   /\ UNCHANGED wants
  BY DEF CollectPlan
<1>3. t \in PlanTools
  BY <1>1, TurnIsLeft DEF PlansInv, WantsOK
<1>4. CASE Refused(t, how, Grid(rows))
  <2>1. GiveUp /\ planAt' = planAt
    BY <1>2, <1>4
  <2>2. QED BY <1>1, <2>1, GiveUpKeeps, CellsKept DEF PlansInv
<1>5. CASE ~Refused(t, how, Grid(rows))
  <2>1. PICK missed :
          LET plan == Collected(t, how, Grid(rows), modes, missed)
          IN  /\ planAt' = [p \in DOMAIN planAt \cup {place} |-> IF p = place THEN plan ELSE planAt[p]]
              /\ Take(t, plan)
              /\ UNCHANGED wants
    BY <1>2, <1>5
  <2> DEFINE plan == Collected(t, how, Grid(rows), modes, missed)
  <2>2. PlanOK(plan)
    BY <1>3, CollectedIsOK
  <2>3. /\ planAt' = [p \in DOMAIN planAt \cup {place} |-> IF p = place THEN plan ELSE planAt[p]]
        /\ Take(t, plan) /\ wants' = wants
    BY <2>1
  <2> HIDE DEF plan, t, place
  <2>4. ASSUME NEW p \in DOMAIN planAt' PROVE PlanOK(planAt'[p])
    <3>1. CASE p = place
      BY <2>2, <2>3, <3>1
    <3>2. CASE p # place
      <4>1. p \in DOMAIN planAt /\ planAt'[p] = planAt[p]
        BY <2>3, <2>4, <3>2
      <4>2. QED BY <4>1 DEF PlansInv
    <3>3. QED BY <3>1, <3>2
  <2>5. WantsOK' /\ (\A u \in DOMAIN chosen' : PlanOK(chosen'[u])) /\ planStage' # "new"
    BY <1>1, <2>2, <2>3, TakeKeeps
  <2>6. QED BY <1>1, <2>4, <2>5, CellsKept DEF PlansInv
<1>6. QED BY <1>4, <1>5

\* merge_compute_plans, merge_execution_plans into the workspace.
LEMMA MergeKeepsPlans ==
    ASSUME PlansInv, MergePlans
    PROVE  PlansInv'
<1> DEFINE places == {<<"work", Kind(t)>> : t \in DOMAIN chosen}
<1>1. /\ planStage = "merge" /\ planStage' = "fill" /\ KeepsCells /\ UNCHANGED work
      /\ planAt' = [p \in DOMAIN planAt \cup places |-> IF p \in places THEN Merged(p[2]) ELSE planAt[p]]
  BY DEF MergePlans, KeepsCells
<1> HIDE DEF places
<1>2. ASSUME NEW p \in DOMAIN planAt' PROVE PlanOK(planAt'[p])
  <2>1. CASE p \in places
    <3>1. planAt'[p] = Merged(p[2]) BY <1>1, <2>1
    <3>2. PlanOK(Merged(p[2])) BY MergedIsOK DEF PlansInv
    <3>3. QED BY <3>1, <3>2
  <2>2. CASE p \notin places
    <3>1. p \in DOMAIN planAt /\ planAt'[p] = planAt[p] BY <1>1, <1>2, <2>2
    <3>2. QED BY <3>1 DEF PlansInv
  <2>3. QED BY <2>1, <2>2
<1>3. WantsOK'
  BY <1>1 DEF WantsOK, PlansInv, work
<1>4. \A u \in DOMAIN chosen' : PlanOK(chosen'[u])
  BY <1>1 DEF PlansInv, work
<1>5. QED BY <1>1, <1>2, <1>3, <1>4, CellsKept DEF PlansInv

\* backfill_rows, update_static_meta: complete cells are kept unless forced.
LEMMA FillKeepsPlans ==
    ASSUME PlansAssumption, PlansInv, Fill
    PROVE  PlansInv'
<1> DEFINE Refilled(r, t) == t \in wants.tools /\ Applies(t, r) /\ (wants.force \/ ~CellComplete(t, r))
<1>1. /\ planStage = "fill" /\ GiveUp /\ result' = result /\ planAt' = planAt
      /\ cells' = [r \in result.rows |-> [t \in PlanTools |->
                      IF Refilled(r, t) THEN LookUp(Merged(Kind(t)), t, r) ELSE cells[r][t]]]
      /\ named' = named \cup wants.tools
      /\ settled' = (settled \ wants.tools) \cup {t \in wants.tools : PlanCovers(chosen[t], t)}
  BY DEF Fill
<1>2. wants.tools \subseteq PlanTools /\ wants.tools \subseteq DOMAIN chosen
  BY <1>1 DEF PlansInv, WantsOK
<1>3. ASSUME NEW r \in result.rows, NEW t \in PlanTools
      PROVE  cells'[r][t] = IF Refilled(r, t) THEN LookUp(Merged(Kind(t)), t, r) ELSE cells[r][t]
  <2> HIDE DEF Refilled
  <2> QED BY <1>1
<1>4. CellsOK'
  <2>1. SUFFICES ASSUME NEW r \in result.rows, NEW t \in PlanTools
                 PROVE  Own(cells'[r][t], t, r) /\ (cells'[r][t].is = "value" => t \in named')
    BY <1>1 DEF CellsOK, Own, Applies
  <2>2. CASE Refilled(r, t)
    <3>1. cells'[r][t] = LookUp(Merged(Kind(t)), t, r)
      BY <1>3, <2>2
    <3>2. PlanOK(Merged(Kind(t)))
      BY MergedIsOK DEF PlansInv
    <3>3. Own(cells'[r][t], t, r)
      BY <3>1, <3>2, LookUpIsOwn
    <3>4. QED BY <1>1, <2>2, <3>3
  <2>3. CASE ~Refilled(r, t)
    <3>1. cells'[r][t] = cells[r][t]
      BY <1>3, <2>3
    <3>2. Own(cells[r][t], t, r) /\ (cells[r][t].is = "value" => t \in named)
      BY DEF PlansInv, CellsOK
    <3>3. QED BY <1>1, <3>1, <3>2
  <2>4. QED BY <2>2, <2>3
<1>5. ASSUME NEW t \in settled', NEW r \in result.rows, Applies(t, r)
      PROVE  cells'[r][t].is = "value"
  <2>1. t \in PlanTools
    BY <1>1, <1>2 DEF PlansInv
  <2>2. CASE t \in settled /\ t \notin wants.tools
    <3>1. cells'[r][t] = cells[r][t]
      BY <1>3, <2>1, <2>2
    <3>2. QED BY <1>5, <2>2, <3>1 DEF PlansInv, CompletePlanFills
  <2>3. CASE t \in wants.tools /\ PlanCovers(chosen[t], t)
    <3>1. CASE Refilled(r, t)
      <4>1. LookUp(chosen[t], t, r).is = "value"
        BY <1>5, <2>3, CoveredIsFound DEF PlansInv
      <4>2. LookUp(Merged(Kind(t)), t, r) = LookUp(chosen[t], t, r)
        BY <1>2, <2>3, <4>1, MergedHasOwn
      <4>3. QED BY <1>3, <2>1, <3>1, <4>1, <4>2
    <3>2. CASE ~Refilled(r, t)
      <4>1. CellComplete(t, r)
        BY <1>5, <2>3, <3>2
      <4>2. QED BY <1>3, <2>1, <3>2, <4>1 DEF CellComplete
    <3>3. QED BY <3>1, <3>2
  <2>4. QED BY <1>1, <1>5, <2>2, <2>3
<1>6. CompletePlanFills'
  BY <1>1, <1>5 DEF CompletePlanFills, Applies
<1>7. settled' \subseteq PlanTools
  BY <1>1, <1>2 DEF PlansInv
<1>8. QED BY <1>1, <1>4, <1>6, <1>7, GiveUpKeeps DEF PlansInv

LEMMA PlansInvNext == PlansAssumption /\ PlansInv /\ [PlansNext]_plansVars => PlansInv'
<1> SUFFICES ASSUME PlansAssumption, PlansInv, [PlansNext]_plansVars PROVE PlansInv'
  OBVIOUS
<1>1. CASE Measure BY <1>1, MeasureKeepsPlans
<1>2. CASE Profile BY <1>2, ProfileKeepsPlans
<1>3. CASE Reuse BY <1>3, ReuseKeepsPlans
<1>4. CASE ValidationFails \/ Interrupted BY <1>4, EndKeepsPlans
<1>5. CASE CollectPlan BY <1>5, CollectPlanKeepsPlans
<1>6. CASE MergePlans BY <1>6, MergeKeepsPlans
<1>7. CASE Fill BY <1>7, FillKeepsPlans
<1>8. CASE UNCHANGED plansVars
  BY <1>8 DEF plansVars, PlansInv, WantsOK, CellsOK, CompletePlanFills, Own, Applies
<1>9. QED BY <1>1, <1>2, <1>3, <1>4, <1>5, <1>6, <1>7, <1>8 DEF PlansNext

\* The derived CSV shows of a plan on disk only what was measured for the
\* row (backfill_compute_profile_csv).
LEMMA DerivedIsOwn ==
    ASSUME PlansInv, NEW p \in DOMAIN planAt, NEW summary, NEW r \in result.rows, NEW t \in PlanTools
    PROVE  Own(DerivedCell([k \in {"compute"} |-> planAt[p]], summary, t, r), t, r)
<1> DEFINE plans == [k \in {"compute"} |-> planAt[p]]
<1>1. CASE t \in ExecutionTools
  BY <1>1 DEF DerivedCell, PlansInv, CellsOK
<1>2. CASE t \notin ExecutionTools /\ t = "ncu" /\ r.gpu = "on" /\ summary # {}
  <2>1. DerivedCell(plans, summary, t, r) = SummaryCell(summary, r)
    BY <1>2 DEF DerivedCell
  <2>2. Applies("ncu", r)
    BY <1>2 DEF Applies, ToolModes
  <2>3. SummaryCell(summary, r) = Failed \/ SummaryCell(summary, r) = Value(AnyCase, "on", r.scale, "full")
    BY DEF SummaryCell
  <2>4. QED BY <1>2, <2>1, <2>2, <2>3 DEF Own, Value, Failed
<1>3. CASE t \notin ExecutionTools /\ ~(t = "ncu" /\ r.gpu = "on" /\ summary # {})
  <2>1. DerivedCell(plans, summary, t, r) = Measured(plans, t, r)
    BY <1>3 DEF DerivedCell
  <2>2. Kind(t) = "compute"
    BY <1>3 DEF Kind, PlanTools
  <2>3. DOMAIN plans = {"compute"} /\ plans["compute"] = planAt[p]
    OBVIOUS
  <2> HIDE DEF plans
  <2>4. Measured(plans, t, r) = LookUp(planAt[p], t, r)
    BY <2>2, <2>3 DEF Measured
  <2>5. PlanOK(planAt[p])
    BY DEF PlansInv
  <2>6. Own(DerivedCell(plans, summary, t, r), t, r)
    BY <2>1, <2>4, <2>5, LookUpIsOwn
  <2>7. QED BY <2>6 DEF plans
<1>4. QED BY <1>1, <1>2, <1>3

\* A row shows a profile that was measured for it, and every profile that a
\* complete plan has, whatever was reused, sampled, merged, forced or cut.
THEOREM RowsShowTheirProfiles == PlansSpec => []ProfilesAreTheRows
<1>1. PlansInit => PlansInv
  BY PlansInvInit, PlansAssumption
<1>2. PlansInv /\ [PlansNext]_plansVars => PlansInv'
  BY PlansInvNext, PlansAssumption
<1>3. PlansInv => ProfilesAreTheRows
  BY DerivedIsOwn DEF PlansInv, CellsOK, ProfilesAreTheRows, CellsAreTheirRows
<1>4. QED BY <1>1, <1>2, <1>3, PTL DEF PlansSpec
=============================================================================
