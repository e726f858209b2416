------------------------------ MODULE CaseRunner ------------------------------
(***************************************************************************)
(* One case after the other, from the container's start to its checkpoint: *)
(* run_single_case, _finalize_case and _write_case_error_csv of            *)
(* acprof/host/orchestrator.py with the client process they run            *)
(* (acprof/host/client.py) and the capture beside it.                      *)
(*                                                                         *)
(* The orchestrator, the client, tcpdump and the container fail on their   *)
(* own: the kernel kills the container when its memory runs out, requests  *)
(* time out, the user interrupts.  What a window of the client does with   *)
(* its monitors is MonitorWindow; what becomes of the CSV is RunRecovery.  *)
(***************************************************************************)
EXTENDS Naturals, FiniteSets

CONSTANTS
    NumCases, NumRows,  \* cases of the plan; planned rows of a case
    Modes,              \* profiling modes a run may have: TRUE is full, FALSE basic
    MaxCaseFaults           \* bound: failures other than OOM kills and timeouts

ASSUME CaseAssumption ==
    NumCases \in Nat \ {0} /\ NumRows \in Nat \ {0} /\ Modes \subseteq BOOLEAN /\ MaxCaseFaults \in Nat

VARIABLES
    full,           \* profiling_mode of the run
    case, stage,    \* the case and where run_single_case is
    box,            \* the container
    tcp, seen,      \* tcpdump, and the rows whose requests it recorded
    cl, row, rc,    \* the client, its next row, its exit code
    csvRows, stray, \* the CSV; a row of no planned key in it
    measured,       \* history: rows the client wrote with a result
    incomplete,     \* case_incomplete
    raised,         \* the exception on its way
    events,         \* case_finished events per case
    oomStruck,      \* history: the OOM killer struck while the client measured
    caseFaults

caseVars == <<full, case, stage, box, tcp, seen, cl, row, rc, csvRows, stray, measured,
            incomplete, raised, events, oomStruck, caseFaults>>
capture == <<tcp, seen>>
client == <<cl, row, rc>>
csv == <<csvRows, stray, measured>>
verdict == <<incomplete, raised>>
ledger == <<events, oomStruck>>

Cases == 1..NumCases
Rows == 1..NumRows
Stages == {"start", "capture", "client", "classify", "stopCapture", "merge",
        "complete", "cleanup", "finish", "done", "aborted"}
RowState == [st : {"missing", "ok", "error"}, oom : BOOLEAN, packet : BOOLEAN]
Unwritten == [st |-> "missing", oom |-> FALSE, packet |-> FALSE]
NoRows == [r \in Rows |-> Unwritten]

CaseInit ==
    /\ full \in Modes
    /\ case = 1 /\ stage = "start" /\ box = "absent"
    /\ tcp = "off" /\ seen = {}
    /\ cl = "off" /\ row = 1 /\ rc = "none"
    /\ csvRows = NoRows /\ stray = FALSE /\ measured = {}
    /\ incomplete = FALSE /\ raised = "none"
    /\ events = [c \in Cases |-> 0] /\ oomStruck = FALSE /\ caseFaults = 0

CaseFault == caseFaults < MaxCaseFaults /\ caseFaults' = caseFaults + 1
Finished == events' = [events EXCEPT ![case] = @ + 1]
Raise(what) == raised' = what /\ stage' = "cleanup"

\* Mutant: the rows that exist are not read first.
ErrorRows_Overwrite(oom) == [r \in Rows |-> [Unwritten EXCEPT !.st = "error", !.oom = oom]]

\* _write_case_error_csv: existing rows stay, failed ones get the OOM context
\* when there is one, and every other planned key becomes an error row.
ErrorRows(oom) ==
    [r \in Rows |->
        CASE csvRows[r].st = "ok" -> csvRows[r]
          [] csvRows[r].st = "error" -> [csvRows[r] EXCEPT !.oom = @ \/ oom]
          [] OTHER -> [Unwritten EXCEPT !.st = "error", !.oom = oom]]
Completed == {r \in Rows : csvRows[r].st = "ok"}
-----------------------------------------------------------------------------
(* The container and the capture start                                     *)

StartSession ==
    /\ stage = "start" /\ box = "absent"
    /\ box' = "up" /\ stage' = "capture"
    /\ UNCHANGED <<case, capture, client, csv, verdict, ledger, caseFaults>>

\* RuntimeError: docker run failed or the server never became ready (its own
\* OOM kill included); the container is gone, the whole case is error rows.
StartFails ==
    /\ stage = "start"
    /\ csvRows' = ErrorRows(FALSE) /\ stage' = "finish" /\ Finished
    /\ UNCHANGED <<case, box, capture, client, stray, measured, verdict, caseFaults, oomStruck>>

\* ContainerCleanupError: debris of this or another run could not be removed;
\* or a cancellation.
StartRaises ==
    /\ stage = "start" /\ CaseFault
    /\ \/ raised' = "cleanup" /\ box' \in {"absent", "down"}
       \/ raised' = "cancelled" /\ UNCHANGED box
    /\ stage' = "aborted" /\ Finished
    /\ UNCHANGED <<case, capture, client, csv, incomplete, oomStruck>>

StartCapture ==
    /\ stage = "capture"
    /\ \/ ~full /\ stage' = "client" /\ UNCHANGED <<tcp, raised, caseFaults>>
       \/ full /\ tcp' = "on" /\ stage' = "client" /\ UNCHANGED <<raised, caseFaults>>
       \/ full /\ CaseFault /\ Raise("error") /\ tcp' \in {"off", "ended"}
    /\ cl' = IF stage' = "client" THEN "ready" ELSE "off"
    /\ UNCHANGED <<case, box, seen, row, rc, csv, incomplete, ledger>>
-----------------------------------------------------------------------------
(* The client process                                                      *)

Exits(code) == cl' = "off" /\ rc' = code /\ stage' = "classify"

\* ClientRunner.main asks /ready once more; if that fails it writes one error
\* row without a measurement key and exits with code 0.
ClientReady ==
    /\ cl = "ready"
    /\ \/ box = "up" /\ cl' = "open" /\ UNCHANGED <<stage, rc, stray>>
       \/ box # "up" /\ stray' = TRUE /\ Exits("ok")
    /\ UNCHANGED <<case, box, capture, row, csvRows, measured, verdict, ledger, caseFaults>>

\* A window opens: the calibrating request of its scale, then the monitors, of
\* which MIPS must find the container's process.
OpenWindow ==
    /\ cl = "open" /\ row \in Rows
    /\ \/ /\ box = "up" \/ ~full
          /\ cl' = "send" /\ UNCHANGED <<stage, rc, caseFaults>>
       \/ /\ box # "up" /\ UNCHANGED caseFaults
          /\ \E code \in {"failed"} \cup (IF full THEN {"mips"} ELSE {}) : Exits(code)
       \/ UNCHANGED caseFaults /\ Exits("timeout")
       \/ CaseFault /\ \E code \in {"mips", "failed"} : Exits(code)
    /\ UNCHANGED <<case, box, capture, row, csv, verdict, ledger>>

\* The requests succeed and the row is appended and synced.
WindowOk ==
    /\ cl = "send" /\ box = "up"
    /\ csvRows' = [csvRows EXCEPT ![row].st = "ok"]
    /\ measured' = measured \cup {row}
    /\ seen' = IF tcp = "on" THEN seen \cup {row} ELSE seen
    /\ cl' = "open" /\ row' = row + 1
    /\ UNCHANGED <<case, stage, box, tcp, rc, stray, verdict, ledger, caseFaults>>

\* A request is refused or answered with an error: an error row, and on.
WindowFails ==
    /\ cl = "send"
    /\ IF box = "up" THEN CaseFault ELSE UNCHANGED caseFaults
    /\ csvRows' = [csvRows EXCEPT ![row].st = "error"]
    /\ seen' \in {seen} \cup (IF tcp = "on" THEN {seen \cup {row}} ELSE {})
    /\ cl' = "open" /\ row' = row + 1
    /\ UNCHANGED <<case, stage, box, tcp, rc, stray, measured, verdict, ledger>>

\* RequestTimeoutAbort, or a monitor that cannot be stopped; no row.
WindowAborts ==
    /\ cl = "send"
    /\ \/ Exits("timeout") /\ UNCHANGED caseFaults
       \/ box # "up" /\ UNCHANGED caseFaults /\ \E code \in {"mips", "failed"} : Exits(code)
       \/ CaseFault /\ \E code \in {"mips", "failed"} : Exits(code)
    /\ UNCHANGED <<case, box, capture, row, csv, verdict, ledger>>

ClientEnds ==
    /\ cl = "open" /\ row \notin Rows
    /\ Exits("ok")
    /\ UNCHANGED <<case, box, capture, row, csv, verdict, ledger, caseFaults>>
-----------------------------------------------------------------------------
(* What surrounds them                                                     *)

OomKill ==
    /\ box = "up" /\ box' = "oom"
    /\ oomStruck' = (oomStruck \/ cl \in {"open", "send"})
    /\ UNCHANGED <<case, stage, capture, client, csv, verdict, events, caseFaults>>

ServerCrashes ==
    /\ box = "up" /\ CaseFault /\ box' = "down"
    /\ UNCHANGED <<case, stage, capture, client, csv, verdict, ledger>>

CaptureDies ==
    /\ tcp = "on" /\ CaseFault /\ tcp' = "ended"
    /\ UNCHANGED <<case, stage, box, seen, client, csv, verdict, ledger>>

\* SIGINT or SIGTERM: the client is killed with it.
Interrupt ==
    /\ stage \in {"capture", "client", "classify", "stopCapture", "merge", "complete"}
    /\ CaseFault /\ Raise("cancelled")
    /\ cl' = "off"
    /\ UNCHANGED <<case, box, capture, row, rc, csv, incomplete, ledger>>
-----------------------------------------------------------------------------
(* After the client                                                        *)

\* Exit code 0 is not questioned.  Docker's OOMKilled comes before every other
\* exit code, unless docker does not answer; then a timeout; the rest raises.
Classify ==
    /\ stage = "classify"
    /\ \/ rc = "ok" /\ stage' = "stopCapture" /\ UNCHANGED <<csvRows, incomplete, raised, caseFaults>>
       \/ /\ rc # "ok" /\ box = "oom"
          /\ csvRows' = ErrorRows(TRUE) /\ incomplete' = TRUE /\ stage' = "stopCapture"
          /\ UNCHANGED <<raised, caseFaults>>
       \/ /\ rc = "timeout"
          /\ IF box = "oom" THEN CaseFault ELSE UNCHANGED caseFaults
          /\ csvRows' = ErrorRows(FALSE) /\ incomplete' = TRUE /\ stage' = "stopCapture"
          /\ UNCHANGED raised
       \/ /\ rc \in {"mips", "failed"}
          /\ IF box = "oom" THEN CaseFault ELSE UNCHANGED caseFaults
          /\ Raise("error") /\ UNCHANGED <<csvRows, incomplete>>
    /\ UNCHANGED <<case, box, capture, client, stray, measured, ledger>>

\* _finalize_case: the capture ends; a case that measured nothing before it
\* broke off has nothing to merge.
StopCapture ==
    /\ stage = "stopCapture"
    /\ \/ /\ tcp' = IF tcp = "on" THEN "ended" ELSE tcp
          /\ stage' = CASE ~full -> "cleanup"
                     [] full /\ incomplete /\ Completed = {} -> "cleanup"
                     [] OTHER -> "merge"
          /\ UNCHANGED <<raised, caseFaults>>
       \/ tcp = "on" /\ CaseFault /\ Raise("error") /\ UNCHANGED tcp
    /\ UNCHANGED <<case, box, seen, client, csv, incomplete, ledger>>

\* The pcap is parsed and merged into the CSV; without a record it raises.
MergePackets ==
    /\ stage = "merge"
    /\ \/ /\ seen # {}
          /\ csvRows' = [r \in Rows |-> [csvRows[r] EXCEPT !.packet = r \in seen]]
          /\ stage' = "complete" /\ UNCHANGED <<raised, caseFaults>>
       \/ seen = {} /\ Raise("error") /\ UNCHANGED <<csvRows, caseFaults>>
       \/ CaseFault /\ Raise("error") /\ UNCHANGED csvRows
    /\ UNCHANGED <<case, box, capture, client, stray, measured, incomplete, ledger>>

\* Mutant: the error rows of a broken case are not excused.
NeedsPacket_Everywhere(r) == csvRows[r].st # "missing"

\* Rows that must have a packet latency.
NeedsPacket(r) == csvRows[r].st = "ok" \/ (csvRows[r].st = "error" /\ ~incomplete)

\* Packet latencies must be complete, idle power stable.
CheckComplete ==
    /\ stage = "complete"
    /\ \/ /\ \A r \in Rows : NeedsPacket(r) => csvRows[r].packet
          /\ ~stray
          /\ stage' = "cleanup" /\ UNCHANGED <<raised, caseFaults>>
       \/ /\ stray \/ \E r \in Rows : NeedsPacket(r) /\ ~csvRows[r].packet
          /\ Raise("error") /\ UNCHANGED caseFaults
       \/ CaseFault /\ Raise("error")
    /\ UNCHANGED <<case, box, capture, client, csv, incomplete, ledger>>

\* Mutant: a capture that cannot be stopped keeps the container alive.
Cleanup_OneTry ==
    /\ stage = "cleanup"
    /\ \/ /\ tcp' = IF tcp = "on" THEN "ended" ELSE tcp
          /\ box' = "absent" /\ UNCHANGED <<raised, caseFaults>>
          /\ stage' = IF raised = "none" THEN "finish" ELSE "aborted"
       \/ tcp = "on" /\ CaseFault /\ raised' = "error" /\ stage' = "aborted" /\ UNCHANGED <<tcp, box>>
    /\ Finished
    /\ UNCHANGED <<case, seen, client, csv, incomplete, oomStruck>>

\* The finally clause: the capture is stopped if it runs, the container in any
\* case; what fails here replaces the exception and stops the matrix.
Cleanup ==
    /\ stage = "cleanup"
    /\ \/ /\ tcp' = IF tcp = "on" THEN "ended" ELSE tcp
          /\ box' = "absent" /\ UNCHANGED <<raised, caseFaults>>
          /\ stage' = IF raised = "none" THEN "finish" ELSE "aborted"
       \/ /\ tcp = "on" /\ CaseFault /\ UNCHANGED tcp
          /\ \E what \in {"error", "cancelled"} : raised' = what
          /\ box' = "absent" /\ stage' = "aborted"
       \/ /\ CaseFault
          /\ tcp' \in IF tcp = "on" THEN {"on", "ended"} ELSE {tcp}
          /\ \E what \in {"cleanup", "cancelled"} : raised' = what
          /\ UNCHANGED box /\ stage' = "aborted"
    /\ Finished
    /\ UNCHANGED <<case, seen, client, csv, incomplete, oomStruck>>

\* finish_case: the CSV has exactly the planned rows; the next case begins
\* with what prepare_case leaves, an empty one.
FinishCase ==
    /\ stage = "finish"
    /\ IF stray \/ \E r \in Rows : csvRows[r].st = "missing"
       THEN /\ stage' = "aborted" /\ raised' = "error"
            /\ UNCHANGED <<case, capture, client, csv, incomplete>>
       ELSE /\ stage' = IF case = NumCases THEN "done" ELSE "start"
            /\ case' = IF case = NumCases THEN case ELSE case + 1
            /\ tcp' = "off" /\ seen' = {}
            /\ cl' = "off" /\ row' = 1 /\ rc' = "none"
            /\ csvRows' = NoRows /\ stray' = FALSE /\ measured' = {}
            /\ incomplete' = FALSE /\ UNCHANGED raised
    /\ oomStruck' = (oomStruck /\ case' = case)
    /\ UNCHANGED <<box, events, caseFaults>>

Step ==
    \/ StartSession \/ StartFails \/ StartRaises \/ StartCapture
    \/ ClientReady \/ OpenWindow \/ WindowOk \/ WindowFails \/ WindowAborts \/ ClientEnds
    \/ OomKill \/ ServerCrashes \/ CaptureDies \/ Interrupt
    \/ Classify \/ StopCapture \/ MergePackets \/ CheckComplete \/ Cleanup \/ FinishCase

CaseNext == Step /\ UNCHANGED full

CaseSpec == CaseInit /\ [][CaseNext]_caseVars
-----------------------------------------------------------------------------
\* Every variable keeps its type; the client lives only while the orchestrator
\* waits for it, and the capture only beside a session.
CaseTypeOK ==
    /\ full \in Modes /\ case \in Cases /\ stage \in Stages
    /\ box \in {"absent", "up", "oom", "down"}
    /\ tcp \in {"off", "on", "ended"} /\ seen \subseteq Rows
    /\ cl \in {"off", "ready", "open", "send"} /\ row \in 1..(NumRows + 1)
    /\ rc \in {"none", "ok", "timeout", "mips", "failed"}
    /\ csvRows \in [Rows -> RowState] /\ stray \in BOOLEAN /\ measured \subseteq Rows
    /\ incomplete \in BOOLEAN
    /\ raised \in {"none", "error", "cleanup", "cancelled"}
    /\ events \in [Cases -> 0..1] /\ caseFaults \in 0..MaxCaseFaults /\ oomStruck \in BOOLEAN
    /\ cl # "off" <=> stage = "client"

\* A case is accepted only with a CSV that tells the truth: every planned row is
\* there, those with a result are those the client measured, whatever broke the
\* case off afterwards, and in full mode each of them has its packet latency.
AcceptedHonest ==
    [][stage = "finish" /\ stage' # "aborted" =>
         /\ ~stray
         /\ \A r \in Rows :
              /\ csvRows[r].st # "missing"
              /\ (csvRows[r].st = "ok") <=> (r \in measured)
              /\ full /\ csvRows[r].st = "ok" => csvRows[r].packet]_caseVars

\* A case begins, returns or ends the matrix with nothing of its own or of an
\* earlier case alive; after an abort a container can be left only by a failed
\* or interrupted removal.  However a case ended, the user interface heard of it
\* exactly once.  Types are kept.
NothingLeft ==
    /\ CaseTypeOK
    /\ stage \in {"start", "finish", "done"} => box = "absent" /\ tcp # "on" /\ cl = "off"
    /\ stage = "aborted" /\ box # "absent" => raised \in {"cleanup", "cancelled"}
    /\ \A c \in Cases :
         events[c] = IF c < case \/ (c = case /\ stage \in {"finish", "done", "aborted"}) THEN 1 ELSE 0

\* An OOM kill or a timeout that the orchestrator has recognised never ends the
\* matrix by itself.
BrokenCaseContinues == incomplete /\ caseFaults = 0 => raised = "none"

\* Every way out of a case cleans up, one broken case is not the end of all, and
\* what is accepted of a case is what was measured.
CasesEndWell == [](NothingLeft /\ BrokenCaseContinues) /\ AcceptedHonest

\* The documentation's promise for the OOM killer: when it kills the container
\* while the client measures, and nothing else fails, every row the case loses
\* says so.
RuntimeOomReported ==
    caseFaults = 0 /\ oomStruck /\ stage = "finish" =>
        \A r \in Rows : csvRows[r].st = "error" => csvRows[r].oom
=============================================================================
