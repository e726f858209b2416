----------------------------- MODULE MCPreparing ------------------------------
(* Which cases of the matrix can start at all, and whether an experiment that *)
(* is stopped comes to its end.  The two share no state: part says which is   *)
(* at work.                                                                   *)
EXTENDS StartupPruning, TLC

CONSTANTS p1, u1, NoProc

VARIABLES
    part,
    record, frozen, planned, rows, atWork, requests, merged, saved, temporary,
    measuring, locked, place, memory, attempt, identity, case,
    tried, evidence, troubles, changes

\* One process goes on resuming an experiment of two cases, the second inferred.
OneProc == {p1}
OneProcUser == [p \in {p1} |-> u1]
Recovery == INSTANCE RunRecovery WITH
    Procs <- OneProc, UserOf <- OneProcUser, NumCases <- 2, Inferred <- {2}, Idents <- {1},
    MaxAttempts <- 4, MaxFaults <- 3, MaxEdits <- 1,
    rec <- record, meta <- frozen, plan <- planned, csv <- rows, work <- atWork, kept <- requests,
    final <- merged, backup <- saved, debris <- temporary, measLock <- measuring, dirLock <- locked,
    pc <- place, mem <- memory, att <- attempt, ident <- identity, idx <- case,
    attempts <- tried, produced <- evidence, faults <- troubles, edits <- changes

recoveryVars == <<record, frozen, planned, rows, atWork, requests, merged, saved, temporary,
                  measuring, locked, place, memory, attempt, identity, case,
                  tried, evidence, troubles, changes>>

\* Two CPU counts, so that every inferred memory is inferred for a CPU count
\* nobody probed; two GPU modes, whose evidence must not be mixed.
TwoMems == {2, 4}
TwoGpuModes == <<"off", "on">>
OrderOfTwo ==
    <<<<1, 4, "on">>, <<2, 2, "off">>, <<1, 2, "on">>, <<1, 4, "off">>,
      <<2, 4, "on">>, <<1, 2, "off">>, <<2, 2, "on">>, <<2, 4, "off">>>>
-----------------------------------------------------------------------------
PreparingInit ==
    /\ part \in {"resuming", "pruning"}
    /\ Recovery!Init /\ Init

PreparingNext ==
    /\ UNCHANGED part
    /\ \/ part = "resuming" /\ Recovery!Next /\ UNCHANGED vars
       \/ part = "pruning" /\ Next /\ UNCHANGED recoveryVars

\* Recovery!Fairness and PruningFairness, each where its part is at work.
PreparingSpec ==
    /\ PreparingInit /\ [][PreparingNext]_<<part, recoveryVars, vars>>
    /\ WF_recoveryVars(part = "resuming" /\ Recovery!Step(p1))
    /\ SF_recoveryVars(part = "resuming" /\ Recovery!LaunchResume(p1))
    /\ WF_vars(part = "pruning" /\ ProcessStep)
    /\ WF_vars(part = "pruning" /\ DeadlinePasses)

\* Every matrix that is begun comes to its end.
MatricesComplete == part = "pruning" => MatrixCompletes

\* An experiment whose frozen files nobody edits is always driven to its end, in
\* four attempts with three failures.
ResumesToTheEnd == part = "resuming" => Recovery!AlwaysResumable
=============================================================================
