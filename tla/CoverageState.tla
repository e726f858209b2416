----------------------------- MODULE CoverageState -----------------------------
(***************************************************************************)
(* A coverage run evaluates every model of a frozen sample, each in a      *)
(* container of its own: acprof/host/coverage_state.py and run_sample of   *)
(* acprof/host/model_coverage.py.  Every invocation writes an attempt that *)
(* is never overwritten; what is known about the models is replayed from   *)
(* the attempts.  A container whose removal cannot be proven is a debt:    *)
(* nothing else is evaluated before its absence is confirmed, on the       *)
(* Docker scope where it arose.                                            *)
(*                                                                         *)
(* The invocation may be killed or interrupted anywhere, docker may fail,  *)
(* and the user may come back with another configuration.                  *)
(***************************************************************************)
EXTENDS Integers, Sequences, FiniteSets

CONSTANTS
    N,              \* models of the sample, by index
    RunConfigs,        \* configurations of an invocation
    Scope(_),       \* host, owner UID, DOCKER_HOST and DOCKER_CONTEXT of one
    MaxAttempts,    \* bound: directories below attempts/
    MaxFaults       \* bound: kills, Ctrl-C and docker failures

ASSUME SampleAssumption ==
    /\ N \in Nat \ {0} /\ RunConfigs # {}
    /\ MaxAttempts \in Nat /\ MaxFaults \in Nat

VARIABLES
    overview,       \* coverage.json: configuration, attempts and rows it names
    files,          \* attempts/attempt-000001 ...: the record, or Void
    rows,           \* the process's view of each model
    pc, cfg,
    queue,          \* what is left of the selection
    model, row,
    containers,     \* validation containers on the Docker daemons
    owed,           \* history: which container each recorded debt was about
    faults

vars == <<overview, files, rows, pc, cfg, queue, model, row, containers, owed, faults>>
process == <<pc, cfg, queue, model, row>>

Models == 0..(N - 1)
Unnamed == <<0, 0>>             \* cleanup error without a container id
Void == [status |-> "absent"]
NoReport == [configuration |-> "none"]
NoRow == [index |-> 0, attempt |-> 0, stage |-> "norow", debt |-> FALSE,
          origin |-> 0, errors |-> {}, recovered |-> FALSE]
NoRows == [m \in Models |-> NoRow]
AnyConfig == CHOOSE c \in RunConfigs : TRUE

Fault == faults < MaxFaults /\ faults' = faults + 1
Attempts == {i \in DOMAIN files : files[i] # Void}
Me == Len(files)
Here == {c \in containers : c.scope = Scope(cfg)}
-----------------------------------------------------------------------------
(* What the attempts say                                                   *)

\* Mutant: a debt that could not be settled belongs to the attempt that tried.
Retain_Rebinds(before, r, attempt) ==
    IF before.debt /\ ~r.recovered
    THEN [r EXCEPT !.debt = TRUE, !.origin = attempt, !.errors = before.errors \cup @]
    ELSE IF r.debt THEN [r EXCEPT !.origin = attempt]
    ELSE r

\* retain_cleanup_debt: only a recorded confirmation releases a debt.
Retain(before, r, attempt) ==
    IF before.debt /\ ~r.recovered
    THEN [r EXCEPT !.debt = TRUE, !.origin = before.origin, !.errors = before.errors \cup @]
    ELSE IF r.debt THEN [r EXCEPT !.origin = attempt]
    ELSE r

\* The replay in __init__: every row of every attempt, in order.
Told(known, r) == [known EXCEPT ![r.index] = Retain(known[r.index], r, r.attempt)]
ToldAll(known, list) ==
    LET after[j \in 0..Len(list)] == IF j = 0 THEN known ELSE Told(after[j - 1], list[j])
    IN after[Len(list)]
Replay ==
    LET after[i \in 0..Len(files)] ==
            IF i = 0 THEN NoRows
            ELSE IF i \in Attempts THEN ToldAll(after[i - 1], files[i].rows) ELSE after[i - 1]
    IN after[Len(files)]

Known(view) == {m \in Models : view[m] # NoRow}
Debts(view) == {m \in Models : view[m].debt}
IsVerified(r) == r # NoRow /\ ~r.debt /\ r.stage = "none"
Rowed(f) == {f.rows[j].index : j \in DOMAIN f.rows}

\* _read_attempts: everything the overview names is there, and an attempt that
\* claims completion has all of its rows.
Readable ==
    /\ overview # NoReport
    /\ \A i \in Attempts :
          /\ Rowed(files[i]) \subseteq files[i].indices
          /\ Len(files[i].rows) = Cardinality(Rowed(files[i]))
          /\ \A j \in DOMAIN files[i].rows : files[i].rows[j].attempt = i
          /\ files[i].status = "complete" => Rowed(files[i]) = files[i].indices
          \* The first one was made with the configuration of the run.
          /\ (\A j \in Attempts : i <= j) => files[i].configuration = overview.configuration
    /\ overview.attempts \subseteq Attempts
    /\ Attempts = {} => ~overview.rows
-----------------------------------------------------------------------------
(* CoverageState.__init__                                                  *)

Selectors == {"resume", "all", "cleanup", "runtime"}

LastId == CHOOSE i \in Attempts : \A j \in Attempts : j <= i
Pending == Attempts # {} /\ files[LastId].status # "complete"

\* Mutant: the whole selection of an interrupted attempt is run again.
Unfinished_All == files[LastId].indices

Unfinished == files[LastId].indices \ Rowed(files[LastId])

\* --retry-failed, --retry-stage: a debt counts as stage cleanup as well.
Matches(r, how) ==
    /\ r # NoRow /\ ~IsVerified(r)
    /\ \/ how = "all"
       \/ how = r.stage
       \/ how = "cleanup" /\ r.debt

Selection(view, how) ==
    IF how # "resume" THEN {m \in Models : Matches(view[m], how)}
    ELSE IF Pending THEN Unfinished ELSE Models \ Known(view)

Expected == IF Pending THEN files[LastId].configuration ELSE overview.configuration

\* A resume keeps its configuration; a retry needs models that match; a debt
\* has to be among what is retried.
Accepts(view, c, how) ==
    /\ Readable
    /\ how = "resume" => c = Expected
    /\ how # "resume" => Selection(view, how) # {}
    /\ Debts(view) # {} => how # "resume" /\ Debts(view) \subseteq Selection(view, how)

\* indices.sort: debts first, then by index.
Foremost(view, left) ==
    CHOOSE m \in left : \A n \in left : IF view[m].debt = view[n].debt THEN m <= n ELSE view[m].debt

\* run --output-dir on a new directory.
StartNew(c) ==
    /\ pc = "idle" /\ overview = NoReport
    /\ overview' = [configuration |-> c, attempts |-> {}, rows |-> FALSE]
    /\ cfg' = c /\ queue' = Models
    /\ pc' = "mkdir"
    /\ UNCHANGED <<files, rows, model, row, containers, owed, faults>>

\* run --resume, with or without a retry.  Without work no attempt is opened,
\* unless the last one has to be closed.
Resume(view, c, how) ==
    /\ Accepts(view, c, how)
    /\ rows' = view /\ cfg' = c
    /\ queue' = Selection(view, how)
    /\ pc' = IF queue' = {} /\ ~Pending THEN "publish" ELSE "mkdir"
    /\ UNCHANGED <<overview, files, model, row, containers, owed, faults>>

\* The directory first, its record afterwards.
MakeDirectory ==
    /\ pc = "mkdir" /\ Len(files) < MaxAttempts
    /\ files' = Append(files, Void)
    /\ pc' = "persist"
    /\ UNCHANGED <<overview, rows, cfg, queue, model, row, containers, owed, faults>>

PersistAttempt ==
    /\ pc = "persist"
    /\ files' = [files EXCEPT ![Me] =
          [configuration |-> cfg, indices |-> queue, rows |-> <<>>, status |-> "running"]]
    /\ pc' = "save"
    /\ UNCHANGED <<overview, rows, cfg, queue, model, row, containers, owed, faults>>

Report == [overview EXCEPT !.attempts = Attempts, !.rows = Known(rows) # {}]

\* save(): the overview is rebuilt; a row with a debt ends the run.
Save ==
    /\ pc = "save"
    /\ overview' = Report
    /\ pc' = IF row.debt THEN "interrupted" ELSE IF queue = {} THEN "complete" ELSE "model"
    /\ row' = NoRow
    /\ UNCHANGED <<files, rows, cfg, queue, model, containers, owed, faults>>
-----------------------------------------------------------------------------
(* The loop of run_sample                                                  *)

\* start_model
StartModel ==
    /\ pc = "model"
    /\ model' = Foremost(rows, queue)
    /\ pc' = IF rows[Foremost(rows, queue)].debt THEN "confirm" ELSE "evaluate"
    /\ UNCHANGED <<overview, files, rows, cfg, queue, row, containers, owed, faults>>

Mine(c) == c.attempt = Me
Id(c) == <<c.attempt, c.model + 1>>

\* recover_abandoned_containers: residue of this process is an error, the
\* containers of processes that have ended go, one by one; any of it may fail.
Reclaim(succeeds, fails(_, _)) ==
    \/ /\ ~\E c \in Here : Mine(c)
       /\ succeeds
    \/ \E c \in Here : Mine(c) /\ UNCHANGED faults /\ fails(containers, {Id(c)})
    \/ \E gone \in SUBSET {c \in Here : ~Mine(c)} :
       \E what \in {Unnamed} \cup {Id(c) : c \in Here} :
          Fault /\ fails(containers \ gone, {what})

\* The row of a debt whose container could not be confirmed absent.
Unconfirmed(extra) ==
    [rows[model] EXCEPT !.stage = "cleanup", !.recovered = FALSE, !.errors = @ \cup extra]

\* recover_cleanup_debt: every container the debt names is absent, and the
\* scope is empty if one has no name.  With the containers of ended processes
\* gone and none of this one, both follow.
RecoverDebt ==
    Reclaim(/\ containers' = containers \ Here
            /\ pc' = "evaluate" /\ row' = [NoRow EXCEPT !.recovered = TRUE]
            /\ UNCHANGED faults,
            LAMBDA left, what :
               /\ containers' = left /\ row' = Unconfirmed(what) /\ pc' = "record")

\* confirm_previous_cleanup: only on the scope of the attempt where the debt
\* arose.
ConfirmCleanup ==
    /\ pc = "confirm"
    /\ IF Scope(files[rows[model].origin].configuration) = Scope(cfg)
       THEN RecoverDebt
       ELSE /\ row' = Unconfirmed({Unnamed}) /\ pc' = "record"
            /\ UNCHANGED <<containers, faults>>
    /\ UNCHANGED <<overview, files, rows, cfg, queue, model, owed>>

Outcome(stage, debt, errors) ==
    [row EXCEPT !.index = model, !.attempt = Me, !.stage = stage, !.debt = debt, !.errors = errors]

NewContainer == [model |-> model, attempt |-> Me, scope |-> Scope(cfg)]

\* validate_runtime, for what concerns containers: it ran and is gone; its
\* removal is not proven; docker run failed after creating it, and no cidfile
\* says so.
Validate ==
    Reclaim(\/ /\ containers' = containers \ Here
               /\ row' \in {Outcome(s, FALSE, {}) : s \in {"none", "runtime"}}
               /\ UNCHANGED faults
            \/ /\ Fault
               /\ containers' \in {containers \ Here, (containers \ Here) \cup {NewContainer}}
               /\ row' \in {Outcome("runtime", TRUE, {what}) : what \in {Unnamed, Id(NewContainer)}}
            \/ /\ Fault
               /\ containers' = (containers \ Here) \cup {NewContainer}
               /\ row' = Outcome("runtime", FALSE, {}),
            LAMBDA left, what :
               /\ containers' = left /\ row' = Outcome("runtime", TRUE, what))

\* _evaluate_model: many things fail before there is a container.
Evaluate ==
    /\ pc = "evaluate"
    /\ pc' = "record"
    /\ \/ row' = Outcome("runtime", FALSE, {}) /\ UNCHANGED <<containers, faults>>
       \/ Validate
    /\ UNCHANGED <<overview, files, rows, cfg, queue, model, owed>>

\* The containers a debt is about: those it names, or all of the scope.
About(r) == {c \in Here : Id(c) \in r.errors \/ Unnamed \in r.errors}

\* record(): durable in the attempt before the overview.
Record ==
    /\ pc = "record"
    /\ LET kept == [Retain(rows[model], row, Me) EXCEPT !.index = model, !.attempt = Me] IN
       /\ files' = [files EXCEPT ![Me].rows = Append(@, kept)]
       /\ rows' = [rows EXCEPT ![model] = kept]
       /\ row' = kept
    /\ owed' = owed \cup
          (IF row.debt /\ row.stage # "cleanup" THEN {<<model, c>> : c \in About(row)} ELSE {})
    /\ queue' = queue \ {model} /\ pc' = "save"
    /\ UNCHANGED <<overview, cfg, model, containers, faults>>

\* finish()
Finish ==
    /\ pc \in {"complete", "interrupted"}
    /\ files' = [files EXCEPT ![Me].status = pc]
    /\ pc' = "publish"
    /\ UNCHANGED <<overview, rows, cfg, queue, model, row, containers, owed, faults>>

Forget ==
    /\ pc' = "idle" /\ rows' = NoRows /\ cfg' = AnyConfig /\ queue' = {}
    /\ model' = 0 /\ row' = NoRow

\* The last save(); the process ends.
LastSave ==
    /\ pc = "publish"
    /\ overview' = Report
    /\ Forget
    /\ UNCHANGED <<files, containers, owed, faults>>
-----------------------------------------------------------------------------
\* A validation under way leaves its container behind, or not.
LeftBehind == {containers} \cup (IF pc = "evaluate" THEN {containers \cup {NewContainer}} ELSE {})

\* Ctrl-C inside the loop: the row in hand is lost, the attempt is closed.
Interrupt ==
    /\ pc \in {"model", "confirm", "evaluate", "record"} /\ Fault
    /\ pc' = "interrupted" /\ row' = NoRow
    /\ containers' \in LeftBehind
    /\ UNCHANGED <<overview, files, rows, cfg, queue, model, owed>>

Kill ==
    /\ pc # "idle" /\ Fault
    /\ Forget
    /\ containers' \in LeftBehind
    /\ UNCHANGED <<overview, files, owed>>

Init ==
    /\ overview = NoReport /\ files = <<>> /\ rows = NoRows
    /\ pc = "idle" /\ cfg = AnyConfig /\ queue = {} /\ model = 0 /\ row = NoRow
    /\ containers = {} /\ owed = {} /\ faults = 0

Next ==
    \/ \E c \in RunConfigs : StartNew(c)
    \/ pc = "idle" /\ \E view \in {Replay}, c \in RunConfigs, how \in Selectors : Resume(view, c, how)
    \/ MakeDirectory \/ PersistAttempt \/ Save \/ StartModel
    \/ ConfirmCleanup \/ Evaluate \/ Record \/ Finish \/ LastSave
    \/ Interrupt \/ Kill

Spec == Init /\ [][Next]_vars
-----------------------------------------------------------------------------
\* A model's debt stands, for whoever replays the attempts, as long as the
\* container it is about exists: no crash, retry, change of configuration or
\* half-finished recovery releases it earlier.
DebtHolds(seen) ==
    LET debts == Debts(seen) IN \A o \in owed : o[2] \in containers => o[1] \in debts

\* No model is evaluated while the container of another one is owed.
StopsWhileOwing(seen) == pc = "evaluate" => Debts(seen) \subseteq {model}

\* The debt of a container is neither forgotten nor worked around.
DebtsAreKept(seen) == DebtHolds(seen) /\ StopsWhileOwing(seen)

\* What a running invocation believes about each model is what another one
\* would read after a crash at this very point.
MemoryIsReplay(seen) == pc # "idle" => rows = seen

\* Whatever happened, a sample that is not verified throughout can be
\* continued: some configuration and selection are accepted.
Continuable(seen) ==
    pc = "idle" /\ overview # NoReport =>
        \/ \A m \in Models : IsVerified(seen[m])
        \/ \E c \in RunConfigs, how \in Selectors : Accepts(seen, c, how)

\* A crash at any point loses nothing but the attempt at hand: the files say
\* what the process knew, they admit a further attempt, and no debt is lost.
CrashLosesNothing ==
    \E seen \in {Replay} : MemoryIsReplay(seen) /\ Continuable(seen) /\ DebtsAreKept(seen)

\* A verified model stays verified: no later attempt runs it again, and no
\* replay loses it.
VerifiedStays ==
    [][files' # files => LET before == Replay after == Replay' IN
          \A m \in Models : IsVerified(before[m]) => IsVerified(after[m])]_vars

\* Neither a crash nor a later attempt loses what an attempt has come to.
NothingIsLost == []CrashLosesNothing /\ VerifiedStays
=============================================================================
