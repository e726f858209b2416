------------------------------ MODULE MCRunning ------------------------------
(* A run that writes its directory (RunRecovery), what is said of it         *)
(* (RunOutcome), the page that follows its lines (RunEvents), and the search *)
(* for the repositories its model's code needs (DependencyFlow).  They share *)
(* no state here, so each behaviour is one of one component: part says which. *)
(* An earlier attempt has measured the cases in order.                       *)
EXTENDS MCRunRecovery, RunOutcome, RunEvents, DependencyFlow

CONSTANTS r1, r2, key

VARIABLE part
-----------------------------------------------------------------------------
(* Code of model repositories: one compound statement around bodies of up to *)
(* two statements, a helper it may call, and a load afterwards that depends  *)
(* on what the mapping holds by then.                                        *)
TwoRepos == {r1, r2}
OneKey == {key}

Load(n, what, revision) ==
    [op |-> "load", at |-> n, repo |-> what, revision |-> revision, known |-> TRUE]
Guess(n, what) == [Load(n, what, "main") EXCEPT !.known = FALSE]
MainLoad == [op |-> "main", at |-> 8]
Helper == [op |-> "call", at |-> 9]
Return == [op |-> "return"]
Throw == [op |-> "raise"]
Put(v) == [op |-> "set", to |-> key, value |-> v]
When(t, a, b) == [op |-> "if", test |-> t, then |-> a, orelse |-> b]
TryBlock(b, h, e) == [op |-> "try", body |-> b, handler |-> h, orelse |-> e]

Puts == {Put(v) : v \in {r1, None, Unsure}}
Moves == {Load(1, key, "main"), Load(1, r1, "sha"), Return, Throw}
Seconds == {Load(2, r1, "main"), Guess(2, r2)}
Pairs(first, second) == {<<>>} \cup {<<a>> : a \in first} \cup {<<a, b>> : a \in first, b \in second}

\* Bodies that leave the mapping alone, and bodies that change it.
Keeping == Pairs(Moves, Seconds)
           \cup {<<When(t, <<a>>, <<>>), b>> : t \in {key, Unsure}, a \in Moves, b \in Seconds}
Changing == Pairs(Puts \cup Moves, Puts \cup Seconds)
            \cup {<<When(t, <<a>>, <<>>), b>> : t \in {key, Unsure}, a \in Puts, b \in Puts \cup Seconds}

Handlers == {<<>>, <<Load(3, key, "main")>>, <<When(key, <<Load(3, r2, "main")>>, <<>>)>>,
             <<Put(None)>>, <<Throw>>}
Afterwards == {<<When(key, <<Load(5, r2, "main")>>, <<Load(6, r1, "branch")>>)>>,
               <<Load(5, key, "sha")>>}

\* Helpers that change what their caller knows, and helpers that come back early.
Changers == {<<Put(r1)>>, <<When(Unsure, <<Put(r2)>>, <<>>)>>, <<Load(4, r2, "main"), Put(None)>>,
             <<When(key, <<Put(None)>>, <<>>), Put(r2)>>}
Loaders == {<<MainLoad>>, <<When(key, <<Load(4, r2, "main"), Return>>, <<>>), Load(7, r1, "main")>>,
            <<Helper>>}
\* Helpers that do both, so that what follows the return is assigned nevertheless.
Hasty == {<<When(t, <<Put(v), Return>>, <<>>), Put(w)>> :
            t \in {key, Unsure}, v \in {None, r2}, w \in {None, r1}}

Code(c, t, f, r, w, m) ==
    [code |-> <<c>> \o t, callee |-> f, config |-> key :> r, complete |-> w, mentions |-> m]

\* Plain code, and code where a loop, a with, a try or a helper that returns early
\* changes the mapping in part.
SomeCode ==
    {Code(c, t, <<>>, r, TRUE, {}) :
        c \in {When(v, b, <<>>) : v \in {key, Unsure}, b \in Changing}
              \cup {When(key, <<Put(r2)>>, b) : b \in Changing}
              \cup {[op |-> o, body |-> b] : o \in {"with", "loop"}, b \in Keeping \cup Changing}
              \cup {TryBlock(b, h, <<>>) : b \in Changing \ Keeping, h \in Handlers},
        t \in Afterwards, r \in {r1, None}}
    \cup {Code(TryBlock(b, h, e), t, <<>>, r1, w, {r2}) :
            b \in Keeping \cup {<<MainLoad>>, <<MainLoad, Load(2, r1, "main")>>},
            h \in Handlers, e \in {<<>>, <<Load(7, key, "main")>>}, t \in Afterwards, w \in BOOLEAN}
    \cup {Code(c, t, f, r, w, {}) :
            c \in {When(v, <<Helper>>, <<Helper, Load(2, r1, "main")>>) : v \in {key, Unsure}}
                  \cup {TryBlock(<<Helper>>, h, <<>>) : h \in Handlers}
                  \cup {[op |-> o, body |-> <<Helper>>] : o \in {"with", "loop"}},
            t \in Afterwards, f \in Changers \cup Loaders, r \in {r1, None}, w \in BOOLEAN}
    \cup {Code(Helper, t, f, r, TRUE, {}) : t \in Afterwards, f \in Hasty, r \in {r1, None}}

AnyCode == CHOOSE p \in Programs : TRUE
-----------------------------------------------------------------------------
RunningInit ==
    /\ part \in {"recovery", "outcome", "events", "dependencies"}
    /\ part # "outcome" => before = EmptyDir /\ pid = 1 /\ notifying = FALSE
    /\ part # "events" => command = "run"
    /\ part # "dependencies" => program = AnyCode
    /\ Init /\ OutcomeInit /\ EventsInit /\ FlowInit
    /\ \A c \in Planned \ {1} : before.rows[c] # "none" => before.rows[c - 1] # "none"

RunningNext ==
    /\ UNCHANGED part
    /\ \/ part = "recovery" /\ Next /\ UNCHANGED <<outcomeVars, eventVars, flowVars>>
       \/ part = "outcome" /\ OutcomeNext /\ UNCHANGED <<vars, eventVars, flowVars>>
       \/ part = "events" /\ EventsNext /\ UNCHANGED <<vars, outcomeVars, flowVars>>
       \/ part = "dependencies" /\ FlowNext /\ UNCHANGED <<vars, outcomeVars, eventVars>>

RunningSpec == RunningInit /\ [][RunningNext]_<<part, vars, outcomeVars, eventVars, flowVars>>
=============================================================================
