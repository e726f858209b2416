---------------------------- MODULE DependencyFlow -----------------------------
(***************************************************************************)
(* A model repository may bring Python that loads other repositories.      *)
(* acprof never runs that code to find out: model_dependency_flow.py       *)
(* interprets it abstractly, with the fixed configuration, and says of     *)
(* each loader call whether it is active, inactive or unknown.  Active     *)
(* ones are pinned and downloaded before the model runs offline, unknown   *)
(* ones are put to the user, inactive ones are neither.                    *)
(*                                                                         *)
(* A repository's code is a program of the statements the analyzer tells   *)
(* apart.  Beside the analyzer stands what Python does with the program,   *)
(* as the set of its runs.  Variables are entries of the configuration     *)
(* mapping, which callers and callees share; the values are repositories   *)
(* or None, the only thing a loader call or a condition looks at.          *)
(***************************************************************************)
EXTENDS Integers, Sequences, FiniteSets

CONSTANTS
    Repos,          \* repositories on the Hub, other than the model's own
    None,           \* Python's None
    Unsure,         \* UNKNOWN
    Vars,           \* entries of the configuration
    Programs        \* bound: the code considered

ASSUME FlowAssumption == None \notin Repos /\ Unsure \notin Repos \cup {None}

VARIABLES
    program,        \* [code, callee, config, complete, mentions]
    stage,
    candidates,     \* what the analysis found
    dependencies,   \* repository -> revision the image will hold
    excluded,       \* loader calls the user was shown and left out
    loaded          \* loader calls one run of the code made

flowVars == <<program, stage, candidates, dependencies, excluded, loaded>>

Values == Repos \cup {None}
Truth(v) == IF v = Unsure THEN "unknown" ELSE IF v = None THEN "false" ELSE "true"

Not(c) == CASE c = "true" -> "false" [] c = "false" -> "true" [] OTHER -> "unknown"

Activation(parent, condition) ==
    IF parent = "inactive" \/ condition = "false" THEN "inactive"
    ELSE IF condition = "true" THEN parent ELSE "unknown"

Join(e, f) == [v \in Vars |-> IF e[v] = f[v] THEN e[v] ELSE Unsure]

\* The value of an expression: a variable, a literal, or a call nobody can evaluate.
Eval(x, env) == IF x \in Vars THEN env[x] ELSE x
-----------------------------------------------------------------------------
(* The analysis.  A frame knows the mapping as it is now, the caller's      *)
(* object as it was when a branch first copied it, and whether they are     *)
(* still one object.                                                        *)

Frame(env) == [now |-> env, theirs |-> env, shared |-> TRUE]
Store(fr, env) == [fr EXCEPT !.now = env, !.theirs = IF fr.shared THEN env ELSE @]
Branch(fr) == [now |-> fr.now, theirs |-> fr.now, shared |-> FALSE]
Rebind(fr, env) == [fr EXCEPT !.now = env, !.shared = FALSE]

\* What a local call leaves of the caller's mapping.
AfterCall(fr) == IF fr.shared THEN fr.now ELSE Join(fr.theirs, fr.now)

Candidate(s, repo, state) ==
    [at |-> s.at, repo |-> repo, revision |-> s.revision, known |-> s.known,
     main |-> FALSE, activation |-> state]
MainCandidate(s, state) ==
    [at |-> s.at, repo |-> None, revision |-> "main", known |-> TRUE,
     main |-> TRUE, activation |-> state]
UnresolvedCandidate(at, state) ==
    [at |-> at, repo |-> None, revision |-> "main", known |-> FALSE,
     main |-> FALSE, activation |-> state]

Transparent(body) == Len(body) = 1 /\ body[1].op \in {"main", "load"}

\* Mutant: the main model's tokenizer is there whatever files the snapshot has.
CompletePrimary_AnyFiles(p, body, state) ==
    /\ Len(body) = 1 /\ state = "active"
    /\ \/ body[1].op = "main"
       \/ body[1].op = "call" /\ Transparent(p.callee) /\ p.callee[1].op = "main"

\* The try's body is nothing but a load that cannot miss a file.
CompletePrimary(p, body, state) ==
    /\ Len(body) = 1 /\ state = "active" /\ p.complete
    /\ \/ body[1].op = "main"
       \/ body[1].op = "call" /\ Transparent(p.callee) /\ p.callee[1].op = "main"

RECURSIVE Block(_, _, _, _, _), Singly(_, _, _, _, _)

\* One statement, at the activation its place has.
Statement(p, s, fr, state, depth) ==
    LET Sub(body, frame, st) == Block(p, body, frame, st, depth)
        Done(frame, found) == [frame |-> frame, returned |-> FALSE, unsure |-> FALSE, found |-> found]
    IN  CASE s.op = "set" ->
               Done(Store(fr, [fr.now EXCEPT ![s.to] = Eval(s.value, fr.now)]), {})
          [] s.op = "load" ->
               LET repo == Eval(s.repo, fr.now)
               IN  Done(fr, {Candidate(s, IF repo \in Repos THEN repo ELSE None, state)})
          [] s.op = "main" -> Done(fr, {MainCandidate(s, state)})
          [] s.op \in {"return", "raise"} ->
               [frame |-> fr, returned |-> TRUE, unsure |-> FALSE, found |-> {}]
          [] s.op = "call" ->
               IF depth = 0
               THEN Done(fr, {UnresolvedCandidate(s.at, state)})
               ELSE LET b == Block(p, p.callee, Frame(fr.now), state, depth - 1)
                    IN  Done(Store(fr, AfterCall(b.frame)), b.found)
          [] s.op = "if" ->
               LET c == Truth(Eval(s.test, fr.now))
                   l == Sub(s.then, Branch(fr), Activation(state, c))
                   r == Sub(s.orelse, Branch(fr), Activation(state, Not(c)))
               IN  [frame |-> Rebind(fr, CASE c = "true" -> l.frame.now
                                           [] c = "false" -> r.frame.now
                                           [] OTHER -> Join(l.frame.now, r.frame.now)),
                    returned |-> \/ c = "true" /\ l.returned
                                 \/ c = "false" /\ r.returned
                                 \/ l.returned /\ r.returned,
                    unsure |-> c = "unknown" /\ (l.returned \/ r.returned),
                    found |-> l.found \cup r.found]
          [] s.op = "try" ->
               LET b == Sub(s.body, Branch(fr), state)
                   whole == CompletePrimary(p, s.body, state)
                   h == Sub(s.handler, Branch(fr), Activation(state, IF whole THEN "false" ELSE "unknown"))
                   env == IF whole THEN b.frame.now
                          ELSE Join(Join(fr.now, b.frame.now), h.frame.now)
                   e == Sub(s.orelse, Rebind(fr, env), Activation(state, IF whole THEN "true" ELSE "unknown"))
               IN  Done(e.frame, b.found \cup h.found \cup e.found)
          [] s.op = "with" ->
               LET b == Sub(s.body, fr, Activation(state, "unknown")) IN Done(b.frame, b.found)
          [] s.op = "loop" ->
               \* Each statement on its own, once, in a copy of what was known before.
               LET b == Singly(p, s.body, Branch(fr), Activation(state, "unknown"), depth)
               IN  Done(Rebind(fr, Join(fr.now, b.frame.now)), b.found)

Singly(p, statements, fr, state, depth) ==
    IF statements = <<>> THEN [frame |-> fr, found |-> {}]
    ELSE LET s == Statement(p, Head(statements), fr, state, depth)
             rest == Singly(p, Tail(statements), s.frame, state, depth)
         IN  [frame |-> rest.frame, found |-> s.found \cup rest.found]

Block(p, statements, fr, state, depth) ==
    IF statements = <<>>
    THEN [frame |-> fr, returned |-> FALSE, unsure |-> FALSE, found |-> {}]
    ELSE LET s == Statement(p, Head(statements), fr, state, depth)
             after == IF s.returned THEN "inactive"
                      ELSE IF s.unsure THEN Activation(state, "unknown") ELSE state
             rest == Block(p, Tail(statements), s.frame, after, depth)
         IN  [frame |-> rest.frame, returned |-> s.returned \/ rest.returned,
              unsure |-> FALSE, found |-> s.found \cup rest.found]

\* Repositories the configuration names and no call was found for.
Mentioned(p, found) ==
    {[at |-> 0, repo |-> r, revision |-> "main", known |-> FALSE, main |-> FALSE,
      activation |-> "unknown"] : r \in p.mentions \ {c.repo : c \in found}}

Analysis(p) ==
    LET found == Block(p, p.code, Frame(p.config), "active", 1).found
    IN  found \cup Mentioned(p, found)
-----------------------------------------------------------------------------
(* What Python does.  A load may raise; so may the call behind an unknown    *)
(* value, but that is no different from the raise statement.                 *)

RECURSIVE Runs(_, _, _, _)

Continue(p, outcomes, rest, depth) ==
    {o \in outcomes : o.end # "on"}
    \cup UNION {{[r EXCEPT !.loads = o.loads \cup @] : r \in Runs(p, rest, o.env, depth)} :
                  o \in {x \in outcomes : x.end = "on"}}

Meaning(x, env) == IF x = Unsure THEN Values ELSE {Eval(x, env)}

PythonStep(p, s, env, depth) ==
    LET On(e, loads) == [env |-> e, end |-> "on", loads |-> loads]
        Raise(e, loads) == [env |-> e, end |-> "raise", loads |-> loads]
    IN  CASE s.op = "set" -> {On([env EXCEPT ![s.to] = v], {}) : v \in Meaning(s.value, env)}
          [] s.op = "load" ->
               UNION {{On(env, {l}), Raise(env, {l})} :
                   l \in {[at |-> s.at, repo |-> v, revision |-> s.revision] :
                            v \in Meaning(s.repo, env) \cap Repos}}
               \cup {Raise(env, {}) : v \in Meaning(s.repo, env) \ Repos}
          [] s.op = "main" -> {On(env, {})} \cup (IF p.complete THEN {} ELSE {Raise(env, {})})
          [] s.op = "return" -> {[env |-> env, end |-> "return", loads |-> {}]}
          [] s.op = "raise" -> {Raise(env, {})}
          [] s.op = "call" ->
               IF depth = 0 THEN {Raise(env, {})}
               ELSE {IF o.end = "return" THEN [o EXCEPT !.end = "on"] ELSE o :
                       o \in Runs(p, p.callee, env, depth - 1)}
          [] s.op = "if" ->
               UNION {Runs(p, IF v = None THEN s.orelse ELSE s.then, env, depth) :
                        v \in Meaning(s.test, env)}
          [] s.op = "try" ->
               LET body == Runs(p, s.body, env, depth)
                   raised == {o \in body : o.end = "raise"}
               IN  Continue(p, body \ raised, s.orelse, depth)
                   \cup UNION {{[r EXCEPT !.loads = o.loads \cup @] :
                                  r \in Runs(p, s.handler, o.env, depth)} : o \in raised}
          [] s.op = "with" ->
               LET body == Runs(p, s.body, env, depth)
               IN  body \cup {[o EXCEPT !.end = "on"] : o \in {x \in body : x.end = "raise"}}
          [] s.op = "loop" ->
               LET once == Runs(p, s.body, env, depth)
               IN  {On(env, {})} \cup once \cup Continue(p, once, s.body, depth)

Runs(p, statements, env, depth) ==
    IF statements = <<>> THEN {[env |-> env, end |-> "on", loads |-> {}]}
    ELSE Continue(p, PythonStep(p, Head(statements), env, depth), Tail(statements), depth)
-----------------------------------------------------------------------------
(* From candidates to the files of the image                               *)

Considered(found) == {c \in found : c.activation # "inactive" /\ ~c.main}
Undecided(c) == c.repo = None \/ ~c.known \/ c.activation # "active"
Settled(found) == {c \in Considered(found) : ~Undecided(c)}

Revisions(found, r) == {c.revision : c \in {x \in found : x.repo = r}}
Pin(revision) == IF revision = "main" THEN "head" ELSE revision

\* The repository's calls agree on a revision that can be pinned, and the Hub answers.
Pinnable(found, r, failing) ==
    /\ r \notin failing
    /\ \E v \in {"main", "sha"} : Revisions(found, r) = {v}

Pins(found, repos) ==
    [r \in repos |-> Pin(CHOOSE v \in Revisions(found, r) : TRUE)]

FlowInit ==
    /\ program \in Programs
    /\ stage = "source"
    /\ candidates = {} /\ dependencies = <<>> /\ excluded = {} /\ loaded = {}

Analyse ==
    /\ stage = "source"
    /\ candidates' = Analysis(program)
    /\ stage' = "found"
    /\ UNCHANGED <<program, dependencies, excluded, loaded>>

\* The source cannot be parsed, or the analysis outgrows its limits.
GiveUpSource ==
    /\ stage = "source"
    /\ stage' = "refused"
    /\ UNCHANGED <<program, candidates, dependencies, excluded, loaded>>

Resolve ==
    /\ stage = "found"
    /\ \E failing \in SUBSET Repos :
         LET decided == Settled(candidates)
             repos == {c.repo : c \in decided}
             good == {r \in repos : Pinnable(decided, r, failing)}
         IN  /\ dependencies' = Pins(decided, good)
             /\ stage' = IF good # repos THEN "blocked"
                         ELSE IF \E c \in Considered(candidates) : Undecided(c) THEN "review"
                         ELSE "resolved"
    /\ UNCHANGED <<program, candidates, excluded, loaded>>

\* A decided dependency that cannot be pinned is repaired, never answered away.
Retry ==
    /\ stage = "blocked"
    /\ stage' = "found" /\ dependencies' = <<>>
    /\ UNCHANGED <<program, candidates, excluded, loaded>>

\* Mutant: what the user confirms is taken from the default branch.
AskedRevisions_Main(kept) ==
    [r \in kept |-> {"main"}]

\* Confirming a loader does not change the revision its source will request.
AskedRevisions(kept) ==
    [r \in kept |-> LET asked == Revisions(Considered(candidates), r)
                    IN  IF asked = {} THEN {"main"} ELSE asked]

\* The user keeps some repositories, perhaps one for a call whose repository nobody
\* knows, and leaves out the others; an answer that cannot be pinned is refused.
Answer ==
    /\ stage = "review"
    /\ \E kept \in SUBSET Repos, failing \in SUBSET Repos :
         LET asked == Considered(candidates)
             revisions == AskedRevisions(kept)
         IN  /\ kept \subseteq {c.repo : c \in asked} \/ \E c \in asked : c.repo = None
             /\ \A r \in kept : r \notin failing /\ \E v \in {"main", "sha"} : revisions[r] = {v}
             /\ dependencies' = [r \in kept |-> Pin(CHOOSE v \in revisions[r] : TRUE)]
             /\ excluded' = {c.at : c \in {x \in asked : x.repo \notin kept}}
    /\ stage' = "resolved"
    /\ UNCHANGED <<program, candidates, loaded>>

\* The image is built, and the model's code runs in it without the network.
RunModel ==
    /\ stage = "resolved"
    /\ \E o \in Runs(program, program.code, program.config, 1) : loaded' = o.loads
    /\ stage' = "ran"
    /\ UNCHANGED <<program, candidates, dependencies, excluded>>

FlowNext == Analyse \/ GiveUpSource \/ Resolve \/ Retry \/ Answer \/ RunModel
FlowSpec == FlowInit /\ [][FlowNext]_flowVars
-----------------------------------------------------------------------------
Provided(l) == l.repo \in DOMAIN dependencies /\ dependencies[l.repo] = Pin(l.revision)

Made(l) == Provided(l) \/ l.at \in excluded

\* Docs: a repository that the code loads offline is in the image at the revision
\* the code asks for, unless the user was shown the call and left it out; a call is
\* recorded inactive only when the fixed configuration excludes it.
LoadsAreProvided == \A l \in loaded : Made(l)

Bodies(s) == CASE s.op = "if" -> {s.then, s.orelse}
               [] s.op = "try" -> {s.body, s.handler, s.orelse}
               [] s.op \in {"with", "loop"} -> {s.body}
               [] OTHER -> {}

RECURSIVE Within(_)
Within(body) ==
    LET own == {body[i] : i \in DOMAIN body}
    IN  own \cup UNION {Within(b) : b \in UNION {Bodies(s) : s \in own}}

SetsIn(body) == \E t \in Within(body) : t.op = "set"
CallsIn(body) == \E t \in Within(body) : t.op = "call"

Changes(p, body) == SetsIn(body) \/ (CallsIn(body) /\ SetsIn(p.callee))

\* What may run in part, or more than once, leaves the mapping alone, and no helper
\* both changes it and returns early.
Plain(p) ==
    /\ \A s \in Within(p.code) \cup Within(p.callee) :
          s.op \in {"try", "with", "loop"} => ~Changes(p, s.body)
    /\ Changes(p, p.callee) => \A s \in Within(p.callee) : s.op # "return"

\* Whatever path the repository's code takes, no load is made that the analysis has not
\* seen, and a repository that may be loaded there as far as the analysis knows is in
\* the image at the revision the code asks for, unless the user left it out.  Of plain
\* code the analysis knows it all: there a call is inactive only when no run makes it.
LoadsAreForeseen ==
    /\ stage \in {"source", "found", "blocked", "review", "resolved", "refused", "ran"}
    /\ \A l \in loaded :
          LET found == {c \in candidates : c.at = l.at}
              open == {c \in found : c.activation # "inactive" /\ c.repo \in {l.repo, None}}
          IN  /\ found # {}
              /\ Plain(program) \/ open # {} => Made(l)
=============================================================================
