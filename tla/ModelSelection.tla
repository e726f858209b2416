---------------------------- MODULE ModelSelection -----------------------------
(***************************************************************************)
(* Which task a model is measured at.  host/detect.py collects what the    *)
(* Hub, the repository and the library say of a model at one commit,       *)
(* model_resolution.py selects a task if they agree or the user has named  *)
(* one, model_contract.py fills in the interface of custom pipelines, and  *)
(* host/collection_workflow.py puts what stays open to the user.  Answers  *)
(* are kept beside the results and given again by later runs that find the *)
(* same evidence.                                                          *)
(*                                                                         *)
(* A commit is what it says: the task of its acprof_model.json, the task   *)
(* tag of the Hub, the Auto class and the task tag of the library, the     *)
(* tasks its architecture serves, its custom pipelines, and what is left   *)
(* open once their source has been read.  An Auto class is named by the    *)
(* task it stands for.  Backends follow from tasks; --task-family and      *)
(* --backend are left out.                                                 *)
(***************************************************************************)
EXTENDS Integers, Sequences, FiniteSets

CONSTANTS
    Tasks,
    NoTask,
    Generic,        \* feature-extraction, the task the library gives the bare AutoModel
    Operations,     \* task -> operations of the library that serve it
    Adapted,        \* tasks with a handler
    Piped,          \* tasks whose pipelines can be described by a generated contract
    Commits,        \* [spec, hub, auto, tag, arch, pipes, gap]
    NewCommits,     \* bound: commits that may be published later
    Wanted,         \* bound: tasks a user asks for, as an option or in a declaration
    MaxReplies,     \* bound: replies in one resolution
    MaxRuns,        \* bound: runs in one output directory
    MaxChanges      \* bound: publications and edits of the local declaration

ASSUME SelectionAssumption ==
    /\ Generic \in Tasks /\ NoTask \notin Tasks
    /\ Operations \in [Tasks -> SUBSET STRING]
    /\ Adapted \cup Piped \cup Wanted \subseteq Tasks
    \* An Auto class is an operation of the library, except the bare AutoModel.
    /\ \A c \in Commits \cup NewCommits :
          IsFiniteSet(c.arch) /\ c.auto \in {NoTask, Generic} \cup {t \in Tasks : Operations[t] # {}}

VARIABLES
    main,           \* the commit the Hub gives today
    spec,           \* the task the local declaration file states; NoTask: there is none
    args,           \* [task, spec]: --task, and whether --model-spec was given
    interactive,
    info,           \* what resolution knows of the model
    step,
    decisions,      \* answers of this resolution
    entry,          \* the identity they will be kept under; NoEntry
    kept,           \* the decision cache: set of [of, answers]
    said,           \* history: tasks the user named for a commit
    runs, changes

selectionVars == <<main, spec, args, interactive, info, step, decisions, entry, kept, said, runs, changes>>
-----------------------------------------------------------------------------
NoEntry == [of |-> NoTask]
\* The task that comes first, or the other.
OrElse(task, other) == IF task # NoTask THEN task ELSE other
OperationsOf(tasks) == UNION {Operations[t] : t \in tasks \ {NoTask}}

\* The bare AutoModel stands for no task.
AutoTask(auto) == IF auto = Generic THEN NoTask ELSE auto

\* A library tag that only names the loader: the bare AutoModel of a custom pipeline, or an
\* Auto class that also serves the task already declared.
LoaderHint(s, primary) ==
    \/ /\ s.pipes > 0 /\ s.auto = Generic /\ s.tag = Generic
    \/ /\ primary # NoTask /\ s.auto \notin {NoTask, Generic, primary} /\ s.tag = s.auto
       /\ Operations[primary] \cap Operations[s.auto] # {}

\* Two readings of the model of which both are served by the library, by no common class.
Opposed(task, tasks) ==
    /\ OperationsOf({task}) # {} /\ OperationsOf(tasks) # {}
    /\ OperationsOf({task}) \cap OperationsOf(tasks) = {}

\* [selected, candidates, clash, missing] from the task that comes first, the tasks that are
\* stated and all that are named.
Judged(s, override, declared, first, observed, named) ==
    LET selected == IF first = NoTask /\ Cardinality(named) = 1 THEN CHOOSE t \in named : TRUE ELSE first
    IN [selected |-> selected, candidates |-> named \cap Adapted,
        clash |-> IF override # NoTask THEN declared \notin {NoTask, override}
                  ELSE \/ Cardinality(observed) > 1
                       \/ Opposed(first, {AutoTask(s.auto)})
                       \/ s.pipes = 0 /\ Opposed(first, s.arch),
        missing |-> selected \notin Adapted]
Compared(s, override, declared, tag) ==
    Judged(s, override, declared, OrElse(override, OrElse(declared, OrElse(s.hub, tag))),
           {declared, s.hub, tag} \ {NoTask},
           ({declared, s.hub, tag, override, AutoTask(s.auto)} \cup s.arch) \ {NoTask})
TagOf(s, declared) == IF LoaderHint(s, OrElse(declared, s.hub)) THEN NoTask ELSE s.tag
Tagged(s, override, declared) == Compared(s, override, declared, TagOf(s, declared))
Discovered(m, generated, override) ==
    Tagged(m.seen, override, OrElse(m.local, OrElse(m.seen.spec, generated)))

\* What the static contract leaves open.  An unpinned revision is never analysed.
Contract(m, d, task, chosen) ==
    LET declared == m.local # NoTask \/ m.seen.spec # NoTask
    IN IF m.how = "partial" \/ (~declared /\ (m.seen.pipes = 0 \/ task \notin Piped)) THEN "none"
       ELSE IF m.how = "manual" THEN "revision"
       ELSE IF d.clash \/ (~declared /\ d.missing) THEN "selection"
       ELSE IF declared THEN IF m.seen.pipes > 0 /\ m.seen.gap = "source" THEN "source" ELSE "resolved"
       ELSE IF m.seen.pipes = 2 /\ chosen = 0 THEN "pipeline"
       ELSE IF m.seen.gap # "none" THEN m.seen.gap
       ELSE "resolved"

\* The model m, with its commit, how it was looked up, what it says and the declaration in
\* use, as resolution leaves it; before is the task it had, which an open selection keeps.
Concluded(m, override, before, contract, final) ==
    [commit |-> m.commit, how |-> m.how, seen |-> m.seen, local |-> m.local, drafted |-> FALSE,
     contract |-> contract, candidates |-> final.candidates,
     selected |-> OrElse(override, OrElse(final.selected, before)),
     open |-> \/ final.clash \/ final.missing
              \/ contract \notin {"none", "resolved"}
              \/ m.how # "partial" /\ contract = "none" /\ m.seen.pipes > 0 /\ m.seen.gap = "source"]
\* A generated contract declares the task it was generated for.
Completed(m, override, before, d, contract) ==
    Concluded(m, override, before, contract,
            IF contract = "resolved" /\ m.local = NoTask /\ m.seen.spec = NoTask
            THEN Discovered(m, d.selected, override) ELSE d)
Interfaced(m, override, before, d, chosen) ==
    Completed(m, override, before, d, Contract(m, d, OrElse(d.selected, before), chosen))
Resolved(m, override, before, chosen) ==
    Interfaced(m, override, before, Discovered(m, NoTask, override), chosen)

\* A handler for the task, which the declaration in use must not contradict.
Routed(t) == t.selected \in Adapted /\ {t.local, t.seen.spec} \subseteq {NoTask, t.selected}

Supported(t) == t.how # "partial" /\ ~t.open /\ Routed(t)
-----------------------------------------------------------------------------
(* Looking the model up.  An answer of the Hub may lack the repository's    *)
(* metadata; without an answer the config.json of a pinned snapshot will    *)
(* do, with or without the source beside it, unless the Hub has refused;    *)
(* a failure nobody can classify leaves the task to the user's options.     *)
Looks == {"hub", "partial", "config", "config_only", "lost", "odd", "refused"}

Blank == [spec |-> NoTask, hub |-> NoTask, auto |-> NoTask, tag |-> NoTask, arch |-> {},
          pipes |-> 0, gap |-> "none"]
FromConfig(c, look) ==
    [Blank EXCEPT !.arch = c.arch, !.pipes = c.pipes,
                  !.gap = IF look = "config_only" THEN "source" ELSE c.gap]

Detects(c, look, a) ==
    /\ a.spec => spec # NoTask
    /\ \/ look \in {"hub", "partial"}
       \/ look \in {"config", "config_only"} /\ Cardinality(c.arch) = 1 /\ c.arch \subseteq Adapted
       \/ look = "odd" /\ (a.task # NoTask \/ a.spec)

LookedUp(c, look, a) ==
    [commit |-> c, local |-> IF a.spec THEN spec ELSE NoTask,
     how |-> CASE look = "partial" -> "partial" [] look = "odd" -> "manual" [] OTHER -> "pinned",
     seen |-> CASE look \in {"hub", "partial"} -> c
                [] look = "odd" -> Blank
                [] OTHER -> FromConfig(c, look)]
Detected(c, look, a) == Resolved(LookedUp(c, look, a), a.task, NoTask, 0)
-----------------------------------------------------------------------------
(* Questions and answers.                                                   *)

\* Gaps of the contract only a declaration can close.
ReadOnly(t) == t.contract \in {"revision", "selection", "source"}

Question(t, a) ==
    IF t.how = "partial" THEN "nothing"
    ELSE IF t.contract \in {"pipeline", "inputs"} THEN t.contract
    ELSE IF /\ t.open /\ t.contract \in {"none", "resolved", "selection"}
            /\ a.task = NoTask /\ ~a.spec /\ Cardinality(t.candidates) > 1 THEN "task"
    ELSE IF t.open \/ ReadOnly(t) THEN "spec"
    ELSE "nothing"

Offered(t, question) ==
    {[on |-> question, pick |-> p] :
        p \in CASE question = "task" -> t.candidates [] question = "pipeline" -> 1..t.seen.pipes
               [] OTHER -> {0}}
Replies(t, a) == Offered(t, Question(t, a))

\* The model after an answer; the options the user gave are no part of it.
Reviewed(t, reply) ==
    [Resolved(IF reply.on = "inputs" THEN [t EXCEPT !.local = t.selected] ELSE t,
              IF reply.on = "task" THEN reply.pick ELSE NoTask, t.selected,
              IF reply.on = "pipeline" THEN reply.pick ELSE 0)
     EXCEPT !.drafted = reply.on = "inputs"]

Agrees(t, a) == a.task = NoTask \/ t.selected = a.task

\* [done, task, args] once the user has named a declaration, and after any other answer.
\* A declaration that can be read stays in the options even if the model disagrees with them.
Naming(a) == [a EXCEPT !.spec = TRUE]
Redeclared(t, a, readable) ==
    [done |-> readable /\ Agrees(t, Naming(a)), task |-> t, args |-> IF readable THEN Naming(a) ELSE a]
Revised(t, a, reply) ==
    [done |-> Agrees(t, a) /\ (reply.on # "task" /\ t.contract = "resolved" => Supported(t)),
     task |-> t, args |-> a]

\* A reply that does not fit changes nothing.
Applied(t, a, reply, look) ==
    CASE reply.on = "spec" ->
            Redeclared(Detected(t.commit, look, Naming(a)), a, Detects(t.commit, look, Naming(a)))
      [] reply.on # "spec" /\ reply \notin Replies(t, a) -> [done |-> FALSE, task |-> t, args |-> a]
      [] OTHER -> Revised(Reviewed(t, reply), a, reply)

Identity_ModelOnly(t, a) == [options |-> a]

Identity(t, a) ==
    [commit |-> t.commit, seen |-> t.seen, local |-> t.local, contract |-> t.contract, options |-> a]

\* Kept answers are given again one by one, and for naught if the result is not supported.
GivenAgain(t, a, answers, look) ==
    LET after[i \in 0..Len(answers)] ==
            IF i = 0 THEN [done |-> TRUE, task |-> t, args |-> a]
            ELSE IF after[i - 1].done THEN Applied(after[i - 1].task, after[i - 1].args, answers[i], look)
            ELSE after[i - 1]
    IN after[Len(answers)]
Replayed(t, a, answers, look) ==
    LET end == GivenAgain(t, a, answers, look)
    IN IF end.done /\ Supported(end.task) THEN end ELSE [end EXCEPT !.done = FALSE, !.task = t]
-----------------------------------------------------------------------------
NoOptions == [task |-> NoTask, spec |-> FALSE]
NoModel == [commit |-> Blank, how |-> "manual", seen |-> Blank, local |-> NoTask, drafted |-> FALSE,
            contract |-> "none", candidates |-> {}, selected |-> NoTask, open |-> TRUE]

SelectionInit ==
    /\ main \in Commits /\ spec = NoTask
    /\ args = NoOptions /\ interactive = FALSE
    /\ info = NoModel /\ step = "idle" /\ decisions = <<>> /\ entry = NoEntry
    /\ kept = {} /\ said = {} /\ runs = 0 /\ changes = 0

BeginRun(a, i) ==
    /\ step = "idle" /\ runs < MaxRuns
    /\ a.spec => spec # NoTask
    /\ args' = a /\ interactive' = i /\ step' = "lookup" /\ runs' = runs + 1
    /\ UNCHANGED <<main, spec, info, decisions, entry, kept, said, changes>>

LookupFails(look) ==
    /\ step = "lookup" /\ ~Detects(main, look, args)
    /\ step' = "failed"
    /\ UNCHANGED <<main, spec, args, interactive, info, decisions, entry, kept, said, runs, changes>>

Verdict(t) == IF Supported(t) THEN "passed" ELSE "failed"

\* Whatever is not answered from the cache starts with the options as they were given.
Recalled(t, look) ==
    IF interactive /\ t.how # "manual" /\ \E k \in kept : k.of = Identity(t, args)
    THEN Replayed(t, args, (CHOOSE k \in kept : k.of = Identity(t, args)).answers, look)
    ELSE [done |-> FALSE, task |-> t, args |-> args]

Lookup(look) ==
    /\ step = "lookup" /\ Detects(main, look, args)
    /\ \E t \in {Detected(main, look, args)} : \E again \in {Recalled(t, look)} :
         /\ info' = again.task /\ args' = again.args
         /\ decisions' = IF again.done THEN (CHOOSE k \in kept : k.of = Identity(t, args)).answers ELSE <<>>
         /\ entry' = IF interactive /\ t.how # "manual" THEN [of |-> Identity(t, args)] ELSE NoEntry
         /\ step' = IF interactive /\ Question(again.task, again.args) # "nothing" THEN "review"
                    ELSE Verdict(again.task)
    /\ UNCHANGED <<main, spec, interactive, kept, said, runs, changes>>

\* Once nothing is open the user still confirms; what is not supported fails before that.
AfterReply(t, a) == IF Question(t, a) = "nothing" /\ ~Supported(t) THEN "failed" ELSE "review"

Named(t, task) == [commit |-> t.commit, task |-> task]

Reply(reply, look) ==
    /\ step = "review" /\ Len(decisions) < MaxReplies
    /\ reply.on # "nothing"
    /\ \E r \in {Applied(info, args, reply, look)} :
         /\ r.done
         /\ info' = r.task /\ args' = r.args /\ decisions' = Append(decisions, reply)
         /\ step' = AfterReply(r.task, r.args)
    /\ said' = IF reply.on = "task" THEN said \cup {Named(info, reply.pick)} ELSE said
    /\ UNCHANGED <<main, spec, interactive, entry, kept, runs, changes>>

\* A changed selection is an option from now on, and nothing is kept of this resolution.
Revise(change, look) ==
    /\ step = "review" /\ change # args
    /\ change.task \in {args.task} \cup info.candidates \cup {info.selected}
    /\ args.spec => change.spec
    /\ Detects(info.commit, look, change)
    /\ \E t \in {Detected(info.commit, look, change)} :
         /\ info' = t /\ args' = change /\ decisions' = <<>> /\ entry' = NoEntry
         /\ step' = AfterReply(t, change)
    /\ UNCHANGED <<main, spec, interactive, kept, said, runs, changes>>

Confirm ==
    /\ step = "review" /\ Question(info, args) = "nothing"
    /\ Agrees(info, args) /\ Supported(info)
    /\ step' = "passed"
    /\ kept' = IF entry # NoEntry /\ decisions # <<>>
               THEN {k \in kept : k.of # entry.of} \cup {[of |-> entry.of, answers |-> decisions]} ELSE kept
    /\ UNCHANGED <<main, spec, args, interactive, info, decisions, entry, said, runs, changes>>

\* The stage is tried again in the same process, with the options as they are now.
TryAgain ==
    /\ step = "failed" /\ interactive
    /\ step' = "lookup"
    /\ UNCHANGED <<main, spec, args, interactive, info, decisions, entry, kept, said, runs, changes>>

EndRun ==
    /\ step \in {"passed", "failed", "review"}
    /\ step' = "idle" /\ info' = NoModel /\ decisions' = <<>> /\ entry' = NoEntry
    /\ args' = NoOptions /\ interactive' = FALSE
    /\ UNCHANGED <<main, spec, kept, said, runs, changes>>

\* What is published once a commit is looked up is not seen before the next look.
PublishCommit(c) ==
    /\ step \in {"idle", "lookup"} /\ changes < MaxChanges /\ c # main
    /\ main' = c /\ changes' = changes + 1
    /\ UNCHANGED <<spec, args, interactive, info, step, decisions, entry, kept, said, runs>>

EditSpec(t) ==
    /\ changes < MaxChanges /\ t # spec
    /\ spec' = t /\ changes' = changes + 1
    /\ UNCHANGED <<main, args, interactive, info, step, decisions, entry, kept, said, runs>>

Options == [task : Wanted \cup {NoTask}, spec : BOOLEAN]

SelectionNext ==
    \/ \E a \in Options, i \in BOOLEAN : BeginRun(a, i)
    \/ \E l \in Looks : LookupFails(l) \/ Lookup(l)
    \/ \E l \in Looks : \E r \in Replies(info, args) : Reply(r, l)
    \/ \E l \in Looks, a \in Options : Revise(a, l)
    \/ Confirm \/ TryAgain \/ EndRun
    \/ \E c \in NewCommits : PublishCommit(c)
    \/ \E t \in Wanted \cup {NoTask} : EditSpec(t)

SelectionSpec == SelectionInit /\ [][SelectionNext]_selectionVars
-----------------------------------------------------------------------------
(* A model is measured at a task the user has named - as an option, in a    *)
(* declaration of his own, or in an answer he gave for this very commit -   *)
(* or at one that nothing the resolution has seen of the commit             *)
(* contradicts.  No answer, kept or new, replaces an option                 *)
(* (model_resolution.py, collection_workflow.py).                           *)
Says(s) == {s.spec, s.hub, TagOf(s, s.spec)} \ {NoTask}

SelectionIsAgreed ==
    step = "passed" =>
        /\ args.task \in {NoTask, info.selected}
        /\ info.local \in {NoTask, info.selected}
        /\ info.how # "partial"
        /\ \/ args.task # NoTask
           \/ info.local # NoTask /\ ~info.drafted
           \/ Named(info, info.selected) \in said
           \/ /\ Says(info.seen) \subseteq {info.selected}
              /\ \/ Operations[info.selected] = {} \/ AutoTask(info.seen.auto) = NoTask
                 \/ Operations[info.selected] \cap Operations[info.seen.auto] # {}

(* An answer settles its question: nobody gives the same answer twice about *)
(* a model whose author declares nothing, in one resolution                 *)
(* (docs/Runtime_Compatibility.md:369-370).                                 *)
AnswersSettle ==
    info.seen.spec = NoTask =>
        \A i, j \in DOMAIN decisions : decisions[i] = decisions[j] /\ decisions[i].on # "spec" => i = j
=============================================================================
