----------------------------- MODULE MCServices ------------------------------
(* What comes before and after the measuring: the settings of a run and the *)
(* task its model is measured at, the commands that run experiments on      *)
(* somebody's behalf (auto beside run, the coverage run over a sample of    *)
(* models, the load generator), and what judges it: plot, compare, report.    *)
(* They share no state, so each behaviour is one of one component: part     *)
(* says which.                                                              *)
EXTENDS CoverageState, LoadProtocol, AutomationLocks, LatencyModel,
        ModelSelection, RunSettings, ResultComparison

CONSTANTS local, remote,    \* DOCKER_HOST is part of the configuration
          w1, w2, c1, c2, c3

VARIABLE part

TestConfigs == {local, remote}
TestScope(c) == c
TwoWorkers == {w1, w2}
ThreeCommands == {c1, c2, c3}

(* Results to plot: complete and not, repeated, with all scales, with few *)
Taken(c, i, l) == [case |-> c, id |-> i, latency |-> l, status |-> "ok", warmup |-> FALSE, environment |-> "native"]
\* The larger the scale the slower, the more processors the faster.
Rising(c) == (CASE c.scale = 1 -> 4 [] c.scale = 4 -> 8 [] c.scale = 16 -> 12 [] OTHER -> 16) \div c.cpu
Grid(m, configs, scales) == {[mode |-> m, cpu |-> f[1], mem |-> f[2], scale |-> s] : f \in configs, s \in scales}
Four == {1, 2} \X {1, 2}
Three == Four \ {<<2, 2>>}
Measured(cs) == {Taken(c, 1, Rising(c)) : c \in cs}
FirstCase(m) == [mode |-> m, cpu |-> 1, mem |-> 1, scale |-> 1]
\* A second good window, one that failed and one of the warmup.
Extras(m) == {Taken(FirstCase(m), 2, 6), [Taken(FirstCase(m), 3, 9) EXCEPT !.status = "error"],
              [Taken(FirstCase(m), 4, 9) EXCEPT !.warmup = TRUE], Taken(FirstCase(m), 5, 0)}
Native(ws) == [windows |-> ws, environment |-> "native"]
EmptyResult == Native({})
TestResults == {EmptyResult,
    Native(Measured(Grid("cpu", Four, {1, 4, 16})) \cup Extras("cpu")),
    Native({[w EXCEPT !.latency = 8] : w \in Measured(Grid("cpu", Four, {1, 4, 16}))}),
    Native(Measured(Grid("cpu", Three, {1, 4}))),
    Native(Measured(Grid("cpu", {<<1, 1>>, <<2, 2>>}, {1, 4, 16}))),
    Native(Measured(Grid("cpu", {<<1, 1>>}, {1}) \cup Grid("cpu", {<<1, 2>>}, {4}) \cup Grid("cpu", {<<2, 1>>}, {4, 16})
                   \cup Grid("cpu", {<<2, 2>>}, {1, 16}))),
    Native(Measured(Grid("gpu", Four, {1, 4, 16, 64}))),
    Native(Measured(Grid("gpu", Three, {1, 4, 16}) \cup Grid("gpu", {<<2, 2>>}, {1, 4, 16, 64}))),
    Native(Measured(Grid("cpu", Four, {1, 4, 16}) \cup Grid("gpu", {<<1, 1>>}, {1, 4}))),
    Native(Measured(Grid("cpu", {<<1, 1>>}, {1, 4}))),
    [Native(Measured(Grid("cpu", Four, {1, 4, 16}))) EXCEPT !.environment = "unknown"]}
Shape(o, l) == [other |-> o, largest |-> l]
TestErrors == {Shape(0, 0), Shape(3, 3), Shape(0, 7), Shape(-5, -5)}
TestTailErrors == {0, 7, -20}
\* An earlier plot found a model ready.
TestEarlier == {[of |-> [EmptyResult EXCEPT !.environment = "earlier"], rows |-> {}, ready |-> TRUE]}

-----------------------------------------------------------------------------
(* Models whose sources disagree: an Auto class that only loads, one that    *)
(* contradicts the tag, an author's declaration against the Hub, and custom  *)
(* pipelines with something left open.                                       *)
TheTasks == {"text2text", "summary", "class", "feature", "audio", "image"}
TheOperations ==
    [t \in TheTasks |-> CASE t \in {"text2text", "summary"} -> {"seq2seq"} [] t = "class" -> {"classes"}
                          [] t = "feature" -> {"base"} [] t = "image" -> {"imagetext"} [] OTHER -> {}]
AdaptedTasks == TheTasks \ {"feature"}
PipedTasks == {"audio", "image"}
WantedTasks == {"summary", "image"}

Disagreeing ==
    [spec : {NoTask}, hub : {NoTask, "summary"}, auto : {"text2text", "class"}, tag : {NoTask, "text2text"},
     arch : {{"text2text", "summary"}, {"class"}}, pipes : {0}, gap : {"none"}]
    \cup [spec : {"summary"}, hub : {NoTask, "text2text"}, auto : {"class"}, tag : {NoTask},
          arch : {{"class"}}, pipes : {0}, gap : {"none"}]
    \cup [spec : {NoTask}, hub : {"audio"}, auto : {"feature"}, tag : {"feature", "image"},
          arch : {{"image"}}, pipes : {1}, gap : {"none", "source"}]
    \cup [spec : {NoTask}, hub : {NoTask}, auto : {NoTask}, tag : {"image"},
          arch : {{"image"}, {}}, pipes : {2}, gap : {"none", "inputs"}]
PublishedLater ==
    {[spec |-> NoTask, hub |-> "summary", auto |-> "class", tag |-> NoTask, arch |-> {"class"},
      pipes |-> 0, gap |-> "none"]}
AnyCommit == CHOOSE c \in Disagreeing : TRUE
-----------------------------------------------------------------------------
(* What a user enters in the form, and what is typed elsewhere: settings the  *)
(* form does not show, a resume, and an automatic run.                        *)
TestInputs == {<<"model", "m1">>, <<"model", "m2">>, <<"revision", "main">>, <<"cpus", "1, 2">>,
               <<"cpus", "0">>, <<"hz", "10">>, <<"spec", "spec">>, <<"prune", FALSE>>,
               <<"resume", TRUE>>, <<"gpus", "on">>}
Command == [model |-> "m1", output |-> <<"smoke", 0>>]
TestTyped == {[seed |-> 7, slo |-> <<"3">>, keep |-> FALSE, device |-> "0", spec |-> "spec"] @@ Command,
              [prune |-> FALSE, gpus |-> "off"] @@ Command, [resume |-> TRUE] @@ Command,
              [model |-> "m1", requested |-> "auto", gpus |-> "off"]}
-----------------------------------------------------------------------------
(* Finished experiments of two groups, in which one thing or another is not  *)
(* as it should be.                                                          *)
Case(q) == <<q, "off">>
Cases(qs) == {Case(q) : q \in qs}
Served(input, output, fixed) == [input |-> input, output |-> output, fixed |-> fixed]
Mostly(n, m) == [c \in {Served("short", "text", FALSE), Served("long", "text", FALSE)} |->
                    IF c.input = "short" THEN n ELSE m]
Only(c) == [x \in {c} |-> 4]
Standing(qs) ==
    [run |-> "r", state |-> "complete", class |-> "native_linux", inputs |-> "planned", protocol |-> "detailed",
     quotas |-> qs, devices |-> {"off"}, probe |-> [d \in {<<"any", "off">>} |-> [probed |-> 2]],
     policy |-> [c \in Cases(qs) |-> "powersave"], threads |-> [c \in Cases(qs) |-> 2],
     work |-> [c \in Cases(qs) |-> Mostly(3, 1)],
     windows |-> {[case |-> c, id |-> i, status |-> "ok", value |-> i] : c \in Cases(qs), i \in {1, 2}},
     planned |-> Cases(qs) \X {1, 2}, rowClass |-> "native_linux", loading |-> {"unused"},
     identity |-> "image", sound |-> TRUE, failed |-> FALSE]
On(e, name, value) == [e EXCEPT ![name] = [c \in DOMAIN @ |-> value]]
InOne(e, name, value) == [e EXCEPT ![name] = [@ EXCEPT ![CHOOSE c \in DOMAIN @ : TRUE] = value]]

\* What may make two results differ, and be expected to by some purpose.
Variants(e) ==
    {e, On(e, "policy", "performance"), On(e, "threads", 4), On(e, "work", Mostly(6, 2)), On(e, "work", Mostly(1, 3)),
     On(e, "work", Only(Served("short", "text", FALSE))), On(e, "work", Only(Served("short", "other", FALSE))),
     On(e, "work", Only(Served("short", "class", TRUE))), On(e, "work", Only(Served("short", "other", TRUE)))}
\* What is wrong with one result of a group.
Flaws(e) ==
    {InOne(e, "policy", "performance"), InOne(e, "policy", Unrecorded), InOne(e, "threads", 4),
     InOne(e, "threads", Unrecorded), On(e, "threads", Unrecorded), InOne(e, "work", Mostly(1, 3)),
     InOne(e, "work", Only(Served("short", Unrecorded, FALSE)))}
    \cup {[e EXCEPT !.class = Unrecorded], [e EXCEPT !.inputs = "others"],
          [e EXCEPT !.protocol = "basic"], [e EXCEPT !.work = Unrecorded], [e EXCEPT !.state = "running"],
          [e EXCEPT !.identity = "other"], [e EXCEPT !.sound = FALSE], [e EXCEPT !.failed = TRUE],
          [e EXCEPT !.run = Unrecorded], [e EXCEPT !.windows = {}],
          [e EXCEPT !.windows = {[w EXCEPT !.value = NoValue] : w \in @}],
          [e EXCEPT !.windows = {[w EXCEPT !.status = IF w.id = 1 THEN "error" ELSE @] : w \in @}],
          [e EXCEPT !.probe = Unrecorded], [e EXCEPT !.planned = @ \cup {<<Case("tiny"), 1>>}],
          [e EXCEPT !.planned = Unrecorded], [e EXCEPT !.rowClass = "wsl2"], [e EXCEPT !.loading = Unrecorded],
          [e EXCEPT !.loading = {}], [e EXCEPT !.loading = {"odd"}], [e EXCEPT !.loading = {"error"}]}
Runs(a1, a2, b1, b2) ==
    LET Own(e, r) == [e EXCEPT !.run = IF @ = Unrecorded THEN @ ELSE r]
    IN  [dir \in {"a1", "a2", "b1", "b2"} |-> CASE dir = "a1" -> Own(a1, "r1") [] dir = "a2" -> Own(a2, "r2")
                                               [] dir = "b1" -> Own(b1, "r3") [] dir = "b2" -> Own(b2, "r4")]
Small == Standing({"small"})
Large == Standing({"large"})
Both == Standing({"small", "large"})
Terse == On(Small, "work", Only(Served("short", "text", FALSE)))
Pairings == {<<Small, v>> : v \in Variants(Small)} \cup {<<Small, v>> : v \in Variants(Large)}
            \cup {<<Both, v>> : v \in Variants(Both)} \cup {<<Terse, v>> : v \in Variants(Small)}
Copied(s) == [s EXCEPT !["b1"] = [@ EXCEPT !.run = "r1"]]
Live(e) == [e EXCEPT !.inputs = "live"]
TestStudies ==
    {Runs(p[1], p[1], p[2], p[2]) : p \in Pairings}
    \cup UNION {{Runs(p[1], f, p[2], p[2]) : f \in Flaws(p[1])} :
               p \in {<<Small, Small>>, <<Small, Large>>, <<Both, Both>>}}
    \cup UNION {{Runs(p[1], p[1], p[2], f) : f \in Flaws(p[2])} :
               p \in {<<Small, Small>>, <<Small, Large>>, <<Small, On(Small, "policy", "performance")>>}}
    \cup UNION {{Runs(f, f, p, p) : f \in Flaws(p)} \cup {Runs(f, f, f, f) : f \in Flaws(p)} : p \in {Small, Both}}
    \cup {Copied(Runs(Small, Small, Small, Small))}
    \cup {Runs(Live(Small), Live(Small), Live(v), Live([v EXCEPT !.state = "running"])) : v \in {Small, Large}}
\* Somebody runs, profiles or fails only where the study says so.
TestContents(e) ==
    IF e.inputs # "live" THEN {}
    ELSE {On(e, "policy", "performance"), On(e, "work", Mostly(1, 3)), [e EXCEPT !.failed = TRUE],
          [e EXCEPT !.state = "complete"], [e EXCEPT !.windows = {[w EXCEPT !.value = w.id + 2] : w \in @}]} \ {e}
TheLeft == <<"a1", "a2">>
TheRight == <<"b1", "b2">>
AnyStudy == Runs(Small, Small, Small, Small)
-----------------------------------------------------------------------------
ServicesInit ==
    /\ part \in {"coverage", "load", "auto", "plot", "selection", "settings", "comparison"}
    /\ ComparisonInit /\ (part # "comparison" => results = AnyStudy /\ purpose = "same-hardware")
    /\ LoadInit /\ (part # "load" => scenario = "concurrent")
    /\ PlotInit /\ (part # "plot" => table = EmptyResult)
    /\ SelectionInit /\ (part # "selection" => main = AnyCommit)
    /\ Init /\ AutoInit /\ SettingsInit

ServicesNext ==
    /\ UNCHANGED part
    /\ \/ /\ part = "coverage" /\ Next
          /\ UNCHANGED <<loadVars, autoVars, plotVars, selectionVars, settingVars, comparisonVars>>
       \/ /\ part = "load" /\ LoadNext
          /\ UNCHANGED <<vars, autoVars, plotVars, selectionVars, settingVars, comparisonVars>>
       \/ /\ part = "auto" /\ AutoNext
          /\ UNCHANGED <<vars, loadVars, plotVars, selectionVars, settingVars, comparisonVars>>
       \/ /\ part = "plot" /\ PlotNext
          /\ UNCHANGED <<vars, loadVars, autoVars, selectionVars, settingVars, comparisonVars>>
       \/ /\ part = "selection" /\ SelectionNext
          /\ UNCHANGED <<vars, loadVars, autoVars, plotVars, settingVars, comparisonVars>>
       \/ /\ part = "settings" /\ SettingsNext
          /\ UNCHANGED <<vars, loadVars, autoVars, plotVars, selectionVars, comparisonVars>>
       \/ /\ part = "comparison" /\ ComparisonNext
          /\ UNCHANGED <<vars, loadVars, autoVars, plotVars, selectionVars, settingVars>>

\* The threads of a load run on; nothing else here is bound to.
ServicesSpec ==
    /\ ServicesInit
    /\ [][ServicesNext]_<<part, vars, loadVars, autoVars, plotVars, selectionVars, settingVars,
                        comparisonVars>>
    /\ part = "load" => LoadFairness

(* What is published about measurements is earned: that a latency model is   *)
(* ready, that one experiment is faster than another, and that configurations *)
(* may be ranked together.                                                   *)
FindingsAreEarned == ReadyIsEarned /\ EstimatesAreEarned

\* A load that is generated at all comes to its end.
LoadFinishes == part = "load" => LoadEnds
=============================================================================
