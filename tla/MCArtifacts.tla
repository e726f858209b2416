----------------------------- MODULE MCArtifacts -----------------------------
(* What was established earlier, for a later step to trust: runtime images, *)
(* the plan of the input scales, the evidence in a finished result, on the  *)
(* screen the checks, reviews and readings made for settings that have      *)
(* changed since, and the listing of images a removal is confirmed for.     *)
(* The five share no state, so each behaviour is one of one component: part *)
(* says which.                                                              *)
EXTENDS PosthocBackfill, ImageChain, InputPlanning, ScreenTasks, ImageRemoval, TLC

CONSTANTS p1, p2, torch, massif

VARIABLE part

TwoProcs == {p1, p2}
TwoTools == {torch, massif}
Symmetric == Permutations(TwoProcs)
SomeRequests == {{}, {2}, {4, 5}, {3, 8}}
SomeDefaults == {<<2>>, <<2, 5>>, <<4, 2>>}

\* Two reads of changing selections; a check, a launch and a read; everything
\* of images; a plan that waits for its check and is reviewed again.
Days == {[reads |-> 2, jobs |-> 0, images |-> 0, edits |-> 2],
         [reads |-> 1, jobs |-> 2, images |-> 0, edits |-> 1],
         [reads |-> 1, jobs |-> 1, images |-> 2, edits |-> 1],
         [reads |-> 0, jobs |-> 5, images |-> 0, edits |-> 1]}

\* An image on a base it was built from, and two with the same layers whose
\* build records name each other; and the daemon that may take their place.
Fact(layers, parent, origin, model) ==
    [layers |-> layers, parent |-> parent, source |-> origin, model |-> model,
     kind |-> IF model = NoName THEN "runtime" ELSE "model",
     keys |-> [platform |-> NoName, environment |-> NoName, files |-> NoName]]
SomeImages == {"rt", "m1", "m2"}
SomeTags == {"x", "y"}
SomeFacts == [rt |-> Fact(<<1>>, NoName, NoName, NoName),
              m1 |-> Fact(<<1, 2>>, "rt", "m2", "org/m"),
              m2 |-> Fact(<<1, 2>>, NoName, "m1", "org/m")]
SomeStocks ==
    {[present |-> SomeImages, tags |-> [x |-> "rt", y |-> "m1"], used |-> {}],
     [present |-> {"rt", "m2"}, tags |-> [x |-> "rt", y |-> "rt"], used |-> {"rt"}]}

AnyRequest == CHOOSE r \in PlanningRequests : TRUE

ArtifactsInit ==
    /\ part \in {"posthoc", "image", "inputs", "screen", "removal"}
    /\ Init /\ ChainInit /\ PlanningInit /\ TasksInit /\ ImagesInit
    /\ part # "inputs" => /\ request = AnyRequest
                          /\ planFile = <<>>
    /\ form.env = CHOOSE e \in Envs : TRUE
    /\ part # "removal" => docker = Stocked(CHOOSE s \in Stocks : TRUE, 1)
    /\ part # "screen" => /\ form.target = "fresh" /\ dir.env = form.env
                          /\ remains.budget = CHOOSE d \in Days : TRUE

ArtifactsNext ==
    /\ UNCHANGED part
    /\ \/ part = "posthoc" /\ Next /\ UNCHANGED <<chainVars, planVars, screenVars, imageVars>>
       \/ part = "image" /\ ChainNext /\ UNCHANGED <<vars, planVars, screenVars, imageVars>>
       \/ part = "inputs" /\ PlanningNext /\ UNCHANGED <<vars, chainVars, screenVars, imageVars>>
       \/ part = "removal" /\ ImagesNext /\ UNCHANGED <<vars, chainVars, planVars, screenVars>>
       \/ part = "screen" /\ TasksNext /\ UNCHANGED <<vars, chainVars, planVars, imageVars>>

ArtifactsSpec ==
    ArtifactsInit /\ [][ArtifactsNext]_<<part, vars, chainVars, planVars, screenVars, imageVars>>
=============================================================================
