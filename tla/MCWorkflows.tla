----------------------------- MODULE MCWorkflows -----------------------------
(* Documents of three workflows that depend on each other in every way, each
   making an operation and then, maybe, calling another workflow, each step with
   one retry. *)
EXTENDS Workflows, TLC

MCWorkflowIds == <<"a", "b", "c">>

Plain   == [does |-> Operation, retry |-> 1]
MCSteps == {<<Plain>>} \union {<<Plain, [does |-> w, retry |-> 1]>> : w \in Ids}

MCAll ==
    {[deps |-> ("a" :> da @@ "b" :> db @@ "c" :> dc), steps |-> s] :
        da \in {<<>>, <<"b">>, <<"b", "c">>, <<"c", "b">>, <<"b", "b">>},
        db \in {<<>>, <<"a">>, <<"c">>}, dc \in {<<>>, <<"b">>},
        s \in [Ids -> MCSteps]}

\* Documents whose workflows do not use each other in a circle.
MCAcyclic == {d \in MCAll : ~ Cyclic(Uses(d))}

\* Documents with a circle of which one part is a dependsOn entry, and another a
\* step.
StepCalls(d) == [w \in Ids |-> {d.steps[w][i].does : i \in DOMAIN d.steps[w]}]
MCMixed == {d \in MCAll : Cyclic(Uses(d)) /\ ~ Cyclic(StepCalls(d))}
==============================================================================
