------------------------------ MODULE Workflows ------------------------------
(***************************************************************************)
(* The class Workflows that emit_arazzo_client generates: a method per     *)
(* workflow of an Arazzo document.  A method first calls the methods of    *)
(* the workflows it depends on, but for those a set of this object says    *)
(* were executed, and then makes its steps: an operation, or a call of     *)
(* another method.  A step that fails is attempted again as often as its   *)
(* retry action says; then the method returns an error, as it does at once *)
(* when a dependency does.                                                 *)
(*                                                                         *)
(* For a step that names an operation a placeholder is generated, which    *)
(* succeeds; OpsCanFail says that the developer has put a call there.      *)
(***************************************************************************)
EXTENDS WorkflowGraph

CONSTANTS
    Operation,    \* what a step does that names an operation
    MaxRetry,     \* bound: retryLimit
    Documents,    \* documents the code is generated from
    OpsCanFail,   \* TRUE: an operation can fail
    MaxCalls      \* bound: calls the program makes on the object

Step     == [does : Ids \union {Operation}, retry : 0..MaxRetry]
Document == [deps : [Ids -> Seq(Ids)], steps : [Ids -> Seq(Step)]]

ASSUME DocumentsAssumption ==
    /\ Documents \subseteq Document
    /\ Operation \notin Ids
    /\ OpsCanFail \in BOOLEAN
    /\ MaxCalls \in Nat /\ MaxRetry \in Nat

VARIABLES
    doc,        \* the document
    client,     \* FALSE: the object was made with a null Client*
    stack,      \* calls of methods: the workflow, and where its code is
    ret,        \* "ok" or "err": a call just returned; otherwise "none"
    executed,   \* executed_workflows_
    calls,      \* counter of the bound
    asked,      \* history: calls of each method by the program or by a step
    runs        \* history: calls of each method that returned a value

vars == <<doc, client, stack, ret, executed, calls, asked, runs>>

DependsOn(w) == Members(doc.deps[w])
Depends(d)   == [w \in Ids |-> Members(d.deps[w])]

\* Workflows the code of w calls.
Uses(d) == [w \in Ids |-> Members(d.deps[w]) \union
                          {d.steps[w][i].does : i \in DOMAIN d.steps[w]}]

\* parse accepts a document whose dependsOn lists do not loop.
Accepted(d) == ~ Cyclic(Depends(d))

Called(w) == [wf |-> w, dep |-> 1, step |-> 1, attempt |-> 0]
Top       == stack[Len(stack)]
Busy      == stack # <<>>
Pop       == SubSeq(stack, 1, Len(stack) - 1)
Replace(f) == [stack EXCEPT ![Len(stack)] = f]

Dep     == doc.deps[Top.wf][Top.dep]
Current == doc.steps[Top.wf][Top.step]
InDeps  == Top.dep <= Len(doc.deps[Top.wf])
InSteps == ~ InDeps /\ Top.step <= Len(doc.steps[Top.wf])

Init ==
    /\ doc \in {d \in Documents : Accepted(d)}
    /\ client \in BOOLEAN
    /\ stack = <<>> /\ ret = "none" /\ executed = {} /\ calls = 0
    /\ asked = [w \in Ids |-> 0] /\ runs = [w \in Ids |-> 0]

\* The program calls a method.
Call(w) ==
    /\ ~ Busy /\ calls < MaxCalls
    /\ calls' = calls + 1
    /\ stack' = <<Called(w)>> /\ ret' = "none"
    /\ asked' = [asked EXCEPT ![w] = @ + 1]
    /\ UNCHANGED <<doc, client, executed, runs>>

NullClient ==
    /\ Busy /\ ret = "none" /\ ~ client
    /\ stack' = Pop /\ ret' = "err"
    /\ UNCHANGED <<doc, client, executed, calls, asked, runs>>

Running == Busy /\ ret = "none" /\ client

\* Mutated form of NextDependency: every dependency is run.
NextDependencyAlways ==
    /\ Running /\ InDeps
    /\ stack' = Append(stack, Called(Dep))
    /\ UNCHANGED <<doc, client, ret, executed, calls, asked, runs>>

NextDependency ==
    /\ Running /\ InDeps
    /\ stack' = IF Dep \in executed THEN Replace([Top EXCEPT !.dep = @ + 1])
                ELSE Append(stack, Called(Dep))
    /\ UNCHANGED <<doc, client, ret, executed, calls, asked, runs>>

\* Mutated forms of DependencyReturns: an error is not looked at; it is, but the
\* dependency is recorded before.
DependencyReturnsIgnored ==
    /\ Busy /\ ret # "none" /\ InDeps
    /\ stack' = Replace([Top EXCEPT !.dep = @ + 1])
    /\ ret' = "none"
    /\ UNCHANGED <<doc, client, executed, calls, asked, runs>>

DependencyReturnsRecorded ==
    /\ Busy /\ ret # "none" /\ InDeps
    /\ IF ret = "ok"
       THEN stack' = Replace([Top EXCEPT !.dep = @ + 1]) /\ ret' = "none"
       ELSE stack' = Pop /\ UNCHANGED ret
    /\ executed' = executed \union {Dep}
    /\ UNCHANGED <<doc, client, calls, asked, runs>>

DependencyReturns ==
    /\ Busy /\ ret # "none" /\ InDeps
    /\ IF ret = "ok"
       THEN /\ executed' = executed \union {Dep}
            /\ stack' = Replace([Top EXCEPT !.dep = @ + 1])
            /\ ret' = "none"
       ELSE stack' = Pop /\ UNCHANGED <<executed, ret>>
    /\ UNCHANGED <<doc, client, calls, asked, runs>>

\* Mutated forms of Settle: the loop makes one attempt more; it starts over
\* where it should return the error.
SettleOneMore(ok) ==
    \/ ok /\ stack' = Replace([Top EXCEPT !.step = @ + 1, !.attempt = 0]) /\ ret' = "none"
    \/ /\ ~ ok /\ Top.attempt <= Current.retry
       /\ stack' = Replace([Top EXCEPT !.attempt = @ + 1]) /\ ret' = "none"
    \/ ~ ok /\ Top.attempt > Current.retry /\ stack' = Pop /\ ret' = "err"

SettleForever(ok) ==
    \/ ok /\ stack' = Replace([Top EXCEPT !.step = @ + 1, !.attempt = 0]) /\ ret' = "none"
    \/ /\ ~ ok /\ ret' = "none"
       /\ stack' = Replace([Top EXCEPT !.attempt = (@ + 1) % (Current.retry + 1)])

\* The end of an attempt: break, another one, or std::unexpected.
Settle(ok) ==
    \/ ok /\ stack' = Replace([Top EXCEPT !.step = @ + 1, !.attempt = 0]) /\ ret' = "none"
    \/ /\ ~ ok /\ Top.attempt < Current.retry
       /\ stack' = Replace([Top EXCEPT !.attempt = @ + 1]) /\ ret' = "none"
    \/ ~ ok /\ Top.attempt = Current.retry /\ stack' = Pop /\ ret' = "err"

Operate(ok) ==
    /\ Running /\ InSteps /\ Current.does = Operation
    /\ ok \/ OpsCanFail
    /\ Settle(ok)
    /\ UNCHANGED <<doc, client, executed, calls, asked, runs>>

CallWorkflow ==
    /\ Running /\ InSteps /\ Current.does # Operation
    /\ stack' = Append(stack, Called(Current.does))
    /\ asked' = [asked EXCEPT ![Current.does] = @ + 1]
    /\ UNCHANGED <<doc, client, ret, executed, calls, runs>>

StepReturns ==
    /\ Busy /\ ret # "none" /\ InSteps
    /\ Settle(ret = "ok")
    /\ UNCHANGED <<doc, client, executed, calls, asked, runs>>

Finish ==
    /\ Running /\ ~ InDeps /\ ~ InSteps
    /\ executed' = executed \union {Top.wf}
    /\ stack' = Pop /\ ret' = "ok"
    /\ runs' = [runs EXCEPT ![Top.wf] = @ + 1]
    /\ UNCHANGED <<doc, client, calls, asked>>

Work ==
    \/ NullClient \/ NextDependency \/ DependencyReturns
    \/ \E ok \in BOOLEAN : Operate(ok)
    \/ CallWorkflow \/ StepReturns \/ Finish

Next == Work \/ \E w \in Ids : Call(w)

Spec     == Init /\ [][Next]_vars
FairSpec == Spec /\ WF_vars(Work)

-----------------------------------------------------------------------------
(* Properties *)

Frame == [wf : Ids, dep : Nat \ {0}, step : Nat \ {0}, attempt : 0..MaxRetry]

\* Every variable has its type, and no step is attempted more than its retries allow.
TypeOK ==
    /\ doc \in Document /\ client \in BOOLEAN
    /\ stack \in Seq(Frame)
    /\ ret \in {"none", "ok", "err"}
    /\ executed \subseteq Ids
    /\ calls \in 0..MaxCalls
    /\ asked \in [Ids -> Nat] /\ runs \in [Ids -> Nat]

\* No step of a workflow is made before each workflow it depends on has been
\* executed on this object, with all that those depend on in turn; a failure or
\* a retry on the way, or a workflow met twice, does not let it slip through.
DependenciesFirst ==
    /\ \A k \in DOMAIN stack :
         stack[k].dep > Len(doc.deps[stack[k].wf]) => DependsOn(stack[k].wf) \subseteq executed
    /\ \A w \in executed : DependsOn(w) \subseteq executed

\* executed_workflows_ holds the workflows that returned a value, and no other: a
\* dependency that failed is run again by the next workflow that needs it.
ExecutedIsCompleted == executed = {w \in Ids : runs[w] > 0}

\* However many workflows depend on a workflow, and whatever fails and is retried
\* in between, it completes once as a dependency; it completes again only when
\* the program or a step asks for it by name.
OnceAsDependency == \A w \in Ids : runs[w] <= asked[w] + 1

\* A call returns, when the methods do not call each other in a circle.
CallReturns == Busy /\ ~ Cyclic(Uses(doc)) ~> ~ Busy

-----------------------------------------------------------------------------
(* What the documentation says, and the code does not do *)

\* "Prerequisite workflow invocation check / DAG dependency ordering"
\* (conformance/arazzo-1.1.0/client-sdk.md:36): no workflow waits for itself.
NoReentry == \A i, j \in DOMAIN stack : stack[i].wf = stack[j].wf => i = j
==============================================================================
