---------------------------- MODULE WorkflowCycle ----------------------------
(***************************************************************************)
(* has_workflow_cycle: whether the `dependsOn` lists of a document loop.   *)
(* arazzo::parse refuses the document when they do, and code generated     *)
(* from a document relies on that answer: every dependency is a call.      *)
(*                                                                         *)
(* A depth-first search colours a name 1 while it is being visited and 2   *)
(* when it is done.  It descends into names of colour 2 again, so a name   *)
(* can be visited many times.                                              *)
(***************************************************************************)
EXTENDS WorkflowGraph

CONSTANT MaxDeps     \* bound: entries of one dependsOn list

ASSUME MaxDepsAssumption == MaxDeps \in Nat

VARIABLES
    adj,      \* adj[n]: the dependsOn list of n; empty for a foreign name
    state,    \* colours
    stack,    \* calls of dfs: the node, and the entry it is looking at
    root,     \* the workflow the outer loop is at
    answer    \* "none" until the search returns

vars == <<adj, state, stack, root, answer>>

Lists == UNION {[1..k -> Names] : k \in 0..MaxDeps}
Frame == [node : Names, i : Nat]

Top == stack[Len(stack)]
Called(n) == Append(stack, [node |-> n, i |-> 1])

Init ==
    /\ adj \in {a \in [Names -> Lists] : \A n \in Foreign : a[n] = <<>>}
    /\ state = [n \in Names |-> 0]
    /\ stack = <<>> /\ root = 1 /\ answer = "none"

\* The outer loop skips a workflow that some earlier call has coloured.
NextRoot ==
    /\ answer = "none" /\ stack = <<>> /\ root <= Len(Workflows)
    /\ IF state[Workflows[root]] = 0
       THEN /\ stack' = Called(Workflows[root])
            /\ state' = [state EXCEPT ![Workflows[root]] = 1]
       ELSE UNCHANGED <<stack, state>>
    /\ root' = root + 1
    /\ UNCHANGED <<adj, answer>>

NoCycle ==
    /\ answer = "none" /\ stack = <<>> /\ root > Len(Workflows)
    /\ answer' = "acyclic"
    /\ UNCHANGED <<adj, state, stack, root>>

Entry == adj[Top.node][Top.i]

\* Mutated form of Descend: the node entered keeps its colour.
DescendUncoloured ==
    /\ answer = "none" /\ stack # <<>> /\ Top.i <= Len(adj[Top.node])
    /\ IF state[Entry] = 1
       THEN answer' = "cycle" /\ UNCHANGED stack
       ELSE stack' = Called(Entry) /\ UNCHANGED answer
    /\ UNCHANGED <<adj, state, root>>

\* Mutated form of Descend: any name seen before closes a cycle.
DescendOnce ==
    /\ answer = "none" /\ stack # <<>> /\ Top.i <= Len(adj[Top.node])
    /\ IF state[Entry] # 0
       THEN answer' = "cycle" /\ UNCHANGED <<stack, state>>
       ELSE /\ stack' = Called(Entry)
            /\ state' = [state EXCEPT ![Entry] = 1]
            /\ UNCHANGED answer
    /\ UNCHANGED <<adj, root>>

Descend ==
    /\ answer = "none" /\ stack # <<>> /\ Top.i <= Len(adj[Top.node])
    /\ IF state[Entry] = 1
       THEN answer' = "cycle" /\ UNCHANGED <<stack, state>>
       ELSE /\ stack' = Called(Entry)
            /\ state' = [state EXCEPT ![Entry] = 1]
            /\ UNCHANGED answer
    /\ UNCHANGED <<adj, root>>

\* Mutated form of Leave: the caller looks at the same entry again.
LeaveStays ==
    /\ answer = "none" /\ stack # <<>> /\ Top.i > Len(adj[Top.node])
    /\ state' = [state EXCEPT ![Top.node] = 2]
    /\ stack' = [k \in 1..(Len(stack) - 1) |-> stack[k]]
    /\ UNCHANGED <<adj, root, answer>>

\* Mutated form of Leave: the caller skips an entry.
LeaveSkips ==
    /\ answer = "none" /\ stack # <<>> /\ Top.i > Len(adj[Top.node])
    /\ state' = [state EXCEPT ![Top.node] = 2]
    /\ stack' = [k \in 1..(Len(stack) - 1) |->
                    IF k = Len(stack) - 1 THEN [stack[k] EXCEPT !.i = @ + 2] ELSE stack[k]]
    /\ UNCHANGED <<adj, root, answer>>

\* The call returns false, and its caller goes on to its next entry.
Leave ==
    /\ answer = "none" /\ stack # <<>> /\ Top.i > Len(adj[Top.node])
    /\ state' = [state EXCEPT ![Top.node] = 2]
    /\ stack' = [k \in 1..(Len(stack) - 1) |->
                    IF k = Len(stack) - 1 THEN [stack[k] EXCEPT !.i = @ + 1] ELSE stack[k]]
    /\ UNCHANGED <<adj, root, answer>>

Next == NextRoot \/ NoCycle \/ Descend \/ Leave

Spec     == Init /\ [][Next]_vars
FairSpec == Spec /\ WF_vars(Next)

-----------------------------------------------------------------------------
(* Properties *)

\* Every variable has its type, and a call looks at entries of its own list only.
TypeOK ==
    /\ adj \in [Names -> Seq(Names)]
    /\ state \in [Names -> 0..2]
    /\ stack \in Seq(Frame)
    /\ \A k \in DOMAIN stack : stack[k].i \in 1..(Len(adj[stack[k].node]) + 1)
    /\ root \in 1..(Len(Workflows) + 1)
    /\ answer \in {"none", "cycle", "acyclic"}

Depends == [n \in Names |-> Members(adj[n])]

\* The search says "cycle" of a document whose dependsOn lists loop, and
\* "acyclic" of any other, in spite of the names it visits again and of the
\* entries that name no workflow.
AnswerIsRight ==
    /\ answer = "cycle"   => Cyclic(Depends)
    /\ answer = "acyclic" => ~ Cyclic(Depends)

\* The recursion is never deeper than the document has names.
DepthIsBounded == \A i, j \in DOMAIN stack : stack[i].node = stack[j].node => i = j

\* The search ends.
Ends == <>(answer # "none")

\* Why the answer is right: the calls in progress walk along dependsOn entries
\* over the names of colour 1, and what they are done with is on no cycle.
Safe(n) == \A T \in SUBSET Names : Trap(T, Depends) => n \notin T

GreyIsStack ==
    /\ \A k \in DOMAIN stack : state[stack[k].node] = 1
    /\ \A n \in Names : state[n] = 1 => \E k \in DOMAIN stack : stack[k].node = n

StackIsWalk ==
    \A k \in 1..(Len(stack) - 1) :
        /\ stack[k].i \in DOMAIN adj[stack[k].node]
        /\ adj[stack[k].node][stack[k].i] = stack[k + 1].node

DoneIsSafe ==
    /\ \A k \in DOMAIN stack : \A j \in 1..(stack[k].i - 1) : Safe(adj[stack[k].node][j])
    /\ \A n \in Names : state[n] = 2 => Safe(n)

SearchInv ==
    /\ TypeOK
    /\ \A n \in Foreign : adj[n] = <<>>
    /\ \A j \in 1..(root - 1) : state[Workflows[j]] # 0
    /\ GreyIsStack /\ StackIsWalk /\ DoneIsSafe
    /\ DepthIsBounded /\ AnswerIsRight
==============================================================================
