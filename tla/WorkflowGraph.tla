---------------------------- MODULE WorkflowGraph ----------------------------
(***************************************************************************)
(* The graph that the `dependsOn` lists of an Arazzo document draw on its  *)
(* workflows, and what a cycle in it is.                                   *)
(***************************************************************************)
EXTENDS Naturals, Sequences

CONSTANTS
    Workflows,   \* workflowIds of a document, in the order it lists them
    Foreign      \* other strings a dependsOn entry can be

\* parse refuses a second workflow of the same id, and a document without any.
ASSUME WorkflowsAssumption ==
    /\ Workflows \in Seq(STRING)
    /\ \A i, j \in DOMAIN Workflows : Workflows[i] = Workflows[j] => i = j

Ids   == {Workflows[i] : i \in DOMAIN Workflows}
Names == Ids \union Foreign

ASSUME ForeignAssumption == Ids \intersect Foreign = {}

Members(s) == {s[i] : i \in DOMAIN s}

\* A walk that enters T need never leave it.
Trap(T, succ) == \A n \in T : \E m \in T : m \in succ[n]

\* In a finite graph: some node can be reached from itself.
Cyclic(succ) == \E T \in SUBSET DOMAIN succ : T # {} /\ Trap(T, succ)
==============================================================================
