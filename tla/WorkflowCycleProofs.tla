------------------------- MODULE WorkflowCycleProofs -------------------------
(***************************************************************************)
(* has_workflow_cycle gives the right answer for every document, however   *)
(* many workflows and dependsOn entries it has.                            *)
(***************************************************************************)
EXTENDS WorkflowCycle, Integers, SequenceTheorems, FiniteSetTheorems, TLAPS

-----------------------------------------------------------------------------
(* Facts about traps: no reachability, no induction on walks *)

\* What depends only on names that are on no cycle is on no cycle.
LEMMA SafeFromBelow ==
    ASSUME NEW n \in Names, \A m \in Depends[n] : Safe(m)
    PROVE  Safe(n)
  <1> SUFFICES ASSUME NEW T \in SUBSET Names, Trap(T, Depends), n \in T PROVE FALSE
    BY DEF Safe
  <1>1. PICK m \in T : m \in Depends[n]
    BY DEF Trap
  <1>2. Safe(m)
    BY <1>1
  <1> QED
    BY <1>1, <1>2 DEF Safe

LEMMA AllSafe == ASSUME \A n \in Names : Safe(n) PROVE ~ Cyclic(Depends)
  <1> SUFFICES ASSUME NEW T \in SUBSET Names, T # {}, Trap(T, Depends) PROVE FALSE
    BY DEF Cyclic, Depends
  <1>1. PICK n \in T : TRUE
    OBVIOUS
  <1> QED
    BY <1>1 DEF Safe

LEMMA WorkflowNames ==
    /\ Len(Workflows) \in Nat
    /\ \A j \in 1..Len(Workflows) : Workflows[j] \in Names
    /\ \A n \in Names : n \in Foreign \/ \E j \in 1..Len(Workflows) : Workflows[j] = n
  <1>1. Len(Workflows) \in Nat /\ DOMAIN Workflows = 1..Len(Workflows)
    BY WorkflowsAssumption, LenProperties
  <1> QED
    BY <1>1 DEF Names, Ids

-----------------------------------------------------------------------------
(* The stack *)

LEMMA ListsAreSequences == Lists \subseteq Seq(Names)
  <1> SUFFICES ASSUME NEW k \in 0..MaxDeps, NEW f \in [1..k -> Names] PROVE f \in Seq(Names)
    BY DEF Lists
  <1>1. k \in Nat
    BY MaxDepsAssumption
  <1> QED
    BY <1>1, SeqDef

LEMMA TopFacts ==
    ASSUME TypeOK, stack # <<>>
    PROVE  /\ Len(stack) \in Nat \ {0} /\ Len(stack) \in DOMAIN stack
           /\ Top.node \in Names /\ adj[Top.node] \in Seq(Names)
           /\ Top.i \in 1..(Len(adj[Top.node]) + 1)
  <1>1. Len(stack) \in Nat \ {0} /\ DOMAIN stack = 1..Len(stack)
    BY EmptySeq, LenProperties DEF TypeOK
  <1>2. Len(stack) \in DOMAIN stack
    BY <1>1
  <1>3. Top \in Frame
    BY <1>1, <1>2, ElementOfSeq DEF TypeOK, Top
  <1> QED
    BY <1>1, <1>2, <1>3 DEF TypeOK, Top, Frame

LEMMA CalledFacts ==
    ASSUME TypeOK, NEW n \in Names
    PROVE  /\ Called(n) \in Seq(Frame) /\ Len(Called(n)) = Len(stack) + 1 /\ Len(stack) \in Nat
           /\ DOMAIN Called(n) = 1..(Len(stack) + 1) /\ DOMAIN stack = 1..Len(stack)
           /\ \A k \in 1..Len(stack) : Called(n)[k] = stack[k] /\ stack[k] \in Frame
           /\ Called(n)[Len(stack) + 1].node = n
           /\ Called(n)[Len(stack) + 1].i = 1
  <1> DEFINE f == [node |-> n, i |-> 1]
  <1>1. f \in Frame /\ f.node = n /\ f.i = 1
    BY DEF Frame
  <1>2. stack \in Seq(Frame)
    BY DEF TypeOK
  <1> HIDE DEF f
  <1>3. /\ Append(stack, f) \in Seq(Frame) /\ Len(Append(stack, f)) = Len(stack) + 1
        /\ \A k \in 1..Len(stack) : Append(stack, f)[k] = stack[k]
        /\ Append(stack, f)[Len(stack) + 1] = f
    BY <1>1, <1>2, AppendProperties
  <1>4. \A k \in 1..Len(stack) : stack[k] \in Frame
    BY <1>2, ElementOfSeq
  <1> QED
    BY <1>1, <1>2, <1>3, <1>4, LenProperties DEF Called, f

Popped == [k \in 1..(Len(stack) - 1) |->
              IF k = Len(stack) - 1 THEN [stack[k] EXCEPT !.i = @ + 1] ELSE stack[k]]

LEMMA PoppedFacts ==
    ASSUME TypeOK, stack # <<>>
    PROVE  /\ Popped \in Seq(Frame) /\ DOMAIN Popped = 1..(Len(stack) - 1)
           /\ Len(Popped) = Len(stack) - 1
           /\ \A k \in 1..(Len(stack) - 1) :
                /\ Popped[k].node = stack[k].node
                /\ Popped[k].i = IF k = Len(stack) - 1 THEN stack[k].i + 1 ELSE stack[k].i
  <1>1. Len(stack) \in Nat \ {0} /\ Len(stack) - 1 \in Nat
    BY TopFacts
  <1>2. \A k \in 1..(Len(stack) - 1) : stack[k] \in Frame
    <2> SUFFICES ASSUME NEW k \in 1..(Len(stack) - 1) PROVE stack[k] \in Frame
      OBVIOUS
    <2>1. k \in 1..Len(stack) /\ stack \in Seq(Frame)
      BY <1>1 DEF TypeOK
    <2> QED
      BY <2>1, ElementOfSeq
  <1>3. \A k \in 1..(Len(stack) - 1) :
           /\ Popped[k] \in Frame
           /\ Popped[k].node = stack[k].node
           /\ Popped[k].i = IF k = Len(stack) - 1 THEN stack[k].i + 1 ELSE stack[k].i
    BY <1>2 DEF Popped, Frame
  <1>4. Popped \in [1..(Len(stack) - 1) -> Frame]
    BY <1>3 DEF Popped
  <1>5. Popped \in Seq(Frame)
    BY <1>1, <1>4, SeqDef
  <1> QED
    BY <1>1, <1>3, <1>4, <1>5, LenProperties

-----------------------------------------------------------------------------
(* The invariant *)

\* A name that is not being visited is entered from the top of the stack.
LEMMA Entering ==
    ASSUME SearchInv, NEW n \in Names, state[n] # 1,
           stack # <<>> => Top.i \in DOMAIN adj[Top.node] /\ Entry = n,
           stack' = Called(n), state' = [state EXCEPT ![n] = 1],
           UNCHANGED <<adj, answer>>, root' \in 1..(Len(Workflows) + 1)
    PROVE  /\ TypeOK' /\ GreyIsStack' /\ StackIsWalk' /\ DoneIsSafe' /\ DepthIsBounded'
           /\ \A m \in Names : state[m] # 0 => state'[m] # 0
           /\ state'[n] # 0
  <1> DEFINE L == Len(stack)
  <1>1. TypeOK /\ GreyIsStack /\ StackIsWalk /\ DoneIsSafe /\ DepthIsBounded
    BY DEF SearchInv
  <1>2. /\ stack' \in Seq(Frame) /\ Len(stack') = L + 1 /\ L \in Nat
        /\ DOMAIN stack' = 1..(L + 1) /\ DOMAIN stack = 1..L
        /\ \A k \in 1..L : stack'[k] = stack[k] /\ stack[k] \in Frame
        /\ stack'[L + 1].node = n /\ stack'[L + 1].i = 1
    BY <1>1, CalledFacts
  <1>3. /\ state \in [Names -> 0..2] /\ state' \in [Names -> 0..2]
        /\ \A m \in Names : state'[m] = IF m = n THEN 1 ELSE state[m]
    BY <1>1 DEF TypeOK
  <1>a. adj' = adj /\ adj \in [Names -> Seq(Names)]
    BY <1>1 DEF TypeOK
  <1> HIDE DEF L
  <1>b. ASSUME NEW k \in 1..(L + 1) PROVE k \in 1..L \/ k = L + 1
    BY <1>2
  <1>4. TypeOK'
    <2>1. ASSUME NEW k \in DOMAIN stack'
          PROVE  stack'[k].i \in 1..(Len(adj[stack'[k].node]) + 1)
      <3>1. CASE k \in 1..L
        BY <1>1, <1>2, <3>1 DEF TypeOK
      <3>2. CASE k = L + 1
        <4>1. Len(adj[n]) \in Nat
          BY <1>a, LenProperties
        <4> QED
          BY <1>2, <3>2, <4>1
      <3> QED
        BY <1>2, <1>b, <2>1, <3>1, <3>2
    <2> QED
      BY <1>1, <1>2, <1>3, <1>a, <2>1 DEF TypeOK
  <1>5. GreyIsStack'
    <2>1. ASSUME NEW k \in DOMAIN stack' PROVE state'[stack'[k].node] = 1
      <3>1. CASE k \in 1..L
        BY <1>1, <1>2, <1>3, <3>1 DEF GreyIsStack, Frame
      <3>2. CASE k = L + 1
        BY <1>2, <1>3, <3>2
      <3> QED
        BY <1>2, <1>b, <2>1, <3>1, <3>2
    <2>2. ASSUME NEW m \in Names, state'[m] = 1 PROVE \E k \in DOMAIN stack' : stack'[k].node = m
      <3>1. CASE m = n
        <4>1. L + 1 \in DOMAIN stack'
          BY <1>2
        <4> QED
          BY <1>2, <3>1, <4>1
      <3>2. CASE m # n
        <4>1. PICK k \in DOMAIN stack : stack[k].node = m
          BY <1>1, <1>3, <2>2, <3>2 DEF GreyIsStack
        <4>2. k \in DOMAIN stack' /\ stack'[k].node = m
          BY <1>2, <4>1
        <4> QED
          BY <4>2
      <3> QED
        BY <3>1, <3>2
    <2> QED
      BY <2>1, <2>2 DEF GreyIsStack
  <1>6. StackIsWalk'
    <2> SUFFICES ASSUME NEW k \in 1..L
                 PROVE  /\ stack'[k].i \in DOMAIN adj[stack'[k].node]
                        /\ adj[stack'[k].node][stack'[k].i] = stack'[k + 1].node
      <3>1. Len(stack') - 1 = L
        BY <1>2
      <3> QED
        BY <1>a, <3>1 DEF StackIsWalk
    <2>1. CASE k \in 1..(L - 1)
      <3>1. k + 1 \in 1..L
        BY <1>2, <2>1
      <3> QED
        BY <1>1, <1>2, <2>1, <3>1 DEF StackIsWalk, L
    <2>2. CASE k = L
      <3>1. stack # <<>>
        BY <1>2, <2>2, EmptySeq DEF L
      <3> QED
        BY <1>2, <2>2, <3>1 DEF Top, Entry, L
    <2> QED
      BY <1>2, <2>1, <2>2
  <1>7. DoneIsSafe'
    <2>0. \A m : Safe(m)' <=> Safe(m)
      BY <1>a DEF Safe, Depends, Trap, Members
    <2>1. ASSUME NEW k \in DOMAIN stack', NEW j \in 1..(stack'[k].i - 1)
          PROVE  Safe(adj[stack'[k].node][j])
      <3>1. CASE k \in 1..L
        BY <1>1, <1>2, <2>1, <3>1 DEF DoneIsSafe
      <3>2. CASE k = L + 1
        BY <1>2, <2>1, <3>2
      <3> QED
        BY <1>2, <1>b, <2>1, <3>1, <3>2
    <2>2. ASSUME NEW m \in Names, state'[m] = 2 PROVE Safe(m)
      BY <1>1, <1>3, <2>2 DEF DoneIsSafe
    <2> QED
      BY <1>a, <2>0, <2>1, <2>2 DEF DoneIsSafe
  <1>8. DepthIsBounded'
    <2>1. \A k \in 1..L : stack[k].node # n
      BY <1>1, <1>2 DEF GreyIsStack
    <2> QED
      BY <1>1, <1>2, <1>b, <2>1 DEF DepthIsBounded
  <1> QED
    BY <1>3, <1>4, <1>5, <1>6, <1>7, <1>8

\* A name is left when all it depends on is known to be on no cycle.
LEMMA Leaving ==
    ASSUME SearchInv, Leave
    PROVE  SearchInv'
  <1> DEFINE L == Len(stack) - 1
             top == Top.node
  <1>1. TypeOK /\ GreyIsStack /\ StackIsWalk /\ DoneIsSafe /\ DepthIsBounded
    BY DEF SearchInv
  <1>0. stack # <<>> /\ Top.i > Len(adj[top])
    BY DEF Leave
  <1>2. /\ L \in Nat /\ L + 1 = Len(stack) /\ DOMAIN stack = 1..(L + 1)
        /\ top \in Names /\ adj[top] \in Seq(Names) /\ stack[L + 1] = Top
        /\ Top.i = Len(adj[top]) + 1 /\ DOMAIN adj[top] = 1..Len(adj[top])
    <2>1. Len(adj[top]) \in Nat /\ DOMAIN adj[top] = 1..Len(adj[top])
      BY <1>0, <1>1, TopFacts, LenProperties
    <2>2. DOMAIN stack = 1..Len(stack)
      BY <1>1, LenProperties DEF TypeOK
    <2> QED
      BY <1>0, <1>1, <2>1, <2>2, TopFacts DEF Top
  <1>3. /\ stack' \in Seq(Frame) /\ DOMAIN stack' = 1..L /\ Len(stack') = L
        /\ \A k \in 1..L : /\ stack'[k].node = stack[k].node
                           /\ stack'[k].i = IF k = L THEN stack[k].i + 1 ELSE stack[k].i
    BY <1>0, <1>1, PoppedFacts DEF Leave, Popped
  <1>4. /\ state' \in [Names -> 0..2]
        /\ \A m \in Names : state'[m] = IF m = top THEN 2 ELSE state[m]
    BY <1>1, <1>2 DEF TypeOK, Leave
  <1>a. adj' = adj /\ answer' = answer /\ root' = root /\ answer = "none"
    BY DEF Leave
  <1> HIDE DEF L, top
  <1>b. ASSUME NEW k \in 1..L
        PROVE  /\ k \in DOMAIN stack /\ stack[k].node \in Names /\ stack[k].i \in Nat
               /\ stack[k].node # top
    <2>1. k \in 1..(L + 1) /\ L + 1 \in 1..(L + 1) /\ k # L + 1
      BY <1>2
    <2>2. stack[k] \in Frame
      BY <1>1, <1>2, <2>1, ElementOfSeq DEF TypeOK
    <2>3. stack[k].node # stack[L + 1].node
      BY <1>1, <1>2, <2>1 DEF DepthIsBounded
    <2> QED
      BY <1>2, <2>1, <2>2, <2>3 DEF Frame, top
  <1>c. \A k \in 1..L : /\ stack[k].i \in DOMAIN adj[stack[k].node]
                        /\ adj[stack[k].node][stack[k].i] = stack[k + 1].node
    <2>1. Len(stack) - 1 = L
      BY <1>2
    <2> QED
      BY <1>1, <2>1 DEF StackIsWalk
  <1>d. \A m : Safe(m)' <=> Safe(m)
    BY <1>a DEF Safe, Depends, Trap, Members
  <1>e. Safe(top)
    <2>1. \A j \in 1..(Top.i - 1) : Safe(adj[top][j])
      <3>1. L + 1 \in DOMAIN stack
        BY <1>2
      <3> QED
        BY <1>1, <1>2, <3>1 DEF DoneIsSafe, top
    <2>2. \A m \in Depends[top] : Safe(m)
      <3>1. Depends[top] = {adj[top][j] : j \in 1..Len(adj[top])}
        BY <1>2 DEF Depends, Members
      <3>2. Top.i - 1 = Len(adj[top])
        BY <1>2, LenProperties
      <3> QED
        BY <2>1, <3>1, <3>2
    <2> QED
      BY <1>2, <2>2, SafeFromBelow
  <1>5. TypeOK'
    <2>1. ASSUME NEW k \in DOMAIN stack'
          PROVE  stack'[k].i \in 1..(Len(adj[stack'[k].node]) + 1)
      <3>1. k \in 1..L /\ Len(adj[stack[k].node]) \in Nat
        BY <1>1, <1>3, <1>b, <2>1, LenProperties DEF TypeOK
      <3>2. stack[k].i \in 1..(Len(adj[stack[k].node]) + 1)
        BY <1>1, <1>b, <3>1 DEF TypeOK
      <3>3. DOMAIN adj[stack[k].node] = 1..Len(adj[stack[k].node])
        BY <1>1, <1>b, <3>1, LenProperties DEF TypeOK
      <3>4. stack[k].i + 1 \in 1..(Len(adj[stack[k].node]) + 1)
        <4>1. stack[k].i \in 1..Len(adj[stack[k].node]) /\ Len(adj[stack[k].node]) \in Nat
          BY <1>c, <3>1, <3>3
        <4> QED
          BY <4>1
      <3> QED
        BY <1>3, <3>1, <3>2, <3>4
    <2> QED
      BY <1>1, <1>3, <1>4, <1>a, <2>1 DEF TypeOK
  <1>6. GreyIsStack'
    <2>1. \A k \in DOMAIN stack' : state'[stack'[k].node] = 1
      BY <1>1, <1>3, <1>4, <1>b DEF GreyIsStack
    <2>2. ASSUME NEW m \in Names, state'[m] = 1 PROVE \E k \in DOMAIN stack' : stack'[k].node = m
      <3>1. m # top /\ state[m] = 1
        BY <1>4, <2>2
      <3>2. PICK k \in DOMAIN stack : stack[k].node = m
        BY <1>1, <3>1 DEF GreyIsStack
      <3>3. k \in 1..L
        BY <1>2, <3>1, <3>2 DEF top
      <3> QED
        BY <1>3, <3>2, <3>3
    <2> QED
      BY <2>1, <2>2 DEF GreyIsStack
  <1>7. StackIsWalk'
    <2> SUFFICES ASSUME NEW k \in 1..(L - 1)
                 PROVE  /\ stack'[k].i \in DOMAIN adj[stack'[k].node]
                        /\ adj[stack'[k].node][stack'[k].i] = stack'[k + 1].node
      BY <1>3, <1>a DEF StackIsWalk
    <2>1. k \in 1..L /\ k + 1 \in 1..L /\ k # L
      BY <1>2
    <2> QED
      BY <1>3, <1>c, <2>1
  <1>8. DoneIsSafe'
    <2>1. ASSUME NEW k \in DOMAIN stack', NEW j \in 1..(stack'[k].i - 1)
          PROVE  Safe(adj[stack'[k].node][j])
      <3>0. k \in 1..L /\ stack[k].i \in Nat /\ stack'[k].node = stack[k].node
        BY <1>3, <1>b, <2>1
      <3>1. CASE j \in 1..(stack[k].i - 1)
        BY <1>1, <1>b, <3>0, <3>1 DEF DoneIsSafe
      <3>2. CASE j \notin 1..(stack[k].i - 1)
        <4>1. k = L /\ j = stack[k].i
          BY <1>3, <2>1, <3>0, <3>2
        <4>2. adj[stack[k].node][j] = top
          BY <1>2, <1>c, <3>0, <4>1 DEF top
        <4> QED
          BY <1>e, <3>0, <4>2
      <3> QED
        BY <3>1, <3>2
    <2>2. ASSUME NEW m \in Names, state'[m] = 2 PROVE Safe(m)
      BY <1>1, <1>4, <1>e, <2>2 DEF DoneIsSafe
    <2> QED
      BY <1>a, <1>d, <2>1, <2>2 DEF DoneIsSafe
  <1>9. DepthIsBounded'
    BY <1>1, <1>3, <1>b DEF DepthIsBounded
  <1>10. \A j \in 1..(root - 1) : state'[Workflows[j]] # 0
    <2> SUFFICES ASSUME NEW j \in 1..(root - 1) PROVE state'[Workflows[j]] # 0
      OBVIOUS
    <2>1. Workflows[j] \in Names
      <3>1. root \in 1..(Len(Workflows) + 1)
        BY <1>1 DEF TypeOK
      <3>2. j \in 1..Len(Workflows)
        BY <3>1, WorkflowNames
      <3> QED
        BY <3>2, WorkflowNames
    <2> QED
      BY <1>4, <2>1 DEF SearchInv
  <1> QED
    BY <1>5, <1>6, <1>7, <1>8, <1>9, <1>10, <1>a DEF SearchInv, AnswerIsRight

LEMMA SearchInvInit == Init => SearchInv
  <1> SUFFICES ASSUME Init PROVE SearchInv
    OBVIOUS
  <1>1. /\ stack = <<>> /\ Len(stack) = 0 /\ DOMAIN stack = {} /\ stack \in Seq(Frame)
        /\ adj \in [Names -> Seq(Names)]
        /\ root \in 1..(Len(Workflows) + 1)
    <2>1. adj \in [Names -> Lists]
      BY DEF Init
    <2> QED
      BY <2>1, ListsAreSequences, WorkflowNames, EmptySeq DEF Init
  <1>2. TypeOK /\ GreyIsStack /\ StackIsWalk /\ DoneIsSafe /\ DepthIsBounded /\ AnswerIsRight
    BY <1>1 DEF Init, TypeOK, GreyIsStack, StackIsWalk, DoneIsSafe, DepthIsBounded, AnswerIsRight
  <1> QED
    BY <1>2 DEF SearchInv, Init

\* Everything but the answer is about these.
LEMMA StillTrue ==
    ASSUME SearchInv, UNCHANGED <<adj, state, stack>>, root' \in 1..(Len(Workflows) + 1)
    PROVE  /\ answer' \in {"none", "cycle", "acyclic"} => TypeOK'
           /\ \A n \in Foreign : adj'[n] = <<>>
           /\ GreyIsStack' /\ StackIsWalk' /\ DoneIsSafe' /\ DepthIsBounded'
           /\ Cyclic(Depends)' <=> Cyclic(Depends)
  <1>1. Depends' = Depends
    BY DEF Depends
  <1>2. TypeOK /\ GreyIsStack /\ StackIsWalk /\ DoneIsSafe /\ DepthIsBounded
    BY DEF SearchInv
  <1>3. answer' \in {"none", "cycle", "acyclic"} => TypeOK'
    BY <1>2 DEF TypeOK
  <1>4. GreyIsStack' /\ StackIsWalk' /\ DepthIsBounded'
    BY <1>2 DEF GreyIsStack, StackIsWalk, DepthIsBounded
  <1>5. DoneIsSafe'
    BY <1>1, <1>2 DEF DoneIsSafe, Safe, Trap
  <1>6. Cyclic(Depends)' <=> Cyclic(Depends)
    BY <1>1 DEF Cyclic, Trap
  <1> QED
    BY <1>3, <1>4, <1>5, <1>6 DEF SearchInv

LEMMA RootKeepsInv == ASSUME SearchInv, NextRoot PROVE SearchInv'
  <1>1. TypeOK /\ GreyIsStack /\ StackIsWalk /\ DoneIsSafe /\ DepthIsBounded /\ answer = "none"
    BY DEF SearchInv, NextRoot
  <1>2. /\ root \in 1..Len(Workflows) /\ Workflows[root] \in Names
        /\ root' = root + 1 /\ root' \in 1..(Len(Workflows) + 1)
    BY <1>1, WorkflowNames DEF TypeOK, NextRoot
  <1>3. adj' = adj /\ answer' = answer /\ stack = <<>>
    BY DEF NextRoot
  <1>4. ASSUME \A m \in Names : state[m] # 0 => state'[m] # 0, state'[Workflows[root]] # 0
        PROVE  \A j \in 1..(root' - 1) : state'[Workflows[j]] # 0
    <2> SUFFICES ASSUME NEW j \in 1..(root' - 1) PROVE state'[Workflows[j]] # 0
      OBVIOUS
    <2>1. CASE j = root
      BY <1>4, <2>1
    <2>2. CASE j # root
      <3>1. j \in 1..(root - 1) /\ j \in 1..Len(Workflows)
        BY <1>2, <2>2, WorkflowNames
      <3>2. state[Workflows[j]] # 0 /\ Workflows[j] \in Names
        BY <3>1, WorkflowNames DEF SearchInv
      <3> QED
        BY <1>4, <3>2
    <2> QED
      BY <2>1, <2>2
  <1>5. CASE state[Workflows[root]] = 0
    <2>1. stack' = Called(Workflows[root]) /\ state' = [state EXCEPT ![Workflows[root]] = 1]
      BY <1>5 DEF NextRoot
    <2>2. /\ TypeOK' /\ GreyIsStack' /\ StackIsWalk' /\ DoneIsSafe' /\ DepthIsBounded'
          /\ \A m \in Names : state[m] # 0 => state'[m] # 0
          /\ state'[Workflows[root]] # 0
      <3> DEFINE n == Workflows[root]
      <3>1. /\ n \in Names /\ state[n] # 1
            /\ stack # <<>> => Top.i \in DOMAIN adj[Top.node] /\ Entry = n
            /\ stack' = Called(n) /\ state' = [state EXCEPT ![n] = 1]
            /\ UNCHANGED <<adj, answer>> /\ root' \in 1..(Len(Workflows) + 1)
        BY <1>2, <1>3, <1>5, <2>1
      <3> HIDE DEF n
      <3>2. /\ TypeOK' /\ GreyIsStack' /\ StackIsWalk' /\ DoneIsSafe' /\ DepthIsBounded'
            /\ \A m \in Names : state[m] # 0 => state'[m] # 0
            /\ state'[n] # 0
        BY <3>1, Entering
      <3> QED
        BY <3>2 DEF n
    <2> QED
      BY <1>1, <1>3, <1>4, <2>2 DEF SearchInv, AnswerIsRight
  <1>6. CASE state[Workflows[root]] # 0
    <2>1. stack' = stack /\ state' = state
      BY <1>6 DEF NextRoot
    <2>2. \A j \in 1..(root' - 1) : state'[Workflows[j]] # 0
      BY <1>4, <1>6, <2>1
    <2> QED
      BY <1>1, <1>2, <1>3, <2>1, <2>2
      DEF SearchInv, TypeOK, GreyIsStack, StackIsWalk, DoneIsSafe, DepthIsBounded,
          AnswerIsRight, Safe, Depends
  <1> QED
    BY <1>5, <1>6

\* The outer loop has been through: every name was left, or names no workflow.
LEMMA NoCycleIsRight == ASSUME SearchInv, NoCycle PROVE ~ Cyclic(Depends)
  <1>1. TypeOK /\ GreyIsStack /\ DoneIsSafe /\ stack = <<>>
    BY DEF SearchInv, NoCycle
  <1>2. DOMAIN stack = {}
    BY <1>1, EmptySeq
  <1>3. root = Len(Workflows) + 1
    BY <1>1, WorkflowNames DEF TypeOK, NoCycle
  <1>4. ASSUME NEW n \in Names PROVE Safe(n)
    <2>1. CASE n \in Foreign
      <3>1. DOMAIN adj[n] = {}
        BY <2>1, EmptySeq DEF SearchInv
      <3>2. \A m \in Depends[n] : Safe(m)
        BY <1>4, <3>1 DEF Depends, Members
      <3> QED
        BY <1>4, <3>2, SafeFromBelow
    <2>2. CASE n \notin Foreign
      <3>1. PICK j \in 1..Len(Workflows) : Workflows[j] = n
        BY <1>4, <2>2, WorkflowNames
      <3>2. j \in 1..(root - 1)
        BY <1>3, WorkflowNames
      <3>3. state[n] # 0
        BY <3>1, <3>2 DEF SearchInv
      <3>4. state[n] # 1
        BY <1>1, <1>2, <1>4 DEF GreyIsStack
      <3>5. state[n] = 2
        BY <1>1, <1>4, <3>3, <3>4 DEF TypeOK
      <3> QED
        BY <1>1, <1>4, <3>5 DEF DoneIsSafe
    <2> QED
      BY <2>1, <2>2
  <1> QED
    BY <1>4, AllSafe

\* An entry that is being visited: from its call to the top, a closed walk.
LEMMA CycleIsRight ==
    ASSUME SearchInv, stack # <<>>, Top.i \in DOMAIN adj[Top.node], state[Entry] = 1
    PROVE  Cyclic(Depends)
  <1>1. TypeOK /\ GreyIsStack /\ StackIsWalk
    BY DEF SearchInv
  <1>2. /\ Len(stack) \in Nat \ {0} /\ DOMAIN stack = 1..Len(stack)
        /\ Top.node \in Names /\ adj[Top.node] \in Seq(Names)
    BY <1>1, TopFacts, LenProperties DEF TypeOK
  <1>3. Entry \in Names
    BY <1>2, ElementOfSeq, LenProperties DEF Entry
  <1>4. PICK k \in DOMAIN stack : stack[k].node = Entry
    BY <1>1, <1>3 DEF GreyIsStack
  <1> DEFINE T == {stack[j].node : j \in k..Len(stack)}
  <1>5. \A j \in k..Len(stack) : j \in DOMAIN stack /\ stack[j].node \in Names
    <2> SUFFICES ASSUME NEW j \in k..Len(stack) PROVE j \in DOMAIN stack /\ stack[j].node \in Names
      OBVIOUS
    <2>1. j \in 1..Len(stack)
      BY <1>2, <1>4
    <2>2. stack[j] \in Frame
      BY <1>1, <2>1, ElementOfSeq DEF TypeOK
    <2> QED
      BY <1>2, <2>1, <2>2 DEF Frame
  <1>6. ASSUME NEW j \in k..Len(stack)
        PROVE  \E m \in T : m \in Depends[stack[j].node]
    <2>1. CASE j = Len(stack)
      <3>1. Entry \in T
        BY <1>2, <1>4
      <3>2. Entry \in Depends[Top.node]
        BY <1>2 DEF Entry, Depends, Members
      <3> QED
        BY <2>1, <3>1, <3>2 DEF Top
    <2>2. CASE j # Len(stack)
      <3>1. j \in 1..(Len(stack) - 1) /\ j + 1 \in k..Len(stack)
        BY <1>2, <1>4, <1>6, <2>2
      <3>2. /\ stack[j].i \in DOMAIN adj[stack[j].node]
            /\ adj[stack[j].node][stack[j].i] = stack[j + 1].node
        BY <1>1, <3>1 DEF StackIsWalk
      <3>3. stack[j + 1].node \in Depends[stack[j].node]
        BY <1>5, <1>6, <3>2 DEF Depends, Members
      <3> QED
        BY <3>1, <3>3
    <2> QED
      BY <2>1, <2>2
  <1>7. T \in SUBSET Names /\ T # {}
    BY <1>2, <1>4, <1>5
  <1>8. Trap(T, Depends)
    BY <1>6 DEF Trap
  <1> QED
    BY <1>7, <1>8 DEF Cyclic, Depends

LEMMA DescendKeepsInv == ASSUME SearchInv, Descend PROVE SearchInv'
  <1>1. TypeOK /\ answer = "none" /\ stack # <<>>
    BY DEF SearchInv, Descend
  <1>2. /\ adj[Top.node] \in Seq(Names) /\ Top.i \in DOMAIN adj[Top.node]
        /\ root \in 1..(Len(Workflows) + 1)
    <2>1. adj[Top.node] \in Seq(Names) /\ Top.i \in 1..(Len(adj[Top.node]) + 1)
      BY <1>1, TopFacts
    <2> QED
      BY <1>1, <2>1, LenProperties DEF TypeOK, Descend
  <1>3. Entry \in Names
    BY <1>2, ElementOfSeq, LenProperties DEF Entry
  <1>4. adj' = adj /\ root' = root
    BY DEF Descend
  <1>5. CASE state[Entry] = 1
    <2>1. Cyclic(Depends)
      BY <1>1, <1>2, <1>5, CycleIsRight
    <2>2. answer' = "cycle" /\ stack' = stack /\ state' = state
      BY <1>5 DEF Descend
    <2> QED
      BY <1>2, <1>4, <2>1, <2>2, StillTrue DEF SearchInv, AnswerIsRight
  <1>6. CASE state[Entry] # 1
    <2>1. stack' = Called(Entry) /\ state' = [state EXCEPT ![Entry] = 1] /\ answer' = answer
      BY <1>6 DEF Descend
    <2>2. /\ TypeOK' /\ GreyIsStack' /\ StackIsWalk' /\ DoneIsSafe' /\ DepthIsBounded'
          /\ \A m \in Names : state[m] # 0 => state'[m] # 0
      BY <1>1, <1>2, <1>3, <1>4, <1>6, <2>1, Entering
    <2>3. \A j \in 1..(root' - 1) : state'[Workflows[j]] # 0
      <3> SUFFICES ASSUME NEW j \in 1..(root - 1) PROVE state'[Workflows[j]] # 0
        BY <1>4
      <3>1. j \in 1..Len(Workflows)
        BY <1>2, WorkflowNames
      <3> QED
        BY <2>2, <3>1, WorkflowNames DEF SearchInv
    <2> QED
      BY <1>1, <1>4, <2>1, <2>2, <2>3 DEF SearchInv, AnswerIsRight
  <1> QED
    BY <1>5, <1>6

LEMMA SearchInvStep == SearchInv /\ [Next]_vars => SearchInv'
  <1> SUFFICES ASSUME SearchInv, [Next]_vars PROVE SearchInv'
    OBVIOUS
  <1>1. CASE NextRoot
    BY <1>1, RootKeepsInv
  <1>2. CASE NoCycle
    <2>1. ~ Cyclic(Depends) /\ UNCHANGED <<adj, state, stack>> /\ root' = root
      BY <1>2, NoCycleIsRight DEF NoCycle
    <2>2. root' \in 1..(Len(Workflows) + 1) /\ answer' = "acyclic"
      BY <1>2, <2>1 DEF NoCycle, SearchInv, TypeOK
    <2> QED
      BY <2>1, <2>2, StillTrue DEF SearchInv, AnswerIsRight
  <1>3. CASE Descend
    BY <1>3, DescendKeepsInv
  <1>4. CASE Leave
    BY <1>4, Leaving
  <1>5. CASE UNCHANGED vars
    BY <1>5
    DEF vars, SearchInv, TypeOK, GreyIsStack, StackIsWalk, DoneIsSafe, DepthIsBounded,
        AnswerIsRight, Safe, Depends
  <1> QED
    BY <1>1, <1>2, <1>3, <1>4, <1>5 DEF Next

THEOREM SearchInvariant == Spec => []SearchInv
  BY SearchInvInit, SearchInvStep, PTL DEF Spec

-----------------------------------------------------------------------------
(* What follows from it *)

\* has_workflow_cycle says "cycle" exactly of the documents whose dependsOn
\* lists loop, for every document.
THEOREM AnswerRight == Spec => []AnswerIsRight
  <1>1. SearchInv => AnswerIsRight
    BY DEF SearchInv
  <1> QED
    BY <1>1, SearchInvariant, PTL

\* Its recursion is never deeper than the document has names: no name is
\* visited twice at once.
THEOREM DepthBounded == Spec => []DepthIsBounded
  <1>1. SearchInv => DepthIsBounded
    BY DEF SearchInv
  <1> QED
    BY <1>1, SearchInvariant, PTL

\* Every variable keeps its type, and a call never reads past its own list.
THEOREM TypeCorrect == Spec => []TypeOK
  <1>1. SearchInv => TypeOK
    BY DEF SearchInv
  <1> QED
    BY <1>1, SearchInvariant, PTL
-----------------------------------------------------------------------------
(* Why it ends *)

\* How far the search is: in its outer loop, in the list of the first call, of
\* the call above it, and so on.  A name is visited again and again, but these
\* places, read in this order like the digits of a number, only grow.
Turn ==
    IF answer # "none" THEN 2 * Len(Workflows) + 3
    ELSE IF stack = <<>> THEN 2 * root ELSE 2 * root - 1
Place(k) == IF k = 0 THEN Turn ELSE IF k <= Len(stack) THEN stack[k].i ELSE 0

Depth == Len(Workflows) + 1
PlacesAreBounded ==
    \A k \in Nat : /\ Place(k) \in 0..(2 * Len(Workflows) + MaxDeps + 3)
                   /\ k > Depth => Place(k) = 0
PlacesGrow ==
    [][\E k \in 0..Depth : /\ Place(k)' > Place(k)
                           /\ \A j \in 0..(k - 1) : Place(j)' = Place(j)]_vars

ListsAreShort == \A n \in Names : Len(adj[n]) <= MaxDeps

LEMMA ListsStayShort == Spec => []ListsAreShort
  <1>1. Init => ListsAreShort
    <2> SUFFICES ASSUME Init, NEW n \in Names PROVE Len(adj[n]) <= MaxDeps
      BY DEF ListsAreShort
    <2>1. adj \in [Names -> Lists]
      BY DEF Init
    <2>2. PICK k \in 0..MaxDeps : adj[n] \in [1..k -> Names]
      BY <2>1 DEF Lists
    <2>3. k \in Nat /\ k <= MaxDeps
      BY MaxDepsAssumption
    <2>4. adj[n] \in Seq(Names) /\ DOMAIN adj[n] = 1..k
      BY <2>2, <2>3, SeqDef
    <2>5. Len(adj[n]) = k
      BY <2>3, <2>4, LenProperties
    <2> QED
      BY <2>3, <2>5
  <1>2. ListsAreShort /\ [Next]_vars => ListsAreShort'
    BY DEF ListsAreShort, Next, NextRoot, NoCycle, Descend, Leave, vars
  <1> QED
    BY <1>1, <1>2, PTL DEF Spec

\* Only the call on top can be at a name that is no workflow, and no name is
\* visited twice at once.
Shallow == Len(stack) \in 0..Depth
LEMMA StackIsShallow == SearchInv => Shallow
  <1> SUFFICES ASSUME SearchInv PROVE Len(stack) \in 0..Depth
    BY DEF Shallow
  <1>1. /\ stack \in Seq(Frame) /\ Len(stack) \in Nat /\ DOMAIN stack = 1..Len(stack)
        /\ Len(Workflows) \in Nat
    BY WorkflowNames, LenProperties DEF SearchInv, TypeOK
  <1>2. CASE Len(stack) = 0
    BY <1>1, <1>2 DEF Depth
  <1>3. CASE Len(stack) # 0
    <2> DEFINE below == 1..(Len(stack) - 1)
               ids   == 1..Len(Workflows)
    <2>1. \A k \in below : \E j \in ids : Workflows[j] = stack[k].node
      <3> SUFFICES ASSUME NEW k \in below PROVE \E j \in ids : Workflows[j] = stack[k].node
        OBVIOUS
      <3>1. k \in 1..Len(stack) /\ stack[k] \in Frame
        BY <1>1, ElementOfSeq
      <3>2. stack[k].node \in Names /\ stack[k].i \in DOMAIN adj[stack[k].node]
        BY <1>1, <3>1 DEF SearchInv, StackIsWalk, Frame
      <3>3. stack[k].node \notin Foreign
        BY <3>2, EmptySeq DEF SearchInv
      <3> QED
        BY <3>2, <3>3, WorkflowNames
    <2> DEFINE f == [k \in below |-> CHOOSE j \in ids : Workflows[j] = stack[k].node]
    <2>2. \A k \in below : f[k] \in ids /\ Workflows[f[k]] = stack[k].node
      BY <2>1
    <2>3. f \in [below -> ids]
      BY <2>2
    <2>4. \A k, m \in below : f[k] = f[m] => k = m
      <3> SUFFICES ASSUME NEW k \in below, NEW m \in below, f[k] = f[m] PROVE k = m
        OBVIOUS
      <3>1. stack[k].node = stack[m].node
        BY <2>2
      <3>2. k \in DOMAIN stack /\ m \in DOMAIN stack
        BY <1>1
      <3> QED
        BY <3>1, <3>2 DEF SearchInv, DepthIsBounded
    <2> HIDE DEF f
    <2>5. f \in Injection(below, ids)
      BY <2>3, <2>4 DEF Injection, IsInjective
    <2>6. /\ IsFiniteSet(ids) /\ Cardinality(ids) = Len(Workflows)
          /\ Cardinality(below) = Len(stack) - 1
      <3>1. \A n \in Nat : IsFiniteSet(1..n) /\ Cardinality(1..n) = n
        BY FS_Interval
      <3>2. Len(stack) - 1 \in Nat
        BY <1>1, <1>3
      <3> QED
        BY <1>1, <3>1, <3>2
    <2>7. Cardinality(below) <= Cardinality(ids)
      BY <2>5, <2>6, FS_Injection
    <2> QED
      BY <1>1, <1>3, <2>6, <2>7 DEF Depth
  <1> QED
    BY <1>2, <1>3
\* Why Ends holds: each step of the search carries one of its places on and
\* leaves those before it as they are, and no place is ever past its bound.
THEOREM SearchGoesForward == Spec => []PlacesAreBounded /\ PlacesGrow
  <1>1. ASSUME SearchInv, ListsAreShort PROVE PlacesAreBounded
    <2> SUFFICES ASSUME NEW k \in Nat
                 PROVE  /\ Place(k) \in 0..(2 * Len(Workflows) + MaxDeps + 3)
                        /\ k > Depth => Place(k) = 0
      BY DEF PlacesAreBounded
    <2>1. /\ Len(Workflows) \in Nat /\ MaxDeps \in Nat
          /\ root \in 1..(Len(Workflows) + 1) /\ Len(stack) \in 0..Depth
      BY <1>1, WorkflowNames, MaxDepsAssumption, StackIsShallow DEF SearchInv, TypeOK, Shallow
    <2>2. Turn \in 0..(2 * Len(Workflows) + 3)
      BY <2>1 DEF Turn
    <2>3. ASSUME k # 0, k <= Len(stack) PROVE stack[k].i \in 0..(MaxDeps + 1)
      <3>0. stack \in Seq(Frame) /\ k \in 1..Len(stack) /\ DOMAIN stack = 1..Len(stack)
        BY <1>1, <2>1, <2>3, LenProperties DEF SearchInv, TypeOK
      <3>1. k \in DOMAIN stack /\ stack[k].node \in Names
        <4>1. stack[k] \in Frame
          BY <3>0, ElementOfSeq
        <4> QED
          BY <3>0, <4>1 DEF Frame
      <3>2. stack[k].i \in 1..(Len(adj[stack[k].node]) + 1) /\ Len(adj[stack[k].node]) \in Nat
        BY <1>1, <3>1, LenProperties DEF SearchInv, TypeOK
      <3>3. Len(adj[stack[k].node]) <= MaxDeps
        BY <1>1, <3>1 DEF ListsAreShort
      <3>4. \A n, d \in Nat : \A i \in 1..(n + 1) : n <= d => i \in 0..(d + 1)
        OBVIOUS
      <3> QED
        BY <2>1, <3>2, <3>3, <3>4
    <2>4. CASE k = 0
      BY <2>1, <2>2, <2>4 DEF Place, Depth
    <2>5. CASE k # 0 /\ k <= Len(stack)
      <3>1. Place(k) = stack[k].i /\ ~ k > Depth
        BY <2>1, <2>5 DEF Place, Depth
      <3> QED
        BY <2>1, <2>3, <2>5, <3>1
    <2>6. CASE k # 0 /\ ~ k <= Len(stack)
      BY <2>1, <2>6 DEF Place
    <2> QED
      BY <2>4, <2>5, <2>6
  <1>2. ASSUME SearchInv, Shallow', [Next]_vars
        PROVE  [\E k \in 0..Depth : /\ Place(k)' > Place(k)
                                    /\ \A j \in 0..(k - 1) : Place(j)' = Place(j)]_vars
    <2> SUFFICES ASSUME Next
                 PROVE  \E k \in 0..Depth : /\ Place(k)' > Place(k)
                                            /\ \A j \in 0..(k - 1) : Place(j)' = Place(j)
      BY <1>2
    <2>0. /\ Len(Workflows) \in Nat /\ 0 \in 0..Depth
          /\ TypeOK /\ root \in 1..(Len(Workflows) + 1)
          /\ Len(stack) \in 0..Depth /\ (Len(stack) \in 0..Depth)'
      BY <1>2, WorkflowNames, StackIsShallow DEF SearchInv, TypeOK, Depth, Shallow
    <2>1. ASSUME Turn' > Turn
          PROVE  \E k \in 0..Depth : /\ Place(k)' > Place(k)
                                     /\ \A j \in 0..(k - 1) : Place(j)' = Place(j)
      BY <2>0, <2>1 DEF Place
    <2>2. CASE NextRoot
      <3>1. \A n \in Names : Called(n) # <<>>
        BY <2>0, CalledFacts, EmptySeq
      <3>2. Workflows[root] \in Names
        BY <2>0, <2>2, WorkflowNames DEF NextRoot
      <3>3. answer' = "none" /\ answer = "none" /\ stack = <<>> /\ root' = root + 1
        BY <2>2 DEF NextRoot
      <3>4. Turn' > Turn
        BY <2>0, <3>3 DEF Turn
      <3> QED
        BY <2>1, <3>4
    <2>3. ASSUME answer = "none", answer' # "none"
          PROVE  Turn' > Turn
      BY <2>0, <2>3 DEF Turn
    <2>4. CASE NoCycle
      BY <2>1, <2>3, <2>4 DEF NoCycle
    <2>5. CASE Descend
      <3>1. CASE state[Entry] = 1
        BY <2>1, <2>3, <2>5, <3>1 DEF Descend
      <3>2. CASE state[Entry] # 1
        <4>1. /\ stack' = Called(Entry) /\ answer' = answer /\ root' = root
              /\ stack # <<>> /\ Top.i <= Len(adj[Top.node])
          BY <2>5, <3>2 DEF Descend
        <4>2. Entry \in Names
          BY <2>0, <4>1, TopFacts, ElementOfSeq DEF Entry
        <4>3. /\ Len(stack') = Len(stack) + 1 /\ stack'[Len(stack) + 1].i = 1
              /\ \A k \in 1..Len(stack) : stack'[k] = stack[k]
          BY <2>0, <4>1, <4>2, CalledFacts
        <4>4. stack' # <<>>
          BY <2>0, <4>3
        <4>5. Turn' = Turn
          BY <4>1, <4>4 DEF Turn
        <4>6. PICK n \in 0..Depth : n = Len(stack) + 1
          BY <2>0, <4>3 DEF Depth
        <4>7. Place(n) = 0 /\ Place(n)' = 1
          BY <2>0, <4>3, <4>6 DEF Place
        <4>8. \A j \in 0..(n - 1) : Place(j)' = Place(j)
          BY <2>0, <4>3, <4>5, <4>6 DEF Place
        <4> QED
          BY <2>0, <4>6, <4>7, <4>8
      <3> QED
        BY <3>1, <3>2
    <2>6. CASE Leave
      <3>0. PICK last \in Nat : last = Len(stack) - 1
        BY <2>0, <2>6, TopFacts DEF Leave
      <3>1. /\ stack' = Popped /\ answer' = "none" /\ answer = "none"
            /\ root' = root /\ stack # <<>>
        BY <2>6 DEF Leave, Popped
      <3>2. /\ Len(stack') = last
            /\ \A k \in 1..last : stack'[k].i = IF k = last THEN stack[k].i + 1 ELSE stack[k].i
        BY <2>0, <3>0, <3>1, PoppedFacts
      <3>3. CASE last = 0
        <4>1. stack' = <<>>
          BY <2>0, <3>1, <3>2, <3>3, PoppedFacts, EmptySeq
        <4>2. Turn' > Turn
          BY <2>0, <3>1, <4>1 DEF Turn
        <4> QED
          BY <2>1, <4>2
      <3>4. CASE last # 0
        <4>1. stack' # <<>>
          BY <3>2, <3>4
        <4>2. Turn' = Turn
          BY <3>1, <4>1 DEF Turn
        <4>3. stack[last].i \in Nat
          <5>1. last \in 1..Len(stack) /\ stack \in Seq(Frame)
            BY <2>0, <3>0, <3>4 DEF TypeOK
          <5>2. stack[last] \in Frame
            BY <5>1, ElementOfSeq
          <5> QED
            BY <5>2 DEF Frame
        <4>4. last \in 0..Depth
          BY <2>0, <3>0 DEF Depth
        <4>5. Place(last)' > Place(last)
          BY <3>0, <3>2, <3>4, <4>3 DEF Place
        <4>6. \A j \in 0..(last - 1) : Place(j)' = Place(j)
          BY <2>0, <3>0, <3>2, <3>4, <4>2 DEF Place
        <4> QED
          BY <4>4, <4>5, <4>6
      <3> QED
        BY <3>3, <3>4
    <2> QED
      BY <2>2, <2>4, <2>5, <2>6 DEF Next
  <1> QED
    BY <1>1, <1>2, StackIsShallow, SearchInvariant, ListsStayShort, PTL DEF Spec, PlacesGrow
==============================================================================
