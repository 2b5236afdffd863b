--------------------------- MODULE WorkflowsProofs ---------------------------
(***************************************************************************)
(* The generated class Workflows executes dependencies first, and records  *)
(* what completed and nothing else, for every document and every pattern   *)
(* of failures.                                                            *)
(***************************************************************************)
EXTENDS Workflows, Integers, SequenceTheorems, FiniteSetTheorems, TLAPS

-----------------------------------------------------------------------------
(* The stack of calls *)

LEMMA PushFacts ==
    ASSUME NEW s \in Seq(Frame), NEW f \in Frame
    PROVE  /\ Append(s, f) \in Seq(Frame)
           /\ Len(Append(s, f)) = Len(s) + 1
           /\ \A k \in 1..Len(s) : Append(s, f)[k] = s[k]
           /\ Append(s, f)[Len(s) + 1] = f
  BY AppendProperties

LEMMA ReplaceFacts ==
    ASSUME NEW s \in Seq(Frame), s # <<>>, NEW f \in Frame
    PROVE  /\ [s EXCEPT ![Len(s)] = f] \in Seq(Frame)
           /\ Len([s EXCEPT ![Len(s)] = f]) = Len(s)
           /\ \A k \in 1..(Len(s) - 1) : [s EXCEPT ![Len(s)] = f][k] = s[k]
           /\ [s EXCEPT ![Len(s)] = f][Len(s)] = f
  <1>1. Len(s) \in Nat \ {0}
    BY EmptySeq, LenProperties
  <1>2. Len(s) \in 1..Len(s) /\ \A k \in 1..(Len(s) - 1) : k \in 1..Len(s) /\ k # Len(s)
    BY <1>1
  <1>3. /\ [s EXCEPT ![Len(s)] = f] \in Seq(Frame)
        /\ Len([s EXCEPT ![Len(s)] = f]) = Len(s)
        /\ \A k \in 1..Len(s) :
             [s EXCEPT ![Len(s)] = f][k] = IF k = Len(s) THEN f ELSE s[k]
    BY <1>2, ExceptSeq
  <1> QED
    BY <1>2, <1>3

LEMMA PopFacts ==
    ASSUME NEW s \in Seq(Frame), s # <<>>
    PROVE  /\ SubSeq(s, 1, Len(s) - 1) \in Seq(Frame)
           /\ Len(SubSeq(s, 1, Len(s) - 1)) = Len(s) - 1
           /\ \A k \in 1..(Len(s) - 1) : SubSeq(s, 1, Len(s) - 1)[k] = s[k]
  <1>1. Len(s) \in Nat \ {0} /\ \A k \in 1..Len(s) : s[k] \in Frame
    BY EmptySeq, LenProperties, ElementOfSeq
  <1> DEFINE L == Len(s) - 1
             P == SubSeq(s, 1, L)
  <1>2. L \in Nat /\ L \in Int /\ \A k \in 1..L : s[k] \in Frame
    BY <1>1
  <1> HIDE DEF L
  <1>3. /\ P \in Seq(Frame)
        /\ Len(P) = IF 1 <= L THEN L - 1 + 1 ELSE 0
        /\ \A k \in 1..(L - 1 + 1) : P[k] = s[1 + k - 1]
    BY <1>2, SubSeqProperties
  <1> HIDE DEF P
  <1>4. Len(P) = L /\ \A k \in 1..L : P[k] = s[k]
    BY <1>2, <1>3
  <1> QED
    BY <1>3, <1>4 DEF P, L

LEMMA StackFacts ==
    ASSUME NEW s \in Seq(Frame)
    PROVE  /\ Len(s) \in Nat /\ DOMAIN s = 1..Len(s)
           /\ \A k \in 1..Len(s) : s[k] \in Frame
           /\ s # <<>> => Len(s) \in Nat \ {0} /\ s[Len(s)] \in Frame
  <1>1. Len(s) \in Nat /\ DOMAIN s = 1..Len(s) /\ \A k \in 1..Len(s) : s[k] \in Frame
    BY LenProperties, ElementOfSeq
  <1>2. s # <<>> => Len(s) \in Nat \ {0}
    BY EmptySeq, LenProperties
  <1>3. ASSUME s # <<>> PROVE s[Len(s)] \in Frame
    BY <1>1, <1>2, <1>3
  <1> QED
    BY <1>1, <1>2, <1>3

LEMMA NewFrame == ASSUME NEW w \in Ids PROVE Called(w) \in Frame
  <1>1. 0 \in 0..MaxRetry /\ 1 \in Nat \ {0}
    BY DocumentsAssumption
  <1> QED
    BY <1>1 DEF Called, Frame

LEMMA DocumentFacts ==
    ASSUME doc \in Document, NEW w \in Ids
    PROVE  /\ doc.deps[w] \in Seq(Ids) /\ Len(doc.deps[w]) \in Nat
           /\ DOMAIN doc.deps[w] = 1..Len(doc.deps[w])
           /\ \A j \in 1..Len(doc.deps[w]) : doc.deps[w][j] \in Ids
           /\ doc.steps[w] \in Seq(Step) /\ Len(doc.steps[w]) \in Nat
           /\ \A i \in 1..Len(doc.steps[w]) : doc.steps[w][i] \in Step
  <1>1. doc.deps[w] \in Seq(Ids) /\ doc.steps[w] \in Seq(Step)
    BY DEF Document
  <1> QED
    BY <1>1, LenProperties, ElementOfSeq

-----------------------------------------------------------------------------
(* The invariant *)

\* The workflow whose method the code of a frame calls where it stands.
Awaited(f) ==
    IF f.dep <= Len(doc.deps[f.wf]) THEN doc.deps[f.wf][f.dep]
    ELSE doc.steps[f.wf][f.step].does

\* Every call but the last waits for the next one.
Linked == \A k \in 1..(Len(stack) - 1) : stack[k + 1].wf = Awaited(stack[k])

\* The dependencies a call has passed were executed.
Passed(f) == \A j \in 1..Len(doc.deps[f.wf]) : j < f.dep => doc.deps[f.wf][j] \in executed

PassedExecuted == \A k \in 1..Len(stack) : Passed(stack[k])

\* The dependency that returned a value has recorded itself.
ReturnedExecuted == Busy /\ ret = "ok" /\ InDeps => Dep \in executed

ExecutedClosed == \A w \in executed : DependsOn(w) \subseteq executed

WorkflowsInv ==
    /\ TypeOK
    /\ Linked
    /\ PassedExecuted
    /\ ReturnedExecuted
    /\ ExecutedClosed
    /\ ExecutedIsCompleted

LEMMA WorkflowsInit == Init => WorkflowsInv
  <1> SUFFICES ASSUME Init PROVE WorkflowsInv
    OBVIOUS
  <1>1. stack = <<>> /\ stack \in Seq(Frame) /\ Len(stack) = 0
    BY EmptySeq DEF Init
  <1>2. doc \in Document
    BY DocumentsAssumption DEF Init
  <1>3. TypeOK
    BY <1>1, <1>2, DocumentsAssumption DEF Init, TypeOK
  <1>4. ExecutedIsCompleted
    BY DEF Init, ExecutedIsCompleted
  <1>5. Linked /\ PassedExecuted /\ ReturnedExecuted /\ ExecutedClosed
    BY <1>1 DEF Init, Linked, PassedExecuted, ReturnedExecuted, ExecutedClosed, Busy
  <1> QED
    BY <1>3, <1>4, <1>5 DEF WorkflowsInv

\* What is at the top of the stack while a call is made.
LEMMA TopFacts ==
    ASSUME TypeOK, Busy
    PROVE  /\ Len(stack) \in Nat \ {0} /\ Top \in Frame /\ Top.wf \in Ids
           /\ InDeps => Dep \in Ids /\ Top.dep \in 1..Len(doc.deps[Top.wf])
           /\ InSteps => Current \in Step
  <1>1. Len(stack) \in Nat \ {0} /\ Top \in Frame
    BY StackFacts DEF TypeOK, Busy, Top
  <1>2. Top.wf \in Ids /\ Top.dep \in Nat \ {0} /\ Top.step \in Nat \ {0}
    BY <1>1 DEF Frame
  <1>3. InDeps => Top.dep \in 1..Len(doc.deps[Top.wf])
    BY <1>2, DocumentFacts DEF InDeps, TypeOK
  <1>4. InSteps => Top.step \in 1..Len(doc.steps[Top.wf])
    BY <1>2, DocumentFacts DEF InSteps, TypeOK
  <1> QED
    BY <1>1, <1>2, <1>3, <1>4, DocumentFacts DEF TypeOK, Dep, Current

\* A call is pushed for the workflow the top waits for.
LEMMA PushKeeps ==
    ASSUME WorkflowsInv, Busy, NEW w \in Ids, w = Awaited(Top),
           stack' = Append(stack, Called(w)), ret' = "none",
           UNCHANGED <<doc, client, executed, calls, runs>>,
           asked' \in [Ids -> Nat]
    PROVE  WorkflowsInv'
  <1> DEFINE S == Append(stack, Called(w))
  <1>1. stack \in Seq(Frame) /\ Called(w) \in Frame
    BY NewFrame DEF WorkflowsInv, TypeOK
  <1>2. /\ S \in Seq(Frame) /\ Len(S) = Len(stack) + 1
        /\ \A k \in 1..Len(stack) : S[k] = stack[k]
        /\ S[Len(stack) + 1] = Called(w)
    BY <1>1, PushFacts
  <1>3. Len(stack) \in Nat \ {0} /\ Top = stack[Len(stack)]
    BY TopFacts DEF WorkflowsInv, Top
  <1>4. stack' = S
    OBVIOUS
  <1> HIDE DEF S
  <1>5. TypeOK'
    BY <1>2, <1>4 DEF WorkflowsInv, TypeOK
  <1>6. Linked'
    <2> SUFFICES ASSUME NEW k \in 1..(Len(S) - 1) PROVE S[k + 1].wf = Awaited(S[k])
      BY <1>4 DEF Linked, Awaited
    <2>1. CASE k = Len(stack)
      BY <1>2, <1>3, <2>1 DEF Called
    <2>2. CASE k # Len(stack)
      <3>1. k \in 1..(Len(stack) - 1) /\ k \in 1..Len(stack) /\ k + 1 \in 1..Len(stack)
        BY <1>2, <1>3, <2>2
      <3> QED
        BY <3>1, <1>2 DEF WorkflowsInv, Linked
    <2> QED
      BY <2>1, <2>2
  <1>7. PassedExecuted'
    <2> SUFFICES ASSUME NEW k \in 1..Len(S) PROVE Passed(S[k])
      BY <1>4 DEF PassedExecuted, Passed
    <2>1. CASE k = Len(stack) + 1
      BY <1>2, <2>1 DEF Called, Passed
    <2>2. CASE k # Len(stack) + 1
      <3>1. k \in 1..Len(stack)
        BY <1>2, <1>3, <2>2
      <3> QED
        BY <3>1, <1>2 DEF WorkflowsInv, PassedExecuted
    <2> QED
      BY <2>1, <2>2
  <1> QED
    BY <1>5, <1>6, <1>7
       DEF WorkflowsInv, ReturnedExecuted, ExecutedClosed, ExecutedIsCompleted, DependsOn

\* The top goes on in its method, past dependencies that were executed.
LEMMA ReplaceKeeps ==
    ASSUME WorkflowsInv, Busy, NEW f \in Frame, f.wf = Top.wf, Passed(f),
           stack' = Replace(f), ret' = "none",
           UNCHANGED <<doc, client, executed, calls, asked, runs>>
    PROVE  WorkflowsInv'
  <1> DEFINE S == [stack EXCEPT ![Len(stack)] = f]
  <1>1. stack \in Seq(Frame) /\ stack # <<>>
    BY DEF WorkflowsInv, TypeOK, Busy
  <1>2. /\ S \in Seq(Frame) /\ Len(S) = Len(stack)
        /\ \A k \in 1..(Len(stack) - 1) : S[k] = stack[k]
        /\ S[Len(stack)] = f
    BY <1>1, ReplaceFacts
  <1>3. Len(stack) \in Nat \ {0} /\ Top = stack[Len(stack)]
    BY TopFacts DEF WorkflowsInv, Top
  <1>4. stack' = S
    BY DEF Replace
  <1> HIDE DEF S
  <1>5. TypeOK'
    BY <1>2, <1>4 DEF WorkflowsInv, TypeOK
  <1>6. \A k \in 1..Len(stack) : S[k].wf = stack[k].wf
    BY <1>2, <1>3
  <1>7. Linked'
    <2> SUFFICES ASSUME NEW k \in 1..(Len(S) - 1) PROVE S[k + 1].wf = Awaited(S[k])
      BY <1>4 DEF Linked, Awaited
    <2>1. k \in 1..(Len(stack) - 1) /\ k + 1 \in 1..Len(stack)
      BY <1>2, <1>3
    <2> QED
      BY <2>1, <1>2, <1>6 DEF WorkflowsInv, Linked
  <1>8. PassedExecuted'
    <2> SUFFICES ASSUME NEW k \in 1..Len(S) PROVE Passed(S[k])
      BY <1>4 DEF PassedExecuted, Passed
    <2>1. CASE k = Len(stack)
      BY <1>2, <2>1
    <2>2. CASE k # Len(stack)
      <3>1. k \in 1..(Len(stack) - 1) /\ k \in 1..Len(stack)
        BY <1>2, <1>3, <2>2
      <3> QED
        BY <3>1, <1>2 DEF WorkflowsInv, PassedExecuted
    <2> QED
      BY <2>1, <2>2
  <1> QED
    BY <1>5, <1>7, <1>8
       DEF WorkflowsInv, ReturnedExecuted, ExecutedClosed, ExecutedIsCompleted, DependsOn

\* A method returns an error.
LEMMA FailKeeps ==
    ASSUME WorkflowsInv, Busy, stack' = Pop, ret' = "err",
           UNCHANGED <<doc, client, executed, calls, asked, runs>>
    PROVE  WorkflowsInv'
  <1> DEFINE S == SubSeq(stack, 1, Len(stack) - 1)
  <1>1. stack \in Seq(Frame) /\ stack # <<>>
    BY DEF WorkflowsInv, TypeOK, Busy
  <1>2. /\ S \in Seq(Frame) /\ Len(S) = Len(stack) - 1
        /\ \A k \in 1..(Len(stack) - 1) : S[k] = stack[k]
    BY <1>1, PopFacts
  <1>3. Len(stack) \in Nat \ {0}
    BY TopFacts DEF WorkflowsInv
  <1>4. stack' = S
    BY DEF Pop
  <1> HIDE DEF S
  <1>5. TypeOK'
    BY <1>2, <1>4 DEF WorkflowsInv, TypeOK
  <1>6. Linked'
    <2> SUFFICES ASSUME NEW k \in 1..(Len(S) - 1) PROVE S[k + 1].wf = Awaited(S[k])
      BY <1>4 DEF Linked, Awaited
    <2>1. k \in 1..(Len(stack) - 1) /\ k + 1 \in 1..(Len(stack) - 1)
      BY <1>2, <1>3
    <2> QED
      BY <2>1, <1>2 DEF WorkflowsInv, Linked
  <1>7. PassedExecuted'
    <2> SUFFICES ASSUME NEW k \in 1..Len(S) PROVE Passed(S[k])
      BY <1>4 DEF PassedExecuted, Passed
    <2>1. k \in 1..(Len(stack) - 1) /\ k \in 1..Len(stack)
      BY <1>2, <1>3
    <2> QED
      BY <2>1, <1>2 DEF WorkflowsInv, PassedExecuted
  <1> QED
    BY <1>5, <1>6, <1>7
       DEF WorkflowsInv, ReturnedExecuted, ExecutedClosed, ExecutedIsCompleted, DependsOn

\* A method returns a value: the caller waits for the workflow it is the method of.
LEMMA FinishKeeps == ASSUME WorkflowsInv, Finish PROVE WorkflowsInv'
  <1> DEFINE S == SubSeq(stack, 1, Len(stack) - 1)
  <1>0. Busy /\ ~ InDeps /\ doc' = doc
    BY DEF Finish, Running
  <1>1. stack \in Seq(Frame) /\ stack # <<>>
    BY <1>0 DEF WorkflowsInv, TypeOK, Busy
  <1>2. /\ S \in Seq(Frame) /\ Len(S) = Len(stack) - 1
        /\ \A k \in 1..(Len(stack) - 1) : S[k] = stack[k]
    BY <1>1, PopFacts
  <1>3. /\ Len(stack) \in Nat \ {0} /\ Top = stack[Len(stack)]
        /\ Top \in Frame /\ Top.wf \in Ids
    BY <1>0, TopFacts DEF WorkflowsInv, Top
  <1>4. stack' = S /\ executed' = executed \union {Top.wf}
    BY DEF Finish, Pop
  <1> HIDE DEF S
  <1>5. TypeOK'
    <2>1. runs' \in [Ids -> Nat]
      BY <1>3 DEF Finish, WorkflowsInv, TypeOK
    <2> QED
      BY <1>2, <1>3, <1>4, <2>1 DEF Finish, WorkflowsInv, TypeOK
  <1>6. Linked'
    <2> SUFFICES ASSUME NEW k \in 1..(Len(S) - 1) PROVE S[k + 1].wf = Awaited(S[k])
      BY <1>0, <1>4 DEF Linked, Awaited
    <2>1. k \in 1..(Len(stack) - 1) /\ k + 1 \in 1..(Len(stack) - 1)
      BY <1>2, <1>3
    <2> QED
      BY <2>1, <1>2 DEF WorkflowsInv, Linked
  <1>7. PassedExecuted'
    <2> SUFFICES ASSUME NEW k \in 1..Len(S)
                 PROVE  \A j \in 1..Len(doc.deps[S[k].wf]) :
                            j < S[k].dep => doc.deps[S[k].wf][j] \in executed'
      BY <1>0, <1>4 DEF PassedExecuted, Passed
    <2>1. k \in 1..(Len(stack) - 1) /\ k \in 1..Len(stack)
      BY <1>2, <1>3
    <2>2. Passed(S[k])
      BY <2>1, <1>2 DEF WorkflowsInv, PassedExecuted
    <2> QED
      BY <2>2, <1>0, <1>4 DEF Passed
  <1>8. DependsOn(Top.wf) \subseteq executed
    <2>1. Passed(Top)
      BY <1>3 DEF WorkflowsInv, PassedExecuted
    <2>2. ~ (Top.dep <= Len(doc.deps[Top.wf])) /\ Top.dep \in Nat
      BY <1>0, <1>3 DEF InDeps, Frame
    <2>3. Len(doc.deps[Top.wf]) \in Nat /\ DOMAIN doc.deps[Top.wf] = 1..Len(doc.deps[Top.wf])
      BY <1>3, DocumentFacts DEF WorkflowsInv, TypeOK
    <2> QED
      BY <2>1, <2>2, <2>3 DEF Passed, DependsOn, Members
  <1>9. ReturnedExecuted'
    <2> SUFFICES ASSUME S # <<>>, S[Len(S)].dep <= Len(doc.deps[S[Len(S)].wf])
                 PROVE  doc.deps[S[Len(S)].wf][S[Len(S)].dep] \in executed'
      BY <1>0, <1>4 DEF ReturnedExecuted, Busy, InDeps, Dep, Top
    <2>1. Len(S) \in Nat \ {0} /\ Len(S) \in 1..(Len(stack) - 1) /\ Len(S) + 1 = Len(stack)
      BY <1>2, <1>3, StackFacts
    <2>2. Top.wf = Awaited(S[Len(S)])
      BY <2>1, <1>2, <1>3 DEF WorkflowsInv, Linked
    <2> QED
      BY <2>2, <1>4 DEF Awaited
  <1>10. ExecutedClosed'
    BY <1>0, <1>4, <1>8 DEF WorkflowsInv, ExecutedClosed, DependsOn
  <1>11. ExecutedIsCompleted'
    <2>1. runs \in [Ids -> Nat] /\ runs' = [runs EXCEPT ![Top.wf] = @ + 1]
      BY DEF Finish, WorkflowsInv, TypeOK
    <2>2. \A w \in Ids : runs'[w] > 0 <=> w \in executed \union {Top.wf}
      <3> SUFFICES ASSUME NEW w \in Ids PROVE runs'[w] > 0 <=> w \in executed \union {Top.wf}
        OBVIOUS
      <3>1. CASE w = Top.wf
        BY <2>1, <3>1
      <3>2. CASE w # Top.wf
        <4>1. runs'[w] = runs[w]
          BY <2>1, <3>2
        <4> QED
          BY <4>1, <3>2 DEF WorkflowsInv, ExecutedIsCompleted
      <3> QED
        BY <3>1, <3>2
    <2>3. executed \subseteq Ids
      BY DEF WorkflowsInv, TypeOK
    <2> QED
      BY <2>2, <2>3, <1>3, <1>4 DEF ExecutedIsCompleted
  <1> QED
    BY <1>5, <1>6, <1>7, <1>9, <1>10, <1>11 DEF WorkflowsInv

\* An attempt ends: the step goes on to the next, or again, or the method fails.
LEMMA SettleKeeps ==
    ASSUME WorkflowsInv, Busy, ~ InDeps, InSteps, NEW ok, Settle(ok),
           UNCHANGED <<doc, client, executed, calls, asked, runs>>
    PROVE  WorkflowsInv'
  <1>1. Top \in Frame /\ Current \in Step /\ Passed(Top)
    <2>1. Len(stack) \in Nat \ {0} /\ Top = stack[Len(stack)]
      BY TopFacts DEF WorkflowsInv, Top
    <2> QED
      BY <2>1, TopFacts DEF WorkflowsInv, PassedExecuted
  <1>2. MaxRetry \in Nat /\ Current.retry \in 0..MaxRetry
    BY <1>1, DocumentsAssumption DEF Step
  <1>3. /\ Top.wf \in Ids /\ Top.dep \in Nat \ {0} /\ Top.step \in Nat \ {0}
        /\ Top.attempt \in 0..MaxRetry
    BY <1>1 DEF Frame
  <1>4. ASSUME NEW s \in Nat \ {0}, NEW a \in 0..MaxRetry
        PROVE  /\ [Top EXCEPT !.step = s, !.attempt = a] \in Frame
               /\ [Top EXCEPT !.step = s, !.attempt = a].wf = Top.wf
               /\ Passed([Top EXCEPT !.step = s, !.attempt = a])
    BY <1>1 DEF Frame, Passed
  <1>5. CASE stack' = Replace([Top EXCEPT !.step = @ + 1, !.attempt = 0]) /\ ret' = "none"
    <2> DEFINE f == [Top EXCEPT !.step = Top.step + 1, !.attempt = 0]
    <2>1. Top.step + 1 \in Nat \ {0} /\ 0 \in 0..MaxRetry
      BY <1>2, <1>3
    <2>2. f \in Frame /\ f.wf = Top.wf /\ Passed(f)
      BY <1>4, <2>1
    <2>3. stack' = Replace(f)
      BY <1>5
    <2> HIDE DEF f
    <2> QED
      BY <1>5, <2>2, <2>3, ReplaceKeeps
  <1>6. CASE /\ Top.attempt < Current.retry
             /\ stack' = Replace([Top EXCEPT !.attempt = @ + 1]) /\ ret' = "none"
    <2> DEFINE f == [Top EXCEPT !.attempt = @ + 1]
    <2>1. Top.attempt + 1 \in 0..MaxRetry
      BY <1>2, <1>3, <1>6
    <2>2. f \in Frame /\ f.wf = Top.wf /\ Passed(f)
      BY <1>1, <2>1 DEF Frame, Passed
    <2>3. stack' = Replace(f)
      BY <1>6
    <2> HIDE DEF f
    <2> QED
      BY <1>6, <2>2, <2>3, ReplaceKeeps
  <1>7. CASE stack' = Pop /\ ret' = "err"
    BY <1>7, FailKeeps
  <1> QED
    BY <1>5, <1>6, <1>7 DEF Settle

\* The top passes a dependency that was executed.
LEMMA AdvanceKeeps ==
    ASSUME WorkflowsInv, Busy, InDeps, Dep \in executed,
           stack' = Replace([Top EXCEPT !.dep = @ + 1]), ret' = "none",
           UNCHANGED <<doc, client, executed, calls, asked, runs>>
    PROVE  WorkflowsInv'
  <1> DEFINE f == [Top EXCEPT !.dep = @ + 1]
  <1>1. /\ Top \in Frame /\ Passed(Top) /\ Top.dep \in 1..Len(doc.deps[Top.wf])
        /\ Top.dep \in Nat \ {0} /\ Len(doc.deps[Top.wf]) \in Nat
    <2>1. Len(stack) \in Nat \ {0} /\ Top = stack[Len(stack)]
      BY TopFacts DEF WorkflowsInv, Top
    <2>2. Top \in Frame /\ Top.wf \in Ids /\ Top.dep \in 1..Len(doc.deps[Top.wf])
      BY TopFacts DEF WorkflowsInv
    <2>3. Passed(Top)
      BY <2>1 DEF WorkflowsInv, PassedExecuted
    <2>4. Len(doc.deps[Top.wf]) \in Nat
      BY <2>2, DocumentFacts DEF WorkflowsInv, TypeOK
    <2>5. Top.dep \in Nat \ {0}
      BY <2>2 DEF Frame
    <2> QED
      BY ONLY <2>2, <2>3, <2>4, <2>5
  <1>2. f \in Frame /\ f.wf = Top.wf /\ f.dep = Top.dep + 1
    BY <1>1 DEF Frame
  <1> HIDE DEF f
  <1>3. Passed(f)
    <2> SUFFICES ASSUME NEW j \in 1..Len(doc.deps[Top.wf]), j < Top.dep + 1
                 PROVE  doc.deps[Top.wf][j] \in executed
      BY <1>2 DEF Passed
    <2>1. CASE j = Top.dep
      BY <2>1 DEF Dep
    <2>2. CASE j # Top.dep
      <3>1. j < Top.dep
        BY <1>1, <2>2
      <3> QED
        BY <1>1, <3>1 DEF Passed
    <2> QED
      BY <2>1, <2>2
  <1>4. stack' = Replace(f)
    BY DEF f
  <1> QED
    BY <1>2, <1>3, <1>4, ReplaceKeeps

LEMMA WorkflowsStep == WorkflowsInv /\ [Next]_vars => WorkflowsInv'
  <1> SUFFICES ASSUME WorkflowsInv, [Next]_vars PROVE WorkflowsInv'
    OBVIOUS
  <1>1. ASSUME NEW w \in Ids, Call(w) PROVE WorkflowsInv'
    <2> DEFINE c == Called(w)
    <2>1. c \in Frame /\ c.wf = w /\ c.dep = 1
      BY NewFrame DEF Called
    <2>2. stack' = <<c>>
      BY <1>1 DEF Call
    <2> HIDE DEF c
    <2>3. stack' \in Seq(Frame) /\ Len(stack') = 1 /\ stack'[1] = c
      BY <2>1, <2>2
    <2>4. TypeOK'
      <3>1. calls' \in 0..MaxCalls
        BY <1>1, DocumentsAssumption DEF Call, WorkflowsInv, TypeOK
      <3>2. asked' \in [Ids -> Nat]
        BY <1>1 DEF Call, WorkflowsInv, TypeOK
      <3> QED
        BY <1>1, <2>3, <3>1, <3>2 DEF Call, WorkflowsInv, TypeOK
    <2>5. Linked'
      BY <2>3 DEF Linked
    <2>6. PassedExecuted'
      BY <2>1, <2>3 DEF PassedExecuted, Passed
    <2> QED
      BY <1>1, <2>4, <2>5, <2>6
         DEF Call, WorkflowsInv, ReturnedExecuted, ExecutedClosed, ExecutedIsCompleted, DependsOn
  <1>2. ASSUME NullClient PROVE WorkflowsInv'
    BY <1>2, FailKeeps DEF NullClient
  <1>3. ASSUME NextDependency PROVE WorkflowsInv'
    <2>1. Busy /\ InDeps /\ ret' = "none" /\ Dep \in Ids
      BY <1>3, TopFacts DEF NextDependency, Running, WorkflowsInv
    <2>2. CASE Dep \in executed
      BY <1>3, <2>1, <2>2, AdvanceKeeps DEF NextDependency
    <2>3. CASE Dep \notin executed
      <3>1. Dep = Awaited(Top)
        BY <2>1 DEF Awaited, Dep, InDeps
      <3>2. asked' \in [Ids -> Nat]
        BY <1>3 DEF NextDependency, WorkflowsInv, TypeOK
      <3>3. stack' = Append(stack, Called(Dep))
        BY <1>3, <2>3 DEF NextDependency
      <3>4. UNCHANGED <<doc, client, executed, calls, runs>>
        BY <1>3 DEF NextDependency
      <3> QED
        BY <2>1, <3>1, <3>2, <3>3, <3>4, PushKeeps
    <2> QED
      BY <2>2, <2>3
  <1>4. ASSUME DependencyReturns PROVE WorkflowsInv'
    <2>1. Busy /\ InDeps
      BY <1>4 DEF DependencyReturns
    <2>2. CASE ret = "ok"
      <3>1. Dep \in executed
        BY <2>1, <2>2 DEF WorkflowsInv, ReturnedExecuted
      <3>2. UNCHANGED executed
        BY <1>4, <2>2, <3>1 DEF DependencyReturns
      <3> QED
        BY <1>4, <2>1, <2>2, <3>1, <3>2, AdvanceKeeps DEF DependencyReturns
    <2>3. CASE ret # "ok"
      <3>1. ret' = "err"
        BY <1>4, <2>3 DEF DependencyReturns, WorkflowsInv, TypeOK
      <3> QED
        BY <1>4, <2>1, <2>3, <3>1, FailKeeps DEF DependencyReturns
    <2> QED
      BY <2>2, <2>3
  <1>5. ASSUME NEW ok \in BOOLEAN, Operate(ok) PROVE WorkflowsInv'
    BY <1>5, SettleKeeps DEF Operate, Running, InSteps
  <1>6. ASSUME CallWorkflow PROVE WorkflowsInv'
    <2>1. Busy /\ ~ InDeps /\ InSteps /\ ret' = "none"
      BY <1>6 DEF CallWorkflow, Running, InSteps
    <2>2. Current.does \in Ids
      BY <1>6, <2>1, TopFacts DEF CallWorkflow, WorkflowsInv, Step
    <2>3. Current.does = Awaited(Top)
      BY <2>1 DEF Awaited, Current, InDeps
    <2>4. asked' \in [Ids -> Nat]
      BY <1>6, <2>2 DEF CallWorkflow, WorkflowsInv, TypeOK
    <2>5. /\ stack' = Append(stack, Called(Current.does))
          /\ UNCHANGED <<doc, client, executed, calls, runs>>
      BY <1>6 DEF CallWorkflow
    <2> QED
      BY <2>1, <2>2, <2>3, <2>4, <2>5, PushKeeps
  <1>7. ASSUME StepReturns PROVE WorkflowsInv'
    BY <1>7, SettleKeeps DEF StepReturns, InSteps
  <1>8. ASSUME Finish PROVE WorkflowsInv'
    BY <1>8, FinishKeeps
  <1>9. CASE UNCHANGED vars
    BY <1>9 DEF vars, WorkflowsInv, TypeOK, Linked, Awaited, PassedExecuted, Passed,
                ReturnedExecuted, Busy, InDeps, Dep, Top, ExecutedClosed, DependsOn,
                ExecutedIsCompleted
  <1> QED
    BY <1>1, <1>2, <1>3, <1>4, <1>5, <1>6, <1>7, <1>8, <1>9 DEF Next, Work

-----------------------------------------------------------------------------
(* The theorems *)

THEOREM WorkflowsInvariant == Spec => []WorkflowsInv
  BY WorkflowsInit, WorkflowsStep, PTL DEF Spec

\* Every variable of the generated object keeps its type in every run.
THEOREM TypeCorrect == Spec => []TypeOK
  <1>1. WorkflowsInv => TypeOK
    BY DEF WorkflowsInv
  <1> QED
    BY <1>1, WorkflowsInvariant, PTL

\* In the generated methods no step is made before all dependencies of its
\* workflow, direct or not, were executed, whatever fails and is retried.
THEOREM DependenciesComeFirst == Spec => []DependenciesFirst
  <1>1. ASSUME WorkflowsInv PROVE DependenciesFirst
    <2>1. ASSUME NEW k \in DOMAIN stack, stack[k].dep > Len(doc.deps[stack[k].wf])
          PROVE  DependsOn(stack[k].wf) \subseteq executed
      <3>1. k \in 1..Len(stack) /\ stack[k] \in Frame
        BY <1>1, StackFacts DEF WorkflowsInv, TypeOK
      <3>2. stack[k].wf \in Ids /\ stack[k].dep \in Nat
        BY <3>1 DEF Frame
      <3>3. /\ Len(doc.deps[stack[k].wf]) \in Nat
            /\ DOMAIN doc.deps[stack[k].wf] = 1..Len(doc.deps[stack[k].wf])
        BY <1>1, <3>2, DocumentFacts DEF WorkflowsInv, TypeOK
      <3>4. Passed(stack[k])
        BY <1>1, <3>1 DEF WorkflowsInv, PassedExecuted
      <3> QED
        BY <2>1, <3>2, <3>3, <3>4 DEF Passed, DependsOn, Members
    <2> QED
      BY <1>1, <2>1 DEF DependenciesFirst, WorkflowsInv, ExecutedClosed
  <1> QED
    BY <1>1, WorkflowsInvariant, PTL

\* executed_workflows_ says exactly which methods returned a value, so the next
\* workflow that needs a dependency that failed runs it again.
THEOREM ExecutedAreCompleted == Spec => []ExecutedIsCompleted
  <1>1. WorkflowsInv => ExecutedIsCompleted
    BY DEF WorkflowsInv
  <1> QED
    BY <1>1, WorkflowsInvariant, PTL

-----------------------------------------------------------------------------
(* Circles of uses, and how often a workflow completes *)

\* The steps a call has passed that name a workflow were answered with a value.
Made(f) == \A j \in 1..Len(doc.steps[f.wf]) :
               j < f.step => doc.steps[f.wf][j].does \in executed \union {Operation}

MadeExecuted == \A k \in 1..Len(stack) : Made(stack[k])

\* A method that returned a value has recorded itself, whoever called it.
ReturnedCompleted == Busy /\ ret = "ok" => Awaited(Top) \in executed

\* A call is made for a dependency or a step of the workflow that makes it.
CallsAreUses == \A k \in 1..(Len(stack) - 1) : stack[k + 1].wf \in Uses(doc)[stack[k].wf]

\* No workflow completes that needs, directly or not, itself.
CirclesWait == \A T \in SUBSET Ids : Trap(T, Uses(doc)) => T \intersect executed = {}

OnStack(w) == \E k \in 1..Len(stack) : stack[k].wf = w

\* A call in progress is one that was asked for, or the first that completes.
RunsCounted ==
    \A w \in Ids : /\ runs[w] <= asked[w] + 1
                   /\ OnStack(w) => runs[w] <= asked[w]

UsesInv == MadeExecuted /\ ReturnedCompleted /\ CallsAreUses /\ CirclesWait /\ RunsCounted

LEMMA UsesFacts ==
    ASSUME doc \in Document, NEW w \in Ids
    PROVE  /\ \A j \in 1..Len(doc.deps[w]) : doc.deps[w][j] \in Uses(doc)[w]
           /\ \A j \in 1..Len(doc.steps[w]) : doc.steps[w][j].does \in Uses(doc)[w]
           /\ \A u \in Uses(doc)[w] :
                 \/ \E j \in 1..Len(doc.deps[w]) : u = doc.deps[w][j]
                 \/ \E j \in 1..Len(doc.steps[w]) : u = doc.steps[w][j].does
  <1>1. /\ DOMAIN doc.deps[w] = 1..Len(doc.deps[w])
        /\ DOMAIN doc.steps[w] = 1..Len(doc.steps[w])
    <2>1. doc.deps[w] \in Seq(Ids) /\ doc.steps[w] \in Seq(Step)
      BY DocumentFacts
    <2> QED
      BY <2>1, LenProperties
  <1> QED
    BY <1>1 DEF Uses, Members

\* Two calls of one method in progress: the workflows between them wait for each
\* other in a circle.
LEMMA ReentryIsCircle ==
    ASSUME TypeOK, CallsAreUses,
           NEW i \in 1..Len(stack), NEW j \in 1..Len(stack), i < j, stack[i].wf = stack[j].wf
    PROVE  \E T \in SUBSET Ids : stack[i].wf \in T /\ Trap(T, Uses(doc))
  <1> DEFINE T == {stack[k].wf : k \in i..(j - 1)}
  <1>1. Len(stack) \in Nat /\ \A k \in 1..Len(stack) : stack[k].wf \in Ids
    BY StackFacts DEF TypeOK, Frame
  <1>2. i \in i..(j - 1) /\ \A k \in i..(j - 1) : k \in 1..Len(stack) /\ k \in 1..(Len(stack) - 1)
    BY <1>1
  <1>3. T \in SUBSET Ids /\ stack[i].wf \in T
    BY <1>1, <1>2
  <1>4. ASSUME NEW k \in i..(j - 1) PROVE \E m \in T : m \in Uses(doc)[stack[k].wf]
    <2>1. stack[k + 1].wf \in Uses(doc)[stack[k].wf]
      BY <1>2 DEF CallsAreUses
    <2>2. CASE k = j - 1
      <3>1. k + 1 = j
        BY <1>1, <2>2
      <3>2. stack[i].wf \in Uses(doc)[stack[k].wf]
        BY <2>1, <3>1
      <3> QED
        BY <1>3, <3>2
    <2>3. CASE k # j - 1
      <3>1. k + 1 \in i..(j - 1)
        BY <1>1, <2>3
      <3> QED
        BY <2>1, <3>1
    <2> QED
      BY <2>2, <2>3
  <1>5. Trap(T, Uses(doc))
    BY <1>4 DEF Trap
  <1> QED
    BY <1>3, <1>5

LEMMA UsesInit == Init => UsesInv
  <1> SUFFICES ASSUME Init PROVE UsesInv
    OBVIOUS
  <1>1. Len(stack) = 0 /\ ~ Busy /\ executed = {}
    BY DEF Init, Busy
  <1>2. RunsCounted
    BY <1>1 DEF Init, RunsCounted, OnStack
  <1> QED
    BY <1>1, <1>2 DEF UsesInv, MadeExecuted, ReturnedCompleted, CallsAreUses, CirclesWait

LEMMA PushKeepsUses ==
    ASSUME WorkflowsInv, UsesInv, Busy, NEW w \in Ids, w \in Uses(doc)[Top.wf],
           stack' = Append(stack, Called(w)), ret' = "none",
           UNCHANGED <<doc, executed, runs>>,
           asked' \in [Ids -> Nat], \A v \in Ids : asked[v] <= asked'[v], runs[w] <= asked'[w]
    PROVE  UsesInv'
  <1> DEFINE S == Append(stack, Called(w))
  <1>1. stack \in Seq(Frame) /\ Called(w) \in Frame
    BY NewFrame DEF WorkflowsInv, TypeOK
  <1>2. /\ S \in Seq(Frame) /\ Len(S) = Len(stack) + 1
        /\ \A k \in 1..Len(stack) : S[k] = stack[k]
        /\ S[Len(stack) + 1] = Called(w)
    BY <1>1, PushFacts
  <1>3. Len(stack) \in Nat \ {0} /\ Top = stack[Len(stack)]
    BY TopFacts DEF WorkflowsInv, Top
  <1>4. stack' = S
    OBVIOUS
  <1>5. Called(w).wf = w /\ Called(w).step = 1
    BY DEF Called
  <1> HIDE DEF S
  <1>6. MadeExecuted'
    <2> SUFFICES ASSUME NEW k \in 1..Len(S) PROVE Made(S[k])
      BY <1>4 DEF MadeExecuted, Made
    <2>1. CASE k = Len(stack) + 1
      BY <1>2, <1>5, <2>1 DEF Made
    <2>2. CASE k # Len(stack) + 1
      <3>1. k \in 1..Len(stack)
        BY <1>2, <1>3, <2>2
      <3> QED
        BY <3>1, <1>2 DEF UsesInv, MadeExecuted
    <2> QED
      BY <2>1, <2>2
  <1>7. CallsAreUses'
    <2> SUFFICES ASSUME NEW k \in 1..(Len(S) - 1) PROVE S[k + 1].wf \in Uses(doc)[S[k].wf]
      BY <1>4 DEF CallsAreUses
    <2>1. CASE k = Len(stack)
      BY <1>2, <1>3, <1>5, <2>1
    <2>2. CASE k # Len(stack)
      <3>1. k \in 1..(Len(stack) - 1) /\ k \in 1..Len(stack) /\ k + 1 \in 1..Len(stack)
        BY <1>2, <1>3, <2>2
      <3> QED
        BY <3>1, <1>2 DEF UsesInv, CallsAreUses
    <2> QED
      BY <2>1, <2>2
  <1>8. RunsCounted'
    <2> SUFFICES ASSUME NEW v \in Ids
                 PROVE  /\ runs[v] <= asked'[v] + 1
                        /\ (\E k \in 1..Len(S) : S[k].wf = v) => runs[v] <= asked'[v]
      BY <1>4 DEF RunsCounted, OnStack
    <2>1. runs[v] \in Nat /\ asked[v] \in Nat /\ asked'[v] \in Nat /\ asked[v] <= asked'[v]
      BY DEF WorkflowsInv, TypeOK
    <2>2. runs[v] <= asked[v] + 1 /\ (OnStack(v) => runs[v] <= asked[v])
      BY DEF UsesInv, RunsCounted
    <2>3. ASSUME NEW k \in 1..Len(S), S[k].wf = v PROVE v = w \/ OnStack(v)
      <3>1. CASE k = Len(stack) + 1
        BY <1>2, <1>5, <2>3, <3>1
      <3>2. CASE k # Len(stack) + 1
        <4>1. k \in 1..Len(stack)
          BY <1>2, <1>3, <3>2
        <4> QED
          BY <4>1, <1>2, <2>3 DEF OnStack
      <3> QED
        BY <3>1, <3>2
    <2> QED
      BY <2>1, <2>2, <2>3
  <1> QED
    BY <1>6, <1>7, <1>8 DEF UsesInv, ReturnedCompleted, CirclesWait

LEMMA ReplaceKeepsUses ==
    ASSUME WorkflowsInv, UsesInv, Busy, NEW f \in Frame, f.wf = Top.wf, Made(f),
           stack' = Replace(f), ret' = "none", UNCHANGED <<doc, executed, asked, runs>>
    PROVE  UsesInv'
  <1> DEFINE S == [stack EXCEPT ![Len(stack)] = f]
  <1>1. stack \in Seq(Frame) /\ stack # <<>>
    BY DEF WorkflowsInv, TypeOK, Busy
  <1>2. /\ S \in Seq(Frame) /\ Len(S) = Len(stack)
        /\ \A k \in 1..(Len(stack) - 1) : S[k] = stack[k]
        /\ S[Len(stack)] = f
    BY <1>1, ReplaceFacts
  <1>3. Len(stack) \in Nat \ {0} /\ Top = stack[Len(stack)]
    BY TopFacts DEF WorkflowsInv, Top
  <1>4. stack' = S
    BY DEF Replace
  <1> HIDE DEF S
  <1>5. \A k \in 1..Len(stack) : S[k].wf = stack[k].wf
    BY <1>2, <1>3
  <1>6. MadeExecuted'
    <2> SUFFICES ASSUME NEW k \in 1..Len(S) PROVE Made(S[k])
      BY <1>4 DEF MadeExecuted, Made
    <2>1. CASE k = Len(stack)
      BY <1>2, <2>1
    <2>2. CASE k # Len(stack)
      <3>1. k \in 1..(Len(stack) - 1) /\ k \in 1..Len(stack)
        BY <1>2, <1>3, <2>2
      <3> QED
        BY <3>1, <1>2 DEF UsesInv, MadeExecuted
    <2> QED
      BY <2>1, <2>2
  <1>7. CallsAreUses'
    <2> SUFFICES ASSUME NEW k \in 1..(Len(S) - 1) PROVE S[k + 1].wf \in Uses(doc)[S[k].wf]
      BY <1>4 DEF CallsAreUses
    <2>1. k \in 1..(Len(stack) - 1) /\ k \in 1..Len(stack) /\ k + 1 \in 1..Len(stack)
      BY <1>2, <1>3
    <2> QED
      BY <2>1, <1>5 DEF UsesInv, CallsAreUses
  <1>8. RunsCounted'
    <2>1. \A v \in Ids : OnStack(v)' => OnStack(v)
      BY <1>2, <1>4, <1>5 DEF OnStack
    <2> QED
      BY <2>1 DEF UsesInv, RunsCounted
  <1> QED
    BY <1>6, <1>7, <1>8 DEF UsesInv, ReturnedCompleted, CirclesWait

\* What holds of the calls that stay when the last one returns.
LEMMA PopKeepsUses ==
    ASSUME WorkflowsInv, UsesInv, Busy, stack' = Pop, doc' = doc, executed \subseteq executed'
    PROVE  /\ MadeExecuted' /\ CallsAreUses'
           /\ Len(stack) \in Nat \ {0} /\ Top = stack[Len(stack)]
           /\ stack' \in Seq(Frame) /\ Len(stack') = Len(stack) - 1
           /\ \A k \in 1..(Len(stack) - 1) : stack'[k] = stack[k]
           /\ \A v \in Ids : OnStack(v)' => OnStack(v)
  <1> DEFINE S == SubSeq(stack, 1, Len(stack) - 1)
  <1>1. stack \in Seq(Frame) /\ stack # <<>>
    BY DEF WorkflowsInv, TypeOK, Busy
  <1>2. /\ S \in Seq(Frame) /\ Len(S) = Len(stack) - 1
        /\ \A k \in 1..(Len(stack) - 1) : S[k] = stack[k]
    BY <1>1, PopFacts
  <1>3. Len(stack) \in Nat \ {0} /\ Top = stack[Len(stack)]
    BY TopFacts DEF WorkflowsInv, Top
  <1>4. stack' = S
    BY DEF Pop
  <1> HIDE DEF S
  <1>5. \A k \in 1..(Len(stack) - 1) : k \in 1..Len(stack)
    BY <1>3
  <1>6. MadeExecuted'
    <2> SUFFICES ASSUME NEW k \in 1..Len(S)
                 PROVE  \A j \in 1..Len(doc.steps[S[k].wf]) : j < S[k].step =>
                            doc.steps[S[k].wf][j].does \in executed' \union {Operation}
      BY <1>4 DEF MadeExecuted, Made
    <2>1. Made(S[k])
      BY <1>2, <1>5 DEF UsesInv, MadeExecuted
    <2> QED
      BY <2>1 DEF Made
  <1>7. CallsAreUses'
    <2> SUFFICES ASSUME NEW k \in 1..(Len(S) - 1) PROVE S[k + 1].wf \in Uses(doc)[S[k].wf]
      BY <1>4 DEF CallsAreUses
    <2>1. k \in 1..(Len(stack) - 1) /\ k + 1 \in 1..(Len(stack) - 1)
      BY <1>2, <1>3
    <2> QED
      BY <2>1, <1>2 DEF UsesInv, CallsAreUses
  <1>8. \A v \in Ids : OnStack(v)' => OnStack(v)
    BY <1>2, <1>4, <1>5 DEF OnStack
  <1> QED
    BY <1>2, <1>3, <1>4, <1>6, <1>7, <1>8

LEMMA FailKeepsUses ==
    ASSUME WorkflowsInv, UsesInv, Busy, stack' = Pop, ret' = "err",
           UNCHANGED <<doc, executed, asked, runs>>
    PROVE  UsesInv'
  <1>1. MadeExecuted' /\ CallsAreUses' /\ \A v \in Ids : OnStack(v)' => OnStack(v)
    BY PopKeepsUses
  <1>2. RunsCounted'
    BY <1>1 DEF UsesInv, RunsCounted
  <1> QED
    BY <1>1, <1>2 DEF UsesInv, ReturnedCompleted, CirclesWait

\* A workflow that completes uses only workflows that have, so it is in no circle.
LEMMA FinisherInNoCircle ==
    ASSUME WorkflowsInv, UsesInv, Finish,
           NEW T \in SUBSET Ids, Trap(T, Uses(doc))
    PROVE  Top.wf \notin T
  <1>1. /\ Top \in Frame /\ Top.wf \in Ids /\ Passed(Top) /\ Made(Top)
        /\ ~ InDeps /\ ~ InSteps
    <2>1. Busy /\ ~ InDeps /\ ~ InSteps
      BY DEF Finish, Running
    <2>2. Len(stack) \in Nat \ {0} /\ Top = stack[Len(stack)]
      BY <2>1, TopFacts DEF WorkflowsInv, Top
    <2>3. Passed(Top) /\ Made(Top)
      BY <2>2 DEF WorkflowsInv, PassedExecuted, UsesInv, MadeExecuted
    <2> QED
      BY <2>1, <2>3, TopFacts DEF WorkflowsInv
  <1>2. Top.dep \in Nat /\ Top.step \in Nat
    BY <1>1 DEF Frame
  <1>3. Len(doc.deps[Top.wf]) \in Nat /\ Len(doc.steps[Top.wf]) \in Nat
    BY <1>1, DocumentFacts DEF WorkflowsInv, TypeOK
  <1>4. Len(doc.deps[Top.wf]) < Top.dep /\ Len(doc.steps[Top.wf]) < Top.step
    BY <1>1, <1>2, <1>3 DEF InDeps, InSteps
  <1>5. ASSUME NEW u \in Ids, u \in Uses(doc)[Top.wf] PROVE u \in executed
    <2>1. ASSUME NEW j \in 1..Len(doc.deps[Top.wf]), u = doc.deps[Top.wf][j]
          PROVE  u \in executed
      BY <1>1, <1>2, <1>3, <1>4, <2>1 DEF Passed
    <2>2. ASSUME NEW j \in 1..Len(doc.steps[Top.wf]), u = doc.steps[Top.wf][j].does
          PROVE  u \in executed
      <3>1. j < Top.step
        BY <1>2, <1>3, <1>4
      <3>2. u \in executed \union {Operation}
        BY <1>1, <2>2, <3>1 DEF Made
      <3> QED
        BY <3>2, DocumentsAssumption
    <2> QED
      BY <1>1, <1>5, <2>1, <2>2, UsesFacts DEF WorkflowsInv, TypeOK
  <1>6. T \intersect executed = {}
    BY DEF UsesInv, CirclesWait
  <1> QED
    BY <1>5, <1>6 DEF Trap

LEMMA FinishKeepsUses == ASSUME WorkflowsInv, UsesInv, Finish PROVE UsesInv'
  <1>0. /\ Busy /\ doc' = doc /\ stack' = Pop /\ asked' = asked
        /\ executed' = executed \union {Top.wf}
        /\ runs' = [runs EXCEPT ![Top.wf] = @ + 1]
    BY DEF Finish, Running
  <1>1. /\ MadeExecuted' /\ CallsAreUses'
        /\ Len(stack) \in Nat \ {0} /\ Top = stack[Len(stack)]
        /\ stack' \in Seq(Frame) /\ Len(stack') = Len(stack) - 1
        /\ \A k \in 1..(Len(stack) - 1) : stack'[k] = stack[k]
        /\ \A v \in Ids : OnStack(v)' => OnStack(v)
    BY <1>0, PopKeepsUses
  <1>2. ReturnedCompleted'
    <2> SUFFICES ASSUME stack' # <<>> PROVE Awaited(stack'[Len(stack')]) \in executed'
      BY <1>0 DEF ReturnedCompleted, Busy, Top, Awaited
    <2>1. Len(stack') \in 1..(Len(stack) - 1) /\ Len(stack') + 1 = Len(stack)
      BY <1>1, StackFacts
    <2>2. stack'[Len(stack')] = stack[Len(stack')]
      BY <1>1, <2>1
    <2>3. Top.wf = Awaited(stack[Len(stack')])
      BY <1>1, <2>1 DEF WorkflowsInv, Linked
    <2> QED
      BY <1>0, <2>2, <2>3
  <1>3. CirclesWait'
    BY <1>0, FinisherInNoCircle DEF UsesInv, CirclesWait
  <1>4. RunsCounted'
    <2> SUFFICES ASSUME NEW v \in Ids
                 PROVE  /\ runs'[v] <= asked[v] + 1
                        /\ OnStack(v)' => runs'[v] <= asked[v]
      BY <1>0 DEF RunsCounted
    <2>1. runs \in [Ids -> Nat] /\ asked \in [Ids -> Nat]
      BY DEF WorkflowsInv, TypeOK
    <2>2. runs[v] <= asked[v] + 1 /\ (OnStack(v) => runs[v] <= asked[v])
      BY DEF UsesInv, RunsCounted
    <2>3. CASE v # Top.wf
      <3>1. runs'[v] = runs[v]
        BY <1>0, <2>1, <2>3
      <3> QED
        BY <1>1, <2>2, <3>1
    <2>4. CASE v = Top.wf
      <3>1. Len(stack) \in 1..Len(stack)
        BY <1>1
      <3>2. OnStack(v)
        BY <1>1, <2>4, <3>1 DEF OnStack
      <3>3. runs'[v] = runs[v] + 1
        BY <1>0, <2>1, <2>4
      <3>4. ASSUME NEW k \in 1..Len(stack'), stack'[k].wf = v PROVE FALSE
        <4>1. k \in 1..Len(stack) /\ k < Len(stack) /\ stack[k].wf = stack[Len(stack)].wf
          BY <1>1, <2>4, <3>4
        <4>2. \E T \in SUBSET Ids : stack[k].wf \in T /\ Trap(T, Uses(doc))
          BY <3>1, <4>1, ReentryIsCircle DEF WorkflowsInv, UsesInv
        <4> QED
          BY <1>1, <4>1, <4>2, FinisherInNoCircle
      <3>5. ~ OnStack(v)'
        BY <3>4 DEF OnStack
      <3> QED
        BY <2>1, <2>2, <3>2, <3>3, <3>5
    <2> QED
      BY <2>3, <2>4
  <1> QED
    BY <1>1, <1>2, <1>3, <1>4 DEF UsesInv

LEMMA SettleKeepsUses ==
    ASSUME WorkflowsInv, UsesInv, Busy, ~ InDeps, InSteps, NEW ok, Settle(ok),
           ok => Current.does \in executed \union {Operation},
           UNCHANGED <<doc, executed, asked, runs>>
    PROVE  UsesInv'
  <1>1. Top \in Frame /\ Current \in Step /\ Made(Top)
    <2>1. Len(stack) \in Nat \ {0} /\ Top = stack[Len(stack)]
      BY TopFacts DEF WorkflowsInv, Top
    <2> QED
      BY <2>1, TopFacts DEF WorkflowsInv, UsesInv, MadeExecuted
  <1>2. MaxRetry \in Nat /\ Current.retry \in 0..MaxRetry
    BY <1>1, DocumentsAssumption DEF Step
  <1>3. /\ Top.wf \in Ids /\ Top.dep \in Nat \ {0} /\ Top.step \in Nat \ {0}
        /\ Top.attempt \in 0..MaxRetry
    BY <1>1 DEF Frame
  <1>4. CASE ok /\ stack' = Replace([Top EXCEPT !.step = @ + 1, !.attempt = 0]) /\ ret' = "none"
    <2> DEFINE f == [Top EXCEPT !.step = Top.step + 1, !.attempt = 0]
    <2>1. Top.step + 1 \in Nat \ {0} /\ 0 \in 0..MaxRetry
      BY <1>2, <1>3
    <2>2. f \in Frame /\ f.wf = Top.wf /\ f.step = Top.step + 1
      BY <1>1, <2>1 DEF Frame
    <2>3. stack' = Replace(f)
      BY <1>4
    <2> HIDE DEF f
    <2>4. Made(f)
      <3> SUFFICES ASSUME NEW j \in 1..Len(doc.steps[Top.wf]), j < Top.step + 1
                   PROVE  doc.steps[Top.wf][j].does \in executed \union {Operation}
        BY <2>2 DEF Made
      <3>1. CASE j = Top.step
        BY <1>4, <3>1 DEF Current
      <3>2. CASE j # Top.step
        <4>1. j < Top.step
          BY <1>3, <3>2, DocumentFacts DEF WorkflowsInv, TypeOK
        <4> QED
          BY <1>1, <4>1 DEF Made
      <3> QED
        BY <3>1, <3>2
    <2> QED
      BY <1>4, <2>2, <2>3, <2>4, ReplaceKeepsUses
  <1>5. CASE /\ Top.attempt < Current.retry
             /\ stack' = Replace([Top EXCEPT !.attempt = @ + 1]) /\ ret' = "none"
    <2> DEFINE f == [Top EXCEPT !.attempt = @ + 1]
    <2>1. Top.attempt + 1 \in 0..MaxRetry
      BY <1>2, <1>3, <1>5
    <2>2. f \in Frame /\ f.wf = Top.wf /\ Made(f)
      BY <1>1, <2>1 DEF Frame, Made
    <2>3. stack' = Replace(f)
      BY <1>5
    <2> HIDE DEF f
    <2> QED
      BY <1>5, <2>2, <2>3, ReplaceKeepsUses
  <1>6. CASE stack' = Pop /\ ret' = "err"
    BY <1>6, FailKeepsUses
  <1> QED
    BY <1>4, <1>5, <1>6 DEF Settle

LEMMA AdvanceKeepsUses ==
    ASSUME WorkflowsInv, UsesInv, Busy, InDeps,
           stack' = Replace([Top EXCEPT !.dep = @ + 1]), ret' = "none",
           UNCHANGED <<doc, executed, asked, runs>>
    PROVE  UsesInv'
  <1> DEFINE f == [Top EXCEPT !.dep = @ + 1]
  <1>1. Top \in Frame /\ Made(Top)
    <2>1. Len(stack) \in Nat \ {0} /\ Top = stack[Len(stack)]
      BY TopFacts DEF WorkflowsInv, Top
    <2> QED
      BY <2>1, TopFacts DEF WorkflowsInv, UsesInv, MadeExecuted
  <1>2. f \in Frame /\ f.wf = Top.wf /\ Made(f)
    BY <1>1 DEF Frame, Made
  <1>3. stack' = Replace(f)
    OBVIOUS
  <1> HIDE DEF f
  <1> QED
    BY <1>2, <1>3, ReplaceKeepsUses

LEMMA UsesStep == WorkflowsInv /\ UsesInv /\ [Next]_vars => UsesInv'
  <1> SUFFICES ASSUME WorkflowsInv, UsesInv, [Next]_vars PROVE UsesInv'
    OBVIOUS
  <1>0. /\ doc \in Document /\ stack \in Seq(Frame)
        /\ runs \in [Ids -> Nat] /\ asked \in [Ids -> Nat]
    BY DEF WorkflowsInv, TypeOK
  <1>1. ASSUME NEW w \in Ids, Call(w) PROVE UsesInv'
    <2> DEFINE c == Called(w)
    <2>1. c.wf = w /\ c.step = 1
      BY DEF Called
    <2>2. stack' = <<c>>
      BY <1>1 DEF Call
    <2> HIDE DEF c
    <2>3. Len(stack') = 1 /\ stack'[1] = c
      BY <2>2
    <2>4. MadeExecuted' /\ CallsAreUses'
      BY <2>1, <2>3 DEF MadeExecuted, Made, CallsAreUses
    <2>5. RunsCounted'
      <3> SUFFICES ASSUME NEW v \in Ids
                   PROVE  /\ runs[v] <= asked'[v] + 1
                          /\ OnStack(v)' => runs[v] <= asked'[v]
        BY <1>1 DEF Call, RunsCounted
      <3>1. asked' = [asked EXCEPT ![w] = @ + 1]
        BY <1>1 DEF Call
      <3>2. OnStack(v)' => v = w
        BY <2>1, <2>3 DEF OnStack
      <3>3. runs[v] <= asked[v] + 1
        BY DEF UsesInv, RunsCounted
      <3>4. asked'[v] = IF v = w THEN asked[v] + 1 ELSE asked[v]
        BY <1>0, <3>1
      <3>5. runs[v] \in Nat /\ asked[v] \in Nat
        BY <1>0
      <3> QED
        BY <3>2, <3>3, <3>4, <3>5
    <2> QED
      BY <1>1, <2>4, <2>5 DEF Call, UsesInv, ReturnedCompleted, CirclesWait
  <1>2. ASSUME NullClient PROVE UsesInv'
    BY <1>2, FailKeepsUses DEF NullClient
  <1>3. ASSUME NextDependency PROVE UsesInv'
    <2>1. Busy /\ InDeps /\ ret' = "none" /\ UNCHANGED <<doc, executed, asked, runs>>
      BY <1>3 DEF NextDependency, Running
    <2>2. CASE Dep \in executed
      BY <1>3, <2>1, <2>2, AdvanceKeepsUses DEF NextDependency
    <2>3. CASE Dep \notin executed
      <3>1. Dep \in Ids /\ Top.wf \in Ids /\ Top.dep \in 1..Len(doc.deps[Top.wf])
        BY <2>1, TopFacts DEF WorkflowsInv
      <3>2. Dep \in Uses(doc)[Top.wf]
        BY <1>0, <3>1, UsesFacts DEF Dep
      <3>3. stack' = Append(stack, Called(Dep))
        BY <1>3, <2>3 DEF NextDependency
      <3>4. runs[Dep] \in Nat /\ ~ (runs[Dep] > 0)
        BY <1>0, <2>3, <3>1 DEF WorkflowsInv, ExecutedIsCompleted
      <3>5. \A v \in Ids : asked'[v] \in Nat /\ asked[v] <= asked'[v]
        BY <1>0, <2>1
      <3>6. runs[Dep] <= asked'[Dep] /\ asked' \in [Ids -> Nat]
        BY <1>0, <2>1, <3>1, <3>4, <3>5
      <3> QED
        BY <2>1, <3>1, <3>2, <3>3, <3>5, <3>6, PushKeepsUses
    <2> QED
      BY <2>2, <2>3
  <1>4. ASSUME DependencyReturns PROVE UsesInv'
    <2>1. Busy /\ InDeps /\ UNCHANGED <<doc, asked, runs>>
      BY <1>4 DEF DependencyReturns
    <2>2. CASE ret = "ok"
      <3>1. UNCHANGED executed
        BY <1>4, <2>1, <2>2 DEF DependencyReturns, WorkflowsInv, ReturnedExecuted
      <3> QED
        BY <1>4, <2>1, <2>2, <3>1, AdvanceKeepsUses DEF DependencyReturns
    <2>3. CASE ret # "ok"
      <3>1. ret' = "err"
        BY <1>4, <2>3 DEF DependencyReturns, WorkflowsInv, TypeOK
      <3> QED
        BY <1>4, <2>1, <2>3, <3>1, FailKeepsUses DEF DependencyReturns
    <2> QED
      BY <2>2, <2>3
  <1>5. ASSUME NEW ok \in BOOLEAN, Operate(ok) PROVE UsesInv'
    BY <1>5, SettleKeepsUses DEF Operate, Running, InSteps
  <1>6. ASSUME CallWorkflow PROVE UsesInv'
    <2>1. /\ Busy /\ ~ InDeps /\ InSteps /\ ret' = "none"
          /\ stack' = Append(stack, Called(Current.does))
          /\ asked' = [asked EXCEPT ![Current.does] = @ + 1]
          /\ UNCHANGED <<doc, executed, runs>>
      BY <1>6 DEF CallWorkflow, Running, InSteps
    <2>2. Current.does \in Ids
      BY <1>6, <2>1, TopFacts DEF CallWorkflow, WorkflowsInv, Step
    <2>3. Top.wf \in Ids /\ Top \in Frame
      BY <2>1, TopFacts DEF WorkflowsInv
    <2>4. Top.step \in 1..Len(doc.steps[Top.wf])
      BY <1>0, <2>1, <2>3, DocumentFacts DEF InSteps, Frame
    <2>5. Current.does \in Uses(doc)[Top.wf]
      BY <1>0, <2>3, <2>4, UsesFacts DEF Current
    <2>6. /\ asked' \in [Ids -> Nat] /\ asked'[Current.does] = asked[Current.does] + 1
          /\ \A v \in Ids : asked[v] <= asked'[v]
      <3>1. \A v \in Ids : asked'[v] = IF v = Current.does THEN asked[v] + 1 ELSE asked[v]
        BY <1>0, <2>1
      <3>2. \A v \in Ids : asked[v] \in Nat
        BY <1>0
      <3> QED
        BY <1>0, <2>1, <2>2, <3>1, <3>2
    <2>7. runs[Current.does] <= asked'[Current.does]
      BY <2>2, <2>6 DEF UsesInv, RunsCounted
    <2> QED
      BY <2>1, <2>2, <2>5, <2>6, <2>7, PushKeepsUses
  <1>7. ASSUME StepReturns PROVE UsesInv'
    <2>1. Busy /\ ~ InDeps /\ InSteps /\ UNCHANGED <<doc, executed, asked, runs>>
      BY <1>7 DEF StepReturns, InSteps
    <2>2. ret = "ok" => Current.does \in executed
      BY <2>1 DEF UsesInv, ReturnedCompleted, Awaited, InDeps, Current
    <2> QED
      BY <1>7, <2>1, <2>2, SettleKeepsUses DEF StepReturns
  <1>8. ASSUME Finish PROVE UsesInv'
    BY <1>8, FinishKeepsUses
  <1>9. CASE UNCHANGED vars
    BY <1>9 DEF vars, UsesInv, MadeExecuted, Made, ReturnedCompleted, Busy, Top, Awaited,
                CallsAreUses, CirclesWait, RunsCounted, OnStack
  <1> QED
    BY <1>1, <1>2, <1>3, <1>4, <1>5, <1>6, <1>7, <1>8, <1>9 DEF Next, Work

THEOREM UsesInvariant == Spec => []UsesInv
  BY WorkflowsInit, WorkflowsStep, UsesInit, UsesStep, PTL DEF Spec

\* Whatever fails and is retried, and in every document parse accepts, one with a
\* circle of dependencies and steps included: a workflow completes once as a
\* dependency, and once more for each call by name.
THEOREM DependencyRunsOnce == Spec => []OnceAsDependency
  <1>1. UsesInv => OnceAsDependency
    BY DEF UsesInv, RunsCounted, OnceAsDependency
  <1> QED
    BY <1>1, UsesInvariant, PTL

\* The generated methods only re-enter each other when dependencies and steps of
\* the document together make a circle, which parse does not look for; then no
\* workflow of the circle ever completes.
THEOREM ReentryNeedsCircle ==
    Spec => [](/\ ~ Cyclic(Uses(doc)) => NoReentry
               /\ \A T \in SUBSET Ids : Trap(T, Uses(doc)) => T \intersect executed = {})
  <1>1. ASSUME WorkflowsInv, UsesInv, ~ Cyclic(Uses(doc)) PROVE NoReentry
    <2>1. ASSUME NEW i \in 1..Len(stack), NEW j \in 1..Len(stack), i < j,
                 stack[i].wf = stack[j].wf
          PROVE  FALSE
      <3>1. PICK T \in SUBSET Ids : stack[i].wf \in T /\ Trap(T, Uses(doc))
        BY <1>1, <2>1, ReentryIsCircle DEF WorkflowsInv, UsesInv
      <3>2. DOMAIN Uses(doc) = Ids
        BY DEF Uses
      <3>3. Cyclic(Uses(doc))
        BY <3>1, <3>2 DEF Cyclic
      <3> QED
        BY <1>1, <3>3
    <2>2. Len(stack) \in Nat /\ DOMAIN stack = 1..Len(stack)
      BY <1>1, StackFacts DEF WorkflowsInv, TypeOK
    <2> SUFFICES ASSUME NEW i \in 1..Len(stack), NEW j \in 1..Len(stack),
                        stack[i].wf = stack[j].wf
                 PROVE  i = j
      BY <2>2 DEF NoReentry
    <2> QED
      BY <2>1, <2>2
  <1>2. UsesInv => \A T \in SUBSET Ids : Trap(T, Uses(doc)) => T \intersect executed = {}
    BY DEF UsesInv, CirclesWait
  <1> QED
    BY <1>1, <1>2, WorkflowsInvariant, UsesInvariant, PTL
-----------------------------------------------------------------------------
(* Why a call returns *)

\* How far a call has come: its dependency, its step, its attempt, and whether
\* what it called has returned.
Digit(k, c) ==
    IF k \notin 1..Len(stack) THEN 0
    ELSE CASE c = 1 -> stack[k].dep
           [] c = 2 -> stack[k].step
           [] c = 3 -> stack[k].attempt
           [] c = 4 -> IF k = Len(stack) /\ ret # "none" THEN 1 ELSE 0
Before(j, e, k, c) == j < k \/ (j = k /\ e < c)

\* A step carries a place on and leaves the places before it as they are.
Grows ==
    \E k \in Nat, c \in 1..4 :
        /\ Digit(k, c)' > Digit(k, c)
        /\ \A j \in Nat, e \in 1..4 : Before(j, e, k, c) => Digit(j, e)' = Digit(j, e)
MethodsGoOn == [][Busy => ~ Busy' \/ Grows]_vars

InLists ==
    \A k \in 1..Len(stack) : /\ stack[k].dep <= Len(doc.deps[stack[k].wf]) + 1
                             /\ stack[k].step <= Len(doc.steps[stack[k].wf]) + 1
                             /\ stack[k].attempt <= MaxRetry
Shallow == ~ Cyclic(Uses(doc)) => Len(stack) <= Len(Workflows)

\* The next place of the call on top.
Further(f) ==
    /\ f \in Frame /\ f.wf = Top.wf
    /\ \/ f.dep = Top.dep + 1 /\ InDeps /\ f.step = Top.step
       \/ f.dep = Top.dep /\ f.step = Top.step + 1 /\ InSteps
       \/ f.dep = Top.dep /\ f.step = Top.step /\ f.attempt = Top.attempt + 1

Pushes   == \E w \in Ids : stack' = Append(stack, Called(w)) /\ ret = "none" /\ ret' = "none"
Proceeds == \E f \in Frame : Further(f) /\ stack' = Replace(f) /\ ret' = "none"
Returns  == stack' = Pop /\ ret' # "none"

LEMMA SettleMoves ==
    ASSUME WorkflowsInv, Busy, InSteps, NEW ok, Settle(ok)
    PROVE  Proceeds \/ Returns
  <1>1. /\ Top \in Frame /\ Current \in Step
    BY TopFacts DEF WorkflowsInv
  <1>2. /\ Top.step \in Nat \ {0} /\ Top.attempt \in 0..MaxRetry /\ Current.retry \in 0..MaxRetry
        /\ MaxRetry \in Nat
    BY <1>1, DocumentsAssumption DEF Frame, Step
  <1>3. ASSUME stack' = Replace([Top EXCEPT !.step = @ + 1, !.attempt = 0]), ret' = "none"
        PROVE  Proceeds
    <2> DEFINE f == [Top EXCEPT !.step = @ + 1, !.attempt = 0]
    <2>0. 0 \in 0..MaxRetry /\ Top.step + 1 \in Nat \ {0}
      BY <1>2
    <2>1. f \in Frame /\ f.wf = Top.wf /\ f.dep = Top.dep /\ f.step = Top.step + 1
      BY <1>1, <2>0 DEF Frame
    <2> HIDE DEF f
    <2>2. Further(f)
      BY <2>1 DEF Further
    <2>3. stack' = Replace(f)
      BY <1>3 DEF f
    <2> QED
      BY <1>3, <2>1, <2>2, <2>3 DEF Proceeds
  <1>4. ASSUME stack' = Replace([Top EXCEPT !.attempt = @ + 1]), ret' = "none",
               Top.attempt < Current.retry
        PROVE  Proceeds
    <2> DEFINE f == [Top EXCEPT !.attempt = @ + 1]
    <2>1. Top.attempt + 1 \in 0..MaxRetry
      BY <1>2, <1>4
    <2>2. f \in Frame /\ f.wf = Top.wf /\ f.dep = Top.dep /\ f.step = Top.step
          /\ f.attempt = Top.attempt + 1
      BY <1>1, <2>1 DEF Frame
    <2> HIDE DEF f
    <2>3. Further(f)
      BY <2>2 DEF Further
    <2>4. stack' = Replace(f)
      BY <1>4 DEF f
    <2> QED
      BY <1>4, <2>2, <2>3, <2>4 DEF Proceeds
  <1> QED
    BY <1>3, <1>4 DEF Settle, Returns

LEMMA AdvanceMoves ==
    ASSUME WorkflowsInv, Busy, InDeps, stack' = Replace([Top EXCEPT !.dep = @ + 1]), ret' = "none"
    PROVE  Proceeds
  <1> DEFINE f == [Top EXCEPT !.dep = @ + 1]
  <1>1. Top \in Frame
    BY TopFacts DEF WorkflowsInv
  <1>2. f \in Frame /\ f.wf = Top.wf /\ f.dep = Top.dep + 1 /\ f.step = Top.step
    BY <1>1 DEF Frame
  <1>3. stack' = Replace(f)
    OBVIOUS
  <1> HIDE DEF f
  <1>4. Further(f)
    BY <1>2 DEF Further
  <1> QED
    BY <1>2, <1>3, <1>4 DEF Proceeds

\* Every step of a method pushes a call, carries the top one on, or returns.
LEMMA WorkMoves ==
    ASSUME WorkflowsInv, Work
    PROVE  Busy /\ doc' = doc /\ (Pushes \/ Proceeds \/ Returns)
  <1>1. CASE NullClient
    BY <1>1 DEF NullClient, Returns
  <1>2. CASE NextDependency
    <2>1. Busy /\ InDeps /\ ret = "none" /\ ret' = "none" /\ doc' = doc
      BY <1>2 DEF NextDependency, Running
    <2>2. Dep \in Ids
      BY <2>1, TopFacts DEF WorkflowsInv
    <2>3. \/ stack' = Replace([Top EXCEPT !.dep = @ + 1])
          \/ stack' = Append(stack, Called(Dep))
      BY <1>2 DEF NextDependency
    <2> QED
      BY <2>1, <2>2, <2>3, AdvanceMoves DEF Pushes
  <1>3. CASE DependencyReturns
    <2>1. Busy /\ InDeps /\ ret # "none" /\ doc' = doc
      BY <1>3 DEF DependencyReturns
    <2>2. \/ stack' = Replace([Top EXCEPT !.dep = @ + 1]) /\ ret' = "none"
          \/ stack' = Pop /\ ret' = ret
      BY <1>3 DEF DependencyReturns
    <2> QED
      BY <2>1, <2>2, AdvanceMoves DEF Returns
  <1>4. ASSUME NEW ok \in BOOLEAN, Operate(ok)
        PROVE  Busy /\ doc' = doc /\ (Pushes \/ Proceeds \/ Returns)
    BY <1>4, SettleMoves DEF Operate, Running
  <1>5. CASE CallWorkflow
    <2>1. /\ Busy /\ InSteps /\ ret = "none" /\ ret' = "none" /\ doc' = doc
          /\ Current.does # Operation /\ stack' = Append(stack, Called(Current.does))
      BY <1>5 DEF CallWorkflow, Running
    <2>2. Current.does \in Ids
      BY <2>1, TopFacts DEF WorkflowsInv, Step
    <2> QED
      BY <2>1, <2>2 DEF Pushes
  <1>6. CASE StepReturns
    BY <1>6, SettleMoves DEF StepReturns
  <1>7. CASE Finish
    BY <1>7 DEF Finish, Running, Returns
  <1> QED
    BY <1>1, <1>2, <1>3, <1>4, <1>5, <1>6, <1>7 DEF Work
\* A call never goes past the lists of its workflow.
LEMMA InListsStep == WorkflowsInv /\ InLists /\ [Next]_vars => InLists'
  <1> SUFFICES ASSUME WorkflowsInv, InLists, [Next]_vars PROVE InLists'
    OBVIOUS
  <1> DEFINE Fits(f) == /\ f.dep <= Len(doc.deps[f.wf]) + 1
                        /\ f.step <= Len(doc.steps[f.wf]) + 1
                        /\ f.attempt <= MaxRetry
  <1>1. stack \in Seq(Frame) /\ doc \in Document /\ MaxRetry \in Nat
    BY DocumentsAssumption DEF WorkflowsInv, TypeOK
  <1>2. Len(stack) \in Nat /\ \A k \in 1..Len(stack) : stack[k] \in Frame /\ Fits(stack[k])
    BY <1>1, StackFacts DEF InLists
  <1>3. \A w \in Ids : Fits(Called(w))
    <2> SUFFICES ASSUME NEW w \in Ids PROVE Fits(Called(w))
      OBVIOUS
    <2>1. Len(doc.deps[w]) \in Nat /\ Len(doc.steps[w]) \in Nat
      BY <1>1, DocumentFacts
    <2> QED
      BY <1>1, <2>1 DEF Called
  <1>4. ASSUME doc' = doc, \A k \in 1..Len(stack') : Fits(stack'[k])
        PROVE  InLists'
    BY <1>4 DEF InLists
  <1> HIDE DEF Fits
  <1>5. ASSUME NEW w \in Ids, Call(w) PROVE InLists'
    <2>1. stack' = <<Called(w)>> /\ doc' = doc
      BY <1>5 DEF Call
    <2>2. Len(stack') = 1 /\ stack'[1] = Called(w)
      BY <2>1
    <2> QED
      BY <1>3, <1>4, <2>1, <2>2
  <1>6. CASE Work
    <2>0. Busy /\ stack # <<>> /\ doc' = doc /\ (Pushes \/ Proceeds \/ Returns)
      BY <1>6, WorkMoves DEF Busy
    <2>1. CASE Pushes
      <3>1. PICK w \in Ids : stack' = Append(stack, Called(w))
        BY <2>1 DEF Pushes
      <3>2. /\ Len(stack') = Len(stack) + 1 /\ stack'[Len(stack) + 1] = Called(w)
            /\ \A k \in 1..Len(stack) : stack'[k] = stack[k]
        BY <1>1, <3>1, NewFrame, PushFacts
      <3> QED
        BY <1>2, <1>3, <1>4, <2>0, <3>2
    <2>2. CASE Proceeds
      <3>1. PICK f \in Frame : Further(f) /\ stack' = [stack EXCEPT ![Len(stack)] = f]
        BY <2>2 DEF Proceeds, Replace
      <3>2. /\ Len(stack') = Len(stack) /\ stack'[Len(stack)] = f
            /\ \A k \in 1..(Len(stack) - 1) : stack'[k] = stack[k]
        BY <1>1, <2>0, <3>1, ReplaceFacts
      <3>3. Len(stack) \in Nat \ {0} /\ Top = stack[Len(stack)] /\ Top \in Frame /\ Top.wf \in Ids
        BY <1>1, <2>0, TopFacts DEF Top, WorkflowsInv
      <3>4. Fits(Top) /\ Len(doc.deps[Top.wf]) \in Nat /\ Len(doc.steps[Top.wf]) \in Nat
        BY <1>1, <1>2, <3>3, DocumentFacts
      <3>5. /\ f.dep \in Nat /\ f.step \in Nat /\ f.attempt \in 0..MaxRetry
            /\ Top.dep \in Nat /\ Top.step \in Nat
        BY <3>3 DEF Frame
      <3>n. \A n, i \in Nat : i <= n => i + 1 <= n + 1
        OBVIOUS
      <3>6. f.dep <= Len(doc.deps[Top.wf]) + 1
        <4>1. CASE f.dep = Top.dep
          BY <3>4, <4>1 DEF Fits
        <4>2. CASE f.dep = Top.dep + 1 /\ InDeps
          BY <3>4, <3>5, <3>n, <4>2 DEF InDeps
        <4> QED
          BY <3>1, <4>1, <4>2 DEF Further
      <3>7. f.step <= Len(doc.steps[Top.wf]) + 1
        <4>1. CASE f.step = Top.step
          BY <3>4, <4>1 DEF Fits
        <4>2. CASE f.step = Top.step + 1 /\ InSteps
          BY <3>4, <3>5, <3>n, <4>2 DEF InSteps
        <4> QED
          BY <3>1, <4>1, <4>2 DEF Further
      <3>8. Fits(f)
        BY <1>1, <3>1, <3>5, <3>6, <3>7 DEF Further, Fits
      <3>9. \A k \in 1..Len(stack') : Fits(stack'[k])
        <4> SUFFICES ASSUME NEW k \in 1..Len(stack') PROVE Fits(stack'[k])
          OBVIOUS
        <4>1. CASE k = Len(stack)
          BY <3>2, <3>8, <4>1
        <4>2. CASE k # Len(stack)
          <5>1. k \in 1..Len(stack) /\ stack'[k] = stack[k]
            BY <3>2, <3>3, <4>2
          <5> QED
            BY <1>2, <5>1
        <4> QED
          BY <4>1, <4>2
      <3> QED
        BY <1>4, <2>0, <3>9
    <2>3. CASE Returns
      <3>1. stack' = SubSeq(stack, 1, Len(stack) - 1)
        BY <2>3 DEF Returns, Pop
      <3>2. Len(stack') = Len(stack) - 1 /\ \A k \in 1..(Len(stack) - 1) : stack'[k] = stack[k]
        BY <1>1, <2>0, <3>1, PopFacts
      <3> QED
        BY <1>2, <1>4, <2>0, <3>2
    <2> QED
      BY <2>0, <2>1, <2>2, <2>3
  <1>7. CASE UNCHANGED vars
    BY <1>7 DEF vars, InLists
  <1> QED
    BY <1>5, <1>6, <1>7 DEF Next

\* Without a circle no workflow is twice on the stack, and there are so many.
LEMMA NoReentryIsShallow == ASSUME WorkflowsInv, NoReentry PROVE Len(stack) <= Len(Workflows)
  <1>1. /\ Len(stack) \in Nat /\ DOMAIN stack = 1..Len(stack)
        /\ \A k \in 1..Len(stack) : stack[k].wf \in Ids
    BY StackFacts DEF WorkflowsInv, TypeOK, Frame
  <1>2. Len(Workflows) \in Nat /\ DOMAIN Workflows = 1..Len(Workflows)
    BY WorkflowsAssumption, LenProperties
  <1> DEFINE places == 1..Len(stack)
             ids    == 1..Len(Workflows)
             f      == [k \in places |-> CHOOSE j \in ids : Workflows[j] = stack[k].wf]
  <1>3. \A k \in places : \E j \in ids : Workflows[j] = stack[k].wf
    BY <1>1, <1>2 DEF Ids
  <1>4. \A k \in places : f[k] \in ids /\ Workflows[f[k]] = stack[k].wf
    BY <1>3
  <1>5. f \in [places -> ids]
    BY <1>4
  <1>6. \A k, m \in places : f[k] = f[m] => k = m
    <2> SUFFICES ASSUME NEW k \in places, NEW m \in places, f[k] = f[m] PROVE k = m
      OBVIOUS
    <2>1. stack[k].wf = stack[m].wf
      BY <1>4
    <2> QED
      BY <1>1, <2>1 DEF NoReentry
  <1> HIDE DEF f
  <1>7. f \in Injection(places, ids)
    BY <1>5, <1>6 DEF Injection, IsInjective
  <1>8. \A n \in Nat : IsFiniteSet(1..n) /\ Cardinality(1..n) = n
    BY FS_Interval
  <1>9. IsFiniteSet(ids) /\ Cardinality(ids) = Len(Workflows) /\ Cardinality(places) = Len(stack)
    BY <1>1, <1>2, <1>8
  <1> QED
    BY <1>7, <1>9, FS_Injection

\* Whatever a method does next, some place grows.
LEMMA WorkGrows == ASSUME WorkflowsInv, Work PROVE ~ Busy' \/ Grows
  <1>0. Busy /\ stack # <<>> /\ (Pushes \/ Proceeds \/ Returns)
    BY WorkMoves DEF Busy
  <1>1. /\ stack \in Seq(Frame) /\ Len(stack) \in Nat \ {0}
        /\ Top = stack[Len(stack)] /\ Top \in Frame
    BY <1>0, TopFacts DEF WorkflowsInv, TypeOK, Top
  <1>2. CASE Pushes
    <2>1. PICK w \in Ids : stack' = Append(stack, Called(w)) /\ ret = "none" /\ ret' = "none"
      BY <1>2 DEF Pushes
    <2>2. /\ Len(stack') = Len(stack) + 1 /\ stack'[Len(stack) + 1] = Called(w)
          /\ \A k \in 1..Len(stack) : stack'[k] = stack[k]
      BY <1>1, <2>1, NewFrame, PushFacts
    <2>3. PICK k \in Nat : k = Len(stack) + 1
      BY <1>1
    <2>4. Digit(k, 1) = 0 /\ Digit(k, 1)' = 1
      BY <1>1, <2>2, <2>3 DEF Digit, Called
    <2>5. \A j \in Nat, e \in 1..4 : j < k => Digit(j, e)' = Digit(j, e)
      BY <1>1, <2>1, <2>2, <2>3 DEF Digit
    <2>6. \A j \in Nat, e \in 1..4 : Before(j, e, k, 1) => j < k
      BY <2>3 DEF Before
    <2>7. 1 \in 1..4 /\ Digit(k, 1)' > Digit(k, 1)
      BY <2>4
    <2> QED
      BY <2>5, <2>6, <2>7 DEF Grows
  <1>3. CASE Proceeds
    <2>1. PICK f \in Frame : Further(f) /\ stack' = [stack EXCEPT ![Len(stack)] = f] /\ ret' = "none"
      BY <1>3 DEF Proceeds, Replace
    <2>2. /\ Len(stack') = Len(stack) /\ stack'[Len(stack)] = f
          /\ \A k \in 1..(Len(stack) - 1) : stack'[k] = stack[k]
      BY <1>0, <1>1, <2>1, ReplaceFacts
    <2>3. PICK k \in Nat : k = Len(stack)
      BY <1>1
    <2>4. /\ Digit(k, 1) = Top.dep /\ Digit(k, 2) = Top.step /\ Digit(k, 3) = Top.attempt
          /\ Digit(k, 1)' = f.dep /\ Digit(k, 2)' = f.step /\ Digit(k, 3)' = f.attempt
      BY <1>1, <2>2, <2>3 DEF Digit
    <2>5. \A j \in Nat, e \in 1..4 : j < k => Digit(j, e)' = Digit(j, e)
      BY <1>1, <2>2, <2>3 DEF Digit
    <2>6. Top.dep \in Nat /\ Top.step \in Nat /\ Top.attempt \in 0..MaxRetry
      BY <1>1 DEF Frame
    <2>7. CASE f.dep = Top.dep + 1
      <3>1. Digit(k, 1)' > Digit(k, 1)
        BY <2>4, <2>6, <2>7
      <3>2. \A j \in Nat, e \in 1..4 : Before(j, e, k, 1) => j < k
        BY <2>3 DEF Before
      <3> QED
        BY <2>5, <3>1, <3>2 DEF Grows
    <2>8. CASE f.dep = Top.dep /\ f.step = Top.step + 1
      <3>1. Digit(k, 2)' > Digit(k, 2)
        BY <2>4, <2>6, <2>8
      <3>2. \A j \in Nat, e \in 1..4 : Before(j, e, k, 2) => j < k \/ (j = k /\ e = 1)
        BY <2>3 DEF Before
      <3>3. Digit(k, 1)' = Digit(k, 1)
        BY <2>4, <2>8
      <3> QED
        BY <2>5, <3>1, <3>2, <3>3 DEF Grows
    <2>9. CASE f.dep = Top.dep /\ f.step = Top.step /\ f.attempt = Top.attempt + 1
      <3>1. Digit(k, 3)' > Digit(k, 3)
        BY <2>4, <2>6, <2>9, DocumentsAssumption
      <3>2. \A j \in Nat, e \in 1..4 : Before(j, e, k, 3) => j < k \/ (j = k /\ e \in 1..2)
        BY <2>3 DEF Before
      <3>3. \A e \in 1..2 : Digit(k, e)' = Digit(k, e)
        <4>1. \A e \in 1..2 : e = 1 \/ e = 2
          OBVIOUS
        <4> QED
          BY <2>4, <2>9, <4>1
      <3> QED
        BY <2>5, <3>1, <3>2, <3>3 DEF Grows
    <2> QED
      BY <2>1, <2>7, <2>8, <2>9 DEF Further
  <1>4. CASE Returns
    <2>1. stack' = SubSeq(stack, 1, Len(stack) - 1) /\ ret' # "none"
      BY <1>4 DEF Returns, Pop
    <2>2. Len(stack') = Len(stack) - 1 /\ \A k \in 1..(Len(stack) - 1) : stack'[k] = stack[k]
      BY <1>0, <1>1, <2>1, PopFacts
    <2>3. PICK k \in Nat : k = Len(stack) - 1
      BY <1>1
    <2>4. CASE k = 0
      <3>1. stack' \in Seq(Frame) /\ Len(stack') = 0
        BY <1>0, <1>1, <2>1, <2>2, <2>3, <2>4, PopFacts
      <3> QED
        BY <3>1, EmptySeq DEF Busy
    <2>5. CASE k # 0
      <3>1. Digit(k, 4)' = 1 /\ Digit(k, 4) = 0
        BY <1>1, <2>1, <2>2, <2>3, <2>5 DEF Digit
      <3>2. \A e \in 1..3 : Digit(k, e)' = Digit(k, e)
        <4>1. Digit(k, 1)' = Digit(k, 1) /\ Digit(k, 2)' = Digit(k, 2) /\ Digit(k, 3)' = Digit(k, 3)
          BY <1>1, <2>2, <2>3, <2>5 DEF Digit
        <4>2. \A e \in 1..3 : e = 1 \/ e = 2 \/ e = 3
          OBVIOUS
        <4> QED
          BY <4>1, <4>2
      <3>3. \A j \in Nat, e \in 1..4 : j < k => Digit(j, e)' = Digit(j, e)
        BY <1>1, <2>2, <2>3 DEF Digit
      <3>4. \A j \in Nat, e \in 1..4 : Before(j, e, k, 4) => j < k \/ (j = k /\ e \in 1..3)
        BY <2>3 DEF Before
      <3>5. 4 \in 1..4 /\ Digit(k, 4)' > Digit(k, 4)
        BY <3>1
      <3> QED
        BY <3>2, <3>3, <3>4, <3>5 DEF Grows
    <2> QED
      BY <2>4, <2>5
  <1> QED
    BY <1>0, <1>2, <1>3, <1>4

\* Why CallReturns holds: while a call of the program runs, each step carries one of
\* the places of the calls in progress on and leaves those before it as they are.
\* These places are bounded by the lists of the document, and without a circle of
\* uses there are never more calls than workflows.
THEOREM MethodsGoForward == Spec => [](InLists /\ Shallow) /\ MethodsGoOn
  <1>1. Init => InLists
    <2> SUFFICES ASSUME Init PROVE InLists
      OBVIOUS
    <2>1. Len(stack) = 0
      BY EmptySeq DEF Init
    <2> QED
      BY <2>1 DEF InLists
  <1>2. WorkflowsInv /\ (~ Cyclic(Uses(doc)) => NoReentry) => Shallow
    BY NoReentryIsShallow DEF Shallow
  <1>3. ASSUME WorkflowsInv, [Next]_vars PROVE [Busy => ~ Busy' \/ Grows]_vars
    <2>1. \A w \in Ids : Call(w) => ~ Busy
      BY DEF Call
    <2> QED
      BY <1>3, <2>1, WorkGrows DEF Next
  <1> QED
    BY <1>1, <1>2, <1>3, InListsStep, WorkflowsInvariant, ReentryNeedsCircle, PTL
    DEF Spec, MethodsGoOn
=============================================================================
