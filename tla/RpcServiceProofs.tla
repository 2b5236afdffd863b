--------------------------- MODULE RpcServiceProofs ---------------------------
(***************************************************************************)
(* The JSON-RPC server uses ThreadPool as its specification says, so what  *)
(* is proved of the pool holds of the pool in the server; and a request    *)
(* that came with its connection is answered, for any number of threads,   *)
(* connections, requests and commands.                                     *)
(***************************************************************************)
EXTENDS RpcService, ThreadPoolProofs, CommandsProofs

NetTypeOK ==
    /\ backlog \in Seq(Jobs)
    /\ sent \in [Jobs -> Seq(Requests)]
    /\ answers \in [Jobs -> Seq(Int)]
    /\ session \in [Threads -> [phase : Phases, left : Int]]

\* A thread starts a connection afresh.
FreshWhenIdle == \A t \in Threads : thread[t] # "running" => session[t] = Fresh

\* keep_alive came to look at the server socket: there was no request at first,
\* and then there is none later, or one was answered already.
Heard(c) == sent[c] # <<>> => answers[c] # <<>>
AnsweredFirst ==
    \A t \in Threads : thread[t] = "running" /\ session[t].phase \in {"poll", "over"} => Heard(task[t])

ServiceInv == NetTypeOK /\ FreshWhenIdle /\ AnsweredFirst /\ PromptIsAnswered

-----------------------------------------------------------------------------
\* Every step of the server is a step of the pool or none of its business.
LEMMA ServiceStepIsPoolStep == NetTypeOK /\ [Next]_vars => [PoolNext]_poolVars
  <1> SUFFICES ASSUME NetTypeOK, [Next]_vars PROVE [PoolNext]_poolVars
    OBVIOUS
  <1>1. ASSUME NEW c \in Jobs, Connect(c) \/ Send(c) PROVE [PoolNext]_poolVars
    BY <1>1 DEF Connect, Send
  <1>2. ASSUME Accept PROVE [PoolNext]_poolVars
    <2>1. Head(backlog) \in Jobs
      BY <1>2, HeadTailProperties, EmptySeq DEF Accept, NetTypeOK
    <2> QED
      BY <1>2, <2>1 DEF Accept, PoolNext
  <1>3. ASSUME AcceptFails PROVE [PoolNext]_poolVars
    BY <1>3 DEF AcceptFails
  <1>4. ASSUME StopListening \/ Listener PROVE [PoolNext]_poolVars
    BY <1>4 DEF StopListening, Listener, PoolNext
  <1>5. ASSUME NEW t \in Threads, PoolStep(t) \/ Unasked(t) PROVE [PoolNext]_poolVars
    BY <1>5 DEF PoolStep, Unasked, PoolNext
  <1>6. ASSUME NEW t \in Threads, Serve(t) PROVE [PoolNext]_poolVars
    <2>1. CASE HangUp(t) \/ Close(t)
      BY <2>1 DEF HangUp, Close, PoolNext
    <2>2. CASE Quiet(t) \/ ServeAtOnce(t) \/ ServeStop(t) \/ ServeCall(t) \/ Finish(t)
      BY <2>2 DEF Quiet, ServeAtOnce, ServeStop, ServeCall, Finish
    <2> QED
      BY <1>6, <2>1, <2>2 DEF Serve
  <1>7. ASSUME NEW w \in Runners, CommandStep(w) PROVE [PoolNext]_poolVars
    BY <1>7 DEF CommandStep
  <1>8. ASSUME NEW w \in Terminals, NEW i \in Invocations, Invoke(w, i) PROVE [PoolNext]_poolVars
    BY <1>8 DEF Invoke
  <1>9. ASSUME NEW w \in Terminals, NEW r \in Requests, Line(w, r.body) PROVE [PoolNext]_poolVars
    BY <1>9 DEF Line
  <1>10. ASSUME UNCHANGED vars PROVE [PoolNext]_poolVars
    BY <1>10 DEF vars
  <1> QED
    BY <1>1, <1>2, <1>3, <1>4, <1>5, <1>6, <1>7, <1>8, <1>9, <1>10 DEF Next, Over

-----------------------------------------------------------------------------
\* What the pool does to its queue and its other threads leaves a thread alone
\* that runs a job.
KeepsServing ==
    /\ ran' = ran
    /\ \A u \in Threads : thread[u] = "running" => thread'[u] = "running" /\ task'[u] = task[u]

LEMMA OwnerKeepsServing ==
    ASSUME PoolInv, Shutdown \/ Own \/ \E job : Enqueue(job)
    PROVE  KeepsServing
  <1>0. PoolTypeOK /\ Stages /\ Listed
    BY DEF PoolInv
  <1>1. CASE Shutdown
    BY <1>0, <1>1 DEF Shutdown, KeepsServing, Joinable, Joined, PoolTypeOK, Stages, Listed, Threads, lists
  <1>2. CASE Spawn
    BY <1>0, <1>2 DEF Spawn, KeepsServing, Joinable, Joined, PoolTypeOK, Stages, Listed, Threads, lists
  <1>3. CASE NotifyOne
    BY <1>0, <1>3 DEF NotifyOne, KeepsServing, Joinable, Joined, PoolTypeOK, Stages, Listed, Threads, lists
  <1>4. CASE NotifyAll
    BY <1>0, <1>4 DEF NotifyAll, KeepsServing, Joinable, Joined, PoolTypeOK, Stages, Listed, Threads, lists
  <1>5. CASE JoinBase
    BY <1>0, <1>5 DEF JoinBase, KeepsServing, Joinable, Joined, PoolTypeOK, Stages, Listed, Threads, lists
  <1>6. CASE MoveDynamic
    BY <1>0, <1>6 DEF MoveDynamic, KeepsServing, Joinable, Joined, PoolTypeOK, Stages, Listed, Threads, lists
  <1>7. CASE JoinDynamic
    BY <1>0, <1>7 DEF JoinDynamic, KeepsServing, Joinable, Joined, PoolTypeOK, Stages, Listed, Threads, lists
  <1>8. CASE CleanUp
    BY <1>0, <1>8 DEF CleanUp, KeepsServing, Joinable, Joined, PoolTypeOK, Stages, Listed, Threads, lists
  <1>9. ASSUME NEW job, Enqueue(job) PROVE KeepsServing
    BY <1>9 DEF Enqueue, KeepsServing, lists
  <1> QED
    BY <1>1, <1>2, <1>3, <1>4, <1>5, <1>6, <1>7, <1>8, <1>9 DEF Own

LEMMA WorkKeepsServing ==
    ASSUME PoolInv, NEW t \in Threads, Work(t) \/ Notice(t)
    PROVE  KeepsServing
  <1>0. PoolTypeOK
    BY DEF PoolInv
  <1>1. CASE Take(t)
    BY <1>0, <1>1 DEF Take, KeepsServing, HasMutex, Becomes, PoolTypeOK, lists
  <1>2. CASE Wait(t)
    BY <1>0, <1>2 DEF Wait, KeepsServing, HasMutex, Becomes, PoolTypeOK, lists
  <1>3. CASE LeaveIdle(t)
    BY <1>0, <1>3 DEF LeaveIdle, KeepsServing, HasMutex, Becomes, PoolTypeOK, lists
  <1>4. CASE LeaveShutdown(t)
    BY <1>0, <1>4 DEF LeaveShutdown, KeepsServing, HasMutex, Becomes, PoolTypeOK, lists
  <1>5. CASE LeaveReturned(t)
    BY <1>0, <1>5 DEF LeaveReturned, KeepsServing, HasMutex, Becomes, PoolTypeOK, lists
  <1>6. CASE Stay(t)
    BY <1>0, <1>6 DEF Stay, KeepsServing, HasMutex, Becomes, PoolTypeOK, lists
  <1>7. CASE Expire(t)
    BY <1>0, <1>7 DEF Expire, KeepsServing, HasMutex, Becomes, PoolTypeOK, lists
  <1>8. CASE WakeUp(t)
    BY <1>0, <1>8 DEF WakeUp, KeepsServing, HasMutex, Becomes, PoolTypeOK, lists
  <1> QED
    BY <1>1, <1>2, <1>3, <1>4, <1>5, <1>6, <1>7, <1>8 DEF Work, Notice

\* A thread that takes a connection is not done with it.
LEMMA ServingStays ==
    ASSUME NetTypeOK, FreshWhenIdle, AnsweredFirst, PromptIsAnswered, KeepsServing,
           UNCHANGED <<sent, answers, session>>
    PROVE  FreshWhenIdle' /\ AnsweredFirst' /\ PromptIsAnswered'
  <1>1. FreshWhenIdle'
    BY DEF FreshWhenIdle, KeepsServing, Fresh
  <1>2. ASSUME NEW t \in Threads, thread'[t] = "running", session[t].phase \in {"poll", "over"}
        PROVE  Heard(task'[t])
    <2>1. thread[t] = "running"
      BY <1>2 DEF FreshWhenIdle, Fresh
    <2> QED
      BY <1>2, <2>1 DEF KeepsServing, AnsweredFirst
  <1>3. AnsweredFirst'
    BY <1>2 DEF AnsweredFirst, Heard
  <1> QED
    BY <1>1, <1>3 DEF PromptIsAnswered, KeepsServing

-----------------------------------------------------------------------------
\* A connection is heard of once it is answered; the others as before.
LEMMA RespondKeeps ==
    ASSUME PoolInv, ServiceInv, NEW t \in Threads, thread[t] = "running", NEW answer \in Int,
           Respond(t, answer), UNCHANGED <<poolVars, backlog, sent>>
    PROVE  ServiceInv'
  <1>0. PoolTypeOK /\ RunsItsTask /\ OnceEach
    BY DEF PoolInv
  <1>1. task[t] \in Jobs
    BY <1>0 DEF PoolTypeOK, RunsItsTask
  <1>2. /\ answers' \in [Jobs -> Seq(Int)]
        /\ \A c \in Jobs : answers'[c] = IF c = task[t] THEN Append(answers[c], answer) ELSE answers[c]
    BY <1>1 DEF Respond, ServiceInv, NetTypeOK
  <1>3. Append(answers[task[t]], answer) # <<>>
    <2>1. answers[task[t]] \in Seq(Int)
      BY <1>1 DEF ServiceInv, NetTypeOK
    <2>2. Append(answers[task[t]], answer) \in Seq(Int) /\ Len(Append(answers[task[t]], answer)) # 0
      BY <2>1, AppendProperties, LenProperties
    <2> QED
      BY <2>2, EmptySeq
  <1>4. /\ session' \in [Threads -> [phase : Phases, left : Int]]
        /\ \A u \in Threads : u # t => session'[u] = session[u]
    BY DEF Respond, ServiceInv, NetTypeOK, Phases
  <1>5. \A c \in Jobs : Heard(c) => Heard(c)'
    BY <1>2, <1>3 DEF Heard
  <1>6. Heard(task[t])'
    BY <1>1, <1>2, <1>3 DEF Heard, poolVars
  <1>7. NetTypeOK'
    BY <1>2, <1>4 DEF ServiceInv, NetTypeOK
  <1>8. FreshWhenIdle'
    BY <1>4 DEF ServiceInv, FreshWhenIdle, poolVars, Fresh
  <1>9. AnsweredFirst'
    <2> SUFFICES ASSUME NEW u \in Threads, thread[u] = "running", session'[u].phase \in {"poll", "over"}
                 PROVE  Heard(task[u])'
      BY DEF AnsweredFirst, poolVars, Heard
    <2>1. CASE u = t
      BY <2>1, <1>6
    <2>2. CASE u # t
      <3>1. task[u] \in Jobs /\ Heard(task[u])
        BY <2>2, <1>0, <1>4 DEF ServiceInv, AnsweredFirst, PoolTypeOK, RunsItsTask
      <3>2. Heard(task[u]) => Heard(task[u])'
        BY <3>1, <1>2, <1>3 DEF Heard, poolVars
      <3> QED
        BY <3>1, <3>2
    <2> QED
      BY <2>1, <2>2
  <1>10. PromptIsAnswered'
    BY <1>0, <1>2, <1>3 DEF ServiceInv, PromptIsAnswered, poolVars, PoolTypeOK
  <1> QED
    BY <1>7, <1>8, <1>9, <1>10 DEF ServiceInv

\* The connection that ends was heard.
LEMMA ReturnKeeps ==
    ASSUME PoolInv, ServiceInv, NEW t \in Threads, Return(t), session[t].phase \in {"poll", "over"},
           session' = [session EXCEPT ![t] = Fresh], UNCHANGED netVars
    PROVE  ServiceInv'
  <1>0. PoolTypeOK
    BY DEF PoolInv
  <1>1. Heard(task[t])
    BY DEF Return, ServiceInv, AnsweredFirst
  <1>2. /\ session' \in [Threads -> [phase : Phases, left : Int]]
        /\ session'[t] = Fresh /\ \A u \in Threads : u # t => session'[u] = session[u]
    BY BoundsAssumption DEF ServiceInv, NetTypeOK, Phases, Fresh
  <1>3. \A u \in Threads : u # t => thread'[u] = thread[u] /\ task'[u] = task[u]
    BY <1>0 DEF Return, Becomes, PoolTypeOK
  <1>4. NetTypeOK'
    BY <1>2 DEF ServiceInv, NetTypeOK, netVars
  <1>5. FreshWhenIdle'
    BY <1>2, <1>3 DEF ServiceInv, FreshWhenIdle, Fresh
  <1>6. AnsweredFirst'
    BY <1>2, <1>3 DEF ServiceInv, AnsweredFirst, Heard, Fresh, netVars
  <1>7. PromptIsAnswered'
    BY <1>1 DEF ServiceInv, PromptIsAnswered, Heard, Return, netVars
  <1> QED
    BY <1>4, <1>5, <1>6, <1>7 DEF ServiceInv

\* Only a connection that is not in the pool yet, or that was heard, sends.
LEMMA SendKeeps ==
    ASSUME PoolInv, ServiceInv, NEW c \in Jobs, c \notin Accepted \/ sent[c] # <<>>,
           sent' \in [Jobs -> Seq(Requests)], \A d \in Jobs : d # c => sent'[d] = sent[d],
           UNCHANGED <<poolVars, answers, session>>
    PROVE  FreshWhenIdle' /\ AnsweredFirst' /\ PromptIsAnswered'
  <1>0. PoolTypeOK /\ RunsItsTask
    BY DEF PoolInv
  <1>1. FreshWhenIdle'
    BY DEF ServiceInv, FreshWhenIdle, poolVars, Fresh
  <1>2. ASSUME NEW d \in Jobs, Heard(d), d \in ran \/ \E t \in Threads : task[t] = d
        PROVE  Heard(d)'
    <2>1. d \in Accepted
      BY <1>2, JobsAssumption DEF Accepted
    <2> QED
      BY <1>2, <2>1 DEF Heard
  <1>3. ASSUME NEW t \in Threads, thread[t] = "running", session[t].phase \in {"poll", "over"}
        PROVE  sent'[task[t]] # <<>> => answers[task[t]] # <<>>
    <2>1. task[t] \in Jobs /\ Heard(task[t])
      BY <1>0, <1>3 DEF ServiceInv, AnsweredFirst, PoolTypeOK, RunsItsTask
    <2> QED
      BY <1>2, <2>1 DEF Heard
  <1>4. AnsweredFirst'
    BY <1>3 DEF AnsweredFirst, Heard, poolVars
  <1>5. ASSUME NEW d \in ran PROVE sent'[d] # <<>> => answers[d] # <<>>
    <2>1. d \in Jobs /\ Heard(d)
      BY <1>0 DEF ServiceInv, PromptIsAnswered, Heard, PoolTypeOK
    <2> QED
      BY <1>2, <2>1 DEF Heard
  <1>6. PromptIsAnswered'
    BY <1>5 DEF PromptIsAnswered, poolVars
  <1> QED
    BY <1>1, <1>4, <1>6

\* What the answer of a request is.
LEMMA VerdictIsInt == \A body, rc : Verdict(body, rc) \in Int
  BY DEF Verdict
LEMMA AnswerIsInt == \A request : AnswerAtOnce(request) \in Int
  BY VerdictIsInt DEF AnswerAtOnce

-----------------------------------------------------------------------------
LEMMA ServiceInvInit == Init => ServiceInv
  <1> SUFFICES ASSUME Init PROVE ServiceInv
    OBVIOUS
  <1>1. NetTypeOK
    BY EmptySeq, BoundsAssumption DEF Init, NetTypeOK, Fresh, Phases
  <1>2. FreshWhenIdle /\ AnsweredFirst /\ PromptIsAnswered
    BY DEF Init, PoolInit, FreshWhenIdle, AnsweredFirst, PromptIsAnswered, Fresh
  <1> QED
    BY <1>1, <1>2 DEF ServiceInv

LEMMA ServiceInvStep == PoolInv /\ ServiceInv /\ [Next]_vars => ServiceInv'
  <1> SUFFICES ASSUME PoolInv, ServiceInv, [Next]_vars PROVE ServiceInv'
    OBVIOUS
  <1>0. NetTypeOK /\ FreshWhenIdle /\ AnsweredFirst /\ PromptIsAnswered
    BY DEF ServiceInv
  <1>1. ASSUME NEW c \in Jobs, Connect(c) PROVE ServiceInv'
    <2>1. sent' \in [Jobs -> Seq(Requests)] /\ \A d \in Jobs : d # c => sent'[d] = sent[d]
      <3>1. CASE UNCHANGED sent
        BY <3>1, <1>0 DEF NetTypeOK
      <3>2. ASSUME NEW r \in Requests, sent' = [sent EXCEPT ![c] = <<r>>]
            PROVE  sent' \in [Jobs -> Seq(Requests)] /\ \A d \in Jobs : d # c => sent'[d] = sent[d]
        BY <3>2, <1>0 DEF NetTypeOK
      <3> QED
        BY <1>1, <3>1, <3>2 DEF Connect
    <2>2. backlog' \in Seq(Jobs)
      BY <1>0, <1>1, AppendProperties DEF Connect, NetTypeOK
    <2>3. c \notin Accepted /\ UNCHANGED <<poolVars, answers, session>>
      BY <1>1 DEF Connect, Connected
    <2>4. FreshWhenIdle' /\ AnsweredFirst' /\ PromptIsAnswered'
      BY <2>1, <2>3, SendKeeps
    <2> QED
      BY <1>0, <2>1, <2>2, <2>3, <2>4 DEF ServiceInv, NetTypeOK
  <1>2. ASSUME NEW c \in Jobs, Send(c) PROVE ServiceInv'
    <2>1. sent' \in [Jobs -> Seq(Requests)] /\ \A d \in Jobs : d # c => sent'[d] = sent[d]
      BY <1>0, <1>2, AppendProperties DEF Send, NetTypeOK
    <2>2. sent[c] # <<>> /\ backlog' = backlog /\ UNCHANGED <<poolVars, answers, session>>
      BY <1>2 DEF Send
    <2>3. FreshWhenIdle' /\ AnsweredFirst' /\ PromptIsAnswered'
      BY <2>1, <2>2, SendKeeps
    <2> QED
      BY <1>0, <2>1, <2>2, <2>3 DEF ServiceInv, NetTypeOK
  <1>3. ASSUME Accept PROVE ServiceInv'
    <2>1. backlog' \in Seq(Jobs) /\ UNCHANGED <<sent, answers, session>>
      BY <1>0, <1>3, HeadTailProperties, EmptySeq DEF Accept, NetTypeOK
    <2>2. KeepsServing
      BY <1>3, OwnerKeepsServing DEF Accept
    <2> QED
      BY <1>0, <2>1, <2>2, ServingStays DEF ServiceInv, NetTypeOK
  <1>4. ASSUME AcceptFails PROVE ServiceInv'
    BY <1>0, <1>4 DEF AcceptFails, ServiceInv, NetTypeOK, FreshWhenIdle, AnsweredFirst, Heard, PromptIsAnswered,
                      poolVars, Fresh
  <1>5. ASSUME StopListening \/ Listener PROVE ServiceInv'
    <2>1. KeepsServing /\ UNCHANGED netVars /\ UNCHANGED session
      BY <1>5, OwnerKeepsServing DEF StopListening, Listener
    <2> QED
      BY <1>0, <2>1, ServingStays DEF ServiceInv, NetTypeOK, netVars
  <1>6. ASSUME NEW t \in Threads, PoolStep(t) \/ Unasked(t) PROVE ServiceInv'
    <2>1. KeepsServing /\ UNCHANGED netVars /\ UNCHANGED session
      BY <1>6, WorkKeepsServing DEF PoolStep, Unasked
    <2> QED
      BY <1>0, <2>1, ServingStays DEF ServiceInv, NetTypeOK, netVars
  <1>7. ASSUME NEW t \in Threads, Quiet(t) PROVE ServiceInv'
    <2>1. /\ thread[t] = "running" /\ ~ Unread(task[t])
          /\ UNCHANGED poolVars /\ UNCHANGED netVars
      BY <1>7 DEF Quiet, In
    <2>2. task[t] \in Jobs
      BY <2>1 DEF PoolInv, PoolTypeOK, RunsItsTask
    <2>3. Heard(task[t])
      BY <1>0, <2>1, <2>2, LenProperties, EmptySeq DEF Heard, Unread, NetTypeOK
    <2>4. /\ session' \in [Threads -> [phase : Phases, left : Int]]
          /\ \A u \in Threads : u # t => session'[u] = session[u]
      BY <1>0, <1>7 DEF Quiet, NetTypeOK, Phases
    <2>5. NetTypeOK'
      BY <1>0, <2>1, <2>4 DEF NetTypeOK, netVars
    <2>6. FreshWhenIdle' /\ PromptIsAnswered'
      BY <1>0, <2>1, <2>4 DEF FreshWhenIdle, PromptIsAnswered, Fresh, poolVars, netVars
    <2>7. AnsweredFirst'
      BY <1>0, <2>1, <2>3, <2>4 DEF AnsweredFirst, Heard, poolVars, netVars
    <2> QED
      BY <2>5, <2>6, <2>7 DEF ServiceInv
  <1>8. ASSUME NEW t \in Threads, HangUp(t) \/ Close(t) PROVE ServiceInv'
    BY <1>8, ReturnKeeps DEF HangUp, Close, In
  <1>9. ASSUME NEW t \in Threads, ServeAtOnce(t) \/ ServeStop(t) PROVE ServiceInv'
    BY <1>9, AnswerIsInt, RespondKeeps DEF ServeAtOnce, ServeStop, Ready, In
  <1>10. ASSUME NEW t \in Threads, ServeCall(t) PROVE ServiceInv'
    <2>1. UNCHANGED poolVars /\ UNCHANGED netVars /\ thread[t] = "running"
      BY <1>10 DEF ServeCall, Ready, In
    <2>2. /\ session' \in [Threads -> [phase : Phases, left : Int]]
          /\ session'[t].phase = "command" /\ \A u \in Threads : u # t => session'[u] = session[u]
      BY <1>0, <1>10 DEF ServeCall, NetTypeOK, Phases
    <2>3. NetTypeOK'
      BY <1>0, <2>1, <2>2 DEF NetTypeOK, netVars
    <2>4. FreshWhenIdle' /\ PromptIsAnswered'
      BY <1>0, <2>1, <2>2 DEF FreshWhenIdle, PromptIsAnswered, Fresh, poolVars, netVars
    <2>5. AnsweredFirst'
      BY <1>0, <2>1, <2>2 DEF AnsweredFirst, Heard, poolVars, netVars
    <2> QED
      BY <2>3, <2>4, <2>5 DEF ServiceInv
  <1>11. ASSUME NEW t \in Threads, Finish(t) PROVE ServiceInv'
    BY <1>11, VerdictIsInt, RespondKeeps DEF Finish, In
  <1>12. ASSUME UNCHANGED poolVars, UNCHANGED netVars, UNCHANGED session PROVE ServiceInv'
    BY <1>0, <1>12 DEF ServiceInv, NetTypeOK, FreshWhenIdle, AnsweredFirst, Heard, PromptIsAnswered, Fresh,
                       poolVars, netVars
  <1>13. ASSUME \/ \E w \in Runners : CommandStep(w)
                \/ \E w \in Terminals, i \in Invocations : Invoke(w, i)
                \/ \E w \in Terminals, r \in Requests : Line(w, r.body)
                \/ UNCHANGED vars
         PROVE  ServiceInv'
    BY <1>12, <1>13 DEF CommandStep, Invoke, Line, vars
  <1> QED
    BY <1>1, <1>2, <1>3, <1>4, <1>5, <1>6, <1>7, <1>8, <1>9, <1>10, <1>11, <1>13 DEF Next, Serve, Over

-----------------------------------------------------------------------------
\* Each of the two invariants is kept with the other's help.
LEMMA BothStep == PoolInv /\ ServiceInv /\ [Next]_vars => PoolInv' /\ ServiceInv'
  BY ServiceInvStep, ServiceStepIsPoolStep, PoolInvStep DEF ServiceInv

\* ServiceInvariant: the inductive invariant of the server: the pool's, and that
\* a thread looks at the server socket only when its connection was answered, or
\* came without a request.
THEOREM ServiceInvariant == Spec => [](PoolInv /\ ServiceInv)
  <1>1. Init => PoolInv /\ ServiceInv
    BY PoolInvInit, ServiceInvInit DEF Init
  <1> QED
    BY <1>1, BothStep, PTL DEF Spec

\* ServiceUsesPool: the server refines ThreadPool: what it does to the pool is
\* what the pool's specification allows.
THEOREM ServiceUsesPool == Spec => PoolSpec
  <1>1. Init => PoolInit
    BY DEF Init
  <1>2. PoolInv /\ ServiceInv /\ [Next]_vars => [PoolNext]_poolVars
    BY ServiceStepIsPoolStep DEF ServiceInv
  <1> QED
    BY <1>1, <1>2, ServiceInvariant, PTL DEF Spec, PoolSpec

\* IdleThreadsCounted: in the server, too, idle_thread_count_ is the number of
\* threads in a wait whenever enqueue decides by it.
THEOREM IdleThreadsCounted == Spec => []IdleIsCounted
  BY ServiceUsesPool, PoolIsCorrect, PTL

\* ConnectionOnce: a connection that was accepted is in one place: queued, served
\* by one thread, or closed.
THEOREM ConnectionOnce == Spec => []OnceEach
  BY ServiceUsesPool, PoolIsCorrect, PTL

\* WakeupKept: while a connection is queued some thread is on its way to it.
THEOREM WakeupKept == Spec => []NoLostWakeup
  BY ServiceUsesPool, PoolIsCorrect, PTL

\* NothingOutlives: when listen returns no thread is left, nor a connection that
\* was accepted and not served.
THEOREM NothingOutlives == Spec => []NothingLeft
  BY ServiceUsesPool, PoolIsCorrect, PTL

\* ConnectionsInOrder: the server's connections are the jobs of WorkQueue: each
\* is served at most once, in the order they were accepted, and the pool is over
\* only when every one was served.
THEOREM ConnectionsInOrder == Spec => ServesInOrder
  BY ServiceUsesPool, PoolIsQueue, PTL

\* ListenerIsNotStuck: the listener's enqueue and shutdown always have a next
\* step, or a thread they wait for that has one.
THEOREM ListenerIsNotStuck == Spec => []NeverStuck
  BY ServiceUsesPool, OwnerIsNotStuck, PTL

\* StopOnlyShrinks: once listen shuts the pool down no thread is created, none
\* that ended runs again, and what is left to do never grows.
THEOREM StopOnlyShrinks == Spec => ShutdownGoesOn
  BY ServiceUsesPool, ShutdownOnlyShrinks, PTL

\* PromptAnswered: a connection that came with a request is not closed before
\* that request is answered, whoever stops the server when.
THEOREM PromptAnswered == Spec => []PromptIsAnswered
  <1>1. ServiceInv => PromptIsAnswered
    BY DEF ServiceInv
  <1> QED
    BY <1>1, ServiceInvariant, PTL
-----------------------------------------------------------------------------
(* The calls of cdd_generate *)

\* The thread that runs a command for a request has not answered it yet.
Requested ==
    \A t \in Threads :
        In(t, "command") =>
            /\ Unread(task[t]) /\ RunsCommand(Request(t))
            /\ run[t] # NoRun /\ run[t].args = Called(Request(t).body)

Silent == \A c \in Jobs \ Accepted : answers[c] = <<>>
NoneUnasked == \A c \in Jobs : Len(answers[c]) <= Len(sent[c])
Counted ==
    \A t \in Threads :
        session[t].left \in 0..MaxCount /\ (session[t].phase # "over" => session[t].left # 0)

CallsInv ==
    /\ svr_sock \in {"open", "closed", "failed"}
    /\ CommandsInv
    /\ Silent /\ NoneUnasked /\ Counted /\ Requested

ServerInv == PoolInv /\ ServiceInv /\ CallsInv

LEMMA RunnersAreTwoKinds ==
    /\ \A t \in Threads : t \in Runners /\ t \notin Terminals
    /\ \A w \in Terminals : w \in Runners /\ w \notin Threads
  BY RunnersAssumption

\* The connection of a thread that runs a job is accepted, and no other's.
LEMMA ServedFacts ==
    ASSUME PoolInv, NEW t \in Threads, thread[t] = "running"
    PROVE  /\ task[t] \in Jobs /\ task[t] \in Accepted
           /\ \A u \in Threads : u # t /\ thread[u] = "running" => task[u] # task[t]
  BY JobsAssumption DEF PoolInv, PoolTypeOK, RunsItsTask, OnceEach, Accepted

\* What the thread does not see of a step.
CommandStays(t) == run[t] # NoRun => run'[t] # NoRun /\ run'[t].args = run[t].args

LEMMA SessionsStay ==
    ASSUME ServiceInv, CallsInv, KeepsServing, Accepted \subseteq Accepted',
           UNCHANGED <<sent, answers, session>>, \A t \in Threads : CommandStays(t)
    PROVE  Silent' /\ NoneUnasked' /\ Counted' /\ Requested'
  <1>1. Silent' /\ NoneUnasked' /\ Counted'
    BY DEF CallsInv, Silent, NoneUnasked, Counted
  <1>2. ASSUME NEW t \in Threads, thread'[t] = "running", session[t].phase = "command"
        PROVE  task'[t] = task[t] /\ In(t, "command") /\ CommandStays(t)
    BY <1>2 DEF ServiceInv, FreshWhenIdle, Fresh, KeepsServing, In
  <1>3. Requested'
    BY <1>2 DEF CallsInv, Requested, In, Unread, Request, CommandStays
  <1> QED
    BY <1>1, <1>3

\* What a client adds to what it has sent.
LEMMA SentKeeps ==
    ASSUME PoolInv, ServiceInv, CallsInv, UNCHANGED <<poolVars, run, answers, session>>,
           \A d \in Jobs :
              /\ Len(answers[d]) <= Len(sent'[d])
              /\ d \in Accepted =>
                    /\ Len(sent'[d]) \in Nat /\ Len(sent[d]) <= Len(sent'[d])
                    /\ \A i \in 1..Len(sent[d]) : sent'[d][i] = sent[d][i]
    PROVE  Silent' /\ NoneUnasked' /\ Counted' /\ Requested'
  <1>1. Silent' /\ NoneUnasked' /\ Counted'
    BY DEF CallsInv, Silent, NoneUnasked, Counted, poolVars, Accepted, Queued
  <1>2. ASSUME NEW t \in Threads, In(t, "command")
        PROVE  Unread(task[t])' /\ Request(t)' = Request(t)
    <2>1. task[t] \in Jobs /\ task[t] \in Accepted
      BY <1>2, ServedFacts DEF In
    <2>2. Len(answers[task[t]]) \in Nat /\ Len(sent[task[t]]) \in Nat
      BY <2>1, LenProperties DEF ServiceInv, NetTypeOK
    <2>3. Len(answers[task[t]]) < Len(sent[task[t]])
      BY <1>2 DEF CallsInv, Requested, Unread
    <2>4. Len(answers[task[t]]) + 1 \in 1..Len(sent[task[t]])
      BY <2>2, <2>3
    <2>5. Len(answers[task[t]]) < Len(sent'[task[t]])
      BY <2>1, <2>2, <2>3
    <2> QED
      BY <2>1, <2>4, <2>5 DEF Unread, Request, poolVars
  <1>3. Requested'
    BY <1>2 DEF CallsInv, Requested, In, poolVars
  <1> QED
    BY <1>1, <1>3

\* The answer goes to a request that has none, and the other threads are at
\* other connections.
LEMMA RespondKeepsCalls ==
    ASSUME PoolInv, ServiceInv, CallsInv, NEW t \in Threads, thread[t] = "running",
           session[t].phase # "over", Unread(task[t]),
           NEW answer \in Int, Respond(t, answer), UNCHANGED <<poolVars, sent>>,
           \A u \in Threads : u # t => run'[u] = run[u]
    PROVE  Silent' /\ NoneUnasked' /\ Counted' /\ Requested'
  <1>1. /\ task[t] \in Jobs /\ task[t] \in Accepted /\ Accepted' = Accepted
        /\ \A u \in Threads : u # t /\ thread[u] = "running" => task[u] # task[t]
    BY ServedFacts DEF poolVars, Accepted, Queued
  <1>2. /\ \A c \in Jobs : c # task[t] => answers'[c] = answers[c]
        /\ answers'[task[t]] = Append(answers[task[t]], answer)
    BY <1>1 DEF Respond, ServiceInv, NetTypeOK
  <1>3. Silent'
    BY <1>1, <1>2 DEF CallsInv, Silent
  <1>4. NoneUnasked'
    <2>1. answers[task[t]] \in Seq(Int) /\ Len(sent[task[t]]) \in Nat
      BY <1>1, LenProperties DEF ServiceInv, NetTypeOK
    <2>2. Len(answers'[task[t]]) = Len(answers[task[t]]) + 1 /\ Len(answers[task[t]]) \in Nat
      BY <1>2, <2>1, AppendProperties, LenProperties
    <2>3. Len(answers'[task[t]]) <= Len(sent[task[t]])
      BY <2>1, <2>2 DEF Unread
    <2> QED
      BY <1>2, <2>3 DEF CallsInv, NoneUnasked
  <1>5. /\ session'[t].left = session[t].left - 1
        /\ session'[t].phase = "over" \/ (session'[t].phase = "select" /\ session[t].left # 1)
        /\ \A u \in Threads : u # t => session'[u] = session[u]
    BY DEF Respond, ServiceInv, NetTypeOK
  <1>6. Counted'
    <2>1. session[t].left \in 0..MaxCount /\ session[t].left # 0
      BY DEF CallsInv, Counted
    <2>2. session'[t].left \in 0..MaxCount /\ (session'[t].phase # "over" => session'[t].left # 0)
      BY <1>5, <2>1, BoundsAssumption
    <2> QED
      BY <1>5, <2>2 DEF CallsInv, Counted
  <1>7. ASSUME NEW u \in Threads, thread[u] = "running", session'[u].phase = "command"
        PROVE  u # t /\ In(u, "command") /\ answers'[task[u]] = answers[task[u]]
    <2>1. u # t /\ session'[u] = session[u]
      BY <1>5, <1>7
    <2>2. task[u] \in Jobs /\ task[u] # task[t]
      BY <1>1, <1>7, <2>1, ServedFacts
    <2> QED
      BY <1>2, <1>7, <2>1, <2>2 DEF In
  <1>8. Requested'
    BY <1>7 DEF CallsInv, Requested, In, Unread, Request, poolVars
  <1> QED
    BY <1>3, <1>4, <1>6, <1>8

LEMMA ReturnKeepsCalls ==
    ASSUME PoolInv, ServiceInv, CallsInv, NEW t \in Threads, Return(t), Accepted \subseteq Accepted',
           session' = [session EXCEPT ![t] = Fresh], UNCHANGED <<sent, answers, run>>
    PROVE  Silent' /\ NoneUnasked' /\ Counted' /\ Requested'
  <1>1. session'[t] = Fresh /\ \A u \in Threads : u # t => session'[u] = session[u]
    BY DEF ServiceInv, NetTypeOK
  <1>2. \A u \in Threads : u # t => thread'[u] = thread[u] /\ task'[u] = task[u]
    BY DEF Return, Becomes, PoolInv, PoolTypeOK
  <1>3. Silent' /\ NoneUnasked'
    BY DEF CallsInv, Silent, NoneUnasked
  <1>4. Counted'
    BY <1>1, BoundsAssumption DEF CallsInv, Counted, Fresh
  <1>5. Requested'
    BY <1>1, <1>2 DEF CallsInv, Requested, In, Fresh, Unread, Request
  <1> QED
    BY <1>3, <1>4, <1>5

LEMMA ServeCallKeeps ==
    ASSUME PoolInv, ServiceInv, CallsInv, NEW t \in Threads, ServeCall(t)
    PROVE  CallsInv'
  <1>1. /\ thread[t] = "running" /\ Unread(task[t]) /\ RunsCommand(Request(t))
        /\ session[t].phase # "over" /\ UNCHANGED <<poolVars, netVars>>
    BY DEF ServeCall, Ready, In
  <1>2. /\ CommandsInv' /\ run'[t].args = Called(Request(t).body) /\ run'[t] # NoRun
        /\ \A u \in Threads : u # t => run'[u] = run[u]
    BY RunnersAreTwoKinds, BeginKeeps DEF CallsInv, ServeCall
  <1>3. /\ session'[t].phase = "command" /\ session'[t].left = session[t].left
        /\ \A u \in Threads : u # t => session'[u] = session[u]
    BY DEF ServeCall, ServiceInv, NetTypeOK
  <1>4. Silent' /\ NoneUnasked'
    BY <1>1 DEF CallsInv, Silent, NoneUnasked, poolVars, netVars, Accepted, Queued
  <1>5. Counted'
    BY <1>1, <1>3 DEF CallsInv, Counted
  <1>6. Requested'
    BY <1>1, <1>2, <1>3 DEF CallsInv, Requested, In, Unread, Request, poolVars, netVars
  <1> QED
    BY <1>1, <1>2, <1>4, <1>5, <1>6 DEF CallsInv, netVars

LEMMA QuietKeeps ==
    ASSUME PoolInv, ServiceInv, CallsInv, NEW t \in Threads, Quiet(t)
    PROVE  CallsInv'
  <1>1. UNCHANGED <<poolVars, commandVars, netVars>> /\ session[t].phase = "select"
    BY DEF Quiet, In
  <1>2. /\ session'[t].phase = "poll" /\ session'[t].left = session[t].left
        /\ \A u \in Threads : u # t => session'[u] = session[u]
    BY DEF Quiet, ServiceInv, NetTypeOK
  <1>3. Silent' /\ NoneUnasked'
    BY <1>1 DEF CallsInv, Silent, NoneUnasked, poolVars, netVars, Accepted, Queued
  <1>4. Counted'
    BY <1>1, <1>2 DEF CallsInv, Counted
  <1>5. Requested'
    BY <1>1, <1>2 DEF CallsInv, Requested, In, Unread, Request, poolVars, netVars, commandVars
  <1>6. CommandsInv'
    BY <1>1, CommandsUntouched DEF CallsInv
  <1> QED
    BY <1>1, <1>3, <1>4, <1>5, <1>6 DEF CallsInv, netVars

LEMMA FinishKeeps ==
    ASSUME PoolInv, ServiceInv, CallsInv, NEW t \in Threads, Finish(t)
    PROVE  CallsInv'
  <1>1. /\ thread[t] = "running" /\ session[t].phase = "command" /\ In(t, "command")
        /\ run' = [run EXCEPT ![t] = NoRun] /\ UNCHANGED <<poolVars, fs, faults, svr_sock, sent>>
        /\ Respond(t, Verdict(Request(t).body, run[t].rc))
    BY DEF Finish, In
  <1>2. CommandsInv' /\ \A u \in Threads : u # t => run'[u] = run[u]
    BY <1>1, RunnersAreTwoKinds, ForgetKeeps DEF CallsInv, CommandsInv, RunsOK
  <1>3. Unread(task[t])
    BY <1>1 DEF CallsInv, Requested
  <1>4. Silent' /\ NoneUnasked' /\ Counted' /\ Requested'
    BY <1>1, <1>2, <1>3, VerdictIsInt, RespondKeepsCalls
  <1> QED
    BY <1>1, <1>2, <1>4 DEF CallsInv

LEMMA CallsInvInit == Init => CallsInv
  <1> SUFFICES ASSUME Init PROVE CallsInv
    OBVIOUS
  <1>1. CommandsInv
    BY CommandsInvInit DEF Init
  <1>2. Silent /\ NoneUnasked /\ Counted /\ Requested
    BY BoundsAssumption DEF Init, PoolInit, Silent, NoneUnasked, Counted, Requested, In, Fresh
  <1> QED
    BY <1>1, <1>2 DEF Init, CallsInv

LEMMA CallsInvStep == PoolInv /\ ServiceInv /\ CallsInv /\ [Next]_vars => CallsInv'
  <1> SUFFICES ASSUME PoolInv, ServiceInv, CallsInv, [Next]_vars PROVE CallsInv'
    OBVIOUS
  <1>0. Accepted \subseteq Accepted'
    BY ServiceStepIsPoolStep, AcceptedStays DEF ServiceInv
  <1>1. ASSUME NEW c \in Jobs, Connect(c) PROVE CallsInv'
    <2>1. c \notin Accepted /\ UNCHANGED <<poolVars, commandVars, svr_sock, answers, session>>
      BY <1>1 DEF Connect, Connected
    <2>2. answers[c] = <<>>
      BY <2>1 DEF CallsInv, Silent
    <2>3. \A d \in Jobs : d # c => sent'[d] = sent[d]
      BY <1>1 DEF Connect, ServiceInv, NetTypeOK
    <2>4. Len(answers[c]) <= Len(sent'[c])
      <3>1. CASE UNCHANGED sent
        BY <3>1 DEF CallsInv, NoneUnasked
      <3>2. ASSUME NEW r \in Requests, sent' = [sent EXCEPT ![c] = <<r>>]
            PROVE  Len(answers[c]) <= Len(sent'[c])
        BY <2>2, <3>2 DEF ServiceInv, NetTypeOK
      <3> QED
        BY <1>1, <3>1, <3>2 DEF Connect
    <2>5. \A d \in Jobs : Len(sent[d]) \in Nat
      BY LenProperties DEF ServiceInv, NetTypeOK
    <2>6. Silent' /\ NoneUnasked' /\ Counted' /\ Requested'
      BY <2>1, <2>3, <2>4, <2>5, SentKeeps DEF CallsInv, NoneUnasked, commandVars
    <2> QED
      BY <2>1, <2>6, CommandsUntouched DEF CallsInv
  <1>2. ASSUME NEW c \in Jobs, Send(c) PROVE CallsInv'
    <2>1. UNCHANGED <<poolVars, commandVars, svr_sock, answers, session>>
      BY <1>2 DEF Send
    <2>2. \A d \in Jobs : d # c => sent'[d] = sent[d]
      BY <1>2 DEF Send, ServiceInv, NetTypeOK
    <2>3. PICK r \in Requests : sent'[c] = Append(sent[c], r)
      BY <1>2 DEF Send, ServiceInv, NetTypeOK
    <2>4. \A d \in Jobs : Len(sent[d]) \in Nat /\ Len(answers[d]) \in Nat
      BY LenProperties DEF ServiceInv, NetTypeOK
    <2>5. Len(sent'[c]) = Len(sent[c]) + 1 /\ \A i \in 1..Len(sent[c]) : sent'[c][i] = sent[c][i]
      BY <2>3, AppendProperties DEF ServiceInv, NetTypeOK
    <2>6. Len(answers[c]) <= Len(sent'[c]) /\ Len(sent'[c]) \in Nat /\ Len(sent[c]) <= Len(sent'[c])
      BY <2>4, <2>5 DEF CallsInv, NoneUnasked
    <2>7. Silent' /\ NoneUnasked' /\ Counted' /\ Requested'
      BY <2>1, <2>2, <2>4, <2>5, <2>6, SentKeeps DEF CallsInv, NoneUnasked, commandVars
    <2> QED
      BY <2>1, <2>7, CommandsUntouched DEF CallsInv
  <1>3. ASSUME KeepsServing, UNCHANGED <<commandVars, sent, answers, session>>,
               svr_sock' \in {"open", "closed", "failed"}
        PROVE  CallsInv'
    <2>1. \A t \in Threads : CommandStays(t)
      BY <1>3 DEF CommandStays, commandVars
    <2> QED
      BY <1>0, <1>3, <2>1, SessionsStay, CommandsUntouched DEF CallsInv
  <1>4. ASSUME Accept PROVE CallsInv'
    BY <1>3, <1>4, OwnerKeepsServing DEF Accept, CallsInv
  <1>5. ASSUME AcceptFails PROVE CallsInv'
    <2>1. KeepsServing /\ UNCHANGED <<run, sent, answers, session>> /\ svr_sock' = "failed"
      BY <1>5 DEF AcceptFails, KeepsServing, poolVars
    <2>2. CommandsInv'
      BY <1>5, FaultKeeps DEF AcceptFails, CallsInv
    <2>3. \A t \in Threads : CommandStays(t)
      BY <2>1 DEF CommandStays
    <2> QED
      BY <1>0, <2>1, <2>2, <2>3, SessionsStay DEF CallsInv
  <1>6. ASSUME StopListening \/ Listener PROVE CallsInv'
    BY <1>3, <1>6, OwnerKeepsServing DEF StopListening, Listener, netVars, CallsInv
  <1>7. ASSUME NEW t \in Threads, PoolStep(t) \/ Unasked(t) PROVE CallsInv'
    BY <1>3, <1>7, WorkKeepsServing DEF PoolStep, Unasked, netVars, CallsInv
  <1>8. ASSUME NEW t \in Threads, HangUp(t) \/ Close(t) PROVE CallsInv'
    <2>1. /\ Return(t) /\ session' = [session EXCEPT ![t] = Fresh]
          /\ UNCHANGED <<commandVars, netVars>>
      BY <1>8 DEF HangUp, Close
    <2> QED
      BY <1>0, <2>1, ReturnKeepsCalls, CommandsUntouched DEF CallsInv, commandVars, netVars
  <1>9. ASSUME NEW t \in Threads, ServeAtOnce(t) \/ ServeStop(t) PROVE CallsInv'
    <2>1. PICK answer \in Int : Respond(t, answer)
      BY <1>9, AnswerIsInt DEF ServeAtOnce, ServeStop
    <2>2. /\ thread[t] = "running" /\ session[t].phase # "over" /\ Unread(task[t])
          /\ UNCHANGED <<poolVars, commandVars, sent>> /\ svr_sock' \in {svr_sock, "closed"}
      BY <1>9 DEF ServeAtOnce, ServeStop, Ready, In
    <2>3. Silent' /\ NoneUnasked' /\ Counted' /\ Requested'
      BY <2>1, <2>2, RespondKeepsCalls DEF commandVars
    <2> QED
      BY <2>2, <2>3, CommandsUntouched DEF CallsInv
  <1>10. ASSUME UNCHANGED <<poolVars, netVars, session>>, CommandsInv', \A t \in Threads : CommandStays(t)
         PROVE  CallsInv'
    BY <1>0, <1>10, SessionsStay DEF CallsInv, KeepsServing, poolVars, netVars
  <1>11. ASSUME NEW w \in Runners, CommandStep(w) PROVE CallsInv'
    <2>1. CommandsInv' /\ AskedStays
      BY <1>11, ProceedKeeps DEF CommandStep, CallsInv
    <2>2. \A t \in Threads : CommandStays(t)
      BY <2>1, RunnersAreTwoKinds DEF AskedStays, CommandStays
    <2> QED
      BY <1>10, <1>11, <2>1, <2>2 DEF CommandStep
  <1>12. ASSUME NEW w \in Terminals, NEW args, Begin(w, args), UNCHANGED <<poolVars, netVars, session>>
         PROVE  CallsInv'
    <2>1. CommandsInv' /\ \A t \in Threads : run'[t] = run[t]
      BY <1>12, RunnersAreTwoKinds, BeginKeeps DEF CallsInv
    <2>2. \A t \in Threads : CommandStays(t)
      BY <2>1 DEF CommandStays
    <2> QED
      BY <1>10, <1>12, <2>1, <2>2
  <1>13. ASSUME NEW w \in Terminals, NEW i \in Invocations, Invoke(w, i) PROVE CallsInv'
    BY <1>12, <1>13 DEF Invoke
  <1>14. ASSUME NEW w \in Terminals, NEW r \in Requests, Line(w, r.body) PROVE CallsInv'
    BY <1>12, <1>14 DEF Line
  <1>15. ASSUME UNCHANGED vars PROVE CallsInv'
    BY <1>3, <1>15 DEF vars, KeepsServing, poolVars, netVars, CallsInv
  <1> QED
    BY <1>1, <1>2, <1>4, <1>5, <1>6, <1>7, <1>8, <1>9, <1>11, <1>13, <1>14, <1>15, QuietKeeps,
       ServeCallKeeps, FinishKeeps DEF Next, Serve, Over

LEMMA ServerStep == ServerInv /\ [Next]_vars => ServerInv'
  BY BothStep, CallsInvStep DEF ServerInv

\* ServerInvariant: a thread that runs a command runs the one that the oldest
\* unanswered request of its connection asked for, nothing is answered that was
\* not asked, and what the commands keep holds beside each other in the server
\* and the terminals.
THEOREM ServerInvariant == Spec => []ServerInv
  <1>1. Init => ServerInv
    BY PoolInvInit, ServiceInvInit, CallsInvInit DEF Init, ServerInv
  <1> QED
    BY <1>1, ServerStep, PTL DEF Spec

\* FilesComplete: for any number of threads, terminals and connections a command
\* that returned 0 has written all its files, if no other run with one of them
\* was under way meanwhile, the disk took every text, and no two APIs have one
\* title.
THEOREM FilesComplete == Spec => []FilesAreComplete
  <1>1. ServerInv => FilesAreComplete
    BY CompleteFiles DEF ServerInv, CallsInv
  <1> QED
    BY <1>1, ServerInvariant, PTL

\* ServiceTyped: every connection has at most as many answers as requests, and
\* every command and every session is in a place of its own.
THEOREM ServiceTyped == Spec => []ServiceTypeOK
  <1>1. ServerInv => ServiceTypeOK
    BY CommandsTyped DEF ServerInv, PoolInv, ServiceInv, NetTypeOK, CallsInv, NoneUnasked, Counted,
       ServiceTypeOK
  <1> QED
    BY <1>1, ServerInvariant, PTL

\* A result says that from_openapi returned 0.
LEMMA FailureIsTold ==
    ASSUME NEW body, Generates(body), Called(body).command = "from_openapi", NEW rc, rc # 0
    PROVE  Verdict(body, rc) = -32603
  <1>1. /\ body.is = "message" /\ body.version = "2.0" /\ body.method = "tools/call"
        /\ body.tool = "cdd_generate"
    BY DEF Generates, IsCall
  <1> QED
    BY <1>1 DEF Verdict

LEMMA AnswerIsDone ==
    ASSUME ServerInv, NEW t \in Threads, Answers(t), run[t].args.command = "from_openapi",
           run[t].alone, ~ run[t].full
    PROVE  Complete(run[t]) /\ run[t].targets # <<>>
  <1>1. /\ In(t, "command") /\ ~ Running(t)
        /\ Respond(t, Verdict(Request(t).body, run[t].rc))
        /\ answers'[task[t]][Len(answers'[task[t]])] = 0
    BY DEF Answers, Finish
  <1>2. /\ RunsCommand(Request(t)) /\ run[t] # NoRun /\ t \in Runners
        /\ Called(Request(t).body).command = "from_openapi"
    BY <1>1, RunnersAreTwoKinds DEF ServerInv, CallsInv, Requested
  <1>3. task[t] \in Jobs
    BY <1>1, ServedFacts DEF ServerInv, In
  <1>4. answers'[task[t]] = Append(answers[task[t]], Verdict(Request(t).body, run[t].rc))
    BY <1>1, <1>3 DEF Respond, ServerInv, ServiceInv, NetTypeOK
  <1>5. Verdict(Request(t).body, run[t].rc) = 0
    <2>1. answers[task[t]] \in Seq(Int)
      BY <1>3 DEF ServerInv, ServiceInv, NetTypeOK
    <2> HIDE DEF Verdict
    <2>2. Verdict(Request(t).body, run[t].rc) \in Int
      BY VerdictIsInt
    <2> QED
      BY <1>1, <1>4, <2>1, <2>2, AppendProperties
  <1>6. run[t].rc = 0
    <2>1. Generates(Request(t).body)
      BY <1>2 DEF RunsCommand
    <2> QED
      BY <1>2, <1>5, <2>1, FailureIsTold
  <1>7. Ended(t, 0)
    BY <1>1, <1>2, <1>6 DEF ServerInv, CallsInv, CommandsInv, RunsOK, RunOK, Running, Ended
  <1> QED
    BY <1>2, <1>7, EndedIsComplete DEF ServerInv, CallsInv

\* ResultMeansDone: a call of cdd_generate that runs from_openapi and is answered
\* by a result has left its files, if no other run had one of them meanwhile and
\* the disk took every text.
THEOREM ResultMeansDone == Spec => OkMeansDone
  <1>1. ServerInv /\ [Next]_vars =>
          [\A t \in Threads :
              Answers(t) /\ run[t].args.command = "from_openapi" /\ run[t].alone /\ ~ run[t].full =>
                  Complete(run[t]) /\ run[t].targets # <<>>]_vars
    BY AnswerIsDone
  <1> QED
    BY <1>1, ServerInvariant, PTL DEF Spec, OkMeansDone
===============================================================================
