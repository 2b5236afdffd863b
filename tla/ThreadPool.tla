------------------------------ MODULE ThreadPool ------------------------------
(***************************************************************************)
(* httplib's ThreadPool, which runs the handlers of the JSON-RPC server.   *)
(* Its owner, the thread that listens, hands it jobs and shuts it down.    *)
(* There are base threads, which stay until then, and dynamic ones, which  *)
(* enqueue starts when nobody is idle and which leave when there is        *)
(* nothing to do.  A step is what a thread does while it holds the mutex;  *)
(* only the owner, when it joins threads, holds it from one step to the    *)
(* next.                                                                   *)
(***************************************************************************)
EXTENDS Integers, Sequences, FiniteSets

CONSTANTS Base,     \* the base threads
          Dynamic,  \* names for the dynamic ones: max_thread_count_ less base
          Jobs,     \* what may be enqueued, once each
          None      \* no job
ASSUME ThreadsAssumption ==
    /\ Base # {}
    /\ IsFiniteSet(Base) /\ IsFiniteSet(Dynamic)
    /\ Base \cap Dynamic = {}
ASSUME JobsAssumption == None \notin Jobs

Threads == Base \cup Dynamic

VARIABLES thread,       \* where each thread is in worker
          task,         \* fn, of the threads that run one
          jobs,         \* jobs_
          idle,         \* idle_thread_count_
          shutdown,     \* shutdown_
          dynamic,      \* dynamic_threads_
          finished,     \* finished_threads_
          remaining,    \* remaining_dynamic
          owner,        \* where the owner is in enqueue or shutdown
          ran           \* the jobs that returned

poolVars == <<thread, task, jobs, idle, shutdown, dynamic, finished, remaining, owner, ran>>
lists == <<dynamic, finished, remaining>>

Places == {"none",      \* not started, or joined
           "ready",     \* at the top of the loop, or started
           "waiting",   \* in cond_.wait
           "woken",     \* the wait is over, and it needs the mutex
           "expired",   \* the wait is over by its timeout
           "running",   \* in fn()
           "returned",  \* a dynamic thread after fn()
           "left"}      \* out of the loop
Idle(t) == thread[t] \in {"waiting", "woken", "expired"}
Started(t) == thread[t] \notin {"none", "left"}
Queued == {jobs[i] : i \in DOMAIN jobs}
Accepted == (Queued \cup {task[t] : t \in Threads} \cup ran) \ {None}

-----------------------------------------------------------------------------
PoolInit ==
    /\ thread = [t \in Threads |-> IF t \in Base THEN "ready" ELSE "none"]
    /\ task = [t \in Threads |-> None]
    /\ jobs = <<>>
    /\ idle = 0
    /\ shutdown = FALSE
    /\ dynamic = {} /\ finished = {} /\ remaining = {}
    /\ owner = "free"
    /\ ran = {}

\* The owner holds the mutex while it joins the finished threads.
Locked == owner \in {"spawning", "cleaning"}
Joinable(S) == \A t \in S : thread[t] = "left"
Joined(S) == [t \in Threads |-> IF t \in S THEN "none" ELSE thread[t]]

\* Mutant: nobody is notified.
EnqueueSilently(job) ==
    /\ owner = "free" /\ ~ shutdown
    /\ job \notin Accepted
    /\ jobs' = Append(jobs, job)
    /\ owner' = IF idle = 0 /\ dynamic # Dynamic THEN "spawning" ELSE "free"
    /\ UNCHANGED <<thread, task, idle, shutdown, lists, ran>>

Enqueue(job) ==
    /\ owner = "free" /\ ~ shutdown
    /\ job \notin Accepted
    /\ jobs' = Append(jobs, job)
    /\ owner' = IF idle = 0 /\ dynamic # Dynamic THEN "spawning" ELSE "notifying"
    /\ UNCHANGED <<thread, task, idle, shutdown, lists, ran>>

\* cleanup_finished_threads, and a new dynamic thread.
Spawn ==
    /\ owner = "spawning"
    /\ Joinable(finished)
    /\ \E t \in Dynamic \ dynamic :
           /\ thread' = [Joined(finished) EXCEPT ![t] = "ready"]
           /\ dynamic' = dynamic \cup {t}
    /\ finished' = {}
    /\ owner' = "notifying"
    /\ UNCHANGED <<task, jobs, idle, shutdown, remaining, ran>>

NotifyOne ==
    /\ owner = "notifying"
    /\ \/ \E t \in Threads : thread[t] = "waiting" /\ thread' = [thread EXCEPT ![t] = "woken"]
       \/ (\A t \in Threads : thread[t] # "waiting") /\ UNCHANGED thread
    /\ owner' = "free"
    /\ UNCHANGED <<task, jobs, idle, shutdown, lists, ran>>

Shutdown ==
    /\ owner = "free"
    /\ shutdown' = TRUE
    /\ owner' = "notifying all"
    /\ UNCHANGED <<thread, task, jobs, idle, lists, ran>>

\* Mutant: one thread is told.
NotifyAllOne ==
    /\ owner = "notifying all"
    /\ \E u \in Threads :
           thread' = [t \in Threads |-> IF thread[t] = "waiting" /\ t = u THEN "woken" ELSE thread[t]]
    /\ owner' = "joining base"
    /\ UNCHANGED <<task, jobs, idle, shutdown, lists, ran>>

NotifyAll ==
    /\ owner = "notifying all"
    /\ thread' = [t \in Threads |-> IF thread[t] = "waiting" THEN "woken" ELSE thread[t]]
    /\ owner' = "joining base"
    /\ UNCHANGED <<task, jobs, idle, shutdown, lists, ran>>

JoinBase ==
    /\ owner = "joining base"
    /\ Joinable(Base)
    /\ thread' = Joined(Base)
    /\ owner' = "moving"
    /\ UNCHANGED <<task, jobs, idle, shutdown, lists, ran>>

MoveDynamic ==
    /\ owner = "moving"
    /\ remaining' = dynamic
    /\ dynamic' = {}
    /\ owner' = "joining dynamic"
    /\ UNCHANGED <<thread, task, jobs, idle, shutdown, finished, ran>>

JoinDynamic ==
    /\ owner = "joining dynamic"
    /\ Joinable(remaining)
    /\ thread' = Joined(remaining)
    /\ remaining' = {}
    /\ owner' = "cleaning"
    /\ UNCHANGED <<task, jobs, idle, shutdown, dynamic, finished, ran>>

CleanUp ==
    /\ owner = "cleaning"
    /\ Joinable(finished)
    /\ thread' = Joined(finished)
    /\ finished' = {}
    /\ owner' = "done"
    /\ UNCHANGED <<task, jobs, idle, shutdown, dynamic, remaining, ran>>

-----------------------------------------------------------------------------
\* worker

Becomes(t, place) == thread' = [thread EXCEPT ![t] = place]
NoLongerIdle(t) == idle' = IF Idle(t) THEN idle - 1 ELSE idle
move_to_finished(t) ==
    /\ dynamic' = dynamic \ {t}
    /\ finished' = IF t \in dynamic THEN finished \cup {t} ELSE finished
    /\ UNCHANGED remaining

HasMutex(t) == ~ Locked /\ thread[t] \in {"ready", "woken", "expired"}

\* Mutant: the job stays in the queue.
TakeAndLeave(t) ==
    /\ HasMutex(t)
    /\ jobs # <<>>
    /\ NoLongerIdle(t)
    /\ task' = [task EXCEPT ![t] = Head(jobs)]
    /\ Becomes(t, "running")
    /\ UNCHANGED <<jobs, shutdown, lists, owner, ran>>

Take(t) ==
    /\ HasMutex(t)
    /\ jobs # <<>>
    /\ NoLongerIdle(t)
    /\ task' = [task EXCEPT ![t] = Head(jobs)]
    /\ jobs' = Tail(jobs)
    /\ Becomes(t, "running")
    /\ UNCHANGED <<shutdown, lists, owner, ran>>

Wait(t) ==
    /\ HasMutex(t) /\ thread[t] # "expired"
    /\ jobs = <<>> /\ ~ shutdown
    /\ idle' = IF Idle(t) THEN idle ELSE idle + 1
    /\ Becomes(t, "waiting")
    /\ UNCHANGED <<task, jobs, shutdown, lists, owner, ran>>

\* Mutant: the count is not taken back when the wait times out.
LeaveIdleCounted(t) ==
    /\ HasMutex(t) /\ thread[t] = "expired"
    /\ jobs = <<>> /\ ~ shutdown
    /\ move_to_finished(t)
    /\ Becomes(t, "left")
    /\ UNCHANGED <<idle, task, jobs, shutdown, owner, ran>>

LeaveIdle(t) ==
    /\ HasMutex(t) /\ thread[t] = "expired"
    /\ jobs = <<>> /\ ~ shutdown
    /\ NoLongerIdle(t)
    /\ move_to_finished(t)
    /\ Becomes(t, "left")
    /\ UNCHANGED <<task, jobs, shutdown, owner, ran>>

\* Mutant: at a shutdown a thread leaves although there are jobs.
LeaveAtOnce(t) ==
    /\ HasMutex(t)
    /\ shutdown
    /\ NoLongerIdle(t)
    /\ Becomes(t, "left")
    /\ UNCHANGED <<task, jobs, shutdown, lists, owner, ran>>

LeaveShutdown(t) ==
    /\ HasMutex(t)
    /\ jobs = <<>> /\ shutdown
    /\ NoLongerIdle(t)
    /\ Becomes(t, "left")
    /\ UNCHANGED <<task, jobs, shutdown, lists, owner, ran>>

\* wait_for's timeout, of dynamic threads, and a spurious wakeup.
Expire(t) == t \in Dynamic /\ thread[t] = "waiting" /\ Becomes(t, "expired")
                /\ UNCHANGED <<task, jobs, idle, shutdown, lists, owner, ran>>
WakeUp(t) == thread[t] = "waiting" /\ Becomes(t, "woken")
                /\ UNCHANGED <<task, jobs, idle, shutdown, lists, owner, ran>>

\* fn() returns.
Return(t) ==
    /\ thread[t] = "running"
    /\ ran' = ran \cup {task[t]}
    /\ task' = [task EXCEPT ![t] = None]
    /\ Becomes(t, IF t \in Base THEN "ready" ELSE "returned")
    /\ UNCHANGED <<jobs, idle, shutdown, lists, owner>>

LeaveReturned(t) ==
    /\ thread[t] = "returned" /\ ~ Locked
    /\ jobs = <<>>
    /\ move_to_finished(t)
    /\ Becomes(t, "left")
    /\ UNCHANGED <<task, jobs, idle, shutdown, owner, ran>>

Stay(t) ==
    /\ thread[t] = "returned" /\ ~ Locked
    /\ jobs # <<>>
    /\ Becomes(t, "ready")
    /\ UNCHANGED <<task, jobs, idle, shutdown, lists, owner, ran>>

Notice(t) == Expire(t) \/ WakeUp(t)
Work(t) == Take(t) \/ Wait(t) \/ LeaveIdle(t) \/ LeaveShutdown(t) \/ LeaveReturned(t) \/ Stay(t)
Own == Spawn \/ NotifyOne \/ NotifyAll \/ JoinBase \/ MoveDynamic \/ JoinDynamic \/ CleanUp

PoolNext ==
    \/ \E job \in Jobs : Enqueue(job)
    \/ Shutdown
    \/ Own
    \/ \E t \in Threads : Work(t) \/ Notice(t) \/ Return(t)

PoolSpec == PoolInit /\ [][PoolNext]_poolVars

-----------------------------------------------------------------------------
Owners == {"free", "spawning", "notifying", "notifying all", "joining base", "moving",
           "joining dynamic", "cleaning", "done"}

PoolTypeOK ==
    /\ thread \in [Threads -> Places]
    /\ task \in [Threads -> Jobs \cup {None}]
    /\ jobs \in Seq(Jobs)
    /\ idle \in Nat
    /\ shutdown \in BOOLEAN
    /\ dynamic \subseteq Dynamic /\ finished \subseteq Dynamic /\ remaining \subseteq Dynamic
    /\ owner \in Owners
    /\ ran \subseteq Jobs

\* IdleIsCounted: idle_thread_count_, by which enqueue decides whether to start
\* a thread, is the number of threads in a wait, whatever way they came out of
\* one: by a job, the timeout, a spurious wakeup or the shutdown.
IdleIsCounted == idle = Cardinality({t \in Threads : Idle(t)})

\* OnceEach: a job that was accepted is in the queue, or with one thread, or
\* done, and in one of these only: no connection is served twice or by two.
OnceEach ==
    /\ \A i, j \in DOMAIN jobs : jobs[i] = jobs[j] => i = j
    /\ \A t, u \in Threads : task[t] # None /\ task[t] = task[u] => t = u
    /\ \A t \in Threads : task[t] \notin Queued \cup ran
    /\ Queued \cap ran = {}

\* NoLostWakeup: while a job is queued, and the owner is not about to notify,
\* some thread is on its way to look at the queue; they never all sleep.
NoLostWakeup ==
    jobs # <<>> /\ owner \notin {"spawning", "notifying"} =>
        \E t \in Threads : Started(t) /\ thread[t] # "waiting"

\* NothingLeft: when shutdown returns every thread has been joined, and every
\* job that was accepted has been run to its end.
NothingLeft ==
    owner = "done" =>
        /\ \A t \in Threads : thread[t] = "none"
        /\ jobs = <<>>
        /\ dynamic = {} /\ finished = {} /\ remaining = {}

\* ServesInOrder: for its owner the pool is a queue (WorkQueue): jobs are begun in
\* the order of enqueue, each once, whatever threads start, wait, expire or leave,
\* and shutdown returns when all that were accepted have ended.
Queue == INSTANCE WorkQueue WITH
             waiting  <- jobs,
             underway <- {task[t] : t \in Threads} \ {None},
             done     <- ran,
             state    <- CASE owner = "done" -> "over"
                           [] shutdown /\ owner # "done" -> "closed"
                           [] OTHER -> "open"
ServesInOrder == Queue!Spec
===============================================================================
