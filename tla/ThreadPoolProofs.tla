--------------------------- MODULE ThreadPoolProofs ---------------------------
(***************************************************************************)
(* httplib's ThreadPool counts its idle threads, loses no wakeup and no    *)
(* job, runs none twice, and leaves nothing behind, for any number of      *)
(* threads and jobs.                                                       *)
(***************************************************************************)
EXTENDS ThreadPool, SequenceTheorems, FiniteSetTheorems, TLAPS

\* The owner's way through shutdown.
Emptied == {"cleaning", "done"}
Moved   == {"joining dynamic"} \cup Emptied
NoBase  == {"moving"} \cup Moved
Ending  == {"notifying all", "joining base"} \cup NoBase

Stages ==
    /\ shutdown <=> owner \in Ending
    /\ owner \in NoBase => \A t \in Base : thread[t] = "none"
    /\ owner \in Moved => dynamic = {}
    /\ owner # "joining dynamic" => remaining = {}
    /\ owner = "done" => finished = {}

\* A base thread leaves only when nothing is left to do, nor ever will be.
BasesStay ==
    \A t \in Base :
        /\ thread[t] \notin {"expired", "returned"}
        /\ thread[t] \in {"left", "none"} => shutdown /\ jobs = <<>>

\* A dynamic thread is in one list from its start to its join.
Listed ==
    /\ dynamic \cap finished = {}
    /\ dynamic \cap remaining = {}
    /\ finished \cap remaining = {}
    /\ \A t \in finished : thread[t] = "left"
    /\ \A t \in Dynamic : t \notin dynamic \cup finished \cup remaining => thread[t] = "none"

RunsItsTask == \A t \in Threads : task[t] # None <=> thread[t] = "running"

PoolInv ==
    /\ PoolTypeOK /\ Stages /\ BasesStay /\ Listed /\ RunsItsTask
    /\ IdleIsCounted /\ OnceEach /\ NoLostWakeup

-----------------------------------------------------------------------------
\* idle_thread_count_ is not decremented below zero.
IdleSet == {t \in Threads : Idle(t)}
LEMMA IdleFacts ==
    ASSUME PoolTypeOK, IdleIsCounted
    PROVE  /\ IsFiniteSet(IdleSet) /\ idle = Cardinality(IdleSet)
           /\ \A t \in Threads : Idle(t) => idle - 1 \in Nat
  <1>1. IsFiniteSet(Threads)
    BY ThreadsAssumption, FS_Union DEF Threads
  <1>2. IsFiniteSet(IdleSet)
    BY <1>1, FS_Subset DEF IdleSet
  <1>3. idle = Cardinality(IdleSet)
    BY DEF IdleIsCounted, IdleSet
  <1>4. ASSUME NEW t \in Threads, Idle(t) PROVE idle # 0
    <2>1. IdleSet # {}
      BY <1>4 DEF IdleSet
    <2> QED
      BY <2>1, <1>2, <1>3, FS_EmptySet
  <1>5. ASSUME NEW t \in Threads, Idle(t) PROVE idle - 1 \in Nat
    BY <1>4, <1>5 DEF PoolTypeOK
  <1> QED
    BY <1>2, <1>3, <1>5

\* The state keeps its types.
LEMMA TypeStep == PoolInv /\ [PoolNext]_poolVars => PoolTypeOK'
  <1> SUFFICES ASSUME PoolInv, [PoolNext]_poolVars PROVE PoolTypeOK'
    OBVIOUS
  <1>0. PoolTypeOK /\ Stages /\ BasesStay /\ Listed /\ RunsItsTask /\ IdleIsCounted /\ OnceEach /\ NoLostWakeup
    BY DEF PoolInv
  <1>1. ASSUME NEW job \in Jobs, Enqueue(job) PROVE PoolTypeOK'
    BY <1>0, <1>1 DEF Enqueue, PoolTypeOK, lists, Places, Owners, Becomes, NoLongerIdle, move_to_finished, Joined, Threads, Idle
  <1>2. ASSUME Shutdown PROVE PoolTypeOK'
    BY <1>0, <1>2 DEF Shutdown, PoolTypeOK, lists, Places, Owners, Becomes, NoLongerIdle, move_to_finished, Joined, Threads, Idle
  <1>3. ASSUME Spawn PROVE PoolTypeOK'
    BY <1>0, <1>3 DEF Spawn, PoolTypeOK, lists, Places, Owners, Becomes, NoLongerIdle, move_to_finished, Joined, Threads, Idle
  <1>4. ASSUME NotifyOne PROVE PoolTypeOK'
    BY <1>0, <1>4 DEF NotifyOne, PoolTypeOK, lists, Places, Owners, Becomes, NoLongerIdle, move_to_finished, Joined, Threads, Idle
  <1>5. ASSUME NotifyAll PROVE PoolTypeOK'
    BY <1>0, <1>5 DEF NotifyAll, PoolTypeOK, lists, Places, Owners, Becomes, NoLongerIdle, move_to_finished, Joined, Threads, Idle
  <1>6. ASSUME JoinBase PROVE PoolTypeOK'
    BY <1>0, <1>6 DEF JoinBase, PoolTypeOK, lists, Places, Owners, Becomes, NoLongerIdle, move_to_finished, Joined, Threads, Idle
  <1>7. ASSUME MoveDynamic PROVE PoolTypeOK'
    BY <1>0, <1>7 DEF MoveDynamic, PoolTypeOK, lists, Places, Owners, Becomes, NoLongerIdle, move_to_finished, Joined, Threads, Idle
  <1>8. ASSUME JoinDynamic PROVE PoolTypeOK'
    BY <1>0, <1>8 DEF JoinDynamic, PoolTypeOK, lists, Places, Owners, Becomes, NoLongerIdle, move_to_finished, Joined, Threads, Idle
  <1>9. ASSUME CleanUp PROVE PoolTypeOK'
    BY <1>0, <1>9 DEF CleanUp, PoolTypeOK, lists, Places, Owners, Becomes, NoLongerIdle, move_to_finished, Joined, Threads, Idle
  <1>10. ASSUME NEW t \in Threads, Take(t) PROVE PoolTypeOK'
    BY <1>0, <1>10, IdleFacts, HeadTailProperties DEF Take, PoolTypeOK, lists, Places, Owners, Becomes, NoLongerIdle, move_to_finished, Joined, Threads, Idle
  <1>11. ASSUME NEW t \in Threads, Wait(t) PROVE PoolTypeOK'
    <2>1. idle' \in Nat
      BY <1>0, <1>11 DEF Wait, PoolTypeOK
    <2>2. thread' \in [Threads -> Places]
      BY <1>0, <1>11 DEF Wait, PoolTypeOK, Becomes, Places
    <2> QED
      BY <1>0, <1>11, <2>1, <2>2 DEF Wait, PoolTypeOK, lists
  <1>12. ASSUME NEW t \in Threads, LeaveIdle(t) PROVE PoolTypeOK'
    BY <1>0, <1>12, IdleFacts DEF LeaveIdle, PoolTypeOK, lists, Places, Owners, Becomes, NoLongerIdle, move_to_finished, Joined, Threads, Idle
  <1>13. ASSUME NEW t \in Threads, LeaveShutdown(t) PROVE PoolTypeOK'
    BY <1>0, <1>13, IdleFacts DEF LeaveShutdown, PoolTypeOK, lists, Places, Owners, Becomes, NoLongerIdle, move_to_finished, Joined, Threads, Idle
  <1>14. ASSUME NEW t \in Threads, LeaveReturned(t) PROVE PoolTypeOK'
    BY <1>0, <1>14 DEF LeaveReturned, PoolTypeOK, lists, Places, Owners, Becomes, NoLongerIdle, move_to_finished, Joined, Threads, Idle
  <1>15. ASSUME NEW t \in Threads, Stay(t) PROVE PoolTypeOK'
    BY <1>0, <1>15 DEF Stay, PoolTypeOK, lists, Places, Owners, Becomes, NoLongerIdle, move_to_finished, Joined, Threads, Idle
  <1>16. ASSUME NEW t \in Threads, Expire(t) PROVE PoolTypeOK'
    BY <1>0, <1>16 DEF Expire, PoolTypeOK, lists, Places, Owners, Becomes, NoLongerIdle, move_to_finished, Joined, Threads, Idle
  <1>17. ASSUME NEW t \in Threads, WakeUp(t) PROVE PoolTypeOK'
    BY <1>0, <1>17 DEF WakeUp, PoolTypeOK, lists, Places, Owners, Becomes, NoLongerIdle, move_to_finished, Joined, Threads, Idle
  <1>18. ASSUME NEW t \in Threads, Return(t) PROVE PoolTypeOK'
    BY <1>0, <1>18 DEF Return, RunsItsTask, PoolTypeOK, lists, Places, Owners, Becomes, NoLongerIdle, move_to_finished, Joined, Threads, Idle
  <1>19. CASE UNCHANGED poolVars
    BY <1>0, <1>19 DEF poolVars, lists, PoolTypeOK
  <1> QED
    BY <1>1, <1>2, <1>3, <1>4, <1>5, <1>6, <1>7, <1>8, <1>9, <1>10, <1>11, <1>12, <1>13, <1>14, <1>15, <1>16, <1>17, <1>18, <1>19 DEF PoolNext, Own, Work, Notice

\* The owner empties one list after the other.
LEMMA StagesStep == PoolInv /\ [PoolNext]_poolVars => Stages'
  <1> SUFFICES ASSUME PoolInv, [PoolNext]_poolVars PROVE Stages'
    OBVIOUS
  <1>0. PoolTypeOK /\ Stages /\ BasesStay /\ Listed /\ RunsItsTask /\ IdleIsCounted /\ OnceEach /\ NoLostWakeup
    BY DEF PoolInv
  <1>1. ASSUME NEW job \in Jobs, Enqueue(job) PROVE Stages'
    BY <1>0, <1>1 DEF Enqueue, Stages, Ending, NoBase, Moved, Emptied, lists, Becomes, NoLongerIdle, move_to_finished, Joined, Threads, HasMutex, Locked, PoolTypeOK, BasesStay, Listed
  <1>2. ASSUME Shutdown PROVE Stages'
    BY <1>0, <1>2 DEF Shutdown, Stages, Ending, NoBase, Moved, Emptied, lists, Becomes, NoLongerIdle, move_to_finished, Joined, Threads, HasMutex, Locked, PoolTypeOK, BasesStay, Listed
  <1>3. ASSUME Spawn PROVE Stages'
    BY <1>0, <1>3 DEF Spawn, Stages, Ending, NoBase, Moved, Emptied, lists, Becomes, NoLongerIdle, move_to_finished, Joined, Threads, HasMutex, Locked, PoolTypeOK, BasesStay, Listed
  <1>4. ASSUME NotifyOne PROVE Stages'
    BY <1>0, <1>4 DEF NotifyOne, Stages, Ending, NoBase, Moved, Emptied, lists, Becomes, NoLongerIdle, move_to_finished, Joined, Threads, HasMutex, Locked, PoolTypeOK, BasesStay, Listed
  <1>5. ASSUME NotifyAll PROVE Stages'
    BY <1>0, <1>5 DEF NotifyAll, Stages, Ending, NoBase, Moved, Emptied, lists, Becomes, NoLongerIdle, move_to_finished, Joined, Threads, HasMutex, Locked, PoolTypeOK, BasesStay, Listed
  <1>6. ASSUME JoinBase PROVE Stages'
    BY <1>0, <1>6 DEF JoinBase, Stages, Ending, NoBase, Moved, Emptied, lists, Becomes, NoLongerIdle, move_to_finished, Joined, Threads, HasMutex, Locked, PoolTypeOK, BasesStay, Listed
  <1>7. ASSUME MoveDynamic PROVE Stages'
    BY <1>0, <1>7 DEF MoveDynamic, Stages, Ending, NoBase, Moved, Emptied, lists, Becomes, NoLongerIdle, move_to_finished, Joined, Threads, HasMutex, Locked, PoolTypeOK, BasesStay, Listed
  <1>8. ASSUME JoinDynamic PROVE Stages'
    BY <1>0, <1>8 DEF JoinDynamic, Stages, Ending, NoBase, Moved, Emptied, lists, Becomes, NoLongerIdle, move_to_finished, Joined, Threads, HasMutex, Locked, PoolTypeOK, BasesStay, Listed
  <1>9. ASSUME CleanUp PROVE Stages'
    BY <1>0, <1>9 DEF CleanUp, Stages, Ending, NoBase, Moved, Emptied, lists, Becomes, NoLongerIdle, move_to_finished, Joined, Threads, HasMutex, Locked, PoolTypeOK, BasesStay, Listed
  <1>10. ASSUME NEW t \in Threads, Take(t) PROVE Stages'
    BY <1>0, <1>10 DEF Take, Stages, Ending, NoBase, Moved, Emptied, lists, Becomes, NoLongerIdle, move_to_finished, Joined, Threads, HasMutex, Locked, PoolTypeOK, BasesStay, Listed
  <1>11. ASSUME NEW t \in Threads, Wait(t) PROVE Stages'
    BY <1>0, <1>11 DEF Wait, Stages, Ending, NoBase, Moved, Emptied, lists, Becomes, NoLongerIdle, move_to_finished, Joined, Threads, HasMutex, Locked, PoolTypeOK, BasesStay, Listed
  <1>12. ASSUME NEW t \in Threads, LeaveIdle(t) PROVE Stages'
    BY <1>0, <1>12 DEF LeaveIdle, Stages, Ending, NoBase, Moved, Emptied, lists, Becomes, NoLongerIdle, move_to_finished, Joined, Threads, HasMutex, Locked, PoolTypeOK, BasesStay, Listed
  <1>13. ASSUME NEW t \in Threads, LeaveShutdown(t) PROVE Stages'
    BY <1>0, <1>13 DEF LeaveShutdown, Stages, Ending, NoBase, Moved, Emptied, lists, Becomes, NoLongerIdle, move_to_finished, Joined, Threads, HasMutex, Locked, PoolTypeOK, BasesStay, Listed
  <1>14. ASSUME NEW t \in Threads, LeaveReturned(t) PROVE Stages'
    BY <1>0, <1>14 DEF LeaveReturned, Stages, Ending, NoBase, Moved, Emptied, lists, Becomes, NoLongerIdle, move_to_finished, Joined, Threads, HasMutex, Locked, PoolTypeOK, BasesStay, Listed
  <1>15. ASSUME NEW t \in Threads, Stay(t) PROVE Stages'
    BY <1>0, <1>15 DEF Stay, Stages, Ending, NoBase, Moved, Emptied, lists, Becomes, NoLongerIdle, move_to_finished, Joined, Threads, HasMutex, Locked, PoolTypeOK, BasesStay, Listed
  <1>16. ASSUME NEW t \in Threads, Expire(t) PROVE Stages'
    BY <1>0, <1>16 DEF Expire, Stages, Ending, NoBase, Moved, Emptied, lists, Becomes, NoLongerIdle, move_to_finished, Joined, Threads, HasMutex, Locked, PoolTypeOK, BasesStay, Listed
  <1>17. ASSUME NEW t \in Threads, WakeUp(t) PROVE Stages'
    BY <1>0, <1>17 DEF WakeUp, Stages, Ending, NoBase, Moved, Emptied, lists, Becomes, NoLongerIdle, move_to_finished, Joined, Threads, HasMutex, Locked, PoolTypeOK, BasesStay, Listed
  <1>18. ASSUME NEW t \in Threads, Return(t) PROVE Stages'
    BY <1>0, <1>18 DEF Return, Stages, Ending, NoBase, Moved, Emptied, lists, Becomes, NoLongerIdle, move_to_finished, Joined, Threads, HasMutex, Locked, PoolTypeOK, BasesStay, Listed
  <1>19. CASE UNCHANGED poolVars
    BY <1>0, <1>19 DEF poolVars, lists, Stages, Ending, NoBase, Moved, Emptied
  <1> QED
    BY <1>1, <1>2, <1>3, <1>4, <1>5, <1>6, <1>7, <1>8, <1>9, <1>10, <1>11, <1>12, <1>13, <1>14, <1>15, <1>16, <1>17, <1>18, <1>19 DEF PoolNext, Own, Work, Notice

\* Base threads stay while there is work.
LEMMA BasesStep == PoolInv /\ [PoolNext]_poolVars => BasesStay'
  <1> SUFFICES ASSUME PoolInv, [PoolNext]_poolVars PROVE BasesStay'
    OBVIOUS
  <1>0. PoolTypeOK /\ Stages /\ BasesStay /\ Listed /\ RunsItsTask /\ IdleIsCounted /\ OnceEach /\ NoLostWakeup
    BY DEF PoolInv
  <1>1. ASSUME NEW job \in Jobs, Enqueue(job) PROVE BasesStay'
    BY <1>0, ThreadsAssumption, <1>1 DEF Enqueue, BasesStay, Stages, Ending, NoBase, Moved, Emptied, lists, Becomes, NoLongerIdle, Joined, Threads, HasMutex, Locked, PoolTypeOK
  <1>2. ASSUME Shutdown PROVE BasesStay'
    BY <1>0, ThreadsAssumption, <1>2 DEF Shutdown, BasesStay, Stages, Ending, NoBase, Moved, Emptied, lists, Becomes, NoLongerIdle, Joined, Threads, HasMutex, Locked, PoolTypeOK
  <1>3. ASSUME Spawn PROVE BasesStay'
    BY <1>0, ThreadsAssumption, <1>3 DEF Spawn, BasesStay, Stages, Ending, NoBase, Moved, Emptied, lists, Becomes, NoLongerIdle, Joined, Threads, HasMutex, Locked, PoolTypeOK
  <1>4. ASSUME NotifyOne PROVE BasesStay'
    BY <1>0, ThreadsAssumption, <1>4 DEF NotifyOne, BasesStay, Stages, Ending, NoBase, Moved, Emptied, lists, Becomes, NoLongerIdle, Joined, Threads, HasMutex, Locked, PoolTypeOK
  <1>5. ASSUME NotifyAll PROVE BasesStay'
    BY <1>0, ThreadsAssumption, <1>5 DEF NotifyAll, BasesStay, Stages, Ending, NoBase, Moved, Emptied, lists, Becomes, NoLongerIdle, Joined, Threads, HasMutex, Locked, PoolTypeOK
  <1>6. ASSUME JoinBase PROVE BasesStay'
    BY <1>0, ThreadsAssumption, <1>6 DEF JoinBase, Joinable, BasesStay, Stages, Ending, NoBase, Moved, Emptied, lists, Becomes, NoLongerIdle, Joined, Threads, HasMutex, Locked, PoolTypeOK
  <1>7. ASSUME MoveDynamic PROVE BasesStay'
    BY <1>0, ThreadsAssumption, <1>7 DEF MoveDynamic, BasesStay, Stages, Ending, NoBase, Moved, Emptied, lists, Becomes, NoLongerIdle, Joined, Threads, HasMutex, Locked, PoolTypeOK
  <1>8. ASSUME JoinDynamic PROVE BasesStay'
    BY <1>0, ThreadsAssumption, <1>8 DEF JoinDynamic, BasesStay, Stages, Ending, NoBase, Moved, Emptied, lists, Becomes, NoLongerIdle, Joined, Threads, HasMutex, Locked, PoolTypeOK
  <1>9. ASSUME CleanUp PROVE BasesStay'
    BY <1>0, ThreadsAssumption, <1>9 DEF CleanUp, BasesStay, Stages, Ending, NoBase, Moved, Emptied, lists, Becomes, NoLongerIdle, Joined, Threads, HasMutex, Locked, PoolTypeOK
  <1>10. ASSUME NEW t \in Threads, Take(t) PROVE BasesStay'
    BY <1>0, ThreadsAssumption, <1>10 DEF Take, BasesStay, Stages, Ending, NoBase, Moved, Emptied, lists, Becomes, NoLongerIdle, Joined, Threads, HasMutex, Locked, PoolTypeOK
  <1>11. ASSUME NEW t \in Threads, Wait(t) PROVE BasesStay'
    BY <1>0, ThreadsAssumption, <1>11 DEF Wait, BasesStay, Stages, Ending, NoBase, Moved, Emptied, lists, Becomes, NoLongerIdle, Joined, Threads, HasMutex, Locked, PoolTypeOK
  <1>12. ASSUME NEW t \in Threads, LeaveIdle(t) PROVE BasesStay'
    BY <1>0, ThreadsAssumption, <1>12 DEF LeaveIdle, BasesStay, Stages, Ending, NoBase, Moved, Emptied, lists, Becomes, NoLongerIdle, Joined, Threads, HasMutex, Locked, PoolTypeOK
  <1>13. ASSUME NEW t \in Threads, LeaveShutdown(t) PROVE BasesStay'
    BY <1>0, ThreadsAssumption, <1>13 DEF LeaveShutdown, BasesStay, Stages, Ending, NoBase, Moved, Emptied, lists, Becomes, NoLongerIdle, Joined, Threads, HasMutex, Locked, PoolTypeOK
  <1>14. ASSUME NEW t \in Threads, LeaveReturned(t) PROVE BasesStay'
    BY <1>0, ThreadsAssumption, <1>14 DEF LeaveReturned, BasesStay, Stages, Ending, NoBase, Moved, Emptied, lists, Becomes, NoLongerIdle, Joined, Threads, HasMutex, Locked, PoolTypeOK
  <1>15. ASSUME NEW t \in Threads, Stay(t) PROVE BasesStay'
    BY <1>0, ThreadsAssumption, <1>15 DEF Stay, BasesStay, Stages, Ending, NoBase, Moved, Emptied, lists, Becomes, NoLongerIdle, Joined, Threads, HasMutex, Locked, PoolTypeOK
  <1>16. ASSUME NEW t \in Threads, Expire(t) PROVE BasesStay'
    BY <1>0, ThreadsAssumption, <1>16 DEF Expire, BasesStay, Stages, Ending, NoBase, Moved, Emptied, lists, Becomes, NoLongerIdle, Joined, Threads, HasMutex, Locked, PoolTypeOK
  <1>17. ASSUME NEW t \in Threads, WakeUp(t) PROVE BasesStay'
    BY <1>0, ThreadsAssumption, <1>17 DEF WakeUp, BasesStay, Stages, Ending, NoBase, Moved, Emptied, lists, Becomes, NoLongerIdle, Joined, Threads, HasMutex, Locked, PoolTypeOK
  <1>18. ASSUME NEW t \in Threads, Return(t) PROVE BasesStay'
    BY <1>0, ThreadsAssumption, <1>18 DEF Return, BasesStay, Stages, Ending, NoBase, Moved, Emptied, lists, Becomes, NoLongerIdle, Joined, Threads, HasMutex, Locked, PoolTypeOK
  <1>19. CASE UNCHANGED poolVars
    BY <1>0, <1>19 DEF poolVars, lists, BasesStay
  <1> QED
    BY <1>1, <1>2, <1>3, <1>4, <1>5, <1>6, <1>7, <1>8, <1>9, <1>10, <1>11, <1>12, <1>13, <1>14, <1>15, <1>16, <1>17, <1>18, <1>19 DEF PoolNext, Own, Work, Notice

\* Dynamic threads stay in one list.
LEMMA ListedStep == PoolInv /\ [PoolNext]_poolVars => Listed'
  <1> SUFFICES ASSUME PoolInv, [PoolNext]_poolVars PROVE Listed'
    OBVIOUS
  <1>0. PoolTypeOK /\ Stages /\ BasesStay /\ Listed /\ RunsItsTask /\ IdleIsCounted /\ OnceEach /\ NoLostWakeup
    BY DEF PoolInv
  <1>1. ASSUME NEW job \in Jobs, Enqueue(job) PROVE Listed'
    BY <1>0, ThreadsAssumption, <1>1 DEF Enqueue, Listed, Stages, Ending, NoBase, Moved, Emptied, lists, Becomes, NoLongerIdle, move_to_finished, Joined, Joinable, Threads, HasMutex, Locked, PoolTypeOK
  <1>2. ASSUME Shutdown PROVE Listed'
    BY <1>0, ThreadsAssumption, <1>2 DEF Shutdown, Listed, Stages, Ending, NoBase, Moved, Emptied, lists, Becomes, NoLongerIdle, move_to_finished, Joined, Joinable, Threads, HasMutex, Locked, PoolTypeOK
  <1>3. ASSUME Spawn PROVE Listed'
    BY <1>0, ThreadsAssumption, <1>3 DEF Spawn, Listed, Stages, Ending, NoBase, Moved, Emptied, lists, Becomes, NoLongerIdle, move_to_finished, Joined, Joinable, Threads, HasMutex, Locked, PoolTypeOK
  <1>4. ASSUME NotifyOne PROVE Listed'
    BY <1>0, ThreadsAssumption, <1>4 DEF NotifyOne, Listed, Stages, Ending, NoBase, Moved, Emptied, lists, Becomes, NoLongerIdle, move_to_finished, Joined, Joinable, Threads, HasMutex, Locked, PoolTypeOK
  <1>5. ASSUME NotifyAll PROVE Listed'
    BY <1>0, ThreadsAssumption, <1>5 DEF NotifyAll, Listed, Stages, Ending, NoBase, Moved, Emptied, lists, Becomes, NoLongerIdle, move_to_finished, Joined, Joinable, Threads, HasMutex, Locked, PoolTypeOK
  <1>6. ASSUME JoinBase PROVE Listed'
    BY <1>0, ThreadsAssumption, <1>6 DEF JoinBase, Listed, Stages, Ending, NoBase, Moved, Emptied, lists, Becomes, NoLongerIdle, move_to_finished, Joined, Joinable, Threads, HasMutex, Locked, PoolTypeOK
  <1>7. ASSUME MoveDynamic PROVE Listed'
    BY <1>0, ThreadsAssumption, <1>7 DEF MoveDynamic, Listed, Stages, Ending, NoBase, Moved, Emptied, lists, Becomes, NoLongerIdle, move_to_finished, Joined, Joinable, Threads, HasMutex, Locked, PoolTypeOK
  <1>8. ASSUME JoinDynamic PROVE Listed'
    BY <1>0, ThreadsAssumption, <1>8 DEF JoinDynamic, Listed, Stages, Ending, NoBase, Moved, Emptied, lists, Becomes, NoLongerIdle, move_to_finished, Joined, Joinable, Threads, HasMutex, Locked, PoolTypeOK
  <1>9. ASSUME CleanUp PROVE Listed'
    BY <1>0, ThreadsAssumption, <1>9 DEF CleanUp, Listed, Stages, Ending, NoBase, Moved, Emptied, lists, Becomes, NoLongerIdle, move_to_finished, Joined, Joinable, Threads, HasMutex, Locked, PoolTypeOK
  <1>10. ASSUME NEW t \in Threads, Take(t) PROVE Listed'
    BY <1>0, ThreadsAssumption, <1>10 DEF Take, Listed, Stages, Ending, NoBase, Moved, Emptied, lists, Becomes, NoLongerIdle, move_to_finished, Joined, Joinable, Threads, HasMutex, Locked, PoolTypeOK
  <1>11. ASSUME NEW t \in Threads, Wait(t) PROVE Listed'
    BY <1>0, ThreadsAssumption, <1>11 DEF Wait, Listed, Stages, Ending, NoBase, Moved, Emptied, lists, Becomes, NoLongerIdle, move_to_finished, Joined, Joinable, Threads, HasMutex, Locked, PoolTypeOK
  <1>12. ASSUME NEW t \in Threads, LeaveIdle(t) PROVE Listed'
    BY <1>0, ThreadsAssumption, <1>12 DEF LeaveIdle, Listed, Stages, Ending, NoBase, Moved, Emptied, lists, Becomes, NoLongerIdle, move_to_finished, Joined, Joinable, Threads, HasMutex, Locked, PoolTypeOK
  <1>13. ASSUME NEW t \in Threads, LeaveShutdown(t) PROVE Listed'
    BY <1>0, ThreadsAssumption, <1>13 DEF LeaveShutdown, Listed, Stages, Ending, NoBase, Moved, Emptied, lists, Becomes, NoLongerIdle, move_to_finished, Joined, Joinable, Threads, HasMutex, Locked, PoolTypeOK
  <1>14. ASSUME NEW t \in Threads, LeaveReturned(t) PROVE Listed'
    BY <1>0, ThreadsAssumption, <1>14 DEF LeaveReturned, Listed, Stages, Ending, NoBase, Moved, Emptied, lists, Becomes, NoLongerIdle, move_to_finished, Joined, Joinable, Threads, HasMutex, Locked, PoolTypeOK
  <1>15. ASSUME NEW t \in Threads, Stay(t) PROVE Listed'
    BY <1>0, ThreadsAssumption, <1>15 DEF Stay, Listed, Stages, Ending, NoBase, Moved, Emptied, lists, Becomes, NoLongerIdle, move_to_finished, Joined, Joinable, Threads, HasMutex, Locked, PoolTypeOK
  <1>16. ASSUME NEW t \in Threads, Expire(t) PROVE Listed'
    BY <1>0, ThreadsAssumption, <1>16 DEF Expire, Listed, Stages, Ending, NoBase, Moved, Emptied, lists, Becomes, NoLongerIdle, move_to_finished, Joined, Joinable, Threads, HasMutex, Locked, PoolTypeOK
  <1>17. ASSUME NEW t \in Threads, WakeUp(t) PROVE Listed'
    BY <1>0, ThreadsAssumption, <1>17 DEF WakeUp, Listed, Stages, Ending, NoBase, Moved, Emptied, lists, Becomes, NoLongerIdle, move_to_finished, Joined, Joinable, Threads, HasMutex, Locked, PoolTypeOK
  <1>18. ASSUME NEW t \in Threads, Return(t) PROVE Listed'
    BY <1>0, ThreadsAssumption, <1>18 DEF Return, Listed, Stages, Ending, NoBase, Moved, Emptied, lists, Becomes, NoLongerIdle, move_to_finished, Joined, Joinable, Threads, HasMutex, Locked, PoolTypeOK
  <1>19. CASE UNCHANGED poolVars
    BY <1>0, <1>19 DEF poolVars, lists, Listed
  <1> QED
    BY <1>1, <1>2, <1>3, <1>4, <1>5, <1>6, <1>7, <1>8, <1>9, <1>10, <1>11, <1>12, <1>13, <1>14, <1>15, <1>16, <1>17, <1>18, <1>19 DEF PoolNext, Own, Work, Notice

\* A thread has a job while it runs one.
LEMMA TaskStep == PoolInv /\ [PoolNext]_poolVars => RunsItsTask'
  <1> SUFFICES ASSUME PoolInv, [PoolNext]_poolVars PROVE RunsItsTask'
    OBVIOUS
  <1>0. PoolTypeOK /\ Stages /\ BasesStay /\ Listed /\ RunsItsTask /\ IdleIsCounted /\ OnceEach /\ NoLostWakeup
    BY DEF PoolInv
  <1>1. ASSUME NEW job \in Jobs, Enqueue(job) PROVE RunsItsTask'
    BY <1>0, JobsAssumption, <1>1 DEF Enqueue, RunsItsTask, lists, Becomes, Joined, Joinable, Threads, HasMutex, Locked, PoolTypeOK, Idle, Places
  <1>2. ASSUME Shutdown PROVE RunsItsTask'
    BY <1>0, JobsAssumption, <1>2 DEF Shutdown, RunsItsTask, lists, Becomes, Joined, Joinable, Threads, HasMutex, Locked, PoolTypeOK, Idle, Places
  <1>3. ASSUME Spawn PROVE RunsItsTask'
    BY <1>0, JobsAssumption, <1>3 DEF Spawn, RunsItsTask, Listed, Stages, Ending, NoBase, Moved, Emptied, lists, Becomes, Joined, Joinable, Threads, HasMutex, Locked, PoolTypeOK, Idle, Places
  <1>4. ASSUME NotifyOne PROVE RunsItsTask'
    BY <1>0, JobsAssumption, <1>4 DEF NotifyOne, RunsItsTask, lists, Becomes, Joined, Joinable, Threads, HasMutex, Locked, PoolTypeOK, Idle, Places
  <1>5. ASSUME NotifyAll PROVE RunsItsTask'
    BY <1>0, JobsAssumption, <1>5 DEF NotifyAll, RunsItsTask, lists, Becomes, Joined, Joinable, Threads, HasMutex, Locked, PoolTypeOK, Idle, Places
  <1>6. ASSUME JoinBase PROVE RunsItsTask'
    BY <1>0, JobsAssumption, <1>6 DEF JoinBase, RunsItsTask, lists, Becomes, Joined, Joinable, Threads, HasMutex, Locked, PoolTypeOK, Idle, Places
  <1>7. ASSUME MoveDynamic PROVE RunsItsTask'
    BY <1>0, JobsAssumption, <1>7 DEF MoveDynamic, RunsItsTask, lists, Becomes, Joined, Joinable, Threads, HasMutex, Locked, PoolTypeOK, Idle, Places
  <1>8. ASSUME JoinDynamic PROVE RunsItsTask'
    BY <1>0, JobsAssumption, <1>8 DEF JoinDynamic, RunsItsTask, lists, Becomes, Joined, Joinable, Threads, HasMutex, Locked, PoolTypeOK, Idle, Places
  <1>9. ASSUME CleanUp PROVE RunsItsTask'
    BY <1>0, JobsAssumption, <1>9 DEF CleanUp, RunsItsTask, lists, Becomes, Joined, Joinable, Threads, HasMutex, Locked, PoolTypeOK, Idle, Places
  <1>10. ASSUME NEW t \in Threads, Take(t) PROVE RunsItsTask'
    BY <1>0, JobsAssumption, <1>10 DEF Take, RunsItsTask, lists, Becomes, Joined, Joinable, Threads, HasMutex, Locked, PoolTypeOK, Idle, Places
  <1>11. ASSUME NEW t \in Threads, Wait(t) PROVE RunsItsTask'
    BY <1>0, JobsAssumption, <1>11 DEF Wait, RunsItsTask, lists, Becomes, Joined, Joinable, Threads, HasMutex, Locked, PoolTypeOK, Idle, Places
  <1>12. ASSUME NEW t \in Threads, LeaveIdle(t) PROVE RunsItsTask'
    BY <1>0, JobsAssumption, <1>12 DEF LeaveIdle, RunsItsTask, lists, Becomes, Joined, Joinable, Threads, HasMutex, Locked, PoolTypeOK, Idle, Places
  <1>13. ASSUME NEW t \in Threads, LeaveShutdown(t) PROVE RunsItsTask'
    BY <1>0, JobsAssumption, <1>13 DEF LeaveShutdown, RunsItsTask, lists, Becomes, Joined, Joinable, Threads, HasMutex, Locked, PoolTypeOK, Idle, Places
  <1>14. ASSUME NEW t \in Threads, LeaveReturned(t) PROVE RunsItsTask'
    BY <1>0, JobsAssumption, <1>14 DEF LeaveReturned, RunsItsTask, lists, Becomes, Joined, Joinable, Threads, HasMutex, Locked, PoolTypeOK, Idle, Places
  <1>15. ASSUME NEW t \in Threads, Stay(t) PROVE RunsItsTask'
    BY <1>0, JobsAssumption, <1>15 DEF Stay, RunsItsTask, lists, Becomes, Joined, Joinable, Threads, HasMutex, Locked, PoolTypeOK, Idle, Places
  <1>16. ASSUME NEW t \in Threads, Expire(t) PROVE RunsItsTask'
    BY <1>0, JobsAssumption, <1>16 DEF Expire, RunsItsTask, lists, Becomes, Joined, Joinable, Threads, HasMutex, Locked, PoolTypeOK, Idle, Places
  <1>17. ASSUME NEW t \in Threads, WakeUp(t) PROVE RunsItsTask'
    BY <1>0, JobsAssumption, <1>17 DEF WakeUp, RunsItsTask, lists, Becomes, Joined, Joinable, Threads, HasMutex, Locked, PoolTypeOK, Idle, Places
  <1>18. ASSUME NEW t \in Threads, Return(t) PROVE RunsItsTask'
    BY <1>0, JobsAssumption, <1>18 DEF Return, RunsItsTask, lists, Becomes, Joined, Joinable, Threads, HasMutex, Locked, PoolTypeOK, Idle, Places
  <1>19. CASE UNCHANGED poolVars
    BY <1>0, <1>19 DEF poolVars, lists, RunsItsTask
  <1> QED
    BY <1>1, <1>2, <1>3, <1>4, <1>5, <1>6, <1>7, <1>8, <1>9, <1>10, <1>11, <1>12, <1>13, <1>14, <1>15, <1>16, <1>17, <1>18, <1>19 DEF PoolNext, Own, Work, Notice

\* A thread is counted from the time it waits until it looks at the queue.
LEMMA IdleStep == PoolInv /\ [PoolNext]_poolVars => IdleIsCounted'
  <1> SUFFICES ASSUME PoolInv, [PoolNext]_poolVars PROVE IdleIsCounted'
    OBVIOUS
  <1>0. PoolTypeOK /\ Stages /\ BasesStay /\ Listed /\ RunsItsTask /\ IdleIsCounted /\ OnceEach /\ NoLostWakeup
    BY DEF PoolInv
  <1>1. ASSUME NEW job \in Jobs, Enqueue(job) PROVE IdleIsCounted'
    <2>1. IdleSet' = IdleSet /\ idle' = idle
      BY <1>0, ThreadsAssumption, <1>1 DEF Enqueue, IdleSet, Idle, Becomes, NoLongerIdle, Joined, Joinable, Threads, HasMutex, Locked, PoolTypeOK, Stages, Ending, NoBase, Moved, Emptied, Listed, lists, move_to_finished
    <2> QED
      BY <1>0, <2>1, IdleFacts DEF IdleIsCounted, IdleSet
  <1>2. ASSUME Shutdown PROVE IdleIsCounted'
    <2>1. IdleSet' = IdleSet /\ idle' = idle
      BY <1>0, ThreadsAssumption, <1>2 DEF Shutdown, IdleSet, Idle, Becomes, NoLongerIdle, Joined, Joinable, Threads, HasMutex, Locked, PoolTypeOK, Stages, Ending, NoBase, Moved, Emptied, Listed, lists, move_to_finished
    <2> QED
      BY <1>0, <2>1, IdleFacts DEF IdleIsCounted, IdleSet
  <1>3. ASSUME Spawn PROVE IdleIsCounted'
    <2>1. IdleSet' = IdleSet /\ idle' = idle
      BY <1>0, ThreadsAssumption, <1>3 DEF Spawn, IdleSet, Idle, Becomes, NoLongerIdle, Joined, Joinable, Threads, HasMutex, Locked, PoolTypeOK, Stages, Ending, NoBase, Moved, Emptied, Listed, lists, move_to_finished
    <2> QED
      BY <1>0, <2>1, IdleFacts DEF IdleIsCounted, IdleSet
  <1>4. ASSUME NotifyOne PROVE IdleIsCounted'
    <2>1. IdleSet' = IdleSet /\ idle' = idle
      BY <1>0, ThreadsAssumption, <1>4 DEF NotifyOne, IdleSet, Idle, Becomes, NoLongerIdle, Joined, Joinable, Threads, HasMutex, Locked, PoolTypeOK, Stages, Ending, NoBase, Moved, Emptied, Listed, lists, move_to_finished
    <2> QED
      BY <1>0, <2>1, IdleFacts DEF IdleIsCounted, IdleSet
  <1>5. ASSUME NotifyAll PROVE IdleIsCounted'
    <2>1. IdleSet' = IdleSet /\ idle' = idle
      BY <1>0, ThreadsAssumption, <1>5 DEF NotifyAll, IdleSet, Idle, Becomes, NoLongerIdle, Joined, Joinable, Threads, HasMutex, Locked, PoolTypeOK, Stages, Ending, NoBase, Moved, Emptied, Listed, lists, move_to_finished
    <2> QED
      BY <1>0, <2>1, IdleFacts DEF IdleIsCounted, IdleSet
  <1>6. ASSUME JoinBase PROVE IdleIsCounted'
    <2>1. IdleSet' = IdleSet /\ idle' = idle
      BY <1>0, ThreadsAssumption, <1>6 DEF JoinBase, IdleSet, Idle, Becomes, NoLongerIdle, Joined, Joinable, Threads, HasMutex, Locked, PoolTypeOK, Stages, Ending, NoBase, Moved, Emptied, Listed, lists, move_to_finished
    <2> QED
      BY <1>0, <2>1, IdleFacts DEF IdleIsCounted, IdleSet
  <1>7. ASSUME MoveDynamic PROVE IdleIsCounted'
    <2>1. IdleSet' = IdleSet /\ idle' = idle
      BY <1>0, ThreadsAssumption, <1>7 DEF MoveDynamic, IdleSet, Idle, Becomes, NoLongerIdle, Joined, Joinable, Threads, HasMutex, Locked, PoolTypeOK, Stages, Ending, NoBase, Moved, Emptied, Listed, lists, move_to_finished
    <2> QED
      BY <1>0, <2>1, IdleFacts DEF IdleIsCounted, IdleSet
  <1>8. ASSUME JoinDynamic PROVE IdleIsCounted'
    <2>1. IdleSet' = IdleSet /\ idle' = idle
      BY <1>0, ThreadsAssumption, <1>8 DEF JoinDynamic, IdleSet, Idle, Becomes, NoLongerIdle, Joined, Joinable, Threads, HasMutex, Locked, PoolTypeOK, Stages, Ending, NoBase, Moved, Emptied, Listed, lists, move_to_finished
    <2> QED
      BY <1>0, <2>1, IdleFacts DEF IdleIsCounted, IdleSet
  <1>9. ASSUME CleanUp PROVE IdleIsCounted'
    <2>1. IdleSet' = IdleSet /\ idle' = idle
      BY <1>0, ThreadsAssumption, <1>9 DEF CleanUp, IdleSet, Idle, Becomes, NoLongerIdle, Joined, Joinable, Threads, HasMutex, Locked, PoolTypeOK, Stages, Ending, NoBase, Moved, Emptied, Listed, lists, move_to_finished
    <2> QED
      BY <1>0, <2>1, IdleFacts DEF IdleIsCounted, IdleSet
  <1>10. ASSUME NEW t \in Threads, Take(t) PROVE IdleIsCounted'
    <2>1. IF Idle(t) THEN IdleSet' = IdleSet \ {t} /\ t \in IdleSet /\ idle' = idle - 1
          ELSE IdleSet' = IdleSet /\ idle' = idle
      BY <1>0, <1>10 DEF Take, IdleSet, Idle, Becomes, NoLongerIdle, Joined, Joinable, Threads, HasMutex, Locked, PoolTypeOK, Stages, Ending, NoBase, Moved, Emptied, Listed, lists, move_to_finished
    <2> QED
      BY <1>0, <2>1, IdleFacts, FS_RemoveElement DEF IdleIsCounted, IdleSet
  <1>11. ASSUME NEW t \in Threads, Wait(t) PROVE IdleIsCounted'
    <2>1. IF Idle(t) THEN IdleSet' = IdleSet /\ idle' = idle
          ELSE IdleSet' = IdleSet \cup {t} /\ t \notin IdleSet /\ idle' = idle + 1
      BY <1>0, <1>11 DEF Wait, IdleSet, Idle, Becomes, NoLongerIdle, Joined, Joinable, Threads, HasMutex, Locked, PoolTypeOK, Stages, Ending, NoBase, Moved, Emptied, Listed, lists, move_to_finished
    <2> QED
      BY <1>0, <2>1, IdleFacts, FS_AddElement DEF IdleIsCounted, IdleSet
  <1>12. ASSUME NEW t \in Threads, LeaveIdle(t) PROVE IdleIsCounted'
    <2>1. IF Idle(t) THEN IdleSet' = IdleSet \ {t} /\ t \in IdleSet /\ idle' = idle - 1
          ELSE IdleSet' = IdleSet /\ idle' = idle
      BY <1>0, <1>12 DEF LeaveIdle, IdleSet, Idle, Becomes, NoLongerIdle, Joined, Joinable, Threads, HasMutex, Locked, PoolTypeOK, Stages, Ending, NoBase, Moved, Emptied, Listed, lists, move_to_finished
    <2> QED
      BY <1>0, <2>1, IdleFacts, FS_RemoveElement DEF IdleIsCounted, IdleSet
  <1>13. ASSUME NEW t \in Threads, LeaveShutdown(t) PROVE IdleIsCounted'
    <2>1. IF Idle(t) THEN IdleSet' = IdleSet \ {t} /\ t \in IdleSet /\ idle' = idle - 1
          ELSE IdleSet' = IdleSet /\ idle' = idle
      BY <1>0, <1>13 DEF LeaveShutdown, IdleSet, Idle, Becomes, NoLongerIdle, Joined, Joinable, Threads, HasMutex, Locked, PoolTypeOK, Stages, Ending, NoBase, Moved, Emptied, Listed, lists, move_to_finished
    <2> QED
      BY <1>0, <2>1, IdleFacts, FS_RemoveElement DEF IdleIsCounted, IdleSet
  <1>14. ASSUME NEW t \in Threads, LeaveReturned(t) PROVE IdleIsCounted'
    <2>1. IdleSet' = IdleSet /\ idle' = idle
      BY <1>0, ThreadsAssumption, <1>14 DEF LeaveReturned, IdleSet, Idle, Becomes, NoLongerIdle, Joined, Joinable, Threads, HasMutex, Locked, PoolTypeOK, Stages, Ending, NoBase, Moved, Emptied, Listed, lists, move_to_finished
    <2> QED
      BY <1>0, <2>1, IdleFacts DEF IdleIsCounted, IdleSet
  <1>15. ASSUME NEW t \in Threads, Stay(t) PROVE IdleIsCounted'
    <2>1. IdleSet' = IdleSet /\ idle' = idle
      BY <1>0, ThreadsAssumption, <1>15 DEF Stay, IdleSet, Idle, Becomes, NoLongerIdle, Joined, Joinable, Threads, HasMutex, Locked, PoolTypeOK, Stages, Ending, NoBase, Moved, Emptied, Listed, lists, move_to_finished
    <2> QED
      BY <1>0, <2>1, IdleFacts DEF IdleIsCounted, IdleSet
  <1>16. ASSUME NEW t \in Threads, Expire(t) PROVE IdleIsCounted'
    <2>1. IdleSet' = IdleSet /\ idle' = idle
      BY <1>0, ThreadsAssumption, <1>16 DEF Expire, IdleSet, Idle, Becomes, NoLongerIdle, Joined, Joinable, Threads, HasMutex, Locked, PoolTypeOK, Stages, Ending, NoBase, Moved, Emptied, Listed, lists, move_to_finished
    <2> QED
      BY <1>0, <2>1, IdleFacts DEF IdleIsCounted, IdleSet
  <1>17. ASSUME NEW t \in Threads, WakeUp(t) PROVE IdleIsCounted'
    <2>1. IdleSet' = IdleSet /\ idle' = idle
      BY <1>0, ThreadsAssumption, <1>17 DEF WakeUp, IdleSet, Idle, Becomes, NoLongerIdle, Joined, Joinable, Threads, HasMutex, Locked, PoolTypeOK, Stages, Ending, NoBase, Moved, Emptied, Listed, lists, move_to_finished
    <2> QED
      BY <1>0, <2>1, IdleFacts DEF IdleIsCounted, IdleSet
  <1>18. ASSUME NEW t \in Threads, Return(t) PROVE IdleIsCounted'
    <2>1. IdleSet' = IdleSet /\ idle' = idle
      BY <1>0, ThreadsAssumption, <1>18 DEF Return, IdleSet, Idle, Becomes, NoLongerIdle, Joined, Joinable, Threads, HasMutex, Locked, PoolTypeOK, Stages, Ending, NoBase, Moved, Emptied, Listed, lists, move_to_finished
    <2> QED
      BY <1>0, <2>1, IdleFacts DEF IdleIsCounted, IdleSet
  <1>19. CASE UNCHANGED poolVars
    BY <1>0, <1>19 DEF poolVars, IdleIsCounted, Idle
  <1> QED
    BY <1>1, <1>2, <1>3, <1>4, <1>5, <1>6, <1>7, <1>8, <1>9, <1>10, <1>11, <1>12, <1>13, <1>14, <1>15, <1>16, <1>17, <1>18, <1>19 DEF PoolNext, Own, Work, Notice

\* A step that touches no job keeps every job where it is.
LEMMA SameJobs == OnceEach /\ task' = task /\ jobs' = jobs /\ ran' = ran => OnceEach'
  <1> SUFFICES ASSUME OnceEach, task' = task, jobs' = jobs, ran' = ran PROVE OnceEach'
    OBVIOUS
  <1>1. Queued' = Queued
    BY DEF Queued
  <1> QED
    BY <1>1 DEF OnceEach

\* A job is in one place.
LEMMA OnceStep == PoolInv /\ [PoolNext]_poolVars => OnceEach'
  <1> SUFFICES ASSUME PoolInv, [PoolNext]_poolVars PROVE OnceEach'
    OBVIOUS
  <1>0. PoolTypeOK /\ Stages /\ BasesStay /\ Listed /\ RunsItsTask /\ IdleIsCounted /\ OnceEach /\ NoLostWakeup
    BY DEF PoolInv
  <1>1. ASSUME NEW job \in Jobs, Enqueue(job) PROVE OnceEach'
    <2>1. job \notin Queued /\ job \notin ran /\ \A t \in Threads : task[t] # job
      BY <1>0, <1>1, JobsAssumption DEF Enqueue, Accepted, OnceEach
    <2>2. /\ Len(jobs) \in Nat /\ DOMAIN jobs = 1..Len(jobs) /\ DOMAIN jobs' = 1..(Len(jobs) + 1)
          /\ \A i \in DOMAIN jobs' : jobs'[i] = IF i = Len(jobs) + 1 THEN job ELSE jobs[i]
      BY <1>0, <1>1, AppendProperties, LenProperties DEF Enqueue, PoolTypeOK
    <2>3. Queued' = Queued \cup {job}
      BY <2>2 DEF Queued
    <2>4. \A i, j \in DOMAIN jobs' : jobs'[i] = jobs'[j] => i = j
      BY <1>0, <2>1, <2>2 DEF OnceEach, Queued
    <2> QED
      BY <1>0, <1>1, <2>1, <2>3, <2>4 DEF Enqueue, OnceEach
  <1>2. ASSUME Shutdown PROVE OnceEach'
    <2>1. task' = task /\ jobs' = jobs /\ ran' = ran
      BY <1>2 DEF Shutdown
    <2> QED
      BY <1>0, <2>1, SameJobs
  <1>3. ASSUME Spawn PROVE OnceEach'
    BY <1>0, <1>3 DEF Spawn, OnceEach, Queued, lists
  <1>4. ASSUME NotifyOne PROVE OnceEach'
    BY <1>0, <1>4 DEF NotifyOne, OnceEach, Queued, lists
  <1>5. ASSUME NotifyAll PROVE OnceEach'
    <2>1. task' = task /\ jobs' = jobs /\ ran' = ran
      BY <1>5 DEF NotifyAll
    <2> QED
      BY <1>0, <2>1, SameJobs
  <1>6. ASSUME JoinBase PROVE OnceEach'
    <2>1. task' = task /\ jobs' = jobs /\ ran' = ran
      BY <1>6 DEF JoinBase
    <2> QED
      BY <1>0, <2>1, SameJobs
  <1>7. ASSUME MoveDynamic PROVE OnceEach'
    <2>1. task' = task /\ jobs' = jobs /\ ran' = ran
      BY <1>7 DEF MoveDynamic
    <2> QED
      BY <1>0, <2>1, SameJobs
  <1>8. ASSUME JoinDynamic PROVE OnceEach'
    <2>1. task' = task /\ jobs' = jobs /\ ran' = ran
      BY <1>8 DEF JoinDynamic
    <2> QED
      BY <1>0, <2>1, SameJobs
  <1>9. ASSUME CleanUp PROVE OnceEach'
    BY <1>0, <1>9 DEF CleanUp, OnceEach, Queued, lists
  <1>10. ASSUME NEW t \in Threads, Take(t) PROVE OnceEach'
    <2>1. /\ Len(jobs) \in Nat \ {0} /\ DOMAIN jobs = 1..Len(jobs) /\ DOMAIN jobs' = 1..(Len(jobs) - 1)
          /\ Head(jobs) = jobs[1] /\ \A i \in DOMAIN jobs' : jobs'[i] = jobs[i + 1]
      BY <1>0, <1>10, HeadTailProperties, LenProperties, EmptySeq DEF Take, PoolTypeOK
    <2>2. Head(jobs) \in Queued /\ Queued' = Queued \ {Head(jobs)}
      <3>1. Queued = {jobs[i] : i \in 1..Len(jobs)} /\ Queued' = {jobs[i + 1] : i \in 1..(Len(jobs) - 1)}
        BY <2>1 DEF Queued
      <3>2. ASSUME NEW j \in Queued, j # Head(jobs) PROVE j \in Queued'
        <4>1. PICK i \in 1..Len(jobs) : j = jobs[i]
          BY <3>1
        <4>2. i - 1 \in 1..(Len(jobs) - 1) /\ j = jobs[(i - 1) + 1]
          BY <2>1, <3>2, <4>1
        <4> QED
          BY <3>1, <4>2
      <3>3. ASSUME NEW j \in Queued' PROVE j \in Queued /\ j # Head(jobs)
        <4>1. PICK i \in 1..(Len(jobs) - 1) : j = jobs[i + 1]
          BY <3>1
        <4>2. i + 1 \in 1..Len(jobs) /\ i + 1 # 1 /\ 1 \in 1..Len(jobs)
          BY <2>1
        <4>3. jobs[i + 1] # jobs[1]
          BY <1>0, <2>1, <4>2 DEF OnceEach
        <4> QED
          BY <2>1, <3>1, <4>1, <4>2, <4>3
      <3>4. Head(jobs) \in Queued
        BY <2>1, <3>1
      <3>5. \A j : j \in Queued' <=> j \in Queued /\ j # Head(jobs)
        BY <3>2, <3>3
      <3> QED
        BY <3>4, <3>5, Zenon
    <2>3. \A i, j \in DOMAIN jobs' : jobs'[i] = jobs'[j] => i = j
      BY <1>0, <2>1 DEF OnceEach
    <2>4. \A u \in Threads : task'[u] = IF u = t THEN Head(jobs) ELSE task[u]
      BY <1>0, <1>10 DEF Take, PoolTypeOK
    <2>5. \A u \in Threads : task[u] # Head(jobs)
      BY <1>0, <2>2 DEF OnceEach
    <2>6. Head(jobs) \notin ran /\ ran' = ran
      BY <1>0, <1>10, <2>2 DEF OnceEach, Take
    <2> QED
      BY <1>0, <2>2, <2>3, <2>4, <2>5, <2>6 DEF OnceEach
  <1>11. ASSUME NEW t \in Threads, Wait(t) PROVE OnceEach'
    BY <1>0, <1>11 DEF Wait, OnceEach, Queued, lists
  <1>12. ASSUME NEW t \in Threads, LeaveIdle(t) PROVE OnceEach'
    BY <1>0, <1>12 DEF LeaveIdle, OnceEach, Queued, lists
  <1>13. ASSUME NEW t \in Threads, LeaveShutdown(t) PROVE OnceEach'
    BY <1>0, <1>13 DEF LeaveShutdown, OnceEach, Queued, lists
  <1>14. ASSUME NEW t \in Threads, LeaveReturned(t) PROVE OnceEach'
    BY <1>0, <1>14 DEF LeaveReturned, OnceEach, Queued, lists
  <1>15. ASSUME NEW t \in Threads, Stay(t) PROVE OnceEach'
    BY <1>0, <1>15 DEF Stay, OnceEach, Queued, lists
  <1>16. ASSUME NEW t \in Threads, Expire(t) PROVE OnceEach'
    BY <1>0, <1>16 DEF Expire, OnceEach, Queued, lists
  <1>17. ASSUME NEW t \in Threads, WakeUp(t) PROVE OnceEach'
    BY <1>0, <1>17 DEF WakeUp, OnceEach, Queued, lists
  <1>18. ASSUME NEW t \in Threads, Return(t) PROVE OnceEach'
    <2>1. \A u \in Threads : task'[u] = IF u = t THEN None ELSE task[u]
      BY <1>0, <1>18 DEF Return, PoolTypeOK
    <2>2. jobs' = jobs /\ ran' = ran \cup {task[t]} /\ Queued' = Queued
      BY <1>18 DEF Return, Queued
    <2>3. None \notin Queued /\ None \notin ran /\ task[t] # None
      BY <1>0, <1>18, JobsAssumption, ElementOfSeq DEF Return, PoolTypeOK, Queued, RunsItsTask
    <2> QED
      BY <1>0, <2>1, <2>2, <2>3 DEF OnceEach
  <1>19. CASE UNCHANGED poolVars
    BY <1>0, <1>19 DEF poolVars, OnceEach, Queued
  <1> QED
    BY <1>1, <1>2, <1>3, <1>4, <1>5, <1>6, <1>7, <1>8, <1>9, <1>10, <1>11, <1>12, <1>13, <1>14, <1>15, <1>16, <1>17, <1>18, <1>19 DEF PoolNext, Own, Work, Notice

\* A job that was accepted is queued, with a thread, or done, from then on.
LEMMA AcceptedStays == PoolInv /\ [PoolNext]_poolVars => Accepted \subseteq Accepted'
  <1> SUFFICES ASSUME PoolInv, [PoolNext]_poolVars,
                      NEW j, j \in Queued \/ (\E t \in Threads : j = task[t]) \/ j \in ran, j # None
               PROVE  j \in Queued' \/ (\E t \in Threads : j = task'[t]) \/ j \in ran'
    BY DEF Accepted
  <1>0. PoolTypeOK /\ RunsItsTask
    BY DEF PoolInv
  <1>1. CASE task' = task /\ jobs' = jobs /\ ran' = ran
    BY <1>1 DEF Queued
  <1>2. ASSUME NEW job \in Jobs, Enqueue(job)
        PROVE  j \in Queued' \/ (\E t \in Threads : j = task'[t]) \/ j \in ran'
    <2>1. \A i \in DOMAIN jobs : i \in DOMAIN jobs' /\ jobs'[i] = jobs[i]
      BY <1>0, <1>2, AppendProperties, LenProperties DEF Enqueue, PoolTypeOK
    <2>2. Queued \subseteq Queued'
      BY <2>1 DEF Queued
    <2> QED
      BY <1>2, <2>2 DEF Enqueue
  <1>3. ASSUME NEW t \in Threads, Take(t)
        PROVE  j \in Queued' \/ (\E u \in Threads : j = task'[u]) \/ j \in ran'
    <2>1. /\ Len(jobs) \in Nat \ {0} /\ DOMAIN jobs = 1..Len(jobs) /\ DOMAIN jobs' = 1..(Len(jobs) - 1)
          /\ Head(jobs) = jobs[1] /\ \A i \in DOMAIN jobs' : jobs'[i] = jobs[i + 1]
      BY <1>0, <1>3, HeadTailProperties, LenProperties, EmptySeq DEF Take, PoolTypeOK
    <2>2. /\ task[t] = None /\ task'[t] = Head(jobs) /\ ran' = ran
          /\ \A u \in Threads : u # t => task'[u] = task[u]
      BY <1>0, <1>3 DEF Take, HasMutex, PoolTypeOK, RunsItsTask
    <2>3. ASSUME j \in Queued PROVE j = Head(jobs) \/ j \in Queued'
      <3>1. PICK i \in 1..Len(jobs) : j = jobs[i]
        BY <2>1, <2>3 DEF Queued
      <3>2. CASE i # 1
        <4>1. i - 1 \in DOMAIN jobs' /\ jobs'[i - 1] = jobs[(i - 1) + 1]
          BY <2>1, <3>2
        <4>2. jobs'[i - 1] = j
          BY <2>1, <3>1, <4>1
        <4> QED
          BY <4>1, <4>2 DEF Queued
      <3> QED
        BY <2>1, <3>1, <3>2
    <2> QED
      BY <2>2, <2>3
  <1>4. ASSUME NEW t \in Threads, Return(t)
        PROVE  j \in Queued' \/ (\E u \in Threads : j = task'[u]) \/ j \in ran'
    <2>1. /\ jobs' = jobs /\ ran' = ran \cup {task[t]}
          /\ \A u \in Threads : u # t => task'[u] = task[u]
      BY <1>0, <1>4 DEF Return, PoolTypeOK
    <2> QED
      BY <2>1 DEF Queued
  <1> QED
    BY <1>1, <1>2, <1>3, <1>4 DEF PoolNext, Own, Work, Notice, poolVars, Shutdown, Spawn, NotifyOne,
       NotifyAll, JoinBase, MoveDynamic, JoinDynamic, CleanUp, Wait, LeaveIdle, LeaveShutdown,
       LeaveReturned, Stay, Expire, WakeUp

\* Some thread looks at the queue.
LEMMA WakeupStep == PoolInv /\ [PoolNext]_poolVars => NoLostWakeup'
  <1> SUFFICES ASSUME PoolInv, [PoolNext]_poolVars PROVE NoLostWakeup'
    OBVIOUS
  <1>0. PoolTypeOK /\ Stages /\ BasesStay /\ Listed /\ RunsItsTask /\ IdleIsCounted /\ OnceEach /\ NoLostWakeup
    BY DEF PoolInv
  <1>1. ASSUME NEW job \in Jobs, Enqueue(job) PROVE NoLostWakeup'
    BY <1>0, ThreadsAssumption, <1>1 DEF Enqueue, NoLostWakeup, BasesStay, Stages, Ending, NoBase, Moved, Emptied, Listed, lists, Becomes, Joined, Joinable, Started, Threads, HasMutex, Locked, PoolTypeOK
  <1>2. ASSUME Shutdown PROVE NoLostWakeup'
    BY <1>0, ThreadsAssumption, <1>2 DEF Shutdown, NoLostWakeup, BasesStay, Stages, Ending, NoBase, Moved, Emptied, Listed, lists, Becomes, Joined, Joinable, Started, Threads, HasMutex, Locked, PoolTypeOK
  <1>3. ASSUME Spawn PROVE NoLostWakeup'
    BY <1>0, ThreadsAssumption, <1>3 DEF Spawn, NoLostWakeup, BasesStay, Stages, Ending, NoBase, Moved, Emptied, Listed, lists, Becomes, Joined, Joinable, Started, Threads, HasMutex, Locked, PoolTypeOK
  <1>4. ASSUME NotifyOne PROVE NoLostWakeup'
    BY <1>0, ThreadsAssumption, <1>4 DEF NotifyOne, NoLostWakeup, BasesStay, Stages, Ending, NoBase, Moved, Emptied, Listed, lists, Becomes, Joined, Joinable, Started, Threads, HasMutex, Locked, PoolTypeOK
  <1>5. ASSUME NotifyAll PROVE NoLostWakeup'
    BY <1>0, ThreadsAssumption, <1>5 DEF NotifyAll, NoLostWakeup, BasesStay, Stages, Ending, NoBase, Moved, Emptied, Listed, lists, Becomes, Joined, Joinable, Started, Threads, HasMutex, Locked, PoolTypeOK
  <1>6. ASSUME JoinBase PROVE NoLostWakeup'
    BY <1>0, ThreadsAssumption, <1>6 DEF JoinBase, NoLostWakeup, BasesStay, Stages, Ending, NoBase, Moved, Emptied, Listed, lists, Becomes, Joined, Joinable, Started, Threads, HasMutex, Locked, PoolTypeOK
  <1>7. ASSUME MoveDynamic PROVE NoLostWakeup'
    BY <1>0, ThreadsAssumption, <1>7 DEF MoveDynamic, NoLostWakeup, BasesStay, Stages, Ending, NoBase, Moved, Emptied, Listed, lists, Becomes, Joined, Joinable, Started, Threads, HasMutex, Locked, PoolTypeOK
  <1>8. ASSUME JoinDynamic PROVE NoLostWakeup'
    BY <1>0, ThreadsAssumption, <1>8 DEF JoinDynamic, NoLostWakeup, BasesStay, Stages, Ending, NoBase, Moved, Emptied, Listed, lists, Becomes, Joined, Joinable, Started, Threads, HasMutex, Locked, PoolTypeOK
  <1>9. ASSUME CleanUp PROVE NoLostWakeup'
    BY <1>0, ThreadsAssumption, <1>9 DEF CleanUp, NoLostWakeup, BasesStay, Stages, Ending, NoBase, Moved, Emptied, Listed, lists, Becomes, Joined, Joinable, Started, Threads, HasMutex, Locked, PoolTypeOK
  <1>10. ASSUME NEW t \in Threads, Take(t) PROVE NoLostWakeup'
    BY <1>0, ThreadsAssumption, <1>10 DEF Take, NoLostWakeup, BasesStay, Stages, Ending, NoBase, Moved, Emptied, Listed, lists, Becomes, Joined, Joinable, Started, Threads, HasMutex, Locked, PoolTypeOK
  <1>11. ASSUME NEW t \in Threads, Wait(t) PROVE NoLostWakeup'
    BY <1>0, ThreadsAssumption, <1>11 DEF Wait, NoLostWakeup, BasesStay, Stages, Ending, NoBase, Moved, Emptied, Listed, lists, Becomes, Joined, Joinable, Started, Threads, HasMutex, Locked, PoolTypeOK
  <1>12. ASSUME NEW t \in Threads, LeaveIdle(t) PROVE NoLostWakeup'
    BY <1>0, ThreadsAssumption, <1>12 DEF LeaveIdle, NoLostWakeup, BasesStay, Stages, Ending, NoBase, Moved, Emptied, Listed, lists, Becomes, Joined, Joinable, Started, Threads, HasMutex, Locked, PoolTypeOK
  <1>13. ASSUME NEW t \in Threads, LeaveShutdown(t) PROVE NoLostWakeup'
    BY <1>0, ThreadsAssumption, <1>13 DEF LeaveShutdown, NoLostWakeup, BasesStay, Stages, Ending, NoBase, Moved, Emptied, Listed, lists, Becomes, Joined, Joinable, Started, Threads, HasMutex, Locked, PoolTypeOK
  <1>14. ASSUME NEW t \in Threads, LeaveReturned(t) PROVE NoLostWakeup'
    BY <1>0, ThreadsAssumption, <1>14 DEF LeaveReturned, NoLostWakeup, BasesStay, Stages, Ending, NoBase, Moved, Emptied, Listed, lists, Becomes, Joined, Joinable, Started, Threads, HasMutex, Locked, PoolTypeOK
  <1>15. ASSUME NEW t \in Threads, Stay(t) PROVE NoLostWakeup'
    BY <1>0, ThreadsAssumption, <1>15 DEF Stay, NoLostWakeup, BasesStay, Stages, Ending, NoBase, Moved, Emptied, Listed, lists, Becomes, Joined, Joinable, Started, Threads, HasMutex, Locked, PoolTypeOK
  <1>16. ASSUME NEW t \in Threads, Expire(t) PROVE NoLostWakeup'
    BY <1>0, ThreadsAssumption, <1>16 DEF Expire, NoLostWakeup, BasesStay, Stages, Ending, NoBase, Moved, Emptied, Listed, lists, Becomes, Joined, Joinable, Started, Threads, HasMutex, Locked, PoolTypeOK
  <1>17. ASSUME NEW t \in Threads, WakeUp(t) PROVE NoLostWakeup'
    BY <1>0, ThreadsAssumption, <1>17 DEF WakeUp, NoLostWakeup, BasesStay, Stages, Ending, NoBase, Moved, Emptied, Listed, lists, Becomes, Joined, Joinable, Started, Threads, HasMutex, Locked, PoolTypeOK
  <1>18. ASSUME NEW t \in Threads, Return(t) PROVE NoLostWakeup'
    BY <1>0, ThreadsAssumption, <1>18 DEF Return, NoLostWakeup, BasesStay, Stages, Ending, NoBase, Moved, Emptied, Listed, lists, Becomes, Joined, Joinable, Started, Threads, HasMutex, Locked, PoolTypeOK
  <1>19. CASE UNCHANGED poolVars
    BY <1>0, <1>19 DEF poolVars, lists, NoLostWakeup, Started
  <1> QED
    BY <1>1, <1>2, <1>3, <1>4, <1>5, <1>6, <1>7, <1>8, <1>9, <1>10, <1>11, <1>12, <1>13, <1>14, <1>15, <1>16, <1>17, <1>18, <1>19 DEF PoolNext, Own, Work, Notice

-----------------------------------------------------------------------------
\* The invariant that makes the promises below hold.
LEMMA PoolInvStep == PoolInv /\ [PoolNext]_poolVars => PoolInv'
  BY TypeStep, StagesStep, BasesStep, ListedStep, TaskStep, IdleStep, OnceStep, WakeupStep DEF PoolInv

LEMMA PoolInvInit == PoolInit => PoolInv
  <1> SUFFICES ASSUME PoolInit PROVE PoolInv
    OBVIOUS
  <1>1. PoolTypeOK
    BY ThreadsAssumption, EmptySeq DEF PoolInit, PoolTypeOK, Places, Owners, Threads
  <1>2. Stages /\ BasesStay /\ Listed /\ RunsItsTask
    BY ThreadsAssumption DEF PoolInit, Stages, Ending, NoBase, Moved, Emptied, BasesStay, Listed, RunsItsTask, Threads
  <1>3. {t \in Threads : Idle(t)} = {}
    BY DEF PoolInit, Idle, Threads
  <1>4. IdleIsCounted
    BY <1>3, FS_EmptySet DEF PoolInit, IdleIsCounted
  <1>5. OnceEach /\ NoLostWakeup
    BY DEF PoolInit, OnceEach, NoLostWakeup, Queued
  <1> QED
    BY <1>1, <1>2, <1>4, <1>5 DEF PoolInv

\* The owner is done: every base thread is joined, so the queue is empty, and
\* no list names a dynamic thread any more, so they are joined as well.
LEMMA DoneMeansJoined == PoolInv => NothingLeft
  <1> SUFFICES ASSUME PoolInv, owner = "done" PROVE NothingLeft
    BY DEF NothingLeft
  <1>1. /\ \A t \in Base : thread[t] = "none"
        /\ dynamic = {} /\ finished = {} /\ remaining = {}
    BY DEF PoolInv, Stages, NoBase, Moved, Emptied
  <1>2. \A t \in Threads : thread[t] = "none"
    BY <1>1 DEF PoolInv, Listed, Threads
  <1>3. jobs = <<>>
    BY <1>1, ThreadsAssumption DEF PoolInv, BasesStay
  <1> QED
    BY <1>1, <1>2, <1>3 DEF NothingLeft

-----------------------------------------------------------------------------
\* PoolInvariant: the inductive invariant.  Where the owner is in shutdown says
\* which threads are joined and which lists are empty; a dynamic thread is in
\* one list from its start to its join; a base thread that left has seen the
\* shutdown and an empty queue.
THEOREM PoolInvariant == PoolSpec => []PoolInv
  BY PoolInvInit, PoolInvStep, PTL DEF PoolSpec

\* PoolIsCorrect: what ThreadPool promises to its owner: a count by which it
\* may decide to start a thread, no job lost, run twice or left unseen, and
\* nothing that outlives a shutdown.
THEOREM PoolIsCorrect == PoolSpec => [](IdleIsCounted /\ OnceEach /\ NoLostWakeup /\ NothingLeft)
  <1>1. PoolInv => IdleIsCounted /\ OnceEach /\ NoLostWakeup /\ NothingLeft
    BY DoneMeansJoined DEF PoolInv
  <1> QED
    BY <1>1, PoolInvariant, PTL

\* JobsAreKept: no step of the pool, a shutdown or a thread that leaves included,
\* forgets a job that was accepted.
THEOREM JobsAreKept == PoolSpec => [][Accepted \subseteq Accepted']_poolVars
  BY PoolInvariant, AcceptedStays, PTL DEF PoolSpec

-----------------------------------------------------------------------------
(* The pool is a queue *)

Underway == {task[t] : t \in Threads} \ {None}
QueueState ==
    CASE owner = "done" -> "over"
      [] shutdown /\ owner # "done" -> "closed"
      [] OTHER -> "open"

\* What is known to the queue is what the pool has accepted.
LEMMA KnownIsAccepted == ASSUME PoolTypeOK PROVE Queue!Known = Accepted
  <1>1. None \notin Queued /\ None \notin ran
    BY JobsAssumption DEF PoolTypeOK, Queued
  <1> QED
    BY <1>1 DEF Queue!Known, Accepted, Queued

\* A thread begins the oldest job.
LEMMA TakeBegins == ASSUME PoolInv, NEW t \in Threads, Take(t) PROVE Queue!Begin
  <1>0. PoolTypeOK /\ RunsItsTask /\ Stages
    BY DEF PoolInv
  <1>1. Head(jobs) \in Jobs /\ Head(jobs) # None
    BY <1>0, HeadTailProperties, JobsAssumption DEF Take, PoolTypeOK
  <1>2. task[t] = None
    BY <1>0 DEF Take, HasMutex, RunsItsTask
  <1>3. /\ \A u \in Threads : task'[u] = IF u = t THEN Head(jobs) ELSE task[u]
        /\ jobs # <<>> /\ jobs' = Tail(jobs) /\ ran' = ran /\ owner' = owner /\ shutdown' = shutdown
    BY <1>0 DEF Take, PoolTypeOK
  <1>4. Underway' = Underway \cup {Head(jobs)}
    BY <1>1, <1>2, <1>3 DEF Underway
  <1>5. owner # "done"
    <2>1. thread[t] # "none"
      BY DEF Take, HasMutex
    <2> QED
      BY <2>1, DoneMeansJoined DEF NothingLeft
  <1>6. QueueState # "over" /\ QueueState' = QueueState
    BY <1>3, <1>5 DEF QueueState
  <1> QED
    BY <1>3, <1>4, <1>6 DEF Queue!Begin, Underway, QueueState

\* A job ends in the thread that ran it.
LEMMA ReturnEnds == ASSUME PoolInv, NEW t \in Threads, Return(t) PROVE Queue!End(task[t])
  <1>0. PoolTypeOK /\ RunsItsTask /\ OnceEach
    BY DEF PoolInv
  <1>1. task[t] # None
    BY <1>0 DEF Return, RunsItsTask
  <1>2. /\ \A u \in Threads : task'[u] = IF u = t THEN None ELSE task[u]
        /\ jobs' = jobs /\ ran' = ran \cup {task[t]} /\ owner' = owner /\ shutdown' = shutdown
    BY <1>0 DEF Return, PoolTypeOK
  <1>3. \A u \in Threads : u # t => task[u] # task[t]
    BY <1>0, <1>1 DEF OnceEach
  <1>4. task[t] \in Underway /\ Underway' = Underway \ {task[t]}
    BY <1>1, <1>2, <1>3 DEF Underway
  <1>5. QueueState' = QueueState
    BY <1>2 DEF QueueState
  <1> QED
    BY <1>2, <1>4, <1>5 DEF Queue!End, Underway, QueueState

\* The pool is over when every thread is joined and nothing is left to do.
LEMMA CleanUpIsOver == ASSUME PoolInv, CleanUp PROVE Queue!Over
  <1>0. PoolTypeOK /\ Stages /\ BasesStay /\ Listed /\ RunsItsTask
    BY DEF PoolInv
  <1>1. owner = "cleaning" /\ owner' = "done" /\ task' = task /\ jobs' = jobs /\ ran' = ran
    BY DEF CleanUp
  <1>2. shutdown /\ QueueState = "closed" /\ QueueState' = "over"
    BY <1>0, <1>1 DEF Stages, Ending, NoBase, Moved, Emptied, QueueState
  <1>3. \A t \in Base : thread[t] = "none"
    BY <1>0, <1>1 DEF Stages, NoBase, Moved, Emptied
  <1>4. jobs = <<>>
    BY <1>0, <1>3, ThreadsAssumption DEF BasesStay
  <1>5. \A t \in Threads : thread[t] \in {"none", "left"}
    <2>1. dynamic = {} /\ remaining = {}
      BY <1>0, <1>1 DEF Stages, Moved, Emptied
    <2> QED
      BY <1>0, <1>3, <2>1 DEF Listed, Threads
  <1>6. Underway = {}
    BY <1>0, <1>5 DEF RunsItsTask, Underway
  <1> QED
    BY <1>1, <1>2, <1>4, <1>6 DEF Queue!Over, Underway, QueueState

LEMMA QueueStep == PoolInv /\ [PoolNext]_poolVars => [Queue!Next]_(Queue!vars)
  <1> SUFFICES ASSUME PoolInv, [PoolNext]_poolVars PROVE [Queue!Next]_(Queue!vars)
    OBVIOUS
  <1>0. PoolTypeOK /\ Stages
    BY DEF PoolInv
  <1>1. ASSUME NEW job \in Jobs, Enqueue(job) PROVE Queue!Accept(job)
    <2>1. job \notin Queue!Known
      BY <1>0, <1>1, KnownIsAccepted DEF Enqueue
    <2>2. QueueState = "open" /\ QueueState' = "open"
      BY <1>1 DEF Enqueue, QueueState
    <2>3. jobs' = Append(jobs, job) /\ task' = task /\ ran' = ran
      BY <1>1 DEF Enqueue
    <2> QED
      BY <2>1, <2>2, <2>3 DEF Queue!Accept, QueueState
  <1>2. ASSUME Shutdown PROVE Queue!Close
    <2>1. owner = "free" /\ ~ shutdown /\ shutdown' /\ owner' # "done"
      BY <1>0, <1>2 DEF Shutdown, Stages, Ending, NoBase, Moved, Emptied
    <2>2. QueueState = "open" /\ QueueState' = "closed"
      BY <2>1 DEF QueueState
    <2>3. jobs' = jobs /\ task' = task /\ ran' = ran
      BY <1>2 DEF Shutdown
    <2> QED
      BY <2>2, <2>3 DEF Queue!Close, QueueState
  <1>3. ASSUME Spawn \/ NotifyOne \/ NotifyAll \/ JoinBase \/ MoveDynamic \/ JoinDynamic
        PROVE  UNCHANGED Queue!vars
    <2>1. jobs' = jobs /\ task' = task /\ ran' = ran /\ shutdown' = shutdown
      BY <1>3 DEF Spawn, NotifyOne, NotifyAll, JoinBase, MoveDynamic, JoinDynamic
    <2>2. owner # "done" /\ owner' # "done"
      BY <1>3 DEF Spawn, NotifyOne, NotifyAll, JoinBase, MoveDynamic, JoinDynamic
    <2> QED
      BY <2>1, <2>2 DEF Queue!vars
  <1>4. ASSUME CleanUp PROVE Queue!Over
    BY <1>4, CleanUpIsOver
  <1>5. ASSUME NEW t \in Threads, Take(t) PROVE Queue!Begin
    BY <1>5, TakeBegins
  <1>6. ASSUME NEW t \in Threads, Return(t) PROVE \E job \in Jobs : Queue!End(job)
    <2>1. task[t] \in Jobs
      BY <1>0, <1>6 DEF PoolInv, RunsItsTask, PoolTypeOK, Return
    <2> QED
      BY <1>6, <2>1, ReturnEnds DEF Queue!End
  <1>7. ASSUME NEW t \in Threads,
               \/ Wait(t) \/ LeaveIdle(t) \/ LeaveShutdown(t) \/ LeaveReturned(t) \/ Stay(t)
               \/ Expire(t) \/ WakeUp(t)
        PROVE  UNCHANGED Queue!vars
    <2>1. jobs' = jobs /\ task' = task /\ ran' = ran /\ shutdown' = shutdown /\ owner' = owner
      BY <1>7 DEF Wait, LeaveIdle, LeaveShutdown, LeaveReturned, Stay, Expire, WakeUp
    <2> QED
      BY <2>1 DEF Queue!vars
  <1>8. CASE UNCHANGED poolVars
    BY <1>8 DEF poolVars, Queue!vars
  <1> QED
    BY <1>1, <1>2, <1>3, <1>4, <1>5, <1>6, <1>7, <1>8 DEF PoolNext, Own, Work, Notice, Queue!Next

\* PoolIsQueue: ThreadPool implements the queue of WorkQueue, for any number of
\* threads and jobs: jobs are begun in the order of enqueue, each by one thread, and
\* shutdown returns only when all of them have ended.
THEOREM PoolIsQueue == PoolSpec => ServesInOrder
  <1>1. PoolInit => Queue!Init
    <2> SUFFICES ASSUME PoolInit PROVE Queue!Init
      OBVIOUS
    <2>1. Underway = {} /\ QueueState = "open"
      BY DEF PoolInit, Underway, QueueState
    <2> QED
      BY <2>1 DEF PoolInit, Queue!Init, Underway, QueueState
  <1> QED
    BY <1>1, QueueStep, PoolInvariant, PTL DEF PoolSpec, ServesInOrder, Queue!Spec

-----------------------------------------------------------------------------
(* The owner is not stuck *)

\* Who is to be joined was started, nobody goes to sleep during a shutdown, and
\* there is a name for a thread that is to be started.
StillThere ==
    /\ owner \notin NoBase => \A t \in Base : thread[t] # "none"
    /\ \A t \in dynamic \cup remaining : thread[t] # "none"
    /\ shutdown /\ owner # "notifying all" => \A t \in Threads : thread[t] # "waiting"
    /\ owner = "spawning" => dynamic # Dynamic

LEMMA StillThereStep == PoolInv /\ StillThere /\ [PoolNext]_poolVars => StillThere'
  <1> SUFFICES ASSUME PoolInv, StillThere, [PoolNext]_poolVars PROVE StillThere'
    OBVIOUS
  <1>0. PoolTypeOK /\ Stages /\ Listed /\ StillThere
    BY DEF PoolInv
  <1>1. ASSUME NEW job \in Jobs, Enqueue(job) PROVE StillThere'
    BY <1>0, ThreadsAssumption, <1>1 DEF Enqueue, StillThere, Stages, Ending, NoBase, Moved, Emptied, Listed, lists, Becomes, move_to_finished, Joined, Joinable, Threads, HasMutex, Locked, PoolTypeOK
  <1>2. ASSUME Shutdown PROVE StillThere'
    BY <1>0, ThreadsAssumption, <1>2 DEF Shutdown, StillThere, Stages, Ending, NoBase, Moved, Emptied, Listed, lists, Becomes, move_to_finished, Joined, Joinable, Threads, HasMutex, Locked, PoolTypeOK
  <1>3. ASSUME Spawn PROVE StillThere'
    BY <1>0, ThreadsAssumption, <1>3 DEF Spawn, StillThere, Stages, Ending, NoBase, Moved, Emptied, Listed, lists, Becomes, move_to_finished, Joined, Joinable, Threads, HasMutex, Locked, PoolTypeOK
  <1>4. ASSUME NotifyOne PROVE StillThere'
    BY <1>0, ThreadsAssumption, <1>4 DEF NotifyOne, StillThere, Stages, Ending, NoBase, Moved, Emptied, Listed, lists, Becomes, move_to_finished, Joined, Joinable, Threads, HasMutex, Locked, PoolTypeOK
  <1>5. ASSUME NotifyAll PROVE StillThere'
    BY <1>0, ThreadsAssumption, <1>5 DEF NotifyAll, StillThere, Stages, Ending, NoBase, Moved, Emptied, Listed, lists, Becomes, move_to_finished, Joined, Joinable, Threads, HasMutex, Locked, PoolTypeOK
  <1>6. ASSUME JoinBase PROVE StillThere'
    BY <1>0, ThreadsAssumption, <1>6 DEF JoinBase, StillThere, Stages, Ending, NoBase, Moved, Emptied, Listed, lists, Becomes, move_to_finished, Joined, Joinable, Threads, HasMutex, Locked, PoolTypeOK
  <1>7. ASSUME MoveDynamic PROVE StillThere'
    BY <1>0, ThreadsAssumption, <1>7 DEF MoveDynamic, StillThere, Stages, Ending, NoBase, Moved, Emptied, Listed, lists, Becomes, move_to_finished, Joined, Joinable, Threads, HasMutex, Locked, PoolTypeOK
  <1>8. ASSUME JoinDynamic PROVE StillThere'
    BY <1>0, ThreadsAssumption, <1>8 DEF JoinDynamic, StillThere, Stages, Ending, NoBase, Moved, Emptied, Listed, lists, Becomes, move_to_finished, Joined, Joinable, Threads, HasMutex, Locked, PoolTypeOK
  <1>9. ASSUME CleanUp PROVE StillThere'
    BY <1>0, ThreadsAssumption, <1>9 DEF CleanUp, StillThere, Stages, Ending, NoBase, Moved, Emptied, Listed, lists, Becomes, move_to_finished, Joined, Joinable, Threads, HasMutex, Locked, PoolTypeOK
  <1>10. ASSUME NEW t \in Threads, Take(t) PROVE StillThere'
    BY <1>0, ThreadsAssumption, <1>10 DEF Take, StillThere, Stages, Ending, NoBase, Moved, Emptied, Listed, lists, Becomes, move_to_finished, Joined, Joinable, Threads, HasMutex, Locked, PoolTypeOK
  <1>11. ASSUME NEW t \in Threads, Wait(t) PROVE StillThere'
    BY <1>0, ThreadsAssumption, <1>11 DEF Wait, StillThere, Stages, Ending, NoBase, Moved, Emptied, Listed, lists, Becomes, move_to_finished, Joined, Joinable, Threads, HasMutex, Locked, PoolTypeOK
  <1>12. ASSUME NEW t \in Threads, LeaveIdle(t) PROVE StillThere'
    BY <1>0, ThreadsAssumption, <1>12 DEF LeaveIdle, StillThere, Stages, Ending, NoBase, Moved, Emptied, Listed, lists, Becomes, move_to_finished, Joined, Joinable, Threads, HasMutex, Locked, PoolTypeOK
  <1>13. ASSUME NEW t \in Threads, LeaveShutdown(t) PROVE StillThere'
    BY <1>0, ThreadsAssumption, <1>13 DEF LeaveShutdown, StillThere, Stages, Ending, NoBase, Moved, Emptied, Listed, lists, Becomes, move_to_finished, Joined, Joinable, Threads, HasMutex, Locked, PoolTypeOK
  <1>14. ASSUME NEW t \in Threads, LeaveReturned(t) PROVE StillThere'
    BY <1>0, ThreadsAssumption, <1>14 DEF LeaveReturned, StillThere, Stages, Ending, NoBase, Moved, Emptied, Listed, lists, Becomes, move_to_finished, Joined, Joinable, Threads, HasMutex, Locked, PoolTypeOK
  <1>15. ASSUME NEW t \in Threads, Stay(t) PROVE StillThere'
    BY <1>0, ThreadsAssumption, <1>15 DEF Stay, StillThere, Stages, Ending, NoBase, Moved, Emptied, Listed, lists, Becomes, move_to_finished, Joined, Joinable, Threads, HasMutex, Locked, PoolTypeOK
  <1>16. ASSUME NEW t \in Threads, Expire(t) PROVE StillThere'
    BY <1>0, ThreadsAssumption, <1>16 DEF Expire, StillThere, Stages, Ending, NoBase, Moved, Emptied, Listed, lists, Becomes, move_to_finished, Joined, Joinable, Threads, HasMutex, Locked, PoolTypeOK
  <1>17. ASSUME NEW t \in Threads, WakeUp(t) PROVE StillThere'
    BY <1>0, ThreadsAssumption, <1>17 DEF WakeUp, StillThere, Stages, Ending, NoBase, Moved, Emptied, Listed, lists, Becomes, move_to_finished, Joined, Joinable, Threads, HasMutex, Locked, PoolTypeOK
  <1>18. ASSUME NEW t \in Threads, Return(t) PROVE StillThere'
    BY <1>0, ThreadsAssumption, <1>18 DEF Return, StillThere, Stages, Ending, NoBase, Moved, Emptied, Listed, lists, Becomes, move_to_finished, Joined, Joinable, Threads, HasMutex, Locked, PoolTypeOK
  <1>19. CASE UNCHANGED poolVars
    BY <1>0, <1>19 DEF poolVars, lists, StillThere
  <1> QED
    BY <1>1, <1>2, <1>3, <1>4, <1>5, <1>6, <1>7, <1>8, <1>9, <1>10, <1>11, <1>12, <1>13, <1>14, <1>15, <1>16, <1>17, <1>18, <1>19 DEF PoolNext, Own, Work, Notice

\* A thread that is not in a wait goes on when its job returns, or as soon as it
\* gets the mutex, which nobody holds from one step to the next but an owner that
\* joins what has left already.
GoesOn(t) == thread[t] = "running" \/ (~ Locked /\ thread[t] \in {"ready", "woken", "expired", "returned"})
NeverStuck ==
    /\ owner \in {"spawning", "cleaning"} => Joinable(finished)
    /\ owner = "spawning" => Dynamic \ dynamic # {}
    /\ owner = "joining base" => \A t \in Base : thread[t] = "left" \/ GoesOn(t)
    /\ owner = "joining dynamic" => \A t \in remaining : thread[t] = "left" \/ GoesOn(t)

\* OwnerIsNotStuck: the thread that listens never waits for a thread that sleeps,
\* or that needs the mutex the owner holds, or that does not run: whoever it is
\* about to join has left or goes on, and while it joins with the mutex held
\* (cleanup_finished_threads) all have left.  So enqueue and shutdown do not
\* deadlock, for any number of threads.
THEOREM OwnerIsNotStuck == PoolSpec => []NeverStuck
  <1>1. PoolInit => StillThere
    BY ThreadsAssumption DEF PoolInit, StillThere, Threads
  <1>2. ASSUME PoolInv, StillThere PROVE NeverStuck
    <2>0. PoolTypeOK /\ Stages /\ Listed
      BY <1>2 DEF PoolInv
    <2>1. Joinable(finished)
      BY <2>0 DEF Listed, Joinable
    <2>2. owner = "spawning" => Dynamic \ dynamic # {}
      BY <1>2, <2>0 DEF StillThere, PoolTypeOK
    <2>3. ASSUME NEW t \in Threads, owner \in {"joining base", "joining dynamic"}, thread[t] # "none"
          PROVE  thread[t] = "left" \/ GoesOn(t)
      <3>1. shutdown /\ ~ Locked
        BY <2>0, <2>3 DEF Stages, Ending, NoBase, Moved, Locked
      <3>2. thread[t] \in Places /\ thread[t] # "waiting"
        BY <1>2, <2>0, <2>3, <3>1 DEF PoolTypeOK, StillThere
      <3> QED
        BY <2>3, <3>1, <3>2 DEF GoesOn, Places
    <2>4. owner = "joining base" => \A t \in Base : thread[t] = "left" \/ GoesOn(t)
      BY <1>2, <2>3 DEF StillThere, NoBase, Moved, Emptied, Threads
    <2>5. owner = "joining dynamic" => \A t \in remaining : thread[t] = "left" \/ GoesOn(t)
      BY <1>2, <2>0, <2>3 DEF StillThere, PoolTypeOK, Threads
    <2> QED
      BY <2>1, <2>2, <2>4, <2>5 DEF NeverStuck
  <1> QED
    BY <1>1, <1>2, StillThereStep, PoolInvariant, PTL DEF PoolSpec

\* The owner's way through shutdown, and the threads that are out of the loop.
StagesLeft ==
    CASE owner = "notifying all"   -> 6
      [] owner = "joining base"    -> 5
      [] owner = "moving"          -> 4
      [] owner = "joining dynamic" -> 3
      [] owner = "cleaning"        -> 2
      [] owner = "done"            -> 1
      [] OTHER                     -> 7
Gone(t) == thread[t] \in {"left", "none"}
ShutdownGoesOn ==
    [][shutdown => /\ shutdown'
                   /\ IF Own THEN StagesLeft' < StagesLeft ELSE StagesLeft' = StagesLeft
                   /\ jobs' = jobs \/ (jobs # <<>> /\ jobs' = Tail(jobs))
                   /\ \A t \in Threads : Gone(t) => Gone(t)']_poolVars

\* ShutdownOnlyShrinks: what StopReturns rests on: a shutdown is not taken back,
\* each step of the owner leaves one of six stages for good, no job is added, and
\* no thread that left comes back.
THEOREM ShutdownOnlyShrinks == PoolSpec => ShutdownGoesOn
  <1>1. ASSUME PoolInv, [PoolNext]_poolVars
        PROVE  [shutdown => /\ shutdown'
                            /\ IF Own THEN StagesLeft' < StagesLeft ELSE StagesLeft' = StagesLeft
                            /\ jobs' = jobs \/ (jobs # <<>> /\ jobs' = Tail(jobs))
                            /\ \A t \in Threads : Gone(t) => Gone(t)']_poolVars
    <2> DEFINE Onward == /\ shutdown'
                         /\ IF Own THEN StagesLeft' < StagesLeft ELSE StagesLeft' = StagesLeft
                         /\ jobs' = jobs \/ (jobs # <<>> /\ jobs' = Tail(jobs))
                         /\ \A t \in Threads : Gone(t) => Gone(t)'
    <2> SUFFICES ASSUME PoolNext, shutdown PROVE Onward
      BY <1>1
    <2>0. PoolTypeOK /\ Stages /\ Listed
      BY <1>1 DEF PoolInv
    <2>1. owner \in Ending
      BY <2>0 DEF Stages
    <2>2. ASSUME NEW job \in Jobs, Enqueue(job) PROVE Onward
      BY <2>2 DEF Enqueue
    <2>3. ASSUME Shutdown PROVE Onward
      BY <2>1, <2>3 DEF Shutdown, Ending, NoBase, Moved, Emptied
    <2>4. ASSUME Own PROVE Onward
      <3>1. NotifyAll \/ JoinBase \/ MoveDynamic \/ JoinDynamic \/ CleanUp
        BY <2>1, <2>4 DEF Own, Spawn, NotifyOne, Ending, NoBase, Moved, Emptied
      <3>2. shutdown' /\ jobs' = jobs
        BY <3>1 DEF NotifyAll, JoinBase, MoveDynamic, JoinDynamic, CleanUp
      <3>3. /\ NotifyAll   => StagesLeft = 6 /\ StagesLeft' = 5
            /\ JoinBase    => StagesLeft = 5 /\ StagesLeft' = 4
            /\ MoveDynamic => StagesLeft = 4 /\ StagesLeft' = 3
            /\ JoinDynamic => StagesLeft = 3 /\ StagesLeft' = 2
            /\ CleanUp     => StagesLeft = 2 /\ StagesLeft' = 1
        BY DEF NotifyAll, JoinBase, MoveDynamic, JoinDynamic, CleanUp, StagesLeft
      <3>4. StagesLeft' < StagesLeft
        BY <3>1, <3>3
      <3>5. CASE NotifyAll
        <4> SUFFICES ASSUME NEW t \in Threads, Gone(t) PROVE Gone(t)'
          BY <2>4, <3>2, <3>4
        <4> QED
          BY <3>5 DEF NotifyAll, Gone
      <3>6. CASE JoinBase \/ JoinDynamic \/ CleanUp
        <4> SUFFICES ASSUME NEW t \in Threads, Gone(t) PROVE Gone(t)'
          BY <2>4, <3>2, <3>4
        <4> QED
          BY <3>6 DEF JoinBase, JoinDynamic, CleanUp, Gone, Joined
      <3>7. \A t \in Threads : MoveDynamic /\ Gone(t) => Gone(t)'
        BY DEF MoveDynamic, Gone
      <3> QED
        BY <2>4, <3>1, <3>2, <3>4, <3>5, <3>6, <3>7
    <2>5. ASSUME NEW t \in Threads, Work(t) \/ Notice(t) \/ Return(t) PROVE Onward
      <3>1. owner' = owner /\ shutdown'
        BY <2>5 DEF Work, Notice, Take, Wait, LeaveIdle, LeaveShutdown, LeaveReturned, Stay, Expire, WakeUp, Return
      <3>2. ~ Own
        BY <2>1, <3>1 DEF Own, Spawn, NotifyOne, NotifyAll, JoinBase, MoveDynamic, JoinDynamic, CleanUp
      <3>3. jobs' = jobs \/ (jobs # <<>> /\ jobs' = Tail(jobs))
        BY <2>5 DEF Work, Notice, Take, Wait, LeaveIdle, LeaveShutdown, LeaveReturned, Stay, Expire, WakeUp, Return
      <3>4. ~ Gone(t) /\ \E place : Becomes(t, place)
        BY <2>5, Zenon DEF Work, Notice, Take, Wait, LeaveIdle, LeaveShutdown, LeaveReturned, Stay, Expire, WakeUp,
           Return, HasMutex, Gone
      <3>5. \A u \in Threads : Gone(u) => Gone(u)'
        BY <2>0, <3>4 DEF Gone, Becomes, PoolTypeOK
      <3>6. StagesLeft' = StagesLeft
        BY <3>1 DEF StagesLeft
      <3> QED
        BY <3>1, <3>2, <3>3, <3>5, <3>6
    <2> QED
      BY <2>2, <2>3, <2>4, <2>5 DEF PoolNext
  <1> QED
    BY <1>1, PoolInvariant, PTL DEF PoolSpec, ShutdownGoesOn
===============================================================================
