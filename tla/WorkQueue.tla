------------------------------- MODULE WorkQueue -------------------------------
(***************************************************************************)
(* What httplib's ThreadPool is for its owner: a queue of jobs.  Jobs are  *)
(* begun in the order in which they were handed over, each once; several   *)
(* may be underway.  After it was closed no job is accepted any more, but  *)
(* those that were accepted are done before it is over.                    *)
(***************************************************************************)
EXTENDS Sequences

CONSTANT Jobs

VARIABLES waiting,   \* the jobs that were not begun, in their order
          underway,  \* those that were begun and not ended
          done,      \* those that ended
          state      \* "open", "closed" or "over"
vars == <<waiting, underway, done, state>>

Known == {waiting[i] : i \in DOMAIN waiting} \cup underway \cup done

Init == waiting = <<>> /\ underway = {} /\ done = {} /\ state = "open"

Accept(job) ==
    /\ state = "open" /\ job \notin Known
    /\ waiting' = Append(waiting, job)
    /\ UNCHANGED <<underway, done, state>>

Begin ==
    /\ state # "over" /\ waiting # <<>>
    /\ underway' = underway \cup {Head(waiting)}
    /\ waiting' = Tail(waiting)
    /\ UNCHANGED <<done, state>>

End(job) ==
    /\ job \in underway
    /\ underway' = underway \ {job}
    /\ done' = done \cup {job}
    /\ UNCHANGED <<waiting, state>>

Close ==
    /\ state = "open"
    /\ state' = "closed"
    /\ UNCHANGED <<waiting, underway, done>>

Over ==
    /\ state = "closed" /\ waiting = <<>> /\ underway = {}
    /\ state' = "over"
    /\ UNCHANGED <<waiting, underway, done>>

Next ==
    \/ \E job \in Jobs : Accept(job) \/ End(job)
    \/ Begin \/ Close \/ Over

Spec == Init /\ [][Next]_vars
=================================================================================
