---------------------------- MODULE SharedDocument ----------------------------
(***************************************************************************)
(* What a run of `cdd-cpp sync` does to the OpenAPI document, for those    *)
(* who share it: the developer who saves it, and the next run.             *)
(*                                                                         *)
(* A run looks once at the classes of the developer's files and, later,    *)
(* once at the document; it decides then what the document becomes, and    *)
(* replaces it once, as a whole.  What is decided keeps what was in the    *)
(* document and has a schema for every class that was seen.  A save before *)
(* the run reads is kept, a save after that is lost.  Only two things may  *)
(* leave a document that cannot be read: a kill between the replacement    *)
(* and the end of the run, and a disk that does not take the text, which   *)
(* the run does not notice.  A run that succeeds has replaced the document *)
(* but for that.                                                           *)
(***************************************************************************)
CONSTANTS Documents,        \* what can be read as a document
          TypeNames,        \* names of schemas and of C++ classes
          Truths,           \* the sources of truth
          Absent, Garbage   \* no document or type; what cannot be read

VARIABLES document,   \* the document, as it is or, once replaced, will be
          classes,    \* the classes of the developer's files
          truth,      \* the run's source of truth
          phase,      \* how far the run is
          seen,       \* the classes it saw
          draft,      \* what it decided on
          whole,      \* the disk has taken what it wrote of the document
          verdict     \* how it ended
vars == <<document, classes, truth, phase, seen, draft, whole, verdict>>

Declared(d) == {n \in TypeNames : d.types[n] # Absent}
Keeps(old, new) ==
    old \in Documents =>
        /\ new.info = old.info
        /\ truth = "spec" =>
              /\ new.ops = old.ops
              /\ \A n \in Declared(old) : new.types[n] = old.types[n]

Init ==
    /\ document \in Documents \cup {Absent}
    /\ classes = {} /\ seen = {}
    /\ truth \in Truths
    /\ phase = "idle" /\ verdict = "none"
    /\ draft \in Documents /\ whole = TRUE

Begin ==
    /\ phase = "idle"
    /\ phase' = "begun" /\ verdict' = "none"
    /\ truth' \in Truths /\ whole' = TRUE
    /\ UNCHANGED <<document, classes, seen, draft>>

\* A directory that cannot be read is like one without classes.
Look ==
    /\ phase = "begun"
    /\ phase' = "looked"
    /\ seen' = classes \/ seen' = {}
    /\ UNCHANGED <<document, classes, truth, draft, whole, verdict>>

Decide ==
    /\ phase = "looked"
    /\ phase' = "decided"
    /\ draft' \in Documents
    /\ Keeps(document, draft') /\ seen \subseteq Declared(draft')
    /\ UNCHANGED <<document, classes, truth, seen, whole, verdict>>

Replace ==
    /\ phase = "decided"
    /\ phase' = "replaced"
    /\ document' = draft
    /\ UNCHANGED <<classes, truth, seen, draft, whole, verdict>>

\* The disk does not take the text: what was there is gone as well.
Lost == whole' = FALSE /\ document' = Garbage

Lose ==
    /\ phase = "replaced" /\ Lost
    /\ UNCHANGED <<classes, truth, phase, seen, draft, verdict>>

Succeed ==
    /\ phase = "replaced"
    /\ phase' = "idle" /\ verdict' = "succeeded"
    /\ Lost \/ UNCHANGED <<document, whole>>
    /\ UNCHANGED <<classes, truth, seen, draft>>

Fail ==
    /\ phase \in {"decided", "replaced"}
    /\ phase' = "idle" /\ verdict' = "failed"
    /\ (phase = "replaced" /\ Lost) \/ UNCHANGED <<document, whole>>
    /\ UNCHANGED <<classes, truth, seen, draft>>

Kill ==
    /\ phase' = "idle" /\ verdict' = "none"
    /\ document' = document \/ (phase = "replaced" /\ document' = Garbage)
    /\ UNCHANGED <<classes, truth, seen, draft, whole>>

\* The developer saves a file of C++, or the document.  How an earlier run ended
\* may be forgotten then.
Edit ==
    /\ verdict' \in {verdict, "none"}
    /\ \/ classes' \in SUBSET TypeNames /\ UNCHANGED document
       \/ /\ phase # "replaced"
          /\ document' \in Documents \cup {Garbage} /\ UNCHANGED classes
    /\ UNCHANGED <<truth, phase, seen, draft, whole>>

Next == Begin \/ Look \/ Decide \/ Replace \/ Lose \/ Succeed \/ Fail \/ Kill \/ Edit

Spec == Init /\ [][Next]_vars
================================================================================
