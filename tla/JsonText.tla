------------------------------- MODULE JsonText -------------------------------
(***************************************************************************)
(* What JsonWriter promises (RFC 8259): the text so far is the beginning   *)
(* of one JSON value.  The text is a sequence of tokens; "key" stands for  *)
(* a name and its colon, "scalar" for a string, number, literal, or a      *)
(* fragment of JSON given as it is.                                        *)
(***************************************************************************)
EXTENDS Naturals, Sequences

VARIABLES
    out,    \* the text
    open    \* the containers still open, the innermost last

\* A "new" container has no element yet; a "member" is an object of which a
\* name but not yet its value was written.
Objects == {"new object", "object"}
Arrays  == {"new array", "array"}
Unseparated == {"new object", "new array", "member"}

Top == open[Len(open)]

\* The text goes on with an element of the innermost container.
Element(token) ==
    out' = Append(IF open = <<>> \/ Top \in Unseparated THEN out ELSE Append(out, ","), token)

\* The containers once the innermost has one value more.
Place ==
    IF open = <<>> THEN <<>>
    ELSE [open EXCEPT ![Len(open)] = IF Top \in Arrays THEN "array" ELSE "object"]

ValueExpected == IF open = <<>> THEN out = <<>> ELSE Top \in Arrays \union {"member"}

Init == out = <<>> /\ open = <<>>

Begin(token, container) ==
    /\ ValueExpected
    /\ Element(token)
    /\ open' = Append(Place, container)

Name ==
    /\ open # <<>> /\ Top \in Objects
    /\ Element("key")
    /\ open' = [open EXCEPT ![Len(open)] = "member"]

Scalar ==
    /\ ValueExpected
    /\ Element("scalar")
    /\ open' = Place

End(token, containers) ==
    /\ open # <<>> /\ Top \in containers
    /\ out' = Append(out, token)
    /\ open' = SubSeq(open, 1, Len(open) - 1)

Next ==
    \/ Begin("{", "new object") \/ End("}", Objects)
    \/ Begin("[", "new array") \/ End("]", Arrays)
    \/ Name \/ Scalar

Spec == Init /\ [][Next]_<<out, open>>
==============================================================================
