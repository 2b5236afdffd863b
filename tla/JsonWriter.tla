------------------------------ MODULE JsonWriter ------------------------------
(***************************************************************************)
(* utils::JsonWriter, with which every emitter of JSON writes.  It keeps   *)
(* no stack of what is open: one flag says whether the next element is the *)
(* first of its container, for all containers there are.                   *)
(*                                                                         *)
(* A caller closes what it opened and gives a key a value (the calls in    *)
(* the emitters are written so); `nest` is where the caller is.            *)
(***************************************************************************)
EXTENDS Naturals, Sequences

CONSTANTS
    MaxTokens,    \* bound: calls that write an element
    MaxDepth      \* bound: containers open at once

ASSUME BoundsAssumption == MaxTokens \in Nat /\ MaxDepth \in Nat

VARIABLES
    out,      \* ss, as tokens
    first,    \* the flag
    nest      \* the caller: "object", "member" (a key was written) or "array"

vars == <<out, first, nest>>

Init == out = <<>> /\ first = TRUE /\ nest = <<>>

Inner  == nest[Len(nest)]
Outer  == SubSeq(nest, 1, Len(nest) - 1)
Filled == IF nest # <<>> /\ Inner = "member"
          THEN [nest EXCEPT ![Len(nest)] = "object"] ELSE nest

\* The caller may write a value: the document, an element, or a key's value.
ValueDue == IF nest = <<>> THEN out = <<>> ELSE Inner \in {"array", "member"}

Separated == IF first THEN out ELSE Append(out, ",")

start_object ==
    /\ ValueDue /\ Len(nest) < MaxDepth /\ Len(out) < MaxTokens
    /\ out' = Append(Separated, "{")
    /\ first' = TRUE
    /\ nest' = Append(Filled, "object")

\* Mutated form of end_object: the flag is left alone.
end_object_forgets ==
    /\ nest # <<>> /\ Inner = "object"
    /\ out' = Append(out, "}")
    /\ nest' = Outer
    /\ UNCHANGED first

end_object ==
    /\ nest # <<>> /\ Inner = "object"
    /\ out' = Append(out, "}")
    /\ first' = FALSE
    /\ nest' = Outer

start_array ==
    /\ ValueDue /\ Len(nest) < MaxDepth /\ Len(out) < MaxTokens
    /\ out' = Append(Separated, "[")
    /\ first' = TRUE
    /\ nest' = Append(Filled, "array")

end_array ==
    /\ nest # <<>> /\ Inner = "array"
    /\ out' = Append(out, "]")
    /\ first' = FALSE
    /\ nest' = Outer

\* Mutated form of key: its value is not taken for a first element.
key_separated ==
    /\ nest # <<>> /\ Inner = "object" /\ Len(out) < MaxTokens
    /\ out' = Append(Separated, "key")
    /\ first' = FALSE
    /\ nest' = [nest EXCEPT ![Len(nest)] = "member"]

key ==
    /\ nest # <<>> /\ Inner = "object" /\ Len(out) < MaxTokens
    /\ out' = Append(Separated, "key")
    /\ first' = TRUE
    /\ nest' = [nest EXCEPT ![Len(nest)] = "member"]

\* value, null_value and raw_value.  key_value and key_optional are key and value.
value ==
    /\ ValueDue /\ Len(out) < MaxTokens
    /\ out' = Append(Separated, "scalar")
    /\ first' = FALSE
    /\ nest' = Filled

Next ==
    \/ start_object \/ end_object \/ start_array \/ end_array
    \/ key \/ value

Spec == Init /\ [][Next]_vars

-----------------------------------------------------------------------------
(* Properties *)

Token   == {"{", "}", "[", "]", ",", "key", "scalar"}
Kinds   == {"object", "member", "array"}

TypeOK ==
    /\ out \in Seq(Token)
    /\ first \in BOOLEAN
    /\ nest \in Seq(Kinds)

\* The tokens RFC 8259 allows after a token, wherever it stands.
Start   == {"{", "[", "scalar"}
Allowed ==
    [t \in Token |-> CASE t = "{"   -> {"key", "}"}
                       [] t = "["   -> Start \union {"]"}
                       [] t = ","   -> Start \union {"key"}
                       [] t = "key" -> Start
                       [] t \in {"}", "]", "scalar"} -> {",", "}", "]"}]

\* No separator is missing, doubled, leading or trailing anywhere in the text,
\* although closing a container at any depth reuses the flag of the inner one.
SeparatorsAreRight == \A i \in 1..(Len(out) - 1) : out[i + 1] \in Allowed[out[i]]

\* The one flag does the work of a stack: what is written is at every moment the
\* beginning of one JSON value.  A container around the innermost one is never
\* empty, for it holds that one, so only the innermost needs the flag.
New  == [object |-> "new object", array |-> "new array", member |-> "member"]
Open == IF first /\ nest # <<>> THEN [nest EXCEPT ![Len(nest)] = New[Inner]] ELSE nest

Text == INSTANCE JsonText WITH open <- Open

WritesJson == Text!Spec

\* The last token there can be when the caller is at n.
Closed  == {"}", "]", "scalar"}
LastIn  == [object |-> Closed \union {"{"}, array |-> Closed \union {"["}, member |-> {"key"}]
Ends(n) == IF n = <<>> THEN Closed ELSE LastIn[n[Len(n)]]

\* Why: the flag is set exactly at the beginning, after an opening bracket and
\* after a key, and the last token agrees with where the caller is.
WriterInv ==
    /\ TypeOK
    /\ first <=> out = <<>> \/ out[Len(out)] \in {"{", "[", "key"}
    /\ out = <<>> => nest = <<>>
    /\ out # <<>> => out[Len(out)] \in Ends(nest)
    /\ \A i \in 1..(Len(nest) - 1) : nest[i] # "member"
==============================================================================
