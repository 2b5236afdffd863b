--------------------------- MODULE JsonWriterProofs ---------------------------
(***************************************************************************)
(* JsonWriter writes JSON, for texts of every length and depth: the        *)
(* separators are right, and the writer with one flag implements the       *)
(* writer of JsonText, which knows of every open container if it is empty. *)
(***************************************************************************)
EXTENDS JsonWriter, Integers, SequenceTheorems, TLAPS

-----------------------------------------------------------------------------
(* What the writer's helpers return *)

LEMMA SeparatedIsText == TypeOK => Separated \in Seq(Token)
  <1> SUFFICES ASSUME TypeOK PROVE Separated \in Seq(Token)
    OBVIOUS
  <1>1. out \in Seq(Token) /\ "," \in Token
    BY DEF TypeOK, Token
  <1>2. Append(out, ",") \in Seq(Token)
    BY <1>1, AppendProperties
  <1> QED
    BY <1>1, <1>2 DEF Separated

\* A text that grew by a token ends in it.
LEMMA Appended ==
    ASSUME NEW s \in Seq(Token), NEW t \in Token
    PROVE  /\ Append(s, t) \in Seq(Token)
           /\ Len(Append(s, t)) = Len(s) + 1
           /\ Append(s, t) # <<>>
           /\ Append(s, t)[Len(Append(s, t))] = t
           /\ \A i \in 1..Len(s) : Append(s, t)[i] = s[i]
  BY AppendProperties

LEMMA OuterNest ==
    ASSUME TypeOK, nest # <<>>
    PROVE  /\ Len(nest) \in Nat \ {0}
           /\ Outer \in Seq(Kinds) /\ Len(Outer) = Len(nest) - 1
           /\ \A i \in 1..(Len(nest) - 1) : Outer[i] = nest[i]
  <1>1. nest \in Seq(Kinds) /\ Len(nest) \in Nat \ {0}
    BY EmptySeq DEF TypeOK
  <1>a. Len(nest) \in Nat /\ Len(nest) # 0
    BY <1>1
  <1>2. \A i \in 1..(Len(nest) - 1) : nest[i] \in Kinds
    BY <1>1
  <1>3. /\ Outer \in Seq(Kinds)
        /\ Len(Outer) = IF 1 <= Len(nest) - 1 THEN Len(nest) - 1 - 1 + 1 ELSE 0
        /\ \A i \in 1..(Len(nest) - 1 - 1 + 1) : Outer[i] = nest[1 + i - 1]
    BY <1>1, <1>2, SubSeqProperties DEF Outer
  <1>4. Len(Outer) = Len(nest) - 1
    <2>1. CASE Len(nest) = 1
      BY <1>3, <2>1
    <2>2. CASE Len(nest) # 1
      <3>1. 1 <= Len(nest) - 1 /\ Len(nest) - 1 - 1 + 1 = Len(nest) - 1
        <4>1. \A n \in Nat : n # 0 /\ n # 1 => 1 <= n - 1 /\ n - 1 - 1 + 1 = n - 1
          OBVIOUS
        <4> QED
          BY <1>a, <2>2, <4>1
      <3> QED
        BY <1>3, <3>1, Zenon
    <2> QED
      BY <2>1, <2>2
  <1>5. ASSUME NEW i \in 1..(Len(nest) - 1) PROVE Outer[i] = nest[i]
    <2>1. i \in 1..(Len(nest) - 1 - 1 + 1) /\ 1 + i - 1 = i
      BY <1>1
    <2> QED
      BY <1>3, <2>1
  <1> QED
    BY <1>1, <1>3, <1>4, <1>5

LEMMA FilledNest ==
    ASSUME TypeOK
    PROVE  /\ Filled \in Seq(Kinds) /\ Len(Filled) = Len(nest)
           /\ \A i \in 1..(Len(nest) - 1) : Filled[i] = nest[i]
           /\ nest # <<>> => Filled[Len(nest)] = IF Inner = "member" THEN "object" ELSE Inner
  BY DEF Filled, Inner, TypeOK, Kinds

\* The innermost container replaced by one of kind k.
LEMMA KeyedNest ==
    ASSUME TypeOK, nest # <<>>, NEW k \in Kinds
    PROVE  /\ [nest EXCEPT ![Len(nest)] = k] \in Seq(Kinds)
           /\ Len([nest EXCEPT ![Len(nest)] = k]) = Len(nest)
           /\ \A i \in 1..Len(nest) :
                [nest EXCEPT ![Len(nest)] = k][i] = IF i = Len(nest) THEN k ELSE nest[i]
  BY EmptySeq, ExceptSeq DEF TypeOK

-----------------------------------------------------------------------------
(* The invariant *)

\* A value or a closing bracket can be the last token but after a key.
LEMMA ClosedEnds ==
    ASSUME NEW n, n = <<>> \/ n[Len(n)] \in {"object", "array"}, NEW t \in Closed
    PROVE  t \in Ends(n)
  <1>1. t \in LastIn["object"] /\ t \in LastIn["array"]
    BY DEF LastIn
  <1>2. CASE n = <<>>
    BY <1>2 DEF Ends
  <1>3. CASE n # <<>> /\ n[Len(n)] = "object"
    BY <1>1, <1>3, Zenon DEF Ends
  <1>4. CASE n # <<>> /\ n[Len(n)] = "array"
    BY <1>1, <1>4, Zenon DEF Ends
  <1> QED
    BY <1>2, <1>3, <1>4

LEMMA WriterInvInit == Init => WriterInv
  BY DEF Init, WriterInv, TypeOK

LEMMA WriterInvStep == WriterInv /\ [Next]_vars => WriterInv'
  <1> SUFFICES ASSUME WriterInv, [Next]_vars
               PROVE  WriterInv'
    OBVIOUS
  <1>0. TypeOK /\ Separated \in Seq(Token) /\ out \in Seq(Token)
    BY SeparatedIsText DEF WriterInv, TypeOK
  <1>f. \A i \in 1..(Len(nest) - 1) : nest[i] # "member"
    BY DEF WriterInv
  <1>1. ASSUME NEW t \in Token, NEW s \in Seq(Token), out' = Append(s, t),
               first' \in BOOLEAN, first' <=> t \in {"{", "[", "key"},
               t \in Ends(nest'),
               nest' \in Seq(Kinds), \A i \in 1..(Len(nest') - 1) : nest'[i] # "member"
        PROVE  WriterInv'
    <2>1. out' \in Seq(Token) /\ out' # <<>> /\ out'[Len(out')] = t
      BY <1>1, Appended
    <2> QED
      BY <1>1, <2>1, Zenon DEF WriterInv, TypeOK
  <1> DEFINE NestOK(t) == /\ nest' \in Seq(Kinds)
                          /\ \A i \in 1..(Len(nest') - 1) : nest'[i] # "member"
                          /\ t \in Ends(nest')
  <1>2. ASSUME NEW k \in Kinds, nest' = Append(Filled, k), NEW t \in LastIn[k]
        PROVE  NestOK(t)
    <2>1. /\ Filled \in Seq(Kinds) /\ Len(Filled) = Len(nest) /\ Len(nest) \in Nat
          /\ \A i \in 1..(Len(nest) - 1) : Filled[i] = nest[i]
          /\ nest # <<>> => Filled[Len(nest)] = IF Inner = "member" THEN "object" ELSE Inner
      BY <1>0, FilledNest DEF TypeOK
    <2>2. /\ nest' \in Seq(Kinds) /\ Len(nest') = Len(nest) + 1
          /\ \A i \in 1..Len(nest) : nest'[i] = Filled[i]
      BY <1>2, <2>1, AppendProperties
    <2>3. nest = <<>> => Len(nest) = 0
      BY EmptySeq
    <2>4. \A i \in 1..Len(nest) : Filled[i] # "member"
      BY <1>f, <2>1, <2>3
    <2>5. nest' # <<>> /\ nest'[Len(nest')] = k
      BY <1>2, <2>1, <2>2, AppendProperties
    <2> QED
      BY <1>2, <2>1, <2>2, <2>4, <2>5 DEF Ends
  <1>3. ASSUME nest # <<>>, nest' = Outer, NEW t \in Closed
        PROVE  NestOK(t)
    <2>1. /\ nest' \in Seq(Kinds) /\ Len(nest') = Len(nest) - 1 /\ Len(nest) \in Nat \ {0}
          /\ \A i \in 1..(Len(nest) - 1) : nest'[i] = nest[i]
      BY <1>0, <1>3, OuterNest
    <2>2. \A i \in 1..Len(nest') : nest'[i] \in {"object", "array"}
      BY <1>f, <2>1 DEF Kinds
    <2>3. nest' # <<>> => nest'[Len(nest')] \in {"object", "array"}
      BY <2>1, <2>2, EmptySeq
    <2>4. t \in Ends(nest')
      BY <1>3, <2>3, ClosedEnds
    <2> QED
      BY <2>1, <2>2, <2>4
  <1>4. CASE start_object
    <2>1. NestOK("{")
      BY <1>2, <1>4 DEF start_object, Kinds, LastIn
    <2> QED
      BY <1>0, <1>1, <1>4, <2>1 DEF start_object, Token
  <1>5. CASE start_array
    <2>1. NestOK("[")
      BY <1>2, <1>5 DEF start_array, Kinds, LastIn
    <2> QED
      BY <1>0, <1>1, <1>5, <2>1 DEF start_array, Token
  <1>6. CASE end_object
    <2>1. NestOK("}")
      BY <1>3, <1>6 DEF end_object, Closed
    <2> QED
      BY <1>0, <1>1, <1>6, <2>1 DEF end_object, Token
  <1>7. CASE end_array
    <2>1. NestOK("]")
      BY <1>3, <1>7 DEF end_array, Closed
    <2> QED
      BY <1>0, <1>1, <1>7, <2>1 DEF end_array, Token
  <1>8. CASE key
    <2>1. "member" \in Kinds /\ nest # <<>> /\ Len(nest) \in Nat \ {0}
      BY <1>0, <1>8, EmptySeq DEF key, Kinds, TypeOK
    <2>2. /\ nest' \in Seq(Kinds) /\ Len(nest') = Len(nest)
          /\ \A i \in 1..Len(nest) : nest'[i] = IF i = Len(nest) THEN "member" ELSE nest[i]
      BY <1>0, <1>8, <2>1, KeyedNest DEF key
    <2>3. \A i \in 1..(Len(nest') - 1) : nest'[i] # "member"
      BY <1>f, <2>1, <2>2
    <2>4. nest' # <<>> /\ nest'[Len(nest')] = "member"
      BY <2>1, <2>2, EmptySeq
    <2>5. "key" \in Ends(nest')
      BY <2>4 DEF Ends, LastIn
    <2> QED
      BY <1>0, <1>1, <1>8, <2>2, <2>3, <2>5 DEF key, Token
  <1>9. CASE value
    <2>1. /\ nest' \in Seq(Kinds) /\ Len(nest') = Len(nest)
          /\ \A i \in 1..(Len(nest) - 1) : nest'[i] = nest[i]
          /\ nest # <<>> => nest'[Len(nest)] = IF Inner = "member" THEN "object" ELSE Inner
      BY <1>0, <1>9, FilledNest DEF value
    <2>2. \A i \in 1..(Len(nest') - 1) : nest'[i] # "member"
      BY <1>f, <2>1
    <2>3. nest # <<>> => Inner \in {"array", "member"}
      BY <1>9 DEF value, ValueDue
    <2>4. nest' # <<>> => nest # <<>>
      BY <1>0, <2>1, EmptySeq DEF TypeOK
    <2>5. nest' # <<>> => nest'[Len(nest')] \in {"object", "array"}
      BY <2>1, <2>3, <2>4
    <2>6. "scalar" \in Ends(nest')
      BY <2>5, ClosedEnds DEF Closed
    <2> QED
      BY <1>0, <1>1, <1>9, <2>1, <2>2, <2>6 DEF value, Token
  <1>10. CASE UNCHANGED vars
    BY <1>10 DEF vars, WriterInv, TypeOK
  <1> QED
    BY <1>4, <1>5, <1>6, <1>7, <1>8, <1>9, <1>10 DEF Next

THEOREM WriterInvariant == Spec => []WriterInv
  BY WriterInvInit, WriterInvStep, PTL DEF Spec

LEMMA Longer ==
    ASSUME NEW s \in Seq(Token), NEW t \in Token,
           \A i \in 1..(Len(s) - 1) : s[i + 1] \in Allowed[s[i]],
           s # <<>> => t \in Allowed[s[Len(s)]],
           NEW i \in 1..(Len(Append(s, t)) - 1)
    PROVE  Append(s, t)[i + 1] \in Allowed[Append(s, t)[i]]
  <1>1. Len(s) \in Nat
    BY LenProperties
  <1>2. /\ Len(Append(s, t)) = Len(s) + 1 /\ Append(s, t)[Len(s) + 1] = t
        /\ \A j \in 1..Len(s) : Append(s, t)[j] = s[j]
    BY AppendProperties
  <1>3. CASE i = Len(s)
    BY <1>1, <1>2, <1>3, EmptySeq
  <1>4. CASE i # Len(s)
    <2>1. i \in 1..(Len(s) - 1) /\ i \in 1..Len(s) /\ i + 1 \in 1..Len(s)
      BY <1>1, <1>2, <1>4
    <2> QED
      BY <1>2, <2>1
  <1> QED
    BY <1>3, <1>4

\* No separator is missing, doubled, leading or trailing in what a JsonWriter
\* writes, at any depth.
THEOREM SeparatorsRight == Spec => []SeparatorsAreRight
  <1> DEFINE Inv == WriterInv /\ SeparatorsAreRight
             Last == out[Len(out)]
  <1>1. Init => Inv
    <2>1. Init => out = <<>>
      BY DEF Init
    <2>2. Len(<<>>) = 0
      BY EmptySeq
    <2> QED
      BY <2>1, <2>2, WriterInvInit DEF SeparatorsAreRight
  <1>2. Inv /\ [Next]_vars => Inv'
    <2> SUFFICES ASSUME Inv, [Next]_vars PROVE SeparatorsAreRight'
      BY WriterInvStep
    <2>0. TypeOK /\ (out # <<>> => Last \in Ends(nest) /\ Last \in Token)
      <3>1. out \in Seq(Token)
        BY DEF WriterInv, TypeOK
      <3>2. out # <<>> => Last \in Token
        BY <3>1, EmptySeq
      <3> QED
        BY <3>2 DEF WriterInv
    <2>1. ASSUME NEW s \in Seq(Token), NEW t \in Token, out' = Append(s, t),
                 \A i \in 1..(Len(s) - 1) : s[i + 1] \in Allowed[s[i]],
                 s # <<>> => t \in Allowed[s[Len(s)]]
          PROVE  SeparatorsAreRight'
      BY <2>1, Longer DEF SeparatorsAreRight
    <2>2. ASSUME ~ first PROVE out # <<>> /\ Last \in Closed
      <3>1. out # <<>> /\ Last \notin {"{", "[", "key"}
        BY <2>2, Zenon DEF WriterInv
      <3>2. Last \in Ends(nest)
        BY <2>0, <3>1
      <3>3. CASE nest = <<>>
        BY <3>1, <3>2, <3>3 DEF Ends
      <3>4. CASE nest # <<>>
        <4>1. Inner \in Kinds
          BY <2>0, <3>4, EmptySeq DEF TypeOK, Inner
        <4>2. Last \in LastIn[Inner]
          BY <3>2, <3>4, Zenon DEF Ends, Inner
        <4>3. \A k \in Kinds : LastIn[k] \subseteq Closed \union {"{", "[", "key"}
          <5>1. /\ LastIn["object"] = Closed \union {"{"}
                /\ LastIn["array"] = Closed \union {"["}
                /\ LastIn["member"] = {"key"}
            BY DEF LastIn
          <5> QED
            BY <5>1, Zenon DEF Kinds
        <4> QED
          BY <3>1, <4>1, <4>2, <4>3
      <3> QED
        BY <3>3, <3>4
    <2>3. ASSUME NEW t \in Token, t \in Allowed[","], out' = Append(Separated, t),
                 first /\ out # <<>> => t \in Allowed[Last]
          PROVE  SeparatorsAreRight'
      <3>1. CASE first
        <4>1. out \in Seq(Token) /\ out' = Append(out, t)
          BY <2>0, <2>3, <3>1 DEF TypeOK, Separated
        <4> QED
          BY <2>1, <2>3, <3>1, <4>1 DEF SeparatorsAreRight
      <3>2. CASE ~ first
        <4> DEFINE S == Append(out, ",")
        <4>1. out \in Seq(Token) /\ "," \in Token
          BY DEF WriterInv, TypeOK, Token
        <4>2. S \in Seq(Token) /\ S[Len(S)] = ","
          BY <4>1, Appended
        <4>3. "," \in Allowed[Last]
          BY <2>2, <3>2 DEF Closed, Allowed, Token
        <4>4. \A i \in 1..(Len(S) - 1) : S[i + 1] \in Allowed[S[i]]
          <5> SUFFICES ASSUME NEW i \in 1..(Len(S) - 1) PROVE S[i + 1] \in Allowed[S[i]]
            OBVIOUS
          <5> QED
            BY <4>1, <4>3, Longer DEF SeparatorsAreRight
        <4>5. out' = Append(S, t)
          BY <2>3, <3>2 DEF Separated
        <4> HIDE DEF S
        <4> QED
          BY <2>1, <2>3, <4>2, <4>4, <4>5
      <3> QED
        BY <3>1, <3>2
    \* Where the caller is tells which opening token the last one is.
    <2>4. ASSUME first, out # <<>>
          PROVE  Last = CASE Inner = "object" -> "{" [] Inner = "array" -> "["
                          [] Inner = "member" -> "key"
      <3>1. nest # <<>> /\ Inner \in Kinds
        <4>1. Last \in {"{", "[", "key"} /\ Last \in Ends(nest)
          BY <2>0, <2>4 DEF WriterInv
        <4>2. nest # <<>>
          BY <4>1 DEF Ends, Closed
        <4> QED
          BY <2>0, <4>2, EmptySeq DEF TypeOK, Inner
      <3>2. Last \in {"{", "[", "key"} /\ Last \in LastIn[Inner]
        BY <2>0, <2>4, <3>1 DEF WriterInv, Ends, Inner
      <3> QED
        <4>1. CASE Inner = "object"
          BY <3>2, <4>1 DEF LastIn, Closed
        <4>2. CASE Inner = "array"
          BY <3>2, <4>2 DEF LastIn, Closed
        <4>3. CASE Inner = "member"
          BY <3>2, <4>3 DEF LastIn, Closed
        <4> HIDE DEF Last
        <4> QED
          BY <3>1, <4>1, <4>2, <4>3 DEF Kinds
    <2>5. ASSUME ValueDue, first, out # <<>> PROVE Last \in {"[", "key"}
      BY <2>4, <2>5 DEF ValueDue, WriterInv
    <2>6. ASSUME NEW t \in {"}", "]"}, out' = Append(out, t), nest # <<>>,
                 Inner = IF t = "}" THEN "object" ELSE "array"
          PROVE  SeparatorsAreRight'
      <3>1. out \in Seq(Token) /\ t \in Token
        BY <2>0 DEF TypeOK, Token
      <3>2. out # <<>> => Last \in LastIn[Inner]
        BY <2>0, <2>6 DEF Ends, Inner
      <3>3. out # <<>> => t \in Allowed[Last]
        BY <2>6, <3>2 DEF LastIn, Closed, Allowed, Token
      <3> QED
        BY <2>1, <2>6, <3>1, <3>3 DEF SeparatorsAreRight
    <2>7. CASE start_object
      BY <2>3, <2>5, <2>7 DEF start_object, Token, Allowed, Start
    <2>8. CASE start_array
      BY <2>3, <2>5, <2>8 DEF start_array, Token, Allowed, Start
    <2>9. CASE end_object
      BY <2>6, <2>9 DEF end_object
    <2>10. CASE end_array
      BY <2>6, <2>10 DEF end_array
    <2>11. CASE key
      <3>1. first /\ out # <<>> => Last = "{"
        BY <2>4, <2>11 DEF key
      <3> QED
        BY <2>3, <2>11, <3>1 DEF key, Token, Allowed
    <2>12. CASE value
      BY <2>3, <2>5, <2>12 DEF value, Token, Allowed, Start
    <2>13. CASE UNCHANGED vars
      BY <2>13 DEF vars, SeparatorsAreRight
    <2> QED
      BY <2>7, <2>8, <2>9, <2>10, <2>11, <2>12, <2>13 DEF Next
  <1> QED
    BY <1>1, <1>2, WriterInvStep, PTL DEF Spec

-----------------------------------------------------------------------------
(* The refinement *)

Containers == {"new object", "object", "new array", "array", "member"}

LEMMA NewIs ==
    /\ New["object"] = "new object" /\ New["array"] = "new array"
    /\ New["member"] = "member"
  BY DEF New

\* Two sequences are the same if their last elements are, and those before.
LEMMA SameButLast ==
    ASSUME NEW S, NEW s \in Seq(S), NEW t \in Seq(S), Len(s) = Len(t),
           \A i \in 1..(Len(s) - 1) : s[i] = t[i],
           s # <<>> => s[Len(s)] = t[Len(s)]
    PROVE  s = t
  <1>1. Len(s) \in Nat /\ (s = <<>> => Len(s) = 0)
    BY LenProperties, EmptySeq
  <1>2. ASSUME NEW i \in 1..Len(s) PROVE s[i] = t[i]
    BY <1>1
  <1> QED
    BY <1>2, SeqEqual

LEMMA OpenIs ==
    ASSUME TypeOK
    PROVE  /\ nest \in Seq(Containers) /\ Len(nest) \in Nat
           /\ nest # <<>> => Len(nest) \in Nat \ {0} /\ Inner \in Kinds
           /\ Open \in Seq(Containers) /\ Len(Open) = Len(nest)
           /\ \A i \in 1..(Len(nest) - 1) : Open[i] = nest[i]
           /\ nest # <<>> =>
                Open[Len(nest)] = IF first THEN New[Inner] ELSE Inner
           /\ (Open = <<>>) <=> (nest = <<>>)
  <1>1. nest \in Seq(Kinds) /\ nest \in Seq(Containers) /\ Len(nest) \in Nat
    <2>1. Kinds \subseteq Containers
      BY DEF Kinds, Containers
    <2> QED
      BY <2>1, SeqMonotonic, LenProperties DEF TypeOK
  <1>2. nest # <<>> => Len(nest) \in 1..Len(nest) /\ Inner \in Kinds
    BY <1>1, EmptySeq DEF Inner
  <1>3. nest # <<>> => New[Inner] \in Containers
    BY <1>2, NewIs DEF Kinds, Containers
  <1>4. CASE first /\ nest # <<>>
    <2>1. Open = [nest EXCEPT ![Len(nest)] = New[Inner]]
      BY <1>4 DEF Open
    <2>2. /\ Open \in Seq(Containers) /\ Len(Open) = Len(nest)
          /\ \A j \in 1..Len(nest) : Open[j] = IF j = Len(nest) THEN New[Inner] ELSE nest[j]
      BY <1>1, <1>2, <1>3, <1>4, <2>1, ExceptSeq
    <2>3. Open # <<>>
      BY <1>1, <1>2, <1>4, <2>2, EmptySeq
    <2> QED
      BY <1>1, <1>2, <1>4, <2>2, <2>3
  <1>5. CASE ~ (first /\ nest # <<>>)
    <2>1. Open = nest
      BY <1>5 DEF Open
    <2> QED
      BY <1>1, <1>2, <1>5, <2>1 DEF Inner
  <1> QED
    BY <1>4, <1>5

\* After a key the flag is set: its value is not separated from it.
LEMMA MemberIsFirst == WriterInv /\ nest # <<>> /\ Inner = "member" => first
  <1> SUFFICES ASSUME WriterInv, nest # <<>>, Inner = "member" PROVE first
    OBVIOUS
  <1>1. out # <<>> /\ out[Len(out)] \in Ends(nest)
    BY DEF WriterInv
  <1>2. out[Len(out)] = "key"
    BY <1>1 DEF Ends, LastIn, Inner
  <1> QED
    BY <1>2, Zenon DEF WriterInv

\* Both writers separate, or neither.
LEMMA SameElement ==
    ASSUME WriterInv, NEW token, out' = Append(Separated, token),
           nest = <<>> => out = <<>>
    PROVE  Text!Element(token)
  <1>1. TypeOK
    BY DEF WriterInv
  <1>2. CASE nest = <<>>
    <2>1. first /\ Open = <<>>
      BY <1>1, <1>2, OpenIs DEF WriterInv
    <2> QED
      BY <2>1 DEF Separated, Text!Element
  <1>3. CASE nest # <<>>
    <2>1. Text!Top = (IF first THEN New[Inner] ELSE Inner) /\ Inner \in Kinds /\ Open # <<>>
      BY <1>1, <1>3, OpenIs DEF Text!Top
    <2>2. (Text!Top \in Text!Unseparated) <=> first
      <3>1. Inner = "member" => first
        BY <1>3, MemberIsFirst
      <3> QED
        BY <2>1, <3>1, NewIs DEF Kinds, Text!Unseparated
    <2> QED
      BY <2>1, <2>2 DEF Separated, Text!Element
  <1> QED
    BY <1>2, <1>3

\* Both expect a value at the same places.
LEMMA SameValueDue == ASSUME WriterInv, ValueDue PROVE Text!ValueExpected
  <1>1. TypeOK
    BY DEF WriterInv
  <1>2. CASE nest = <<>>
    BY <1>1, <1>2, OpenIs DEF ValueDue, Text!ValueExpected
  <1>3. CASE nest # <<>>
    <2>1. Text!Top = (IF first THEN New[Inner] ELSE Inner) /\ Open # <<>>
      BY <1>1, <1>3, OpenIs DEF Text!Top
    <2>2. Inner \in {"array", "member"}
      BY <1>3 DEF ValueDue
    <2> QED
      BY <2>1, <2>2, NewIs DEF Text!ValueExpected, Text!Arrays
  <1> QED
    BY <1>2, <1>3

\* A value written, the innermost container is not new.
LEMMA SamePlace == ASSUME WriterInv, ValueDue PROVE Text!Place = Filled /\ Filled \in Seq(Containers)
  <1>1. TypeOK
    BY DEF WriterInv
  <1>2. /\ Filled \in Seq(Kinds) /\ Len(Filled) = Len(nest)
        /\ \A i \in 1..(Len(nest) - 1) : Filled[i] = nest[i]
        /\ nest # <<>> => Filled[Len(nest)] = IF Inner = "member" THEN "object" ELSE Inner
    BY <1>1, FilledNest
  <1>3. Filled \in Seq(Containers)
    <2>1. Kinds \subseteq Containers
      BY DEF Kinds, Containers
    <2> QED
      BY <1>2, <2>1, SeqMonotonic
  <1>4. CASE nest = <<>>
    <2>1. Open = <<>> /\ Filled = <<>>
      BY <1>1, <1>4, OpenIs DEF Filled
    <2> QED
      BY <1>3, <2>1 DEF Text!Place
  <1>5. CASE nest # <<>>
    <2> DEFINE c == IF Text!Top \in Text!Arrays THEN "array" ELSE "object"
    <2>1. /\ Open \in Seq(Containers) /\ Len(Open) = Len(nest) /\ Len(nest) \in 1..Len(nest)
          /\ \A i \in 1..(Len(nest) - 1) : Open[i] = nest[i]
          /\ Open # <<>>
      BY <1>1, <1>5, OpenIs
    <2>2. Text!Top = (IF first THEN New[Inner] ELSE Inner) /\ Inner \in {"array", "member"}
      BY <1>1, <1>5, OpenIs DEF Text!Top, ValueDue
    <2>3. c \in Containers /\ c = IF Inner = "member" THEN "object" ELSE Inner
      BY <2>2, NewIs DEF Text!Arrays, Containers
    <2>4. Text!Place = [Open EXCEPT ![Len(Open)] = c]
      BY <2>1 DEF Text!Place
    <2> HIDE DEF c
    <2>5. /\ Text!Place \in Seq(Containers) /\ Len(Text!Place) = Len(nest)
          /\ \A i \in 1..Len(nest) : Text!Place[i] = IF i = Len(nest) THEN c ELSE Open[i]
      BY <2>1, <2>3, <2>4, ExceptSeq
    <2>6. /\ \A i \in 1..(Len(nest) - 1) : Text!Place[i] = Filled[i]
          /\ Text!Place[Len(nest)] = Filled[Len(nest)]
      BY <1>2, <1>5, <2>1, <2>3, <2>5
    <2> QED
      BY <1>2, <1>3, <2>5, <2>6, SameButLast
  <1> QED
    BY <1>4, <1>5

\* A new innermost container.
LEMMA SameBegin ==
    ASSUME WriterInv, ValueDue, NEW k \in {"object", "array"}, NEW token,
           out' = Append(Separated, token), first' = TRUE, nest' = Append(Filled, k)
    PROVE  Text!Begin(token, New[k])
  <1>1. Text!ValueExpected /\ Text!Element(token)
    BY SameValueDue, SameElement DEF ValueDue
  <1>2. Text!Place = Filled /\ Filled \in Seq(Containers)
    BY SamePlace
  <1>3. k \in Containers /\ New[k] \in Containers
    BY NewIs DEF Containers
  <1> DEFINE n == Append(Filled, k)
             m == Append(Filled, New[k])
  <1>4. /\ n \in Seq(Containers) /\ n # <<>> /\ Len(n) = Len(Filled) + 1
        /\ n[Len(Filled) + 1] = k /\ \A i \in 1..Len(Filled) : n[i] = Filled[i]
        /\ m \in Seq(Containers) /\ Len(m) = Len(Filled) + 1
        /\ m[Len(Filled) + 1] = New[k] /\ \A i \in 1..Len(Filled) : m[i] = Filled[i]
        /\ Len(Filled) \in Nat
    BY <1>2, <1>3, AppendProperties, LenProperties
  <1>5. Open' = [n EXCEPT ![Len(n)] = New[k]]
    <2>1. nest' = n /\ first' /\ n # <<>> /\ n[Len(n)] = k
      BY <1>4
    <2> HIDE DEF n
    <2> QED
      BY <2>1 DEF Open, Inner
  <1> HIDE DEF n, m
  <1>6. /\ Open' \in Seq(Containers) /\ Len(Open') = Len(n)
        /\ \A i \in 1..Len(n) : (Open')[i] = IF i = Len(n) THEN New[k] ELSE n[i]
    <2>1. Len(n) \in 1..Len(n)
      BY <1>4
    <2> QED
      BY <1>3, <1>4, <1>5, <2>1, ExceptSeq
  <1>7. Open' = m
    <2>1. /\ \A i \in 1..(Len(Open') - 1) : (Open')[i] = m[i]
          /\ (Open')[Len(Open')] = m[Len(Open')]
      BY <1>4, <1>6
    <2> QED
      BY <1>4, <1>6, <2>1, SameButLast
  <1> QED
    BY <1>1, <1>2, <1>7 DEF Text!Begin, m

\* The innermost container closed.
LEMMA SameEnd ==
    ASSUME WriterInv, nest # <<>>, NEW token, NEW containers,
           {Inner, New[Inner]} \subseteq containers,
           out' = Append(out, token), first' = FALSE, nest' = Outer
    PROVE  Text!End(token, containers)
  <1>1. TypeOK
    BY DEF WriterInv
  <1>2. /\ Open \in Seq(Containers) /\ Len(Open) = Len(nest) /\ Len(nest) \in Nat \ {0}
        /\ \A i \in 1..(Len(nest) - 1) : Open[i] = nest[i]
        /\ Open # <<>> /\ Text!Top \in containers
    BY <1>1, OpenIs DEF Text!Top
  <1>3. Open' = Outer
    BY DEF Open
  <1>4. /\ Outer \in Seq(Kinds) /\ Len(Outer) = Len(nest) - 1
        /\ \A i \in 1..(Len(nest) - 1) : Outer[i] = nest[i]
    BY <1>1, OuterNest
  <1>5. Outer \in Seq(Containers)
    <2>1. Kinds \subseteq Containers
      BY DEF Kinds, Containers
    <2> QED
      BY <1>4, <2>1, SeqMonotonic
  <1> DEFINE L == Len(nest) - 1
             T == SubSeq(Open, 1, L)
  <1>6. L \in Nat /\ L - 1 + 1 = L /\ (1 <= L \/ L = 0)
    BY <1>2
  <1>7. \A i \in 1..L : Open[i] \in Containers
    BY <1>2
  <1> HIDE DEF L
  <1>8. /\ T \in Seq(Containers) /\ Len(T) = L
        /\ \A i \in 1..L : T[i] = Open[1 + i - 1]
    <2>1. /\ T \in Seq(Containers) /\ Len(T) = IF 1 <= L THEN L - 1 + 1 ELSE 0
          /\ \A i \in 1..(L - 1 + 1) : T[i] = Open[1 + i - 1]
      BY <1>6, <1>7, SubSeqProperties
    <2> HIDE DEF T
    <2> QED
      BY <1>6, <2>1
  <1> HIDE DEF T
  <1>9. \A i \in 1..L : T[i] = Outer[i]
    BY <1>2, <1>4, <1>8 DEF L
  <1>10. T = Outer
    <2>1. Len(T) = Len(Outer) /\ \A i \in 1..Len(T) : T[i] = Outer[i]
      BY <1>4, <1>8, <1>9 DEF L
    <2> QED
      BY <1>5, <1>8, <2>1, SeqEqual
  <1> QED
    BY <1>2, <1>3, <1>10 DEF Text!End, T, L

LEMMA SameName == ASSUME WriterInv, key PROVE Text!Name
  <1>1. TypeOK /\ nest # <<>> /\ Inner = "object"
    BY DEF WriterInv, key
  <1>2. /\ Open \in Seq(Containers) /\ Len(Open) = Len(nest) /\ Len(nest) \in 1..Len(nest)
        /\ nest \in Seq(Containers)
        /\ \A i \in 1..(Len(nest) - 1) : Open[i] = nest[i]
        /\ Open # <<>> /\ Text!Top = IF first THEN New[Inner] ELSE Inner
    BY <1>1, OpenIs DEF Text!Top
  <1>3. Text!Top \in Text!Objects
    BY <1>1, <1>2, NewIs DEF Text!Objects
  <1>4. Text!Element("key")
    BY <1>1, SameElement DEF key
  <1> DEFINE n == [nest EXCEPT ![Len(nest)] = "member"]
             m == [Open EXCEPT ![Len(Open)] = "member"]
  <1>5. /\ n \in Seq(Containers) /\ Len(n) = Len(nest)
        /\ \A i \in 1..Len(nest) : n[i] = IF i = Len(nest) THEN "member" ELSE nest[i]
        /\ m \in Seq(Containers) /\ Len(m) = Len(nest)
        /\ \A i \in 1..Len(nest) : m[i] = IF i = Len(nest) THEN "member" ELSE Open[i]
    <2>1. "member" \in Containers
      BY DEF Containers
    <2> QED
      BY <1>2, <2>1, ExceptSeq
  <1>6. Open' = [n EXCEPT ![Len(n)] = New["member"]]
    <2>1. nest' = n /\ first' /\ n # <<>> /\ n[Len(n)] = "member"
      BY <1>2, <1>5, EmptySeq DEF key
    <2> HIDE DEF n
    <2> QED
      BY <2>1 DEF Open, Inner
  <1> HIDE DEF n, m
  <1>7. /\ Open' \in Seq(Containers) /\ Len(Open') = Len(nest)
        /\ \A i \in 1..Len(nest) : (Open')[i] = IF i = Len(nest) THEN "member" ELSE n[i]
    <2>1. New["member"] = "member" /\ "member" \in Containers
      BY NewIs DEF Containers
    <2> QED
      BY <1>2, <1>5, <1>6, <2>1, ExceptSeq
  <1>8. Open' = m
    <2>1. \A i \in 1..Len(nest) : (Open')[i] = m[i]
      <3> SUFFICES ASSUME NEW i \in 1..Len(nest) PROVE (Open')[i] = m[i]
        OBVIOUS
      <3>1. CASE i = Len(nest)
        BY <1>5, <1>7, <3>1
      <3>2. CASE i # Len(nest)
        <4>1. i \in 1..(Len(nest) - 1)
          BY <1>2, <3>2
        <4> QED
          BY <1>2, <1>5, <1>7, <3>2, <4>1
      <3> QED
        BY <3>1, <3>2
    <2> QED
      BY <1>5, <1>7, <2>1, SeqEqual
  <1> QED
    BY <1>2, <1>3, <1>4, <1>8 DEF Text!Name, m

LEMMA SameScalar == ASSUME WriterInv, value PROVE Text!Scalar
  <1>1. Text!ValueExpected /\ Text!Element("scalar")
    BY SameValueDue, SameElement DEF value, ValueDue
  <1>2. Open' = Filled
    BY DEF value, Open
  <1> QED
    BY <1>1, <1>2, SamePlace DEF Text!Scalar, value

\* One flag does what a stack would: a JsonWriter writes JSON, whatever is
\* nested in whatever, and however deep.
THEOREM WriterImplementsText == Spec => WritesJson
  <1>1. Init => Text!Init
    <2> SUFFICES ASSUME Init PROVE Text!Init
      OBVIOUS
    <2>1. Open = <<>>
      BY DEF Init, Open
    <2> QED
      BY <2>1 DEF Init, Text!Init
  <1>2. WriterInv /\ [Next]_vars => [Text!Next]_<<out, Open>>
    <2> SUFFICES ASSUME WriterInv, [Next]_vars PROVE [Text!Next]_<<out, Open>>
      OBVIOUS
    <2>1. CASE start_object
      BY <2>1, SameBegin, NewIs DEF start_object, Text!Next
    <2>2. CASE start_array
      BY <2>2, SameBegin, NewIs DEF start_array, Text!Next
    <2>3. CASE end_object
      <3>1. {Inner, New[Inner]} \subseteq Text!Objects
        BY <2>3, NewIs DEF end_object, Text!Objects
      <3> QED
        BY <2>3, <3>1, SameEnd DEF end_object, Text!Next
    <2>4. CASE end_array
      <3>1. {Inner, New[Inner]} \subseteq Text!Arrays
        BY <2>4, NewIs DEF end_array, Text!Arrays
      <3> QED
        BY <2>4, <3>1, SameEnd DEF end_array, Text!Next
    <2>5. CASE key
      BY <2>5, SameName DEF Text!Next
    <2>6. CASE value
      BY <2>6, SameScalar DEF Text!Next
    <2>7. CASE UNCHANGED vars
      BY <2>7 DEF vars, Open, Inner
    <2> QED
      BY <2>1, <2>2, <2>3, <2>4, <2>5, <2>6, <2>7 DEF Next
  <1> QED
    BY <1>1, <1>2, WriterInvariant, PTL DEF Spec, WritesJson, Text!Spec
==============================================================================
