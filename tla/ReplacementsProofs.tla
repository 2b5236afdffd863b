--------------------------- MODULE ReplacementsProofs ---------------------------
(***************************************************************************)
(* Replacements in a payload are local, for every payload, however deep,   *)
(* and every pointer.  JSON values have no type here: what the code does   *)
(* depends only on whether a value is a map, an array or neither.  The     *)
(* proofs are by induction along the tokens of a pointer, in the form      *)
(* NatInSet: the set of the lengths for which something holds is all of    *)
(* Nat.                                                                    *)
(***************************************************************************)
EXTENDS Replacements, FiniteSetTheorems, SequenceTheorems, WellFoundedInduction, TLAPS

\* What texts are made of: the provers do not know of a literal that it is a string.
Symbols == STRING \cup {"~", "/", "0", "1"}

LEMMA TextsOfStrings == Seq(STRING) \subseteq Seq(Symbols)
  <1> SUFFICES ASSUME NEW s \in Seq(STRING) PROVE s \in Seq(Symbols)
    OBVIOUS
  <1>1. Len(s) \in Nat /\ DOMAIN s = 1..Len(s) /\ \A k \in 1..Len(s) : s[k] \in STRING
    BY LenProperties, ElementOfSeq
  <1>2. s \in [1..Len(s) -> Symbols]
    <2>1. s = [k \in 1..Len(s) |-> s[k]]
      BY <1>1
    <2> QED
      BY <1>1, <2>1 DEF Symbols
  <1> QED
    BY <1>1, <1>2, SeqDef


LEMMA NatInSet ==
    ASSUME NEW S, 0 \in S, \A n \in Nat : n \in S => n + 1 \in S
    PROVE  Nat \subseteq S
  <1> DEFINE T == Nat \ S
             R == {ss \in Nat \X Nat : ss[1] < ss[2]}
  <1> SUFFICES ASSUME T # {} PROVE FALSE
    OBVIOUS
  <1>1. IsWellFoundedOn(R, Nat)
    BY NatLessThanWellFounded, Zenon DEF OpToRel
  <1>2. PICK i \in T : \A j \in T : <<j, i>> \notin R
    <2> HIDE DEF R
    <2> QED
      BY <1>1, WFMin
  <1>3. i \in Nat /\ i \notin S /\ i # 0
    BY <1>2
  <1>4. i - 1 \in Nat /\ i = (i - 1) + 1
    BY <1>3
  <1>5. i - 1 \in T
    BY <1>3, <1>4
  <1>6. <<i - 1, i>> \notin R
    BY <1>2, <1>5
  <1>7. <<i - 1, i>> \in Nat \X Nat /\ <<i - 1, i>>[1] < <<i - 1, i>>[2]
    BY <1>3, <1>4
  <1> QED
    BY <1>6, <1>7

-----------------------------------------------------------------------------
(* The functions of Expressions that go along the tokens *)

\* One step further, for those that look and for those that replace.
ChildOf(r, token) == IF IsOk(r) THEN Child(r[2], token) ELSE Failed
SlotOf(r, token)  == IF IsOk(r) THEN Slot(r[2], token) ELSE Failed

\* Reach is the function that its definition asks for.
LEMMA ReachIs ==
    ASSUME NEW v, NEW tokens, Len(tokens) \in Nat
    PROVE  /\ Reach(v, tokens)[0] = Ok(v)
           /\ \A k \in 1..Len(tokens) : Reach(v, tokens)[k] = ChildOf(Reach(v, tokens)[k - 1], tokens[k])
  <1> DEFINE Right(g, m) ==
                 g = [k \in 0..m |-> IF k = 0 THEN Ok(v) ELSE ChildOf(g[k - 1], tokens[k])]
             S == {m \in Nat : \E g : Right(g, m)}
  <1>1. 0 \in S
    <2> DEFINE g == [k \in 0..0 |-> Ok(v)]
    <2>1. Right(g, 0)
      OBVIOUS
    <2> QED
      BY <2>1
  <1>2. ASSUME NEW m \in Nat, m \in S PROVE m + 1 \in S
    <2>1. PICK g : Right(g, m)
      BY <1>2
    <2> DEFINE h == [k \in 0..(m + 1) |-> IF k = m + 1 THEN ChildOf(g[m], tokens[m + 1]) ELSE g[k]]
    <2>2. ASSUME NEW k \in 0..(m + 1)
          PROVE  h[k] = IF k = 0 THEN Ok(v) ELSE ChildOf(h[k - 1], tokens[k])
      <3>1. CASE k = 0
        BY <2>1, <3>1
      <3>2. CASE k = m + 1
        <4>1. h[m] = g[m] /\ h[k] = ChildOf(g[m], tokens[m + 1]) /\ k - 1 = m /\ k # 0
          BY <3>2
        <4> QED
          BY <3>2, <4>1
      <3>3. CASE k \in 1..m
        <4>1. h[k] = g[k] /\ h[k - 1] = g[k - 1] /\ k \in 0..m
          BY <3>3
        <4>2. g[k] = ChildOf(g[k - 1], tokens[k])
          BY <2>1, <3>3, <4>1
        <4> QED
          BY <3>3, <4>1, <4>2
      <3> QED
        BY <3>1, <3>2, <3>3
    <2>3. Right(h, m + 1)
      <3>1. h = [k \in 0..(m + 1) |-> h[k]]
        OBVIOUS
      <3> HIDE DEF h
      <3> QED
        BY <2>2, <3>1
    <2>4. \E f : Right(f, m + 1)
      <3> HIDE DEF Right, h
      <3> QED
        BY <2>3
    <2> HIDE DEF Right
    <2> QED
      BY <2>4
  <1>3. \E g : Right(g, Len(tokens))
    <2> HIDE DEF S
    <2>1. Len(tokens) \in S
      BY <1>1, <1>2, NatInSet
    <2> QED
      BY <2>1 DEF S
  <1>4. Reach(v, tokens) = CHOOSE g : Right(g, Len(tokens))
    BY Zenon DEF Reach, Then, ChildOf
  <1>5. Right(Reach(v, tokens), Len(tokens))
    <2> HIDE DEF Right
    <2> QED
      BY <1>3, <1>4
  <1> DEFINE r == Reach(v, tokens)
  <1>6. r = [k \in 0..Len(tokens) |-> IF k = 0 THEN Ok(v) ELSE ChildOf(r[k - 1], tokens[k])]
    BY <1>5
  <1> HIDE DEF r
  <1>7. \A k \in 0..Len(tokens) : r[k] = IF k = 0 THEN Ok(v) ELSE ChildOf(r[k - 1], tokens[k])
    BY <1>6
  <1> QED
    BY <1>7 DEF r

\* So is Slots.
LEMMA SlotsIs ==
    ASSUME NEW v, NEW tokens, Len(tokens) \in Nat
    PROVE  /\ Slots(v, tokens)[0] = Ok(v)
           /\ \A k \in 1..Len(tokens) : Slots(v, tokens)[k] = SlotOf(Slots(v, tokens)[k - 1], tokens[k])
  <1> DEFINE Right(g, m) ==
                 g = [k \in 0..m |-> IF k = 0 THEN Ok(v) ELSE SlotOf(g[k - 1], tokens[k])]
             S == {m \in Nat : \E g : Right(g, m)}
  <1>1. 0 \in S
    <2> DEFINE g == [k \in 0..0 |-> Ok(v)]
    <2>1. Right(g, 0)
      OBVIOUS
    <2> QED
      BY <2>1
  <1>2. ASSUME NEW m \in Nat, m \in S PROVE m + 1 \in S
    <2>1. PICK g : Right(g, m)
      BY <1>2
    <2> DEFINE h == [k \in 0..(m + 1) |-> IF k = m + 1 THEN SlotOf(g[m], tokens[m + 1]) ELSE g[k]]
    <2>2. ASSUME NEW k \in 0..(m + 1)
          PROVE  h[k] = IF k = 0 THEN Ok(v) ELSE SlotOf(h[k - 1], tokens[k])
      <3>1. CASE k = 0
        BY <2>1, <3>1
      <3>2. CASE k = m + 1
        <4>1. h[m] = g[m] /\ h[k] = SlotOf(g[m], tokens[m + 1]) /\ k - 1 = m /\ k # 0
          BY <3>2
        <4> QED
          BY <3>2, <4>1
      <3>3. CASE k \in 1..m
        <4>1. h[k] = g[k] /\ h[k - 1] = g[k - 1] /\ k \in 0..m
          BY <3>3
        <4>2. g[k] = SlotOf(g[k - 1], tokens[k])
          BY <2>1, <3>3, <4>1
        <4> QED
          BY <3>3, <4>1, <4>2
      <3> QED
        BY <3>1, <3>2, <3>3
    <2>3. Right(h, m + 1)
      <3>1. h = [k \in 0..(m + 1) |-> h[k]]
        OBVIOUS
      <3> HIDE DEF h
      <3> QED
        BY <2>2, <3>1
    <2>4. \E f : Right(f, m + 1)
      <3> HIDE DEF Right, h
      <3> QED
        BY <2>3
    <2> HIDE DEF Right
    <2> QED
      BY <2>4
  <1>3. \E g : Right(g, Len(tokens))
    <2> HIDE DEF S
    <2>1. Len(tokens) \in S
      BY <1>1, <1>2, NatInSet
    <2> QED
      BY <2>1 DEF S
  <1>4. Slots(v, tokens) = CHOOSE g : Right(g, Len(tokens))
    BY Zenon DEF Slots, Then, SlotOf
  <1>5. Right(Slots(v, tokens), Len(tokens))
    <2> HIDE DEF Right
    <2> QED
      BY <1>3, <1>4
  <1> DEFINE r == Slots(v, tokens)
  <1>6. r = [k \in 0..Len(tokens) |-> IF k = 0 THEN Ok(v) ELSE SlotOf(r[k - 1], tokens[k])]
    BY <1>5
  <1> HIDE DEF r
  <1>7. \A k \in 0..Len(tokens) : r[k] = IF k = 0 THEN Ok(v) ELSE SlotOf(r[k - 1], tokens[k])
    BY <1>6
  <1> QED
    BY <1>7 DEF r

\* And Made, which goes from the last token to the first.
LEMMA MadeIs ==
    ASSUME NEW slots, NEW tokens, NEW new, Len(tokens) \in Nat
    PROVE  /\ Made(slots, tokens, new)[Len(tokens)] = new
           /\ \A k \in 0..(Len(tokens) - 1) :
                 Made(slots, tokens, new)[k] = With(slots[k][2], tokens[k + 1], Made(slots, tokens, new)[k + 1])
  <1> DEFINE n == Len(tokens)
             Right(g, m) ==
                 g = [k \in (n - m)..n |-> IF k = n THEN new ELSE With(slots[k][2], tokens[k + 1], g[k + 1])]
             S == {m \in Nat : \E g : Right(g, m)}
  <1>n. n \in Nat
    OBVIOUS
  <1> HIDE DEF n
  <1>1. 0 \in S
    <2> DEFINE g == [k \in (n - 0)..n |-> new]
    <2>1. Right(g, 0)
      BY <1>n
    <2> QED
      BY <2>1
  <1>2. ASSUME NEW m \in Nat, m \in S PROVE m + 1 \in S
    <2>1. PICK g : Right(g, m)
      BY <1>2
    <2> DEFINE i == n - (m + 1)
               h == [k \in i..n |-> IF k = i THEN With(slots[i][2], tokens[i + 1], g[i + 1]) ELSE g[k]]
    <2>i. i \in Int /\ i + 1 = n - m /\ i < n
      BY <1>n
    <2> HIDE DEF i
    <2>2. ASSUME NEW k \in i..n
          PROVE  h[k] = IF k = n THEN new ELSE With(slots[k][2], tokens[k + 1], h[k + 1])
      <3>1. CASE k = i
        <4>1. h[i + 1] = g[i + 1] /\ h[i] = With(slots[i][2], tokens[i + 1], g[i + 1])
          BY <2>i, <1>n
        <4> QED
          BY <3>1, <4>1, <2>i
      <3>2. CASE k = n
        <4>1. h[n] = g[n] /\ n \in (n - m)..n
          BY <2>i, <1>n
        <4>2. g[n] = new
          BY <2>1, <4>1
        <4> QED
          BY <3>2, <4>1, <4>2
      <3>3. CASE k # i /\ k # n
        <4>1. h[k] = g[k] /\ h[k + 1] = g[k + 1] /\ k \in (n - m)..n
          BY <3>3, <2>i, <1>n
        <4>2. g[k] = With(slots[k][2], tokens[k + 1], g[k + 1])
          BY <2>1, <3>3, <4>1
        <4> QED
          BY <3>3, <4>1, <4>2
      <3> QED
        BY <3>1, <3>2, <3>3
    <2>3. Right(h, m + 1)
      <3>1. h = [k \in i..n |-> h[k]]
        OBVIOUS
      <3> HIDE DEF h
      <3>2. h = [k \in i..n |-> IF k = n THEN new ELSE With(slots[k][2], tokens[k + 1], h[k + 1])]
        BY <2>2, <3>1
      <3> QED
        BY <3>2 DEF i
    <2>4. \E f : Right(f, m + 1)
      <3> HIDE DEF Right, h
      <3> QED
        BY <2>3
    <2> HIDE DEF Right
    <2> QED
      BY <2>4
  <1>3. \E g : Right(g, n)
    <2> HIDE DEF S
    <2>1. n \in S
      BY <1>1, <1>2, <1>n, NatInSet
    <2> QED
      BY <2>1 DEF S
  <1> DEFINE Good(g) == g = [k \in 0..n |-> IF k = n THEN new ELSE With(slots[k][2], tokens[k + 1], g[k + 1])]
  <1>4. PICK f : Good(f)
    <2>1. n - n = 0
      BY <1>n
    <2> QED
      BY <1>3, <2>1
  <1>5. Made(slots, tokens, new) = CHOOSE g : Good(g)
    BY Zenon DEF Made, n
  <1>6. Good(Made(slots, tokens, new))
    <2> HIDE DEF Good
    <2> QED
      BY <1>4, <1>5
  <1> DEFINE r == Made(slots, tokens, new)
  <1>7. r = [k \in 0..n |-> IF k = n THEN new ELSE With(slots[k][2], tokens[k + 1], r[k + 1])]
    BY <1>6
  <1> HIDE DEF r
  <1>8. \A k \in 0..n : r[k] = IF k = n THEN new ELSE With(slots[k][2], tokens[k + 1], r[k + 1])
    BY <1>7
  <1>9. r[n] = new /\ \A k \in 0..(n - 1) : r[k] = With(slots[k][2], tokens[k + 1], r[k + 1])
    BY <1>8, <1>n
  <1> QED
    BY <1>9 DEF r, n

-----------------------------------------------------------------------------
(* One step *)

\* Child by its cases.
LEMMA ChildIs ==
    ASSUME NEW v, NEW token
    PROVE  /\ Is(v, "map") => Child(v, token) = IF token \in DOMAIN v[2] THEN Ok(v[2][token]) ELSE Failed
           /\ Is(v, "array") => Child(v, token) = ElementAt(v[2], ElementOf(token))
           /\ ~ Is(v, "map") /\ ~ Is(v, "array") => Child(v, token) = Failed
           /\ ~ (Is(v, "map") /\ Is(v, "array"))
  <1>1. ~ (Is(v, "map") /\ Is(v, "array"))
    BY DEF Is
  <1>2. CASE Is(v, "map")
    <2>1. ~ Is(v, "array")
      BY <1>1, <1>2
    <2>2. Child(v, token) = IF token \in DOMAIN v[2] THEN Ok(v[2][token]) ELSE Failed
      BY <1>2, <2>1, Zenon DEF Child
    <2> QED
      BY <1>2, <2>1, <2>2
  <1>3. CASE Is(v, "array")
    <2>1. ~ Is(v, "map")
      BY <1>1, <1>3
    <2>2. Child(v, token) = ElementAt(v[2], ElementOf(token))
      BY <1>3, <2>1, Zenon DEF Child
    <2> QED
      BY <1>3, <2>1, <2>2
  <1>4. CASE ~ Is(v, "map") /\ ~ Is(v, "array")
    <2>1. Child(v, token) = Failed
      BY <1>4, Zenon DEF Child
    <2> QED
      BY <1>4, <2>1
  <1> QED
    BY <1>2, <1>3, <1>4

\* What a step finds or makes is an outcome.
LEMMA StepIsOutcome ==
    ASSUME NEW v, NEW token
    PROVE  /\ Child(v, token) = Failed \/ \E x : Child(v, token) = Ok(x)
           /\ Slot(v, token) = Failed \/ \E x : Slot(v, token) = Ok(x)
  <1>1. Child(v, token) = Failed \/ \E x : Child(v, token) = Ok(x)
    <2>1. CASE Is(v, "map")
      BY ChildIs, <2>1
    <2>2. CASE Is(v, "array")
      <3>1. Child(v, token) = ElementAt(v[2], ElementOf(token))
        BY ChildIs, <2>2 DEF Is
      <3> QED
        BY <3>1 DEF ElementAt
    <2>3. CASE ~ Is(v, "map") /\ ~ Is(v, "array")
      BY ChildIs, <2>3
    <2> QED
      BY <2>1, <2>2, <2>3
  <1>2. Slot(v, token) = Ok(Null) \/ Slot(v, token) = Child(v, token)
    BY DEF Slot
  <1> QED
    BY <1>1, <1>2

LEMMA Outcomes ==
    /\ \A x : IsOk(Ok(x)) /\ Ok(x)[2] = x
    /\ ~ IsOk(Failed)
  BY DEF IsOk, Ok, Failed

\* What is found is what is replaced.
LEMMA FoundIsSlot ==
    ASSUME NEW v, NEW token, IsOk(Child(v, token))
    PROVE  Slot(v, token) = Child(v, token)
  <1>1. CASE Is(v, "map") /\ token \notin DOMAIN v[2]
    BY ChildIs, <1>1, Outcomes
  <1> QED
    BY <1>1 DEF Slot

\* A slot that is not there yet is a new member of a map, and nothing is in it.
LEMMA SlotIsNew ==
    ASSUME NEW v, NEW token, IsOk(Slot(v, token)), ~ IsOk(Child(v, token))
    PROVE  Is(v, "map") /\ Slot(v, token) = Ok(Null)
  BY DEF Slot

LEMMA NullHasNoSlot ==
    ASSUME NEW token
    PROVE  ~ IsOk(Slot(Null, token))
  BY ChildIs, Outcomes DEF Slot, Null, Is

LEMMA MapHasSlots ==
    ASSUME NEW v, NEW token, Is(v, "map")
    PROVE  IsOk(Slot(v, token))
  BY ChildIs, Outcomes DEF Slot

\* The value with another child: a token for the same place finds that child,
\* and a token for another place what it found before.
LEMMA WithHere ==
    ASSUME NEW v, NEW t, NEW u, NEW child, IsOk(Slot(v, t)), Place(v, t) = Place(v, u)
    PROVE  Child(With(v, t, child), u) = Ok(child)
  <1>1. CASE Is(v, "map")
    <2> DEFINE f == [k \in DOMAIN v[2] \cup {t} |-> IF k = t THEN child ELSE v[2][k]]
    <2>1. With(v, t, child) = Dict(f)
      BY <1>1 DEF With
    <2>2. t = u
      BY <1>1 DEF Place, Name, Is
    <2>3. u \in DOMAIN f /\ f[u] = child
      BY <2>2
    <2> HIDE DEF f
    <2>4. Child(Dict(f), u) = Ok(f[u])
      BY ChildIs, <2>3 DEF Dict, Is
    <2> QED
      BY <2>1, <2>3, <2>4
  <1>2. CASE Is(v, "array")
    <2> DEFINE g == [v[2] EXCEPT ![ElementOf(t)] = child]
    <2>1. With(v, t, child) = Arr(g)
      BY <1>2 DEF With, Is
    <2>2. ElementOf(t) = ElementOf(u)
      BY <1>2 DEF Place, Index
    <2>3. Slot(v, t) = ElementAt(v[2], ElementOf(t))
      BY ChildIs, <1>2 DEF Slot, Is
    <2>4. ElementOf(t) \in DOMAIN v[2]
      BY <2>3, Outcomes DEF ElementAt
    <2>5. ElementOf(u) \in DOMAIN g /\ g[ElementOf(u)] = child
      BY <2>2, <2>4
    <2> HIDE DEF g
    <2>6. Child(Arr(g), u) = ElementAt(g, ElementOf(u))
      BY ChildIs DEF Arr, Is
    <2> QED
      BY <2>1, <2>5, <2>6 DEF ElementAt
  <1>3. CASE ~ Is(v, "map") /\ ~ Is(v, "array")
    BY ChildIs, <1>3, Outcomes DEF Slot
  <1> QED
    BY <1>1, <1>2, <1>3

LEMMA WithElsewhere ==
    ASSUME NEW v, NEW t, NEW u, NEW child, IsOk(Slot(v, t)), Place(v, t) # Place(v, u)
    PROVE  Child(With(v, t, child), u) = Child(v, u)
  <1>1. CASE Is(v, "map")
    <2> DEFINE f == [k \in DOMAIN v[2] \cup {t} |-> IF k = t THEN child ELSE v[2][k]]
    <2>1. With(v, t, child) = Dict(f)
      BY <1>1 DEF With
    <2>2. t # u
      OBVIOUS
    <2>3. u \in DOMAIN f <=> u \in DOMAIN v[2]
      BY <2>2
    <2>4. u \in DOMAIN v[2] => f[u] = v[2][u]
      BY <2>2
    <2> HIDE DEF f
    <2>5. Child(Dict(f), u) = IF u \in DOMAIN f THEN Ok(f[u]) ELSE Failed
      BY ChildIs DEF Dict, Is
    <2>6. Child(v, u) = IF u \in DOMAIN v[2] THEN Ok(v[2][u]) ELSE Failed
      BY ChildIs, <1>1
    <2> QED
      BY <2>1, <2>3, <2>4, <2>5, <2>6
  <1>2. CASE Is(v, "array")
    <2> DEFINE g == [v[2] EXCEPT ![ElementOf(t)] = child]
    <2>1. With(v, t, child) = Arr(g)
      BY <1>2 DEF With, Is
    <2>2. ElementOf(t) # ElementOf(u)
      BY <1>2 DEF Place, Index
    <2>4. DOMAIN g = DOMAIN v[2] /\ \A i \in DOMAIN g : i # ElementOf(t) => g[i] = v[2][i]
      OBVIOUS
    <2> HIDE DEF g
    <2>6. Child(Arr(g), u) = ElementAt(g, ElementOf(u))
      BY ChildIs DEF Arr, Is
    <2>7. Child(v, u) = ElementAt(v[2], ElementOf(u))
      BY ChildIs, <1>2 DEF Is
    <2> QED
      BY <2>1, <2>2, <2>4, <2>6, <2>7 DEF ElementAt
  <1>3. CASE ~ Is(v, "map") /\ ~ Is(v, "array")
    BY ChildIs, <1>3, Outcomes DEF Slot
  <1> QED
    BY <1>1, <1>2, <1>3

-----------------------------------------------------------------------------
(* All the steps *)

\* Each place that is reached is an outcome, and so is each slot; after a
\* failure there are only failures.
LEMMA ReachesAreOutcomes ==
    ASSUME NEW v, NEW tokens, Len(tokens) \in Nat, NEW k \in 0..Len(tokens)
    PROVE  /\ Reach(v, tokens)[k] = Failed \/ \E x : Reach(v, tokens)[k] = Ok(x)
           /\ Slots(v, tokens)[k] = Failed \/ \E x : Slots(v, tokens)[k] = Ok(x)
  <1>1. CASE k = 0
    BY <1>1, ReachIs, SlotsIs
  <1>2. CASE k \in 1..Len(tokens)
    <2>1. Reach(v, tokens)[k] = ChildOf(Reach(v, tokens)[k - 1], tokens[k])
      BY <1>2, ReachIs
    <2>2. Slots(v, tokens)[k] = SlotOf(Slots(v, tokens)[k - 1], tokens[k])
      BY <1>2, SlotsIs
    <2> QED
      BY <2>1, <2>2, StepIsOutcome DEF ChildOf, SlotOf
  <1> QED
    BY <1>1, <1>2

LEMMA OutcomeIs ==
    ASSUME NEW r, r = Failed \/ \E x : r = Ok(x)
    PROVE  IF IsOk(r) THEN r = Ok(r[2]) ELSE r = Failed
  BY Outcomes

\* A step after one that succeeded, for those that look and those that replace.
LEMMA NextReach ==
    ASSUME NEW v, NEW tokens, Len(tokens) \in Nat, NEW k \in 0..(Len(tokens) - 1)
    PROVE  /\ Reach(v, tokens)[k + 1] =
                 IF IsOk(Reach(v, tokens)[k]) THEN Child(Reach(v, tokens)[k][2], tokens[k + 1]) ELSE Failed
           /\ IsOk(Reach(v, tokens)[k + 1]) => IsOk(Reach(v, tokens)[k])
  <1>1. k + 1 \in 1..Len(tokens) /\ (k + 1) - 1 = k
    OBVIOUS
  <1>2. Reach(v, tokens)[k + 1] = ChildOf(Reach(v, tokens)[k], tokens[k + 1])
    BY <1>1, ReachIs
  <1> QED
    BY <1>2, Outcomes DEF ChildOf

LEMMA NextSlot ==
    ASSUME NEW v, NEW tokens, Len(tokens) \in Nat, NEW k \in 0..(Len(tokens) - 1)
    PROVE  /\ Slots(v, tokens)[k + 1] =
                 IF IsOk(Slots(v, tokens)[k]) THEN Slot(Slots(v, tokens)[k][2], tokens[k + 1]) ELSE Failed
           /\ IsOk(Slots(v, tokens)[k + 1]) => IsOk(Slots(v, tokens)[k])
  <1>1. k + 1 \in 1..Len(tokens) /\ (k + 1) - 1 = k
    OBVIOUS
  <1>2. Slots(v, tokens)[k + 1] = SlotOf(Slots(v, tokens)[k], tokens[k + 1])
    BY <1>1, SlotsIs
  <1> QED
    BY <1>2, Outcomes DEF SlotOf

\* If the last slot is there, all are.
LEMMA SlotsBefore ==
    ASSUME NEW v, NEW tokens, Len(tokens) \in Nat, IsOk(Slots(v, tokens)[Len(tokens)])
    PROVE  \A k \in 0..Len(tokens) : IsOk(Slots(v, tokens)[k])
  <1> DEFINE n == Len(tokens)
             S == {m \in Nat : m <= n => IsOk(Slots(v, tokens)[n - m])}
  <1>1. 0 \in S
    OBVIOUS
  <1>2. ASSUME NEW m \in Nat, m \in S PROVE m + 1 \in S
    <2> SUFFICES ASSUME m + 1 <= n PROVE IsOk(Slots(v, tokens)[n - (m + 1)])
      OBVIOUS
    <2> DEFINE k == n - (m + 1)
    <2>1. k \in 0..(n - 1) /\ k + 1 = n - m
      OBVIOUS
    <2>2. IsOk(Slots(v, tokens)[n - m])
      BY <1>2
    <2> HIDE DEF k
    <2>3. IsOk(Slots(v, tokens)[k])
      BY <2>1, <2>2, NextSlot
    <2> QED
      BY <2>3 DEF k
  <1>3. Nat \subseteq S
    <2> HIDE DEF S
    <2> QED
      BY <1>1, <1>2, NatInSet
  <1>4. ASSUME NEW k \in 0..n PROVE IsOk(Slots(v, tokens)[k])
    <2>1. n - k \in Nat /\ n - k <= n /\ n - (n - k) = k
      OBVIOUS
    <2> QED
      BY <1>3, <2>1
  <1> QED
    BY <1>4

\* A slot that is found is where looking leads.
LEMMA FoundSlots ==
    ASSUME NEW v, NEW tokens, Len(tokens) \in Nat
    PROVE  \A k \in 0..Len(tokens) : IsOk(Reach(v, tokens)[k]) => Slots(v, tokens)[k] = Reach(v, tokens)[k]
  <1> DEFINE n == Len(tokens)
             S == {m \in Nat : m <= n /\ IsOk(Reach(v, tokens)[m]) => Slots(v, tokens)[m] = Reach(v, tokens)[m]}
  <1>1. 0 \in S
    BY ReachIs, SlotsIs
  <1>2. ASSUME NEW m \in Nat, m \in S PROVE m + 1 \in S
    <2> SUFFICES ASSUME m + 1 <= n, IsOk(Reach(v, tokens)[m + 1])
                 PROVE  Slots(v, tokens)[m + 1] = Reach(v, tokens)[m + 1]
      OBVIOUS
    <2>1. m \in 0..(n - 1)
      OBVIOUS
    <2>2. /\ IsOk(Reach(v, tokens)[m])
          /\ Reach(v, tokens)[m + 1] = Child(Reach(v, tokens)[m][2], tokens[m + 1])
      BY <2>1, NextReach
    <2>3. Slots(v, tokens)[m] = Reach(v, tokens)[m]
      BY <1>2, <2>2
    <2>4. Slots(v, tokens)[m + 1] = Slot(Reach(v, tokens)[m][2], tokens[m + 1])
      BY <2>1, <2>2, <2>3, NextSlot
    <2> QED
      BY <2>2, <2>4, FoundIsSlot
  <1>3. Nat \subseteq S
    <2> HIDE DEF S
    <2> QED
      BY <1>1, <1>2, NatInSet
  <1> QED
    BY <1>3

\* Before a slot that is there, every slot is one that was found: nothing can
\* be added below what is added.
LEMMA EarlierSlots ==
    ASSUME NEW v, NEW tokens, Len(tokens) \in Nat
    PROVE  \A k \in 0..(Len(tokens) - 1) :
               IsOk(Slots(v, tokens)[k + 1]) => Slots(v, tokens)[k] = Reach(v, tokens)[k]
  <1> DEFINE n == Len(tokens)
             S == {m \in Nat : m < n /\ IsOk(Slots(v, tokens)[m + 1]) => Slots(v, tokens)[m] = Reach(v, tokens)[m]}
  <1>1. 0 \in S
    BY ReachIs, SlotsIs
  <1>2. ASSUME NEW m \in Nat, m \in S PROVE m + 1 \in S
    <2> SUFFICES ASSUME m + 1 < n, IsOk(Slots(v, tokens)[(m + 1) + 1])
                 PROVE  Slots(v, tokens)[m + 1] = Reach(v, tokens)[m + 1]
      OBVIOUS
    <2>1. m \in 0..(n - 1) /\ m + 1 \in 0..(n - 1)
      OBVIOUS
    <2>2. /\ IsOk(Slots(v, tokens)[m + 1])
          /\ IsOk(Slot(Slots(v, tokens)[m + 1][2], tokens[(m + 1) + 1]))
      BY <2>1, NextSlot
    <2>3. Slots(v, tokens)[m] = Reach(v, tokens)[m]
      BY <1>2, <2>1, <2>2
    <2>4. /\ IsOk(Reach(v, tokens)[m])
          /\ Slots(v, tokens)[m + 1] = Slot(Reach(v, tokens)[m][2], tokens[m + 1])
      BY <2>1, <2>2, <2>3, NextSlot
    <2>5. Reach(v, tokens)[m + 1] = Child(Reach(v, tokens)[m][2], tokens[m + 1])
      BY <2>1, <2>4, NextReach
    <2>6. CASE IsOk(Reach(v, tokens)[m + 1])
      BY <2>4, <2>5, <2>6, FoundIsSlot
    <2>7. CASE ~ IsOk(Reach(v, tokens)[m + 1])
      <3>1. Slots(v, tokens)[m + 1] = Ok(Null)
        BY <2>2, <2>4, <2>5, <2>7, SlotIsNew
      <3> QED
        BY <3>1, <2>2, NullHasNoSlot, Outcomes
    <2> QED
      BY <2>6, <2>7
  <1>3. Nat \subseteq S
    <2> HIDE DEF S
    <2> QED
      BY <1>1, <1>2, NatInSet
  <1> QED
    BY <1>3

\* There is something to replace just when there is a value, or a map to add
\* it to.
LEMMA SlotsSucceed ==
    ASSUME NEW v, NEW tokens, Len(tokens) \in Nat
    PROVE  LET n == Len(tokens)
               r == Reach(v, tokens)
           IN IsOk(Slots(v, tokens)[n]) <=>
                 IsOk(r[n]) \/ (n > 0 /\ IsOk(r[n - 1]) /\ Is(r[n - 1][2], "map"))
  <1> DEFINE n == Len(tokens)
             r == Reach(v, tokens)
             s == Slots(v, tokens)
  <1>1. IsOk(r[n]) => IsOk(s[n])
    BY FoundSlots
  <1>2. ASSUME n > 0 PROVE /\ IsOk(r[n - 1]) /\ Is(r[n - 1][2], "map") => IsOk(s[n])
                           /\ IsOk(s[n]) /\ ~ IsOk(r[n]) => IsOk(r[n - 1]) /\ Is(r[n - 1][2], "map")
    <2>1. n - 1 \in 0..(n - 1) /\ n - 1 \in 0..n /\ (n - 1) + 1 = n
      BY <1>2
    <2>2. IsOk(r[n - 1]) => s[n - 1] = r[n - 1]
      BY <2>1, FoundSlots
    <2>3. IsOk(s[n - 1]) => s[n] = Slot(s[n - 1][2], tokens[n])
      BY <2>1, NextSlot
    <2>4. IsOk(s[n]) => IsOk(s[n - 1]) /\ s[n - 1] = r[n - 1]
      BY <2>1, NextSlot, EarlierSlots
    <2>5. IsOk(r[n - 1]) => r[n] = Child(r[n - 1][2], tokens[n])
      BY <2>1, NextReach
    <2> HIDE DEF n, r, s
    <2>6. IsOk(r[n - 1]) /\ Is(r[n - 1][2], "map") => IsOk(s[n])
      BY <2>2, <2>3, MapHasSlots
    <2>7. IsOk(s[n]) /\ ~ IsOk(r[n]) => IsOk(r[n - 1]) /\ Is(r[n - 1][2], "map")
      BY <2>3, <2>4, <2>5, SlotIsNew
    <2> QED
      BY <2>6, <2>7
  <1>3. ASSUME n = 0 PROVE r[n] = s[n]
    BY <1>3, ReachIs, SlotsIs
  <1>4. n \in Nat
    OBVIOUS
  <1> HIDE DEF n, r, s
  <1> SUFFICES IsOk(s[n]) <=> IsOk(r[n]) \/ (n > 0 /\ IsOk(r[n - 1]) /\ Is(r[n - 1][2], "map"))
    BY DEF n, r, s
  <1> QED
    BY <1>1, <1>2, <1>3, <1>4

\* Tokens that are the same up to some place lead to the same, that far.
LEMMA ReachAgrees ==
    ASSUME NEW v, NEW t, NEW u, Len(t) \in Nat, Len(u) \in Nat,
           NEW m \in Nat, m <= Len(t), m <= Len(u), \A k \in 1..m : t[k] = u[k]
    PROVE  \A k \in 0..m : Reach(v, t)[k] = Reach(v, u)[k]
  <1> DEFINE S == {i \in Nat : i <= m => Reach(v, t)[i] = Reach(v, u)[i]}
  <1>1. 0 \in S
    BY ReachIs
  <1>2. ASSUME NEW i \in Nat, i \in S PROVE i + 1 \in S
    <2> SUFFICES ASSUME i + 1 <= m PROVE Reach(v, t)[i + 1] = Reach(v, u)[i + 1]
      OBVIOUS
    <2>1. i \in 0..(Len(t) - 1) /\ i \in 0..(Len(u) - 1) /\ i + 1 \in 1..m
      OBVIOUS
    <2>2. Reach(v, t)[i] = Reach(v, u)[i] /\ t[i + 1] = u[i + 1]
      BY <1>2, <2>1
    <2> QED
      BY <2>1, <2>2, NextReach
  <1>3. Nat \subseteq S
    <2> HIDE DEF S
    <2> QED
      BY <1>1, <1>2, NatInSet
  <1> QED
    BY <1>3

\* What is made for a slot, seen from the slot before it.
LEMMA ReachBefore ==
    ASSUME NEW v, NEW tokens, Len(tokens) \in Nat, IsOk(Slots(v, tokens)[Len(tokens)]),
           NEW k \in 0..(Len(tokens) - 1)
    PROVE  /\ Slots(v, tokens)[k] = Reach(v, tokens)[k]
           /\ IsOk(Reach(v, tokens)[k])
           /\ IsOk(Slot(Reach(v, tokens)[k][2], tokens[k + 1]))
  <1>1. k \in 0..Len(tokens) /\ k + 1 \in 0..Len(tokens)
    OBVIOUS
  <1>2. IsOk(Slots(v, tokens)[k]) /\ IsOk(Slots(v, tokens)[k + 1])
    BY <1>1, SlotsBefore
  <1>3. Slots(v, tokens)[k] = Reach(v, tokens)[k]
    BY <1>2, EarlierSlots
  <1>4. Slots(v, tokens)[k + 1] = Slot(Slots(v, tokens)[k][2], tokens[k + 1])
    BY <1>2, NextSlot
  <1> QED
    BY <1>2, <1>3, <1>4

LEMMA MadeBefore ==
    ASSUME NEW v, NEW tokens, NEW new, Len(tokens) \in Nat, IsOk(Slots(v, tokens)[Len(tokens)]),
           NEW k \in 0..(Len(tokens) - 1)
    PROVE  Made(Slots(v, tokens), tokens, new)[k]
               = With(Reach(v, tokens)[k][2], tokens[k + 1], Made(Slots(v, tokens), tokens, new)[k + 1])
  <1>1. Made(Slots(v, tokens), tokens, new)[k]
            = With(Slots(v, tokens)[k][2], tokens[k + 1], Made(Slots(v, tokens), tokens, new)[k + 1])
    BY MadeIs
  <1> QED
    BY <1>1, ReachBefore

\* As long as two pointers pass the same places, the second finds what was made.
\* Where they part, it finds what it found before.
SameFor(v, t, u, m) ==
    \A k \in 1..m : Place(Reach(v, t)[k - 1][2], t[k]) = Place(Reach(v, t)[k - 1][2], u[k])

LEMMA MadeAlong ==
    ASSUME NEW v, NEW t, NEW u, NEW new, Len(t) \in Nat, Len(u) \in Nat, IsOk(Slots(v, t)[Len(t)]),
           NEW m \in Nat, m <= Len(t), m <= Len(u), SameFor(v, t, u, m)
    PROVE  Reach(Made(Slots(v, t), t, new)[0], u)[m] = Ok(Made(Slots(v, t), t, new)[m])
  <1> DEFINE made == Made(Slots(v, t), t, new)
             S == {i \in Nat : i <= m => Reach(made[0], u)[i] = Ok(made[i])}
  <1>1. 0 \in S
    BY ReachIs
  <1>2. ASSUME NEW i \in Nat, i \in S PROVE i + 1 \in S
    <2> SUFFICES ASSUME i + 1 <= m PROVE Reach(made[0], u)[i + 1] = Ok(made[i + 1])
      OBVIOUS
    <2>1. i \in 0..(Len(t) - 1) /\ i \in 0..(Len(u) - 1) /\ i + 1 \in 1..m /\ (i + 1) - 1 = i
      OBVIOUS
    <2>2. Reach(made[0], u)[i] = Ok(made[i])
      BY <1>2
    <2>3. /\ made[i] = With(Reach(v, t)[i][2], t[i + 1], made[i + 1])
          /\ IsOk(Slot(Reach(v, t)[i][2], t[i + 1]))
      <3>1. Made(Slots(v, t), t, new)[i]
                = With(Reach(v, t)[i][2], t[i + 1], Made(Slots(v, t), t, new)[i + 1])
        BY <2>1, MadeBefore
      <3>2. IsOk(Slot(Reach(v, t)[i][2], t[i + 1]))
        BY <2>1, ReachBefore
      <3> QED
        BY <3>1, <3>2
    <2>4. Place(Reach(v, t)[i][2], t[i + 1]) = Place(Reach(v, t)[i][2], u[i + 1])
      BY <2>1 DEF SameFor
    <2> HIDE DEF made
    <2>5. Reach(made[0], u)[i + 1] = Child(made[i], u[i + 1])
      BY <2>1, <2>2, NextReach, Outcomes
    <2> QED
      BY <2>3, <2>4, <2>5, WithHere
  <1>3. Nat \subseteq S
    <2> HIDE DEF S
    <2> QED
      BY <1>1, <1>2, NatInSet
  <1>4. m \in S
    <2> HIDE DEF S
    <2> QED
      BY <1>3
  <1> HIDE DEF made
  <1>5. Reach(made[0], u)[m] = Ok(made[m])
    BY <1>4
  <1> QED
    BY <1>5 DEF made

\* Tokens that were replaced lead to what is new.
LEMMA SetThenFound ==
    ASSUME NEW v, NEW tokens, NEW new, Len(tokens) \in Nat, IsOk(Slots(v, tokens)[Len(tokens)])
    PROVE  Walk(Made(Slots(v, tokens), tokens, new)[0], tokens) = Ok(new)
  <1>1. Reach(Made(Slots(v, tokens), tokens, new)[0], tokens)[Len(tokens)]
            = Ok(Made(Slots(v, tokens), tokens, new)[Len(tokens)])
    BY MadeAlong DEF SameFor
  <1> QED
    BY <1>1, MadeIs DEF Walk

-----------------------------------------------------------------------------
(* Pointers that lead elsewhere *)

LEMMA SameIsPrefix ==
    ASSUME NEW S, NEW f \in Seq(S), NEW g \in Seq(S), Len(f) <= Len(g),
           \A k \in 1..Len(f) : f[k] = g[k]
    PROVE  IsPrefix(f, g)
  <1>1. SubSeq(f, 1, Len(f)) = [k \in 1..Len(f) |-> f[k]]
    OBVIOUS
  <1>2. SubSeq(g, 1, Len(f)) = [k \in 1..Len(f) |-> g[k]]
    OBVIOUS
  <1> QED
    BY <1>1, <1>2 DEF IsPrefix

\* The places of tokens are a sequence as long as they are.
LEMMA PlacesAreSeq ==
    ASSUME NEW v, NEW t, Len(t) \in Nat, DOMAIN t = 1..Len(t),
           NEW S, \A k \in 1..Len(t) : Places(v, t)[k] \in S
    PROVE  Places(v, t) \in Seq(S) /\ Len(Places(v, t)) = Len(t)
  <1>1. Places(v, t) \in [1..Len(t) -> S]
    <2> DEFINE e(k) == Place(IF IsOk(Reach(v, t)[k - 1]) THEN Reach(v, t)[k - 1][2] ELSE Null, t[k])
    <2>1. Places(v, t) = [k \in 1..Len(t) |-> e(k)]
      BY DEF Places
    <2> HIDE DEF e
    <2> QED
      BY <2>1
  <1> DEFINE p == Places(v, t)
             n == Len(t)
  <1>2. p \in [1..n -> S] /\ n \in Nat
    BY <1>1
  <1> HIDE DEF p, n
  <1>3. p \in Seq(S)
    BY <1>2, SeqDef
  <1>4. Len(p) \in Nat /\ DOMAIN p = 1..Len(p) /\ DOMAIN p = 1..n
    BY <1>2, <1>3, LenProperties
  <1>5. Len(p) = n
    BY <1>2, <1>4
  <1> QED
    BY <1>3, <1>5 DEF p, n

LEMMA LeastOf ==
    ASSUME NEW S, S \subseteq Nat, S # {}
    PROVE  \E i \in S : \A j \in S : i <= j
  <1> DEFINE R == {ss \in Nat \X Nat : ss[1] < ss[2]}
  <1>1. IsWellFoundedOn(R, Nat)
    BY NatLessThanWellFounded, Zenon DEF OpToRel
  <1>2. PICK i \in S : \A j \in S : <<j, i>> \notin R
    <2> HIDE DEF R
    <2> QED
      BY <1>1, WFMin
  <1>3. ASSUME NEW j \in S PROVE i <= j
    <2>1. i \in Nat /\ j \in Nat /\ <<j, i>> \in Nat \X Nat
      OBVIOUS
    <2>2. ~ (j < i)
      BY <1>2, <2>1
    <2> QED
      BY <2>1, <2>2
  <1> QED
    BY <1>3

\* Tokens for the same place find the same.
LEMMA SamePlace ==
    ASSUME NEW v, NEW t, NEW u, Place(v, t) = Place(v, u)
    PROVE  Child(v, t) = Child(v, u)
  <1>1. CASE Is(v, "array")
    <2>1. ElementOf(t) = ElementOf(u)
      BY <1>1 DEF Place, Index
    <2> QED
      BY <1>1, <2>1, ChildIs
  <1>2. CASE ~ Is(v, "array")
    <2>1. t = u
      BY <1>2 DEF Place, Name
    <2> QED
      BY <2>1
  <1> QED
    BY <1>1, <1>2

\* Two pointers neither of which leads through the other's value part at some
\* place, the first at which they differ.
LEMMA PartSomewhere ==
    ASSUME NEW v, NEW t, NEW u, Len(t) \in Nat, Len(u) \in Nat,
           DOMAIN t = 1..Len(t), DOMAIN u = 1..Len(u),
           ~ IsPrefix(Places(v, t), Places(v, u)), ~ IsPrefix(Places(v, u), Places(v, t))
    PROVE  \E j \in 1..Len(t) :
               /\ j <= Len(u)
               /\ Places(v, t)[j] # Places(v, u)[j]
               /\ \A k \in 1..(j - 1) : Places(v, t)[k] = Places(v, u)[k]
  <1> DEFINE a == Places(v, t)
             b == Places(v, u)
             n == Len(t)
             m == Len(u)
             D == {k \in 1..n : k <= m /\ a[k] # b[k]}
             S == {a[k] : k \in 1..n} \cup {b[k] : k \in 1..m}
  <1>1. a \in Seq(S) /\ Len(a) = n /\ b \in Seq(S) /\ Len(b) = m
    <2>1. (\A k \in 1..Len(t) : Places(v, t)[k] \in S) /\ (\A k \in 1..Len(u) : Places(v, u)[k] \in S)
      OBVIOUS
    <2> HIDE DEF S
    <2> QED
      BY <2>1, PlacesAreSeq
  <1>2. n \in Nat /\ m \in Nat
    OBVIOUS
  <1>3. ~ IsPrefix(a, b) /\ ~ IsPrefix(b, a)
    OBVIOUS
  <1> HIDE DEF a, b, n, m, S
  <1>4. D # {}
    <2> SUFFICES ASSUME D = {} PROVE FALSE
      OBVIOUS
    <2>1. CASE n <= m
      <3>1. \A k \in 1..n : a[k] = b[k]
        BY <1>2, <2>1
      <3> QED
        BY <1>1, <1>3, <2>1, <3>1, SameIsPrefix
    <2>2. CASE m <= n
      <3>1. \A k \in 1..m : b[k] = a[k]
        BY <1>2, <2>2
      <3> QED
        BY <1>1, <1>3, <2>2, <3>1, SameIsPrefix
    <2> QED
      BY <1>2, <2>1, <2>2
  <1>5. D \subseteq Nat
    BY <1>2
  <1>6. PICK j \in D : \A k \in D : j <= k
    <2> HIDE DEF D
    <2> QED
      BY <1>4, <1>5, LeastOf
  <1>7. j \in 1..n /\ j <= m /\ a[j] # b[j]
    BY <1>6
  <1>8. \A k \in 1..(j - 1) : a[k] = b[k]
    BY <1>2, <1>6, <1>7
  <1> HIDE DEF D
  <1>9. \E i \in 1..n : i <= m /\ a[i] # b[i] /\ \A k \in 1..(i - 1) : a[k] = b[k]
    BY <1>7, <1>8
  <1> QED
    BY <1>9 DEF a, b, n, m

LEMMA PlaceIs ==
    ASSUME NEW v, NEW t, Len(t) \in Nat, DOMAIN t = 1..Len(t), NEW k \in 0..(Len(t) - 1), IsOk(Reach(v, t)[k])
    PROVE  Places(v, t)[k + 1] = Place(Reach(v, t)[k][2], t[k + 1])
  <1>1. k + 1 \in DOMAIN t /\ (k + 1) - 1 = k
    OBVIOUS
  <1> QED
    BY <1>1 DEF Places

\* What tokens that lead elsewhere find is not touched.
LEMMA SetElsewhere ==
    ASSUME NEW v, NEW t, NEW u, NEW new, Len(t) \in Nat, Len(u) \in Nat,
           DOMAIN t = 1..Len(t), DOMAIN u = 1..Len(u), IsOk(Slots(v, t)[Len(t)]),
           ~ IsPrefix(Places(v, t), Places(v, u)), ~ IsPrefix(Places(v, u), Places(v, t))
    PROVE  Walk(Made(Slots(v, t), t, new)[0], u) = Walk(v, u)
  <1>1. PICK j \in 1..Len(t) :
            /\ j <= Len(u)
            /\ Places(v, t)[j] # Places(v, u)[j]
            /\ \A k \in 1..(j - 1) : Places(v, t)[k] = Places(v, u)[k]
    BY PartSomewhere
  <1> DEFINE made == Made(Slots(v, t), t, new)
             r == Reach(v, t)
             q == Reach(v, u)
             new_q == Reach(made[0], u)
  <1>j. j \in Nat /\ j - 1 \in Nat /\ j - 1 \in 0..(Len(t) - 1) /\ j - 1 \in 0..(Len(u) - 1) /\ (j - 1) + 1 = j
    BY <1>1
  <1>2. ASSUME NEW k \in 0..(j - 1)
        PROVE  /\ made[k] = With(r[k][2], t[k + 1], made[k + 1])
               /\ IsOk(r[k])
               /\ IsOk(Slot(r[k][2], t[k + 1]))
               /\ Places(v, t)[k + 1] = Place(r[k][2], t[k + 1])
    <2>1. k \in 0..(Len(t) - 1)
      BY <1>1
    <2> HIDE DEF made, r, q, new_q
    <2>2. Made(Slots(v, t), t, new)[k]
              = With(Reach(v, t)[k][2], t[k + 1], Made(Slots(v, t), t, new)[k + 1])
      BY <2>1, MadeBefore
    <2>3. IsOk(Reach(v, t)[k]) /\ IsOk(Slot(Reach(v, t)[k][2], t[k + 1]))
      BY <2>1, ReachBefore
    <2>4. Places(v, t)[k + 1] = Place(Reach(v, t)[k][2], t[k + 1])
      BY <2>1, <2>3, PlaceIs
    <2> QED
      BY <2>2, <2>3, <2>4 DEF made, r
  <1> HIDE DEF made
  <1>3. \A k \in 0..(j - 1) : q[k] = r[k]
    <2> DEFINE S == {i \in Nat : i <= j - 1 => q[i] = r[i]}
    <2>1. 0 \in S
      BY ReachIs
    <2>2. ASSUME NEW i \in Nat, i \in S PROVE i + 1 \in S
      <3> SUFFICES ASSUME i + 1 <= j - 1 PROVE q[i + 1] = r[i + 1]
        OBVIOUS
      <3>1. /\ i \in 0..(Len(t) - 1) /\ i \in 0..(Len(u) - 1)
            /\ i + 1 \in 1..(j - 1) /\ i \in 0..(j - 1)
        BY <1>1
      <3>2. q[i] = r[i]
        BY <2>2, <3>1
      <3>3. IsOk(r[i]) /\ Places(v, t)[i + 1] = Place(r[i][2], t[i + 1])
        BY <1>2, <3>1
      <3>4. Places(v, u)[i + 1] = Place(q[i][2], u[i + 1])
        BY <3>1, <3>2, <3>3, PlaceIs
      <3>5. Place(r[i][2], t[i + 1]) = Place(r[i][2], u[i + 1])
        BY <1>1, <3>1, <3>2, <3>3, <3>4
      <3>6. r[i + 1] = Child(r[i][2], t[i + 1]) /\ q[i + 1] = Child(q[i][2], u[i + 1])
        BY <3>1, <3>2, <3>3, NextReach
      <3> HIDE DEF q, r
      <3> QED
        BY <3>2, <3>5, <3>6, SamePlace
    <2>3. Nat \subseteq S
      <3> HIDE DEF S
      <3> QED
        BY <2>1, <2>2, NatInSet
    <2> QED
      BY <2>3, <1>j
  <1>4. ASSUME NEW k \in 0..(j - 1) PROVE Places(v, u)[k + 1] = Place(r[k][2], u[k + 1])
    <2>1. k \in 0..(Len(u) - 1)
      BY <1>1
    <2>2. q[k] = r[k] /\ IsOk(r[k])
      BY <1>2, <1>3
    <2> QED
      BY <2>1, <2>2, PlaceIs
  <1>5. \A k \in 1..(j - 1) : Place(r[k - 1][2], t[k]) = Place(r[k - 1][2], u[k])
    <2> TAKE k \in 1..(j - 1)
    <2>1. k - 1 \in 0..(j - 1) /\ (k - 1) + 1 = k
      BY <1>j
    <2>2. Places(v, t)[k] = Place(r[k - 1][2], t[k])
      BY <1>2, <2>1
    <2>3. Places(v, u)[k] = Place(r[k - 1][2], u[k])
      BY <1>4, <2>1
    <2>4. Places(v, t)[k] = Places(v, u)[k]
      BY <1>1
    <2> QED
      BY <2>2, <2>3, <2>4
  <1>6. new_q[j - 1] = Ok(made[j - 1])
    <2>1. j - 1 <= Len(t) /\ j - 1 <= Len(u)
      BY <1>1
    <2> DEFINE m == j - 1
    <2>2. m \in Nat /\ m <= Len(t) /\ m <= Len(u)
      BY <1>j, <2>1
    <2>3. SameFor(v, t, u, m)
      BY <1>5 DEF SameFor
    <2> HIDE DEF m, r, q, new_q
    <2>4. Reach(Made(Slots(v, t), t, new)[0], u)[m] = Ok(Made(Slots(v, t), t, new)[m])
      BY <2>2, <2>3, MadeAlong
    <2> QED
      BY <2>4 DEF made, m, new_q
  <1>7. new_q[j] = q[j]
    <2>1. j - 1 \in 0..(j - 1)
      BY <1>j
    <2>2. new_q[j] = Child(made[j - 1], u[j])
      BY <1>j, <1>6, NextReach, Outcomes
    <2>3. made[j - 1] = With(r[j - 1][2], t[j], made[j]) /\ IsOk(r[j - 1]) /\ IsOk(Slot(r[j - 1][2], t[j]))
      BY <1>2, <1>j, <2>1
    <2>4. Place(r[j - 1][2], t[j]) # Place(r[j - 1][2], u[j])
      <3>1. Places(v, t)[j] = Place(r[j - 1][2], t[j])
        BY <1>2, <1>j, <2>1
      <3>2. Places(v, u)[j] = Place(r[j - 1][2], u[j])
        BY <1>4, <1>j, <2>1
      <3> QED
        BY <1>1, <3>1, <3>2
    <2>5. q[j - 1] = r[j - 1]
      BY <1>3, <2>1
    <2>6. q[j] = Child(q[j - 1][2], u[j])
      BY <1>j, <2>3, <2>5, NextReach
    <2> HIDE DEF q, r, new_q
    <2> QED
      BY <2>2, <2>3, <2>4, <2>5, <2>6, WithElsewhere
  <1>8. new_q[Len(u)] = q[Len(u)]
    <2> DEFINE S == {i \in Nat : j + i <= Len(u) => new_q[j + i] = q[j + i]}
    <2>1. 0 \in S
      BY <1>7, <1>j
    <2>2. ASSUME NEW i \in Nat, i \in S PROVE i + 1 \in S
      <3> SUFFICES ASSUME j + (i + 1) <= Len(u) PROVE new_q[j + (i + 1)] = q[j + (i + 1)]
        OBVIOUS
      <3> DEFINE k == j + i
      <3>1. k \in 0..(Len(u) - 1) /\ k + 1 = j + (i + 1)
        BY <1>j
      <3>2. new_q[k] = q[k]
        BY <2>2, <1>j
      <3> HIDE DEF k
      <3>3. /\ new_q[k + 1] = IF IsOk(new_q[k]) THEN Child(new_q[k][2], u[k + 1]) ELSE Failed
            /\ q[k + 1] = IF IsOk(q[k]) THEN Child(q[k][2], u[k + 1]) ELSE Failed
        BY <3>1, NextReach
      <3> HIDE DEF q, new_q
      <3>4. new_q[k + 1] = q[k + 1]
        BY <3>2, <3>3
      <3> QED
        BY <3>1, <3>4
    <2>3. Nat \subseteq S
      <3> HIDE DEF S
      <3> QED
        BY <2>1, <2>2, NatInSet
    <2>4. Len(u) - j \in Nat /\ j + (Len(u) - j) = Len(u)
      BY <1>1
    <2> HIDE DEF new_q, q
    <2>5. Len(u) - j \in S
      BY <2>3, <2>4
    <2> QED
      BY <2>4, <2>5
  <1> QED
    BY <1>8 DEF Walk, made

-----------------------------------------------------------------------------
(* The positions of the slashes in a text *)

LEMMA FiniteInterval ==
    ASSUME NEW n \in Nat, NEW S \in SUBSET (1..n)
    PROVE  IsFiniteSet(S)
  <1>1. 1 \in Int /\ n \in Int
    OBVIOUS
  <1>2. IsFiniteSet(1..n)
    BY <1>1, FS_Interval
  <1> QED
    BY <1>2, FS_Subset

\* Without their greatest, positions are ranked as they were; it is the last.
LEMMA RankedWithout ==
    ASSUME NEW n \in Nat, NEW S \in SUBSET (1..n), NEW top \in S, \A j \in S : j <= top
    PROVE  LET N == Cardinality(S)
           IN /\ N \in Nat /\ N > 0
              /\ Cardinality(S \ {top}) = N - 1
              /\ \A k \in 1..(N - 1) : Ranked(S, k) = Ranked(S \ {top}, k)
              /\ Ranked(S, N) = {top}
  <1> DEFINE R == S \ {top}
             N == Cardinality(S)
             Upto(T, i) == {j \in T : j <= i}
  <1>1. IsFiniteSet(S)
    BY FiniteInterval
  <1>2. N \in Nat /\ IsFiniteSet(R) /\ Cardinality(R) = N - 1
    BY <1>1, FS_CardinalityType, FS_RemoveElement
  <1>3. Cardinality(R) \in Nat
    BY <1>2, FS_CardinalityType
  <1>4. ASSUME NEW i \in R PROVE Upto(S, i) = Upto(R, i)
    <2>1. ~ (top <= i)
      <3>1. i \in Int /\ top \in Int /\ i # top /\ i <= top
        OBVIOUS
      <3> QED
        BY <3>1
    <2> QED
      BY <2>1
  <1>5. Upto(S, top) = S
    OBVIOUS
  <1>6. ASSUME NEW i \in R PROVE Cardinality(Upto(S, i)) <= N - 1
    <2>1. Upto(R, i) \in SUBSET R
      OBVIOUS
    <2> HIDE DEF R, Upto
    <2>2. Cardinality(Upto(R, i)) <= Cardinality(R)
      BY <1>2, <2>1, FS_Subset
    <2> QED
      BY <1>2, <1>4, <2>2
  <1>7. \A T, k : Ranked(T, k) = {i \in T : Cardinality(Upto(T, i)) = k}
    BY DEF Ranked
  <1>8. S = R \cup {top}
    OBVIOUS
  <1> HIDE DEF Upto
  <1>9. ASSUME NEW k \in 1..(N - 1) PROVE Ranked(S, k) = Ranked(R, k)
    <2>1. Cardinality(Upto(S, top)) # k
      BY <1>2, <1>5
    <2> HIDE DEF R, N
    <2> QED
      BY <1>4, <1>7, <1>8, <2>1
  <1>10. Ranked(S, N) = {top}
    <2>1. \A i \in R : Cardinality(Upto(S, i)) # N
      <3> HIDE DEF R, N
      <3> TAKE i \in R
      <3>1. Cardinality(Upto(S, i)) <= N - 1
        BY <1>6
      <3>2. ~ (N <= N - 1)
        BY <1>2
      <3> QED
        BY <3>1, <3>2
    <2>2. Cardinality(Upto(S, top)) = N
      BY <1>5
    <2> HIDE DEF R, N
    <2> QED
      BY <1>7, <1>8, <2>1, <2>2
  <1>11. N > 0
    BY <1>2, <1>3
  <1> QED
    BY <1>2, <1>9, <1>10, <1>11

LEMMA RankedExists ==
    ASSUME NEW n \in Nat, NEW S \in SUBSET (1..n)
    PROVE  \A k \in 1..Cardinality(S) : Ranked(S, k) # {}
  <1> DEFINE I == {m \in Nat : \A T \in SUBSET (1..m) : \A k \in 1..Cardinality(T) : Ranked(T, k) # {}}
  <1>1. 0 \in I
    <2>1. ASSUME NEW T \in SUBSET (1..0), NEW k \in 1..Cardinality(T) PROVE FALSE
      <3>1. T = {}
        OBVIOUS
      <3>2. Cardinality(T) = 0
        BY <3>1, FS_EmptySet
      <3> QED
        BY <3>2
    <2> QED
      BY <2>1
  <1>2. ASSUME NEW m \in Nat, m \in I PROVE m + 1 \in I
    <2> SUFFICES ASSUME NEW T \in SUBSET (1..(m + 1)), NEW k \in 1..Cardinality(T)
                 PROVE  Ranked(T, k) # {}
      OBVIOUS
    <2>1. CASE m + 1 \notin T
      <3>1. T \in SUBSET (1..m)
        BY <2>1
      <3> QED
        BY <1>2, <3>1
    <2>2. CASE m + 1 \in T
      <3> DEFINE top == m + 1
                 R == T \ {top}
                 N == Cardinality(T)
      <3>1. R \in SUBSET (1..m) /\ m + 1 \in Nat /\ \A j \in T : j <= top
        OBVIOUS
      <3>2. /\ N \in Nat /\ N > 0
            /\ Cardinality(R) = N - 1
            /\ \A i \in 1..(N - 1) : Ranked(T, i) = Ranked(R, i)
            /\ Ranked(T, N) = {top}
        <4>1. top \in T /\ T \in SUBSET (1..top) /\ top \in Nat
          BY <2>2
        <4> HIDE DEF top, I
        <4> QED
          BY <3>1, <4>1, RankedWithout
      <3>3. \A i \in 1..Cardinality(R) : Ranked(R, i) # {}
        BY <1>2, <3>1
      <3>4. k \in 1..N
        OBVIOUS
      <3> HIDE DEF R, N, top, I
      <3>5. CASE k = N
        <4>1. Ranked(T, k) = {top}
          BY <3>2, <3>5
        <4> QED
          BY <4>1
      <3>6. CASE k # N
        <4>1. k \in 1..(N - 1)
          BY <3>2, <3>4, <3>6
        <4>2. Ranked(T, k) = Ranked(R, k) /\ k \in 1..Cardinality(R)
          BY <3>2, <4>1
        <4> QED
          BY <3>3, <4>2
      <3> QED
        BY <3>5, <3>6
    <2> QED
      BY <2>1, <2>2
  <1>3. Nat \subseteq I
    <2> HIDE DEF I
    <2> QED
      BY <1>1, <1>2, NatInSet
  <1> QED
    BY <1>3

Slashes(q) == {i \in DOMAIN q : q[i] = "/"}
Bounds(q)  == Positions(q, "/") \o <<Len(q) + 1>>

\* The bounds of a text's tokens: its slashes, ranked, and its end.
LEMMA BoundsAre ==
    ASSUME NEW q \in Seq(Symbols)
    PROVE  LET N == Cardinality(Slashes(q))
           IN /\ N \in Nat
              /\ Len(Bounds(q)) = N + 1
              /\ \A k \in 1..N : /\ Bounds(q)[k] = CHOOSE i \in Ranked(Slashes(q), k) : TRUE
                                 /\ Bounds(q)[k] \in Slashes(q)
              /\ Bounds(q)[N + 1] = Len(q) + 1
  <1> DEFINE S == Slashes(q)
             N == Cardinality(S)
             p == Positions(q, "/")
  <1>1. S \in SUBSET (1..Len(q)) /\ Len(q) \in Nat
    BY LenProperties DEF Slashes
  <1>2. N \in Nat
    <2> HIDE DEF S
    <2> QED
      BY <1>1, FiniteInterval, FS_CardinalityType
  <1>3. p = [k \in 1..N |-> CHOOSE i \in Ranked(S, k) : TRUE]
    BY DEF Positions, PositionsOf, Slashes
  <1>4. \A k \in 1..N : Ranked(S, k) # {} /\ Ranked(S, k) \subseteq S
    BY <1>1, RankedExists DEF Ranked
  <1> HIDE DEF S, N, p
  <1>5. ASSUME NEW k \in 1..N PROVE p[k] = (CHOOSE i \in Ranked(S, k) : TRUE) /\ p[k] \in S
    <2>1. p[k] = CHOOSE i \in Ranked(S, k) : TRUE
      BY <1>3
    <2>2. (CHOOSE i \in Ranked(S, k) : TRUE) \in Ranked(S, k)
      BY <1>4
    <2> QED
      BY <1>4, <2>1, <2>2
  <1>6. p \in [1..N -> S]
    <2>1. DOMAIN p = 1..N /\ p = [k \in DOMAIN p |-> p[k]]
      <3> DEFINE c(k) == CHOOSE i \in Ranked(S, k) : TRUE
      <3>1. p = [k \in 1..N |-> c(k)]
        BY <1>3
      <3> HIDE DEF c
      <3> QED
        BY <3>1
    <2> QED
      BY <1>5, <2>1
  <1>7. p \in Seq(Int) /\ Len(p) = N
    <2>1. S \subseteq Int
      BY <1>1
    <2>2. p \in [1..N -> Int]
      BY <1>6, <2>1
    <2>3. p \in Seq(Int)
      BY <1>2, <2>2, SeqDef
    <2> QED
      BY <1>2, <2>2, <2>3, LenProperties
  <1>8. <<Len(q) + 1>> \in Seq(Int) /\ Len(<<Len(q) + 1>>) = 1 /\ <<Len(q) + 1>>[1] = Len(q) + 1
    BY <1>1
  <1>9. /\ Len(Bounds(q)) = N + 1
        /\ \A k \in 1..(N + 1) : Bounds(q)[k] = IF k <= N THEN p[k] ELSE <<Len(q) + 1>>[k - N]
    BY <1>7, <1>8, ConcatProperties DEF Bounds, p
  <1>10. Bounds(q)[N + 1] = Len(q) + 1
    BY <1>2, <1>8, <1>9
  <1>11. \A k \in 1..N : Bounds(q)[k] = p[k]
    BY <1>2, <1>9
  <1> QED
    BY <1>2, <1>5, <1>9, <1>10, <1>11 DEF S, N

LEMMA TokensAre ==
    ASSUME NEW q \in Seq(Symbols)
    PROVE  LET N == Cardinality(Slashes(q))
           IN /\ N \in Nat
              /\ Len(Tokens(q)) = N
              /\ DOMAIN Tokens(q) = 1..N
              /\ \A k \in 1..N :
                    Tokens(q)[k] = unescape_pointer_token(SubSeq(q, Bounds(q)[k] + 1, Bounds(q)[k + 1] - 1))
  <1> DEFINE N == Cardinality(Slashes(q))
             e(k) == unescape_pointer_token(SubSeq(q, Bounds(q)[k] + 1, Bounds(q)[k + 1] - 1))
             t == Tokens(q)
             T == {t[k] : k \in 1..N}
  <1>1. N \in Nat /\ Len(Bounds(q)) = N + 1
    BY BoundsAre
  <1>2. t = [k \in 1..N |-> e(k)]
    <2>1. t = [k \in 1..(Len(Bounds(q)) - 1) |-> e(k)]
      BY Zenon DEF Tokens, Bounds
    <2>2. Len(Bounds(q)) - 1 = N
      BY <1>1
    <2> HIDE DEF t, e, N
    <2> QED
      BY <2>1, <2>2
  <1> HIDE DEF e, t, N
  <1>3. t \in [1..N -> T]
    BY <1>2
  <1>4. t \in Seq(T)
    BY <1>1, <1>3, SeqDef
  <1>5. Len(t) \in Nat /\ DOMAIN t = 1..Len(t) /\ DOMAIN t = 1..N
    BY <1>3, <1>4, LenProperties
  <1>6. Len(t) = N
    <2> DEFINE m == Len(t)
               D == DOMAIN t
    <2>1. m \in Nat /\ D = 1..m /\ D = 1..N
      BY <1>5
    <2> HIDE DEF m, D, T
    <2>2. m = N
      BY <1>1, <2>1
    <2> QED
      BY <2>2 DEF m
  <1>7. \A k \in 1..N : t[k] = e(k)
    BY <1>2
  <1> QED
    BY <1>1, <1>5, <1>6, <1>7 DEF t, N, e

\* The pointer up to the last slash of a pointer: it is one too, and has the
\* same tokens but for the last.
LEMMA UpToLastSlash ==
    ASSUME NEW q \in Seq(Symbols), is_valid_json_pointer(q),
           NEW i \in Slashes(q), \A j \in Slashes(q) : j <= i
    PROVE  LET b == Before(q, i)
           IN /\ is_valid_json_pointer(b)
              /\ Len(Tokens(q)) > 0
              /\ Len(Tokens(b)) = Len(Tokens(q)) - 1
              /\ \A k \in 1..Len(Tokens(b)) : Tokens(b)[k] = Tokens(q)[k]
  <1> DEFINE b == Before(q, i)
             N == Cardinality(Slashes(q))
  <1>1. i \in Int /\ 1 <= i /\ i <= Len(q) /\ Len(q) \in Nat /\ q[i] = "/" /\ DOMAIN q = 1..Len(q)
    BY LenProperties DEF Slashes
  <1>2. b \in Seq(Symbols) /\ Len(b) = i - 1 /\ DOMAIN b = 1..(i - 1) /\ \A k \in 1..(i - 1) : b[k] = q[k]
    <2>1. \A k \in 1..(i - 1) : q[k] \in Symbols
      BY <1>1, ElementOfSeq
    <2> QED
      BY <1>1, <2>1 DEF Before
  <1> HIDE DEF b
  <1>3. is_valid_json_pointer(b)
    <2>1. CASE i = 1
      BY <1>2, <2>1 DEF is_valid_json_pointer
    <2>2. CASE i > 1
      <3>1. q # <<>>
        BY <1>1
      <3>2. q[1] = "/" /\ \A k \in DOMAIN q : q[k] = "~" => k < Len(q) /\ q[k + 1] \in {"0", "1"}
        BY <3>1 DEF is_valid_json_pointer
      <3>3. b[1] = "/"
        BY <1>1, <1>2, <2>2, <3>2
      <3>4. ASSUME NEW k \in DOMAIN b, b[k] = "~" PROVE k < Len(b) /\ b[k + 1] \in {"0", "1"}
        <4>1. k \in 1..(i - 1) /\ k \in DOMAIN q /\ q[k] = "~"
          BY <1>1, <1>2, <3>4
        <4>2. q[k + 1] \in {"0", "1"}
          BY <3>2, <4>1
        <4>3. k + 1 # i
          BY <1>1, <4>2
        <4>4. k + 1 \in 1..(i - 1)
          BY <1>1, <4>1, <4>3
        <4> QED
          BY <1>1, <1>2, <4>2, <4>4
      <3> QED
        BY <3>3, <3>4 DEF is_valid_json_pointer
    <2> QED
      BY <1>1, <2>1, <2>2
  <1>4. Slashes(b) = Slashes(q) \ {i}
    BY <1>1, <1>2 DEF Slashes
  <1>5. /\ N \in Nat /\ N > 0
        /\ Cardinality(Slashes(b)) = N - 1
        /\ \A k \in 1..(N - 1) : Ranked(Slashes(q), k) = Ranked(Slashes(b), k)
        /\ Ranked(Slashes(q), N) = {i}
    <2>1. Slashes(q) \in SUBSET (1..Len(q))
      BY <1>1 DEF Slashes
    <2>2. Len(q) \in Nat
      BY <1>1
    <2>3. LET M == Cardinality(Slashes(q))
          IN /\ M \in Nat /\ M > 0
             /\ Cardinality(Slashes(q) \ {i}) = M - 1
             /\ \A k \in 1..(M - 1) : Ranked(Slashes(q), k) = Ranked(Slashes(q) \ {i}, k)
             /\ Ranked(Slashes(q), M) = {i}
      BY <2>1, <2>2, RankedWithout
    <2> QED
      BY <1>4, <2>3
  <1>6. /\ \A k \in 1..N : Bounds(q)[k] = CHOOSE j \in Ranked(Slashes(q), k) : TRUE
        /\ \A k \in 1..(N - 1) : Bounds(b)[k] = CHOOSE j \in Ranked(Slashes(b), k) : TRUE
        /\ \A k \in 1..(N - 1) : Bounds(b)[k] \in Slashes(b)
        /\ Bounds(b)[(N - 1) + 1] = Len(b) + 1
    BY <1>2, <1>5, BoundsAre
  <1> HIDE DEF N
  <1>7. \A k \in 1..N : Bounds(b)[k] = Bounds(q)[k] /\ Bounds(b)[k] \in 1..i
    <2> TAKE k \in 1..N
    <2>1. CASE k \in 1..(N - 1)
      <3>1. Bounds(b)[k] = Bounds(q)[k]
        BY <1>5, <1>6, <2>1
      <3>2. Bounds(b)[k] \in 1..(i - 1)
        BY <1>2, <1>6, <2>1 DEF Slashes
      <3> QED
        BY <1>1, <3>1, <3>2
    <2>2. CASE k = N
      <3>1. Bounds(q)[k] = CHOOSE j \in Ranked(Slashes(q), k) : TRUE
        BY <1>6
      <3>2. Bounds(q)[N] = i
        BY <1>5, <2>2, <3>1
      <3>3. Bounds(b)[N] = i
        BY <1>1, <1>2, <1>5, <1>6
      <3> QED
        BY <1>1, <2>2, <3>2, <3>3
    <2> QED
      BY <1>5, <2>1, <2>2
  <1>8. Len(Tokens(q)) = N /\ Len(Tokens(b)) = N - 1
    BY <1>2, <1>5, TokensAre DEF N
  <1>9. ASSUME NEW k \in 1..(N - 1) PROVE Tokens(b)[k] = Tokens(q)[k]
    <2> DEFINE x == Bounds(q)[k]
               y == Bounds(q)[k + 1]
    <2>1. k \in 1..N /\ k + 1 \in 1..N
      BY <1>5
    <2>2. x \in 1..i /\ y \in 1..i /\ Bounds(b)[k] = x /\ Bounds(b)[k + 1] = y
      BY <1>7, <2>1
    <2>3. /\ Tokens(q)[k] = unescape_pointer_token(SubSeq(q, x + 1, y - 1))
          /\ Tokens(b)[k] = unescape_pointer_token(SubSeq(b, x + 1, y - 1))
      BY <1>2, <1>5, <2>1, <2>2, TokensAre DEF N
    <2> HIDE DEF x, y
    <2>4. SubSeq(q, x + 1, y - 1) = SubSeq(b, x + 1, y - 1)
      <3>1. x + 1 \in Int /\ y - 1 \in Int
        BY <1>1, <2>2
      <3>2. \A j \in (x + 1)..(y - 1) : q[j] \in Symbols /\ b[j] \in Symbols /\ q[j] = b[j]
        <4> TAKE j \in (x + 1)..(y - 1)
        <4>1. j \in 1..(i - 1) /\ j \in 1..Len(q) /\ j \in 1..Len(b)
          BY <1>1, <1>2, <2>2
        <4> QED
          BY <1>2, <4>1, ElementOfSeq
      <3> DEFINE s == SubSeq(q, x + 1, y - 1)
                 u == SubSeq(b, x + 1, y - 1)
      <3>3. /\ s \in Seq(Symbols) /\ u \in Seq(Symbols)
            /\ Len(s) = IF x + 1 <= y - 1 THEN (y - 1) - (x + 1) + 1 ELSE 0
            /\ Len(u) = IF x + 1 <= y - 1 THEN (y - 1) - (x + 1) + 1 ELSE 0
            /\ \A j \in 1..((y - 1) - (x + 1) + 1) : s[j] = q[(x + 1) + j - 1] /\ u[j] = b[(x + 1) + j - 1]
        BY <3>1, <3>2, SubSeqProperties
      <3> HIDE DEF s, u
      <3>4. ASSUME NEW j \in 1..Len(s) PROVE s[j] = u[j]
        <4>1. j \in 1..((y - 1) - (x + 1) + 1) /\ (x + 1) + j - 1 \in (x + 1)..(y - 1)
          BY <1>1, <2>2, <3>3
        <4> QED
          BY <3>2, <3>3, <4>1
      <3>5. s = u
        BY <3>3, <3>4, SeqEqual
      <3> QED
        BY <3>5 DEF s, u
    <2> QED
      BY <2>3, <2>4
  <1> QED
    BY <1>3, <1>5, <1>8, <1>9 DEF b

\* A pointer with a "#" before it: what is before a slash is the same without it.
LEMMA HashIs ==
    ASSUME NEW p \in Seq(Symbols)
    PROVE  LET q == WithoutHash(p)
           IN /\ q \in Seq(Symbols)
              /\ \E o \in {0, 1} :
                    /\ \A j \in Slashes(q) : j + o \in Slashes(p)
                    /\ \A i \in Slashes(p) : /\ i - o \in Slashes(q)
                                             /\ WithoutHash(Before(p, i)) = Before(q, i - o)
  <1> DEFINE q == WithoutHash(p)
  <1>1. Len(p) \in Nat /\ DOMAIN p = 1..Len(p)
    BY LenProperties
  <1>2. ASSUME NEW i \in Slashes(p)
        PROVE  /\ i \in 1..Len(p) /\ p[i] = "/"
               /\ Before(p, i) \in Seq(Symbols) /\ Len(Before(p, i)) = i - 1
               /\ \A k \in 1..(i - 1) : Before(p, i)[k] = p[k]
    <2>1. i \in 1..Len(p) /\ p[i] = "/"
      BY <1>1 DEF Slashes
    <2>2. \A k \in 1..(i - 1) : p[k] \in Symbols
      BY <2>1, ElementOfSeq
    <2> QED
      BY <1>1, <2>1, <2>2 DEF Before
  <1>3. CASE ~ Begins(p, "#")
    <2>1. q = p
      BY <1>3 DEF WithoutHash
    <2>2. ASSUME NEW i \in Slashes(p) PROVE WithoutHash(Before(p, i)) = Before(p, i)
      <3>1. ~ Begins(Before(p, i), "#")
        <4> SUFFICES ASSUME Before(p, i) # <<>>, Before(p, i)[1] = "#" PROVE FALSE
          BY DEF Begins
        <4>1. i - 1 > 0
          BY <1>1, <1>2
        <4>2. p[1] = "#" /\ p # <<>>
          BY <1>1, <1>2, <4>1
        <4> QED
          BY <1>3, <4>2 DEF Begins
      <3> QED
        BY <3>1 DEF WithoutHash
    <2>3. /\ \A j \in Slashes(p) : j + 0 \in Slashes(p)
          /\ \A i \in Slashes(p) : i - 0 = i
      BY <1>2
    <2> QED
      BY <2>1, <2>2, <2>3
  <1>4. CASE Begins(p, "#")
    <2>1. p # <<>> /\ p[1] = "#" /\ q = Tail(p)
      BY <1>4 DEF Begins, WithoutHash
    <2>2. /\ q \in Seq(Symbols) /\ Len(q) = Len(p) - 1 /\ Len(q) \in Nat /\ DOMAIN q = 1..Len(q)
          /\ \A k \in 1..Len(q) : q[k] = p[k + 1]
      BY <2>1, HeadTailProperties, LenProperties
    <2> HIDE DEF q
    <2>3. \A j \in Slashes(q) : j + 1 \in Slashes(p)
      BY <1>1, <2>2 DEF Slashes
    <2>4. ASSUME NEW i \in Slashes(p)
          PROVE  i - 1 \in Slashes(q) /\ WithoutHash(Before(p, i)) = Before(q, i - 1)
      <3> DEFINE b == Before(p, i)
                 c == Before(q, i - 1)
      <3>1. i \in 2..Len(p) /\ p[i] = "/"
        BY <1>2, <2>1
      <3>2. i - 1 \in Slashes(q)
        BY <2>2, <3>1 DEF Slashes
      <3>3. b \in Seq(Symbols) /\ Len(b) = i - 1 /\ \A k \in 1..(i - 1) : b[k] = p[k]
        BY <1>2
      <3>4. c \in Seq(Symbols) /\ Len(c) = i - 2 /\ \A k \in 1..(i - 2) : c[k] = q[k]
        <4>1. \A k \in 1..(i - 2) : q[k] \in Symbols
          BY <2>2, <3>1, ElementOfSeq
        <4> QED
          BY <2>2, <3>1, <4>1 DEF Before
      <3> HIDE DEF b, c
      <3>5. b # <<>> /\ b[1] = "#"
        BY <2>1, <3>1, <3>3
      <3>6. WithoutHash(b) = Tail(b)
        BY <3>5 DEF WithoutHash, Begins
      <3>7. Tail(b) \in Seq(Symbols) /\ Len(Tail(b)) = Len(b) - 1 /\ \A k \in 1..Len(Tail(b)) : Tail(b)[k] = b[k + 1]
        BY <3>3, <3>5, HeadTailProperties
      <3>8. Len(Tail(b)) = Len(c)
        BY <3>1, <3>3, <3>4, <3>7
      <3>9. ASSUME NEW k \in 1..Len(c) PROVE Tail(b)[k] = c[k]
        <4>1. k \in 1..(i - 2) /\ k + 1 \in 1..(i - 1) /\ k \in 1..Len(q) /\ k \in 1..Len(Tail(b))
          BY <2>2, <3>1, <3>4, <3>8
        <4>2. c[k] = p[k + 1]
          BY <2>2, <3>4, <4>1
        <4>3. Tail(b)[k] = p[k + 1]
          BY <3>3, <3>7, <4>1
        <4> QED
          BY <4>2, <4>3
      <3>10. Tail(b) = c
        BY <3>4, <3>7, <3>8, <3>9, SeqEqual
      <3> QED
        BY <3>2, <3>6, <3>10 DEF b, c
    <2>5. 1 \in {0, 1}
      OBVIOUS
    <2>6. \E o \in {0, 1} :
              /\ \A j \in Slashes(q) : j + o \in Slashes(p)
              /\ \A i \in Slashes(p) : i - o \in Slashes(q) /\ WithoutHash(Before(p, i)) = Before(q, i - o)
      BY <2>3, <2>4, <2>5
    <2> QED
      BY <2>2, <2>6 DEF q
  <1> QED
    BY <1>3, <1>4

\* A text with slashes in it has a last one.
LEMMA LastSlash ==
    ASSUME NEW q \in Seq(Symbols), Slashes(q) # {}
    PROVE  \E i \in Slashes(q) : \A j \in Slashes(q) : j <= i
  <1> DEFINE n == Len(q)
             D == {n - j : j \in Slashes(q)}
  <1>1. n \in Nat /\ \A j \in Slashes(q) : j \in 1..n
    BY LenProperties DEF Slashes
  <1> HIDE DEF n
  <1>2. D \subseteq Nat /\ D # {}
    BY <1>1
  <1>3. PICK d \in D : \A e \in D : d <= e
    <2> HIDE DEF D
    <2> QED
      BY <1>2, LeastOf
  <1>4. PICK i \in Slashes(q) : d = n - i
    BY <1>3
  <1>5. ASSUME NEW j \in Slashes(q) PROVE j <= i
    <2>1. n - j \in D
      OBVIOUS
    <2>2. n - i <= n - j
      BY <1>3, <1>4, <2>1
    <2> QED
      BY <1>1, <2>2
  <1> QED
    BY <1>5

-----------------------------------------------------------------------------
(* A replacement *)

LEMMA ResolvedIsOutcome ==
    ASSUME NEW value, NEW ctx
    PROVE  LET m == Resolved(value, ctx) IN IF IsOk(m) THEN m = Ok(m[2]) ELSE m = Failed
  BY Outcomes DEF Resolved, Then

LEMMA FollowIs ==
    ASSUME NEW v, NEW p, IsPointer(p)
    PROVE  evaluate_json_pointer(v, p) = Walk(v, Tokens(WithoutHash(p)))
  BY DEF evaluate_json_pointer, FollowFrom, IsPointer

\* What apply_payload_replacement answers.
LEMMA AppliedIs ==
    ASSUME NEW payload, NEW p, NEW value, NEW ctx
    PROVE  LET t == Tokens(WithoutHash(p))
               new == Resolved(value, ctx)
               slots == Slots(payload, t)
           IN apply_payload_replacement(payload, p, value, ctx) =
                 IF IsPointer(p) /\ IsOk(new) /\ IsOk(slots[Len(t)])
                 THEN Ok(Made(slots, t, new[2])[0]) ELSE Failed
  BY DEF apply_payload_replacement, set_json_pointer_value, IsPointer, Then

LEMMA SlashAfter ==
    ASSUME NEW p \in Seq(Symbols), NEW i \in 1..Len(p)
    PROVE  "/" \in ToSet(After(p, i)) <=> \E j \in Slashes(p) : j > i
  <1> DEFINE a == After(p, i)
             n == Len(p)
  <1>1. n \in Nat /\ i \in 1..n /\ DOMAIN p = 1..n
    BY LenProperties
  <1>2. \A k \in (i + 1)..n : p[k] \in Symbols
    BY <1>1, ElementOfSeq
  <1>3. /\ a \in Seq(Symbols) /\ Len(a) = IF i + 1 <= n THEN n - (i + 1) + 1 ELSE 0
        /\ \A x \in 1..(n - (i + 1) + 1) : a[x] = p[(i + 1) + x - 1]
    BY <1>1, <1>2, SubSeqProperties DEF After
  <1> HIDE DEF a, n
  <1>4. Len(a) = n - i /\ DOMAIN a = 1..(n - i) /\ \A x \in 1..(n - i) : a[x] = p[i + x]
    <2>1. Len(a) = n - i
      BY <1>1, <1>3
    <2>2. DOMAIN a = 1..Len(a)
      BY <1>3, LenProperties
    <2>3. ASSUME NEW x \in 1..(n - i) PROVE a[x] = p[i + x]
      <3>1. x \in 1..(n - (i + 1) + 1) /\ (i + 1) + x - 1 = i + x
        BY <1>1
      <3> QED
        BY <1>3, <3>1
    <2> QED
      BY <2>1, <2>2, <2>3
  <1>5. ASSUME NEW j \in Slashes(p), j > i PROVE "/" \in ToSet(a)
    <2>1. j - i \in 1..(n - i) /\ i + (j - i) = j /\ p[j] = "/"
      BY <1>1, <1>5 DEF Slashes
    <2> QED
      BY <1>4, <2>1 DEF ToSet
  <1>6. ASSUME "/" \in ToSet(a) PROVE \E j \in Slashes(p) : j > i
    <2>1. PICK x \in 1..(n - i) : a[x] = "/"
      BY <1>4, <1>6 DEF ToSet
    <2>2. i + x \in 1..n /\ p[i + x] = "/" /\ i + x > i
      BY <1>1, <1>4, <2>1
    <2> QED
      BY <1>1, <2>2 DEF Slashes
  <1> QED
    BY <1>5, <1>6 DEF a

\* There is something to replace just when the last of the slots is there.
LEMMA ReplaceableIs ==
    ASSUME NEW p \in Seq(Symbols), IsPointer(p)
    PROVE  LET t == Tokens(WithoutHash(p))
           IN Replaceable(p) <=> IsOk(Slots(body, t)[Len(t)])
  <1> DEFINE q == WithoutHash(p)
             t == Tokens(q)
             n == Len(t)
             r == Reach(body, t)
  <1>1. q \in Seq(Symbols) /\ is_valid_json_pointer(q)
    BY HashIs DEF IsPointer
  <1>2. PICK o \in {0, 1} :
            /\ \A j \in Slashes(q) : j + o \in Slashes(p)
            /\ \A i \in Slashes(p) : i - o \in Slashes(q) /\ WithoutHash(Before(p, i)) = Before(q, i - o)
    BY HashIs
  <1>3. Present(p) <=> IsOk(r[n])
    BY FollowIs DEF Present, Walk
  <1> HIDE DEF q
  <1>4. n \in Nat
    BY <1>1, TokensAre
  <1>5. \A x : x \in Slashes(q) => x \in Int
    BY <1>1, LenProperties DEF Slashes
  \* The map that is found up to the last slash is the last but one that is reached.
  <1>6. ASSUME NEW i \in Slashes(q), \A j \in Slashes(q) : j <= i
        PROVE  /\ n > 0
               /\ HoldsMap(Before(p, i + o)) <=> IsOk(r[n - 1]) /\ Is(r[n - 1][2], "map")
    <2> DEFINE b == Before(q, i)
               u == Tokens(b)
    <2>1. /\ is_valid_json_pointer(b) /\ n > 0 /\ Len(u) = n - 1
          /\ \A k \in 1..Len(u) : u[k] = t[k]
      BY <1>1, <1>6, UpToLastSlash
    <2>2. i + o \in Slashes(p) /\ (i + o) - o = i
      BY <1>2, <1>5
    <2>3. WithoutHash(Before(p, i + o)) = b
      BY <1>2, <2>2
    <2>4. IsPointer(Before(p, i + o))
      BY <2>1, <2>3 DEF IsPointer
    <2>5. evaluate_json_pointer(body, Before(p, i + o)) = Walk(body, u)
      BY <2>3, <2>4, FollowIs
    <2> HIDE DEF u, t, n, r
    <2>6. Reach(body, u)[n - 1] = r[n - 1]
      <3> DEFINE m == n - 1
      <3>1. m \in Nat /\ Len(u) = m /\ m <= Len(t) /\ Len(t) \in Nat /\ \A k \in 1..m : u[k] = t[k]
        BY <1>4, <2>1 DEF n
      <3> HIDE DEF m
      <3>2. \A k \in 0..m : Reach(body, u)[k] = Reach(body, t)[k]
        BY <3>1, ReachAgrees
      <3>3. m \in 0..m
        BY <3>1
      <3> QED
        BY <3>2, <3>3 DEF m, r
    <2>7. Walk(body, u) = r[n - 1]
      BY <2>1, <2>6 DEF Walk
    <2> QED
      BY <2>1, <2>5, <2>7 DEF HoldsMap, Present
  <1>7. n > 0 <=> Slashes(q) # {}
    <2>1. n = Cardinality(Slashes(q))
      BY <1>1, TokensAre
    <2>2. Slashes(q) \in SUBSET (1..Len(q)) /\ Len(q) \in Nat
      BY <1>1, LenProperties DEF Slashes
    <2>3. IsFiniteSet(Slashes(q))
      BY <2>2, FiniteInterval
    <2> HIDE DEF n
    <2> QED
      BY <1>4, <2>1, <2>3, FS_EmptySet
  <1>8. ASSUME NEW i \in DOMAIN p, p[i] = "/", "/" \notin ToSet(After(p, i))
        PROVE  i - o \in Slashes(q) /\ i = (i - o) + o /\ \A j \in Slashes(q) : j <= i - o
    <2>1. i \in Slashes(p) /\ i \in 1..Len(p) /\ Len(p) \in Nat
      BY <1>8, LenProperties DEF Slashes
    <2>2. i - o \in Slashes(q)
      BY <1>2, <2>1
    <2>3. ASSUME NEW j \in Slashes(q), j > i - o PROVE FALSE
      <3>1. j + o \in Slashes(p) /\ j \in Int
        BY <1>2, <1>5
      <3>2. j + o > i
        BY <1>2, <2>1, <2>3, <3>1
      <3> QED
        BY <1>8, <2>1, <3>1, <3>2, SlashAfter
    <2>4. i - o \in Int /\ i = (i - o) + o
      BY <1>2, <2>1
    <2> QED
      BY <1>5, <2>2, <2>3, <2>4
  <1>9. ASSUME NEW i \in Slashes(q), \A j \in Slashes(q) : j <= i
        PROVE  i + o \in DOMAIN p /\ p[i + o] = "/" /\ "/" \notin ToSet(After(p, i + o))
    <2>1. i + o \in Slashes(p) /\ i + o \in 1..Len(p) /\ Len(p) \in Nat /\ DOMAIN p = 1..Len(p) /\ i \in Int
      BY <1>2, <1>5, LenProperties DEF Slashes
    <2>2. p[i + o] = "/"
      BY <2>1 DEF Slashes
    <2>3. ASSUME "/" \in ToSet(After(p, i + o)) PROVE FALSE
      <3>1. PICK k \in Slashes(p) : k > i + o
        BY <2>1, <2>3, SlashAfter
      <3>2. k - o \in Slashes(q) /\ k \in Int
        BY <1>2, LenProperties DEF Slashes
      <3>3. k - o > i
        BY <1>2, <2>1, <3>1, <3>2
      <3>4. k - o <= i
        BY <1>9, <3>2
      <3> QED
        BY <1>2, <2>1, <3>2, <3>3, <3>4
    <2> QED
      BY <2>1, <2>2, <2>3
  <1> HIDE DEF t, n, r
  <1>10. (\E i \in DOMAIN p : p[i] = "/" /\ "/" \notin ToSet(After(p, i)) /\ HoldsMap(Before(p, i)))
            <=> n > 0 /\ IsOk(r[n - 1]) /\ Is(r[n - 1][2], "map")
    <2>1. ASSUME NEW i \in DOMAIN p, p[i] = "/", "/" \notin ToSet(After(p, i)), HoldsMap(Before(p, i))
          PROVE  n > 0 /\ IsOk(r[n - 1]) /\ Is(r[n - 1][2], "map")
      <3>1. i - o \in Slashes(q) /\ i = (i - o) + o /\ \A j \in Slashes(q) : j <= i - o
        BY <1>8, <2>1
      <3> DEFINE l == i - o
      <3> HIDE DEF l
      <3>2. l \in Slashes(q) /\ i = l + o /\ \A j \in Slashes(q) : j <= l
        BY <3>1 DEF l
      <3> QED
        BY <1>6, <2>1, <3>2
    <2>2. ASSUME n > 0, IsOk(r[n - 1]), Is(r[n - 1][2], "map")
          PROVE  \E i \in DOMAIN p : p[i] = "/" /\ "/" \notin ToSet(After(p, i)) /\ HoldsMap(Before(p, i))
      <3>1. PICK i \in Slashes(q) : \A j \in Slashes(q) : j <= i
        BY <1>1, <1>7, <2>2, LastSlash
      <3>2. HoldsMap(Before(p, i + o))
        BY <1>6, <2>2, <3>1
      <3> QED
        BY <1>9, <3>1, <3>2
    <2> QED
      BY <2>1, <2>2
  <1>11. IsOk(Slots(body, t)[n]) <=> IsOk(r[n]) \/ (n > 0 /\ IsOk(r[n - 1]) /\ Is(r[n - 1][2], "map"))
    BY <1>4, SlotsSucceed DEF n, r
  <1>12. Replaceable(p) <=> IsOk(Slots(body, t)[n])
    BY <1>3, <1>10, <1>11 DEF Replaceable
  <1> QED
    BY <1>12 DEF q, t, n

-----------------------------------------------------------------------------
(* The theorems *)

LEMMA ReplaceIsLocalStep ==
    ASSUME NEW target \in Targets, NEW new \in Values, Replace(target, new)
    PROVE  IsLocal(target, Resolved(new.value, Context(body, NoHeader)))
  <1> DEFINE m == Resolved(new.value, Context(body, NoHeader))
             t == Tokens(WithoutHash(target))
             slots == Slots(body, t)
             r == apply_payload_replacement(body, target, new.value, Context(body, NoHeader))
             made == Made(slots, t, m[2])[0]
  <1>1. target \in Seq(Symbols)
    BY TargetsAssumption, TextsOfStrings
  <1>2. Replaced(target, new, r)
    BY DEF Replace
  <1>3. r = IF IsPointer(target) /\ IsOk(m) /\ IsOk(slots[Len(t)]) THEN Ok(made) ELSE Failed
    BY AppliedIs
  <1>4. body' = (IF IsOk(r) THEN r[2] ELSE body) /\ call'.outcome = IsOk(r)
    BY <1>2 DEF Replaced
  <1>5. IF IsOk(m) THEN m = Ok(m[2]) ELSE m = Failed
    BY ResolvedIsOutcome
  <1>6. IsPointer(target) => (Replaceable(target) <=> IsOk(slots[Len(t)]))
    BY <1>1, ReplaceableIs
  <1>7. Replaceable(target) => IsPointer(target)
    BY DEF Replaceable
  <1>8. \A q \in Seq(Symbols) : /\ Len(Tokens(WithoutHash(q))) \in Nat
                               /\ DOMAIN Tokens(WithoutHash(q)) = 1..Len(Tokens(WithoutHash(q)))
    <2> TAKE q \in Seq(Symbols)
    <2>1. WithoutHash(q) \in Seq(Symbols)
      BY HashIs
    <2> DEFINE w == WithoutHash(q)
    <2> HIDE DEF w
    <2>2. w \in Seq(Symbols)
      BY <2>1 DEF w
    <2>3. Len(Tokens(w)) \in Nat /\ DOMAIN Tokens(w) = 1..Len(Tokens(w))
      BY <2>2, TokensAre
    <2> QED
      BY <2>3 DEF w
  <1> HIDE DEF m, t, slots, r, made
  <1>9. call'.outcome <=> IsOk(m) /\ Replaceable(target)
    BY <1>3, <1>4, <1>6, <1>7, Outcomes
  <1>10. ASSUME ~ call'.outcome PROVE body' = body
    BY <1>4, <1>10
  <1>11. ASSUME call'.outcome
         PROVE  /\ evaluate_json_pointer(body', target) = m
                /\ \A q \in Targets : IsPointer(q) /\ Apart(body, target, q) =>
                       evaluate_json_pointer(body', q) = evaluate_json_pointer(body, q)
    <2>1. IsPointer(target) /\ IsOk(m) /\ IsOk(slots[Len(t)]) /\ body' = made
      BY <1>3, <1>4, <1>11, Outcomes
    <2>2. Len(t) \in Nat /\ DOMAIN t = 1..Len(t)
      BY <1>1, <1>8 DEF t
    <2>3. evaluate_json_pointer(body', target) = Walk(made, t)
      <3>1. evaluate_json_pointer(made, target) = Walk(made, t)
        BY <2>1, FollowIs DEF t
      <3> QED
        BY <2>1, <3>1
    <2>4. Walk(made, t) = Ok(m[2])
      BY <2>1, <2>2, SetThenFound DEF made, slots
    <2>5. ASSUME NEW q \in Targets, IsPointer(q), Apart(body, target, q)
          PROVE  evaluate_json_pointer(body', q) = evaluate_json_pointer(body, q)
      <3> DEFINE u == Tokens(WithoutHash(q))
      <3>1. Len(u) \in Nat /\ DOMAIN u = 1..Len(u)
        BY <1>8, TargetsAssumption
      <3>2. ~ IsPrefix(Places(body, t), Places(body, u)) /\ ~ IsPrefix(Places(body, u), Places(body, t))
        BY <2>5 DEF Apart, t
      <3>3. evaluate_json_pointer(made, q) = Walk(made, u) /\ evaluate_json_pointer(body, q) = Walk(body, u)
        BY <2>5, FollowIs
      <3> HIDE DEF u
      <3>4. Walk(made, u) = Walk(body, u)
        BY <2>1, <2>2, <3>1, <3>2, SetElsewhere DEF made, slots
      <3> QED
        BY <2>1, <3>3, <3>4
    <2> QED
      BY <1>5, <2>1, <2>3, <2>4, <2>5
  <1> QED
    BY <1>9, <1>10, <1>11 DEF IsLocal, m

\* No other step begins a replacement.
LEMMA OnlyReplaceBegins ==
    ASSUME ReplacementsNext, call = Idle, call'.what = "replace"
    PROVE  /\ call'.new \in Values
           /\ IsLocal(call'.target, Resolved(call'.new.value, Context(body, NoHeader)))
  <1>1. ASSUME NEW target \in Targets, NEW new \in Values, Replace(target, new)
        PROVE  /\ call'.new \in Values
               /\ IsLocal(call'.target, Resolved(call'.new.value, Context(body, NoHeader)))
    <2>1. call'.target = target /\ call'.new = new
      BY <1>1 DEF Replace, Replaced
    <2>2. IsLocal(target, Resolved(new.value, Context(body, NoHeader)))
      BY <1>1, ReplaceIsLocalStep
    <2> QED
      BY <2>1, <2>2
  <1>2. ~ \E c : c.what # "replace" /\ Answer(c)
    BY DEF Answer
  <1>3. ~ Return
    BY DEF Return
  <1> QED
    BY <1>1, <1>2, <1>3 DEF ReplacementsNext

\* Every replacement, whatever the payload, the pointer and the value, succeeds
\* just when its value is found in the context and there is something to
\* replace; its pointer then finds that value, every pointer that leads
\* elsewhere finds what it found before, and a failure leaves the payload alone
\* (apply_payload_replacement and set_json_pointer_value).
THEOREM ReplacementsAreLocal ==
    ReplacementsSpec =>
        [][call = Idle /\ call'.what = "replace" =>
              IsLocal(call'.target, Resolved(call'.new.value, Context(body, NoHeader)))]_vars
  <1>1. [ReplacementsNext]_vars =>
           [call = Idle /\ call'.what = "replace" =>
               IsLocal(call'.target, Resolved(call'.new.value, Context(body, NoHeader)))]_vars
    BY OnlyReplaceBegins
  <1> QED
    BY <1>1, PTL DEF ReplacementsSpec

\* The property that the runs check: values that mean the same whatever the
\* payload is are found as what they mean.
THEOREM ReplacedMeansIt ==
    ASSUME \A new \in Values : \A payload : Resolved(new.value, Context(payload, NoHeader)) = new.means
    PROVE  ReplacementsSpec => ReplaceIsLocal
  <1>1. [ReplacementsNext]_vars =>
           [call = Idle /\ call'.what = "replace" => IsLocal(call'.target, call'.new.means)]_vars
    BY OnlyReplaceBegins
  <1> QED
    BY <1>1, PTL DEF ReplacementsSpec, ReplaceIsLocal
-----------------------------------------------------------------------------
(* Pointers as they are written, and what the code reads in them *)

Text  == Seq(Symbols)
Parts == Seq(Text)

\* A sequence is put together from its parts one by one.
LEMMA FlattenExists ==
    ASSUME NEW s, NEW m \in Nat
    PROVE  \E g : g = [i \in 1..m |-> IF i = 1 THEN s[i] ELSE g[i - 1] \o s[i]]
  <1> DEFINE Right(g, n) == g = [i \in 1..n |-> IF i = 1 THEN s[i] ELSE g[i - 1] \o s[i]]
             S == {n \in Nat : \E g : Right(g, n)}
  <1>1. 0 \in S
    <2> DEFINE g == [i \in 1..0 |-> s[i]]
    <2>1. Right(g, 0)
      OBVIOUS
    <2> QED
      BY <2>1
  <1>2. ASSUME NEW n \in Nat, n \in S PROVE n + 1 \in S
    <2>1. PICK g : Right(g, n)
      BY <1>2
    <2> DEFINE last == IF n + 1 = 1 THEN s[n + 1] ELSE g[n] \o s[n + 1]
               h == [i \in 1..(n + 1) |-> IF i = n + 1 THEN last ELSE g[i]]
    <2>2. \A i \in 1..(n + 1) : h[i] = IF i = 1 THEN s[i] ELSE h[i - 1] \o s[i]
      <3> TAKE i \in 1..(n + 1)
      <3>1. CASE i = n + 1
        <4>1. h[i] = last
          BY <3>1
        <4>2. CASE i = 1
          BY <3>1, <4>1, <4>2
        <4>3. CASE i # 1
          <5>1. i - 1 = n /\ i - 1 \in 1..(n + 1) /\ i - 1 # n + 1
            BY <3>1, <4>3
          <5>2. h[i - 1] = g[n]
            BY <5>1
          <5> HIDE DEF h
          <5> QED
            BY <3>1, <4>1, <4>3, <5>2
        <4> QED
          BY <4>2, <4>3
      <3>2. CASE i # n + 1
        <4>1. i \in 1..n /\ h[i] = g[i]
          BY <3>2
        <4>2. g[i] = IF i = 1 THEN s[i] ELSE g[i - 1] \o s[i]
          BY <2>1, <4>1
        <4>3. CASE i = 1
          BY <4>1, <4>2, <4>3
        <4>4. CASE i # 1
          <5>1. i - 1 \in 1..(n + 1) /\ i - 1 # n + 1
            BY <3>2, <4>4
          <5>2. h[i - 1] = g[i - 1]
            BY <5>1
          <5> HIDE DEF h
          <5> QED
            BY <4>1, <4>2, <4>4, <5>2
        <4> QED
          BY <4>3, <4>4
      <3> QED
        BY <3>1, <3>2
    <2>3. h = [i \in 1..(n + 1) |-> h[i]]
      OBVIOUS
    <2> HIDE DEF h
    <2>4. Right(h, n + 1)
      BY <2>2, <2>3
    <2> HIDE DEF Right
    <2> QED
      BY <2>4
  <1> HIDE DEF Right
  <1>3. Nat \subseteq S
    <2> HIDE DEF S
    <2> QED
      BY <1>1, <1>2, NatInSet
  <1> QED
    BY <1>3 DEF Right

\* What is put together of the first k parts.
Upto(s) == CHOOSE g : g = [i \in 1..Len(s) |-> IF i = 1 THEN s[i] ELSE g[i - 1] \o s[i]]

LEMMA UptoIs ==
    ASSUME NEW s \in Parts
    PROVE  /\ Len(s) \in Nat
           /\ \A k \in 1..Len(s) : /\ Upto(s)[k] = IF k = 1 THEN s[k] ELSE Upto(s)[k - 1] \o s[k]
                                   /\ Upto(s)[k] \in Text
           /\ FlattenSeq(s) = IF Len(s) = 0 THEN s ELSE Upto(s)[Len(s)]
  <1>1. Len(s) \in Nat /\ \A k \in 1..Len(s) : s[k] \in Text
    BY LenProperties, ElementOfSeq DEF Parts
  <1> DEFINE f == Upto(s)
  <1>2. f = [i \in 1..Len(s) |-> IF i = 1 THEN s[i] ELSE f[i - 1] \o s[i]]
    BY <1>1, FlattenExists DEF Upto
  <1>3. FlattenSeq(s) = IF Len(s) = 0 THEN s ELSE f[Len(s)]
    BY DEF FlattenSeq, Upto
  <1> HIDE DEF f
  <1>4. \A k \in 1..Len(s) : f[k] = IF k = 1 THEN s[k] ELSE f[k - 1] \o s[k]
    BY <1>2
  <1> DEFINE S == {n \in Nat : n \in 1..Len(s) => f[n] \in Text}
  <1>5. 0 \in S
    OBVIOUS
  <1>6. ASSUME NEW n \in Nat, n \in S PROVE n + 1 \in S
    <2> SUFFICES ASSUME n + 1 \in 1..Len(s) PROVE f[n + 1] \in Text
      BY <1>6
    <2>1. CASE n = 0
      BY <1>1, <1>4, <2>1
    <2>2. CASE n # 0
      <3>1. n \in 1..Len(s) /\ n + 1 # 1 /\ (n + 1) - 1 = n
        BY <1>1, <2>2
      <3>2. f[n] \in Seq(Symbols) /\ s[n + 1] \in Seq(Symbols)
        BY <1>1, <1>6, <3>1 DEF Text
      <3>3. f[n + 1] = f[n] \o s[n + 1]
        BY <1>4, <3>1
      <3> QED
        BY <3>2, <3>3, ConcatProperties DEF Text
    <2> QED
      BY <2>1, <2>2
  <1>7. Nat \subseteq S
    <2> HIDE DEF S
    <2> QED
      BY <1>5, <1>6, NatInSet
  <1>8. \A k \in 1..Len(s) : f[k] \in Text
    BY <1>1, <1>7
  <1> QED
    BY <1>1, <1>3, <1>4, <1>8 DEF f

LEMMA FlattenAppend ==
    ASSUME NEW s \in Parts, NEW x \in Text
    PROVE  /\ FlattenSeq(s) \in Text
           /\ Append(s, x) \in Parts
           /\ FlattenSeq(Append(s, x)) = FlattenSeq(s) \o x
  <1> DEFINE n == Len(s)
             r == Append(s, x)
  <1>1. n \in Nat /\ (n = 0 <=> s = <<>>)
    BY LenProperties, EmptySeq DEF Parts
  <1>2. r \in Parts /\ Len(r) = n + 1 /\ (\A k \in 1..n : r[k] = s[k]) /\ r[n + 1] = x
    BY AppendProperties DEF Parts
  <1> HIDE DEF r
  <1>3. \A k \in 1..n : Upto(s)[k] = IF k = 1 THEN s[k] ELSE Upto(s)[k - 1] \o s[k]
    BY UptoIs
  <1>4. \A k \in 1..(n + 1) : Upto(r)[k] = IF k = 1 THEN r[k] ELSE Upto(r)[k - 1] \o r[k]
    BY <1>2, UptoIs
  <1> DEFINE S == {k \in Nat : k \in 1..n => Upto(r)[k] = Upto(s)[k]}
  <1>5. 0 \in S
    OBVIOUS
  <1>6. ASSUME NEW k \in Nat, k \in S PROVE k + 1 \in S
    <2> SUFFICES ASSUME k + 1 \in 1..n PROVE Upto(r)[k + 1] = Upto(s)[k + 1]
      BY <1>6
    <2>1. k + 1 \in 1..(n + 1) /\ r[k + 1] = s[k + 1]
      BY <1>1, <1>2
    <2>2. CASE k = 0
      BY <1>3, <1>4, <2>1, <2>2
    <2>3. CASE k # 0
      <3>1. k \in 1..n /\ k + 1 # 1 /\ (k + 1) - 1 = k
        BY <1>1, <2>3
      <3>2. Upto(r)[k] = Upto(s)[k]
        BY <1>6, <3>1
      <3>3. Upto(s)[k + 1] = Upto(s)[k] \o s[k + 1]
        BY <1>3, <3>1
      <3>4. Upto(r)[k + 1] = Upto(r)[k] \o r[k + 1]
        BY <1>4, <2>1, <3>1
      <3> QED
        BY <2>1, <3>2, <3>3, <3>4
    <2> QED
      BY <2>2, <2>3
  <1>7. Nat \subseteq S
    <2> HIDE DEF S
    <2> QED
      BY <1>5, <1>6, NatInSet
  <1>8. FlattenSeq(r) = Upto(r)[n + 1]
    BY <1>1, <1>2, UptoIs
  <1>9. CASE n = 0
    <2>1. FlattenSeq(s) = <<>> /\ <<>> \in Text
      BY <1>1, <1>9, UptoIs DEF Text
    <2>2. FlattenSeq(r) = x
      BY <1>2, <1>4, <1>8, <1>9
    <2>3. <<>> \o x = x
      BY DEF Text
    <2> QED
      BY <1>2, <2>1, <2>2, <2>3 DEF r
  <1>10. CASE n # 0
    <2>1. n \in 1..n /\ n + 1 \in 1..(n + 1) /\ n + 1 # 1 /\ (n + 1) - 1 = n
      BY <1>1, <1>10
    <2>2. Upto(r)[n] = Upto(s)[n]
      BY <1>1, <1>7, <2>1
    <2>3. Upto(r)[n + 1] = Upto(r)[n] \o x
      BY <1>2, <1>4, <2>1
    <2>4. FlattenSeq(s) = Upto(s)[n] /\ Upto(s)[n] \in Text
      BY <1>10, <2>1, UptoIs
    <2> QED
      BY <1>2, <1>8, <2>2, <2>3, <2>4 DEF r
  <1> QED
    BY <1>9, <1>10

\* A position behind all others is the last.
LEMMA PositionsAppend ==
    ASSUME NEW n \in Nat, NEW S \in SUBSET (1..n), NEW top \in 1..n, \A j \in S : j < top
    PROVE  LET N == Cardinality(S)
               with == PositionsOf(S \cup {top})
           IN /\ N \in Nat
              /\ DOMAIN PositionsOf(S) = 1..N /\ DOMAIN with = 1..(N + 1)
              /\ \A k \in 1..N : with[k] = PositionsOf(S)[k] /\ PositionsOf(S)[k] \in S
              /\ with[N + 1] = top
              /\ Cardinality(S \cup {top}) = N + 1
  <1> DEFINE T == S \cup {top}
             N == Cardinality(S)
             M == Cardinality(T)
  <1>1. T \in SUBSET (1..n) /\ top \in T /\ (\A j \in T : j <= top) /\ T \ {top} = S
    OBVIOUS
  <1> HIDE DEF T
  <1>2. LET K == Cardinality(T)
        IN /\ K \in Nat /\ K > 0
           /\ Cardinality(T \ {top}) = K - 1
           /\ \A k \in 1..(K - 1) : Ranked(T, k) = Ranked(T \ {top}, k)
           /\ Ranked(T, K) = {top}
    BY <1>1, RankedWithout
  <1>3. /\ M \in Nat /\ N = M - 1 /\ M > 0 /\ Ranked(T, M) = {top}
        /\ \A k \in 1..N : Ranked(T, k) = Ranked(S, k)
    BY <1>1, <1>2
  <1>4. \A k \in 1..N : Ranked(S, k) # {} /\ Ranked(S, k) \subseteq S
    BY RankedExists DEF Ranked
  <1> HIDE DEF N, M
  <1>5. N \in Nat /\ M = N + 1
    BY <1>3
  <1>6. /\ PositionsOf(S) = [k \in 1..N |-> CHOOSE i \in Ranked(S, k) : TRUE]
        /\ PositionsOf(T) = [k \in 1..M |-> CHOOSE i \in Ranked(T, k) : TRUE]
    BY DEF PositionsOf, N, M
  <1>7. ASSUME NEW k \in 1..N
        PROVE  PositionsOf(T)[k] = PositionsOf(S)[k] /\ PositionsOf(S)[k] \in S
    <2>1. k \in 1..M /\ Ranked(T, k) = Ranked(S, k)
      BY <1>3, <1>5
    <2>2. PositionsOf(S)[k] = CHOOSE i \in Ranked(S, k) : TRUE
      BY <1>6
    <2>3. PositionsOf(T)[k] = CHOOSE i \in Ranked(S, k) : TRUE
      BY <1>6, <2>1
    <2>4. (CHOOSE i \in Ranked(S, k) : TRUE) \in Ranked(S, k)
      BY <1>4
    <2> QED
      BY <1>4, <2>2, <2>3, <2>4
  <1>8. PositionsOf(T)[M] = top
    <2>1. M \in 1..M
      BY <1>5
    <2>2. PositionsOf(T)[M] = CHOOSE i \in {top} : TRUE
      BY <1>3, <1>6, <2>1
    <2> QED
      BY <2>2
  <1>9. DOMAIN PositionsOf(S) = 1..N /\ DOMAIN PositionsOf(T) = 1..(N + 1)
    BY <1>5, <1>6
  <1> QED
    BY <1>5, <1>7, <1>8, <1>9 DEF T, N, M
\* What a token's reader keeps of it, and what it makes of that.
Kept(token) == {i \in DOMAIN token : i = 1 \/ token[i - 1] # "~"}
Unescaped(token, i) ==
    IF token[i] # "~" THEN token[i] ELSE IF token[i + 1] = "1" THEN "/" ELSE "~"

LEMMA UnescapeIs ==
    ASSUME NEW token
    PROVE  unescape_pointer_token(token) =
             [k \in DOMAIN PositionsOf(Kept(token)) |-> Unescaped(token, PositionsOf(Kept(token))[k])]
  BY DEF unescape_pointer_token, Kept, Unescaped

\* What is written of one character.
LEMMA SlashIs ==
    ASSUME NEW c \in Symbols
    PROVE  /\ Slash(c) \in Text
           /\ \/ c = "~" /\ Len(Slash(c)) = 2 /\ Slash(c)[1] = "~" /\ Slash(c)[2] = "0"
              \/ c = "/" /\ Len(Slash(c)) = 2 /\ Slash(c)[1] = "~" /\ Slash(c)[2] = "1"
              \/ c \notin {"~", "/"} /\ Len(Slash(c)) = 1 /\ Slash(c)[1] = c
  <1>0. ASSUME NEW S, NEW a \in S, NEW b \in S
        PROVE  /\ <<a, b>> \in Seq(S) /\ Len(<<a, b>>) = 2
               /\ <<a, b>>[1] = a /\ <<a, b>>[2] = b
    OBVIOUS
  <1>1. CASE c = "~"
    <2> DEFINE w == <<"~", "0">>
    <2>1. Slash(c) = w
      BY <1>1 DEF Slash
    <2>2. "~" \in Symbols /\ "0" \in Symbols
      BY DEF Symbols
    <2>3. w \in Seq(Symbols) /\ Len(w) = 2 /\ w[1] = "~" /\ w[2] = "0"
      BY <1>0, <2>2
    <2> HIDE DEF w
    <2> QED
      BY <1>1, <2>1, <2>3 DEF Text
  <1>2. CASE c = "/"
    <2> DEFINE w == <<"~", "1">>
    <2>1. Slash(c) = w
      BY <1>2 DEF Slash
    <2>2. "~" \in Symbols /\ "1" \in Symbols
      BY DEF Symbols
    <2>3. w \in Seq(Symbols) /\ Len(w) = 2 /\ w[1] = "~" /\ w[2] = "1"
      BY <1>0, <2>2
    <2> HIDE DEF w
    <2> QED
      BY <1>2, <2>1, <2>3 DEF Text
  <1>3. CASE c \notin {"~", "/"}
    BY <1>3 DEF Slash, Text
  <1> QED
    BY <1>1, <1>2, <1>3

\* A sequence is all of it but the last, and the last.
FirstOf(s, m) == [k \in 1..m |-> s[k]]

LEMMA LastOf ==
    ASSUME NEW S, NEW m \in Nat, NEW s \in Seq(S), Len(s) = m + 1
    PROVE  /\ FirstOf(s, m) \in Seq(S) /\ Len(FirstOf(s, m)) = m
           /\ s[m + 1] \in S
           /\ s = Append(FirstOf(s, m), s[m + 1])
  <1> DEFINE r == [k \in 1..m |-> s[k]]
             x == s[m + 1]
  <1>1. \A k \in 1..(m + 1) : s[k] \in S
    BY ElementOfSeq
  <1>2. m + 1 \in 1..(m + 1) /\ \A k \in 1..m : k \in 1..(m + 1)
    OBVIOUS
  <1>3. r \in [1..m -> S] /\ x \in S
    BY <1>1, <1>2
  <1>4. \A k \in 1..m : r[k] = s[k]
    OBVIOUS
  <1> HIDE DEF r, x
  <1>5. r \in Seq(S) /\ Len(r) = m
    <2>1. r \in Seq(S)
      BY <1>3, SeqDef
    <2> QED
      BY <1>3, <2>1, LenProperties
  <1>6. /\ Append(r, x) \in Seq(S) /\ Len(Append(r, x)) = m + 1
        /\ \A k \in 1..m : Append(r, x)[k] = r[k]
        /\ Append(r, x)[m + 1] = x
    BY <1>3, <1>5, AppendProperties
  <1>7. ASSUME NEW k \in 1..Len(s) PROVE s[k] = Append(r, x)[k]
    <2>1. k \in 1..m \/ k = m + 1
      BY <1>7
    <2> QED
      BY <1>4, <1>6, <2>1 DEF x
  <1>8. s = Append(r, x)
    BY <1>6, <1>7, SeqEqual
  <1> QED
    BY <1>3, <1>5, <1>8 DEF r, x, FirstOf

\* A sequence that goes one further than another is that one, and the one more.
LEMMA OneMore ==
    ASSUME NEW n \in Nat, NEW a \in [1..n -> Text], NEW b \in [1..(n + 1) -> Text],
           \A k \in 1..n : a[k] = b[k]
    PROVE  a \in Parts /\ b[n + 1] \in Text /\ b = Append(a, b[n + 1])
  <1>1. a \in Seq(Text) /\ Len(a) = n /\ b \in Seq(Text) /\ Len(b) = n + 1 /\ b[n + 1] \in Text
    <2>1. a \in Seq(Text) /\ b \in Seq(Text)
      BY SeqDef
    <2>2. n + 1 \in 1..(n + 1)
      OBVIOUS
    <2> QED
      BY <2>1, <2>2, LenProperties
  <1> DEFINE x == b[n + 1]
             d == Append(a, x)
  <1> HIDE DEF x
  <1>2. d \in Seq(Text) /\ Len(d) = n + 1 /\ (\A k \in 1..n : d[k] = a[k]) /\ d[n + 1] = x
    <2>1. x \in Text
      BY <1>1 DEF x
    <2>2. /\ d \in Seq(Text) /\ Len(d) = Len(a) + 1
          /\ (\A k \in 1..Len(a) : d[k] = a[k]) /\ d[Len(a) + 1] = x
      BY <1>1, <2>1, AppendProperties
    <2> QED
      BY <1>1, <2>2
  <1> HIDE DEF d
  <1>3. ASSUME NEW k \in 1..Len(b) PROVE b[k] = d[k]
    <2>1. k \in 1..n \/ k = n + 1
      BY <1>1
    <2> QED
      BY <1>2, <2>1 DEF x
  <1>4. b = d
    BY <1>1, <1>2, <1>3, SeqEqual
  <1> QED
    BY <1>1, <1>4 DEF d, x, Parts

\* What is written of each character of a name.
LEMMA MapAppend ==
    ASSUME NEW r \in Text, NEW c \in Symbols
    PROVE  LET s == Append(r, c)
           IN /\ [k \in DOMAIN r |-> Slash(r[k])] \in Parts
              /\ [k \in DOMAIN s |-> Slash(s[k])] = Append([k \in DOMAIN r |-> Slash(r[k])], Slash(c))
  <1> DEFINE s == Append(r, c)
             n == Len(r)
             a == [k \in DOMAIN r |-> Slash(r[k])]
             b == [k \in DOMAIN s |-> Slash(s[k])]
  <1>1. n \in Nat /\ DOMAIN r = 1..n /\ \A k \in 1..n : r[k] \in Symbols
    BY LenProperties, ElementOfSeq DEF Text
  <1>2. /\ s \in Seq(Symbols) /\ Len(s) = n + 1 /\ DOMAIN s = 1..(n + 1)
        /\ (\A k \in 1..n : s[k] = r[k]) /\ s[n + 1] = c
    <2>0. r \in Seq(Symbols)
      BY DEF Text
    <2>1. /\ s \in Seq(Symbols) /\ Len(s) = n + 1
          /\ (\A k \in 1..n : s[k] = r[k]) /\ s[n + 1] = c
      BY <2>0, AppendProperties
    <2> HIDE DEF s
    <2> QED
      BY <2>1, LenProperties
  <1> HIDE DEF s
  <1>3. \A k \in 1..(n + 1) : s[k] \in Symbols
    BY <1>2, ElementOfSeq
  <1>4. a \in [1..n -> Text] /\ b \in [1..(n + 1) -> Text]
    BY <1>1, <1>2, <1>3, SlashIs
  <1>5. \A k \in 1..n : a[k] = b[k]
    BY <1>1, <1>2
  <1>6. b[n + 1] = Slash(c)
    <2>1. n + 1 \in DOMAIN s
      BY <1>1, <1>2
    <2>2. b[n + 1] = Slash(s[n + 1])
      BY <2>1
    <2> QED
      BY <1>2, <2>2
  <1> HIDE DEF a, b, n
  <1>7. n \in Nat
    BY <1>1
  <1>8. a \in Parts /\ b = Append(a, b[n + 1])
    BY <1>4, <1>5, <1>7, OneMore
  <1> QED
    BY <1>6, <1>8 DEF a, b, s

LEMMA TokenAppend ==
    ASSUME NEW r \in Text, NEW c \in Symbols
    PROVE  Token(r) \in Text /\ Token(Append(r, c)) = Token(r) \o Slash(c)
  <1> DEFINE a == [k \in DOMAIN r |-> Slash(r[k])]
  <1>1. a \in Parts /\ Token(Append(r, c)) = FlattenSeq(Append(a, Slash(c))) /\ Token(r) = FlattenSeq(a)
    BY MapAppend DEF Token
  <1>2. Slash(c) \in Text
    BY SlashIs
  <1> HIDE DEF a
  <1> QED
    BY <1>1, <1>2, FlattenAppend
\* What is written of a name has no slash in it, and every "~" of it is followed
\* by what says which character it stands for.
WellEscaped(e) ==
    /\ e \in Text
    /\ \A i \in DOMAIN e : /\ e[i] # "/"
                           /\ e[i] = "~" => i < Len(e) /\ e[i + 1] \in {"0", "1"}

\* What a reader finds in a text, character by character.
ReadsAs(e, name) ==
    /\ DOMAIN PositionsOf(Kept(e)) = 1..Len(name)
    /\ Cardinality(Kept(e)) = Len(name)
    /\ \A k \in 1..Len(name) : /\ PositionsOf(Kept(e))[k] \in Kept(e)
                               /\ Unescaped(e, PositionsOf(Kept(e))[k]) = name[k]

\* What a sequence put behind another has where.
LEMMA ConcatIs ==
    ASSUME NEW S, NEW s \in Seq(S), NEW t \in Seq(S)
    PROVE  LET d == s \o t
           IN /\ d \in Seq(S) /\ Len(d) = Len(s) + Len(t) /\ DOMAIN d = 1..(Len(s) + Len(t))
              /\ \A i \in 1..Len(s) : d[i] = s[i]
              /\ \A i \in 1..Len(t) : d[Len(s) + i] = t[i]
  <1> DEFINE d == s \o t
             L == Len(s)
             M == Len(t)
  <1>1. /\ d \in Seq(S) /\ Len(d) = L + M
        /\ \A i \in 1..(L + M) : d[i] = IF i <= L THEN s[i] ELSE t[i - L]
    BY ConcatProperties
  <1>2. L \in Nat /\ M \in Nat
    BY LenProperties
  <1> HIDE DEF d
  <1>3. DOMAIN d = 1..(L + M)
    BY <1>1, LenProperties
  <1> HIDE DEF L, M
  <1>4. \A i \in 1..L : d[i] = s[i]
    BY <1>1, <1>2
  <1>5. ASSUME NEW i \in 1..M PROVE d[L + i] = t[i]
    <2>1. L + i \in 1..(L + M) /\ ~ (L + i <= L) /\ (L + i) - L = i
      BY <1>2
    <2>2. d[L + i] = t[(L + i) - L]
      BY <1>1, <2>1
    <2> QED
      BY <2>1, <2>2
  <1> QED
    BY <1>1, <1>3, <1>4, <1>5 DEF d, L, M

\* One character more is read as it is.
LEMMA CharacterIsRead ==
    ASSUME NEW e, WellEscaped(e), NEW r \in Text, NEW c \in Symbols, ReadsAs(e, r)
    PROVE  WellEscaped(e \o Slash(c)) /\ ReadsAs(e \o Slash(c), Append(r, c))
  <1> DEFINE L == Len(e)
             w == Slash(c)
             d == e \o w
             s == Append(r, c)
             N == Len(r)
  <1>1. /\ e \in Seq(Symbols) /\ L \in Nat /\ DOMAIN e = 1..L
        /\ \A i \in 1..L : e[i] # "/" /\ (e[i] = "~" => i < L /\ e[i + 1] \in {"0", "1"})
    BY LenProperties DEF WellEscaped, Text
  <1>2. /\ w \in Seq(Symbols) /\ Len(w) \in 1..2
        /\ \/ c = "~" /\ Len(w) = 2 /\ w[1] = "~" /\ w[2] = "0"
           \/ c = "/" /\ Len(w) = 2 /\ w[1] = "~" /\ w[2] = "1"
           \/ c \notin {"~", "/"} /\ Len(w) = 1 /\ w[1] = c
    BY SlashIs DEF Text
  <1> HIDE DEF w
  <1>3. /\ d \in Seq(Symbols) /\ Len(d) = L + Len(w) /\ DOMAIN d = 1..(L + Len(w))
        /\ \A i \in 1..L : d[i] = e[i]
        /\ \A i \in 1..Len(w) : d[L + i] = w[i]
    BY <1>1, <1>2, ConcatIs
  <1> HIDE DEF d
  <1>4. d[L + 1] = w[1] /\ (Len(w) = 2 => d[L + 2] = w[2])
    BY <1>2, <1>3
  <1>5. ASSUME NEW i \in 1..(L + Len(w)) PROVE i \in 1..L \/ i = L + 1 \/ (i = L + 2 /\ Len(w) = 2)
    <2>1. Len(w) = 1 \/ Len(w) = 2
      BY <1>2
    <2>2. L \in Nat
      BY <1>1
    <2>3. CASE Len(w) = 1
      <3>1. i \in 1..(L + 1)
        BY <2>3
      <3> QED
        BY <2>2, <3>1
    <2>4. CASE Len(w) = 2
      <3>1. i \in 1..(L + 2)
        BY <2>4
      <3> QED
        BY <2>2, <2>4, <3>1
    <2> QED
      BY <2>1, <2>3, <2>4
  <1>6. WellEscaped(d)
    <2> SUFFICES ASSUME NEW i \in 1..(L + Len(w))
                 PROVE  d[i] # "/" /\ (d[i] = "~" => i < Len(d) /\ d[i + 1] \in {"0", "1"})
      BY <1>3 DEF WellEscaped, Text
    <2>1. CASE i \in 1..L
      <3>1. d[i] = e[i] /\ e[i] # "/"
        BY <1>1, <1>3, <2>1
      <3>2. ASSUME d[i] = "~" PROVE i < Len(d) /\ d[i + 1] \in {"0", "1"}
        <4>1. i < L /\ e[i + 1] \in {"0", "1"}
          BY <1>1, <2>1, <3>1, <3>2
        <4>2. i + 1 \in 1..L
          BY <1>1, <2>1, <4>1
        <4> QED
          BY <1>1, <1>2, <1>3, <2>1, <4>1, <4>2
      <3> QED
        BY <3>1, <3>2
    <2>2. CASE i = L + 1
      <3>1. Len(w) = 2 => i < Len(d) /\ d[i + 1] = w[2]
        <4>1. (L + 1) + 1 = L + 2
          BY <1>1
        <4> QED
          BY <1>1, <1>3, <1>4, <2>2, <4>1
      <3> QED
        BY <1>2, <1>4, <2>2, <3>1
    <2>3. CASE i = L + 2 /\ Len(w) = 2
      BY <1>2, <1>4, <2>3
    <2> QED
      BY <1>5, <2>1, <2>2, <2>3
  <1>7. Kept(d) = Kept(e) \cup {L + 1}
    <2>1. ASSUME NEW i \in 1..L PROVE i \in Kept(d) <=> i \in Kept(e)
      <3>1. i # 1 => i - 1 \in 1..L
        BY <1>1
      <3>2. i # 1 => d[i - 1] = e[i - 1]
        BY <1>3, <3>1
      <3>3. i \in DOMAIN d /\ i \in DOMAIN e
        BY <1>1, <1>2, <1>3
      <3> QED
        BY <3>2, <3>3 DEF Kept
    <2>2. L + 1 \in Kept(d)
      <3>1. L + 1 \in DOMAIN d
        BY <1>1, <1>2, <1>3
      <3>2. ASSUME L + 1 # 1 PROVE d[(L + 1) - 1] # "~"
        <4>1. L \in 1..L /\ (L + 1) - 1 = L /\ ~ (L < L)
          BY <1>1, <3>2
        <4>2. d[L] = e[L] /\ e[L] # "~"
          BY <1>1, <1>3, <4>1
        <4> QED
          BY <4>1, <4>2
      <3> QED
        BY <3>1, <3>2 DEF Kept
    <2>3. ASSUME Len(w) = 2 PROVE L + 2 \notin Kept(d)
      <3>1. L + 2 # 1 /\ (L + 2) - 1 = L + 1
        BY <1>1
      <3>2. d[L + 1] = "~"
        BY <1>2, <1>4, <2>3
      <3> QED
        BY <3>1, <3>2 DEF Kept
    <2>4. Kept(d) \subseteq 1..(L + Len(w)) /\ Kept(e) \subseteq 1..L
      BY <1>1, <1>3 DEF Kept
    <2>5. ASSUME NEW i PROVE i \in Kept(d) <=> i \in Kept(e) \cup {L + 1}
      <3>1. CASE i \in 1..L
        <4>1. i # L + 1
          BY <1>1, <3>1
        <4> QED
          BY <2>1, <3>1, <4>1
      <3>2. CASE i = L + 1
        BY <2>2, <3>2
      <3>3. CASE i \notin 1..L /\ i # L + 1
        BY <1>5, <2>3, <2>4, <3>3
      <3> QED
        BY <3>1, <3>2, <3>3
    <2> QED
      BY <2>5
  <1>8. /\ DOMAIN PositionsOf(Kept(d)) = 1..(N + 1)
        /\ Cardinality(Kept(d)) = N + 1
        /\ \A k \in 1..N : PositionsOf(Kept(d))[k] = PositionsOf(Kept(e))[k]
        /\ PositionsOf(Kept(d))[N + 1] = L + 1
    <2> DEFINE S == Kept(e)
    <2>1. S \in SUBSET (1..(L + 1)) /\ (\A j \in S : j < L + 1) /\ L + 1 \in Nat /\ L + 1 \in 1..(L + 1)
      BY <1>1 DEF Kept
    <2>2. Cardinality(S) = N
      BY DEF ReadsAs
    <2> HIDE DEF S
    <2>3. LET M == Cardinality(S)
              with == PositionsOf(S \cup {L + 1})
          IN /\ M \in Nat
             /\ DOMAIN PositionsOf(S) = 1..M /\ DOMAIN with = 1..(M + 1)
             /\ \A k \in 1..M : with[k] = PositionsOf(S)[k] /\ PositionsOf(S)[k] \in S
             /\ with[M + 1] = L + 1
             /\ Cardinality(S \cup {L + 1}) = M + 1
      BY <2>1, PositionsAppend
    <2>4. Kept(d) = S \cup {L + 1}
      BY <1>7 DEF S
    <2> QED
      BY <2>2, <2>3, <2>4 DEF S
  <1>9. N \in Nat /\ Len(s) = N + 1 /\ (\A k \in 1..N : s[k] = r[k]) /\ s[N + 1] = c
    <2>1. r \in Seq(Symbols)
      BY DEF Text
    <2> QED
      BY <2>1, LenProperties, AppendProperties
  <1> HIDE DEF s
  <1>10. ASSUME NEW k \in 1..N
         PROVE  PositionsOf(Kept(d))[k] \in Kept(d) /\ Unescaped(d, PositionsOf(Kept(d))[k]) = s[k]
    <2> DEFINE i == PositionsOf(Kept(e))[k]
    <2>1. i \in Kept(e) /\ Unescaped(e, i) = r[k]
      BY DEF ReadsAs
    <2>2. PositionsOf(Kept(d))[k] = i
      BY <1>8
    <2> HIDE DEF i
    <2>3. i \in 1..L
      BY <1>1, <2>1 DEF Kept
    <2>4. d[i] = e[i] /\ (e[i] = "~" => d[i + 1] = e[i + 1])
      <3>1. e[i] = "~" => i + 1 \in 1..L
        BY <1>1, <2>3
      <3> QED
        BY <1>3, <2>3, <3>1
    <2>5. Unescaped(d, i) = Unescaped(e, i)
      BY <2>4 DEF Unescaped
    <2> QED
      BY <1>7, <1>9, <2>1, <2>2, <2>5
  <1>11. L + 1 \in Kept(d) /\ Unescaped(d, L + 1) = c
    <2>1. (L + 1) + 1 = L + 2
      BY <1>1
    <2> QED
      BY <1>2, <1>4, <1>7, <2>1 DEF Unescaped
  <1>12. ReadsAs(d, s)
    <2> SUFFICES ASSUME NEW k \in 1..(N + 1)
                 PROVE  PositionsOf(Kept(d))[k] \in Kept(d) /\ Unescaped(d, PositionsOf(Kept(d))[k]) = s[k]
      BY <1>8, <1>9 DEF ReadsAs
    <2>1. k \in 1..N \/ k = N + 1
      BY <1>9
    <2> QED
      BY <1>8, <1>9, <1>10, <1>11, <2>1
  <1> QED
    BY <1>6, <1>12 DEF d, w, s

\* What is written of a name is read as the name.
LEMMA TokenIsRead ==
    \A name \in Text : /\ WellEscaped(Token(name))
                       /\ unescape_pointer_token(Token(name)) = name
  <1> DEFINE S == {n \in Nat : \A name \in Text :
                      Len(name) = n => WellEscaped(Token(name)) /\ ReadsAs(Token(name), name)}
  <1>1. 0 \in S
    <2> SUFFICES ASSUME NEW name \in Text, Len(name) = 0
                 PROVE  WellEscaped(Token(name)) /\ ReadsAs(Token(name), name)
      OBVIOUS
    <2> DEFINE a == [k \in DOMAIN name |-> Slash(name[k])]
    <2>1. DOMAIN name = {}
      BY LenProperties DEF Text
    <2>2. a = <<>>
      BY <2>1
    <2>3. Token(name) = <<>>
      <3>1. <<>> \in Parts /\ Len(<<>>) = 0
        BY DEF Parts
      <3> QED
        BY <2>2, <3>1, UptoIs DEF Token
    <2>4. WellEscaped(<<>>)
      BY DEF WellEscaped, Text
    <2>5. Kept(<<>>) = {} /\ Cardinality({}) = 0
      <3>1. DOMAIN <<>> = {}
        OBVIOUS
      <3>2. Kept(<<>>) = {}
        BY <3>1 DEF Kept
      <3> QED
        BY <3>2, FS_EmptySet
    <2>6. DOMAIN PositionsOf({}) = 1..0
      BY <2>5 DEF PositionsOf
    <2>7. ReadsAs(<<>>, name)
      BY <2>5, <2>6 DEF ReadsAs
    <2> QED
      BY <2>3, <2>4, <2>7
  <1>2. ASSUME NEW n \in Nat, n \in S PROVE n + 1 \in S
    <2> SUFFICES ASSUME NEW name \in Text, Len(name) = n + 1
                 PROVE  WellEscaped(Token(name)) /\ ReadsAs(Token(name), name)
      OBVIOUS
    <2> DEFINE r == FirstOf(name, n)
               c == name[n + 1]
    <2>1. r \in Text /\ c \in Symbols /\ Len(r) = n /\ name = Append(r, c)
      BY LastOf DEF Text
    <2> HIDE DEF r, c
    <2>2. WellEscaped(Token(r)) /\ ReadsAs(Token(r), r)
      BY <1>2, <2>1
    <2>3. Token(name) = Token(r) \o Slash(c)
      BY <2>1, TokenAppend
    <2> HIDE DEF S
    <2> QED
      BY <2>1, <2>2, <2>3, CharacterIsRead
  <1>3. Nat \subseteq S
    <2> HIDE DEF S
    <2> QED
      BY <1>1, <1>2, NatInSet
  <1>4. ASSUME NEW name \in Text
        PROVE  WellEscaped(Token(name)) /\ unescape_pointer_token(Token(name)) = name
    <2> DEFINE e == Token(name)
               p == PositionsOf(Kept(e))
    <2>1. Len(name) \in Nat /\ name = [k \in 1..Len(name) |-> name[k]]
      BY LenProperties DEF Text
    <2>2. WellEscaped(e) /\ ReadsAs(e, name)
      BY <1>3, <2>1
    <2>3. DOMAIN p = 1..Len(name) /\ \A k \in 1..Len(name) : Unescaped(e, p[k]) = name[k]
      BY <2>2 DEF ReadsAs
    <2>4. unescape_pointer_token(e) = [k \in DOMAIN p |-> Unescaped(e, p[k])]
      BY UnescapeIs
    <2> HIDE DEF e, p
    <2>5. [k \in DOMAIN p |-> Unescaped(e, p[k])] = [k \in 1..Len(name) |-> name[k]]
      BY <2>3
    <2> QED
      BY <2>1, <2>2, <2>4, <2>5 DEF e
  <1> QED
    BY <1>4

\* The last token of a pointer is what its last slash has behind it.
LEMMA LastToken ==
    ASSUME NEW q \in Seq(Symbols),
           NEW i \in Slashes(q), \A j \in Slashes(q) : j <= i
    PROVE  Tokens(q)[Len(Tokens(q))] = unescape_pointer_token(After(q, i))
  <1> DEFINE N == Cardinality(Slashes(q))
  <1>1. Len(q) \in Nat /\ DOMAIN q = 1..Len(q) /\ Slashes(q) \in SUBSET (1..Len(q))
    BY LenProperties DEF Slashes
  <1>2. N \in Nat /\ N > 0 /\ Ranked(Slashes(q), N) = {i}
    <2>1. LET M == Cardinality(Slashes(q))
          IN /\ M \in Nat /\ M > 0
             /\ Cardinality(Slashes(q) \ {i}) = M - 1
             /\ \A k \in 1..(M - 1) : Ranked(Slashes(q), k) = Ranked(Slashes(q) \ {i}, k)
             /\ Ranked(Slashes(q), M) = {i}
      BY <1>1, RankedWithout
    <2> QED
      BY <2>1
  <1>3. /\ \A k \in 1..N : Bounds(q)[k] = CHOOSE j \in Ranked(Slashes(q), k) : TRUE
        /\ Bounds(q)[N + 1] = Len(q) + 1
    BY BoundsAre
  <1>4. /\ Len(Tokens(q)) = N
        /\ \A k \in 1..N : Tokens(q)[k] = unescape_pointer_token(SubSeq(q, Bounds(q)[k] + 1, Bounds(q)[k + 1] - 1))
    BY TokensAre
  <1> HIDE DEF N
  <1>5. N \in 1..N
    BY <1>2
  <1>6. Bounds(q)[N] = i
    <2>1. Bounds(q)[N] = CHOOSE j \in {i} : TRUE
      BY <1>2, <1>3, <1>5
    <2> QED
      BY <2>1
  <1>7. Bounds(q)[N + 1] - 1 = Len(q)
    BY <1>1, <1>3
  <1>8. Tokens(q)[N] = unescape_pointer_token(SubSeq(q, i + 1, Len(q)))
    BY <1>4, <1>5, <1>6, <1>7
  <1> QED
    BY <1>4, <1>8 DEF After

\* A pointer with one more token behind it.
LEMMA PointerGrows ==
    ASSUME NEW p \in Text, is_valid_json_pointer(p), NEW e, WellEscaped(e)
    PROVE  LET d == p \o (<<"/">> \o e)
               i == Len(p) + 1
           IN /\ d \in Text
              /\ is_valid_json_pointer(d)
              /\ i \in Slashes(d) /\ \A j \in Slashes(d) : j <= i
              /\ Before(d, i) = p
              /\ After(d, i) = e
  <1> DEFINE one == <<"/">>
             x == one \o e
             d == p \o x
             L == Len(p)
             M == Len(e)
  <1>1. /\ p \in Seq(Symbols) /\ L \in Nat /\ DOMAIN p = 1..L
        /\ e \in Seq(Symbols) /\ M \in Nat /\ DOMAIN e = 1..M
        /\ \A i \in 1..M : e[i] # "/" /\ (e[i] = "~" => i < M /\ e[i + 1] \in {"0", "1"})
    BY LenProperties DEF WellEscaped, Text
  <1>2. one \in Seq(Symbols) /\ Len(one) = 1 /\ one[1] = "/"
    <2>1. "/" \in Symbols
      BY DEF Symbols
    <2> QED
      BY <2>1
  <1> HIDE DEF one
  <1>3. /\ x \in Seq(Symbols) /\ Len(x) = M + 1 /\ x[1] = "/"
        /\ \A i \in 1..M : x[i + 1] = e[i]
    <2>1. /\ x \in Seq(Symbols) /\ Len(x) = Len(one) + M
          /\ \A i \in 1..Len(one) : x[i] = one[i]
          /\ \A i \in 1..M : x[Len(one) + i] = e[i]
      <3>1. one \in Seq(Symbols) /\ e \in Seq(Symbols)
        BY <1>1, <1>2
      <3> QED
        BY ONLY <3>1, ConcatIs
    <2> HIDE DEF x
    <2>2. x \in Seq(Symbols) /\ Len(x) = 1 + M /\ x[1] = "/"
      BY <1>2, <2>1
    <2>3. ASSUME NEW i \in 1..M PROVE x[i + 1] = e[i]
      <3>1. x[1 + i] = e[i]
        BY <1>2, <2>1
      <3>2. 1 + i = i + 1
        OBVIOUS
      <3> QED
        BY <3>1, <3>2
    <2> QED
      BY <1>1, <2>2, <2>3
  <1> HIDE DEF x
  <1>4. /\ d \in Seq(Symbols) /\ Len(d) = L + M + 1 /\ DOMAIN d = 1..(L + M + 1)
        /\ \A i \in 1..L : d[i] = p[i]
        /\ d[L + 1] = "/"
        /\ \A i \in 1..M : d[L + 1 + i] = e[i]
    <2>1. /\ d \in Seq(Symbols) /\ Len(d) = L + Len(x) /\ DOMAIN d = 1..(L + Len(x))
          /\ \A i \in 1..L : d[i] = p[i]
          /\ \A i \in 1..Len(x) : d[L + i] = x[i]
      <3>1. p \in Seq(Symbols) /\ x \in Seq(Symbols)
        BY <1>1, <1>3
      <3> QED
        BY ONLY <3>1, ConcatIs
    <2> HIDE DEF d
    <2>2. L + Len(x) = L + M + 1
      BY <1>1, <1>3
    <2>3. d[L + 1] = "/"
      <3>1. 1 \in 1..Len(x)
        BY <1>1, <1>3
      <3> QED
        BY <1>3, <2>1, <3>1
    <2>4. ASSUME NEW i \in 1..M PROVE d[L + 1 + i] = e[i]
      <3>0. L \in Nat /\ M \in Nat /\ Len(x) = M + 1
        BY <1>1, <1>3
      <3>1. i + 1 \in 1..Len(x) /\ L + (i + 1) = L + 1 + i
        <4> HIDE DEF L, M
        <4> QED
          BY <3>0
      <3>2. d[L + (i + 1)] = x[i + 1]
        BY <2>1, <3>1
      <3> QED
        BY <1>3, <3>1, <3>2
    <2> QED
      BY <2>1, <2>2, <2>3, <2>4
  <1> HIDE DEF d
  <1>5. ASSUME NEW i \in 1..(L + M + 1)
        PROVE  i \in 1..L \/ i = L + 1 \/ \E j \in 1..M : i = L + 1 + j
    <2>1. CASE i > L + 1
      <3>1. i - (L + 1) \in 1..M /\ i = L + 1 + (i - (L + 1))
        BY <1>1, <2>1
      <3> QED
        BY <3>1
    <2> QED
      BY <1>1, <2>1
  <1>6. is_valid_json_pointer(d)
    <2>1. d[1] = "/"
      <3>1. CASE L = 0
        BY <1>4, <3>1
      <3>2. CASE L > 0
        <4>1. p # <<>>
          BY <1>1, <3>2
        <4>2. p[1] = "/"
          BY <4>1 DEF is_valid_json_pointer
        <4> QED
          BY <1>1, <1>4, <3>2, <4>2
      <3> QED
        BY <1>1, <3>1, <3>2
    <2>2. ASSUME NEW i \in 1..(L + M + 1), d[i] = "~"
          PROVE  i < Len(d) /\ d[i + 1] \in {"0", "1"}
      <3>1. CASE i \in 1..L
        <4>1. p # <<>> /\ i \in DOMAIN p /\ p[i] = "~"
          BY <1>1, <1>4, <2>2, <3>1
        <4>2. i < L /\ p[i + 1] \in {"0", "1"}
          BY <4>1 DEF is_valid_json_pointer
        <4>3. i + 1 \in 1..L
          BY <1>1, <3>1, <4>2
        <4>4. d[i + 1] = p[i + 1]
          BY <1>4, <4>3
        <4> QED
          BY <1>1, <1>4, <4>2, <4>4
      <3>2. CASE i = L + 1
        BY <1>4, <2>2, <3>2
      <3>3. ASSUME NEW j \in 1..M, i = L + 1 + j PROVE i < Len(d) /\ d[i + 1] \in {"0", "1"}
        <4>1. e[j] = "~"
          BY <1>4, <2>2, <3>3
        <4>2. j < M /\ e[j + 1] \in {"0", "1"}
          BY <1>1, <4>1
        <4>3. j + 1 \in 1..M /\ i + 1 = L + 1 + (j + 1)
          BY <1>1, <3>3, <4>2
        <4>4. d[i + 1] = e[j + 1]
          BY <1>4, <4>3
        <4> QED
          BY <1>1, <1>4, <3>3, <4>2, <4>4
      <3> QED
        BY <1>5, <3>1, <3>2, <3>3
    <2> QED
      BY <1>4, <2>1, <2>2 DEF is_valid_json_pointer
  <1>7. L + 1 \in Slashes(d)
    BY <1>1, <1>4 DEF Slashes
  <1>8. ASSUME NEW j \in Slashes(d) PROVE j <= L + 1
    <2>1. j \in 1..(L + M + 1) /\ d[j] = "/"
      BY <1>4 DEF Slashes
    <2>2. ASSUME NEW k \in 1..M, j = L + 1 + k PROVE FALSE
      BY <1>1, <1>4, <2>1, <2>2
    <2> QED
      BY <1>1, <1>5, <2>1, <2>2
  <1>9. Before(d, L + 1) = p
    <2> DEFINE b == SubSeq(d, 1, L)
    <2>1. \A k \in 1..L : d[k] \in Symbols
      BY <1>1, <1>4, ElementOfSeq
    <2>2. /\ b \in Seq(Symbols)
          /\ Len(b) = IF 1 <= L THEN L - 1 + 1 ELSE 0
          /\ \A k \in 1..(L - 1 + 1) : b[k] = d[1 + k - 1]
      BY <1>1, <2>1, SubSeqProperties
    <2> HIDE DEF b
    <2>3. Len(b) = L
      BY <1>1, <2>2
    <2>4. ASSUME NEW k \in 1..Len(b) PROVE b[k] = p[k]
      <3>1. k \in 1..L /\ k \in 1..(L - 1 + 1) /\ 1 + k - 1 = k
        BY <1>1, <2>3
      <3> QED
        BY <1>4, <2>2, <3>1
    <2>5. b = p
      BY <1>1, <2>2, <2>3, <2>4, SeqEqual
    <2>6. (L + 1) - 1 = L
      BY <1>1
    <2> QED
      BY <2>5, <2>6 DEF Before, b
  <1>10. After(d, L + 1) = e
    <2> DEFINE from == L + 1 + 1
               to == L + M + 1
               b == SubSeq(d, from, to)
    <2>1. from \in Int /\ to \in Int /\ \A k \in from..to : d[k] \in Symbols
      <3>1. \A k \in from..to : k \in 1..Len(d)
        BY <1>1, <1>4
      <3> QED
        BY <1>1, <1>4, <3>1, ElementOfSeq
    <2> HIDE DEF from, to
    <2>2. /\ b \in Seq(Symbols)
          /\ Len(b) = IF from <= to THEN to - from + 1 ELSE 0
          /\ \A k \in 1..(to - from + 1) : b[k] = d[from + k - 1]
      BY <2>1, SubSeqProperties
    <2> HIDE DEF b
    <2>3. Len(b) = M /\ to - from + 1 = M
      BY <1>1, <2>2 DEF from, to
    <2>4. ASSUME NEW k \in 1..Len(b) PROVE b[k] = e[k]
      <3>1. k \in 1..M /\ from + k - 1 = L + 1 + k
        BY <1>1, <2>3 DEF from
      <3> QED
        BY <1>4, <2>2, <2>3, <3>1
    <2>5. b = e
      BY <1>1, <2>2, <2>3, <2>4, SeqEqual
    <2> QED
      BY <1>4, <2>5 DEF After, b, from, to
  <1> QED
    BY <1>4, <1>6, <1>7, <1>8, <1>9, <1>10 DEF d, x, one, Text

\* One name more, and its token behind a slash.
LEMMA PointerAppend ==
    ASSUME NEW r \in Parts, NEW x \in Text
    PROVE  /\ Pointer(r) \in Text
           /\ Pointer(Append(r, x)) = Pointer(r) \o (<<"/">> \o Token(x))
  <1> DEFINE s == Append(r, x)
             n == Len(r)
             a == [k \in DOMAIN r |-> <<"/">> \o Token(r[k])]
             b == [k \in DOMAIN s |-> <<"/">> \o Token(s[k])]
  <1>1. n \in Nat /\ DOMAIN r = 1..n /\ \A k \in 1..n : r[k] \in Text
    BY LenProperties, ElementOfSeq DEF Parts
  <1>2. /\ s \in Seq(Text) /\ Len(s) = n + 1 /\ DOMAIN s = 1..(n + 1)
        /\ (\A k \in 1..n : s[k] = r[k]) /\ s[n + 1] = x
    <2>0. r \in Seq(Text)
      BY DEF Parts
    <2>1. /\ s \in Seq(Text) /\ Len(s) = n + 1
          /\ (\A k \in 1..n : s[k] = r[k]) /\ s[n + 1] = x
      BY <2>0, AppendProperties
    <2> HIDE DEF s
    <2> QED
      BY <2>1, LenProperties
  <1> HIDE DEF s
  <1>3. \A k \in 1..(n + 1) : s[k] \in Text
    BY <1>2, ElementOfSeq
  <1>4. ASSUME NEW name \in Text PROVE <<"/">> \o Token(name) \in Text
    <2>1. Token(name) \in Text
      BY TokenIsRead DEF WellEscaped
    <2>2. <<"/">> \in Seq(Symbols)
      <3>1. "/" \in Symbols
        BY DEF Symbols
      <3> QED
        BY <3>1
    <2> QED
      BY <2>1, <2>2, ConcatProperties DEF Text
  <1>5. a \in [1..n -> Text] /\ b \in [1..(n + 1) -> Text]
    <2>1. \A k \in 1..n : <<"/">> \o Token(r[k]) \in Text
      BY <1>1, <1>4
    <2>2. \A k \in 1..(n + 1) : <<"/">> \o Token(s[k]) \in Text
      BY <1>3, <1>4
    <2> QED
      BY <1>1, <1>2, <2>1, <2>2
  <1>6. \A k \in 1..n : a[k] = b[k]
    BY <1>1, <1>2
  <1>7. b[n + 1] = <<"/">> \o Token(x)
    <2>1. n + 1 \in DOMAIN s
      BY <1>1, <1>2
    <2>2. b[n + 1] = <<"/">> \o Token(s[n + 1])
      BY <2>1
    <2> QED
      BY <1>2, <2>2
  <1>8. Pointer(r) = FlattenSeq(a) /\ Pointer(s) = FlattenSeq(b)
    BY DEF Pointer
  <1> HIDE DEF a, b, n
  <1>9. n \in Nat
    BY <1>1
  <1>10. a \in Parts /\ b = Append(a, b[n + 1]) /\ b[n + 1] \in Text
    BY <1>5, <1>6, <1>9, OneMore
  <1>11. FlattenSeq(a) \in Text /\ FlattenSeq(b) = FlattenSeq(a) \o b[n + 1]
    BY <1>10, FlattenAppend
  <1> QED
    BY <1>7, <1>8, <1>11 DEF s

\* A pointer that is written from names, whatever characters are in them, is a
\* valid pointer, and the code reads the names in it, none of them split or run
\* together (is_valid_json_pointer, unescape_pointer_token and the splitting at
\* slashes of evaluate_json_pointer): it leads, from any value, to where the
\* names lead one by one.
THEOREM WrittenPointersLead ==
    ASSUME NEW names \in Seq(Seq(Symbols)), NEW v
    PROVE  /\ is_valid_json_pointer(Pointer(names))
           /\ Tokens(Pointer(names)) = names
           /\ FollowFrom(v, Pointer(names)) = Walk(v, names)
  <1> DEFINE Right(p, ns) == p \in Text /\ is_valid_json_pointer(p) /\ Tokens(p) = ns
             S == {n \in Nat : \A ns \in Parts : Len(ns) = n => Right(Pointer(ns), ns)}
  <1>1. 0 \in S
    <2> SUFFICES ASSUME NEW ns \in Parts, Len(ns) = 0 PROVE Right(Pointer(ns), ns)
      OBVIOUS
    <2> DEFINE a == [k \in DOMAIN ns |-> <<"/">> \o Token(ns[k])]
    <2>1. DOMAIN ns = {} /\ ns = <<>>
      BY LenProperties, EmptySeq DEF Parts
    <2>2. a = <<>>
      BY <2>1
    <2>3. Pointer(ns) = <<>>
      <3>1. <<>> \in Parts /\ Len(<<>>) = 0
        BY DEF Parts
      <3> QED
        BY <2>2, <3>1, UptoIs DEF Pointer
    <2>4. <<>> \in Text /\ <<>> \in Seq(Symbols)
      BY DEF Text
    <2>5. Slashes(<<>>) = {}
      <3>1. DOMAIN <<>> = {}
        OBVIOUS
      <3> QED
        BY <3>1 DEF Slashes
    <2>6. Cardinality(Slashes(<<>>)) = 0
      BY <2>5, FS_EmptySet
    <2>7. DOMAIN Tokens(<<>>) = 1..0
      BY <2>4, <2>6, TokensAre
    <2>8. Tokens(<<>>) = [k \in DOMAIN Tokens(<<>>) |-> Tokens(<<>>)[k]]
      BY DEF Tokens
    <2>9. Tokens(<<>>) = <<>>
      BY <2>7, <2>8
    <2>10. is_valid_json_pointer(<<>>)
      BY DEF is_valid_json_pointer
    <2> QED
      BY <2>1, <2>3, <2>4, <2>9, <2>10
  <1>2. ASSUME NEW n \in Nat, n \in S PROVE n + 1 \in S
    <2> SUFFICES ASSUME NEW ns \in Parts, Len(ns) = n + 1 PROVE Right(Pointer(ns), ns)
      OBVIOUS
    <2> DEFINE r == FirstOf(ns, n)
               x == ns[n + 1]
    <2>1. r \in Parts /\ x \in Text /\ Len(r) = n /\ ns = Append(r, x)
      BY LastOf DEF Parts
    <2> HIDE DEF r, x
    <2> DEFINE p == Pointer(r)
               e == Token(x)
               d == p \o (<<"/">> \o e)
               i == Len(p) + 1
    <2>2. p \in Text /\ is_valid_json_pointer(p) /\ Tokens(p) = r
      BY <1>2, <2>1
    <2>3. WellEscaped(e) /\ unescape_pointer_token(e) = x
      BY <2>1, TokenIsRead
    <2>4. Pointer(ns) = d
      BY <2>1, PointerAppend
    <2> HIDE DEF p, e, S
    <2>5. /\ d \in Text /\ is_valid_json_pointer(d)
          /\ i \in Slashes(d) /\ \A j \in Slashes(d) : j <= i
          /\ Before(d, i) = p /\ After(d, i) = e
      BY <2>2, <2>3, PointerGrows
    <2> HIDE DEF d, i
    <2>6. d \in Seq(Symbols)
      BY <2>5 DEF Text
    <2>7. /\ Len(Tokens(d)) > 0
          /\ Len(r) = Len(Tokens(d)) - 1
          /\ \A k \in 1..Len(r) : r[k] = Tokens(d)[k]
      <3> DEFINE b == Before(d, i)
      <3>1. /\ Len(Tokens(d)) > 0
            /\ Len(Tokens(b)) = Len(Tokens(d)) - 1
            /\ \A k \in 1..Len(Tokens(b)) : Tokens(b)[k] = Tokens(d)[k]
        BY <2>5, <2>6, UpToLastSlash
      <3>2. Tokens(b) = r
        BY <2>2, <2>5
      <3> HIDE DEF b
      <3> QED
        BY <3>1, <3>2
    <2>8. Tokens(d)[Len(Tokens(d))] = x
      BY <2>3, <2>5, <2>6, LastToken
    <2>9. Len(Tokens(d)) \in Nat /\ DOMAIN Tokens(d) = 1..Len(Tokens(d))
      BY <2>6, TokensAre
    <2> DEFINE t == Tokens(d)
    <2>10. t = [k \in DOMAIN t |-> t[k]]
      BY DEF Tokens
    <2> HIDE DEF t
    <2>11. Len(t) = n + 1 /\ DOMAIN t = 1..(n + 1) /\ (\A k \in 1..n : t[k] = r[k]) /\ t[n + 1] = x
      BY <2>1, <2>7, <2>8, <2>9 DEF t
    <2>12. /\ ns \in Seq(Text) /\ DOMAIN ns = 1..(n + 1)
           /\ (\A k \in 1..n : ns[k] = r[k]) /\ ns[n + 1] = x
      <3>1. r \in Seq(Text) /\ ns \in Seq(Text)
        BY <2>1 DEF Parts
      <3>2. /\ Len(Append(r, x)) = Len(r) + 1
            /\ (\A k \in 1..Len(r) : Append(r, x)[k] = r[k]) /\ Append(r, x)[Len(r) + 1] = x
        <4>1. r \in Seq(Text) /\ x \in Text
          BY <2>1, <3>1
        <4> QED
          BY ONLY <4>1, AppendProperties
      <3>3. DOMAIN ns = 1..(n + 1)
        BY <3>1, LenProperties
      <3> QED
        BY <2>1, <3>1, <3>2, <3>3
    <2>13. \A k \in 1..(n + 1) : t[k] = ns[k]
      <3> TAKE k \in 1..(n + 1)
      <3>1. k \in 1..n \/ k = n + 1
        OBVIOUS
      <3> QED
        BY <2>11, <2>12, <3>1
    <2>14. ns = [k \in DOMAIN ns |-> ns[k]]
      BY <2>12, LenProperties
    <2>15. t = ns
      BY <2>10, <2>11, <2>12, <2>13, <2>14
    <2> QED
      BY <2>4, <2>5, <2>15 DEF t
  <1>3. Nat \subseteq S
    <2> HIDE DEF S
    <2> QED
      BY <1>1, <1>2, NatInSet
  <1>4. names \in Parts /\ Len(names) \in Nat
    BY LenProperties DEF Parts, Text
  <1>5. Right(Pointer(names), names)
    BY <1>3, <1>4
  <1> QED
    BY <1>5 DEF FollowFrom
===============================================================================
