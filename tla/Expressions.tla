------------------------------ MODULE Expressions ------------------------------
(***************************************************************************)
(* arazzo/expressions.cpp, but for its criteria: JSON pointers, runtime    *)
(* expressions, templates with expressions in them, and replacements in a  *)
(* payload.                                                                *)
(*                                                                         *)
(* A text is a sequence of symbols: characters, and what the code looks    *)
(* for as a whole: the beginnings of expressions ("$inputs."), operators   *)
(* and ".outputs.".  A JSON value is a tagged tuple; a map is a function.  *)
(* An outcome is <<"ok", x>> or Failed.                                    *)
(***************************************************************************)
EXTENDS Integers, Sequences, FiniteSets, SequencesExt

Null     == <<"null">>
Bool(b)  == <<"bool", b>>
Num(n)   == <<"int", n>>
Real(t)  == <<"double", t>>     \* by the text it is written as
Str(t)   == <<"string", t>>
Arr(s)   == <<"array", s>>
Dict(f)  == <<"map", f>>
Is(v, tag) == v[1] = tag

Ok(x)     == <<"ok", x>>
Failed    == <<"failed">>
IsOk(r)   == r[1] = "ok"
Then(r, Next(_)) == IF IsOk(r) THEN Next(r[2]) ELSE Failed
FirstOr(s, default) == IF s = <<>> THEN default ELSE s[1]

-----------------------------------------------------------------------------
\* Texts.

Begins(t, c)   == t # <<>> /\ t[1] = c
Find(t, c)     == SelectInSeq(t, LAMBDA x : x = c)
Before(t, i)   == SubSeq(t, 1, i - 1)
After(t, i)    == SubSeq(t, i + 1, Len(t))
\* Where w begins in t, or 0.
FindText(t, w) == SelectInSeq([i \in DOMAIN t |-> i], LAMBDA i : IsPrefix(w, After(t, i - 1)))

\* Those of a set of positions that have k of them up to their own.
Ranked(at, k)   == {i \in at : Cardinality({j \in at : j <= i}) = k}
PositionsOf(at) == [k \in 1..Cardinality(at) |-> CHOOSE i \in Ranked(at, k) : TRUE]
Positions(t, c) == PositionsOf({i \in DOMAIN t : t[i] = c})
Split(t, c) ==
    LET at == <<0>> \o Positions(t, c) \o <<Len(t) + 1>>
    IN [k \in 1..(Len(at) - 1) |-> SubSeq(t, at[k] + 1, at[k + 1] - 1)]

Digits == <<"0", "1", "2", "3", "4", "5", "6", "7", "8", "9">>
IsDigit(c) == c \in ToSet(Digits)
Numeral(n) ==
    LET numeral[m \in Nat] ==
            IF m < 10 THEN <<Digits[m + 1]>> ELSE numeral[m \div 10] \o <<Digits[(m % 10) + 1]>>
    IN IF n < 0 THEN <<"-">> \o numeral[-n] ELSE numeral[n]

\* std::from_chars: the number that a text begins with, or <<>> if there is
\* none or it does not fit.  Largest stands for that of the number's type.
Largest == 999
Leading(t) ==
    LET end == SelectInSeq(t, LAMBDA c : ~ IsDigit(c))
    IN IF end = 0 THEN t ELSE Before(t, end)
Number(digits) ==
    LET Shift(n, c) == 10 * n + SelectInSeq(Digits, LAMBDA d : d = c) - 1
        number == FoldLeft(Shift, 0, digits)
    IN IF digits = <<>> \/ number > Largest THEN <<>> ELSE <<number>>
from_chars(t) == Number(Leading(t))

-----------------------------------------------------------------------------
\* JSON pointers.

is_valid_json_pointer(p) ==
    \/ p = <<>>
    \/ /\ p[1] = "/"
       /\ \A i \in DOMAIN p : p[i] = "~" => i < Len(p) /\ p[i + 1] \in {"0", "1"}

\* Of a token of a valid pointer.
unescape_pointer_token(token) ==
    LET kept == PositionsOf({i \in DOMAIN token : i = 1 \/ token[i - 1] # "~"})
        Plain(i) == IF token[i] # "~" THEN token[i] ELSE IF token[i + 1] = "1" THEN "/" ELSE "~"
    IN [k \in DOMAIN kept |-> Plain(kept[k])]

Tokens(p) ==
    LET at == Positions(p, "/") \o <<Len(p) + 1>>
    IN [k \in 1..(Len(at) - 1) |-> unescape_pointer_token(SubSeq(p, at[k] + 1, at[k + 1] - 1))]

WithoutHash(p) == IF Begins(p, "#") THEN Tail(p) ELSE p

\* A token that is no index is index 0, and so is one that is too large.
IndexOf(token) == FirstOr(from_chars(token), 0)
\* The elements of a sequence are counted from 1.
ElementOf(token) == IndexOf(token) + 1
ElementAt(s, i) == IF i \in DOMAIN s THEN Ok(s[i]) ELSE Failed

Child(v, token) ==
    CASE Is(v, "map") -> IF token \in DOMAIN v[2] THEN Ok(v[2][token]) ELSE Failed
      [] Is(v, "array") -> ElementAt(v[2], ElementOf(token))
      [] OTHER -> Failed

\* What is found after each of the tokens, and before the first.
Reach(v, tokens) ==
    LET reach[k \in 0..Len(tokens)] ==
            IF k = 0 THEN Ok(v) ELSE Then(reach[k - 1], LAMBDA c : Child(c, tokens[k]))
    IN reach
Walk(v, tokens) == Reach(v, tokens)[Len(tokens)]

FollowFrom(root, p) == IF is_valid_json_pointer(p) THEN Walk(root, Tokens(p)) ELSE Failed
evaluate_json_pointer(root, pointer) == FollowFrom(root, WithoutHash(pointer))

\* What is replaced: a key that is missing is added, as null at first; an
\* element is not.
\* Mutant: every key is made anew.
SlotFresh(v, token) == IF Is(v, "map") THEN Ok(Null) ELSE Child(v, token)
Slot(v, token) == IF Is(v, "map") /\ token \notin DOMAIN v[2] THEN Ok(Null) ELSE Child(v, token)

Slots(v, tokens) ==
    LET slot[k \in 0..Len(tokens)] ==
            IF k = 0 THEN Ok(v) ELSE Then(slot[k - 1], LAMBDA c : Slot(c, tokens[k]))
    IN slot

\* The same value with another child.
With(v, token, child) ==
    IF Is(v, "map")
    THEN Dict([k \in DOMAIN v[2] \cup {token} |-> IF k = token THEN child ELSE v[2][k]])
    ELSE Arr([v[2] EXCEPT ![ElementOf(token)] = child])
\* What stands for each slot afterwards, from the last of them.
Made(slots, tokens, new) ==
    LET made[k \in 0..Len(tokens)] ==
            IF k = Len(tokens) THEN new ELSE With(slots[k][2], tokens[k + 1], made[k + 1])
    IN made
set_json_pointer_value(v, tokens, new) ==
    LET slots == Slots(v, tokens)
    IN IF IsOk(slots[Len(tokens)]) THEN Ok(Made(slots, tokens, new)[0]) ELSE Failed

-----------------------------------------------------------------------------
\* Runtime expressions.  What an expression begins with is its kind.

Alone   == {"$url", "$method", "$statusCode", "$self"}
Texts   == {"$request.header.", "$request.query.", "$request.path.",
            "$response.header.", "$response.query.", "$response.path."}
Named   == Texts \cup {"$components.parameters.", "$components.successActions.",
                       "$components.failureActions.", "$components.inputs."}
Bodies  == {"$request.body", "$response.body"}
Keyed   == {"$inputs.", "$outputs."}
Outputs == {"$steps.", "$workflows."}
Sources == "$sourceDescriptions."
Kinds   == Alone \cup Named \cup Bodies \cup Keyed \cup Outputs \cup {Sources}
\* A text that begins with "$".
IsExpression(t) == t # <<>> /\ t[1] \in Kinds \cup {"$"}

Parsed(kind, primary, secondary, pointer) ==
    Ok([kind |-> kind, primary |-> primary, secondary |-> secondary, pointer |-> pointer])

\* split_key_and_pointer: <<key, pointer>> of name#pointer or name.property...
SplitAt(suffix, hash, dot) ==
    LET Slashes(t) == [i \in DOMAIN t |-> IF t[i] = "." THEN "/" ELSE t[i]]
    IN CASE suffix = <<>> -> Failed
         [] hash # 0 ->
                IF hash > 1 /\ is_valid_json_pointer(After(suffix, hash))
                THEN Ok(<<Before(suffix, hash), After(suffix, hash)>>) ELSE Failed
         [] hash = 0 /\ dot # 0 ->
                IF dot < Len(suffix) THEN Ok(<<Before(suffix, dot), <<"/">> \o Slashes(After(suffix, dot))>>)
                ELSE Failed
         [] OTHER -> Ok(<<suffix, <<>>>>)
split_key_and_pointer(suffix) == SplitAt(suffix, Find(suffix, "#"), Find(suffix, "."))

ParsedAs(kind, rest, mid, dot) ==
    CASE kind \in Alone -> IF rest = <<>> THEN Parsed(kind, <<>>, <<>>, <<>>) ELSE Failed
      [] kind \in Named -> IF rest = <<>> THEN Failed ELSE Parsed(kind, rest, <<>>, <<>>)
      [] kind \in Bodies ->
             IF rest = <<>> \/ (Begins(rest, "#") /\ is_valid_json_pointer(Tail(rest)))
             THEN Parsed(kind, <<>>, <<>>, WithoutHash(rest)) ELSE Failed
      [] kind \in Keyed ->
             Then(split_key_and_pointer(rest), LAMBDA r : Parsed(kind, r[1], <<>>, r[2]))
      [] kind \in Outputs ->
             IF mid = 0 \/ (mid = 1 /\ kind = "$steps.") THEN Failed
             ELSE Then(split_key_and_pointer(After(rest, mid)),
                       LAMBDA r : Parsed(kind, Before(rest, mid), r[1], r[2]))
      [] kind = Sources ->
             IF dot = 0 \/ dot = Len(rest) THEN Failed
             ELSE Parsed(kind, Before(rest, dot), After(rest, dot), <<>>)
      [] OTHER -> Failed
parse_runtime_expression(t) ==
    IF ~ IsExpression(t) THEN Failed
    ELSE ParsedAs(t[1], Tail(t), Find(Tail(t), ".outputs."), Find(Tail(t), "."))

-----------------------------------------------------------------------------
\* Evaluation.  A context gives each kind what the code keeps for it: a text, a
\* number, a JSON value, or a map of these by their names.

At(map, key) == IF key \in DOMAIN map THEN Ok(map[key]) ELSE Failed
Held(e, held) ==
    CASE e.kind = "$statusCode"             -> Ok(Num(held))
      [] e.kind \in Alone \ {"$statusCode"} -> Ok(Str(held))
      [] e.kind \in Texts \cup {Sources}    -> Then(At(held, e.primary), LAMBDA x : Ok(Str(x)))
      [] e.kind \in Keyed \cup {"$components.parameters."} -> At(held, e.primary)
      [] e.kind \in Outputs                 -> Then(At(held, e.primary), LAMBDA outs : At(outs, e.secondary))
      [] e.kind \in Bodies                  -> Ok(held)
      [] OTHER                              -> Ok(Str(e.primary))
evaluate_expression(e, ctx) ==
    Then(Held(e, ctx[e.kind]), LAMBDA v : IF e.pointer = <<>> THEN Ok(v) ELSE evaluate_json_pointer(v, e.pointer))

json_value_to_string(v) ==
    CASE v[1] \in {"string", "double"} -> v[2]
      [] Is(v, "int")    -> Numeral(v[2])
      [] Is(v, "bool")   -> IF v[2] THEN <<"true">> ELSE <<"false">>
      [] OTHER           -> <<"null">>

\* The value of an expression, as text.
ValueOf(t, ctx) == Then(parse_runtime_expression(t), LAMBDA e : evaluate_expression(e, ctx))
TextOf(t, ctx) == Then(ValueOf(t, ctx), LAMBDA v : Ok(json_value_to_string(v)))

\* A template that is cut at its first {...}: what is before it, in it and after
\* it, or Failed when it does not close.
Opening(t) == Find(t, "{")
CutAt(t, open, length) ==
    IF length = 0 THEN Failed
    ELSE Ok([before |-> Before(t, open), inner |-> SubSeq(t, open + 1, open + length - 1),
             after |-> After(t, open + length)])
Cut(t) == CutAt(t, Opening(t), Find(After(t, Opening(t)), "}"))

\* What becomes of {...}.
\* Mutant: it is always an expression.
FillingAlways(inner, ctx) == TextOf(inner, ctx)
Filling(inner, ctx) == IF IsExpression(inner) THEN TextOf(inner, ctx) ELSE Ok(<<"{">> \o inner \o <<"}">>)

\* With every {...} in it filled; the rest of it, from each of its places on.
Filled(t, ctx) ==
    LET filled[i \in 0..Len(t)] ==
            LET rest == After(t, i) IN
            IF Opening(rest) = 0 THEN Ok(rest)
            ELSE Then(Cut(rest), LAMBDA cut :
                   Then(Filling(cut.inner, ctx), LAMBDA value :
                     Then(filled[Len(t) - Len(cut.after)], LAMBDA more : Ok(cut.before \o value \o more))))
    IN filled[0]

interpolate_template(t, ctx) == IF IsExpression(t) THEN TextOf(t, ctx) ELSE Filled(t, ctx)

\* extract_template_expressions
Single(t) == Then(parse_runtime_expression(t), LAMBDA e : Ok(<<e>>))
Embedded(t) ==
    LET embedded[i \in 0..Len(t)] ==
            LET rest == After(t, i) IN
            IF Opening(rest) = 0 THEN Ok(<<>>)
            ELSE Then(Cut(rest), LAMBDA cut :
                   Then(IF IsExpression(cut.inner) THEN Single(cut.inner) ELSE Ok(<<>>), LAMBDA first :
                     Then(embedded[Len(t) - Len(cut.after)], LAMBDA more : Ok(first \o more))))
    IN embedded[0]
extract_template_expressions(t) == IF IsExpression(t) THEN Single(t) ELSE Embedded(t)

\* A value that is a text with an expression in it is interpolated first.
IsTemplate(t) ==
    IsExpression(t) \/ \E i \in 1..(Len(t) - 1) : t[i] = "{" /\ IsExpression(After(t, i))
Resolved(value, ctx) ==
    IF Is(value, "string") /\ IsTemplate(value[2])
    THEN Then(interpolate_template(value[2], ctx), LAMBDA t : Ok(Str(t))) ELSE Ok(value)

apply_payload_replacement(payload, target, value, ctx) ==
    IF is_valid_json_pointer(WithoutHash(target))
    THEN Then(Resolved(value, ctx), LAMBDA new : set_json_pointer_value(payload, Tokens(WithoutHash(target)), new))
    ELSE Failed
===============================================================================
