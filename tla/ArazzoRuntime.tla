----------------------------- MODULE ArazzoRuntime -----------------------------
(***************************************************************************)
(* The calls that a workflow's caller makes into arazzo/expressions.cpp    *)
(* between two requests: replacements in a payload, one after the other,   *)
(* and between them templates, addresses of values and criteria.  A call   *)
(* reads the context it is given and answers; only a replacement leaves    *)
(* something behind, the payload that the next call works on.              *)
(*                                                                         *)
(* Templates, patterns, conditions and addresses come as structures, which *)
(* the program gets as texts.  What they mean is defined here from their   *)
(* structure alone, what the code makes of the texts in Expressions and    *)
(* Criteria.                                                               *)
(***************************************************************************)
EXTENDS Replacements, Criteria

CONSTANTS Usual,                      \* the payload for the other calls
          Templates,                  \* sequences of pieces
          Patterns, Subjects,         \* regular expressions and texts to match
          Conditions, Givens,         \* simple conditions and values for their $
          Criteria,                   \* of other types, and what fails
          Paths                       \* sequences of names and indices
ASSUME UsualAssumption == Usual \in Payloads

Given == << <<"$response.header.", "h">> >>
Criterion(type, context, condition) == [type |-> type, context |-> context, condition |-> condition]

\* A bound: questions that are not about the payload are put with one payload,
\* before anything is replaced in it.
AtFirst == replacements = 0 /\ body = Usual

\* The text of a structure.
TextOfPieces(template) == FlattenSeq([i \in DOMAIN template |-> template[i].text])
Fill(template) ==
    /\ call = Idle
    /\ AtFirst
    /\ Answer([what |-> "fill", template |-> template,
               outcome |-> interpolate_template(TextOfPieces(template), Context(body, <<"a">>))])

Joined(parts, sep) ==
    FlattenSeq([i \in DOMAIN parts |-> (IF i = 1 THEN <<>> ELSE sep) \o parts[i]])
TextOfBranch(b) ==
    (IF b.start THEN <<"^">> ELSE <<>>)
       \o FlattenSeq([i \in DOMAIN b.items |-> b.items[i].text \o b.items[i].quantifier])
       \o (IF b.end THEN <<"$">> ELSE <<>>)
TextOfPattern(pattern) == Joined([i \in DOMAIN pattern |-> TextOfBranch(pattern[i])], <<"|">>)
Match(pattern, subject) ==
    LET c == Criterion("regex", Given, TextOfPattern(pattern))
    IN /\ call = Idle
       /\ AtFirst
       /\ Answer([what |-> "match", pattern |-> pattern, subject |-> subject,
                  outcome |-> evaluate_criterion(c, Context(body, subject))])

TextOfComparison(c) ==
    IF c.op = <<>> THEN c.left.text ELSE c.left.text \o <<" ">> \o c.op \o <<" ">> \o c.right.text
TextOfCondition(condition) ==
    Joined([i \in DOMAIN condition |->
              Joined([k \in DOMAIN condition[i] |-> TextOfComparison(condition[i][k])], And)], Or)
Compare(condition, given) ==
    LET c == Criterion("simple", Given, TextOfCondition(condition))
    IN /\ call = Idle
       /\ AtFirst
       /\ Answer([what |-> "compare", condition |-> condition, given |-> given,
                  outcome |-> evaluate_criterion(c, Context(body, given))])

\* The ways to address a value: with a pointer, with the properties of an
\* input or a step's output, and with a JSONPath in brackets or with dots.
Plain(key) == IF Is(key, "index") THEN Numeral(key[2]) ELSE key[2]
Slashed(path) == Pointer([i \in DOMAIN path |-> Plain(path[i])])
Dotted(path) == FlattenSeq([i \in DOMAIN path |-> <<".">> \o Plain(path[i])])
Bracketed(path) ==
    FlattenSeq([i \in DOMAIN path |-> IF Is(path[i], "index") THEN <<"[">> \o Plain(path[i]) \o <<"]">>
                                      ELSE <<"[", "'">> \o Plain(path[i]) \o <<"'", "]">>])
Ways == {"pointer", "output pointer", "input property", "brackets", "dots"}
TextOfAddress(path, way) ==
    CASE way = "pointer"        -> <<"$response.body">> \o (IF path = <<>> THEN <<>> ELSE <<"#">> \o Slashed(path))
      [] way = "output pointer" -> <<"$steps.", "s", ".outputs.", "o", "#">> \o Slashed(path)
      [] way = "input property" -> <<"$inputs.", "i">> \o Dotted(path)
      [] way = "brackets"       -> <<"$">> \o Bracketed(path)
      [] way = "dots"           -> <<"$">> \o Dotted(path)

\* A JSONPath criterion compares what it finds with a text.
Seen(address, way, text) ==
    IF way \in {"brackets", "dots"}
    THEN evaluate_criterion(Criterion("jsonpath", <<>>, address \o <<" ", "=", "=", " ", "'">> \o text \o <<"'">>),
                            Context(body, NoHeader))
    ELSE Ok(interpolate_template(address, Context(body, NoHeader)) = Ok(text))
Look(path, way, text) ==
    /\ call = Idle
    /\ replacements < MaxReplacements
    /\ Answer([what |-> "look", path |-> path, way |-> way, text |-> text,
               outcome |-> Seen(TextOfAddress(path, way), way, text)])

\* Any other criterion.
Judge(criterion) ==
    /\ call = Idle
    /\ AtFirst
    /\ Answer([what |-> "judge", criterion |-> criterion,
               outcome |-> evaluate_criterion(criterion, Context(body, <<"<", "a">>))])

Next ==
    \/ \E target \in Targets, new \in Values : Replace(target, new)
    \/ \E template \in Templates : Fill(template)
    \/ \E pattern \in Patterns, subject \in Subjects : Match(pattern, subject)
    \/ \E condition \in Conditions, given \in Givens : Compare(condition, given)
    \/ \E path \in Paths, way \in Ways, text \in Givens : Look(path, way, text)
    \/ \E criterion \in Criteria : Judge(criterion)
    \/ Return
Spec == Init /\ [][Next]_vars

-----------------------------------------------------------------------------
\* The value at a path, from the payload's structure.
RECURSIVE Reached(_, _)
Reached(v, path) ==
    LET key == Head(path) IN
    CASE path = <<>> -> Ok(v)
      [] Is(v, "map") -> IF key[2] \in DOMAIN v[2] THEN Reached(v[2][key[2]], Tail(path)) ELSE Failed
      [] Is(v, "array") -> IF key[2] < Len(v[2]) THEN Reached(v[2][key[2] + 1], Tail(path)) ELSE Failed
      [] OTHER -> Failed
\* Names are for maps and indices for arrays, as far as the path leads.
RECURSIVE Fits(_, _)
Fits(v, path) ==
    LET key == Head(path) IN
    CASE path = <<>> -> TRUE
      [] Is(v, "map") -> Is(key, "name") /\ (key[2] \in DOMAIN v[2] => Fits(v[2][key[2]], Tail(path)))
      [] Is(v, "array") -> Is(key, "index") /\ (key[2] < Len(v[2]) => Fits(v[2][key[2] + 1], Tail(path)))
      [] OTHER -> TRUE
\* Only pointers and brackets have a way to write every name.
Writable(path, way) ==
    way \in {"dots", "input property"} =>
        /\ \A i \in DOMAIN path : ToSet(Plain(path[i])) \cap {"~", "/", "."} = {} /\ Plain(path[i]) # <<>>
        /\ path # <<>>

IsWhole(t) ==
    LET digits == IF Begins(t, "-") THEN Tail(t) ELSE t
    IN Signed(t) # <<>> /\ \A i \in DOMAIN digits : IsDigit(digits[i])
\* Of two texts that begin with a number the code compares these numbers, and
\* not what comes after them: 1.5 and 1.2 are the same to it, and so are two
\* dates of one year.
IsCutOff(a, b) == Signed(a) # <<>> /\ Signed(b) # <<>> /\ ~ (IsWhole(a) /\ IsWhole(b))

\* AddressesAgree: whichever way the address of a value is written, as a JSON
\* pointer, with the properties of an input or as a JSONPath, with the escapes
\* that this way needs, it leads to the value at its path, and an address of
\* nothing matches no text.  (A JSONPath criterion compares the value with a
\* text, and two that are cut off at their numbers are left out.)
AddressesAgree ==
    call.what = "look" /\ Fits(body, call.path) /\ Writable(call.path, call.way) =>
        LET v == Reached(body, call.path)
            text == json_value_to_string(v[2])
        IN \/ call.outcome = Ok(IsOk(v) /\ text = call.text)
           \/ call.way \in {"brackets", "dots"} /\ IsOk(v) /\ IsCutOff(text, call.text)

\* TemplatesAgree: the texts that the Arazzo parser accepts (it calls
\* extract_template_expressions) are the ones that can be filled once every
\* expression in them has a value: filling fails only for a text that the
\* parser refuses or a value that is missing.  What it puts together is every
\* piece in its place, braces that hold no expression included.
TemplatesAgree ==
    call.what = "fill" =>
        LET t == call.template
            found == extract_template_expressions(TextOfPieces(t))
            HasValue(e) == IsOk(evaluate_expression(e, Context(body, <<"a">>)))
        IN /\ IsOk(call.outcome) <=> IsOk(found) /\ \A i \in DOMAIN found[2] : HasValue(found[2][i])
           /\ (\A i \in DOMAIN t : ~ t[i].open) =>
                 IF \E i \in DOMAIN t : ~ IsOk(t[i].means) THEN ~ IsOk(call.outcome)
                 ELSE call.outcome = Ok(FlattenSeq([i \in DOMAIN t |-> t[i].means[2]]))

-----------------------------------------------------------------------------
\* Where a match of an item, or of several, that starts after i may end.
Ends(item, text, i) ==
    IF item.words # {}
    THEN {i + Len(w) : w \in {w \in item.words : IsPrefix(w, After(text, i))}}
    ELSE {i + n : n \in {n \in 0..(Len(text) - i) : n >= item.least /\ n <= item.most
                                                 /\ \A k \in 1..n : text[i + k] \in item.chars}}
EndsOfAll(items, text, i) ==
    FoldLeft(LAMBDA at, item : UNION {Ends(item, text, j) : j \in at}, {i}, items)
MatchesBranch(b, text) ==
    \E i \in (IF b.start THEN {0} ELSE 0..Len(text)) :
        \E j \in EndsOfAll(b.items, text, i) : b.end => j = Len(text)

\* RegexIsRight: the backtracking matcher finds a match just when there is one:
\* each item as often as its quantifier allows, in order, from the start and to
\* the end if the pattern says so, of one of its alternatives.  (Groups are of
\* plain words and without a quantifier: the code knows no others.)
RegexIsRight ==
    call.what = "match" =>
        call.outcome = Ok(\E k \in DOMAIN call.pattern : MatchesBranch(call.pattern[k], call.subject))

Meaning(operand, given) == IF operand.means = <<"given">> THEN Ok(given) ELSE operand.means
Holds(c, given) ==
    LET l == Meaning(c.left, given)
        r == Meaning(c.right, given)
        Smaller(a, b) == Signed(a)[1] < Signed(b)[1]
        Same(a, b) == IF IsWhole(a) /\ IsWhole(b) THEN Signed(a) = Signed(b) ELSE a = b
    IN CASE c.op = <<>>       -> IF IsOk(l) THEN Ok(l[2] # <<"false">>) ELSE Failed
         [] ~ (IsOk(l) /\ IsOk(r)) -> Failed
         [] c.op = <<"=", "=">> -> Ok(Same(l[2], r[2]))
         [] c.op = <<"!", "=">> -> Ok(~ Same(l[2], r[2]))
         [] c.op = <<">">>      -> Ok(Smaller(r[2], l[2]))
         [] c.op = <<"<">>      -> Ok(Smaller(l[2], r[2]))
         [] c.op = <<">", "=">> -> Ok(~ Smaller(l[2], r[2]))
         [] c.op = <<"<", "=">> -> Ok(~ Smaller(r[2], l[2]))
\* What the code is not asked: to compare texts that it cuts off, and to order
\* what does not begin with a number, which is zero to it.
IsComparable(c, given) ==
    LET l == Meaning(c.left, given)
        r == Meaning(c.right, given)
    IN c.op # <<>> /\ IsOk(l) /\ IsOk(r) =>
           IF c.op \in {<<"=", "=">>, <<"!", "=">>} THEN ~ IsCutOff(l[2], r[2])
           ELSE IsWhole(l[2]) /\ IsWhole(r[2])
\* The first of the answers that is decisive, or the last.
FirstOf(answers, decisive) ==
    LET i == SelectInSeq(answers, LAMBDA a : a \in {Failed, Ok(decisive)})
    IN IF i = 0 THEN Last(answers) ELSE answers[i]

\* SimpleIsRight: a condition is an alternative of conjunctions of comparisons,
\* and && binds more than ||.  Its answer is that of the first conjunction that
\* holds or fails, a conjunction's that of the first comparison that does not
\* hold or fails, so what comes after it need not have a value.  Whole numbers
\* are compared as numbers, and are equal or not to what does not begin with a
\* number as texts are.  (Two that are not both whole and begin with a number
\* are left out, and so is the order of what is not whole: compare_values looks
\* at the numbers alone.)
SimpleIsRight ==
    call.what = "compare" /\ (\A i \in DOMAIN call.condition : \A k \in DOMAIN call.condition[i] :
                                  IsComparable(call.condition[i][k], call.given)) =>
        LET conjunctions == [i \in DOMAIN call.condition |->
                FirstOf([k \in DOMAIN call.condition[i] |-> Holds(call.condition[i][k], call.given)], FALSE)]
        IN call.outcome = FirstOf(conjunctions, TRUE)
===============================================================================
