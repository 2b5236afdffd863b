-------------------------------- MODULE Criteria --------------------------------
(***************************************************************************)
(* arazzo/expressions.cpp: evaluate_criterion, with its matcher of regular *)
(* expressions, its comparisons and its JSONPath selectors.  Patterns and  *)
(* selectors have their brackets closed: of others the code reads past the *)
(* end.                                                                    *)
(***************************************************************************)
EXTENDS Expressions

-----------------------------------------------------------------------------
\* Regular expressions.

\* The characters in use, in the order of their codes.
Ordered == Digits \o <<"A", "B", "_", "a", "b", "c">>
Code(c) == SelectInSeq(Ordered, LAMBDA d : d = c)

match_escaped_char(esc, c) ==
    CASE esc = "d" -> IsDigit(c)
      [] esc = "w" -> c \in ToSet(Ordered)
      [] esc = "s" -> c = " "
      [] OTHER     -> c = esc

\* What is between the brackets of [...].
RECURSIVE InClass(_, _)
InClass(cls, c) ==
    CASE cls = <<>>    -> FALSE
      [] Begins(cls, "\\") -> match_escaped_char(cls[2], c) \/ InClass(After(cls, 2), c)
      [] Len(cls) > 2 /\ cls[1] # "\\" /\ cls[2] = "-" ->
             Code(c) \in Code(cls[1])..Code(cls[3]) \/ InClass(After(cls, 3), c)
      [] OTHER         -> c = cls[1] \/ InClass(Tail(cls), c)

Admits(cls, c) == IF Begins(cls, "^") THEN ~ InClass(Tail(cls), c) ELSE InClass(cls, c)
match_regex_atom(atom, c) ==
    CASE atom[1] = "."  -> TRUE
      [] atom[1] = "\\" -> match_escaped_char(atom[2], c)
      [] atom[1] = "["  -> Admits(SubSeq(atom, 2, Len(atom) - 1), c)
      [] OTHER          -> c = atom[1]

Quantifiers == {"*", "+", "?", "{"}
NumberOr(t, n) == FirstOr(from_chars(t), n)
AtomLength(pat) == CASE pat[1] = "\\" -> 2 [] pat[1] = "[" -> Find(pat, "]") [] OTHER -> 1

\* The upper bound in braces, which may be absent.
\* Mutant: an absent one is zero.
UpperZero(bounds, least, most) == IF Len(bounds) = 1 THEN least ELSE NumberOr(bounds[2], 0)
Upper(bounds, least, most) == IF Len(bounds) = 1 THEN least ELSE NumberOr(bounds[2], most)
InBraces(bounds, most) == LET least == NumberOr(bounds[1], 0) IN least..Upper(bounds, least, most)

\* How often an atom may come, by what follows it, and what follows that.
Times(tail, most) ==
    CASE tail[1] = "*" -> 0..most
      [] tail[1] = "+" -> 1..most
      [] tail[1] = "?" -> 0..1
      [] tail[1] = "{" -> InBraces(Split(SubSeq(tail, 2, Find(tail, "}") - 1), ","), most)
HasQuantifier(tail) == tail # <<>> /\ tail[1] \in Quantifiers
AfterQuantifier(tail) == IF tail[1] = "{" THEN After(tail, Find(tail, "}")) ELSE Tail(tail)
AllMatch(atom, t) == \A i \in DOMAIN t : match_regex_atom(atom, t[i])

RECURSIVE match_regex_here(_, _), Alternative(_, _, _), Repeated(_, _, _), match_regex(_, _)
Alternative(words, rest, text) ==
    \E k \in DOMAIN words :
        IsPrefix(words[k], text) /\ match_regex_here(rest, After(text, Len(words[k])))
Repeated(atom, tail, text) ==
    \E n \in IF HasQuantifier(tail) THEN Times(tail, Len(text)) \cap 0..Len(text)
             ELSE {1} \cap 0..Len(text) :
        /\ AllMatch(atom, Before(text, n + 1))
        /\ match_regex_here(IF HasQuantifier(tail) THEN AfterQuantifier(tail) ELSE tail, After(text, n))
match_regex_here(pat, text) ==
    CASE pat = <<>>    -> TRUE
      [] pat = <<"$">> -> text = <<>>
      [] Begins(pat, "(") ->
             LET close == Find(pat, ")")
             IN Alternative(Split(SubSeq(pat, 2, close - 1), "|"), After(pat, close), text)
      [] OTHER ->
             LET n == AtomLength(pat) IN Repeated(Before(pat, n + 1), After(pat, n), text)

\* The first | outside of parentheses and brackets, or 0.
find_top_level_pipe(pat) ==
    LET Step(s, c) ==
            CASE s.found    -> s
              [] s.escaped /\ ~ s.found -> [s EXCEPT !.at = @ + 1, !.escaped = FALSE]
              [] OTHER ->
                    [at |-> s.at + 1,
                     escaped |-> c = "\\",
                     brackets |-> IF c = "[" THEN TRUE ELSE IF c = "]" THEN FALSE ELSE s.brackets,
                     depth |-> s.depth + (IF s.brackets THEN 0 ELSE IF c = "(" THEN 1
                                          ELSE IF c = ")" THEN -1 ELSE 0),
                     found |-> c = "|" /\ ~ s.brackets /\ s.depth = 0]
        Position(end) == IF end.found THEN end.at ELSE 0
    IN Position(FoldLeft(Step, [at |-> 0, escaped |-> FALSE, brackets |-> FALSE, depth |-> 0, found |-> FALSE],
                         pat))

MatchAt(pipe, pat, text) ==
    CASE pipe # 0 -> match_regex(Before(pat, pipe), text) \/ match_regex(After(pat, pipe), text)
      [] pipe = 0 /\ Begins(pat, "^") -> match_regex_here(Tail(pat), text)
      [] OTHER -> \E i \in 0..Len(text) : match_regex_here(pat, After(text, i))
match_regex(pat, text) == MatchAt(find_top_level_pipe(pat), pat, text)

-----------------------------------------------------------------------------
\* Comparisons.

RECURSIVE trim_ws(_)
trim_ws(t) ==
    IF Begins(t, " ") THEN trim_ws(Tail(t))
    ELSE IF t # <<>> /\ Last(t) = " " THEN trim_ws(Front(t)) ELSE t

\* given: the value of the criterion's context as text, or nothing.
Quotes == {"'", "\""}
resolve_trimmed(t, ctx, given) ==
    CASE t = <<"$">> -> Ok(given)
      [] t # <<"$">> /\ IsExpression(t) -> interpolate_template(t, ctx)
      [] Len(t) > 1 /\ t[1] \in Quotes /\ Last(t) = t[1] -> Ok(SubSeq(t, 2, Len(t) - 1))
      [] OTHER -> Ok(t)
resolve_operand(operand, ctx, given) == resolve_trimmed(trim_ws(operand), ctx, given)

\* The number that a text begins with, with its sign.
Negated(n) == IF n = <<>> THEN <<>> ELSE <<-n[1]>>
Signed(t) == IF Begins(t, "-") THEN Negated(from_chars(Tail(t))) ELSE from_chars(t)

\* The order in which a condition is searched for them.
Operators == << <<"=", "=">>, <<"!", "=">>, <<">", "=">>, <<"<", "=">>, <<">">>, <<"<">> >>
SameAs(l, r, lhs, rhs) == IF l # <<>> /\ r # <<>> THEN l = r ELSE lhs = rhs
InOrder(op, l, r) ==
    CASE op = <<">", "=">> -> l >= r
      [] op = <<"<", "=">> -> l <= r
      [] op = <<">">>      -> l > r
      [] op = <<"<">>      -> l < r
compare_values(lhs, op, rhs) ==
    CASE op = <<"=", "=">> -> SameAs(Signed(lhs), Signed(rhs), lhs, rhs)
      [] op = <<"!", "=">> -> ~ SameAs(Signed(lhs), Signed(rhs), lhs, rhs)
      [] OTHER             -> InOrder(op, FirstOr(Signed(lhs), 0), FirstOr(Signed(rhs), 0))

Past(t, w) == After(t, FindText(t, w) + Len(w) - 1)
\* The operator that a condition is cut at, or none.
OperatorIn(t) == FirstOr(SelectSeq(Operators, LAMBDA op : FindText(t, op) # 0), <<>>)

-----------------------------------------------------------------------------
\* JSONPath: $.name, $["name"] and $[0].

Escaped(c) == CASE c = "~" -> <<"~", "0">> [] c = "/" -> <<"~", "1">> [] OTHER -> <<c>>
\* Mutant: names in quotes are not escaped.
EscapedNot(t) == t
EscapedText(t) == FlattenSeq([i \in DOMAIN t |-> Escaped(t[i])])

RECURSIVE Selected(_)
UpTo(end, path) == IF end = 0 THEN path ELSE Before(path, end)
NameIn(rest) == UpTo(SelectInSeq(rest, LAMBDA c : c \in {".", "["}), rest)
FromDot(name, rest) == <<"/">> \o name \o Selected(After(rest, Len(name)))
FromQuote(name, rest) == <<"/">> \o EscapedText(name) \o Selected(After(rest, Find(rest, "]")))
FromBracket(index, rest) == <<"/">> \o index \o Selected(After(rest, Len(index) + 1))
Selected(path) ==
    CASE path = <<>> -> <<>>
      [] Begins(path, ".") -> FromDot(NameIn(Tail(path)), Tail(path))
      [] Begins(path, "[") /\ path[2] \in Quotes ->
             LET n == Find(After(path, 2), path[2])
             IN FromQuote(SubSeq(path, 3, n + 1), After(path, n + 2))
      [] Begins(path, "[") /\ path[2] \notin Quotes ->
             FromBracket(SubSeq(path, 2, Find(path, "]") - 1), Tail(path))
      [] OTHER -> <<path[1]>> \o Selected(Tail(path))
jsonpath_to_pointer(path) == Selected(trim_ws(path))

-----------------------------------------------------------------------------
\* evaluate_criterion, by the criterion's type.

Or  == <<" ", "|", "|", " ">>
And == <<" ", "&", "&", " ">>

\* What a condition is cut at first, if it has any of them.
\* Mutant: && binds less than ||.
ConnectiveAndFirst(t) == IF FindText(t, And) # 0 THEN And ELSE IF FindText(t, Or) # 0 THEN Or ELSE <<>>
Connective(t) == IF FindText(t, Or) # 0 THEN Or ELSE IF FindText(t, And) # 0 THEN And ELSE <<>>

Compared(t, op, ctx, given) ==
    IF op = <<>> THEN Then(resolve_operand(t, ctx, given), LAMBDA v : Ok(v # <<"false">>))
    ELSE Then(resolve_operand(Before(t, FindText(t, op)), ctx, given), LAMBDA lhs :
           Then(resolve_operand(Past(t, op), ctx, given), LAMBDA rhs : Ok(compare_values(lhs, op, rhs))))

RECURSIVE Simple(_, _, _), Trimmed(_, _, _, _)
Simple(condition, ctx, given) ==
    LET t == trim_ws(condition) IN Trimmed(t, Connective(t), ctx, given)
Trimmed(t, c, ctx, given) ==
    CASE t = <<>> -> Failed
      [] t # <<>> /\ c # <<>> ->
             Then(Simple(Before(t, FindText(t, c)), ctx, given), LAMBDA left :
               IF left = (c = Or) THEN Ok(left) ELSE Simple(Past(t, c), ctx, given))
      [] OTHER -> Compared(t, OperatorIn(t), ctx, given)

\* What is found is compared, or else taken as a truth value.
Judged(text, op, rest, ctx, given) ==
    IF op = <<>> THEN Ok(text \notin {<<"false">>, <<"null">>})
    ELSE Then(resolve_operand(rest, ctx, given), LAMBDA rhs : Ok(compare_values(text, op, rhs)))
FoundOrNot(found, op, rest, ctx, given) ==
    IF IsOk(found) THEN Judged(json_value_to_string(found[2]), op, rest, ctx, given) ELSE Ok(FALSE)
PathJudged(path, op, root, ctx, given) ==
    LET selector == IF op = <<>> THEN path ELSE Before(path, FindText(path, op))
    IN FoundOrNot(evaluate_json_pointer(root, jsonpath_to_pointer(selector)), op, Past(path, op), ctx, given)
JsonPath(t, ctx, root, given) ==
    IF Begins(t, "$") THEN PathJudged(Tail(t), OperatorIn(Tail(t)), root, ctx, given) ELSE Failed

XPath(t, target) ==
    LET tag == <<"<">> \o Last(Split(t, "/"))
    IN /\ target # <<>> /\ Begins(t, "/")
       /\ Begins(target, "<") => FindText(target, tag) # 0

ByType(type, t, ctx, root, given) ==
    CASE t = <<>>          -> Failed
      [] type = "jsonpath" -> JsonPath(t, ctx, root, given)
      [] type = "regex"    -> Ok(match_regex(t, given))
      [] type = "xpath"    -> Ok(XPath(t, given))
      [] OTHER             -> Simple(t, ctx, given)
evaluate_criterion(criterion, ctx) ==
    IF criterion.context = <<>>
    THEN ByType(criterion.type, trim_ws(criterion.condition), ctx, ctx["$response.body"], <<>>)
    ELSE Then(ValueOf(criterion.context[1], ctx), LAMBDA v :
           ByType(criterion.type, trim_ws(criterion.condition), ctx, v, json_value_to_string(v)))
===============================================================================
