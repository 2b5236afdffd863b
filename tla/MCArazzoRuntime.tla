---------------------------- MODULE MCArazzoRuntime ----------------------------
(***************************************************************************)
(* Small sets of what a caller passes to the Arazzo runtime.  Together     *)
(* they have every form of a pointer, a path, a template, a pattern and a  *)
(* condition that the code tells apart.                                    *)
(***************************************************************************)
EXTENDS ArazzoRuntime

MapOf(k1, v1, k2, v2) == Dict([k \in {k1, k2} |-> IF k = k1 THEN v1 ELSE v2])

\* Names with / and ~ in them, the empty name, nested arrays and maps.
MCUsual ==
    MapOf(<<"a">>, Arr(<<Num(7), MapOf(<<"b">>, Str(<<"a">>), <<"~", "1">>, Bool(FALSE))>>),
          <<"a", "/", "b">>, Num(-7))
MCPayloads ==
    {MCUsual,
     Arr(<<Str(<<"a">>), Arr(<<>>), Real(<<"7", ".", "5">>), Null>>)}

MCTargets ==
    {<<>>, <<"#">>, <<"/">>, <<"/", "a">>, <<"#", "/", "a", "/", "1">>, <<"/", "a", "/", "1", "/", "b">>,
     <<"/", "a", "/", "x">>, <<"/", "a", "/", "0">>, <<"/", "a", "/", "0", "0", "0", "1">>,
     <<"/", "a", "/", "1", "0", "0", "0">>,
     <<"/", "a", "~", "1", "b">>, <<"/", "a", "/", "1", "/", "~", "0", "1">>,
     <<"/", "a", "/", "2">>, <<"/", "1">>, <<"/", "1", "/", "b", "/", "b">>, <<"a">>, <<"/", "~">>}
New(v, means) == [value |-> v, means |-> means]
MCValues ==
    {New(Arr(<<Num(1), Num(2)>>), Ok(Arr(<<Num(1), Num(2)>>))),
     New(MapOf(<<"b">>, Null, <<>>, Null), Ok(MapOf(<<"b">>, Null, <<>>, Null))),
     New(Str(<<"$url">>), Ok(Str(<<"u">>))),
     New(Str(<<"a", "{", "$url", "}">>), Ok(Str(<<"a", "u">>))),
     New(Str(<<"$response.header.", "x">>), Failed)}

Piece(text, means) == [text |-> text, means |-> means, open |-> FALSE]
Whole(text, means) == <<[text |-> text, means |-> means, open |-> FALSE]>>
Pieces ==
    {Piece(<<"a">>, Ok(<<"a">>)), Piece(<<"{", "a", "}">>, Ok(<<"{", "a", "}">>)), Piece(<<"}">>, Ok(<<"}">>)),
     Piece(<<"{", "$response.header.", "h", "}">>, Ok(<<"a">>)),
     Piece(<<"{", "$response.header.", "x", "}">>, Failed),
     Piece(<<"{", "$statusCode", "}">>, Ok(<<"2", "0">>)), Piece(<<"{", "$", "}">>, Failed),
     [text |-> <<"{">>, means |-> Failed, open |-> TRUE]}
MCTemplates ==
    UNION {[1..n -> Pieces] : n \in 0..3} \cup
    {Whole(<<"$url">>, Ok(<<"u">>)), Whole(<<"$self", "a">>, Failed), Whole(<<"$method">>, Ok(<<"u">>)),
     Whole(<<"$request.body">>, Ok(<<"null">>)), Whole(<<"$request.body", "#">>, Ok(<<"null">>)),
     Whole(<<"$request.body", "#", "/", "a">>, Failed), Whole(<<"$request.body", "a">>, Failed),
     Whole(<<"$response.body", "#", "/", "a", "~", "1", "b">>, Ok(<<"-", "7">>)),
     Whole(<<"$response.body", "#", "a">>, Failed), Whole(<<"$response.body", "#", "/", "~">>, Failed),
     Whole(<<"$inputs.">>, Failed), Whole(<<"$inputs.", "i">>, Ok(<<"null">>)), Whole(<<"$inputs.", "x">>, Failed),
     Whole(<<"$inputs.", "i", ".">>, Failed), Whole(<<"$inputs.", "#", "/", "a">>, Failed),
     Whole(<<"$outputs.", "i", ".", "a", ".", "0">>, Ok(<<"7">>)),
     Whole(<<"$outputs.", "i", "#", "/", "a", "/", "0">>, Ok(<<"7">>)),
     Whole(<<"$steps.", "s", ".outputs.", "o">>, Ok(<<"null">>)), Whole(<<"$steps.", "s">>, Failed),
     Whole(<<"$steps.", ".outputs.", "o">>, Failed), Whole(<<"$steps.", "s", ".outputs.">>, Failed),
     Whole(<<"$steps.", "x", ".outputs.", "o">>, Failed), Whole(<<"$steps.", "s", ".outputs.", "x">>, Failed),
     Whole(<<"$workflows.", "s", ".outputs.", "o", "#", "/", "a", "/", "1", "/", "b">>, Ok(<<"a">>)),
     Whole(<<"$workflows.", ".outputs.", "o">>, Failed),
     Whole(<<"$sourceDescriptions.", "n", ".", "x">>, Ok(<<"u">>)), Whole(<<"$sourceDescriptions.", "n">>, Failed),
     Whole(<<"$sourceDescriptions.", "x", ".", "u">>, Failed),
     Whole(<<"$request.header.", "n">>, Ok(<<"u">>)), Whole(<<"$request.query.">>, Failed),
     Whole(<<"$components.parameters.", "p">>, Ok(<<"false">>)), Whole(<<"$components.parameters.", "x">>, Failed),
     Whole(<<"$components.inputs.", "x">>, Ok(<<"x">>))}

\* Items of patterns: characters, classes and escapes with each quantifier,
\* and groups of words.
Atoms ==
    {<<<<"a">>, {"a"}>>, <<<<".">>, {"a", "1", "|"}>>, <<<<"\\", "d">>, {"1"}>>, <<<<"\\", "w">>, {"a", "1"}>>,
     <<<<"\\", "|">>, {"|"}>>, <<<<"[", "a", "-", "c", "]">>, {"a"}>>, <<<<"[", "^", "a", "]">>, {"1", "|"}>>,
     <<<<"[", "\\", "d", "|", "]">>, {"1", "|"}>>}
Quantified ==
    {<<<<>>, 1, 1>>, <<<<"*">>, 0, 99>>, <<<<"+">>, 1, 99>>, <<<<"?">>, 0, 1>>,
     <<<<"{", "2", "}">>, 2, 2>>, <<<<"{", "1", ",", "}">>, 1, 99>>, <<<<"{", "1", ",", "2", "}">>, 1, 2>>,
     <<<<"{", ",", "1", "}">>, 0, 1>>}
Item(a, q) == [text |-> a[1], quantifier |-> q[1], chars |-> a[2], least |-> q[2], most |-> q[3], words |-> {}]
Group == [text |-> <<"(", "a", "|", "1", "1", ")">>, quantifier |-> <<>>, chars |-> {}, least |-> 0, most |-> 0,
          words |-> {<<"a">>, <<"1", "1">>}]
AllItems == {Item(a, q) : a \in Atoms, q \in Quantified} \cup {Group}
SomeItems ==
    {i \in AllItems : i.text \in {<<"a">>, <<".">>, <<"[", "^", "a", "]">>} /\ Len(i.quantifier) < 2}
       \cup {Group} \cup {Item(<<<<"a">>, {"a"}>>, <<<<"{", "1", ",", "}">>, 1, 99>>)}
Branches(items) == [start : BOOLEAN, items : items, end : BOOLEAN]
Least == {<<i>> : i \in {i \in SomeItems : i.text # <<".">> /\ i.quantifier \in {<<>>, <<"*">>}}}
MCPatterns ==
    {<<b>> : b \in Branches({<<i>> : i \in AllItems})}
      \cup {<<b>> : b \in Branches({<<i, j>> : i \in SomeItems, j \in SomeItems})}
      \cup {<<b, c>> : b \in Branches(Least), c \in Branches(Least)}
MCSubjects == UNION {[1..n -> {"a", "1"}] : n \in 0..2} \cup
              {<<"a", "a", "1">>, <<"1", "1", "a">>, <<"a", "|", "1">>, <<"a", "1", "a", "a">>}

Operand(text, means) == [text |-> text, means |-> means]
Operands ==
    {Operand(<<"7">>, Ok(<<"7">>)), Operand(<<"2", "0">>, Ok(<<"2", "0">>)), Operand(<<"$">>, <<"given">>),
     Operand(<<"$statusCode">>, Ok(<<"2", "0">>)), Operand(<<"'", "a", "'">>, Ok(<<"a">>)),
     Operand(<<"$response.header.", "x">>, Failed), Operand(<<"0", "7">>, Ok(<<"0", "7">>)),
     Operand(<<"7", ".", "1">>, Ok(<<"7", ".", "1">>)), Operand(<<"1", "0", "0", "0">>, Ok(<<"1", "0", "0", "0">>)),
     Operand(<<"$response.body", "#", "/", "a", "~", "1", "b">>, Ok(<<"-", "7">>))}
Comparison(l, op, r) == [left |-> l, op |-> op, right |-> r]
Comparisons == {Comparison(l, op, r) : l \in Operands, op \in ToSet(Operators) \cup {<<>>}, r \in Operands}
Verdicts ==
    {Comparison(Operand(<<"7">>, Ok(<<"7">>)), <<">", "=">>, Operand(<<"$">>, <<"given">>)),
     Comparison(Operand(<<"false">>, Ok(<<"false">>)), <<>>, Operand(<<>>, Failed)),
     Comparison(Operand(<<"$components.parameters.", "p">>, Ok(<<"false">>)), <<"!", "=">>,
                Operand(<<"\"", "a", "\"">>, Ok(<<"a">>))),
     Comparison(Operand(<<"$response.header.", "x">>, Failed), <<"=", "=">>, Operand(<<"7">>, Ok(<<"7">>)))}
MCConditions ==
    {<< <<c>> >> : c \in Comparisons}
      \cup UNION {{<< <<c, d>> >>, << <<c>>, <<d>> >>} : c \in Verdicts, d \in Verdicts}
      \cup UNION {{<< <<c, d>>, <<e>> >>, << <<c>>, <<d, e>> >>, << <<c>>, <<d>>, <<e>> >>, << <<c, d, e>> >>} :
                  c \in Verdicts, d \in Verdicts, e \in Verdicts}
MCGivens == {<<"a">>, <<"7">>, <<"7", ".", "5">>, <<"null">>}

\* XPath, JSONPath without a text to compare, and criteria that fail.
MCCriteria ==
    {Criterion("xpath", Given, <<"/", "a">>), Criterion("xpath", Given, <<"/", "a", "/", "b">>),
     Criterion("xpath", << <<"$url">> >>, <<"/", "a">>), Criterion("xpath", <<>>, <<"/", "a">>),
     Criterion("xpath", Given, <<"a">>), Criterion("jsonpath", <<>>, <<"$", ".", "a">>),
     Criterion("jsonpath", <<>>, <<"$", ".", "a", "[", "1", "]", "[", "\"", "~", "1", "\"", "]">>),
     Criterion("jsonpath", <<>>, <<"$", ".", "b">>), Criterion("jsonpath", <<>>, <<"a">>),
     Criterion("jsonpath", << <<"$inputs.", "i">> >>, <<"$", ".", "a", "[", "0", "]", "=", "=", "$inputs.", "x">>),
     Criterion("regex", << <<"$inputs.", "x">> >>, <<"a">>), Criterion("regex", << <<"$">> >>, <<"a">>),
     Criterion("simple", <<>>, <<" ", " ">>), Criterion("regex", <<>>, <<>>)}

MCPaths ==
    {<<>>, <<Name(<<"a">>)>>, <<Name(<<"a">>), Index(0)>>, <<Name(<<"a">>), Index(1), Name(<<"b">>)>>,
     <<Name(<<"a">>), Index(1), Name(<<"~", "1">>)>>, <<Name(<<"a", "/", "b">>)>>, <<Name(<<"a">>), Index(2)>>,
     <<Name(<<"a", "/", "b">>), Name(<<"b">>)>>, <<Name(<<>>)>>, <<Name(<<"b">>)>>,
     <<Index(0)>>, <<Index(1), Index(0)>>, <<Index(2)>>, <<Index(3)>>}
===============================================================================
