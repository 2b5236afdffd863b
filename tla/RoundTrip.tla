------------------------------- MODULE RoundTrip -------------------------------
(***************************************************************************)
(* A document goes through the parser and the emitter of its format, over  *)
(* and over: what a text says is parsed into a struct, the struct is       *)
(* written as a text, and so on.  This is what sync does to a document on  *)
(* each run, what the tests of parsers and emitters do once with a few     *)
(* documents, and what a client and a server of MCP do between them.       *)
(*                                                                         *)
(* Every struct of the three formats is taken by itself: the documents     *)
(* around it only pass it on.  The first text has the members that its     *)
(* parser requires and one more, of any kind, or all members and one of    *)
(* them twice; or the program made the first struct, with a member set; or *)
(* there is a document of an older version, or of a Google API, to begin   *)
(* with, which from_openapi or from_google_discovery brings up to date.    *)
(* Generated code is a text as well, with an API as its struct.            *)
(***************************************************************************)
EXTENDS Services, LegacyDocuments, GeneratedApi

CONSTANTS MaxTexts,     \* how many texts may come up
          Formats       \* the formats whose structs are tried
ASSUME MaxTextsAssumption == MaxTexts \in Nat \ {0}
ASSUME FormatsAssumption == Formats \subseteq {"openapi", "arazzo", "mcp", "code"}

OA == INSTANCE OpenApiCodec
AR == INSTANCE ArazzoCodec
MC == INSTANCE McpCodec
GC == INSTANCE GeneratedCode
Codecs == [openapi |-> OA!OpenApi, arazzo |-> AR!Arazzo, mcp |-> MC!Mcp]

VARIABLES format,       \* the codec in use
          type,         \* the struct, or the kind of code
          texts,        \* the texts, in the order they came up
          docs,         \* the structs
          source,       \* the older document, or Absent
          state         \* what came up last, "old", "text" or "struct", or how a
                        \* reader ended, "failed", "undefined" or "refused"

vars == <<format, type, texts, docs, source, state>>
codec == Codecs[format]

-----------------------------------------------------------------------------
\* Texts to start from.

Wrapping == {"optional", "default", "default to", "required", "unchecked"} \cup Refusing

\* A value of every kind.
AnyKind ==
    {Null, Bool(TRUE), Str("a"), Str("!"), Num(3), Num(-3), Real(3), TooBig, Arr(<<>>), Obj(<<>>),
     Arr(<<Str("a"), Num(3)>>), Obj(<< <<"a", Str("b")>>, <<"a", Num(3)>>, <<"x-a", Null>> >>),
     Arr(<<Obj(<< <<"a", Str("a")>> >>)>>)}

RECURSIVE Minimal(_, _), Sample(_, _), Others(_, _)

\* A value that can be read in this way.
Sample(c, way) ==
    LET kind == way[1]
        Inner == Obj(Minimal(c, way[2]))
    IN CASE kind = "among" /\ way[2] = String -> Str(CHOOSE s \in way[3] : TRUE)
         [] kind \in Wrapping                 -> Sample(c, way[2])
         [] kind \in {"bool"}                 -> Bool(TRUE)
         [] kind \in {"double", "integer", "int", "count", "id", "token", "bare id"} -> Num(3)
         [] kind \in {"strings", "texts", "array text"} -> Arr(<<Str("a"), Str("b")>>)
         [] kind \in {"string map", "strict map", "json", "object text"} -> Obj(<< <<"a", Str("b")>> >>)
         [] kind = "scopes" -> Arr(<<Obj(<< <<"a", Arr(<<Str("b")>>)>> >>)>>)
         [] kind \in {"struct", "element", "string or struct"} -> Inner
         [] kind = "vector"       -> Arr(<<Inner>>)
         [] kind = "map"          -> Obj(<< <<"a", Inner>> >>)
         [] kind = "map of maps"  -> Obj(<< <<"a", Obj(<< <<"b", Inner>> >>)>> >>)
         [] OTHER                 -> Str("a")

\* Another value that has its own way through the code: a wide number, the
\* other variant, elements with equal ids, an id that looks like a number or
\* that JSON has to escape.
Others(c, way) ==
    LET kind == way[1]
        Inner(T) == Obj(Minimal(c, T))
        EveryInner == {Inner(T) : T \in IF way[2] \in DOMAIN c.variants
                                        THEN {c.variants[way[2]][2], c.variants[way[2]][3]} ELSE {way[2]}}
    IN CASE kind = "among" /\ way[2] = String -> {Str(s) : s \in way[3]}
         [] kind \in Wrapping                 -> Others(c, way[2])
         [] kind \in {"double", "json"}       -> {Num(16777217), Real(16777217)}
         [] kind \in {"int", "count"}         -> {Num(300)}
         [] kind \in {"id", "token", "bare id"} -> {Str("7"), Str("a\"b")}
         [] kind = "vector" -> {Arr(<<i>>) : i \in EveryInner} \cup {Arr(<<i, i>>) : i \in EveryInner}
         [] kind = "map"    -> {Obj(<< <<"a", i>>, <<"b", i>> >>) : i \in EveryInner}
         [] OTHER -> {}

\* The members that a parser requires.
IsRequired(way) ==
    way[1] \notin {"optional", "default", "default to", "unchecked", "extensions", "itself", "how many"}
Minimal(c, T) ==
    IF T \in DOMAIN c.variants THEN Minimal(c, c.variants[T][3])
    ELSE LET rows == c.parsers[T]
             Pair(row) == CASE IsRequired(row[3]) -> << <<row[2], Sample(c, row[3])>> >>
                            [] row[3][1] = "how many" /\ 0 \notin row[3][3] ->
                                  << <<CHOOSE k \in row[3][2] : TRUE, Str("a")>> >>
                            [] OTHER -> <<>>
         IN FlattenSeq([i \in DOMAIN rows |-> Pair(rows[i])])

Full(c, T) ==
    LET rows == SelectSeq(c.parsers[T], LAMBDA row : row[2] # "")
        \* not the same text in each member
        Varied(i, v) == IF v = Str("a") /\ i % 2 = 0 THEN Str("b") ELSE v
    IN [i \in DOMAIN rows |-> <<rows[i][2], Varied(i, Sample(c, rows[i][3]))>>]

Omit(o, k) == SelectSeq(o, LAMBDA p : p[1] # k)
TextsOf(c, T) ==
    LET rows == SelectSeq(c.parsers[T], LAMBDA row : row[2] # "")
        min  == Minimal(c, T)
        Set(i, v) == Omit(min, rows[i][2]) \o << <<rows[i][2], v>> >>
        \* two equal keys
        Twice(i) == << <<rows[i][2], Sample(c, rows[i][3])>>, <<rows[i][2], Str("b")>> >>
    IN {min, << <<"x-a", Str("a")>> >> \o min}
         \cup {Omit(min, rows[i][2]) : i \in DOMAIN rows}
         \cup UNION {{Set(i, v) : v \in AnyKind \cup {Sample(c, rows[i][3])} \cup Others(c, rows[i][3])} :
                     i \in DOMAIN rows}
         \cup {Full(c, T) \o Twice(i) : i \in DOMAIN rows}
         \cup {Twice(i) \o Full(c, T) : i \in DOMAIN rows}

\* Structs that the program makes: what the parser makes of the least text,
\* with one member set.
Built(c, T) ==
    LET base == Parse(c, T, Minimal(c, T))[2]
        With(row, v) == [base EXCEPT ![row[1]] = Member(c, row[3], v, << <<"x-a", Str("a")>> >>)[2]]
        rows == c.structs[T]
    IN {With(rows[i], Sample(c, rows[i][3])) : i \in DOMAIN rows}

-----------------------------------------------------------------------------
InitStruct ==
    /\ format \in Formats \ {"code"}
    /\ type \in codec.roots
    /\ source = Absent
    /\ \/ /\ texts \in {<<Obj(o)>> : o \in TextsOf(codec, type)}
          /\ docs = <<>>
          /\ state = "text"
       \/ /\ texts = <<>>
          /\ docs \in {<<s>> : s \in Built(codec, type)}
          /\ state = "struct"
InitDocument ==
    /\ format = "openapi" /\ format \in Formats
    /\ type = "OpenAPI"
    /\ source \in Documents
    /\ texts = <<>> /\ docs = <<>> /\ state = "old"
InitCode ==
    /\ format = "code" /\ format \in Formats
    /\ type \in GC!FunctionKinds \cup GC!StructKinds
    /\ source = Absent
    /\ docs \in {<<d>> : d \in GC!Samples(type)}
    /\ texts = <<>> /\ state = "struct"
Init == InitStruct \/ InitDocument \/ InitCode

\* from_openapi begins with the upgraded text, from_google_discovery with one of
\* the structs read.
Upgrade ==
    LET upgraded == upgrade_to_latest(source)
    IN /\ state = "old"
       /\ texts' = IF upgraded = Failed THEN texts ELSE <<Obj(upgraded[2])>>
       /\ state' = IF upgraded = Failed THEN "refused" ELSE "text"
       /\ UNCHANGED <<format, type, docs, source>>
ReadDiscovery ==
    LET read  == D!parse(source)
        specs == IF read = Failed THEN {} ELSE ToSet(read[2])
    IN /\ state = "old"
       /\ \/ \E spec \in specs : docs' = <<Completed(codec, Struct(type), spec)>> /\ state' = "struct"
          \/ /\ specs = {}
             /\ state' = "refused"
             /\ UNCHANGED docs
       /\ UNCHANGED <<format, type, texts, source>>

\* What a parser makes of a text that is no JSON is left open: the on-demand
\* parsers look at a text no further than they need it.
RECURSIVE IsJson(_)
IsJson(v) ==
    CASE Is(v, "malformed") -> FALSE
      [] Is(v, "array")     -> \A i \in DOMAIN v[2] : IsJson(v[2][i])
      [] Is(v, "object")    -> \A i \in DOMAIN v[2] : IsJson(v[2][i][2])
      [] OTHER              -> TRUE
Read(v) ==
    CASE format = "code" -> GC!ReadCode(type, v)
      [] format # "code" /\ IsJson(v) -> Parse(codec, type, v[2])
      [] OTHER -> Undefined
TextOf(s) == IF format = "code" THEN GC!EmitCode(type, s) ELSE Obj(Emit(codec, type, s))

ParseText ==
    LET read == Read(Last(texts))
    IN /\ state = "text"
       /\ docs' = IF read[1] = "ok" THEN Append(docs, read[2]) ELSE docs
       /\ state' = IF read[1] = "ok" THEN "struct" ELSE read[1]
       /\ UNCHANGED <<format, type, texts, source>>

EmitStruct ==
    /\ state = "struct"
    /\ Len(texts) < MaxTexts
    /\ texts' = Append(texts, TextOf(Last(docs)))
    /\ state' = "text"
    /\ UNCHANGED <<format, type, docs, source>>

Next == Upgrade \/ ReadDiscovery \/ ParseText \/ EmitStruct
Spec == Init /\ [][Next]_vars

-----------------------------------------------------------------------------
\* The first struct came from a text, not from the program.
FromText == Len(texts) > Len(docs) \/ (state = "struct" /\ Len(texts) = Len(docs))

\* WrittenIsAccepted: what an emitter makes of a struct that a parser made is
\* never refused by that parser, nor does the parser use what is not there.
\* The only texts it does not take are those with a request id that was written
\* without its escapes (parse_request_id).
WrittenIsAccepted ==
    state \in {"failed", "undefined"} /\ FromText /\ docs # <<>> => ~ IsJson(Last(texts))

\* TextsSettle: from the first text that an emitter wrote on, a further round
\* changes neither the text nor the struct: sync, which runs again and again,
\* stops writing; but for code that is known to take longer.
TextsSettle ==
    format # "code" \/ ~ GC!SettlesLate(type, docs[1]) =>
    /\ \A i \in 2..(Len(texts) - 1) : texts[i + 1] = texts[i]
    /\ \A i \in 2..(Len(docs) - 1)  : docs[i + 1] = docs[i]

\* A text without numbers that are not written as they were read: more than
\* six digits, or a fraction or exponent.
RECURSIVE PlainNumbers(_)
PlainNumbers(v) ==
    CASE v[1] \in {"double", "uint"} -> FALSE
      [] Is(v, "int")    -> v[2] < 1000000
      [] Is(v, "array")  -> \A i \in DOMAIN v[2] : PlainNumbers(v[2][i])
      [] Is(v, "object") -> \A i \in DOMAIN v[2] : PlainNumbers(v[2][i][2])
      [] OTHER           -> TRUE

\* Members that the structs declare and the parsers do not read at all.
Unread(T) ==
    CASE T = "Schema" ->
           {"externalDocs", "example", "boolean_schema", "dependentRequired", "if_schema", "then_schema",
            "else_schema", "contains", "patternProperties", "propertyNames", "unevaluatedItems",
            "unevaluatedItemsBool", "unevaluatedProperties", "unevaluatedPropertiesBool"}
      [] T \in {"ReusableSuccessAction", "ReusableFailureAction"} -> {"value"}
      [] OTHER -> {"typed_value", "typed_resource", "typed_content", "typed_contents", "typed_ref"}

\* What a Schema's emitter takes for granted of a struct the program made: the
\* first of several types is also the type.
TypesHaveType(s) == type = "Schema" /\ s.types # <<>> => s.type # <<>>

\* KeepsValues: whatever a parser or the program put into a struct is there
\* again after the struct was written and read, but for the members that no
\* parser reads, unless a number was not plain: no member is written under
\* another's key, none is dropped on one of the two ways.
KeepsValues ==
    /\ Len(docs) > 1 /\ format # "code"
    /\ FromText => PlainNumbers(texts[1])
    /\ TypesHaveType(docs[1])
    => \A m \in DOMAIN docs[1] \ Unread(type) : docs[2][m] = docs[1][m]

\* DuplicatesAgree: what is written of a struct that came from a text may have
\* a key twice (the description of a $ref and of the object around it), but
\* with one value, so it does not matter which of them a reader takes.
DuplicatesAgree ==
    FromText =>
        \A i \in 2..Len(texts) :
            LET o == texts[i][2]
            IN \A j, k \in DOMAIN o : o[j][1] = o[k][1] => o[j][2] = o[k][2]

\* SameService: a document of an older version, or of a Google API, and every
\* text that comes of it offer the same: the same servers, calls with the same
\* inputs, bodies, results and scopes, schemas that admit the same values, and
\* logins, whatever way the versions have of saying it; but for what the
\* upgraders are known to lose.
SameService ==
    source # Absent /\ texts # <<>> /\ IsKept(source[2]) =>
        \A i \in DOMAIN texts : Keeps(source[2], texts[i][2])

\* A method of the Client takes what a call of the document has, no more and no
\* less, but for a body that the document gives no media for; the client knows
\* nothing of shared parameters, which lead elsewhere.
Takes(m, c) ==
    LET Parameter(i) == <<openapi_type_to_cpp(i.takes.type), sanitize_cpp_identifier(i.name)>>
        body == <<"std::string", "body">>
    IN /\ ToSet(m.params) \ {body} = {Parameter(i) : i \in c.inputs}
       /\ c.bodies # {} => body \in ToSet(m.params)
Declares(spec, calls) ==
    \A c \in calls :
        (\A i \in c.inputs : i.target = {}) =>
            \E m \in Methods(spec) : /\ m.path = c.path
                                    /\ m.verb = (IF c.verb = "delete" THEN "delete_op" ELSE c.verb)
                                    /\ Takes(m, c)

\* GeneratedAgree: the methods that are generated from a document have the
\* parameters that its calls have, the snippets of its documentation call these
\* methods with a literal of the right type for each parameter, and the tools
\* of the client's adapter pass every argument to the parameter it is for; but
\* for the misfits that GeneratedApi names.
GeneratedAgree ==
    state = "struct" /\ type = "OpenAPI" =>
        LET spec == Last(docs)
        IN /\ SnippetsFit(spec) /\ ToolsFit(spec)
           /\ source # Absent /\ texts # <<>> => Declares(spec, Offer3(Last(texts)[2]).calls)

\* CodeAgrees: what generated code says of an API, in declarations and in the
\* comments above them, is found when the code is scanned, and the readers take
\* whatever the emitters print: operations with their texts, tags, logins,
\* parameters and responses, the API with its servers and schemes, schemas with
\* their members.  It may be found with one of the losses that GeneratedCode names,
\* and nothing is found that was not said but what those put there.
CodeAgrees ==
    format = "code" =>
        /\ state # "failed"
        /\ state = "undefined" => ~ GC!IsReadable(type, docs[1])
        /\ Len(docs) > 1 => GC!CodeAgrees(type, docs[1], docs[2])

\* "structured Doxygen `@tag` annotations (..., `@param`, `@response_content`, ...),
\* enabling lossless bidirectional `sync`" (README.md:563): the routes of a
\* generated Router, scanned, have the logins, responses and places of parameters
\* that the document gave them.  The code does not keep this.
LosslessCode ==
    format = "code" /\ type = "router" /\ Len(docs) > 1 => GC!AnnotationsKept(docs[1], docs[2])
===============================================================================
