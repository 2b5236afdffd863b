-------------------------------- MODULE Codec --------------------------------
(***************************************************************************)
(* How the parsers and emitters of the OpenAPI, Arazzo and MCP structs     *)
(* turn JSON into structs and back.  Each of them reads or writes the      *)
(* members of one struct in order, every member in one of the few ways     *)
(* defined here, so a parser, an emitter and a struct are each a table:    *)
(* a sequence of <<member, key, way>>.                                     *)
(*                                                                         *)
(* A JSON value is a tagged tuple.  An object is a sequence of <<key,      *)
(* value>>: looking a key up finds its first member, as simdjson does,     *)
(* and a std::map built from the members keeps the last.  The text of a    *)
(* value, where the code carries it unparsed, is the value itself.         *)
(*                                                                         *)
(* An optional is <<>> or <<x>>.                                           *)
(***************************************************************************)
EXTENDS Integers, Sequences, FiniteSets, SequencesExt

Null        == <<"null">>
Bool(b)     == <<"bool", b>>
Str(s)      == <<"string", s>>
Num(n)      == <<"int", n>>       \* a number without fraction that fits int64_t
Real(n)     == <<"double", n>>    \* the number n, written with a fraction or exponent
TooBig      == <<"uint">>         \* an integer beyond int64_t
Arr(items)  == <<"array", items>>
Obj(pairs)  == <<"object", pairs>>
Absent      == <<"absent">>       \* what looking up a key that is not there gives
Malformed   == <<"malformed">>    \* text that is not JSON

Is(v, tag) == v[1] = tag
Keys(o)    == {o[i][1] : i \in DOMAIN o}
Where(o, k) == SelectInSeq(o, LAMBDA p : p[1] = k)
Latest(o, k) == o[SelectLastInSeq(o, LAMBDA p : p[1] = k)][2]

\* Looking into an object: the value at a key, and what it holds if it is of
\* the kind that is asked for.
ValueAt(o, k)   == Head(SelectSeq(o, LAMBDA p : p[1] = k) \o << <<k, Absent>> >>)[2]
StringIn(v)     == IF Is(v, "string") THEN v[2] ELSE ""
PairsIn(v)      == IF Is(v, "object") THEN v[2] ELSE <<>>
ItemsIn(v)      == IF Is(v, "array") THEN v[2] ELSE <<>>
HasKey(o, k)    == ValueAt(o, k) # Absent
IsAt(o, k, tag) == Is(ValueAt(o, k), tag)
TextAt(o, k)    == StringIn(ValueAt(o, k))
Within(o, k)    == PairsIn(ValueAt(o, k))
ItemsAt(o, k)   == ItemsIn(ValueAt(o, k))
IsTrueAt(o, k)  == ValueAt(o, k) = Bool(TRUE)
IfAnyIn(x)      == IF x = <<>> THEN <<>> ELSE <<x>>
Entry(k, v)     == << <<k, v>> >>
StartsWith(s, prefix) == Len(s) >= Len(prefix) /\ SubSeq(s, 1, Len(prefix)) = prefix

-----------------------------------------------------------------------------
\* Ways of reading and writing a member.

String   == <<"string">>
Boolean == <<"bool">>
Double == <<"double">>
Integer  == <<"integer">>     \* int64_t
Int32    == <<"int">>         \* int64_t cast to int
Count    == <<"count">>       \* the same, and 0 if the value is no integer
FirstOf  == <<"first">>       \* a string, or the first of an array of strings
Strings  == <<"strings">>
StringMap == <<"string map">>
StrictMap(keys, bad) == <<"strict map", keys, bad>> \* refuses other keys, bad values and no strings
JsonText == <<"text">>        \* the text of a value of any kind
ObjectText == <<"object text">>
ArrayText == <<"array text">>
Texts    == <<"texts">>       \* the texts of the values of an array
Json     == <<"json">>        \* a JsonValue
Scopes   == <<"scopes">>      \* security requirements
Extensions == <<"extensions">>    \* the members named x-..., here those of ExtensionKeys
ExtensionsIfAny == <<"extensions if any">>
Itself   == <<"itself">>      \* the text of the object that is being read
SameObject(T) == <<"same object", T>> \* a struct read from the same object, if it has the key
Struct(T)  == <<"struct", T>>
Tuple(T) == <<"vector", T>>
MapOf(T)   == <<"map", T>>
MapOfMaps(T) == <<"map of maps", T>>
InnerMap(T) == <<"inner map", T>> \* of a map of maps, from a value of any kind
ElementOf(T) == <<"element", T>>  \* a struct, from a value of any kind
Id         == <<"id">>        \* text of a request id: a number, a quoted string or null
Token      == <<"token">>     \* an Id that must not be null
BareId     == <<"bare id">>   \* a request id without the quotes
StringOr(set, T) == <<"string or struct", T, set>> \* a string of the set, or a struct

\* Ways of refusing what was read: a value outside the set, one of the set, no
\* or equal elements, a cycle; or an object with so many strings at these keys.
Among(way, set)      == <<"among", way, set>>
NotAmong(way, set)   == <<"not among", way, set>>
Without(way, x)      == <<"without", way, x>>
NonEmpty(way)        == <<"non-empty", way>>
Distinct(way, id)    == <<"distinct", way, id>>
Acyclic(way, id, to) == <<"acyclic", way, id, to>>
HowMany(keys, counts) == << <<"", "", <<"how many", keys, counts>>>> >>

\* What becomes of a value of the wrong kind, or none: no value; the default
\* of the member; an error of the parser.
Opt(way)      == <<"optional", way>>
Default(way)  == <<"default", way>>
DefaultTo(way, x) == <<"default to", way, x>>
Required(way) == <<"required", way>>
Unchecked(way) == <<"unchecked", way>>  \* if there, used without a look at the error

\* Conditions of an emitter.
IfTrue         == <<"if true">>
IfAny(way)     == <<"if any", way>>
Unless(m, way) == <<"unless", m, way>>  \* not if member m has a value
IfMember(m, way) == <<"if member", m, way>> \* if member m of the struct written has a value
RawOr(m, T)    == <<"raw or struct", T, m>> \* the text in member m, or else the struct
UnlessRef      == <<"unless ref">>      \* a string, left out if empty in a reference
IfReference    == <<"reference">>       \* $ref, summary and description

ExtensionKeys == {"x-a", "x-b", "x-supports-subscription"}

\* Rows of a table for members that are named as their keys.
Each(keys, way) == [i \in DOMAIN keys |-> <<keys[i], keys[i], way>>]
One(member, key, way) == << <<member, key, way>> >>

-----------------------------------------------------------------------------
\* Numbers.  A double is written with six significant digits (ostream's
\* default).  IntModulus stands for 2^32, the width of int.

IntModulus == 256
BeyondInt64 == 1844674407         \* the value of TooBig
CastInt(n) == ((n + IntModulus \div 2) % IntModulus) - IntModulus \div 2

Written(n) ==
    IF n < 1000000 THEN Num(n)
    ELSE LET unit == CHOOSE u \in {10, 100, 1000, 10000} : n \div u \in 100000..999999
         IN Real((n \div unit) * unit)

\* Ids: a numeral and its number; a text that JSON would have to escape.
Numerals   == 0..400
IsNumeral(s) == \E n \in Numerals : ToString(n) = s
NumberOf(s)  == CHOOSE n \in Numerals : ToString(n) = s
NeedsEscape == {"a\"b"}
Quote(s) == IF s \in NeedsEscape THEN Malformed ELSE Str(s)

-----------------------------------------------------------------------------
\* Reading.  The outcome is <<"ok", value>>, <<"wrong">> if the value is not
\* of the kind asked for, <<"failed">> if a parser of a struct inside fails,
\* or <<"undefined">> where the code uses a value it did not get.

Ok(x)     == <<"ok", x>>
Wrong     == <<"wrong">>
Failed    == <<"failed">>
Undefined == <<"undefined">>

MapFrom(o, Value(_)) == [k \in Keys(o) |-> Value(Latest(o, k))]

\* parse_json_value
RECURSIVE JsonValue(_)
JsonValue(v) ==
    CASE Is(v, "array")  -> <<"array", [i \in DOMAIN v[2] |-> JsonValue(v[2][i])]>>
      [] Is(v, "object") -> <<"map", MapFrom(v[2], JsonValue)>>
      [] Is(v, "uint")   -> Null
      [] OTHER           -> v

IdText(v) ==
    CASE Is(v, "string") -> Quote(v[2])
      [] Is(v, "int")    -> v
      [] Is(v, "double") \/ Is(v, "uint") -> Num(0)
      [] OTHER           -> Null

BareIdText(v) ==
    IF Is(v, "string") THEN v[2]
    ELSE ToString(IF Is(v, "int") THEN v[2] ELSE 0)

ScopesOf(v) ==
    LET Texts_(a) == [i \in DOMAIN a[2] |-> StringIn(a[2][i])]
    IN MapFrom(v[2], Texts_)

\* parse_security iterates over what is no object, or no array, all the same.
ScopesIn(items) ==
    IF \A i \in DOMAIN items : /\ Is(items[i], "object")
                               /\ \A j \in DOMAIN items[i][2] : Is(items[i][2][j][2], "array")
    THEN Ok([i \in DOMAIN items |-> ScopesOf(items[i])])
    ELSE Undefined

\* Values that hold no struct.
ReadScalar(way, v) ==
    LET kind == way[1] IN
    CASE kind = "string" /\ Is(v, "string") -> Ok(v[2])
      [] kind = "bool" /\ Is(v, "bool")     -> Ok(v[2])
      [] kind = "double" /\ v[1] \in {"int", "double"} -> Ok(v[2])
      [] kind = "double" /\ Is(v, "uint")   -> Ok(BeyondInt64)
      [] kind = "integer" /\ Is(v, "int")   -> Ok(v[2])
      [] kind \in {"int", "count"} /\ Is(v, "int") -> Ok(CastInt(v[2]))
      [] kind = "count" /\ v[1] \notin {"int", "absent"} -> Ok(0)
      [] kind = "strings" /\ Is(v, "array") -> Ok([i \in DOMAIN v[2] |-> StringIn(v[2][i])])
      [] kind = "first" /\ Is(v, "string")  -> Ok(v[2])
      [] kind = "first" /\ Is(v, "array") /\ v[2] # <<>> -> Ok(StringIn(v[2][1]))
      [] kind = "string map" /\ Is(v, "object") -> Ok(MapFrom(v[2], StringIn))
      [] kind = "strict map" /\ Is(v, "object") ->
            IF \A i \in DOMAIN v[2] :
                  v[2][i][1] \in way[2] /\ Is(v[2][i][2], "string") /\ v[2][i][2][2] \notin way[3]
            THEN Ok(MapFrom(v[2], StringIn)) ELSE Failed
      [] kind = "text" /\ ~ Is(v, "absent") -> Ok(v)
      [] kind = "object text" /\ Is(v, "object") -> Ok(v)
      [] kind = "array text" /\ Is(v, "array")   -> Ok(v)
      [] kind = "texts" /\ Is(v, "array")   -> Ok(v[2])
      [] kind = "json" /\ ~ Is(v, "absent") -> Ok(JsonValue(v))
      [] kind = "scopes" /\ Is(v, "array")  -> ScopesIn(v[2])
      [] kind = "id" /\ ~ Is(v, "absent")   -> Ok(IdText(v))
      [] kind = "token" /\ ~ Is(v, "absent") /\ IdText(v) # Null -> Ok(IdText(v))
      [] kind = "bare id" /\ ~ Is(v, "absent") -> Ok(BareIdText(v))
      [] OTHER -> Wrong

\* The outcome of reading several things in order: the first that is not
\* ok, else the values.  (TLC works a sequence out when something is appended.)
InOrder(outcomes) ==
    LET read == outcomes \o <<>>
        bad  == SelectInSeq(read, LAMBDA r : r[1] # "ok")
    IN IF bad = 0 THEN Ok([i \in DOMAIN read |-> read[i][2]] \o <<>>)
       ELSE IF read[bad] = Wrong THEN Failed ELSE read[bad]

\* A std::map, of its pairs in any order.
MapOfPairs(pairs) == [k \in Keys(pairs) |-> Latest(pairs, k)]
PairsOf(f) == SetToSeq({<<k, f[k]>> : k \in DOMAIN f})

\* Codecs: a record of the tables of structs, parsers and emitters, and of
\* the structs that are parsed from an element whatever it is (unwrapped), and
\* of the variants: <<key, T, U>> is a T if the object has a string at the key,
\* and else a U.
Members(c, T)   == {c.structs[T][i][1] : i \in DOMAIN c.structs[T]}
WayOf(rows, m)  == rows[SelectInSeq(rows, LAMBDA r : r[1] = m)][3]

\* Where looking up keys one after the other finds them (0: nowhere).  The DOM
\* interface of simdjson starts at the first member, the on-demand interface
\* after the member found last, and goes on at the first.
Found(c, keys, o) ==
    LET Next(k, at) ==
            LET later == {i \in (at + 1)..Len(o) : o[i][1] = k}
            IN IF later # {} THEN Min(later) ELSE Where(o, k)
        last[i \in 0..Len(keys)] ==
            IF i = 0 THEN 0
            ELSE LET at == Next(keys[i], last[i - 1]) IN IF at = 0 THEN last[i - 1] ELSE at
    IN [i \in DOMAIN keys |-> IF ~ c.ondemand \/ Where(o, keys[i]) = 0
                              THEN Where(o, keys[i]) ELSE last[i]]

\* What the ways of refusing ask of a value.
Refusing == {"among", "not among", "non-empty", "distinct", "acyclic", "without"}
Holds(way, x) ==
    LET kind == way[1] IN
    CASE kind = "among"     -> x \in way[3]
      [] kind = "not among" -> x \notin way[3]
      [] kind = "without"   -> way[3] \notin ToSet(x)
      [] kind = "non-empty" -> x # <<>>
      [] kind = "distinct"  ->
            \A i, j \in DOMAIN x : i # j => x[i][way[3]] # x[j][way[3]]
      [] kind = "acyclic"   ->
            LET Targets(i) == IF x[i][way[4]] = <<>> THEN {} ELSE ToSet(x[i][way[4]][1])
            IN \A S \in (SUBSET DOMAIN x) \ {{}} :
                  \E i \in S : \A j \in S : x[j][way[3]] \notin Targets(i)

StringAt(o, k) == IsAt(o, k, "string")
VariantOf(c, T, isFirst) == IF isFirst THEN c.variants[T][2] ELSE c.variants[T][3]

RECURSIVE Parse(_, _, _), Member(_, _, _, _), DefaultOf(_, _)

\* The value of a member that is not there.
DefaultOf(c, way) ==
    CASE way[1] \in {"string", "bare id"} -> ""
      [] way[1] = "bool" -> FALSE
      [] way[1] \in {"among", "not among"} -> DefaultOf(c, way[2])
      [] way[1] \in {"double", "integer", "int", "count"} -> 0
      [] way[1] = "struct" ->
            [m \in Members(c, way[2]) |-> DefaultOf(c, WayOf(c.structs[way[2]], m))]
      [] OTHER -> <<>>

\* A struct of which the program set only some members.
RECURSIVE Completed(_, _, _)
Completed(c, way, x) ==
    LET All(T) == [m \in Members(c, T) |-> IF m \in DOMAIN x THEN Completed(c, WayOf(c.structs[T], m), x[m])
                                           ELSE DefaultOf(c, WayOf(c.structs[T], m))]
    IN CASE way[1] = "optional" -> [i \in DOMAIN x |-> Completed(c, way[2], x[i])]
         [] way[1] = "struct"   -> All(way[2])
         [] way[1] \in {"vector", "map"} -> [i \in DOMAIN x |-> Completed(c, Struct(way[2]), x[i])]
         [] OTHER -> x

Element(c, T, v) ==
    CASE Is(v, "object")     -> Parse(c, T, v[2])
      [] T \in c.unwrapped   -> Undefined
      [] OTHER               -> Failed
Elements(c, T, items) == InOrder([i \in DOMAIN items |-> Element(c, T, items[i])])
Entries(c, way, pairs) ==
    LET r == InOrder([i \in DOMAIN pairs |-> Member(c, way, pairs[i][2], <<>>)])
    IN IF r[1] # "ok" THEN r
       ELSE Ok(MapOfPairs([i \in DOMAIN pairs |-> <<pairs[i][1], r[2][i]>>]))

\* Member: a member of the object o, whose value is v.
Member(c, way, v, o) ==
    LET kind == way[1]
        r == Member(c, way[2], v, o)
    IN CASE kind = "optional"  -> IF r[1] = "ok" THEN Ok(<<r[2]>>) ELSE IF r = Wrong THEN Ok(<<>>) ELSE r
         [] kind = "default"   -> IF r = Wrong THEN Ok(DefaultOf(c, way[2])) ELSE r
         [] kind = "required"  -> IF r = Wrong THEN Failed ELSE r
         [] kind = "default to" -> IF r = Wrong THEN Ok(way[3]) ELSE r
         [] kind \in Refusing  -> IF r[1] = "ok" /\ ~ Holds(way, r[2]) THEN Failed ELSE r
         [] kind = "how many"  -> IF Cardinality({k \in way[2] : StringAt(o, k)}) \in way[3]
                                  THEN Ok(<<>>) ELSE Failed
         [] kind = "string or struct" ->
                CASE Is(v, "object") ->
                        LET s == Parse(c, way[2], v[2])
                        IN IF s[1] = "ok" THEN Ok(<<"struct", s[2]>>) ELSE s
                  [] Is(v, "string") -> IF v[2] \in way[3] THEN Ok(v) ELSE Failed
                  [] Is(v, "absent") -> Wrong
                  [] OTHER           -> Failed
         [] kind = "unchecked" -> IF Is(v, "absent") THEN Ok(<<>>)
                                  ELSE IF r[1] = "ok" THEN Ok(<<r[2]>>) ELSE Undefined
         [] kind = "struct"    -> IF Is(v, "object") THEN Parse(c, way[2], v[2]) ELSE Wrong
         [] kind = "element"   -> IF Is(v, "absent") THEN Wrong ELSE Element(c, way[2], v)
         [] kind = "vector"    -> IF Is(v, "array") THEN Elements(c, way[2], v[2]) ELSE Wrong
         [] kind = "map"       -> IF Is(v, "object") THEN Entries(c, ElementOf(way[2]), v[2]) ELSE Wrong
         [] kind = "map of maps" ->
                IF Is(v, "object") THEN Entries(c, InnerMap(way[2]), v[2]) ELSE Wrong
         [] kind = "inner map" ->
                IF Is(v, "object") THEN Entries(c, ElementOf(way[2]), v[2]) ELSE Undefined
         [] kind = "same object" -> IF Is(v, "absent") THEN Wrong ELSE Parse(c, way[2], o)
         [] kind = "itself"    -> Ok(Obj(o))
         [] kind = "extensions" ->
                Ok([k \in Keys(o) \cap ExtensionKeys |-> JsonValue(Latest(o, k))])
         [] kind = "extensions if any" ->
                IF Keys(o) \cap ExtensionKeys = {} THEN Wrong ELSE Member(c, Extensions, v, o)
         [] OTHER -> ReadScalar(way, v)

\* Parse: the struct T in the object o.  Its members are read in order; those
\* the parser does not read keep their defaults.
Parse(c, T, o) ==
  IF T \in DOMAIN c.variants
  THEN Parse(c, VariantOf(c, T, StringAt(o, c.variants[T][1])), o)
  ELSE
    LET rows == c.parsers[T]
        found == Found(c, [i \in DOMAIN rows |-> rows[i][2]], o)
        At(i) == IF found[i] = 0 THEN Absent ELSE o[found[i]][2]
        read == InOrder([i \in DOMAIN rows |-> Member(c, rows[i][3], At(i), o)])
        Value(m) == LET i == SelectInSeq(rows, LAMBDA r : r[1] = m)
                    IN IF i = 0 THEN DefaultOf(c, WayOf(c.structs[T], m)) ELSE read[2][i]
    IN IF read[1] # "ok" THEN read ELSE Ok([m \in Members(c, T) |-> Value(m)])

-----------------------------------------------------------------------------
\* Writing.

RECURSIVE WriteJson(_)
WriteJson(x) ==
    CASE Is(x, "array")  -> Arr([i \in DOMAIN x[2] |-> WriteJson(x[2][i])])
      [] Is(x, "map")    -> Obj(PairsOf([k \in DOMAIN x[2] |-> WriteJson(x[2][k])]))
      [] Is(x, "double") -> Written(x[2])
      [] OTHER           -> x

WriteStrings(s) == Arr([i \in DOMAIN s |-> Str(s[i])])

WriteScalar(way, x) ==
    LET kind == way[1] IN
    CASE kind \in {"string", "first"} -> Str(x)
      [] kind = "bool"    -> Bool(x)
      [] kind = "double"  -> Written(x)
      [] kind \in {"integer", "int", "count"} -> Num(x)
      [] kind = "strings" -> WriteStrings(x)
      [] kind \in {"string map", "strict map"} -> Obj(PairsOf([k \in DOMAIN x |-> Str(x[k])]))
      [] kind = "texts"   -> Arr(x)
      [] kind = "json"    -> WriteJson(x)
      [] kind = "scopes"  -> Arr([i \in DOMAIN x |->
                                    Obj(PairsOf([k \in DOMAIN x[i] |-> WriteStrings(x[i][k])]))])
      [] kind = "bare id" -> IF IsNumeral(x) THEN Num(NumberOf(x)) ELSE Str(x)
      [] OTHER            -> x

RECURSIVE Emit(_, _, _)

Write(c, way, x) ==
    LET kind == way[1]
        Struct_(y) == Obj(Emit(c, way[2], y))
    IN CASE kind \in {"struct", "element"} -> Struct_(x)
         [] kind = "string or struct" -> IF Is(x, "string") THEN x ELSE Struct_(x[2])
         [] kind = "raw or struct" -> IF x[way[3]] # <<>> THEN x[way[3]][1] ELSE Struct_(x)
         [] kind = "vector" -> Arr([i \in DOMAIN x |-> Struct_(x[i])])
         [] kind = "map"    -> Obj(PairsOf([k \in DOMAIN x |-> Struct_(x[k])]))
         [] kind = "map of maps" ->
                Obj(PairsOf([k \in DOMAIN x |-> Obj(PairsOf([l \in DOMAIN x[k] |-> Struct_(x[k][l])]))]))
         [] OTHER -> WriteScalar(way, x)

\* WriteRow: the pairs that a row of an emitter writes of the struct s.
WriteRow(c, row, s) ==
    LET x == s[row[1]]
        way == row[3]
        kind == way[1]
        Pair(w, y) == << <<row[2], Write(c, w, y)>> >>
        IfSet(w) == IF x = <<>> THEN <<>> ELSE Pair(w, x[1])
    IN CASE kind = "optional"   -> IfSet(way[2])
         [] kind = "unless"     -> IF s[way[2]] # <<>> THEN <<>> ELSE IfSet(way[3])
         [] kind = "if member"  -> IF x[way[2]] # <<>> THEN Pair(way[3], x) ELSE <<>>
         [] kind = "if true"    -> IF x THEN Pair(Boolean, x) ELSE <<>>
         [] kind = "if any"     -> IF DOMAIN x = {} THEN <<>> ELSE Pair(way[2], x)
         [] kind = "unless ref" -> IF x = "" /\ s.ref # <<>> THEN <<>> ELSE Pair(String, x)
         [] kind = "reference"  -> IF x = <<>> THEN <<>> ELSE Emit(c, "Reference", x[1])
         [] kind = "extensions" -> PairsOf([k \in DOMAIN x |-> WriteJson(x[k])])
         [] kind = "extensions if any" ->
                IF x = <<>> THEN <<>> ELSE PairsOf([k \in DOMAIN x[1] |-> WriteJson(x[1][k])])
         [] OTHER               -> Pair(way, x)

Emit(c, T, s) ==
  IF T \in DOMAIN c.variants
  THEN Emit(c, VariantOf(c, T, c.variants[T][1] \in DOMAIN s), s)
  ELSE
    LET rows == c.emitters[T]
    IN FlattenSeq([i \in DOMAIN rows |-> WriteRow(c, rows[i], s)])
===============================================================================
