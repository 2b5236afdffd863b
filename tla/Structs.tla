------------------------------- MODULE Structs -------------------------------
(***************************************************************************)
(* The C++ structs of an API's schemas (models/emit.cpp) and the schemas   *)
(* that are made of structs again (models/parse.cpp,                       *)
(* docstrings/parse.cpp).  All structs are in one file, or each is in a    *)
(* file of its own.                                                        *)
(*                                                                         *)
(* Code is a sequence of structs: a name, a comment and fields, each with  *)
(* a type, a name and a comment.  A type is a sequence of words.  Of a     *)
(* reference there is what follows its last slash.  A std::map is gone     *)
(* through in an order of its own.                                         *)
(***************************************************************************)
EXTENDS Comments

EmptyText == << <<>> >>

-----------------------------------------------------------------------------
\* Comments of a schema or of a property.

XmlTexts == <<"nodeType", "name", "namespace_url", "prefix">>
XmlFlags == <<"attribute", "wrapped">>
MappingLines(m) == LET keys == SetToSeq(DOMAIN m)
                   IN [i \in DOMAIN keys |-> <<"@discriminator.mapping", keys[i], ":", m[keys[i]]>>]
XmlLines(x) ==
    FlattenSeq([i \in DOMAIN XmlTexts |->
                   OfEach(x[XmlTexts[i]], LAMBDA t : Tagged("@xml." \o XmlTexts[i], t[1]))])
      \o FlattenSeq([i \in DOMAIN XmlFlags |->
                        OfEach(x[XmlFlags[i]], LAMBDA b : Tagged("@xml." \o XmlFlags[i],
                                                                 <<IF b THEN "true" ELSE "false">>))])
emit_docstrings(s) ==
    OfEach(s.description, LAMBDA t : format_multi("@description", t))
      \o OfEach(s.example, LAMBDA t : format_multi("@example", t))
      \o OfEach(s.externalDocs, LAMBDA d : OfEach(d.description, LAMBDA t : Tagged("@externalDocs.description", t[1]))
                                             \o Tagged("@externalDocs.url", d.url[1]))
      \o OfEach(s.xml, XmlLines)
      \o OfEach(s.discriminator, LAMBDA d : Tagged("@discriminator.propertyName", d.propertyName[1])
                                              \o OfEach(d.mapping, MappingLines))

\* A comment with no tag in it is a description, markers and all.
AsWritten(lines) == << [i \in DOMAIN lines |-> <<"///">> \o lines[i]] >>
HasTags(lines) == \E i \in DOMAIN lines : \E j \in DOMAIN lines[i] : IsTag(lines[i][j])
\* The later spelling of a tag counts.
OrElse(x, y) == IF x # <<>> THEN x ELSE y
Either(lines, early, late) == OrElse(extract_tag(lines, late), extract_tag(lines, early))
IsFlagged(lines, flag) ==
    \E i \in DOMAIN lines : \E j \in 1..(Len(lines[i]) - 1) :
        lines[i][j] \in {"@xml_" \o flag, "@xml." \o flag} /\ lines[i][j + 1] = "true"
UnlessEmpty(r) == IF \A m \in DOMAIN r : r[m] = <<>> THEN <<>> ELSE <<r>>
ReadXml(lines) ==
    LET Flag(flag) == IF IsFlagged(lines, flag) THEN <<TRUE>> ELSE <<>>
    IN UnlessEmpty(
               [nodeType |-> Either(lines, "@xml_nodeType", "@xml.nodeType"),
                name |-> Either(lines, "@xml_name", "@xml.name"),
                namespace_url |-> Either(lines, "@xml_namespace", "@xml.namespace_url"),
                prefix |-> Either(lines, "@xml_prefix", "@xml.prefix"),
                attribute |-> Flag("attribute"), wrapped |-> Flag("wrapped")])
ReadExternalDocs(lines) ==
    LET Docs(url, description) ==
            IF url = <<>> /\ description = <<>> THEN <<>>
            ELSE <<[url |-> value_or(url, EmptyText), description |-> description]>>
    IN Docs(Either(lines, "@externalDocs_url", "@externalDocs.url"),
            Either(lines, "@externalDocs_description", "@externalDocs.description"))
ReadDiscriminator(lines) ==
    LET contents == [i \in DOMAIN lines |-> strip_comment_line_prefix(lines[i])]
        IsMapping(l) == Begins(l, "@discriminator_mapping", 3) \/ Begins(l, "@discriminator.mapping", 4)
        Mapping(said) ==
            IF said = <<>> THEN <<>>
            ELSE << [k \in {l[2] : l \in ToSet(said)} |-> Last(SelectSeq(said, LAMBDA l : l[2] = k)[1])] >>
        Discriminator(name, mapping) ==
            IF name = <<>> /\ mapping = <<>> THEN <<>>
            ELSE <<[propertyName |-> value_or(name, EmptyText), mapping |-> mapping]>>
    IN Discriminator(Either(lines, "@discriminator_propertyName", "@discriminator.propertyName"),
                     Mapping(SelectSeq(contents, IsMapping)))

NoSchema == [type |-> <<>>, format |-> <<>>, ref |-> <<>>, items |-> <<>>, properties |-> <<>>, required |-> {},
             description |-> <<>>, example |-> <<>>, externalDocs |-> <<>>, xml |-> <<>>, discriminator |-> <<>>]
parse_schema_docstrings(lines) ==
    [NoSchema EXCEPT
        !.description = OrElse(extract_tag(lines, "@description"),
                               IF lines # <<>> /\ ~ HasTags(lines) THEN AsWritten(lines) ELSE <<>>),
        !.example = extract_tag(lines, "@example"), !.format = extract_tag(lines, "@format"),
        !.xml = ReadXml(lines), !.externalDocs = ReadExternalDocs(lines),
        !.discriminator = ReadDiscriminator(lines)]

-----------------------------------------------------------------------------
\* Types.

RECURSIVE map_type(_)
map_type(s) ==
    IF s.ref # <<>> THEN s.ref[1]
    ELSE IF s.type # <<"array">> THEN <<openapi_type_to_cpp(value_or(s.type, "string"))>>
    ELSE <<"std::vector<">> \o (IF s.items = <<>> THEN <<"std::string">> ELSE map_type(s.items[1])) \o <<">">>
Inside(T) == SubSeq(T, 2, Len(T) - 1)

OfType(t, format) == [NoSchema EXCEPT !.type = <<t>>, !.format = format]
Plain == "int" :> "integer" @@ "double" :> "number" @@ "bool" :> "boolean" @@ "std::string" :> "string"
WithFormat == "int32_t" :> <<"integer", "int32">> @@ "short" :> <<"integer", "int32">>
              @@ "long" :> <<"integer", "int64">> @@ "int64_t" :> <<"integer", "int64">>
              @@ "float" :> <<"number", "float">>
Short == "boolean" :> "boolean" @@ "string" :> "string"
Reference(T) == [NoSchema EXCEPT !.ref = <<T>>]
ReadItem(T) == IF Len(T) = 1 /\ T[1] \in DOMAIN Plain THEN OfType(Plain[T[1]], <<>>) ELSE Reference(T)
ReadType(T) ==
    CASE T[1] \in {"std::vector<", "vector<"} -> [OfType("array", <<>>) EXCEPT !.items = <<ReadItem(Inside(T))>>]
      [] Len(T) = 1 /\ T[1] \in DOMAIN WithFormat ->
            OfType(WithFormat[T[1]][1], << << <<WithFormat[T[1]][2]>> >> >>)
      [] Len(T) = 1 /\ T[1] \in DOMAIN Short -> OfType(Short[T[1]], <<>>)
      [] OTHER -> ReadItem(T)

-----------------------------------------------------------------------------
\* Structs.

RECURSIVE extract_deps(_)
extract_deps(s) ==
    LET names == IF s.properties = <<>> THEN <<>> ELSE SetToSeq(DOMAIN s.properties[1])
    IN s.ref \o OfEach(s.items, extract_deps)
         \o FlattenSeq([i \in DOMAIN names |-> extract_deps(s.properties[1][names[i]])])

\* Depth first: what a schema needs comes before it, but around a cycle.
RECURSIVE dfs(_, _, _, _)
dfs(schemas, name, progress, sorted) ==
    LET deps == IF name \in DOMAIN schemas THEN extract_deps(schemas[name]) ELSE <<>>
        Visit(done, dep) == IF Len(dep) = 1 THEN dfs(schemas, dep[1], progress \cup {name}, done) ELSE done
    IN IF name \in progress \cup ToSet(sorted) THEN sorted
       ELSE Append(FoldLeft(Visit, sorted, deps), name)
SortedNames(schemas) ==
    LET Visit(sorted, name) == dfs(schemas, name, {}, sorted)
    IN SelectSeq(FoldLeft(Visit, <<>>, SetToSeq(DOMAIN schemas)), LAMBDA n : n \in DOMAIN schemas)

Fields(s, IsIncomplete(_), Lead(_)) ==
    LET names == IF s.properties = <<>> THEN <<>> ELSE SetToSeq(DOMAIN s.properties[1])
        Field(n) ==
            LET p == s.properties[1][n]
                Wrapped(by) == <<by>> \o map_type(p) \o <<">">>
            IN [type |-> CASE IsIncomplete(p)    -> Wrapped("std::unique_ptr<")
                           [] ~ IsIncomplete(p) /\ n \in s.required -> map_type(p)
                           [] OTHER              -> Wrapped("std::optional<"),
                name |-> sanitize_cpp_identifier(n),
                comment |-> Lead(sanitize_cpp_identifier(n)) \o emit_docstrings(p)]
    IN [i \in DOMAIN names |-> Field(names[i])]

StructsOf(schemas, names) ==
    LET Defined(i) == {<<names[j]>> : j \in 1..(i - 1)}
    IN [i \in DOMAIN names |->
           [name |-> names[i], comment |-> emit_docstrings(schemas[names[i]]),
            fields |-> Fields(schemas[names[i]], LAMBDA p : p.ref # <<>> /\ p.ref[1] \notin Defined(i),
                              LAMBDA n : <<>>)]]
models_emit(schemas) == StructsOf(schemas, SortedNames(schemas))
\* Here a struct takes for granted that the others are complete.
emit_modular(schemas) ==
    LET names == SelectSeq(SetToSeq(DOMAIN schemas),
                           LAMBDA n : schemas[n].type = <<"object">> /\ schemas[n].properties # <<>>)
    IN [i \in DOMAIN names |->
           [name |-> names[i], comment |-> << <<names[i], "Domain", "Model">> >> \o emit_docstrings(schemas[names[i]]),
            fields |-> Fields(schemas[names[i]], LAMBDA p : FALSE, LAMBDA n : << <<"@property", n>> >>)]]

unsanitize_cpp_identifier(name) ==
    LET stem == SubSeq(name, 1, Len(name) - 1)
    IN IF Len(name) > 1 /\ name = stem \o "_" /\ is_cpp_keyword(stem) THEN stem ELSE name
ReadField(field) ==
    LET type == IF field.type[1] = "std::optional<" THEN Inside(field.type) ELSE field.type
        lines == docstring(field.comment)
    IN [ReadType(type) EXCEPT
           !.description = OrElse(extract_tag(lines, "@description"),
                                  IF lines # <<>> THEN AsWritten(lines) ELSE <<>>)]
\* Of two fields, or of two structs, with one name the first counts.
ReadStruct(struct) ==
    LET Name(i) == unsanitize_cpp_identifier(struct.fields[i].name)
        First(n) == struct.fields[Min({i \in DOMAIN struct.fields : Name(i) = n})]
    IN [parse_schema_docstrings(docstring(struct.comment)) EXCEPT
           !.type = <<"object">>,
           !.properties = << [n \in {Name(i) : i \in DOMAIN struct.fields} |-> ReadField(First(n))] >>,
           !.required = {Name(i) : i \in {j \in DOMAIN struct.fields : struct.fields[j].type[1] # "std::optional<"}}]
parse_schemas(code) ==
    LET names == {code[i].name : i \in DOMAIN code} \ {"Client", "Router"}
        First(n) == code[Min({i \in DOMAIN code : code[i].name = n})]
    IN [n \in names |-> ReadStruct(First(n))]
===============================================================================
