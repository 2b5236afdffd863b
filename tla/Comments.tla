------------------------------- MODULE Comments -------------------------------
(***************************************************************************)
(* The comments of generated code (docstrings/emit.cpp, models/emit.cpp)   *)
(* and what is made of them when the code is scanned (docstrings/parse.cpp,*)
(* models/parse.cpp): what a class or a function cannot say of an API is   *)
(* in the @tags of the comment above it.                                   *)
(*                                                                         *)
(* A comment is a sequence of lines and a line, without its marker and     *)
(* indentation, one of words; a sign that the readers search for, like [   *)
(* or a comma, is a word of its own.  The word "" at the end of a line     *)
(* stands for a blank there, which is lost when the line is trimmed.  A    *)
(* text of the description is a sequence of lines too, of one at least;    *)
(* the texts that are printed without format_multi have one.               *)
(* An optional member is <<>> or <<x>>, a std::map a function.             *)
(***************************************************************************)
EXTENDS GeneratedApi

OfEach(x, Lines(_)) == IF x = <<>> THEN <<>> ELSE Lines(x[1])

\* A line with a tag; format_multi marks the further lines of a text.
Tagged(tag, words)   == << <<tag>> \o (IF words = <<>> THEN <<"">> ELSE words) >>
format_multi(tag, text) == Tagged(tag, Head(text)) \o Tail(text)
Listed(list) ==
    FlattenSeq([i \in DOMAIN list |-> (IF i = 1 THEN <<>> ELSE <<",">>) \o list[i]])

-----------------------------------------------------------------------------
\* Reading lines.

strip_comment_line_prefix(line) == SelectSeq(line, LAMBDA w : w # "")
IsTag(word) == word # "" /\ SubSeq(word, 1, 1) = "@"
Begins(line, tag, length) == Len(line) >= length /\ line[1] = tag

\* The comment above a declaration ends with its last word.
docstring(comment) ==
    IF comment = <<>> THEN <<>> ELSE Append(Front(comment), strip_comment_line_prefix(Last(comment)))

\* The rest of the first line that has the tag, wherever in it.
extract_tag(lines, tag) ==
    LET Places(i) == {j \in 1..(Len(lines[i]) - 1) : lines[i][j] = tag}
        hits == {i \in DOMAIN lines : Places(i) # {}}
    IN IF hits = {} THEN <<>>
       ELSE LET i == Min(hits)
            IN << << strip_comment_line_prefix(SubSeq(lines[i], Min(Places(i)) + 1, Len(lines[i]))) >> >>

\* std::getline up to each comma: there is nothing after the last.
Split(words) ==
    LET Put(parts, w) == IF w = "," THEN Append(parts, <<>>)
                         ELSE [parts EXCEPT ![Len(parts)] = Append(@, w)]
        parts == FoldLeft(Put, << <<>> >>, words)
    IN IF Last(parts) = <<>> THEN Front(parts) ELSE parts
\* What is between brackets; all of the words if there are none.
Bracketed(words) ==
    LET open  == SelectInSeq(words, LAMBDA w : w = "[")
        close == SelectInSeq(words, LAMBDA w : w = "]")
    IN Split(SubSeq(words, open + 1, IF close = 0 THEN Len(words) ELSE close - 1))

\* A part of an API's comment: from its tag to the first line with another.
Block(lines, tag, inner) ==
    LET starts == {i \in DOMAIN lines : \E j \in DOMAIN lines[i] : lines[i][j] = tag}
        first  == Min(starts)
        rest   == [i \in 1..(Len(lines) - first) |-> strip_comment_line_prefix(lines[first + i])]
        ends   == {i \in DOMAIN rest : rest[i] # <<>> /\ IsTag(rest[i][1]) /\ rest[i][1] \notin inner \cup {tag}}
    IN IF starts = {} THEN <<>> ELSE SubSeq(rest, 1, IF ends = {} THEN Len(rest) ELSE Min(ends) - 1)
HasTag(lines, tag) == \E i \in DOMAIN lines : \E j \in DOMAIN lines[i] : lines[i][j] = tag

-----------------------------------------------------------------------------
\* Operations.

SecurityLines(requirement) ==
    LET keys == SetToSeq(DOMAIN requirement)
        ScopeWords(k) == IF requirement[k] = <<>> THEN <<>>
                     ELSE <<"[">> \o Listed(requirement[k]) \o <<"]">>
    IN [i \in DOMAIN keys |-> <<"@security", keys[i]>> \o ScopeWords(keys[i])]
ResponseLines(responses) ==
    LET codes == SetToSeq(DOMAIN responses)
        Of(c) == LET types == SetToSeq(responses[c].content)
                 IN << <<"@return", c, "-">> \o responses[c].description >>
                      \o [i \in DOMAIN types |-> <<"@response_content", c, types[i]>>]
    IN FlattenSeq([i \in DOMAIN codes |-> Of(codes[i])])
emit_operation_docstrings(op) ==
    OfEach(op.summary, LAMBDA t : format_multi("@summary", t))
      \o OfEach(op.description, LAMBDA t : format_multi("@description", t))
      \o OfEach(op.tags, LAMBDA l : IF l = <<>> THEN <<>> ELSE Tagged("@tags", Listed(l)))
      \o (IF op.deprecated THEN << <<"@deprecated">> >> ELSE <<>>)
      \o OfEach(op.security, LAMBDA r : FlattenSeq([i \in DOMAIN r |-> SecurityLines(r[i])]))
      \o OfEach(op.parameters, LAMBDA ps : [i \in DOMAIN ps |-> <<"@param", ps[i].name, ps[i].in, "parameter">>])
      \o OfEach(op.requestBody, LAMBDA b : << <<"@param", "body", "request", "body">>
                                               \o OfEach(b.description, LAMBDA t : <<"-">> \o t[1]) >>)
      \o OfEach(op.responses, ResponseLines)
emit_path_docstrings(item) ==
    OfEach(item.summary, LAMBDA t : format_multi("@summary", t))
      \o OfEach(item.description, LAMBDA t : format_multi("@description", t))

\* Of several schemes that are needed together each becomes a requirement.
ReadSecurity(contents) ==
    LET lines == SelectSeq(contents, LAMBDA l : Begins(l, "@security", 2))
        ScopeWords(l) == IF "[" \in ToSet(l) THEN Bracketed(SubSeq(l, 3, Len(l)))
                     ELSE Split(SubSeq(l, 2, Len(l)))
    IN IF lines = <<>> THEN <<>>
       ELSE << [i \in DOMAIN lines |-> [k \in {lines[i][2]} |-> ScopeWords(lines[i])]] >>
ReadResponses(contents) ==
    LET IsContent(l) == Begins(l, "@response_content", 3)
        Dashes(l) == {j \in 2..(Len(l) - 1) : l[j] = "-"}
        IsReturn(l)  == l # <<>> /\ l[1] \in {"@return", "@response"} /\ Dashes(l) # {}
        lines == SelectSeq(contents, LAMBDA l : IsContent(l) \/ IsReturn(l))
        OfCode(c, Wanted(_)) == SelectSeq(lines, LAMBDA l : l[2] = c /\ Wanted(l))
        Description(l) == SubSeq(l, Min(Dashes(l)) + 1, Len(l))
        Response(c) ==
            [description |-> IF OfCode(c, IsReturn) = <<>> THEN <<>> ELSE Description(Last(OfCode(c, IsReturn))),
             content     |-> {l[3] : l \in ToSet(OfCode(c, IsContent))}]
    IN IF lines = <<>> THEN <<>> ELSE << [c \in {l[2] : l \in ToSet(lines)} |-> Response(c)] >>
NoOperation == [operationId |-> <<>>, summary |-> <<>>, description |-> <<>>, tags |-> <<>>, deprecated |-> FALSE,
                security |-> <<>>, responses |-> <<>>, parameters |-> <<>>, requestBody |-> <<>>]
\* Mutant: the tags are not split.
parse_operation_docstrings_tags(lines) ==
    LET contents == [i \in DOMAIN lines |-> strip_comment_line_prefix(lines[i])]
    IN [NoOperation EXCEPT
           !.summary = extract_tag(lines, "@summary"), !.description = extract_tag(lines, "@description"),
           !.tags = OfEach(extract_tag(lines, "@tags"), LAMBDA t : << <<t[1]>> >>),
           !.deprecated = <<"@deprecated">> \in ToSet(contents),
           !.security = ReadSecurity(contents), !.responses = ReadResponses(contents)]
parse_operation_docstrings(lines) ==
    LET contents == [i \in DOMAIN lines |-> strip_comment_line_prefix(lines[i])]
    IN [NoOperation EXCEPT
           !.summary = extract_tag(lines, "@summary"), !.description = extract_tag(lines, "@description"),
           !.tags = OfEach(extract_tag(lines, "@tags"), LAMBDA t : << Split(t[1]) >>),
           !.deprecated = <<"@deprecated">> \in ToSet(contents),
           !.security = ReadSecurity(contents), !.responses = ReadResponses(contents)]

-----------------------------------------------------------------------------
\* The API.

VariableLine(name, v) ==
    <<"@server_variable", name>> \o v.default_value \o OfEach(v.description, LAMBDA t : t[1])
      \o OfEach(v.enum_values, LAMBDA l : <<"[">> \o Listed(l) \o <<"]">>)
ServerLines(server) ==
    << <<"-", server.url>> \o OfEach(server.description, LAMBDA t : <<"(">> \o t[1] \o <<")">>) >>
      \o OfEach(server.variables, LAMBDA vs : LET names == SetToSeq(DOMAIN vs)
                                              IN [i \in DOMAIN names |-> VariableLine(names[i], vs[names[i]])])
SchemeLines(name, s) ==
    << <<"-", name, s.type>> \o s.name \o s.in \o s.scheme \o s.bearerFormat >>
      \o OfEach(s.description, LAMBDA t : LET lines == format_multi("@securityScheme_description", t)
                                          IN << <<lines[1][1], name>> \o Tail(lines[1]) >> \o Tail(lines))
      \o OfEach(s.openIdConnectUrl, LAMBDA u : << <<"@securityScheme_openIdConnectUrl", name, u>> >>)
      \o OfEach(s.oauth2MetadataUrl, LAMBDA u : << <<"@securityScheme_oauth2MetadataUrl", name, u>> >>)
      \o (IF value_or(s.deprecated, FALSE) THEN << <<"@securityScheme_deprecated", name>> >> ELSE <<>>)

\* The plain texts of an API and their tags, in the order they are printed.
InfoTags == << <<"title", "@title">>, <<"summary", "@summary">>, <<"version", "@version">>,
               <<"description", "@description">>, <<"termsOfService", "@termsOfService">>,
               <<"contact_name", "@contact_name">>, <<"contact_url", "@contact_url">>,
               <<"contact_email", "@contact_email">>, <<"license_name", "@license_name">>,
               <<"license_identifier", "@license_identifier">>, <<"license_url", "@license_url">> >>
InfoMembers == {InfoTags[i][1] : i \in DOMAIN InfoTags}
emit_api_docstrings(api) ==
    FlattenSeq([i \in DOMAIN InfoTags |->
                   OfEach(api[InfoTags[i][1]], LAMBDA t : format_multi(InfoTags[i][2], t))])
      \o OfEach(api.servers, LAMBDA l : IF l = <<>> THEN <<>>
                                        ELSE << <<"@servers">> >> \o FlattenSeq([i \in DOMAIN l |-> ServerLines(l[i])]))
      \o OfEach(api.securitySchemes,
                LAMBDA m : LET names == SetToSeq(DOMAIN m)
                           IN << <<"@securitySchemes">> >>
                                \o FlattenSeq([i \in DOMAIN names |-> SchemeLines(names[i], m[names[i]])]))

\* The default is the second word, the rest its description and, in brackets,
\* its values; without brackets the rest is taken for the values as well.
ReadVariable(line) ==
    LET tail == SubSeq(line, IF line[3] = "[" THEN 3 ELSE 4, Len(line))
        open == SelectInSeq(tail, LAMBDA w : w = "[")
        text == IF open = 0 THEN tail ELSE SubSeq(tail, 1, open - 1)
    IN [default_value |-> IF line[3] = "[" THEN <<>> ELSE <<line[3]>>,
        description   |-> IF text = <<>> THEN <<>> ELSE << <<text>> >>,
        enum_values   |-> IF tail = <<>> THEN <<>> ELSE << Bracketed(tail) >>]
ReadServer(block, i) ==
    LET ends == {j \in (i + 1)..Len(block) : Begins(block[j], "-", 2)}
        own  == SubSeq(block, i + 1, IF ends = {} THEN Len(block) ELSE Min(ends) - 1)
        variables == SelectSeq(own, LAMBDA l : Begins(l, "@server_variable", 3))
        close == SelectInSeq(block[i], LAMBDA w : w = ")")
        Named(n) == SelectSeq(variables, LAMBDA l : l[2] = n)
    IN [url |-> block[i][2],
        description |-> IF Len(block[i]) = 2 THEN <<>> ELSE << << SubSeq(block[i], 4, close - 1) >> >>,
        variables   |-> IF variables = <<>> THEN <<>>
                        ELSE << [n \in {l[2] : l \in ToSet(variables)} |-> ReadVariable(Last(Named(n)))] >>]
\* A variable before any server, or without a default, is beyond the reader.
IsReadServers(block) ==
    LET IsVariable(i) == Begins(block[i], "@server_variable", 1)
    IN \A i \in DOMAIN block :
          IsVariable(i) => Len(block[i]) >= 3 /\ \E j \in 1..(i - 1) : Begins(block[j], "-", 2)
ReadServers(block) ==
    LET starts == SelectSeq([i \in DOMAIN block |-> i], LAMBDA i : Begins(block[i], "-", 2))
    IN [k \in DOMAIN starts |-> ReadServer(block, starts[k])]

\* What follows the type is taken for the members in this order, whichever were
\* there.
ReadScheme(block, name) ==
    LET words == Last(SelectSeq(block, LAMBDA l : Begins(l, "-", 3) /\ l[2] = name))
        Word(i) == IF Len(words) >= i THEN <<words[i]>> ELSE <<>>
        About(tag, length) == SelectSeq(block, LAMBDA l : Begins(l, tag, length) /\ l[2] = name)
        Said(tag) == IF About(tag, 3) = <<>> THEN <<>> ELSE <<Last(About(tag, 3))[3]>>
        texts == About("@securityScheme_description", 3)
    IN [type |-> words[3], name |-> Word(4), in |-> Word(5), scheme |-> Word(6), bearerFormat |-> Word(7),
        description |-> IF texts = <<>> THEN <<>> ELSE << << SubSeq(Last(texts), 3, Len(Last(texts))) >> >>,
        openIdConnectUrl  |-> Said("@securityScheme_openIdConnectUrl"),
        oauth2MetadataUrl |-> Said("@securityScheme_oauth2MetadataUrl"),
        deprecated |-> IF About("@securityScheme_deprecated", 2) = <<>> THEN <<>> ELSE <<TRUE>>]
\* A line of one word after the dash, or a description without words, is beyond
\* the reader.
IsReadSchemes(block) ==
    \A i \in DOMAIN block : /\ Begins(block[i], "-", 2) => Len(block[i]) >= 3
                            /\ Begins(block[i], "@securityScheme_description", 1) => Len(block[i]) >= 3

SchemeTags == {"@securityScheme_description", "@securityScheme_openIdConnectUrl",
               "@securityScheme_oauth2MetadataUrl", "@securityScheme_deprecated"}
ReadSchemes(block) ==
    [n \in {block[i][2] : i \in {j \in DOMAIN block : Begins(block[j], "-", 3)}} |-> ReadScheme(block, n)]
\* What the comments say of the API, with its servers and its schemes.
ReadApi(lines, title, version, servers, schemes) ==
    LET Initial(m) == CASE m = "title" -> <<title>> [] m = "version" -> <<version>> [] OTHER -> <<>>
        Text(i) == LET said == extract_tag(lines, InfoTags[i][2])
                   IN IF said = <<>> THEN Initial(InfoTags[i][1]) ELSE said
    IN IF ~ (IsReadServers(servers) /\ IsReadSchemes(schemes)) THEN Undefined
       ELSE <<"ok", [m \in InfoMembers \cup {"servers", "securitySchemes"} |->
                        CASE m = "servers" -> IF HasTag(lines, "@servers") THEN <<ReadServers(servers)>> ELSE <<>>
                          [] m = "securitySchemes" ->
                                IF HasTag(lines, "@securitySchemes") THEN <<ReadSchemes(schemes)>> ELSE <<>>
                          [] OTHER -> Text(CHOOSE i \in DOMAIN InfoTags : InfoTags[i][1] = m)]>>
\* The default of title and version is the reader's.
parse_api_docstrings(lines, title, version) ==
    ReadApi(lines, title, version, Block(lines, "@servers", {"@server_variable"}),
            Block(lines, "@securitySchemes", SchemeTags))
===============================================================================
