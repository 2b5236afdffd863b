---------------------------- MODULE GeneratedCode ----------------------------
(***************************************************************************)
(* What generated code says of an API and what is found when it is read:   *)
(* for each kind of code its emitter and its reader, APIs to begin with,   *)
(* and how far the two sides agree.  Each loss that is known is spelled    *)
(* out here as one more thing that may be found beside what was said, so   *)
(* that nothing else may get lost and none of them has to be.              *)
(***************************************************************************)
EXTENDS Declarations, Structs

FunctionKinds == {"router", "functions", "handlers", "mocks"}
StructKinds   == {"structs", "modular structs"}

EmitCode(kind, doc) ==
    CASE kind = "router"    -> server_emit(doc)
      [] kind = "functions" -> functions_emit(doc)
      [] kind = "handlers"  -> emit_cli(doc)
      [] kind = "mocks"     -> mocks_emit(doc)
      [] kind = "structs"   -> models_emit(doc)
      [] kind = "modular structs" -> emit_modular(doc)
ReadCode(kind, code) ==
    CASE kind = "router"    -> server_parse(code)
      [] kind = "functions" -> functions_parse(code)
      [] kind = "handlers"  -> cli_parse(code)
      [] kind = "mocks"     -> mocks_parse(code)
      [] kind \in StructKinds -> <<"ok", parse_schemas(code)>>

-----------------------------------------------------------------------------
\* APIs to begin with: a plain one, and each with one thing more to say.

Line(words) == << <<words>> >>
TwoLines    == << << <<"Gets", "it">>, <<"or", "not">> >> >>
Sayings       == {Line(<<"Gets", "it">>), TwoLines, <<EmptyText>>}

GetPet == [NoOperation EXCEPT !.operationId = <<"get_pet">>]
Parameter_(name, in, type) ==
    [name |-> name, in |-> in, required |-> in = "path", type |-> type, description |-> <<>>,
     example |-> <<>>, deprecated |-> FALSE]
WithQuotes == Line(<<"say", "\"hi\"">>)
Described_ == [Parameter_("id", "path", <<"integer">>) EXCEPT !.description = TwoLines, !.example = Line(<<"7">>),
                                                        !.deprecated = TRUE]
ParameterLists ==
    {<< <<>> >>, << <<Described_>> >>, << <<[Described_ EXCEPT !.description = WithQuotes]>> >>,
     << <<Parameter_("id", "path", <<"number">>), Parameter_("x-id", "header", <<>>)>> >>,
     << <<Parameter_("body", "query", <<"string">>), Parameter_("flag", "query", <<"boolean">>)>> >>}
Response(description, content) == [description |-> description, content |-> content]
ResponseMaps ==
    {<< "200" :> Response(<<"fine">>, {"application/json", "text/xml"}) @@ "404" :> Response(<<"none", "-", "lost">>, {}) >>,
     << "200" :> Response(<<>>, {}) >>, << "200" :> Response(<<>>, {"application/json"}) >>}
Scope(name) == <<name>>
SecurityLists ==
    {<< <<>> >>, << <<"key" :> <<>>>> >>, << <<"oauth" :> <<Scope("read"), Scope("write")>>, "key" :> <<>>>> >>,
     << <<"oauth" :> <<Scope("read")>> @@ "key" :> <<>>>> >>}
Operations ==
    {GetPet, [GetPet EXCEPT !.operationId = <<>>], [GetPet EXCEPT !.operationId = <<"delete">>],
     [GetPet EXCEPT !.deprecated = TRUE]}
      \cup {[GetPet EXCEPT !.summary = t] : t \in Sayings \cup {Line(<<"of", "{id}">>)}}
      \cup {[GetPet EXCEPT !.description = t] : t \in Sayings}
      \cup {[GetPet EXCEPT !.tags = l] : l \in {<< <<>> >>, << << <<"pets">>, <<"in", "store">> >> >>}}
      \cup {[GetPet EXCEPT !.security = l] : l \in SecurityLists}
      \cup {[GetPet EXCEPT !.responses = m] : m \in ResponseMaps}
      \cup {[GetPet EXCEPT !.parameters = l] : l \in ParameterLists}
      \cup {[GetPet EXCEPT !.requestBody = <<[description |-> t]>>] : t \in {<<>>, Line(<<"a", "pet">>)}}
      \cup {[operationId |-> <<"put_pet">>, summary |-> TwoLines, description |-> Line(<<"All", "of", "it">>),
             tags |-> << << <<"pets">> >> >>, deprecated |-> TRUE, security |-> s, responses |-> r,
             parameters |-> p, requestBody |-> <<[description |-> Line(<<"a", "pet">>)]>>] :
               s \in SecurityLists, r \in ResponseMaps, p \in ParameterLists}

NoInfo == [m \in InfoMembers \cup {"servers", "securitySchemes"} |->
              IF m = "title" THEN << << <<"Pets">> >> >> ELSE IF m = "version" THEN << << <<"2">> >> >> ELSE <<>>]
Variable(default, description, values) ==
    [default_value |-> default, description |-> description, enum_values |-> values]
Server(description, variables) == [url |-> "https://a", description |-> description, variables |-> variables]
Servers ==
    {Server(<<>>, <<>>), Server(Line(<<"the", "first">>), <<>>)}
      \cup {Server(<<>>, << "port" :> v @@ "host" :> Variable(<<"h">>, <<>>, <<>>) >>) :
               v \in {Variable(<<"80">>, d, e) : d \in {<<>>, Line(<<"the", "port">>)},
                                                 e \in {<<>>, << << <<"80">>, <<"81">> >> >>}}
                       \cup {Variable(<<>>, <<>>, <<>>)}}
NoScheme == [type |-> "http", name |-> <<>>, in |-> <<>>, scheme |-> <<>>, bearerFormat |-> <<>>,
             description |-> <<>>, openIdConnectUrl |-> <<>>, oauth2MetadataUrl |-> <<>>, deprecated |-> <<>>]
Schemes ==
    {[NoScheme EXCEPT !.type = "apiKey", !.name = <<"k">>, !.in = <<"header">>, !.deprecated = <<TRUE>>],
     [NoScheme EXCEPT !.scheme = <<"bearer">>, !.bearerFormat = <<"jwt">>, !.deprecated = <<FALSE>>],
     [NoScheme EXCEPT !.type = "openIdConnect", !.openIdConnectUrl = <<"https://b">>,
                      !.oauth2MetadataUrl = <<"https://c">>]}
      \cup {[NoScheme EXCEPT !.description = t] :
               t \in Sayings \cup {<< << <<"Either">>, <<"-", "mine", "or", "yours">> >> >>,
                                 << << <<"Either">>, <<"-", "mine">> >> >>}}
Infos ==
    {NoInfo} \cup {[NoInfo EXCEPT ![m] = t] : m \in InfoMembers, t \in Sayings}
      \cup {[NoInfo EXCEPT !.servers = <<l>>] : l \in {<<>>} \cup {<<s, Server(<<>>, <<>>)>> : s \in Servers}}
      \cup {[NoInfo EXCEPT !.securitySchemes = <<m>>] : m \in {"key" :> s @@ "other" :> NoScheme : s \in Schemes}}
      \cup {[NoInfo EXCEPT !.servers = << <<s>> >>, !.securitySchemes = << "key" :> k >>] :
               s \in Servers, k \in Schemes}

PetPath == <<"/pets/", "{id}">>
Api(info, item) == [api |-> info, paths |-> PetPath :> item]
Item(operations) == [NoItem EXCEPT !.operations = operations]
NamedOp(name, m, t) == [GetPet EXCEPT !.operationId = <<name>>, ![m] = t]
Apis ==
    {Api(NoInfo, Item("GET" :> op)) : op \in Operations}
      \cup {Api(info, Item("POST" :> NamedOp("post_pet", "summary", Line(<<"Gets", "it">>)))) : info \in Infos}
      \cup {Api(NoInfo, [Item("PUT" :> op @@ "TRACE" :> GetPet) EXCEPT ![m] = t]) :
               op \in {GetPet, NamedOp("put_pet", "parameters", << <<Described_>> >>)},
               m \in {"summary", "description"}, t \in Sayings}
      \cup {Api(NoInfo, [Item("PUT" :> GetPet) EXCEPT !.parameters = l]) : l \in ParameterLists}
      \cup {[api |-> NoInfo, paths |-> PetPath :> Item("GET" :> NamedOp("get_pets", "summary", TwoLines))
                                       @@ <<"/pets">> :> Item("GET" :> NamedOp("pets", "summary", TwoLines)
                                                             @@ "DELETE" :> GetPet)]}

Members_(required, properties) ==
    [NoSchema EXCEPT !.type = <<"object">>, !.properties = <<properties>>, !.required = required]
Ref(name) == Reference(<<name>>)
Array(items) == [OfType("array", <<>>) EXCEPT !.items = items]
NoXml == [nodeType |-> <<>>, name |-> <<>>, namespace_url |-> <<>>, prefix |-> <<>>, attribute |-> <<>>, wrapped |-> <<>>]
Url == << <<"https://d">> >>
\* A schema or a property with one thing more said of it.
Remarked(s) ==
    {[s EXCEPT !.description = t] : t \in Sayings} \cup {[s EXCEPT !.example = t] : t \in Sayings}
      \cup {[s EXCEPT !.format = Line(<<"int64">>)]}
      \cup {[s EXCEPT !.externalDocs = <<[url |-> Url, description |-> d]>>] : d \in {<<>>, Line(<<"See", "there">>)}}
      \cup {[s EXCEPT !.xml = <<x>>] :
               x \in {NoXml, [NoXml EXCEPT !.name = Line(<<"pet">>), !.wrapped = <<TRUE>>],
                      [NoXml EXCEPT !.attribute = <<FALSE>>, !.nodeType = Line(<<"text">>)],
                      [NoXml EXCEPT !.namespace_url = <<Url>>, !.prefix = Line(<<"p">>)]}}
      \cup {[s EXCEPT !.discriminator = <<[propertyName |-> << <<"kind">> >>, mapping |-> d]>>] :
               d \in {<<>>, << "cat" :> "Cat" @@ "dog" :> "Dog" >>}}
Types_ == {OfType("integer", <<>>), OfType("number", <<>>), OfType("boolean", <<>>), OfType("string", <<>>),
           OfType("object", <<>>), NoSchema, Array(<<>>), Array(<<OfType("integer", <<>>)>>),
           Array(<<Array(<<OfType("number", <<>>)>>)>>), Array(<<Ref("Pet")>>), Ref("Pet"), Ref("Tag"), Ref("Lost")}
Tag == Members_({"name"}, "name" :> OfType("string", <<>>))
Schemas ==
    {"Pet" :> Members_(r, "id" :> p @@ "class" :> OfType("boolean", <<>>)) @@ "Tag" :> Tag :
        p \in Types_, r \in SUBSET {"id", "class", "gone"}}
      \cup {"Pet" :> Members_({"id"}, "id" :> p) : p \in Remarked(OfType("integer", <<>>))}
      \cup {"Pet" :> t : t \in UNION {Remarked(u) : u \in Remarked(Tag)}}
      \cup {"Pet" :> Members_({}, "x-id" :> Ref("Tag") @@ "class_" :> Ref("Owner")) @@ "Tag" :> Tag
              @@ "Owner" :> Members_({"pet"}, "pet" :> Ref("Pet")),
            "Client" :> Tag @@ "Name" :> OfType("string", <<>>)}
Samples(kind) == IF kind \in FunctionKinds THEN Apis ELSE Schemas

-----------------------------------------------------------------------------
\* What the two sides agree on: of a text its first line counts, and an empty one
\* may count as none.  A known loss is permitted, never required: where it is named
\* what was said may be found as well.

Said(x) == IF x = <<>> THEN <<>> ELSE Head(x[1])
Nonempty(list) == IF list = <<>> THEN <<>> ELSE list[1]
Route(kind, p, v, op) == [path |-> p, verb |-> v]

\* Known loss: before a brace in a comment the reader of the Router sees nothing.
HasBrace(text) ==
    text # <<>> /\ \E i \in DOMAIN text[1] : \E j \in DOMAIN text[1][i] :
        SubSeq(text[1][i][j], 1, 1) \in {"{", "}"}
\* Known loss: the Router prints the texts of a path first.
Spoken(kind, item, op, m) ==
    {Said(op[m])} \cup (IF kind = "router" /\ item[m] # <<>> THEN {Said(item[m])} ELSE {})

\* Known losses: several schemes that are needed together become alternatives;
\* a scheme without scopes gets its own name for one; no requirements, or an
\* empty one, are not printed.
SecurityAgrees(given, read) ==
    LET requirements == ToSet(Nonempty(given))
        found == ToSet(Nonempty(read))
        SameScopes(q, f, k) == f[k] = q[k] \/ (q[k] = <<>> /\ f[k] = <<Scope(k)>>)
    IN /\ \A q \in requirements : \A k \in DOMAIN q :
             \E f \in found : k \in DOMAIN f /\ SameScopes(q, f, k)
       /\ \A f \in found : \E q \in requirements :
             /\ DOMAIN f \subseteq DOMAIN q /\ (DOMAIN f = {} => DOMAIN q = {})
             /\ \A k \in DOMAIN f : SameScopes(q, f, k)
\* Known loss: a response that has neither a description nor a content.
ResponsesAgree(given, read) ==
    LET says(r) == r.description # <<>> \/ r.content # {}
        responses == Nonempty(given)
        found == Nonempty(read)
    IN /\ {c \in DOMAIN responses : says(responses[c])} \subseteq DOMAIN found
       /\ DOMAIN found \subseteq DOMAIN responses
       /\ \A c \in DOMAIN found : found[c] = responses[c]

\* Known losses: where a parameter is but in the path; the types that are none
\* of C++, and all of them in handlers; in a handler a name that is no
\* identifier, whose description is then not found, and the quotes of one; a
\* parameter that has the name of the body.
ParameterAgrees(kind, p, given, read) ==
    LET plain == IF kind = "handlers" THEN sanitize_string(given.name) ELSE given.name
    IN /\ read.name \in {given.name, plain}
       /\ read.in \in {given.in, IF IsHole(p, read.name) THEN "path" ELSE "query"}
       /\ read.type \in {given.type, IF kind = "handlers" THEN <<>> ELSE <<value_or(given.type, "string")>>}
       /\ kind = "handlers" /\ plain = given.name =>
             /\ given.description # <<>> =>
                   Said(read.description) \in {Said(given.description), escape_json_string(given.description[1])}
             /\ read.deprecated = given.deprecated
             /\ Said(read.example) = Said(given.example)
ParametersAgree(kind, p, given, read) ==
    LET body == IF kind = "router" THEN "requestBody" ELSE "body"
        found == Nonempty(read)
    IN \E kept \in {given, SelectSeq(given, LAMBDA q : q.name # body)} :
          /\ Len(found) = Len(kept)
          /\ \A i \in DOMAIN kept : ParameterAgrees(kind, p, kept[i], found[i])

NameOf(kind, op) ==
    CASE kind = "router"    -> value_or(op.operationId, "handler")
      [] kind = "functions" -> value_or(op.operationId, "request")
      [] kind = "handlers"  -> sanitize_string(value_or(op.operationId, "op_7"))
      [] kind = "mocks"     -> sanitize_cpp_identifier(value_or(op.operationId, "request"))
OperationAgrees(kind, p, item, op, read) ==
    LET given == (IF kind = "router" THEN Nonempty(item.parameters) ELSE <<>>) \o Nonempty(op.parameters)
        body  == IF kind = "router" THEN "requestBody" ELSE "body"
        texts == {"summary", "description"}
    IN /\ read.operationId \in {op.operationId, <<NameOf(kind, op)>>}
       /\ \/ kind = "router" /\ (\E m \in texts : HasBrace(op[m]))
          \/ /\ \A m \in texts : Said(read[m]) \in Spoken(kind, item, op, m)
             /\ Nonempty(read.tags) = Nonempty(op.tags)
       /\ read.deprecated = op.deprecated
       /\ SecurityAgrees(op.security, read.security)
       /\ ResponsesAgree(op.responses, read.responses)
       /\ ParametersAgree(kind, p, given, read.parameters)
       /\ op.requestBody # <<>> => read.requestBody # <<>>
       /\ read.requestBody # <<>> => op.requestBody # <<>> \/ \E i \in DOMAIN given : given[i].name = body

\* Known losses: paths and verbs of mocks, where routes are guessed from names;
\* a command line client has no commands for rare verbs.
PathsAgree(kind, doc, read) ==
    LET verbs == IF kind = "handlers" THEN ToSet(CliVerbs) ELSE ToSet(AllVerbs)
        Used(p) == verbs \cap DOMAIN doc.paths[p].operations
    IN /\ {p \in DOMAIN doc.paths : Used(p) # {}} \subseteq DOMAIN read.paths
       /\ DOMAIN read.paths \subseteq DOMAIN doc.paths
       /\ \A p \in DOMAIN read.paths :
             LET given == doc.paths[p].operations
                 found == read.paths[p].operations
             IN /\ Used(p) \subseteq DOMAIN found /\ DOMAIN found \subseteq DOMAIN given
                /\ \A v \in DOMAIN found : OperationAgrees(kind, p, doc.paths[p], given[v], found[v])
MocksAgree(doc, read) ==
    LET NamesIn(d) == {NameOf("mocks", o.op) : o \in ToSet(Printed(d, AllVerbs))}
        Guess(n) == MockRoute([name |-> n])
    IN /\ NamesIn(read) \subseteq NamesIn(doc)
       /\ {Guess(n) : n \in NamesIn(read)} = {Guess(n) : n \in NamesIn(doc)}

\* Known losses: an empty default; without a list of values, a description
\* becomes one.
VariableAgrees(given, read) ==
    given.default_value # <<>> =>
        /\ read.default_value = given.default_value
        /\ Said(read.description) = Said(given.description)
        /\ given.enum_values # <<>> \/ given.description = <<>> => read.enum_values = given.enum_values
ServerAgrees(given, read) ==
    /\ read.url = given.url
    /\ Said(read.description) = Said(given.description)
    /\ DOMAIN Nonempty(read.variables) = DOMAIN Nonempty(given.variables)
    /\ \A n \in DOMAIN Nonempty(given.variables) : VariableAgrees(given.variables[1][n], read.variables[1][n])
\* Known loss: which member a word is, unless all before it are there too.
SchemeAgrees(given, read) ==
    LET words(s) == s.name \o s.in \o s.scheme \o s.bearerFormat
    IN /\ words(read) = words(given)
       /\ \A m \in {"type", "openIdConnectUrl", "oauth2MetadataUrl"} : read[m] = given[m]
       /\ value_or(read.deprecated, FALSE) = value_or(given.deprecated, FALSE)
       /\ Said(read.description) = Said(given.description)
\* Known loss: a further line of a description that looks like a scheme is one.
Bulleted(api) ==
    {s \in {value_or(api.securitySchemes, <<>>)[n] : n \in DOMAIN value_or(api.securitySchemes, <<>>)} :
        s.description # <<>> /\ \E i \in 2..Len(s.description[1]) : Begins(s.description[1][i], "-", 2)}
ApiAgrees(doc, read) ==
    LET given == doc.api
        Bold(m) == m \notin {"summary", "description"} \/ Said(given[m]) # <<>>
    IN /\ \A m \in InfoMembers : Bold(m) => Said(read.api[m]) = Said(given[m])
       /\ Len(Nonempty(read.api.servers)) = Len(Nonempty(given.servers))
       /\ \A i \in DOMAIN Nonempty(given.servers) : ServerAgrees(given.servers[1][i], read.api.servers[1][i])
       /\ Bulleted(given) = {} => DOMAIN Nonempty(read.api.securitySchemes) = DOMAIN Nonempty(given.securitySchemes)
       /\ \A n \in DOMAIN Nonempty(given.securitySchemes) :
             SchemeAgrees(given.securitySchemes[1][n], read.api.securitySchemes[1][n])

\* Known losses: xml that says nothing or no; an example, and all else but the
\* description, of a property; the format.
RemarksAgree(given, read) ==
    LET Xml(s) == IF s.xml = <<>> THEN NoXml
                  ELSE [s.xml[1] EXCEPT !.attribute = IF @ = <<TRUE>> THEN @ ELSE <<>>,
                                        !.wrapped = IF @ = <<TRUE>> THEN @ ELSE <<>>]
    IN /\ Said(read.description) = Said(given.description)
       /\ Said(read.example) = Said(given.example)
       /\ Xml(read) = Xml(given)
       /\ read.externalDocs = given.externalDocs
       /\ read.discriminator = given.discriminator
\* Known losses: a struct where there is no schema of its name yet is pointed
\* to, and the pointer is taken for its name; objects without a name and arrays
\* in arrays; no type, which is printed as a string.
PropertyAgrees(kind, given, read, required) ==
    LET Typed(s) == value_or(s.type, "string")
        IsSimple(s) == s.ref # <<>> \/ Typed(s) \notin {"array", "object"}
        Same(s, r) == IF s.ref # <<>> THEN r.ref = s.ref ELSE r.type \in {s.type, <<Typed(s)>>}
        IsPointer == kind = "structs" /\ given.ref # <<>> /\ read.ref # given.ref
    IN IF IsPointer THEN read.ref = <<<<"std::unique_ptr<">> \o given.ref[1] \o <<">">>>>
       ELSE /\ IsSimple(given) => Same(given, read)
            /\ Typed(given) = "array" /\ given.ref = <<>> /\ given.items # <<>> /\ IsSimple(given.items[1])
                  => read.type = <<"array">> /\ Same(given.items[1], read.items[1])
            /\ Said(given.description) # <<>> => Said(read.description) = Said(given.description)
\* Known losses: a name that is a keyword, or looks like one that was changed for
\* that; what is pointed to counts as required.
StructAgrees(kind, given, read) ==
    LET properties == value_or(given.properties, <<>>)
        found == read.properties[1]
        Name(n) == IF n \in DOMAIN found THEN n ELSE unsanitize_cpp_identifier(sanitize_cpp_identifier(n))
        IsPointer(n) == found[Name(n)].ref # <<>> /\ found[Name(n)].ref[1][1] = "std::unique_ptr<"
    IN /\ DOMAIN found = {Name(n) : n \in DOMAIN properties}
       /\ \A n \in DOMAIN properties :
             /\ PropertyAgrees(kind, properties[n], found[Name(n)], given.required)
             /\ n \in given.required => Name(n) \in read.required
             /\ Name(n) \in read.required => n \in given.required \/ IsPointer(n)
       /\ kind = "structs" => RemarksAgree(given, read)
\* Known losses: what is no struct, in modules; structs with the names of the
\* generated classes.
StructsAgree(kind, schemas, read) ==
    LET printed == {n \in DOMAIN schemas :
                      kind = "structs" \/ (schemas[n].type = <<"object">> /\ schemas[n].properties # <<>>)}
    IN /\ printed \ {"Client", "Router"} \subseteq DOMAIN read
       /\ DOMAIN read \subseteq DOMAIN schemas
       /\ \A n \in DOMAIN read : StructAgrees(kind, schemas[n], read[n])

CodeAgrees(kind, doc, read) ==
    CASE kind \in StructKinds -> StructsAgree(kind, doc, read)
      [] kind = "mocks"       -> MocksAgree(doc, read)
      [] kind = "handlers"    -> PathsAgree(kind, doc, read) /\ ApiAgrees(doc, read)
      [] OTHER                -> PathsAgree(kind, doc, read)

\* What the annotations of the Router are to carry without a loss: which logins a
\* route needs, what it answers, and where its parameters are.
AnnotationsKept(doc, read) ==
    \A p \in DOMAIN doc.paths : \A v \in DOMAIN doc.paths[p].operations :
        LET given == doc.paths[p].operations[v]
            found == read.paths[p].operations[v]
            Places(op) == {<<q.name, q.in>> : q \in ToSet(Nonempty(op.parameters))}
        IN /\ Nonempty(found.security) = Nonempty(given.security)
           /\ Nonempty(found.responses) = Nonempty(given.responses)
           /\ Places(given) \subseteq Places(found)

\* What may end the program while it reads its own comments: a server's variable
\* with neither a default nor values, a scheme with a description that has no
\* first line, or a further one that is a bullet and one word.
IsReadable(kind, doc) ==
    kind = "handlers" =>
        /\ \A i \in DOMAIN Nonempty(doc.api.servers) :
              LET variables == Nonempty(doc.api.servers[1][i].variables)
              IN \A n \in DOMAIN variables : variables[n].default_value # <<>>
                                                \/ variables[n].enum_values # <<>> \/ variables[n].description # <<>>
        /\ \A n \in DOMAIN Nonempty(doc.api.securitySchemes) :
              LET text == doc.api.securitySchemes[1][n].description
              IN text # <<>> => /\ text[1][1] # <<>>
                                /\ \A i \in 2..Len(text[1]) : ~ (Len(text[1][i]) = 2 /\ text[1][i][1] = "-")

\* What takes more than one round to settle: in handlers the description of a
\* parameter that is escaped again in each round, or first found by the second
\* name; the pointer that is wrapped again; what stands above a property without
\* a description, which becomes one, first whole, then its first line; and empty
\* texts at the end of a comment, of which one is lost in each round.
SettlesLate(kind, doc) ==
    CASE kind = "handlers" ->
            \E o \in ToSet(Printed(doc, CliVerbs)) : \E i \in DOMAIN Nonempty(o.op.parameters) :
                LET p == o.op.parameters[1][i]
                IN \/ p.name # sanitize_string(p.name)
                   \/ p.description # <<>> /\ escape_json_string(p.description[1]) # p.description[1][1]
      [] kind \in StructKinds ->
            \E n \in DOMAIN doc :
                \/ doc[n].example = <<EmptyText>> /\ kind = "modular structs"
                \/ doc[n].description = <<EmptyText>>
                     /\ (kind = "modular structs" \/ doc[n].example = <<EmptyText>>)
                \/ \E m \in DOMAIN Nonempty(doc[n].properties) :
                      LET p == doc[n].properties[1][m]
                          above == emit_docstrings(p) \o (IF kind = "structs" THEN <<>> ELSE << <<"@property">> >>)
                      IN \/ kind = "structs" /\ p.ref # <<>>
                         \/ p.description \in {<<>>, <<EmptyText>>} /\ Len(above) > 1
      [] kind = "functions" ->
            \E o \in ToSet(Printed(doc, AllVerbs)) : <<EmptyText>> \in {o.op.summary, o.op.description}
      [] OTHER -> FALSE
===============================================================================
