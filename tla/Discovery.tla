------------------------------ MODULE Discovery ------------------------------
(***************************************************************************)
(* google_discovery/parse.cpp: how the description of a Google API, or a   *)
(* list of such APIs, becomes OpenAPI structs.  What is missing or of the  *)
(* wrong kind is passed over, so any JSON may be read.  A struct is made   *)
(* of the members that the code sets; Completed of Codec adds the others.  *)
(***************************************************************************)
EXTENDS Codec

RefTo(name) == <<[ref |-> "#/components/schemas/" \o name]>>
RefSchema(name) == [ref |-> RefTo(name)]

OfKind(v, tag) == IF Is(v, tag) THEN <<v[2]>> ELSE <<>>
TextIfAny(o, k) == OfKind(ValueAt(o, k), "string")
FlagIfAny(o, k) == OfKind(ValueAt(o, k), "bool")
StringsIn(items) == LET s == SelectSeq(items, LAMBDA v : Is(v, "string"))
                    IN [i \in DOMAIN s |-> s[i][2]]
StringsIfAny(items) == IfAnyIn(StringsIn(items))
Objects(o) == SelectSeq(o, LAMBDA p : Is(p[2], "object"))
FirstText(o, keys, otherwise) ==
    LET i == SelectInSeq(keys, LAMBDA k : StringAt(o, k))
    IN IF i = 0 THEN otherwise ELSE TextAt(o, keys[i])

\* The path of a method, with a slash in front, and {x} for {+x} and {/x}.
Char(s, i) == SubSeq(s, i, i)
normalize_discovery_path(raw) ==
    LET Operator(i) == i < Len(raw) /\ Char(raw, i) = "{" /\ Char(raw, i + 1) \in {"+", "/"}
        Piece(out, i) ==
            CASE i > 1 /\ Operator(i - 1) -> out
              [] i < Len(raw) /\ SubSeq(raw, i, i + 1) = "{/" /\ Char(out, Len(out)) # "/" -> out \o "/{"
              [] OTHER -> out \o Char(raw, i)
    IN FoldLeft(Piece, IF StartsWith(raw, "/") THEN "" ELSE "/", [i \in 1..Len(raw) |-> i])

-----------------------------------------------------------------------------
\* populate_parameter_details.  A bound is a text, and none if it is no number.

strtod(s) == IF IsNumeral(s) THEN <<NumberOf(s)>> ELSE <<>>
ItemSchema(p) ==
    [type |-> <<IF TextAt(p, "type") = "any" THEN "string" ELSE FirstText(p, <<"type">>, "string")>>,
     format |-> TextIfAny(p, "format"), pattern |-> TextIfAny(p, "pattern"),
     default_value |-> TextIfAny(p, "default"),
     minimum |-> strtod(TextAt(p, "minimum")), maximum |-> strtod(TextAt(p, "maximum")),
     enum_values |-> StringsIfAny(ItemsAt(p, "enum"))]
ParameterSchema(p) ==
    IF IsTrueAt(p, "repeated")
    THEN [schema |-> <<[type |-> <<"array">>, items |-> <<ItemSchema(p)>>]>>,
          explode |-> <<TRUE>>]
    ELSE [schema |-> <<ItemSchema(p)>>, explode |-> <<>>]

Location(p) == FirstText(p, <<"location">>, "query")
IsRequiredOf(p) == IF IsAt(p, "required", "bool") THEN IsTrueAt(p, "required") ELSE Location(p) = "path"
DiscoveryParameter(name, p) ==
    [name |-> name, in |-> Location(p), description |-> TextIfAny(p, "description"),
                      required |-> IsRequiredOf(p), deprecated |-> IsTrueAt(p, "deprecated")]
                       @@ ParameterSchema(p)
ParametersOf(o) == LET ps == Objects(o)
                   IN [i \in DOMAIN ps |-> DiscoveryParameter(ps[i][1], ps[i][2][2])]

-----------------------------------------------------------------------------
\* parse_schema

DiscriminatorOf(variant) ==
    LET refs == SelectSeq(ItemsAt(variant, "map"), LAMBDA v : Is(v, "object") /\ StringAt(v[2], "$ref"))
        typed == SelectSeq(refs, LAMBDA v : StringAt(v[2], "type_value"))
        mapping == MapOfPairs([i \in DOMAIN typed |->
                       <<TextAt(typed[i][2], "type_value"),
                         "#/components/schemas/" \o TextAt(typed[i][2], "$ref")>>])
    IN [oneOf |-> IF IsAt(variant, "map", "array")
                  THEN <<[i \in DOMAIN refs |-> RefSchema(TextAt(refs[i][2], "$ref"))]>> ELSE <<>>,
        discriminator |->
            IF TextAt(variant, "discriminant") = "" THEN <<>>
            ELSE <<[propertyName |-> TextAt(variant, "discriminant"),
                    mapping |-> IF typed = <<>> THEN <<>> ELSE <<mapping>>]>>]

RECURSIVE parse_schema(_)
SchemasIn(o) == MapOfPairs([i \in DOMAIN o |-> <<o[i][1], parse_schema(o[i][2][2])>>])
Properties(o) ==
    LET props == Objects(Within(o, "properties"))
        needed == SelectSeq(props, LAMBDA p : IsTrueAt(p[2][2], "required"))
    IN [properties |-> IF IsAt(o, "properties", "object")
                       THEN <<SchemasIn(props)>>
                       ELSE <<>>,
        required |-> IF needed = <<>> THEN <<>> ELSE <<[i \in DOMAIN needed |-> needed[i][1]]>>]
SchemaIfAny(o, k) == IF IsAt(o, k, "object") THEN <<parse_schema(Within(o, k))>> ELSE <<>>
parse_schema(o) ==
    [type |-> IF TextAt(o, "type") = "any" THEN <<>> ELSE TextIfAny(o, "type"),
     description |-> TextIfAny(o, "description"), format |-> TextIfAny(o, "format"),
     pattern |-> TextIfAny(o, "pattern"), default_value |-> TextIfAny(o, "default"),
     readOnly |-> FlagIfAny(o, "readOnly"), deprecated |-> FlagIfAny(o, "deprecated"),
     ref |-> IF StringAt(o, "$ref") THEN RefTo(TextAt(o, "$ref")) ELSE <<>>,
     enum_values |-> StringsIfAny(ItemsAt(o, "enum")),
     additionalProperties |-> SchemaIfAny(o, "additionalProperties"),
     items |-> SchemaIfAny(o, "items")]
      @@ Properties(o)
      @@ (IF IsAt(o, "variant", "object") THEN DiscriminatorOf(Within(o, "variant")) ELSE <<>>)

-----------------------------------------------------------------------------
\* process_methods

Media(schema) == [schema |-> <<schema>>]
Binary == [type |-> <<"string">>, format |-> <<"binary">>]
JsonMedia(o) == IF StringAt(o, "$ref") THEN [t \in {"application/json"} |-> Media(RefSchema(TextAt(o, "$ref")))]
                ELSE <<>>

\* An upload may be of any accepted type, alone or with the request.
Multipart(request) ==
    Media([type |-> <<"object">>,
           properties |-> <<(IF StringAt(request, "$ref")
                             THEN [m \in {"metadata"} |-> RefSchema(TextAt(request, "$ref"))]
                             ELSE <<>>) @@ [m \in {"media"} |-> Binary]>>])
Upload(request, upload) ==
    [t \in ToSet(StringsIn(ItemsAt(upload, "accept"))) |-> Media(Binary)]
      @@ [t \in {"multipart/related"} |-> Multipart(request)]
      @@ [t \in {"application/octet-stream"} |-> Media(Binary)] @@ JsonMedia(request)
TakesMedia(m) == IsAt(m, "mediaUpload", "object") \/ IsTrueAt(m, "supportsMediaUpload")
RequestOf(m) ==
    LET request == Within(m, "request")
    IN CASE TakesMedia(m) ->
              <<[content |-> Upload(request, Within(m, "mediaUpload"))]>>
         [] ~ TakesMedia(m) /\ StringAt(request, "$ref") ->
              <<[content |-> JsonMedia(request)]>>
         [] OTHER -> <<>>
ResponseOf(m) ==
    [description |-> "Successful operation",
     content |-> IfAnyIn((IF IsTrueAt(m, "supportsMediaDownload")
                          THEN [t \in {"application/octet-stream"} |-> Media(Binary)] ELSE <<>>)
                         @@ JsonMedia(Within(m, "response")))]
LoginOf(scopes) == <<[s \in {"Oauth2"} |-> scopes]>>
ScopesOfMethod(m) ==
    LET any == StringsIfAny(ItemsAt(m, "scopes"))
    IN [i \in DOMAIN any |-> LoginOf(any[i])]
DiscoveryOperation(key, m) ==
    [operationId |-> <<FirstText(m, <<"id">>, key)>>, description |-> TextIfAny(m, "description"),
     deprecated |-> IsTrueAt(m, "deprecated"),
     extensions |-> IF IsAt(m, "supportsSubscription", "bool")
                    THEN [x \in {"x-supports-subscription"} |-> ValueAt(m, "supportsSubscription")]
                    ELSE <<>>,
     parameters |-> IF IsAt(m, "parameters", "object") THEN <<ParametersOf(Within(m, "parameters"))>>
                    ELSE <<>>,
     requestBody |-> RequestOf(m),
     responses |-> <<[code \in {"200"} |-> ResponseOf(m)]>>,
     security |-> ScopesOfMethod(m)]

\* The members of a PathItem, by the HTTP method.  Other methods are left out.
VerbOf == [GET |-> "get", POST |-> "post", PUT |-> "put", DELETE |-> "delete_op", PATCH |-> "patch",
           HEAD |-> "head", OPTIONS |-> "options"]
IsCall(m) == (StringAt(m, "flatPath") \/ StringAt(m, "path")) /\ TextAt(m, "httpMethod") \in DOMAIN VerbOf
process_methods(o) ==
    LET ms == SelectSeq(Objects(o), LAMBDA p : IsCall(p[2][2]))
        Call(key, m) == <<normalize_discovery_path(FirstText(m, <<"flatPath", "path">>, "")),
                          VerbOf[TextAt(m, "httpMethod")], DiscoveryOperation(key, m)>>
    IN [i \in DOMAIN ms |-> Call(ms[i][1], ms[i][2][2])]

\* The methods of each resource, then those of the resources in it.
RECURSIVE process_resources(_)
process_resources(o) ==
    LET rs == Objects(o)
        Of(r) == process_methods(Within(r, "methods")) \o process_resources(Within(r, "resources"))
    IN FlattenSeq([i \in DOMAIN rs |-> Of(rs[i][2][2])])

\* One operation for each path and verb: the last takes the place of the others.
PathsOf(calls) ==
    LET Of(p) == SelectSeq(calls, LAMBDA c : c[1] = p)
        Verbs(p) == MapOfPairs([i \in DOMAIN Of(p) |-> <<Of(p)[i][2], <<Of(p)[i][3]>>>>])
    IN [p \in {calls[i][1] : i \in DOMAIN calls} |-> Verbs(p)]

-----------------------------------------------------------------------------
\* parse_rest_document and parse

InfoOf(o) ==
    [title |-> FirstText(o, <<"title", "name">>, "Google Discovery API"),
     version |-> FirstText(o, <<"version">>, "v1"),
     description |-> TextIfAny(o, "description")]
DocsOf(o) ==
    IF StringAt(o, "documentationLink")
    THEN <<[url |-> TextAt(o, "documentationLink")]>> ELSE <<>>
ServerAt(url) == <<<<[url |-> url]>>>>

\* rootUrl and servicePath, with one slash where both have it.
Joined(root, path) ==
    IF root # "" /\ Char(root, Len(root)) = "/" /\ StartsWith(path, "/")
    THEN root \o SubSeq(path, 2, Len(path)) ELSE root \o path
ServersOf(root) ==
    CASE StringAt(root, "rootUrl") -> ServerAt(Joined(TextAt(root, "rootUrl"), TextAt(root, "servicePath")))
      [] ~ StringAt(root, "rootUrl") /\ StringAt(root, "baseUrl") -> ServerAt(TextAt(root, "baseUrl"))
      [] OTHER -> <<>>

Oauth2(scopes) ==
    LET Description(v) == IF Is(v, "object") THEN TextAt(v[2], "description") ELSE ""
        flow == [authorizationUrl |-> <<"https://accounts.google.com/o/oauth2/auth">>,
                 scopes |-> <<MapFrom(scopes, Description)>>]
        token == [tokenUrl |-> <<"https://oauth2.googleapis.com/token">>]
    IN [type |-> "oauth2",
        flows |-> <<[implicit |-> <<flow>>,
                                       authorizationCode |-> <<flow @@ token>>]>>]

\* The components there are: none, unless the document has one of these members.
ByName(ps) == MapOfPairs([i \in DOMAIN ps |-> <<ps[i].name, ps[i]>>])
ComponentsOf(root) ==
    IfAnyIn((IF IsAt(root, "parameters", "object")
             THEN [parameters |-> <<ByName(ParametersOf(Within(root, "parameters")))>>] ELSE <<>>)
            @@ (IF IsAt(Within(Within(root, "auth"), "oauth2"), "scopes", "object")
                THEN [securitySchemes |-> <<[s \in {"Oauth2"} |->
                         Oauth2(Within(Within(Within(root, "auth"), "oauth2"), "scopes"))]>>] ELSE <<>>)
            @@ (IF IsAt(root, "schemas", "object")
                THEN [schemas |-> <<SchemasIn(Objects(Within(root, "schemas")))>>] ELSE <<>>))

parse_rest_document(root) ==
    [openapi |-> "3.2.0", info |-> InfoOf(root), externalDocs |-> DocsOf(root),
     servers |-> ServersOf(root), components |-> ComponentsOf(root),
     paths |-> <<PathsOf(process_methods(Within(root, "methods"))
                           \o process_resources(Within(root, "resources")))>>]

\* An entry of the list of APIs has no methods, and its server is the address
\* of its description.
DirectoryEntry(item) ==
    [openapi |-> "3.2.0", info |-> InfoOf(item), externalDocs |-> DocsOf(item),
     servers |-> IF StringAt(item, "discoveryRestUrl") THEN ServerAt(TextAt(item, "discoveryRestUrl"))
                 ELSE <<>>]

\* The structs read; none from a document that is of another kind.
LooksLikeRest(root) == \E k \in {"schemas", "resources", "methods"} : HasKey(root, k)
parse(doc) ==
    LET root == doc[2]
        items == SelectSeq(ItemsAt(root, "items"), LAMBDA v : Is(v, "object"))
    IN CASE ~ Is(doc, "object") -> Failed
         [] Is(doc, "object") /\ TextAt(root, "kind") = "discovery#directoryList" ->
               Ok([i \in DOMAIN items |-> DirectoryEntry(items[i][2])])
         [] Is(doc, "object") /\ (\/ TextAt(root, "kind") = "discovery#restDescription"
                                  \/ ~ StringAt(root, "kind") /\ LooksLikeRest(root)) ->
               Ok(<<parse_rest_document(root)>>)
         [] OTHER -> Ok(<<>>)
===============================================================================
