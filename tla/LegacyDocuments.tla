--------------------------- MODULE LegacyDocuments ---------------------------
(***************************************************************************)
(* Documents of the versions that the upgraders and the Discovery reader   *)
(* take: for each part of a document the ways it may be written, in all    *)
(* combinations where parts depend on each other.                          *)
(***************************************************************************)
EXTENDS Codec

Text_(k, s)  == Entry(k, Str(s))
Texts_(k, s) == Entry(k, Arr([i \in DOMAIN s |-> Str(s[i])]))
Object(k, o) == Entry(k, Obj(o))
Array(k, s)  == Entry(k, Arr([i \in DOMAIN s |-> Obj(s[i])]))
Yes_(k)      == Entry(k, Bool(TRUE))
No_(k)       == Entry(k, Bool(FALSE))
InfoA        == Object("info", Text_("title", "A") \o Text_("version", "1"))

-----------------------------------------------------------------------------
\* Schemas.

\* Nothing, a bound, a bound with a flag.
Bound(bound, exclusive) ==
    LET b == Entry(bound, Num(3))
    IN {<<>>, b, b \o Yes_(exclusive), No_(exclusive) \o b}
Bounded == {Text_("type", "integer") \o low \o high : low \in Bound("minimum", "exclusiveMinimum"),
                                                      high \in Bound("maximum", "exclusiveMaximum")}
Collections ==
    {Text_("type", "array") \o Object("items", Text_("$ref", "#/definitions/Pet")),
     Text_("type", "array") \o Array("items", <<Text_("type", "string"), Text_("type", "integer")>>),
     Text_("type", "array") \o Object("items", Text_("type", "integer") \o Entry("minimum", Num(3))),
     Texts_("required", <<"a">>) \o Object("properties", Object("a", Text_("type", "string") \o
                                                                     Texts_("enum", <<"a", "b">>)))}
Nested(s) == Text_("type", "object") \o Object("properties", Object("type", s) \o Object("b", s))

-----------------------------------------------------------------------------
\* Swagger 2.0.

Param(name, in, more) == Text_("name", name) \o Text_("in", in) \o more
QueryA == Param("a", "query", Text_("type", "integer") \o Entry("minimum", Num(3)) \o Text_("collectionFormat", "csv"))
PathB  == Param("b", "path", Yes_("required") \o Text_("type", "string") \o Texts_("enum", <<"x", "y">>))
BodyPet == Param("pet", "body", Object("schema", Text_("$ref", "#/definitions/Pet")))
BodyInline == Param("pet", "body", Object("schema", Text_("type", "string")))
FormA  == Param("a", "formData", Yes_("required") \o Text_("type", "string"))
FormB  == Param("b", "formData", Text_("type", "file"))
Shared == Text_("$ref", "#/parameters/Page")
ParameterLists == {<<>>, <<QueryA, PathB>>, <<Shared>>, <<BodyPet>>, <<PathB, BodyInline, QueryA>>,
                   <<FormA, FormB>>, <<FormA, QueryA>>}
PathLists == {<<>>, <<PathB>>, <<BodyInline>>}

Consumes == {<<>>, Texts_("consumes", <<"application/xml", "multipart/form-data">>), Texts_("consumes", <<>>)}
Produces == {<<>>, Texts_("produces", <<"application/xml", "text/plain">>)}
Responses == {Object("200", Text_("description", "d") \o Object("schema", Text_("$ref", "#/definitions/Pet"))),
              Object("204", Text_("description", "#/responses/Gone"))
                \o Object("404", Text_("$ref", "#/responses/Gone"))}

Operation_(params, consumes, produces, responses) ==
    Text_("operationId", "id") \o consumes \o Array("parameters", params) \o produces
      \o Object("responses", responses) \o Entry("security", Arr(<<Obj(Texts_("login", <<"read">>))>>))
Item_(common, op) == Array("parameters", common) \o Object("post", op) \o Text_("x-a", "a")
Doc20(top, item) ==
    Text_("swagger", "2.0") \o InfoA \o top \o Object("paths", Object("/a/{b}", item))

Hosts == {<<>>, Text_("basePath", "/v1"), Text_("host", "a"), Text_("host", "a") \o Text_("basePath", "/v1"),
          Text_("host", "a") \o Texts_("schemes", <<"http", "ws">>)}
Scopes_ == Object("scopes", Text_("read", "d"))
Login(kind) ==
    Object("securityDefinitions", Object("login",
        CASE kind = "basic"  -> Text_("type", "basic")
          [] kind = "apiKey" -> Text_("type", "apiKey") \o Text_("in", "header") \o Text_("name", "k")
          [] OTHER -> Text_("type", "oauth2") \o Text_("flow", kind) \o Text_("authorizationUrl", "u")
                        \o Text_("tokenUrl", "t") \o Scopes_))
Logins == {Login(k) : k \in {"basic", "apiKey", "implicit", "password", "application", "accessCode"}}
SharedParts == Object("parameters", Object("Page", Param("page", "query", Text_("type", "string"))))
                 \o Object("responses", Object("Gone", Text_("description", "d")
                                                         \o Object("schema", Text_("type", "string"))))
Plain == Operation_(<<BodyPet>>, <<>>, <<>>, CHOOSE r \in Responses : TRUE)
Swagger20 ==
    {Doc20(SharedParts, Item_(c, Operation_(p, m, n, r))) :
        c \in PathLists, p \in ParameterLists, m \in Consumes, n \in Produces, r \in Responses}
      \cup {Doc20(h \o m \o n, Item_(<<>>, Plain)) : h \in Hosts, m \in Consumes, n \in Produces}
      \cup {Doc20(l, Item_(<<>>, Plain)) : l \in Logins}
      \cup {Doc20(Object("definitions", Object("Pet", s)), Item_(<<>>, Plain)) : s \in Bounded \cup Collections}

-----------------------------------------------------------------------------
\* OpenAPI 3, and Swagger 1.2.

Schema3(s) == Object("components", Object("schemas", Object("Pet", s)))
Doc3(version, schemas) ==
    InfoA \o Text_("openapi", version) \o schemas
      \o Object("paths", Object("/a", Object("get", Object("responses", <<>>))))
\* Calls with inputs: those of the path before those of the operation, of every
\* type, with a list of values or an example; ids that are no identifiers.
Input_(name, in, schema, more) ==
    Text_("name", name) \o Text_("in", in) \o Yes_("required") \o Object("schema", schema) \o more
Of(type) == Text_("type", type)
InputLists == {<<>>,
    <<Input_("a", "query", Of("boolean"), <<>>), Input_("b-c", "header", Of("number"), <<>>)>>,
    <<Input_("a", "query", Of("integer") \o Entry("enum", Arr(<<Num(3)>>)), <<>>)>>,
    <<Input_("a", "query", Of("integer") \o Texts_("enum", <<"x">>), Text_("example", "3"))>>,
    <<Input_("a", "query", Of("string") \o Texts_("enum", <<"x">>), <<>>), Input_("class", "cookie", <<>>, <<>>)>>}
CommonLists == {<<>>, <<Input_("p", "path", Of("integer"), <<>>)>>, <<Input_("p", "path", Of("string"), <<>>)>>}
BodyOf(media, schema) ==
    Object("requestBody", Object("content", Object(media, Object("schema", schema))))
Call_(id, inputs, body) == id \o Array("parameters", inputs) \o body \o Object("responses", <<>>)
Names_ == {<<>>, Text_("operationId", "id"), Text_("operationId", "pets.list"), Text_("operationId", "delete")}
PathDoc(items) == InfoA \o Text_("openapi", "3.2.0") \o Object("paths", items)
Callable ==
    {PathDoc(Object("/{p}", Array("parameters", c) \o Object(v, Call_(n, i, b)))) :
        c \in CommonLists, i \in InputLists, n \in Names_, v \in {"get", "delete", "trace"},
        b \in {<<>>, BodyOf("application/json", Of("array"))}}
      \cup {PathDoc(Object("/a", Object("post", Call_(n, <<>>, <<>>))
                                   \o Object("additionalOperations", Object("COPY", Call_(n, <<>>, <<>>))))
                      \o Object("/b", Object("put", Call_(m, <<>>, <<>>)))) : n, m \in Names_}

OpenApi3 ==
    {Doc3("3.0.3", Schema3(s)) : s \in Bounded \cup Collections \cup {Nested(s) : s \in Bounded}}
      \cup {Doc3(v, Schema3(Text_("type", "integer") \o Entry("exclusiveMinimum", Num(3)))) :
                v \in {"3.1.0", "3.2.0"}}
      \cup Callable

Op12(method, nickname) ==
    Obj(Text_("method", method) \o (IF nickname = "" THEN <<>> ELSE Text_("nickname", nickname)))
Api12_(path, ops) == Obj(Text_("path", path) \o Entry("operations", Arr(ops)))
Apis == {<<>>, <<Api12_("/a", <<Op12("GET", "n"), Op12("POST", "")>>), Api12_("/b", <<Op12("DELETE", "n")>>)>>}
Infos == {<<>>, InfoA, Object("info", Text_("description", "d"))}
Swagger12 ==
    {v \o i \o Entry("apis", Arr(a)) : a \in Apis, i \in Infos,
     v \in {Text_("swaggerVersion", "1.2"), Text_("swagger", "1.1")}}

-----------------------------------------------------------------------------
\* Discovery.

Located(loc) == IF loc = "" THEN <<>> ELSE Text_("location", loc)
DParams == {Located(loc) \o r \o t : loc \in {"", "path", "query"}, r \in {<<>>, Yes_("required"), No_("required")},
            t \in {Text_("type", "any") \o Texts_("enum", <<"a", "b">>),
                   Text_("type", "integer") \o Text_("minimum", "3") \o Text_("maximum", "many") \o Yes_("repeated")}}
Method(path, verb, more) == Text_("path", path) \o Text_("httpMethod", verb) \o more
Doc(more) == Text_("kind", "discovery#restDescription") \o Text_("name", "A") \o more
OneMethod(more) == Doc(Object("methods", Object("m", Method("v1/pets", "POST", more))))
RefPet(k) == Object(k, Text_("$ref", "Pet"))
Uploads == {<<>>, Yes_("supportsMediaUpload"),
            Object("mediaUpload", Texts_("accept", <<"image/png", "text/plain">>))}
Media_ == {request \o upload \o response \o download \o scopes :
              request \in {<<>>, RefPet("request")}, upload \in Uploads,
              response \in {<<>>, RefPet("response")}, download \in {<<>>, Yes_("supportsMediaDownload")},
              scopes \in {<<>>, Texts_("scopes", <<"read">>) \o No_("supportsSubscription")}}
TwoMethods(t, u, v) ==
    Doc(Object("methods", Object("m", Text_("flatPath", t) \o Method("v1/pets", "GET", Text_("id", "i"))))
          \o Object("resources", Object("r", Object("methods", Object("n", Method(u, v, <<>>)))
                \o Object("resources", Object("q", Object("methods", Object("o", Method(u, "PUT", <<>>))))))))
DSchemas ==
    {Text_("type", "any") \o Text_("description", "d"), RefPet("items") \o Text_("type", "array"),
     Object("properties", Object("a", Text_("type", "string") \o Yes_("required"))
                            \o Object("b", RefPet("items") \o Text_("type", "array"))),
     Object("variant", Text_("discriminant", "kind")
              \o Array("map", <<Text_("type_value", "cat") \o Text_("$ref", "Cat"), Text_("$ref", "Dog")>>)),
     Texts_("enum", <<"a">>) \o Object("additionalProperties", Text_("type", "string")) \o Text_("default", "a")}
DServers == {<<>>, Text_("baseUrl", "https://b/"),
             Text_("rootUrl", "https://a/") \o Text_("servicePath", "v1/"),
             Text_("rootUrl", "https://a/") \o Text_("servicePath", "/v1/")}
Login_ == Object("auth", Object("oauth2", Object("scopes", Object("read", Text_("description", "d")))))
Discoveries ==
    {OneMethod(Object("parameters", Object("a", p))) : p \in DParams}
      \cup {OneMethod(m) : m \in Media_}
      \cup {TwoMethods(t, u, v) : t, u \in {"v1/{+name}", "/v1/{id}", "v1{/id}", "v1/{/id}"}, v \in {"GET", "DELETE"}}
      \cup {Doc(s \o l \o Object("schemas", Object("Pet", c))) : s \in DServers, l \in {<<>>, Login_}, c \in DSchemas}
      \cup {Text_("title", "B") \o Object("parameters", Object("key", <<>>)) \o Object("schemas", <<>>),
            Text_("kind", "discovery#directoryList")
              \o Array("items", <<Text_("title", "A") \o Text_("discoveryRestUrl", "a"),
                                  Text_("title", "B") \o Text_("discoveryRestUrl", "b")>>)}

\* What no reader takes.
Strange == {<<>>, Entry("swagger", Num(2)), Text_("swagger", "3.0"), Entry("openapi", Num(3)),
            Text_("openapi", "4.0"), Text_("kind", "other")}
Documents == {Obj(o) : o \in Swagger20 \cup OpenApi3 \cup Swagger12 \cup Discoveries \cup Strange}
               \cup {Arr(<<>>)}
===============================================================================
