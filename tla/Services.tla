------------------------------- MODULE Services -------------------------------
(***************************************************************************)
(* What a document promises to the clients of its service, and how the     *)
(* versions say it: Swagger 1.2 and 2.0, OpenAPI 3, and the description of *)
(* a Google API.  This is written from the specifications of the formats,  *)
(* for the upgraders and the Discovery reader to be held against.          *)
(*                                                                         *)
(* An offer is the title, the servers, the calls, the schemas and the ways *)
(* to log in.  A call has a path, a verb, an id, inputs, and bodies and    *)
(* results by media type, the media of the bodies, scopes.                 *)
(***************************************************************************)
EXTENDS Upgrader

D == INSTANCE Discovery

\* What each member of an object, or each element of an array, stands for.
OfEach(o, Meaning(_, _)) == {Meaning(o[i][1], o[i][2][2]) : i \in DOMAIN o}
OfItems(items, Meaning(_)) == {Meaning(items[i][2]) : i \in DOMAIN items}
TextSet(o, k) == ToSet(TextsAt(o, k))

\* A reference leads to a name of a kind.
Anchors == {<<"#/definitions/", "schema">>, <<"#/components/schemas/", "schema">>,
            <<"#/parameters/", "parameter">>, <<"#/components/parameters/", "parameter">>,
            <<"#/responses/", "response">>, <<"#/components/responses/", "response">>}
Target(r) == {<<a[2], SubSeq(r, Len(a[1]) + 1, Len(r))>> : a \in {b \in Anchors : StartsWith(r, b[1])}}
TargetOf(o) == Target(TextAt(o, "$ref"))

-----------------------------------------------------------------------------
\* What values a schema admits, up to the members the upgraders look at.

\* An end of the range: the bound itself is out if a flag says so, or if it is
\* given as the bound that is out.
End(o, bound, exclusive) ==
    LET At(k) == ValueAt(o, k)[2]
        Number(k) == ValueAt(o, k)[1] \in {"int", "double"}
    IN CASE Number(exclusive) -> {<<At(exclusive), "out">>}
         [] IsTrueAt(o, exclusive) /\ Number(bound) -> {<<At(bound), "out">>}
         [] ~ Number(exclusive) /\ ~ IsTrueAt(o, exclusive) /\ Number(bound) -> {<<At(bound), "in">>}
         [] OTHER -> {}

RECURSIVE Admits(_)
SchemaAt(o, k) == IF IsAt(o, k, "object") THEN {Admits(Within(o, k))} ELSE {}
Admits(o) ==
    [type   |-> TextAt(o, "type"), target |-> TargetOf(o),
     low    |-> End(o, "minimum", "exclusiveMinimum"), high |-> End(o, "maximum", "exclusiveMaximum"),
     values |-> TextSet(o, "enum"), needs |-> TextSet(o, "required"),
     items  |-> SchemaAt(o, "items"),
     places |-> LET s == ItemsAt(o, "prefixItems") \o ItemsAt(o, "items")
                IN [i \in DOMAIN s |-> Admits(s[i][2])],
     either |-> <<TextAt(Within(o, "discriminator"), "propertyName"), OfItems(ItemsAt(o, "oneOf"), TargetOf)>>,
     members |-> OfEach(Within(o, "properties"), LAMBDA k, s : <<k, Admits(s)>>)]

\* The members of a Discovery schema are required one by one, a bound is a text.
DEnd(o, k) == IF IsNumeral(TextAt(o, k)) THEN {<<NumberOf(TextAt(o, k)), "in">>} ELSE {}
RECURSIVE DAdmits(_)
DSchemaAt(o, k) == IF IsAt(o, k, "object") THEN {DAdmits(Within(o, k))} ELSE {}
DAdmits(o) ==
    [type   |-> IF TextAt(o, "type") = "any" THEN "" ELSE TextAt(o, "type"),
     target |-> IF StringAt(o, "$ref") THEN {<<"schema", TextAt(o, "$ref")>>} ELSE {},
     low    |-> {}, high |-> {},
     values |-> TextSet(o, "enum"),
     needs  |-> {p[1] : p \in {q \in ToSet(Within(o, "properties")) : IsTrueAt(q[2][2], "required")}},
     items  |-> DSchemaAt(o, "items"), places |-> <<>>,
     either |-> LET v == Within(o, "variant")
                IN <<TextAt(v, "discriminant"),
                     OfItems(ItemsAt(v, "map"), LAMBDA r : {<<"schema", TextAt(r, "$ref")>>})>>,
     members |-> OfEach(Within(o, "properties"), LAMBDA k, s : <<k, DAdmits(s)>>)]

OfType(t) == [type |-> t, target |-> {}, low |-> {}, high |-> {}, values |-> {}, needs |-> {},
              items |-> {}, places |-> <<>>, either |-> <<"", {}>>, members |-> {}]
Referring(name) == [OfType("") EXCEPT !.target = {<<"schema", name>>}]

-----------------------------------------------------------------------------
\* OpenAPI 3.

Verbs == {"get", "put", "post", "delete", "patch", "head", "options"}
Input(p) == [target |-> TargetOf(p), name |-> TextAt(p, "name"), in |-> TextAt(p, "in"),
             needed |-> IsTrueAt(p, "required"), takes |-> Admits(Within(p, "schema"))]
ByMedia(o) == OfEach(Within(o, "content"), LAMBDA t, m : <<t, Admits(Within(m, "schema"))>>)
Scopes3(o) == UNION {ToSet(s) : s \in OfItems(ItemsAt(o, "security"),
                                              LAMBDA s : [i \in DOMAIN s |-> <<s[i][1], TextSet(s, s[i][1])>>])}
\* The calls of the operations at the paths; Inputs and Bodies say what an
\* operation and the path around it have of them, Results what a response has.
CallsOf(paths, Inputs(_), Bodies(_, _), Results(_, _)) ==
    UNION {{[path |-> p[1], verb |-> v, id |-> TextAt(Within(p[2][2], v), "operationId"),
             inputs |-> Inputs(Within(p[2][2], v)) \cup Inputs(p[2][2]),
             bodies |-> Bodies(Within(p[2][2], v), p[2][2]),
             results |-> OfEach(Within(Within(p[2][2], v), "responses"),
                                LAMBDA code, r : <<code, TargetOf(r), Results(r, Within(p[2][2], v))>>),
             scopes |-> Scopes3(Within(p[2][2], v))] :
              v \in {w \in Verbs : HasKey(p[2][2], w)}} : p \in ToSet(paths)}
Flow(f) == [login |-> TextAt(f, "authorizationUrl"), token |-> TextAt(f, "tokenUrl"),
            scopes |-> Keys(Within(f, "scopes"))]
Offer3(o) ==
    [title   |-> TextAt(Within(o, "info"), "title"),
     servers |-> OfItems(ItemsAt(o, "servers"), LAMBDA s : TextAt(s, "url")),
     calls   |-> CallsOf(Within(o, "paths"), LAMBDA x : OfItems(ItemsAt(x, "parameters"), Input),
                         LAMBDA op, item : ByMedia(Within(op, "requestBody")),
                         LAMBDA r, op : ByMedia(r)),
     schemas |-> OfEach(Within(Within(o, "components"), "schemas"), LAMBDA k, s : <<k, Admits(s)>>),
     logins  |-> OfEach(Within(Within(o, "components"), "securitySchemes"),
                        LAMBDA k, s : [name |-> k, kind |-> <<TextAt(s, "type"), TextAt(s, "scheme")>>,
                                       at |-> <<TextAt(s, "in"), TextAt(s, "name")>>,
                                       flows |-> OfEach(Within(s, "flows"), LAMBDA n, f : <<n, Flow(f)>>)])]

-----------------------------------------------------------------------------
\* Swagger 2.0.  A parameter is its own schema; the body and the members of
\* the form are parameters too.

MediaFor(o, op, k) ==
    CASE HasKey(op, k) -> TextSet(op, k)
      [] ~ HasKey(op, k) /\ TextSet(o, k) # {} -> TextSet(o, k)
      [] OTHER -> {"application/json"}
Input20(p) == [Input(p) EXCEPT !.takes = [Admits(p) EXCEPT !.target = {}]]
InPlaces(items, ins) == SelectSeq(items, LAMBDA p : TextAt(p[2], "in") \in ins)
Inputs20(x) == OfItems(InPlaces(ItemsAt(x, "parameters"), {"", "query", "path", "header"}), Input20)
\* A body, or a form, may be a parameter of the path as well.
Bodies20(o, op, item) ==
    LET params == ItemsAt(op, "parameters") \o ItemsAt(item, "parameters")
        media == MediaFor(o, op, "consumes")
        body == OfItems(InPlaces(params, {"body"}), LAMBDA p : Admits(Within(p, "schema")))
        form == OfItems(InPlaces(params, {"formData"}), LAMBDA p : <<TextAt(p, "name"), Admits(p)>>)
    IN IF form = {} THEN media \X body
       ELSE {<<IF "multipart/form-data" \in media THEN "multipart/form-data"
               ELSE "application/x-www-form-urlencoded", [OfType("object") EXCEPT !.members = form]>>}
Results20(o, r, op) == MediaFor(o, op, "produces") \X SchemaAt(r, "schema")
Login20(name, s) ==
    LET flow == CASE TextAt(s, "flow") = "accessCode"  -> "authorizationCode"
                  [] TextAt(s, "flow") = "application" -> "clientCredentials"
                  [] OTHER -> TextAt(s, "flow")
    IN [name |-> name,
        kind |-> IF TextAt(s, "type") = "basic" THEN <<"http", "basic">> ELSE <<TextAt(s, "type"), "">>,
        at |-> <<TextAt(s, "in"), TextAt(s, "name")>>,
        flows |-> IF HasKey(s, "flow") THEN {<<flow, Flow(s)>>} ELSE {}]
Servers20Of(o) ==
    {s \o "://" \o TextAt(o, "host") \o TextAt(o, "basePath") :
        s \in IF HasKey(o, "schemes") THEN TextSet(o, "schemes") ELSE {"https"}}
Offer20(o) ==
    [title   |-> TextAt(Within(o, "info"), "title"),
     servers |-> CASE HasKey(o, "host")     -> Servers20Of(o)
                   [] ~ HasKey(o, "host") -> {TextAt(o, "basePath")} \ {""},
     calls   |-> CallsOf(Within(o, "paths"), Inputs20, LAMBDA op, item : Bodies20(o, op, item),
                         LAMBDA r, op : Results20(o, r, op)),
     schemas |-> OfEach(Within(o, "definitions"), LAMBDA k, s : <<k, Admits(s)>>),
     logins  |-> OfEach(Within(o, "securityDefinitions"), Login20)]

-----------------------------------------------------------------------------
\* Swagger 1.2, as far as it is kept: its calls by path, verb and name.

Call12(path, op) ==
    [path |-> path, verb |-> CHOOSE v \in Verbs : <<v, TextAt(op, "method")>> \in
                                {<<"get", "GET">>, <<"post", "POST">>, <<"delete", "DELETE">>, <<"put", "PUT">>},
     id |-> TextAt(op, "nickname")]
Names(calls) == {[path |-> c.path, verb |-> c.verb, id |-> c.id] : c \in calls}
Calls12(o) == UNION {OfItems(ItemsAt(a[2], "operations"), LAMBDA op : Call12(TextAt(a[2], "path"), op)) :
                     a \in ToSet(ItemsAt(o, "apis"))}

-----------------------------------------------------------------------------
\* Discovery.

\* Templates, and the paths they are: an operator of RFC 6570 belongs to the
\* expansion, the slash of one to the path.
Templates == [t \in {"v1/pets", "v1/{+name}", "/v1/{id}", "v1{/id}", "v1/{/id}"} |->
                CASE t = "v1/pets" -> "/v1/pets" [] t = "v1/{+name}" -> "/v1/{name}" [] OTHER -> "/v1/{id}"]
VerbsOf == [GET |-> "get", POST |-> "post", PUT |-> "put", DELETE |-> "delete", PATCH |-> "patch",
            HEAD |-> "head", OPTIONS |-> "options"]
DInput(name, p) ==
    LET kind == IF TextAt(p, "type") \in {"", "any"} THEN "string" ELSE TextAt(p, "type")
        one == [OfType(kind) EXCEPT !.low = DEnd(p, "minimum"), !.high = DEnd(p, "maximum"),
                                    !.values = TextSet(p, "enum")]
        place == IF StringAt(p, "location") THEN TextAt(p, "location") ELSE "query"
    IN [target |-> {}, name |-> name, in |-> place,
        needed |-> IF HasKey(p, "required") THEN IsTrueAt(p, "required") ELSE place = "path",
        takes |-> IF IsTrueAt(p, "repeated") THEN [OfType("array") EXCEPT !.items = {one}] ELSE one]
DBodies(m) ==
    LET json == {Referring(TextAt(r, "$ref")) : r \in {x \in {Within(m, "request")} : HasKey(x, "$ref")}}
        parts == {<<"metadata", s>> : s \in json} \cup {<<"media", OfType("string")>>}
        binary == {"application/octet-stream"} \cup TextSet(Within(m, "mediaUpload"), "accept")
    IN ({"application/json"} \X json)
         \cup IF HasKey(m, "mediaUpload") \/ IsTrueAt(m, "supportsMediaUpload")
              THEN (binary \X {OfType("string")})
                     \cup {<<"multipart/related", [OfType("object") EXCEPT !.members = parts]>>}
              ELSE {}
DResults(m) ==
    {<<"application/json", Referring(TextAt(r, "$ref"))>> :
        r \in {x \in {Within(m, "response")} : HasKey(x, "$ref")}}
      \cup {<<"application/octet-stream", OfType("string")>> :
            x \in {y \in {m} : IsTrueAt(y, "supportsMediaDownload")}}
DCall(key, m) ==
    [path |-> Templates[IF HasKey(m, "flatPath") THEN TextAt(m, "flatPath") ELSE TextAt(m, "path")],
     verb |-> VerbsOf[TextAt(m, "httpMethod")],
     id |-> IF HasKey(m, "id") THEN TextAt(m, "id") ELSE key,
     inputs |-> OfEach(Within(m, "parameters"), DInput),
     bodies |-> DBodies(m), results |-> {<<"200", {}, DResults(m)>>},
     scopes |-> IF TextSet(m, "scopes") = {} THEN {} ELSE {<<"Oauth2", TextSet(m, "scopes")>>}]
RECURSIVE DCalls(_)
DCalls(o) == OfEach(Within(o, "methods"), DCall)
               \cup UNION OfEach(Within(o, "resources"), LAMBDA k, r : DCalls(r))

\* Google's own addresses of logging in.
GoogleLogin(scopes) ==
    LET At(token) == [login |-> "https://accounts.google.com/o/oauth2/auth", token |-> token, scopes |-> scopes]
    IN [name |-> "Oauth2", kind |-> <<"oauth2", "">>, at |-> <<"", "">>,
        flows |-> {<<"implicit", At("")>>,
                   <<"authorizationCode", At("https://oauth2.googleapis.com/token")>>}]
OfferDiscovery(o) ==
    LET scopes == Keys(Within(Within(Within(o, "auth"), "oauth2"), "scopes"))
    IN [title   |-> IF HasKey(o, "title") THEN TextAt(o, "title") ELSE TextAt(o, "name"),
        servers |-> CASE HasKey(o, "rootUrl") -> {"https://a/v1/"}
                      [] HasKey(o, "baseUrl") -> {TextAt(o, "baseUrl")}
                      [] OTHER -> {},
        calls   |-> DCalls(o),
        schemas |-> OfEach(Within(o, "schemas"), LAMBDA k, s : <<k, DAdmits(s)>>),
        logins  |-> IF scopes = {} THEN {} ELSE {GoogleLogin(scopes)}]

\* An entry of a list of APIs has a title and an address, and no more.
OffersListed(o) ==
    {[title |-> TextAt(i[2], "title"), servers |-> {TextAt(i[2], "discoveryRestUrl")},
      calls |-> {}, schemas |-> {}, logins |-> {}] : i \in ToSet(ItemsAt(o, "items"))}

-----------------------------------------------------------------------------
\* What becomes of an offer.

Is12(o) == HasKey(o, "swaggerVersion") \/ TextAt(o, "swagger") \in {"1.0", "1.1", "1.2"}
Is20(o) == TextAt(o, "swagger") = "2.0"

\* The text t of OpenAPI 3.2 offers what the document o does.
Keeps(o, t) ==
    CASE Is12(o)               -> Names(Offer3(t).calls) = Calls12(o)
      [] Is20(o)               -> Offer3(t) = Offer20(o)
      [] HasKey(o, "openapi")  -> Offer3(t) = Offer3(o)
      [] HasKey(o, "items")    -> Offer3(t) \in OffersListed(o)
      [] OTHER                 -> Offer3(t) = OfferDiscovery(o)

\* What the code is known to lose: a flag that excludes a bound, or does not;
\* the schemas of the places of a tuple; a body that all operations of a path
\* have; a base path without a host; one of two methods with one path and verb.
RECURSIVE ObjectsIn(_)
ObjectsIn(v) ==
    CASE Is(v, "array")  -> UNION {ObjectsIn(v[2][i]) : i \in DOMAIN v[2]}
      [] Is(v, "object") -> {v[2]} \cup UNION {ObjectsIn(v[2][i][2]) : i \in DOMAIN v[2]}
      [] OTHER           -> {}
LosesBound(o) == \E x \in ObjectsIn(Obj(o)), k \in {"exclusiveMinimum", "exclusiveMaximum"} :
                     ValueAt(x, k) = Bool(Is20(o))
LosesPlaces(o) == Is20(o) /\ \E x \in ObjectsIn(Obj(o)) : IsAt(x, "items", "array")
LosesBody(o) == Is20(o) /\ \E p \in ToSet(Within(o, "paths")) :
                               InPlaces(ItemsAt(p[2][2], "parameters"), {"body", "formData"}) # <<>>
LosesServer(o) == Is20(o) /\ ~ HasKey(o, "host") /\ HasKey(o, "basePath")
LosesCall(o) == \E c, d \in DCalls(o) : c # d /\ c.path = d.path /\ c.verb = d.verb
IsKept(o) == ~ (LosesBound(o) \/ LosesPlaces(o) \/ LosesBody(o) \/ LosesServer(o) \/ LosesCall(o))
===============================================================================
