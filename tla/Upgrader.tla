------------------------------- MODULE Upgrader -------------------------------
(***************************************************************************)
(* openapi/upgraders/upgrader.cpp: how documents of Swagger 1.2 and 2.0    *)
(* and of OpenAPI 3.0 and 3.1 become a text of OpenAPI 3.2, which is what  *)
(* the parser of OpenApiCodec reads.  A document is an object, a sequence  *)
(* of <<key, value>>, and is valid in its version where the code takes an  *)
(* element for an object or an array without a look at what it is.         *)
(***************************************************************************)
EXTENDS Codec

kSwaggerParamSchemaKeys ==
    {"type", "format", "items", "default", "maximum", "exclusiveMaximum", "minimum",
     "exclusiveMinimum", "maxLength", "minLength", "pattern", "maxItems", "minItems",
     "uniqueItems", "enum", "multipleOf"}
kTopLevelCopyKeys == {"tags", "externalDocs", "security"}
kSwagger1Versions == {"1.2", "1.1", "1.0"}

\* What Written writes for each member of an object, in its order.
ForEach(o, Written_(_, _)) == FlattenSeq([i \in DOMAIN o |-> Written_(o[i][1], o[i][2])])
ForEachIn(items, Written_(_)) == FlattenSeq([i \in DOMAIN items |-> Written_(items[i])])
OnlyKeys(o, Taken(_)) == SelectSeq(o, LAMBDA p : Taken(p[1]))
TextsAt(o, k) == [i \in DOMAIN ItemsAt(o, k) |-> StringIn(ItemsAt(o, k)[i])]

-----------------------------------------------------------------------------
\* OpenAPI 3.0 and 3.1.

extract_numeric_bound(schema, key) ==
    LET v == ValueAt(schema, key)
    IN CASE v[1] \in {"int", "double"} -> v[2]
         [] v[1] = "uint"              -> BeyondInt64
         [] OTHER                      -> 0

RECURSIVE process_schema_3_0(_), process_element_3_0(_)

\* Mutant: the bound of the one end is written as that of the other.
SchemaFieldEnds(schema, k, v) ==
    CASE k = "exclusiveMinimum" -> Entry(k, Real(extract_numeric_bound(schema, "maximum")))
      [] k = "minimum" /\ IsTrueAt(schema, "exclusiveMinimum") -> <<>>
      [] OTHER -> Entry(k, process_element_3_0(v))
\* A bound that excludes itself was a flag beside the bound, and is now the
\* bound.  An array of items was a schema for each place.
SchemaField(schema, k, v) ==
    CASE k = "minimum" /\ IsTrueAt(schema, "exclusiveMinimum") -> <<>>
      [] k = "maximum" /\ IsTrueAt(schema, "exclusiveMaximum") -> <<>>
      [] k = "exclusiveMinimum" -> Entry(k, Real(extract_numeric_bound(schema, "minimum")))
      [] k = "exclusiveMaximum" -> Entry(k, Real(extract_numeric_bound(schema, "maximum")))
      [] k = "items" /\ Is(v, "array") -> Entry("prefixItems", process_element_3_0(v))
      [] OTHER -> Entry(k, process_element_3_0(v))
process_schema_3_0(schema) == ForEach(schema, LAMBDA k, v : SchemaField(schema, k, v))

\* Whatever has a type or properties is taken for a schema.
IsSchema(o) == StringAt(o, "type") \/ HasKey(o, "properties")
process_element_3_0(el) ==
    CASE Is(el, "array") -> Arr([i \in DOMAIN el[2] |-> process_element_3_0(el[2][i])])
      [] Is(el, "object") /\ IsSchema(el[2]) -> Obj(process_schema_3_0(el[2]))
      [] Is(el, "object") /\ ~ IsSchema(el[2]) ->
            Obj(ForEach(el[2], LAMBDA k, v : Entry(k, process_element_3_0(v))))
      [] OTHER -> el

Version == Entry("openapi", Str("3.2.0"))
upgrade_openapi_3(root, current_version) ==
    LET Field(k, v) ==
            CASE k = "openapi" -> <<>>
              [] k # "openapi" /\ StartsWith(current_version, "3.0") -> Entry(k, process_element_3_0(v))
              [] OTHER -> Entry(k, v)
    IN Version \o ForEach(root, Field)

-----------------------------------------------------------------------------
\* Swagger 1.2.  Of an operation only its method and its nickname are kept.

LowerCase(method) ==
    CASE method = "GET" -> "get" [] method = "POST" -> "post" [] method = "PUT" -> "put"
      [] method = "DELETE" -> "delete" [] OTHER -> method
Title12(root) ==
    IF StringAt(Within(root, "info"), "title") THEN TextAt(Within(root, "info"), "title")
    ELSE "Upgraded from 1.2"
Description12(root) ==
    IF StringAt(Within(root, "info"), "description")
    THEN Entry("description", ValueAt(Within(root, "info"), "description")) ELSE <<>>
Operation12(op) ==
    Entry(LowerCase(TextAt(op, "method")),
          Obj((IF StringAt(op, "nickname") THEN Entry("operationId", ValueAt(op, "nickname")) ELSE <<>>)
              \o Entry("responses",
                       Obj(Entry("200", Obj(Entry("description", Str("Success"))))))))
Api12(api) ==
    Entry(TextAt(api, "path"), Obj(ForEachIn(ItemsAt(api, "operations"), LAMBDA op : Operation12(op[2]))))
upgrade_swagger_1_2(root) ==
    Version
      \o Entry("info", Obj(Entry("title", Str(Title12(root))) \o Description12(root)
                             \o Entry("version", Str("1.0.0"))))
      \o Entry("paths", Obj(ForEachIn(ItemsAt(root, "apis"), LAMBDA api : Api12(api[2]))))

-----------------------------------------------------------------------------
\* Swagger 2.0.

Copied20(root) ==
    (IF HasKey(root, "info") THEN Entry("info", ValueAt(root, "info")) ELSE <<>>)
      \o OnlyKeys(root, LAMBDA k : k \in kTopLevelCopyKeys \/ StartsWith(k, "x-"))

\* A server for each scheme; without a host there is none, whatever the base path.
Servers20(root) ==
    LET host    == TextAt(root, "host")
        schemes == IF ItemsAt(root, "schemes") = <<>> THEN <<"https">> ELSE TextsAt(root, "schemes")
        Server_(s) == Obj(Entry("url", Str(s \o "://" \o host \o TextAt(root, "basePath"))))
    IN IF host = "" THEN <<>>
       ELSE Entry("servers", Arr([i \in DOMAIN schemes |-> Server_(schemes[i])]))

\* The media types of the document, and those of an operation, which may be none.
GlobalMedia(root, k) ==
    IF ItemsAt(root, k) = <<>> THEN <<"application/json">> ELSE TextsAt(root, k)
LocalMedia(root, op, k) ==
    IF IsAt(op, k, "array") THEN TextsAt(op, k) ELSE GlobalMedia(root, k)

\* process_parameters: what is written, the schema of the last body (Absent if
\* there is none), and the members of the form.
ParameterMembers(p) ==
    LET InSchema(k) == k \in kSwaggerParamSchemaKeys
    IN OnlyKeys(p, LAMBDA k : ~ InSchema(k) /\ k # "collectionFormat")
         \o Entry("schema", Obj(OnlyKeys(p, InSchema)))
ParametersIn(items, ins) == SelectSeq(items, LAMBDA p : TextAt(p[2], "in") \in ins)
process_parameters(items) ==
    LET kept   == SelectSeq(items, LAMBDA p : TextAt(p[2], "in") \notin {"body", "formData"})
        bodies == ParametersIn(items, {"body"})
        New_(p) == IF HasKey(p[2], "in") THEN Obj(ParameterMembers(p[2])) ELSE p
    IN [written |-> Entry("parameters", Arr([i \in DOMAIN kept |-> New_(kept[i])])),
        body    |-> IF bodies = <<>> THEN Absent ELSE ValueAt(Last(bodies)[2], "schema"),
        form    |-> ParametersIn(items, {"formData"})]

\* The same schema under each of the media types.
Contents(media, schema) ==
    Entry("content", Obj([i \in DOMAIN media |-> <<media[i], Obj(Entry("schema", schema))>>]))
Response20(media, r) ==
    Obj(ForEach(r, LAMBDA k, v : IF k = "schema" THEN Contents(media, v) ELSE Entry(k, v)))
Responses20(media, o) ==
    Entry("responses", Obj(ForEach(o, LAMBDA code, r : Entry(code, Response20(media, r[2])))))

FormMember(p) ==
    Entry(TextAt(p, "name"), Obj(OnlyKeys(p, LAMBDA k : k \notin {"name", "in", "required"})))
FormSchema(form) ==
    Obj(Entry("type", Str("object"))
          \o Entry("properties", Obj(ForEachIn(form, LAMBDA p : FormMember(p[2])))))
FormMedia(media) ==
    IF "multipart/form-data" \in ToSet(media) THEN "multipart/form-data"
    ELSE "application/x-www-form-urlencoded"
RequestBody20(media, params) ==
    CASE params.body # Absent -> Entry("requestBody", Obj(Contents(media, params.body)))
      [] params.body = Absent /\ params.form # <<>> ->
            Entry("requestBody", Obj(Contents(<<FormMedia(media)>>, FormSchema(params.form))))
      [] OTHER -> <<>>

Operation20(root, op) ==
    LET params == process_parameters(ItemsAt(op, "parameters"))
        Field(k, v) ==
            CASE k \in {"consumes", "produces"} -> <<>>
              [] k = "parameters" -> params.written
              [] k = "responses"  -> Responses20(LocalMedia(root, op, "produces"), v[2])
              [] OTHER            -> Entry(k, v)
    IN Obj(ForEach(op, Field) \o RequestBody20(LocalMedia(root, op, "consumes"), params))

\* What process_parameters finds of a body or a form at a path is not used.
PathItem20(root, item) ==
    LET Field(k, v) ==
            CASE k = "parameters" -> process_parameters(v[2]).written
              [] StartsWith(k, "x-") \/ k = "$ref" -> Entry(k, v)
              [] OTHER -> Entry(k, Operation20(root, v[2]))
    IN Obj(ForEach(item, Field))
Paths20(root) ==
    IF ~ IsAt(root, "paths", "object") THEN <<>>
    ELSE Entry("paths", Obj(ForEach(Within(root, "paths"), LAMBDA p, v : Entry(p, PathItem20(root, v[2])))))

FlowName(flow) ==
    CASE flow = "accessCode"  -> "authorizationCode"
      [] flow = "application" -> "clientCredentials"
      [] OTHER                -> flow
SecurityScheme20(s) ==
    CASE TextAt(s, "type") = "basic" -> Obj(Entry("type", Str("http")) \o Entry("scheme", Str("basic")))
      [] TextAt(s, "type") = "oauth2" ->
            Obj(Entry("type", Str("oauth2"))
                  \o Entry("flows", Obj(Entry(FlowName(TextAt(s, "flow")),
                                              Obj(OnlyKeys(s, LAMBDA k : k \notin {"type", "flow"}))))))
      [] OTHER -> Obj(s)

\* Of a parameter that operations share only the schema is kept.
SharedParameter(p) ==
    Obj(Entry("schema", Obj(OnlyKeys(p, LAMBDA k : k \in kSwaggerParamSchemaKeys))))
SharedParameters(root) ==
    IF ~ IsAt(root, "parameters", "object") THEN <<>>
    ELSE Entry("parameters",
               Obj(ForEach(Within(root, "parameters"), LAMBDA k, v : Entry(k, SharedParameter(v[2])))))
Components20(root) ==
    (IF HasKey(root, "definitions") THEN Entry("schemas", ValueAt(root, "definitions")) ELSE <<>>)
      \o SharedParameters(root)
      \o (IF IsAt(root, "responses", "object")
          THEN Responses20(GlobalMedia(root, "produces"), Within(root, "responses")) ELSE <<>>)
      \o (IF IsAt(root, "securityDefinitions", "object")
          THEN Entry("securitySchemes",
                     Obj(ForEach(Within(root, "securityDefinitions"),
                                 LAMBDA k, v : Entry(k, SecurityScheme20(v[2])))))
          ELSE <<>>)

\* replace_all, on the finished text: every string and every key that begins
\* like an old reference, one in a description too.
Moves == << <<"#/definitions/", "#/components/schemas/">>,
            <<"#/parameters/", "#/components/parameters/">>,
            <<"#/responses/", "#/components/responses/">> >>
Moved(s) ==
    LET i == SelectInSeq(Moves, LAMBDA m : StartsWith(s, m[1]))
    IN IF i = 0 THEN s ELSE Moves[i][2] \o SubSeq(s, Len(Moves[i][1]) + 1, Len(s))
RECURSIVE replace_all(_)
replace_all(v) ==
    CASE Is(v, "string") -> Str(Moved(v[2]))
      [] Is(v, "array")  -> Arr([i \in DOMAIN v[2] |-> replace_all(v[2][i])])
      [] Is(v, "object") -> Obj([i \in DOMAIN v[2] |-> <<Moved(v[2][i][1]), replace_all(v[2][i][2])>>])
      [] OTHER           -> v

upgrade_swagger_2_0(root) ==
    replace_all(Obj(Version \o Copied20(root) \o Servers20(root) \o Paths20(root)
                      \o Entry("components", Obj(Components20(root)))))[2]

-----------------------------------------------------------------------------
\* upgrade_to_latest: which version a document has.  The keys that tell are
\* asked for in this order.

OfSwagger(root, v) ==
    CASE v \in kSwagger1Versions -> Ok(upgrade_swagger_1_2(root))
      [] v = "2.0"               -> Ok(upgrade_swagger_2_0(root))
      [] OTHER                   -> Failed
OfOpenApi(root, v) ==
    CASE StartsWith(v, "3.0") \/ StartsWith(v, "3.1") -> Ok(upgrade_openapi_3(root, v))
      [] StartsWith(v, "3.2") -> Ok(root)
      [] OTHER                -> Failed
upgrade_to_latest(doc) ==
    CASE ~ Is(doc, "object") -> Failed
      [] Is(doc, "object") /\ HasKey(doc[2], "swagger") ->
            IF StringAt(doc[2], "swagger") THEN OfSwagger(doc[2], TextAt(doc[2], "swagger")) ELSE Failed
      [] Is(doc, "object") /\ ~ HasKey(doc[2], "swagger") /\ HasKey(doc[2], "openapi") ->
            IF StringAt(doc[2], "openapi") THEN OfOpenApi(doc[2], TextAt(doc[2], "openapi")) ELSE Failed
      [] Is(doc, "object") /\ ~ HasKey(doc[2], "swagger") /\ ~ HasKey(doc[2], "openapi")
           /\ HasKey(doc[2], "swaggerVersion") -> Ok(upgrade_swagger_1_2(doc[2]))
      [] OTHER -> Failed
===============================================================================
