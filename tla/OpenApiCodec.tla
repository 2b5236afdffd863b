----------------------------- MODULE OpenApiCodec -----------------------------
(***************************************************************************)
(* The OpenAPI document: the structs of openapi/models.hpp and the tables  *)
(* of openapi/parse.cpp and openapi/emit.cpp.  No parser here refuses an   *)
(* object: what is missing or of the wrong kind is left out.               *)
(***************************************************************************)
EXTENDS Codec

Text(keys) == Each(keys, String)
Word(keys) == Each(keys, Default(String))
May(keys)  == Each(keys, Opt(String))
Flag(keys) == Each(keys, Opt(Boolean))
Yes(keys)  == Each(keys, Boolean)
No(keys)   == Each(keys, Default(Boolean))
IfYes(keys) == Each(keys, IfTrue)
Words(keys) == Each(keys, Opt(Strings))
Limits(keys) == Each(keys, Opt(Double))
Counts(keys) == Each(keys, Opt(Count))
Inner(keys, T)   == Each(keys, Opt(Struct(T)))
Mapped(keys, T)  == Each(keys, Opt(MapOf(T)))
List(keys, T)    == Each(keys, Opt(Tuple(T)))
Unparsed(members) == Each(members, Opt(Json))
X        == One("extensions", "", Extensions)
Ref      == One("ref", "$ref", Opt(SameObject("Reference")))
HasRef   == One("ref", "$ref", Opt(Struct("Reference")))
WriteRef == One("ref", "$ref", IfReference)
Security == Each(<<"security">>, Opt(Scopes))
Callbacks == Each(<<"callbacks">>, Opt(MapOfMaps("PathItem")))

-----------------------------------------------------------------------------
\* Structs.

Reference == [Reference |-> Text(<<"ref">>) \o May(<<"summary", "description">>)]
Contact   == [Contact |-> May(<<"name", "url", "email">>) \o X]
License   == [License |-> Text(<<"name">>) \o May(<<"identifier", "url">>) \o X]
Info ==
    [Info |-> Text(<<"title", "version">>) \o May(<<"summary", "description", "termsOfService">>)
                \o Inner(<<"contact">>, "Contact") \o Inner(<<"license">>, "License") \o X]
ServerVariable ==
    [ServerVariable |-> Words(<<"enum_values">>) \o Text(<<"default_value">>) \o May(<<"description">>) \o X]
Server ==
    [Server |-> Text(<<"url">>) \o May(<<"description", "name">>)
                  \o Mapped(<<"variables">>, "ServerVariable") \o X]
ExternalDocumentation == [ExternalDocumentation |-> May(<<"description">>) \o Text(<<"url">>) \o X]
Tag ==
    [Tag |-> Text(<<"name">>) \o May(<<"summary", "description", "parent", "kind">>)
               \o Inner(<<"externalDocs">>, "ExternalDocumentation") \o X]
Discriminator ==
    [Discriminator |-> Text(<<"propertyName">>) \o Each(<<"mapping">>, Opt(StringMap))
                         \o May(<<"defaultMapping">>) \o X]
XML ==
    [XML |-> May(<<"nodeType", "name", "namespace_url", "prefix">>) \o Flag(<<"attribute", "wrapped">>) \o X]
Schema ==
    [Schema |->
        May(<<"type", "description", "format", "schema_dialect", "id", "anchor", "dynamicAnchor",
              "dynamicRef", "comment", "title", "default_value", "const_value", "pattern">>)
          \o Words(<<"types", "examples", "enum_values", "required">>) \o HasRef
          \o Inner(<<"discriminator">>, "Discriminator") \o Inner(<<"xml">>, "XML")
          \o Mapped(<<"properties", "defs">>, "Schema")
          \o Inner(<<"items", "not_schema", "additionalProperties">>, "Schema")
          \o List(<<"allOf", "anyOf", "oneOf", "prefixItems">>, "Schema")
          \o Flag(<<"deprecated", "readOnly", "writeOnly", "uniqueItems", "additionalPropertiesBool">>)
          \o Limits(<<"multipleOf", "maximum", "exclusiveMaximum", "minimum", "exclusiveMinimum">>)
          \o Counts(<<"maxLength", "minLength", "maxItems", "minItems", "maxContains", "minContains",
                      "maxProperties", "minProperties">>)
          \o Unparsed(<<"externalDocs", "example", "boolean_schema", "dependentRequired", "if_schema",
                        "then_schema", "else_schema", "contains", "patternProperties", "propertyNames",
                        "unevaluatedItems", "unevaluatedItemsBool", "unevaluatedProperties",
                        "unevaluatedPropertiesBool">>)
          \o X]
Example ==
    [Example |-> May(<<"summary", "description", "serializedValue", "value", "externalValue">>)
                   \o Each(<<"dataValue">>, Opt(Json)) \o HasRef \o Unparsed(<<"typed_value">>) \o X]
Encoding ==
    [Encoding |->
        May(<<"contentType", "style">>) \o Flag(<<"explode", "allowReserved">>)
          \o Mapped(<<"headers">>, "Header") \o Mapped(<<"encoding">>, "Encoding")
          \o Inner(<<"itemSchema">>, "Schema") \o List(<<"prefixEncoding">>, "Encoding")
          \o Inner(<<"itemEncoding">>, "Encoding") \o X]
MediaType ==
    [MediaType |->
        Inner(<<"schema", "itemSchema">>, "Schema") \o May(<<"example">>) \o Mapped(<<"examples">>, "Example")
          \o Mapped(<<"encoding">>, "Encoding") \o List(<<"prefixEncoding">>, "Encoding")
          \o Inner(<<"itemEncoding">>, "Encoding") \o X]
Shown ==
    May(<<"description", "style", "example">>) \o Yes(<<"required", "deprecated", "allowEmptyValue">>)
      \o Flag(<<"explode", "allowReserved">>) \o Inner(<<"schema">>, "Schema")
      \o Mapped(<<"examples">>, "Example") \o Mapped(<<"content">>, "MediaType") \o HasRef \o X
Header == [Header |-> Shown]
RequestBody ==
    [RequestBody |-> May(<<"description">>) \o Each(<<"content">>, MapOf("MediaType"))
                       \o Yes(<<"required">>) \o HasRef \o X]
Link ==
    [Link |-> May(<<"operationRef", "operationId", "requestBody", "description">>)
                \o Each(<<"parameters">>, Opt(StringMap)) \o Inner(<<"server">>, "Server") \o HasRef \o X]
Response ==
    [Response |-> Text(<<"description">>) \o Mapped(<<"headers">>, "Header")
                    \o Mapped(<<"content">>, "MediaType") \o Mapped(<<"links">>, "Link") \o HasRef \o X]
Parameter == [Parameter |-> Text(<<"name", "in">>) \o Shown]
OAuthFlow ==
    [OAuthFlow |-> May(<<"authorizationUrl", "tokenUrl", "refreshUrl", "deviceAuthorizationUrl">>)
                     \o Each(<<"scopes">>, Opt(StringMap)) \o X]
OAuthFlows ==
    [OAuthFlows |-> Inner(<<"implicit", "password", "clientCredentials", "authorizationCode",
                            "deviceAuthorization">>, "OAuthFlow") \o X]
SecurityScheme ==
    [SecurityScheme |->
        Text(<<"type">>) \o May(<<"description", "name", "in", "scheme", "bearerFormat",
                                  "openIdConnectUrl", "oauth2MetadataUrl">>)
          \o Inner(<<"flows">>, "OAuthFlows") \o Flag(<<"deprecated">>) \o HasRef \o X]
Operation ==
    [Operation |->
        Words(<<"tags">>) \o May(<<"summary", "description", "operationId">>)
          \o Inner(<<"externalDocs">>, "ExternalDocumentation") \o List(<<"parameters">>, "Parameter")
          \o Inner(<<"requestBody">>, "RequestBody") \o Mapped(<<"responses">>, "Response") \o Callbacks
          \o Yes(<<"deprecated">>) \o Security \o List(<<"servers">>, "Server") \o X]
PathItem ==
    [PathItem |->
        May(<<"ref", "summary", "description">>)
          \o Inner(<<"get", "put", "post", "delete_op", "options", "head", "patch", "trace", "query">>,
                   "Operation")
          \o Mapped(<<"additionalOperations">>, "Operation") \o List(<<"servers">>, "Server")
          \o List(<<"parameters">>, "Parameter") \o X]
Components ==
    [Components |->
        Mapped(<<"schemas">>, "Schema") \o Mapped(<<"responses">>, "Response")
          \o Mapped(<<"parameters">>, "Parameter") \o Mapped(<<"examples">>, "Example")
          \o Mapped(<<"requestBodies">>, "RequestBody") \o Mapped(<<"headers">>, "Header")
          \o Mapped(<<"securitySchemes">>, "SecurityScheme") \o Mapped(<<"links">>, "Link") \o Callbacks
          \o Mapped(<<"pathItems">>, "PathItem") \o Mapped(<<"mediaTypes">>, "MediaType") \o X]
OpenAPI ==
    [OpenAPI |->
        Text(<<"openapi">>) \o May(<<"self_link", "jsonSchemaDialect">>) \o Each(<<"info">>, Struct("Info"))
          \o List(<<"servers">>, "Server") \o Mapped(<<"paths", "webhooks">>, "PathItem")
          \o Inner(<<"components">>, "Components") \o Security \o List(<<"tags">>, "Tag")
          \o Inner(<<"externalDocs">>, "ExternalDocumentation") \o X]

-----------------------------------------------------------------------------
\* Parsers.

\* Mutant: the summary is taken for the description.
parse_Reference_summary ==
    [Reference |-> One("ref", "$ref", Default(String)) \o May(<<"summary">>)
                     \o One("description", "summary", Opt(String))]
parse_Reference == [Reference |-> One("ref", "$ref", Default(String)) \o May(<<"summary", "description">>)]
parse_Contact   == [Contact |-> May(<<"name", "url", "email">>) \o X]
parse_License   == [License |-> Word(<<"name">>) \o May(<<"identifier", "url">>) \o X]
parse_Info ==
    [Info |-> Word(<<"title">>) \o May(<<"summary", "description", "termsOfService">>)
                \o Inner(<<"contact">>, "Contact") \o Inner(<<"license">>, "License")
                \o Word(<<"version">>) \o X]
parse_ServerVariable ==
    [ServerVariable |-> One("enum_values", "enum", Opt(Strings)) \o One("default_value", "default", Default(String))
                          \o May(<<"description">>) \o X]
parse_Server ==
    [Server |-> Word(<<"url">>) \o May(<<"description", "name">>)
                  \o Mapped(<<"variables">>, "ServerVariable") \o X]
parse_ExternalDocumentation == [ExternalDocumentation |-> May(<<"description">>) \o Word(<<"url">>) \o X]
parse_Tag ==
    [Tag |-> Word(<<"name">>) \o May(<<"summary", "description", "parent", "kind">>)
               \o Inner(<<"externalDocs">>, "ExternalDocumentation") \o X]
parse_Discriminator ==
    [Discriminator |-> Word(<<"propertyName">>) \o Each(<<"mapping">>, Opt(StringMap))
                         \o May(<<"defaultMapping">>) \o X]
parse_XML ==
    [XML |-> May(<<"nodeType", "name">>) \o One("namespace_url", "namespace", Opt(String))
               \o May(<<"prefix">>) \o Flag(<<"attribute", "wrapped">>) \o X]
parse_Schema ==
    [Schema |->
        One("type", "type", Opt(FirstOf)) \o One("types", "type", Opt(Strings))
          \o May(<<"description", "format">>) \o Ref
          \o Inner(<<"discriminator">>, "Discriminator") \o Inner(<<"xml">>, "XML")
          \o Mapped(<<"properties">>, "Schema") \o Inner(<<"items">>, "Schema")
          \o List(<<"allOf", "anyOf", "oneOf">>, "Schema") \o One("not_schema", "not", Opt(Struct("Schema")))
          \o One("schema_dialect", "$schema", Opt(String)) \o One("id", "$id", Opt(String))
          \o One("anchor", "$anchor", Opt(String)) \o One("dynamicAnchor", "$dynamicAnchor", Opt(String))
          \o One("dynamicRef", "$dynamicRef", Opt(String)) \o One("comment", "$comment", Opt(String))
          \o May(<<"title">>) \o Flag(<<"deprecated", "readOnly", "writeOnly">>)
          \o One("defs", "$defs", Opt(MapOf("Schema")))
          \o Limits(<<"multipleOf", "maximum", "exclusiveMaximum", "minimum", "exclusiveMinimum">>)
          \o Counts(<<"maxLength", "minLength", "maxItems", "minItems", "maxContains", "minContains",
                      "maxProperties", "minProperties">>)
          \o May(<<"pattern">>) \o Flag(<<"uniqueItems">>) \o Words(<<"required">>)
          \o One("enum_values", "enum", Opt(Strings)) \o One("const_value", "const", Opt(String))
          \o Words(<<"examples">>) \o One("default_value", "default", Opt(String))
          \o One("additionalPropertiesBool", "additionalProperties", Opt(Boolean))
          \o Inner(<<"additionalProperties">>, "Schema") \o List(<<"prefixItems">>, "Schema") \o X]
parse_Example ==
    [Example |-> May(<<"summary", "description">>) \o Each(<<"dataValue">>, Opt(Json))
                   \o May(<<"serializedValue", "value", "externalValue">>) \o Ref \o X]
parse_Encoding ==
    [Encoding |->
        May(<<"contentType", "style">>) \o Flag(<<"explode", "allowReserved">>)
          \o Mapped(<<"headers">>, "Header") \o Mapped(<<"encoding">>, "Encoding")
          \o Inner(<<"itemSchema">>, "Schema") \o Inner(<<"itemEncoding">>, "Encoding")
          \o List(<<"prefixEncoding">>, "Encoding") \o X]
parse_MediaType ==
    [MediaType |->
        Inner(<<"schema">>, "Schema") \o May(<<"example">>) \o Mapped(<<"examples">>, "Example")
          \o Mapped(<<"encoding">>, "Encoding") \o Inner(<<"itemSchema">>, "Schema")
          \o Inner(<<"itemEncoding">>, "Encoding") \o List(<<"prefixEncoding">>, "Encoding") \o X]
ReadShown ==
    May(<<"description">>) \o No(<<"required", "deprecated", "allowEmptyValue">>) \o May(<<"style">>)
      \o Flag(<<"explode", "allowReserved">>) \o Inner(<<"schema">>, "Schema") \o May(<<"example">>)
      \o Mapped(<<"examples">>, "Example") \o Mapped(<<"content">>, "MediaType") \o Ref \o X
parse_Header == [Header |-> ReadShown]
parse_RequestBody ==
    [RequestBody |-> May(<<"description">>) \o Each(<<"content">>, Default(MapOf("MediaType")))
                       \o No(<<"required">>) \o Ref \o X]
parse_Link ==
    [Link |-> May(<<"operationRef", "operationId">>) \o Each(<<"parameters">>, Opt(StringMap))
                \o May(<<"requestBody", "description">>) \o Inner(<<"server">>, "Server") \o Ref \o X]
parse_Response ==
    [Response |-> Word(<<"description">>) \o Mapped(<<"headers">>, "Header")
                    \o Mapped(<<"content">>, "MediaType") \o Mapped(<<"links">>, "Link") \o Ref \o X]
parse_Parameter == [Parameter |-> Word(<<"name", "in">>) \o ReadShown]
parse_OAuthFlow ==
    [OAuthFlow |-> May(<<"authorizationUrl", "tokenUrl", "refreshUrl", "deviceAuthorizationUrl">>)
                     \o Each(<<"scopes">>, Opt(StringMap)) \o X]
parse_OAuthFlows ==
    [OAuthFlows |-> Inner(<<"implicit", "password", "clientCredentials", "authorizationCode",
                            "deviceAuthorization">>, "OAuthFlow") \o X]
parse_SecurityScheme ==
    [SecurityScheme |->
        Word(<<"type">>) \o May(<<"description", "name", "in", "scheme", "bearerFormat">>)
          \o Inner(<<"flows">>, "OAuthFlows") \o May(<<"openIdConnectUrl", "oauth2MetadataUrl">>)
          \o Flag(<<"deprecated">>) \o Ref \o X]
parse_Operation ==
    [Operation |->
        Words(<<"tags">>) \o May(<<"summary", "description">>)
          \o Inner(<<"externalDocs">>, "ExternalDocumentation") \o May(<<"operationId">>)
          \o List(<<"parameters">>, "Parameter") \o Inner(<<"requestBody">>, "RequestBody")
          \o Mapped(<<"responses">>, "Response") \o Callbacks \o No(<<"deprecated">>) \o Security
          \o List(<<"servers">>, "Server") \o X]
parse_PathItem ==
    [PathItem |->
        One("ref", "$ref", Opt(String)) \o May(<<"summary", "description">>)
          \o Inner(<<"get", "put", "post">>, "Operation") \o One("delete_op", "delete", Opt(Struct("Operation")))
          \o Inner(<<"options", "head", "patch", "trace", "query">>, "Operation")
          \o List(<<"servers">>, "Server") \o List(<<"parameters">>, "Parameter")
          \o Mapped(<<"additionalOperations">>, "Operation") \o X]
parse_Components ==
    [Components |->
        Mapped(<<"schemas">>, "Schema") \o Mapped(<<"responses">>, "Response")
          \o Mapped(<<"parameters">>, "Parameter") \o Mapped(<<"examples">>, "Example")
          \o Mapped(<<"requestBodies">>, "RequestBody") \o Mapped(<<"headers">>, "Header")
          \o Mapped(<<"securitySchemes">>, "SecurityScheme") \o Mapped(<<"links">>, "Link") \o Callbacks
          \o Mapped(<<"pathItems">>, "PathItem") \o Mapped(<<"mediaTypes">>, "MediaType") \o X]
parse_OpenAPI ==
    [OpenAPI |->
        Word(<<"openapi">>) \o One("self_link", "$self", Opt(String)) \o Each(<<"info">>, Default(Struct("Info")))
          \o May(<<"jsonSchemaDialect">>) \o List(<<"servers">>, "Server")
          \o Mapped(<<"paths", "webhooks">>, "PathItem") \o Inner(<<"components">>, "Components") \o Security
          \o List(<<"tags">>, "Tag") \o Inner(<<"externalDocs">>, "ExternalDocumentation") \o X]

-----------------------------------------------------------------------------
\* Emitters.

emit_Reference == [Reference |-> One("ref", "$ref", String) \o May(<<"summary", "description">>)]
\* Mutant: two members under each other's keys.
emit_Contact_swapped ==
    [Contact |-> May(<<"name">>) \o One("url", "email", Opt(String)) \o One("email", "url", Opt(String)) \o X]
emit_Contact   == [Contact |-> May(<<"name", "url", "email">>) \o X]
emit_License   == [License |-> Text(<<"name">>) \o May(<<"identifier", "url">>) \o X]
emit_Info ==
    [Info |-> Text(<<"title">>) \o May(<<"summary", "description", "termsOfService">>)
                \o Inner(<<"contact">>, "Contact") \o Inner(<<"license">>, "License")
                \o Text(<<"version">>) \o X]
emit_ServerVariable ==
    [ServerVariable |-> One("enum_values", "enum", Opt(Strings)) \o One("default_value", "default", String)
                          \o May(<<"description">>) \o X]
emit_Server ==
    [Server |-> Text(<<"url">>) \o May(<<"description", "name">>)
                  \o Mapped(<<"variables">>, "ServerVariable") \o X]
emit_ExternalDocumentation == [ExternalDocumentation |-> May(<<"description">>) \o Text(<<"url">>) \o X]
emit_Tag ==
    [Tag |-> Text(<<"name">>) \o May(<<"summary", "description", "parent", "kind">>)
               \o Inner(<<"externalDocs">>, "ExternalDocumentation") \o X]
emit_Discriminator ==
    [Discriminator |-> Text(<<"propertyName">>) \o Each(<<"mapping">>, Opt(StringMap))
                         \o May(<<"defaultMapping">>) \o X]
emit_XML ==
    [XML |-> May(<<"nodeType", "name">>) \o One("namespace_url", "namespace", Opt(String))
               \o May(<<"prefix">>) \o Flag(<<"attribute", "wrapped">>) \o X]
emit_Schema ==
    [Schema |->
        One("types", "type", Opt(Strings)) \o One("type", "type", Unless("types", String))
          \o May(<<"description", "format">>) \o WriteRef
          \o Inner(<<"discriminator">>, "Discriminator") \o Inner(<<"xml">>, "XML")
          \o Mapped(<<"properties">>, "Schema") \o Inner(<<"items">>, "Schema")
          \o List(<<"prefixItems", "allOf", "anyOf", "oneOf">>, "Schema")
          \o One("not_schema", "not", Opt(Struct("Schema")))
          \o One("schema_dialect", "$schema", Opt(String)) \o One("id", "$id", Opt(String))
          \o One("anchor", "$anchor", Opt(String)) \o One("dynamicAnchor", "$dynamicAnchor", Opt(String))
          \o One("dynamicRef", "$dynamicRef", Opt(String)) \o One("comment", "$comment", Opt(String))
          \o May(<<"title">>) \o Flag(<<"deprecated", "readOnly", "writeOnly">>)
          \o One("defs", "$defs", Opt(MapOf("Schema")))
          \o Limits(<<"multipleOf", "maximum", "exclusiveMaximum", "minimum", "exclusiveMinimum">>)
          \o Counts(<<"maxLength", "minLength", "maxItems", "minItems", "maxContains", "minContains",
                      "maxProperties", "minProperties">>)
          \o May(<<"pattern">>) \o Flag(<<"uniqueItems">>) \o Words(<<"required">>)
          \o One("default_value", "default", Opt(String)) \o One("const_value", "const", Opt(String))
          \o One("enum_values", "enum", Opt(Strings)) \o Words(<<"examples">>)
          \o Inner(<<"additionalProperties">>, "Schema")
          \o One("additionalPropertiesBool", "additionalProperties", Unless("additionalProperties", Boolean))
          \o X]
emit_Example ==
    [Example |-> May(<<"summary", "description">>) \o Each(<<"dataValue">>, Opt(Json))
                   \o May(<<"serializedValue", "value", "externalValue">>) \o WriteRef \o X]
emit_Encoding ==
    [Encoding |->
        May(<<"contentType", "style">>) \o Flag(<<"explode", "allowReserved">>)
          \o Mapped(<<"headers">>, "Header") \o Mapped(<<"encoding">>, "Encoding")
          \o Inner(<<"itemSchema">>, "Schema") \o List(<<"prefixEncoding">>, "Encoding")
          \o Inner(<<"itemEncoding">>, "Encoding") \o X]
emit_MediaType ==
    [MediaType |->
        Inner(<<"schema">>, "Schema") \o May(<<"example">>) \o Mapped(<<"examples">>, "Example")
          \o Mapped(<<"encoding">>, "Encoding") \o Inner(<<"itemSchema">>, "Schema")
          \o List(<<"prefixEncoding">>, "Encoding") \o Inner(<<"itemEncoding">>, "Encoding") \o X]
WriteShown ==
    May(<<"description">>) \o IfYes(<<"required", "deprecated", "allowEmptyValue">>) \o May(<<"style">>)
      \o Flag(<<"explode", "allowReserved">>) \o Inner(<<"schema">>, "Schema") \o May(<<"example">>)
      \o Mapped(<<"examples">>, "Example") \o Mapped(<<"content">>, "MediaType") \o WriteRef \o X
emit_Header == [Header |-> WriteShown]
emit_RequestBody ==
    [RequestBody |-> May(<<"description">>) \o Each(<<"content">>, IfAny(MapOf("MediaType")))
                       \o IfYes(<<"required">>) \o WriteRef \o X]
emit_Link ==
    [Link |-> May(<<"operationRef", "operationId">>) \o Each(<<"parameters">>, Opt(StringMap))
                \o May(<<"requestBody", "description">>) \o Inner(<<"server">>, "Server") \o WriteRef \o X]
emit_Response ==
    [Response |-> Each(<<"description">>, UnlessRef) \o Mapped(<<"headers">>, "Header")
                    \o Mapped(<<"content">>, "MediaType") \o Mapped(<<"links">>, "Link") \o WriteRef \o X]
emit_Parameter == [Parameter |-> Text(<<"name", "in">>) \o WriteShown]
emit_OAuthFlow ==
    [OAuthFlow |-> May(<<"authorizationUrl", "tokenUrl", "refreshUrl", "deviceAuthorizationUrl">>)
                     \o Each(<<"scopes">>, Opt(StringMap)) \o X]
emit_OAuthFlows ==
    [OAuthFlows |-> Inner(<<"implicit", "password", "clientCredentials", "authorizationCode",
                            "deviceAuthorization">>, "OAuthFlow") \o X]
emit_SecurityScheme ==
    [SecurityScheme |->
        Text(<<"type">>) \o May(<<"description", "name", "in", "scheme", "bearerFormat">>)
          \o Inner(<<"flows">>, "OAuthFlows") \o May(<<"openIdConnectUrl", "oauth2MetadataUrl">>)
          \o Flag(<<"deprecated">>) \o WriteRef \o X]
emit_Operation ==
    [Operation |->
        Words(<<"tags">>) \o May(<<"summary", "description">>)
          \o Inner(<<"externalDocs">>, "ExternalDocumentation") \o May(<<"operationId">>)
          \o List(<<"parameters">>, "Parameter") \o Inner(<<"requestBody">>, "RequestBody")
          \o Mapped(<<"responses">>, "Response") \o Callbacks \o IfYes(<<"deprecated">>) \o Security
          \o List(<<"servers">>, "Server") \o X]
emit_PathItem ==
    [PathItem |->
        One("ref", "$ref", Opt(String)) \o May(<<"summary", "description">>)
          \o Inner(<<"get", "put", "post">>, "Operation") \o One("delete_op", "delete", Opt(Struct("Operation")))
          \o Inner(<<"options", "head", "patch", "trace", "query">>, "Operation")
          \o List(<<"servers">>, "Server") \o List(<<"parameters">>, "Parameter")
          \o Mapped(<<"additionalOperations">>, "Operation") \o X]
emit_Components ==
    [Components |->
        Mapped(<<"schemas">>, "Schema") \o Mapped(<<"responses">>, "Response")
          \o Mapped(<<"parameters">>, "Parameter") \o Mapped(<<"examples">>, "Example")
          \o Mapped(<<"requestBodies">>, "RequestBody") \o Mapped(<<"headers">>, "Header")
          \o Mapped(<<"securitySchemes">>, "SecurityScheme") \o Mapped(<<"links">>, "Link") \o Callbacks
          \o Mapped(<<"pathItems">>, "PathItem") \o Mapped(<<"mediaTypes">>, "MediaType") \o X]
emit_OpenAPI ==
    [OpenAPI |->
        Text(<<"openapi">>) \o One("self_link", "$self", Opt(String)) \o Each(<<"info">>, Struct("Info"))
          \o May(<<"jsonSchemaDialect">>) \o List(<<"servers">>, "Server")
          \o Mapped(<<"paths", "webhooks">>, "PathItem") \o Inner(<<"components">>, "Components") \o Security
          \o List(<<"tags">>, "Tag") \o Inner(<<"externalDocs">>, "ExternalDocumentation") \o X]

-----------------------------------------------------------------------------
\* The whole document.  Elements and members of maps are parsed as objects
\* without a look at what they are.

Structs ==
    Reference @@ Contact @@ License @@ Info @@ ServerVariable @@ Server
       @@ ExternalDocumentation @@ Tag @@ Discriminator @@ XML @@ Schema @@ Example
       @@ Encoding @@ MediaType @@ Header @@ RequestBody @@ Link @@ Response
       @@ Parameter @@ OAuthFlow @@ OAuthFlows @@ SecurityScheme @@ Operation
       @@ PathItem @@ Components @@ OpenAPI
Parsers ==
    parse_Reference @@ parse_Contact @@ parse_License @@ parse_Info
       @@ parse_ServerVariable @@ parse_Server @@ parse_ExternalDocumentation
       @@ parse_Tag @@ parse_Discriminator @@ parse_XML @@ parse_Schema @@ parse_Example
       @@ parse_Encoding @@ parse_MediaType @@ parse_Header @@ parse_RequestBody
       @@ parse_Link @@ parse_Response @@ parse_Parameter @@ parse_OAuthFlow
       @@ parse_OAuthFlows @@ parse_SecurityScheme @@ parse_Operation @@ parse_PathItem
       @@ parse_Components @@ parse_OpenAPI
Emitters ==
    emit_Reference @@ emit_Contact @@ emit_License @@ emit_Info @@ emit_ServerVariable
       @@ emit_Server @@ emit_ExternalDocumentation @@ emit_Tag @@ emit_Discriminator
       @@ emit_XML @@ emit_Schema @@ emit_Example @@ emit_Encoding @@ emit_MediaType
       @@ emit_Header @@ emit_RequestBody @@ emit_Link @@ emit_Response
       @@ emit_Parameter @@ emit_OAuthFlow @@ emit_OAuthFlows @@ emit_SecurityScheme
       @@ emit_Operation @@ emit_PathItem @@ emit_Components @@ emit_OpenAPI
OpenApi == [structs |-> Structs, parsers |-> Parsers, emitters |-> Emitters,
        unwrapped |-> DOMAIN Structs, ondemand |-> FALSE, roots |-> DOMAIN Structs,
        variants |-> <<>>]
===============================================================================
