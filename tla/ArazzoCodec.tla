------------------------------ MODULE ArazzoCodec ------------------------------
(***************************************************************************)
(* The Arazzo document: the structs of arazzo/models.hpp and the tables of *)
(* arazzo/parse.cpp and arazzo/emit.cpp.  Unlike the OpenAPI parser this   *)
(* one refuses documents: it checks identifiers, enumerations, runtime     *)
(* expressions and templates, references to components, and the graph of   *)
(* the workflows (module WorkflowCycle follows that search step by step).  *)
(***************************************************************************)
EXTENDS Codec

\* Strings by what the checks of the parser say of them.
Identifiers  == {"a", "b"}        \* is_valid_arazzo_id
Expressions  == {"$url"}          \* parse_runtime_expression
BadTemplates == {"{$"}            \* extract_template_expressions
SourceTypes  == {"openapi", "arazzo"}
Places       == {"path", "query", "header", "cookie"}
CriterionTypes    == {"simple", "regex", "jsonpath", "xpath"}
CriterionVersions == {"draft-goessner-dispatch-jsonpath-00", "rfc9535", "xpath-30", "xpath-20", "xpath-10"}
SuccessTypes == {"end", "goto"}
FailureTypes == {"end", "retry", "goto"}
NotNegative  == 0..BeyondInt64

Text(keys) == Each(keys, String)
Need(keys) == Each(keys, Required(String))
May(keys)  == Each(keys, Opt(String))
Name(key)  == Each(<<key>>, Required(Among(String, Identifiers)))
Type(set)  == Each(<<"type">>, Required(Among(String, set)))
Mapped(keys, T) == Each(keys, Opt(MapOf(T)))
List(keys, T)   == Each(keys, Opt(Tuple(T)))
Outputs    == Each(<<"outputs">>, Opt(StrictMap(Identifiers, BadTemplates)))
X          == One("extensions", "", Opt(ExtensionsIfAny))
WriteX     == One("extensions", "", ExtensionsIfAny)
Parameters     == List(<<"parameters">>, "ParameterOrReusable")
SuccessActions(key) == List(<<key>>, "SuccessActionOrReusable")
FailureActions(key) == List(<<key>>, "FailureActionOrReusable")

-----------------------------------------------------------------------------
\* Structs.

Info == [Info |-> Text(<<"title", "version">>) \o May(<<"summary", "description">>) \o X]
SourceDescription ==
    [SourceDescription |-> Text(<<"name", "url">>) \o Each(<<"type">>, Opt(Among(String, SourceTypes))) \o X]
\* The members of an openapi::Schema that the Arazzo parser or emitter knows.
InputSchema ==
    [InputSchema |-> May(<<"type", "title", "description", "format", "default_value">>)
                       \o Each(<<"required">>, Opt(Strings)) \o Mapped(<<"properties">>, "InputSchema")
                       \o Each(<<"items">>, Opt(Struct("InputSchema")))]
Parameter ==
    [Parameter |-> Text(<<"name">>) \o Each(<<"in">>, Opt(Among(String, Places)))
                     \o Each(<<"value">>, Json) \o X]
Reusable == Text(<<"reference">>) \o Each(<<"value">>, Opt(Json))
ReusableObject ==
    [ReusableParameter |-> Reusable, ReusableSuccessAction |-> Reusable, ReusableFailureAction |-> Reusable]
PayloadReplacement == [PayloadReplacement |-> Text(<<"target">>) \o Each(<<"value">>, Json) \o X]
RequestBody ==
    [RequestBody |-> May(<<"contentType">>) \o Each(<<"payload">>, Opt(Json))
                       \o List(<<"replacements">>, "PayloadReplacement") \o X]
CriterionExpressionType ==
    [CriterionExpressionType |->
        Each(<<"type">>, Among(String, CriterionTypes))
          \o Each(<<"version">>, Among(String, CriterionVersions)) \o X]
Criterion ==
    [Criterion |-> May(<<"context">>) \o Text(<<"condition">>)
                     \o Each(<<"type">>, Opt(StringOr(CriterionTypes, "CriterionExpressionType"))) \o X]
SuccessAction ==
    [SuccessAction |-> Text(<<"name">>) \o Each(<<"type">>, Among(String, SuccessTypes))
                         \o May(<<"workflowId", "stepId">>) \o List(<<"criteria">>, "Criterion") \o X]
FailureAction ==
    [FailureAction |-> Text(<<"name">>) \o Each(<<"type">>, Among(String, FailureTypes))
                         \o May(<<"workflowId", "stepId">>) \o Each(<<"retryAfter">>, Opt(Double))
                         \o Each(<<"retryLimit">>, Opt(Integer)) \o List(<<"criteria">>, "Criterion") \o X]
Step ==
    [Step |-> Text(<<"stepId">>) \o May(<<"description", "operationId", "operationPath", "workflowId">>)
                \o Parameters \o Each(<<"requestBody">>, Opt(Struct("RequestBody")))
                \o List(<<"successCriteria">>, "Criterion") \o SuccessActions("onSuccess")
                \o FailureActions("onFailure") \o Outputs \o X]
Workflow ==
    [Workflow |-> Text(<<"workflowId">>) \o May(<<"summary", "description">>)
                    \o Each(<<"inputs">>, Opt(Struct("InputSchema"))) \o Each(<<"dependsOn">>, Opt(Strings))
                    \o Each(<<"steps">>, Tuple("Step")) \o SuccessActions("successActions")
                    \o FailureActions("failureActions") \o Outputs \o Parameters \o X]
Components ==
    [Components |-> Mapped(<<"inputs">>, "InputSchema") \o Mapped(<<"parameters">>, "Parameter")
                      \o Mapped(<<"successActions">>, "SuccessAction")
                      \o Mapped(<<"failureActions">>, "FailureAction") \o X]
ArazzoDocument ==
    [Arazzo |-> Text(<<"arazzo">>) \o Each(<<"info">>, Struct("Info"))
                  \o Each(<<"sourceDescriptions">>, Tuple("SourceDescription"))
                  \o Each(<<"workflows">>, Tuple("Workflow"))
                  \o Each(<<"components">>, Opt(Struct("Components"))) \o X]

-----------------------------------------------------------------------------
\* Parsers.

ReadTargets(keys, counts) == May(keys) \o HowMany({keys[i] : i \in DOMAIN keys}, counts)
ReadAction(set) ==
    Need(<<"name">>) \o Type(set) \o ReadTargets(<<"workflowId", "stepId">>, {0, 1})

parse_input_schema ==
    [InputSchema |-> May(<<"type", "description", "format", "title">>)
                       \o One("default_value", "default", Opt(String)) \o Each(<<"required">>, Opt(Strings))
                       \o Mapped(<<"properties">>, "InputSchema")
                       \o Each(<<"items">>, Opt(Struct("InputSchema")))]
parse_criterion ==
    [CriterionExpressionType |->
        Type(CriterionTypes) \o Each(<<"version">>, Required(Among(String, CriterionVersions))) \o X,
     Criterion |->
        Need(<<"condition">>) \o Each(<<"context">>, Opt(Among(String, Expressions)))
          \o Each(<<"type">>, Opt(StringOr(CriterionTypes, "CriterionExpressionType"))) \o X]
parse_parameter ==
    [Parameter |-> Need(<<"name">>) \o Each(<<"in">>, Opt(Among(String, Places)))
                     \o Each(<<"value">>, Required(NotAmong(Json, {Str(s) : s \in BadTemplates}))) \o X]
parse_parameters_or_reusables ==
    [ReusableParameter |-> Each(<<"reference">>, Required(Among(String, {"$components.parameters.a"})))
                             \o Each(<<"value">>, Opt(Json))]
parse_success_action ==
    [SuccessAction |-> ReadAction(SuccessTypes) \o List(<<"criteria">>, "Criterion") \o X]
parse_success_actions_or_reusables ==
    [ReusableSuccessAction |->
        Each(<<"reference">>, Required(Among(String, {"$components.successActions.a"})))]
parse_failure_action ==
    [FailureAction |-> ReadAction(FailureTypes) \o Each(<<"retryAfter">>, Opt(Among(Double, NotNegative)))
                         \o Each(<<"retryLimit">>, Opt(Among(Integer, NotNegative)))
                         \o List(<<"criteria">>, "Criterion") \o X]
parse_failure_actions_or_reusables ==
    [ReusableFailureAction |->
        Each(<<"reference">>, Required(Among(String, {"$components.failureActions.a"})))]
parse_step ==
    [PayloadReplacement |-> Need(<<"target">>) \o Each(<<"value">>, Required(Json)) \o X,
     RequestBody |-> May(<<"contentType">>) \o Each(<<"payload">>, Opt(Json))
                       \o List(<<"replacements">>, "PayloadReplacement") \o X,
     Step |->
        Name("stepId") \o May(<<"description">>)
          \o ReadTargets(<<"operationId", "operationPath", "workflowId">>, {1})
          \o Parameters \o Each(<<"requestBody">>, Opt(Struct("RequestBody")))
          \o List(<<"successCriteria">>, "Criterion") \o SuccessActions("onSuccess")
          \o FailureActions("onFailure") \o Outputs \o X]
parse_workflow ==
    [Workflow |->
        Name("workflowId") \o May(<<"summary", "description">>)
          \o Each(<<"inputs">>, Opt(Struct("InputSchema"))) \o Each(<<"dependsOn">>, Opt(Without(Strings, "")))
          \o Each(<<"steps">>, Required(NonEmpty(Distinct(Tuple("Step"), "stepId"))))
          \o SuccessActions("successActions") \o FailureActions("failureActions")
          \o Outputs \o Parameters \o X]
parse_arazzo ==
    [Info |-> Need(<<"title">>) \o May(<<"summary", "description">>)
                \o Each(<<"version">>, DefaultTo(String, "1.0.0")) \o X,
     SourceDescription |->
        Name("name") \o Each(<<"url">>, Default(String))
          \o Each(<<"type">>, Opt(Among(String, SourceTypes))) \o X,
     Components |->
        Mapped(<<"inputs">>, "InputSchema") \o Mapped(<<"parameters">>, "Parameter")
          \o Mapped(<<"successActions">>, "SuccessAction")
          \o Mapped(<<"failureActions">>, "FailureAction") \o X,
     Arazzo |->
        Each(<<"arazzo">>, Required(Among(String, {"1.0.0", "1.0.1", "1.1.0"})))
          \o Each(<<"info">>, Required(Struct("Info")))
          \o Each(<<"sourceDescriptions">>, Required(NonEmpty(Tuple("SourceDescription"))))
          \o Each(<<"components">>, Opt(Struct("Components")))
          \o Each(<<"workflows">>,
                  Required(Acyclic(NonEmpty(Distinct(Tuple("Workflow"), "workflowId")),
                                   "workflowId", "dependsOn"))) \o X]

-----------------------------------------------------------------------------
\* Emitters.

emit_input_schema ==
    [InputSchema |-> May(<<"type", "title", "description", "format">>)
                       \o One("default_value", "default", Opt(String)) \o Each(<<"required">>, Opt(Strings))
                       \o Mapped(<<"properties">>, "InputSchema")
                       \o Each(<<"items">>, Opt(Struct("InputSchema")))]
\* Mutant: the version is not written.
emit_criterion_no_version ==
    [CriterionExpressionType |-> Text(<<"type">>) \o WriteX,
     Criterion |-> May(<<"context">>) \o Text(<<"condition">>)
                     \o Each(<<"type">>, Opt(StringOr(CriterionTypes, "CriterionExpressionType"))) \o WriteX]
emit_criterion ==
    [CriterionExpressionType |-> Text(<<"type", "version">>) \o WriteX,
     Criterion |-> May(<<"context">>) \o Text(<<"condition">>)
                     \o Each(<<"type">>, Opt(StringOr(CriterionTypes, "CriterionExpressionType"))) \o WriteX]
emit_parameter ==
    [Parameter |-> Text(<<"name">>) \o May(<<"in">>) \o Each(<<"value">>, Json) \o WriteX]
emit_parameter_or_reusable ==
    [ReusableParameter |-> Text(<<"reference">>) \o Each(<<"value">>, Opt(Json))]
emit_success_action ==
    [SuccessAction |-> Text(<<"name", "type">>) \o May(<<"workflowId", "stepId">>)
                         \o List(<<"criteria">>, "Criterion") \o WriteX]
emit_success_action_or_reusable == [ReusableSuccessAction |-> Text(<<"reference">>)]
emit_failure_action ==
    [FailureAction |-> Text(<<"name", "type">>) \o May(<<"workflowId", "stepId">>)
                         \o Each(<<"retryAfter">>, Opt(Double)) \o Each(<<"retryLimit">>, Opt(Integer))
                         \o List(<<"criteria">>, "Criterion") \o WriteX]
emit_failure_action_or_reusable == [ReusableFailureAction |-> Text(<<"reference">>)]
emit_step ==
    [PayloadReplacement |-> Text(<<"target">>) \o Each(<<"value">>, Json) \o WriteX,
     RequestBody |-> May(<<"contentType">>) \o Each(<<"payload">>, Opt(Json))
                       \o List(<<"replacements">>, "PayloadReplacement") \o WriteX,
     Step |-> Text(<<"stepId">>) \o May(<<"description", "operationId", "operationPath", "workflowId">>)
                \o Parameters \o Each(<<"requestBody">>, Opt(Struct("RequestBody")))
                \o List(<<"successCriteria">>, "Criterion") \o SuccessActions("onSuccess")
                \o FailureActions("onFailure") \o Each(<<"outputs">>, Opt(StringMap)) \o WriteX]
emit_workflow ==
    [Workflow |-> Text(<<"workflowId">>) \o May(<<"summary", "description">>)
                    \o Each(<<"inputs">>, Opt(Struct("InputSchema"))) \o Each(<<"dependsOn">>, Opt(Strings))
                    \o Each(<<"steps">>, Tuple("Step")) \o SuccessActions("successActions")
                    \o FailureActions("failureActions") \o Each(<<"outputs">>, Opt(StringMap))
                    \o Parameters \o WriteX]
emit_arazzo ==
    [Info |-> Text(<<"title">>) \o May(<<"summary", "description">>) \o Text(<<"version">>) \o WriteX,
     SourceDescription |-> Text(<<"name", "url">>) \o May(<<"type">>) \o WriteX,
     Components |-> Mapped(<<"inputs">>, "InputSchema") \o Mapped(<<"parameters">>, "Parameter")
                      \o Mapped(<<"successActions">>, "SuccessAction")
                      \o Mapped(<<"failureActions">>, "FailureAction") \o WriteX,
     Arazzo |-> Text(<<"arazzo">>) \o Each(<<"info">>, Struct("Info"))
                  \o Each(<<"sourceDescriptions">>, Tuple("SourceDescription"))
                  \o Each(<<"workflows">>, Tuple("Workflow"))
                  \o Each(<<"components">>, Opt(Struct("Components"))) \o WriteX]

-----------------------------------------------------------------------------
Variants ==
    [ParameterOrReusable     |-> <<"reference", "ReusableParameter", "Parameter">>,
     SuccessActionOrReusable |-> <<"reference", "ReusableSuccessAction", "SuccessAction">>,
     FailureActionOrReusable |-> <<"reference", "ReusableFailureAction", "FailureAction">>]
Structs ==
    Info @@ SourceDescription @@ InputSchema @@ Parameter @@ ReusableObject
       @@ PayloadReplacement @@ RequestBody @@ CriterionExpressionType @@ Criterion
       @@ SuccessAction @@ FailureAction @@ Step @@ Workflow @@ Components @@ ArazzoDocument
Parsers ==
    parse_input_schema @@ parse_criterion @@ parse_parameter
       @@ parse_parameters_or_reusables @@ parse_success_action
       @@ parse_success_actions_or_reusables @@ parse_failure_action
       @@ parse_failure_actions_or_reusables @@ parse_step @@ parse_workflow
       @@ parse_arazzo
Emitters ==
    emit_input_schema @@ emit_criterion @@ emit_parameter @@ emit_parameter_or_reusable
       @@ emit_success_action @@ emit_success_action_or_reusable @@ emit_failure_action
       @@ emit_failure_action_or_reusable @@ emit_step @@ emit_workflow @@ emit_arazzo
Arazzo == [structs |-> Structs, parsers |-> Parsers, emitters |-> Emitters,
        unwrapped |-> {"InputSchema"}, ondemand |-> FALSE, roots |-> DOMAIN Structs,
        variants |-> Variants]
===============================================================================
