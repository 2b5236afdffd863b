------------------------------- MODULE McpCodec -------------------------------
(***************************************************************************)
(* The Model Context Protocol messages: the structs of mcp/models.hpp and  *)
(* the tables of mcp/parse.cpp and mcp/emit.cpp.  A definition stands for  *)
(* one message and the structs inside it.  A parser gives up at the first  *)
(* member that it requires and does not find.                              *)
(***************************************************************************)
EXTENDS Codec

Text(keys) == Each(keys, String)
Need(keys) == Each(keys, Required(String))
May(keys)  == Each(keys, Opt(String))
Flag(keys) == Each(keys, Opt(Boolean))
Raw(keys)  == Each(keys, Opt(JsonText))
Params(way)   == One("params", "params", way)
Content(way)  == One("content_json", "content", way)
Typed(m)      == One(m, m, Opt(Texts))
Noted         == One("annotations", "annotations", Opt(Struct("Annotations")))
MetaOnly   == Raw(<<"_meta">>)
CursorOnly == May(<<"cursor">>)
Requested(P) == Text(<<"method">>) \o Params(Struct(P))
Notified(P)  == Text(<<"method">>) \o Params(Opt(Struct(P)))
NeedRequest(P)  == Need(<<"method">>) \o Params(Required(Struct(P)))
NeedNotice(P)   == Need(<<"method">>) \o Params(Opt(Struct(P)))

-----------------------------------------------------------------------------
\* Structs.

Annotations == [Annotations |-> May(<<"audience">>) \o Each(<<"priority">>, Opt(Double))]
Annotated   == [Annotated |-> Noted]
BlobResourceContents == [BlobResourceContents |-> Text(<<"blob", "uri">>) \o May(<<"mimeType">>)]
TextResourceContents == [TextResourceContents |-> Text(<<"uri", "text">>) \o May(<<"mimeType">>)]
CallToolRequest ==
    [CallToolRequestParams |-> Text(<<"name">>) \o Raw(<<"arguments">>),
     CallToolRequest |-> Requested("CallToolRequestParams")]
TextContent  == [TextContent |-> Text(<<"type", "text">>) \o Noted]
ImageContent == [ImageContent |-> Text(<<"type", "data", "mimeType">>) \o Noted]
EmbeddedResource ==
    [EmbeddedResource |-> Text(<<"type">>) \o One("resource_json", "resource", ObjectText)
                            \o Noted \o Typed("typed_resource")]
CallToolResult ==
    [CallToolResult |-> MetaOnly \o Content(ArrayText) \o Flag(<<"isError">>) \o Typed("typed_content")]
CancelledNotification ==
    [CancelledNotificationParams |-> Each(<<"requestId">>, BareId) \o May(<<"reason">>),
     CancelledNotification |-> Requested("CancelledNotificationParams")]
ClientCapabilities ==
    [ClientCapabilitiesRoots |-> Flag(<<"listChanged">>),
     ClientCapabilities |-> Raw(<<"experimental", "sampling">>)
                              \o Each(<<"roots">>, Opt(Struct("ClientCapabilitiesRoots")))]
PromptReference   == [PromptReference |-> Text(<<"type", "name">>)]
ResourceReference == [ResourceReference |-> Text(<<"type", "uri">>)]
CompleteRequest ==
    [CompleteRequestArgument |-> Text(<<"name", "value">>),
     CompleteRequestParams |-> Each(<<"argument">>, Struct("CompleteRequestArgument"))
                                 \o One("ref_json", "ref", ObjectText) \o Typed("typed_ref"),
     CompleteRequest |-> Requested("CompleteRequestParams")]
CompleteResult ==
    [CompleteResultCompletion |-> Each(<<"values">>, Strings) \o Each(<<"total">>, Opt(Int32))
                                    \o Flag(<<"hasMore">>),
     CompleteResult |-> MetaOnly \o Each(<<"completion">>, Struct("CompleteResultCompletion"))]
ModelHint == [ModelHint |-> May(<<"name">>)]
ModelPreferences ==
    [ModelPreferences |->
        Each(<<"costPriority", "intelligencePriority", "speedPriority">>, Opt(Double))
          \o Each(<<"hints">>, Opt(Tuple("ModelHint")))]
CreateMessageRequest ==
    [CreateMessageRequestParams |->
        Each(<<"maxTokens">>, Int32) \o One("messages_json", "messages", ArrayText)
          \o Raw(<<"includeContext", "metadata">>)
          \o Each(<<"modelPreferences">>, Opt(Struct("ModelPreferences")))
          \o Each(<<"stopSequences">>, Opt(Strings)) \o May(<<"systemPrompt">>)
          \o Each(<<"temperature">>, Opt(Double)),
     CreateMessageRequest |-> Requested("CreateMessageRequestParams")]
CreateMessageResult ==
    [CreateMessageResult |-> MetaOnly \o Content(JsonText) \o Text(<<"model", "role">>)
                               \o May(<<"stopReason">>) \o Typed("typed_content")]
Tool ==
    [ToolInputSchema |-> Text(<<"type">>) \o One("properties_json", "properties", Opt(JsonText))
                           \o Each(<<"required">>, Opt(Strings)),
     Tool |-> Text(<<"name">>) \o May(<<"description">>) \o Each(<<"inputSchema">>, Struct("ToolInputSchema"))]
ToolListChangedNotification ==
    [ToolListChangedNotificationParams |-> MetaOnly,
     ToolListChangedNotification |-> Notified("ToolListChangedNotificationParams")]
PaginatedRequest ==
    [PaginatedRequestParams |-> CursorOnly, PaginatedRequest |-> Requested("PaginatedRequestParams")]
PaginatedResult == [PaginatedResult |-> MetaOnly \o May(<<"nextCursor">>)]
Implementation  == [Implementation |-> Text(<<"name", "version">>)]
InitializeRequest ==
    [InitializeRequestParams |->
        Text(<<"protocolVersion">>) \o Each(<<"capabilities">>, Opt(Struct("ClientCapabilities")))
          \o Each(<<"clientInfo">>, Struct("Implementation")),
     InitializeRequest |-> Requested("InitializeRequestParams")]
ServerCapabilities ==
    [ServerCapabilitiesLogging |-> <<>>,
     ServerCapabilitiesPrompts |-> Flag(<<"listChanged">>),
     ServerCapabilitiesResources |-> Flag(<<"subscribe", "listChanged">>),
     ServerCapabilitiesTools |-> Flag(<<"listChanged">>),
     ServerCapabilities |->
        Raw(<<"experimental">>) \o Each(<<"logging">>, Opt(Struct("ServerCapabilitiesLogging")))
          \o Each(<<"prompts">>, Opt(Struct("ServerCapabilitiesPrompts")))
          \o Each(<<"resources">>, Opt(Struct("ServerCapabilitiesResources")))
          \o Each(<<"tools">>, Opt(Struct("ServerCapabilitiesTools")))]
InitializeResult ==
    [InitializeResult |->
        MetaOnly \o Text(<<"protocolVersion">>) \o Each(<<"capabilities">>, Struct("ServerCapabilities"))
          \o Each(<<"serverInfo">>, Struct("Implementation")) \o May(<<"instructions">>)]
InitializedNotification ==
    [InitializedNotificationParams |-> MetaOnly,
     InitializedNotification |-> Notified("InitializedNotificationParams")]
JSONRPCError ==
    [JSONRPCErrorError |-> Each(<<"code">>, Int32) \o Text(<<"message">>) \o Raw(<<"data">>),
     JSONRPCError |-> Text(<<"jsonrpc">>) \o Each(<<"id">>, Id) \o Each(<<"error">>, Struct("JSONRPCErrorError"))]
JSONRPCNotification ==
    [JSONRPCNotificationParams |-> Raw(<<"_meta", "_raw">>),
     JSONRPCNotification |-> Text(<<"jsonrpc">>) \o Notified("JSONRPCNotificationParams")]
JSONRPCRequest ==
    [JSONRPCRequestParams |-> Raw(<<"_meta", "_raw">>),
     JSONRPCRequest |-> Text(<<"jsonrpc">>) \o Each(<<"id">>, Id) \o Notified("JSONRPCRequestParams")]
JSONRPCResponse ==
    [JSONRPCResponse |-> Text(<<"jsonrpc">>) \o Each(<<"id">>, Id) \o One("result_json", "result", JsonText)]
ListPromptsRequest ==
    [ListPromptsRequestParams |-> CursorOnly, ListPromptsRequest |-> Notified("ListPromptsRequestParams")]
PromptArgument == [PromptArgument |-> Text(<<"name">>) \o May(<<"description">>) \o Flag(<<"required">>)]
Prompt ==
    [Prompt |-> Text(<<"name">>) \o May(<<"description">>) \o Each(<<"arguments">>, Opt(Tuple("PromptArgument")))]
ListPromptsResult ==
    [ListPromptsResult |-> MetaOnly \o May(<<"nextCursor">>) \o Each(<<"prompts">>, Tuple("Prompt"))]
GetPromptRequest ==
    [GetPromptRequestParams |-> Text(<<"name">>) \o Raw(<<"arguments">>),
     GetPromptRequest |-> Requested("GetPromptRequestParams")]
GetPromptResult ==
    [PromptMessage |-> Text(<<"role">>) \o Content(JsonText),
     GetPromptResult |-> MetaOnly \o May(<<"description">>) \o Each(<<"messages">>, Tuple("PromptMessage"))]
PromptListChangedNotification ==
    [PromptListChangedNotificationParams |-> MetaOnly,
     PromptListChangedNotification |-> Notified("PromptListChangedNotificationParams")]
ListResourcesRequest ==
    [ListResourcesRequestParams |-> CursorOnly, ListResourcesRequest |-> Notified("ListResourcesRequestParams")]
Resource == [Resource |-> Text(<<"uri", "name">>) \o May(<<"description", "mimeType">>) \o Noted]
ListResourcesResult ==
    [ListResourcesResult |-> MetaOnly \o May(<<"nextCursor">>) \o Each(<<"resources">>, Tuple("Resource"))]
ListResourceTemplatesRequest ==
    [ListResourceTemplatesRequestParams |-> CursorOnly,
     ListResourceTemplatesRequest |-> Notified("ListResourceTemplatesRequestParams")]
ResourceTemplate ==
    [ResourceTemplate |-> Text(<<"uriTemplate", "name">>) \o May(<<"description", "mimeType">>) \o Noted]
ListResourceTemplatesResult ==
    [ListResourceTemplatesResult |->
        MetaOnly \o May(<<"nextCursor">>) \o Each(<<"resourceTemplates">>, Tuple("ResourceTemplate"))]
ReadResourceRequest ==
    [ReadResourceRequestParams |-> Text(<<"uri">>),
     ReadResourceRequest |-> Requested("ReadResourceRequestParams")]
ReadResourceResult ==
    [ReadResourceResult |-> MetaOnly \o One("contents_json", "contents", Texts) \o Typed("typed_contents")]
ResourceUpdatedNotification ==
    [ResourceUpdatedNotificationParams |-> Text(<<"uri">>),
     ResourceUpdatedNotification |-> Requested("ResourceUpdatedNotificationParams")]
ResourceListChangedNotification ==
    [ResourceListChangedNotificationParams |-> MetaOnly,
     ResourceListChangedNotification |-> Notified("ResourceListChangedNotificationParams")]
Result == [Result |-> MetaOnly]
Root   == [Root |-> Text(<<"uri">>) \o May(<<"name">>)]
RootsListChangedNotification ==
    [RootsListChangedNotificationParams |-> MetaOnly,
     RootsListChangedNotification |-> Notified("RootsListChangedNotificationParams")]
ListRootsRequest ==
    [ListRootsRequestParams |-> MetaOnly, ListRootsRequest |-> Notified("ListRootsRequestParams")]
ListRootsResult == [ListRootsResult |-> MetaOnly \o Each(<<"roots">>, Tuple("Root"))]
SetLevelRequest ==
    [SetLevelRequestParams |-> Text(<<"level">>), SetLevelRequest |-> Requested("SetLevelRequestParams")]
LoggingMessageNotification ==
    [LoggingMessageNotificationParams |-> Text(<<"level">>) \o May(<<"logger">>) \o Each(<<"data">>, JsonText),
     LoggingMessageNotification |-> Requested("LoggingMessageNotificationParams")]
ProgressNotification ==
    [ProgressNotificationParams |-> Each(<<"progressToken">>, Token) \o Each(<<"progress">>, Double)
                                      \o Each(<<"total">>, Opt(Double)),
     ProgressNotification |-> Requested("ProgressNotificationParams")]
EmptyResult == [EmptyResult |-> MetaOnly]
SamplingMessage == [SamplingMessage |-> Text(<<"role">>) \o Content(JsonText) \o Typed("typed_content")]
PingRequest == [PingRequestParams |-> MetaOnly, PingRequest |-> Notified("PingRequestParams")]
SubscribeRequest ==
    [SubscribeRequestParams |-> Text(<<"uri">>), SubscribeRequest |-> Requested("SubscribeRequestParams")]
UnsubscribeRequest ==
    [UnsubscribeRequestParams |-> Text(<<"uri">>), UnsubscribeRequest |-> Requested("UnsubscribeRequestParams")]
ListToolsRequest ==
    [ListToolsRequestParams |-> CursorOnly, ListToolsRequest |-> Notified("ListToolsRequestParams")]
ListToolsResult ==
    [ListToolsResult |-> MetaOnly \o May(<<"nextCursor">>) \o Each(<<"tools">>, Tuple("Tool"))]

-----------------------------------------------------------------------------
\* Parsers.

parse_annotations == [Annotations |-> May(<<"audience">>) \o Each(<<"priority">>, Opt(Double))]
parse_annotated   == [Annotated |-> Noted]
parse_blob_resource_contents ==
    [BlobResourceContents |-> Need(<<"blob", "uri">>) \o May(<<"mimeType">>)]
parse_call_tool_request ==
    [CallToolRequest |-> NeedRequest("CallToolRequestParams"),
     CallToolRequestParams |-> Need(<<"name">>) \o Raw(<<"arguments">>)]
parse_text_content  == [TextContent |-> Need(<<"type", "text">>) \o Noted]
parse_image_content == [ImageContent |-> Need(<<"type", "data", "mimeType">>) \o Noted]
parse_text_resource_contents ==
    [TextResourceContents |-> Need(<<"uri">>) \o May(<<"mimeType">>) \o Need(<<"text">>)]
parse_embedded_resource ==
    [EmbeddedResource |->
        Need(<<"type">>) \o One("resource_json", "resource", Required(ObjectText)) \o Noted]
parse_call_tool_result ==
    [CallToolResult |-> MetaOnly \o Content(Required(ArrayText)) \o Flag(<<"isError">>)]
parse_cancelled_notification ==
    [CancelledNotification |-> NeedRequest("CancelledNotificationParams"),
     CancelledNotificationParams |-> Each(<<"requestId">>, Required(BareId)) \o May(<<"reason">>)]
parse_client_capabilities ==
    [ClientCapabilities |->
        Raw(<<"experimental">>) \o Each(<<"roots">>, Opt(Struct("ClientCapabilitiesRoots")))
          \o Raw(<<"sampling">>),
     ClientCapabilitiesRoots |-> Flag(<<"listChanged">>)]
parse_complete_request ==
    [CompleteRequest |-> NeedRequest("CompleteRequestParams"),
     CompleteRequestParams |-> Each(<<"argument">>, Required(Struct("CompleteRequestArgument")))
                                 \o One("ref_json", "ref", Required(ObjectText)),
     CompleteRequestArgument |-> Need(<<"name", "value">>)]
parse_complete_result ==
    [CompleteResult |-> MetaOnly \o Each(<<"completion">>, Required(Struct("CompleteResultCompletion"))),
     CompleteResultCompletion |-> Each(<<"values">>, Required(Strings))
                                    \o Each(<<"total">>, Opt(Int32)) \o Flag(<<"hasMore">>)]
parse_model_hint == [ModelHint |-> May(<<"name">>)]
parse_model_preferences ==
    [ModelPreferences |->
        Each(<<"costPriority", "intelligencePriority", "speedPriority">>, Opt(Double))
          \o Each(<<"hints">>, Opt(Tuple("ModelHint")))]
parse_create_message_request ==
    [CreateMessageRequest |-> NeedRequest("CreateMessageRequestParams"),
     CreateMessageRequestParams |->
        Each(<<"maxTokens">>, Required(Int32)) \o One("messages_json", "messages", Required(ArrayText))
          \o Raw(<<"includeContext", "metadata">>)
          \o Each(<<"modelPreferences">>, Unchecked(Struct("ModelPreferences")))
          \o Each(<<"stopSequences">>, Opt(Strings)) \o May(<<"systemPrompt">>)
          \o Each(<<"temperature">>, Opt(Double))]
parse_create_message_result ==
    [CreateMessageResult |-> MetaOnly \o Content(Required(JsonText)) \o Need(<<"model", "role">>)
                               \o May(<<"stopReason">>)]
parse_tool ==
    [Tool |-> Need(<<"name">>) \o May(<<"description">>)
                \o Each(<<"inputSchema">>, Required(Struct("ToolInputSchema"))),
     ToolInputSchema |-> Need(<<"type">>) \o One("properties_json", "properties", Opt(JsonText))
                           \o Each(<<"required">>, Opt(Strings))]
parse_tool_list_changed_notification ==
    [ToolListChangedNotification |-> NeedNotice("ToolListChangedNotificationParams"),
     ToolListChangedNotificationParams |-> MetaOnly]
parse_paginated_request ==
    [PaginatedRequest |-> Need(<<"method">>) \o Params(Default(Struct("PaginatedRequestParams"))),
     PaginatedRequestParams |-> CursorOnly]
parse_paginated_result == [PaginatedResult |-> MetaOnly \o May(<<"nextCursor">>)]
parse_implementation   == [Implementation |-> Need(<<"name", "version">>)]
parse_initialize_request ==
    [InitializeRequest |-> NeedRequest("InitializeRequestParams"),
     InitializeRequestParams |->
        Need(<<"protocolVersion">>)
          \o Each(<<"capabilities">>, Unchecked(Struct("ClientCapabilities")))
          \o Each(<<"clientInfo">>, Required(Struct("Implementation")))]
parse_server_capabilities ==
    [ServerCapabilities |->
        Raw(<<"experimental">>) \o Each(<<"logging">>, Opt(Struct("ServerCapabilitiesLogging")))
          \o Each(<<"prompts">>, Opt(Struct("ServerCapabilitiesPrompts")))
          \o Each(<<"resources">>, Opt(Struct("ServerCapabilitiesResources")))
          \o Each(<<"tools">>, Opt(Struct("ServerCapabilitiesTools"))),
     ServerCapabilitiesLogging |-> <<>>,
     ServerCapabilitiesPrompts |-> Flag(<<"listChanged">>),
     ServerCapabilitiesResources |-> Flag(<<"listChanged", "subscribe">>),
     ServerCapabilitiesTools |-> Flag(<<"listChanged">>)]
parse_initialize_result ==
    [InitializeResult |->
        MetaOnly \o Need(<<"protocolVersion">>) \o May(<<"instructions">>)
          \o Each(<<"capabilities">>, Required(Struct("ServerCapabilities")))
          \o Each(<<"serverInfo">>, Required(Struct("Implementation")))]
parse_initialized_notification ==
    [InitializedNotification |-> NeedNotice("InitializedNotificationParams"),
     InitializedNotificationParams |-> MetaOnly]
parse_jsonrpc_error ==
    [JSONRPCError |-> Need(<<"jsonrpc">>) \o Each(<<"id">>, Required(Id))
                        \o Each(<<"error">>, Required(Struct("JSONRPCErrorError"))),
     JSONRPCErrorError |-> Each(<<"code">>, Required(Int32)) \o Need(<<"message">>) \o Raw(<<"data">>)]
parse_jsonrpc_notification ==
    [JSONRPCNotification |-> Need(<<"jsonrpc">>) \o NeedNotice("JSONRPCNotificationParams"),
     JSONRPCNotificationParams |-> MetaOnly \o One("_raw", "", Opt(Itself))]
parse_jsonrpc_request ==
    [JSONRPCRequest |-> Need(<<"jsonrpc">>) \o Each(<<"id">>, Required(Id)) \o NeedNotice("JSONRPCRequestParams"),
     JSONRPCRequestParams |-> MetaOnly \o One("_raw", "", Opt(Itself))]
parse_jsonrpc_response ==
    [JSONRPCResponse |-> Need(<<"jsonrpc">>) \o Each(<<"id">>, Required(Id))
                           \o One("result_json", "result", Required(JsonText))]
parse_list_prompts_request ==
    [ListPromptsRequest |-> NeedNotice("ListPromptsRequestParams"), ListPromptsRequestParams |-> CursorOnly]
parse_prompt_argument ==
    [PromptArgument |-> Need(<<"name">>) \o May(<<"description">>) \o Flag(<<"required">>)]
parse_prompt ==
    [Prompt |-> Need(<<"name">>) \o May(<<"description">>) \o Each(<<"arguments">>, Opt(Tuple("PromptArgument")))]
parse_list_prompts_result ==
    [ListPromptsResult |-> MetaOnly \o May(<<"nextCursor">>) \o Each(<<"prompts">>, Required(Tuple("Prompt")))]
parse_get_prompt_request ==
    [GetPromptRequest |-> NeedRequest("GetPromptRequestParams"),
     GetPromptRequestParams |-> Need(<<"name">>) \o Raw(<<"arguments">>)]
parse_get_prompt_result ==
    [GetPromptResult |-> MetaOnly \o May(<<"description">>)
                           \o Each(<<"messages">>, Required(Tuple("PromptMessage"))),
     PromptMessage |-> Need(<<"role">>) \o Content(Required(JsonText))]
parse_prompt_list_changed_notification ==
    [PromptListChangedNotification |-> NeedNotice("PromptListChangedNotificationParams"),
     PromptListChangedNotificationParams |-> MetaOnly]
parse_prompt_reference == [PromptReference |-> Need(<<"type", "name">>)]
parse_list_resources_request ==
    [ListResourcesRequest |-> NeedNotice("ListResourcesRequestParams"),
     ListResourcesRequestParams |-> CursorOnly]
parse_resource == [Resource |-> Need(<<"uri", "name">>) \o May(<<"description", "mimeType">>) \o Noted]
parse_list_resources_result ==
    [ListResourcesResult |->
        MetaOnly \o May(<<"nextCursor">>) \o Each(<<"resources">>, Required(Tuple("Resource")))]
parse_list_resource_templates_request ==
    [ListResourceTemplatesRequest |-> NeedNotice("ListResourceTemplatesRequestParams"),
     ListResourceTemplatesRequestParams |-> CursorOnly]
\* Mutant: annotations are not read.
parse_resource_template_bare ==
    [ResourceTemplate |-> Need(<<"uriTemplate", "name">>) \o May(<<"description", "mimeType">>)]
parse_resource_template ==
    [ResourceTemplate |-> Need(<<"uriTemplate", "name">>) \o May(<<"description", "mimeType">>) \o Noted]
parse_list_resource_templates_result ==
    [ListResourceTemplatesResult |->
        MetaOnly \o May(<<"nextCursor">>) \o Each(<<"resourceTemplates">>, Required(Tuple("ResourceTemplate")))]
parse_read_resource_request ==
    [ReadResourceRequest |-> NeedRequest("ReadResourceRequestParams"),
     ReadResourceRequestParams |-> Need(<<"uri">>)]
parse_read_resource_result ==
    [ReadResourceResult |-> MetaOnly \o One("contents_json", "contents", Required(Texts))]
parse_resource_updated_notification ==
    [ResourceUpdatedNotification |-> NeedRequest("ResourceUpdatedNotificationParams"),
     ResourceUpdatedNotificationParams |-> Need(<<"uri">>)]
parse_resource_list_changed_notification ==
    [ResourceListChangedNotification |-> NeedNotice("ResourceListChangedNotificationParams"),
     ResourceListChangedNotificationParams |-> MetaOnly]
parse_resource_reference == [ResourceReference |-> Need(<<"type", "uri">>)]
parse_result == [Result |-> MetaOnly]
parse_root   == [Root |-> Need(<<"uri">>) \o May(<<"name">>)]
parse_roots_list_changed_notification ==
    [RootsListChangedNotification |-> NeedNotice("RootsListChangedNotificationParams"),
     RootsListChangedNotificationParams |-> MetaOnly]
parse_list_roots_request ==
    [ListRootsRequest |-> NeedNotice("ListRootsRequestParams"), ListRootsRequestParams |-> MetaOnly]
parse_list_roots_result == [ListRootsResult |-> MetaOnly \o Each(<<"roots">>, Required(Tuple("Root")))]
parse_set_level_request ==
    [SetLevelRequest |-> NeedRequest("SetLevelRequestParams"), SetLevelRequestParams |-> Need(<<"level">>)]
parse_logging_message_notification ==
    [LoggingMessageNotification |-> NeedRequest("LoggingMessageNotificationParams"),
     LoggingMessageNotificationParams |->
        Need(<<"level">>) \o May(<<"logger">>) \o Each(<<"data">>, Required(JsonText))]
parse_progress_notification ==
    [ProgressNotification |-> NeedRequest("ProgressNotificationParams"),
     ProgressNotificationParams |-> Each(<<"progressToken">>, Required(Token))
                                      \o Each(<<"progress">>, Required(Double))
                                      \o Each(<<"total">>, Opt(Double))]
parse_empty_result == [EmptyResult |-> MetaOnly]
parse_sampling_message == [SamplingMessage |-> Need(<<"role">>) \o Content(Required(JsonText))]
parse_ping_request ==
    [PingRequest |-> NeedNotice("PingRequestParams"), PingRequestParams |-> MetaOnly]
parse_subscribe_request ==
    [SubscribeRequest |-> NeedRequest("SubscribeRequestParams"), SubscribeRequestParams |-> Need(<<"uri">>)]
parse_unsubscribe_request ==
    [UnsubscribeRequest |-> NeedRequest("UnsubscribeRequestParams"), UnsubscribeRequestParams |-> Need(<<"uri">>)]
parse_list_tools_request ==
    [ListToolsRequest |-> NeedNotice("ListToolsRequestParams"), ListToolsRequestParams |-> CursorOnly]
parse_list_tools_result ==
    [ListToolsResult |-> MetaOnly \o May(<<"nextCursor">>) \o Each(<<"tools">>, Required(Tuple("Tool")))]

-----------------------------------------------------------------------------
\* Emitters.

emit_annotations == [Annotations |-> May(<<"audience">>) \o Each(<<"priority">>, Opt(Double))]
emit_annotated   == [Annotated |-> Noted]
emit_blob_resource_contents ==
    [BlobResourceContents |-> Text(<<"blob">>) \o May(<<"mimeType">>) \o Text(<<"uri">>)]
emit_call_tool_request ==
    [CallToolRequest |-> Requested("CallToolRequestParams"),
     CallToolRequestParams |-> Text(<<"name">>) \o Raw(<<"arguments">>)]
emit_text_content  == [TextContent |-> Text(<<"type", "text">>) \o Noted]
emit_image_content == [ImageContent |-> Text(<<"type", "data", "mimeType">>) \o Noted]
emit_text_resource_contents ==
    [TextResourceContents |-> Text(<<"uri">>) \o May(<<"mimeType">>) \o Text(<<"text">>)]
emit_embedded_resource ==
    [EmbeddedResource |-> Text(<<"type">>) \o One("resource_json", "resource", ObjectText) \o Noted]
emit_call_tool_result ==
    [CallToolResult |-> MetaOnly \o Content(ArrayText) \o Flag(<<"isError">>)]
emit_cancelled_notification ==
    [CancelledNotification |-> Requested("CancelledNotificationParams"),
     CancelledNotificationParams |-> Each(<<"requestId">>, BareId) \o May(<<"reason">>)]
emit_client_capabilities ==
    [ClientCapabilities |->
        Raw(<<"experimental">>) \o Each(<<"roots">>, Opt(Struct("ClientCapabilitiesRoots")))
          \o Raw(<<"sampling">>),
     ClientCapabilitiesRoots |-> Flag(<<"listChanged">>)]
emit_complete_request ==
    [CompleteRequest |-> Requested("CompleteRequestParams"),
     CompleteRequestParams |-> Each(<<"argument">>, Struct("CompleteRequestArgument"))
                                 \o One("ref_json", "ref", ObjectText),
     CompleteRequestArgument |-> Text(<<"name", "value">>)]
emit_complete_result ==
    [CompleteResult |-> MetaOnly \o Each(<<"completion">>, Struct("CompleteResultCompletion")),
     CompleteResultCompletion |-> Each(<<"values">>, Strings) \o Each(<<"total">>, Opt(Int32))
                                    \o Flag(<<"hasMore">>)]
emit_model_hint == [ModelHint |-> May(<<"name">>)]
emit_model_preferences ==
    [ModelPreferences |->
        Each(<<"costPriority", "intelligencePriority", "speedPriority">>, Opt(Double))
          \o Each(<<"hints">>, Opt(Tuple("ModelHint")))]
emit_create_message_request ==
    [CreateMessageRequest |-> Requested("CreateMessageRequestParams"),
     CreateMessageRequestParams |->
        Each(<<"maxTokens">>, Int32) \o One("messages_json", "messages", ArrayText)
          \o Raw(<<"includeContext", "metadata">>)
          \o Each(<<"modelPreferences">>, Opt(Struct("ModelPreferences")))
          \o Each(<<"stopSequences">>, Opt(Strings)) \o May(<<"systemPrompt">>)
          \o Each(<<"temperature">>, Opt(Double))]
emit_create_message_result ==
    [CreateMessageResult |-> MetaOnly \o Content(JsonText) \o Text(<<"model", "role">>)
                               \o May(<<"stopReason">>)]
emit_tool ==
    [Tool |-> Text(<<"name">>) \o May(<<"description">>) \o Each(<<"inputSchema">>, Struct("ToolInputSchema")),
     ToolInputSchema |-> Text(<<"type">>) \o One("properties_json", "properties", Opt(JsonText))
                           \o Each(<<"required">>, Opt(Strings))]
emit_tool_list_changed_notification ==
    [ToolListChangedNotification |-> Notified("ToolListChangedNotificationParams"),
     ToolListChangedNotificationParams |-> MetaOnly]
emit_paginated_request ==
    [PaginatedRequest |-> Text(<<"method">>) \o Params(IfMember("cursor", Struct("PaginatedRequestParams"))),
     PaginatedRequestParams |-> CursorOnly]
emit_paginated_result == [PaginatedResult |-> MetaOnly \o May(<<"nextCursor">>)]
emit_implementation   == [Implementation |-> Text(<<"name", "version">>)]
emit_initialize_request ==
    [InitializeRequest |-> Requested("InitializeRequestParams"),
     InitializeRequestParams |->
        Text(<<"protocolVersion">>) \o Each(<<"capabilities">>, Opt(Struct("ClientCapabilities")))
          \o Each(<<"clientInfo">>, Struct("Implementation"))]
emit_server_capabilities ==
    [ServerCapabilities |->
        Raw(<<"experimental">>) \o Each(<<"logging">>, Opt(Struct("ServerCapabilitiesLogging")))
          \o Each(<<"prompts">>, Opt(Struct("ServerCapabilitiesPrompts")))
          \o Each(<<"resources">>, Opt(Struct("ServerCapabilitiesResources")))
          \o Each(<<"tools">>, Opt(Struct("ServerCapabilitiesTools"))),
     ServerCapabilitiesLogging |-> <<>>,
     ServerCapabilitiesPrompts |-> Flag(<<"listChanged">>),
     ServerCapabilitiesResources |-> Flag(<<"subscribe", "listChanged">>),
     ServerCapabilitiesTools |-> Flag(<<"listChanged">>)]
emit_initialize_result ==
    [InitializeResult |->
        MetaOnly \o Text(<<"protocolVersion">>) \o Each(<<"capabilities">>, Struct("ServerCapabilities"))
          \o Each(<<"serverInfo">>, Struct("Implementation")) \o May(<<"instructions">>)]
emit_initialized_notification ==
    [InitializedNotification |-> Notified("InitializedNotificationParams"),
     InitializedNotificationParams |-> MetaOnly]
emit_jsonrpc_error ==
    [JSONRPCError |-> Text(<<"jsonrpc">>) \o Each(<<"id">>, Id) \o Each(<<"error">>, Struct("JSONRPCErrorError")),
     JSONRPCErrorError |-> Each(<<"code">>, Int32) \o Text(<<"message">>) \o Raw(<<"data">>)]
emit_jsonrpc_notification ==
    [JSONRPCNotification |->
        Text(<<"jsonrpc", "method">>) \o Params(Opt(RawOr("_raw", "JSONRPCNotificationParams"))),
     JSONRPCNotificationParams |-> MetaOnly]
emit_jsonrpc_request ==
    [JSONRPCRequest |->
        Text(<<"jsonrpc">>) \o Each(<<"id">>, Id) \o Text(<<"method">>)
          \o Params(Opt(RawOr("_raw", "JSONRPCRequestParams"))),
     JSONRPCRequestParams |-> MetaOnly]
emit_jsonrpc_response ==
    [JSONRPCResponse |-> Text(<<"jsonrpc">>) \o Each(<<"id">>, Id) \o One("result_json", "result", JsonText)]
emit_list_prompts_request ==
    [ListPromptsRequest |-> Notified("ListPromptsRequestParams"), ListPromptsRequestParams |-> CursorOnly]
emit_prompt_argument ==
    [PromptArgument |-> Text(<<"name">>) \o May(<<"description">>) \o Flag(<<"required">>)]
emit_prompt ==
    [Prompt |-> Text(<<"name">>) \o May(<<"description">>) \o Each(<<"arguments">>, Opt(Tuple("PromptArgument")))]
emit_list_prompts_result ==
    [ListPromptsResult |-> MetaOnly \o May(<<"nextCursor">>) \o Each(<<"prompts">>, Tuple("Prompt"))]
emit_get_prompt_request ==
    [GetPromptRequest |-> Requested("GetPromptRequestParams"),
     GetPromptRequestParams |-> Text(<<"name">>) \o Raw(<<"arguments">>)]
emit_get_prompt_result ==
    [GetPromptResult |-> MetaOnly \o May(<<"description">>) \o Each(<<"messages">>, Tuple("PromptMessage")),
     PromptMessage |-> Text(<<"role">>) \o Content(JsonText)]
emit_prompt_list_changed_notification ==
    [PromptListChangedNotification |-> Notified("PromptListChangedNotificationParams"),
     PromptListChangedNotificationParams |-> MetaOnly]
emit_prompt_reference == [PromptReference |-> Text(<<"type", "name">>)]
emit_list_resources_request ==
    [ListResourcesRequest |-> Notified("ListResourcesRequestParams"), ListResourcesRequestParams |-> CursorOnly]
emit_resource == [Resource |-> Text(<<"uri", "name">>) \o May(<<"description", "mimeType">>) \o Noted]
emit_list_resources_result ==
    [ListResourcesResult |-> MetaOnly \o May(<<"nextCursor">>) \o Each(<<"resources">>, Tuple("Resource"))]
emit_list_resource_templates_request ==
    [ListResourceTemplatesRequest |-> Notified("ListResourceTemplatesRequestParams"),
     ListResourceTemplatesRequestParams |-> CursorOnly]
emit_resource_template ==
    [ResourceTemplate |-> Text(<<"uriTemplate", "name">>) \o May(<<"description", "mimeType">>) \o Noted]
emit_list_resource_templates_result ==
    [ListResourceTemplatesResult |->
        MetaOnly \o May(<<"nextCursor">>) \o Each(<<"resourceTemplates">>, Tuple("ResourceTemplate"))]
emit_read_resource_request ==
    [ReadResourceRequest |-> Requested("ReadResourceRequestParams"),
     ReadResourceRequestParams |-> Text(<<"uri">>)]
emit_read_resource_result ==
    [ReadResourceResult |-> MetaOnly \o One("contents_json", "contents", Texts)]
emit_resource_updated_notification ==
    [ResourceUpdatedNotification |-> Requested("ResourceUpdatedNotificationParams"),
     ResourceUpdatedNotificationParams |-> Text(<<"uri">>)]
emit_resource_list_changed_notification ==
    [ResourceListChangedNotification |-> Notified("ResourceListChangedNotificationParams"),
     ResourceListChangedNotificationParams |-> MetaOnly]
emit_resource_reference == [ResourceReference |-> Text(<<"type", "uri">>)]
emit_result == [Result |-> MetaOnly]
emit_root   == [Root |-> Text(<<"uri">>) \o May(<<"name">>)]
emit_roots_list_changed_notification ==
    [RootsListChangedNotification |-> Notified("RootsListChangedNotificationParams"),
     RootsListChangedNotificationParams |-> MetaOnly]
emit_list_roots_request ==
    [ListRootsRequest |-> Notified("ListRootsRequestParams"), ListRootsRequestParams |-> MetaOnly]
emit_list_roots_result == [ListRootsResult |-> MetaOnly \o Each(<<"roots">>, Tuple("Root"))]
emit_set_level_request ==
    [SetLevelRequest |-> Requested("SetLevelRequestParams"), SetLevelRequestParams |-> Text(<<"level">>)]
emit_logging_message_notification ==
    [LoggingMessageNotification |-> Requested("LoggingMessageNotificationParams"),
     LoggingMessageNotificationParams |-> Text(<<"level">>) \o May(<<"logger">>) \o Each(<<"data">>, JsonText)]
emit_progress_notification ==
    [ProgressNotification |-> Requested("ProgressNotificationParams"),
     ProgressNotificationParams |-> Each(<<"progressToken">>, Token) \o Each(<<"progress">>, Double)
                                      \o Each(<<"total">>, Opt(Double))]
emit_empty_result == [EmptyResult |-> MetaOnly]
emit_sampling_message == [SamplingMessage |-> Text(<<"role">>) \o Content(JsonText)]
emit_ping_request == [PingRequest |-> Notified("PingRequestParams"), PingRequestParams |-> MetaOnly]
emit_subscribe_request ==
    [SubscribeRequest |-> Requested("SubscribeRequestParams"), SubscribeRequestParams |-> Text(<<"uri">>)]
emit_unsubscribe_request ==
    [UnsubscribeRequest |-> Requested("UnsubscribeRequestParams"), UnsubscribeRequestParams |-> Text(<<"uri">>)]
emit_list_tools_request ==
    [ListToolsRequest |-> Notified("ListToolsRequestParams"), ListToolsRequestParams |-> CursorOnly]
emit_list_tools_result ==
    [ListToolsResult |-> MetaOnly \o May(<<"nextCursor">>) \o Each(<<"tools">>, Tuple("Tool"))]

-----------------------------------------------------------------------------
\* The whole protocol.  Every parser checks that an element is an object.

Structs ==
    Annotations @@ Annotated @@ BlobResourceContents @@ TextResourceContents
       @@ CallToolRequest @@ TextContent @@ ImageContent @@ EmbeddedResource
       @@ CallToolResult @@ CancelledNotification @@ ClientCapabilities
       @@ PromptReference @@ ResourceReference @@ CompleteRequest @@ CompleteResult
       @@ ModelHint @@ ModelPreferences @@ CreateMessageRequest @@ CreateMessageResult
       @@ Tool @@ ToolListChangedNotification @@ PaginatedRequest @@ PaginatedResult
       @@ Implementation @@ InitializeRequest @@ ServerCapabilities @@ InitializeResult
       @@ InitializedNotification @@ JSONRPCError @@ JSONRPCNotification
       @@ JSONRPCRequest @@ JSONRPCResponse @@ ListPromptsRequest @@ PromptArgument
       @@ Prompt @@ ListPromptsResult @@ GetPromptRequest @@ GetPromptResult
       @@ PromptListChangedNotification @@ ListResourcesRequest @@ Resource
       @@ ListResourcesResult @@ ListResourceTemplatesRequest @@ ResourceTemplate
       @@ ListResourceTemplatesResult @@ ReadResourceRequest @@ ReadResourceResult
       @@ ResourceUpdatedNotification @@ ResourceListChangedNotification @@ Result
       @@ Root @@ RootsListChangedNotification @@ ListRootsRequest @@ ListRootsResult
       @@ SetLevelRequest @@ LoggingMessageNotification @@ ProgressNotification
       @@ EmptyResult @@ SamplingMessage @@ PingRequest @@ SubscribeRequest
       @@ UnsubscribeRequest @@ ListToolsRequest @@ ListToolsResult
Parsers ==
    parse_annotations @@ parse_annotated @@ parse_blob_resource_contents
       @@ parse_call_tool_request @@ parse_text_content @@ parse_image_content
       @@ parse_text_resource_contents @@ parse_embedded_resource
       @@ parse_call_tool_result @@ parse_cancelled_notification
       @@ parse_client_capabilities @@ parse_complete_request @@ parse_complete_result
       @@ parse_model_hint @@ parse_model_preferences @@ parse_create_message_request
       @@ parse_create_message_result @@ parse_tool
       @@ parse_tool_list_changed_notification @@ parse_paginated_request
       @@ parse_paginated_result @@ parse_implementation @@ parse_initialize_request
       @@ parse_server_capabilities @@ parse_initialize_result
       @@ parse_initialized_notification @@ parse_jsonrpc_error
       @@ parse_jsonrpc_notification @@ parse_jsonrpc_request @@ parse_jsonrpc_response
       @@ parse_list_prompts_request @@ parse_prompt_argument @@ parse_prompt
       @@ parse_list_prompts_result @@ parse_get_prompt_request
       @@ parse_get_prompt_result @@ parse_prompt_list_changed_notification
       @@ parse_prompt_reference @@ parse_list_resources_request @@ parse_resource
       @@ parse_list_resources_result @@ parse_list_resource_templates_request
       @@ parse_resource_template @@ parse_list_resource_templates_result
       @@ parse_read_resource_request @@ parse_read_resource_result
       @@ parse_resource_updated_notification
       @@ parse_resource_list_changed_notification @@ parse_resource_reference
       @@ parse_result @@ parse_root @@ parse_roots_list_changed_notification
       @@ parse_list_roots_request @@ parse_list_roots_result @@ parse_set_level_request
       @@ parse_logging_message_notification @@ parse_progress_notification
       @@ parse_empty_result @@ parse_sampling_message @@ parse_ping_request
       @@ parse_subscribe_request @@ parse_unsubscribe_request
       @@ parse_list_tools_request @@ parse_list_tools_result
Emitters ==
    emit_annotations @@ emit_annotated @@ emit_blob_resource_contents
       @@ emit_call_tool_request @@ emit_text_content @@ emit_image_content
       @@ emit_text_resource_contents @@ emit_embedded_resource @@ emit_call_tool_result
       @@ emit_cancelled_notification @@ emit_client_capabilities
       @@ emit_complete_request @@ emit_complete_result @@ emit_model_hint
       @@ emit_model_preferences @@ emit_create_message_request
       @@ emit_create_message_result @@ emit_tool @@ emit_tool_list_changed_notification
       @@ emit_paginated_request @@ emit_paginated_result @@ emit_implementation
       @@ emit_initialize_request @@ emit_server_capabilities @@ emit_initialize_result
       @@ emit_initialized_notification @@ emit_jsonrpc_error
       @@ emit_jsonrpc_notification @@ emit_jsonrpc_request @@ emit_jsonrpc_response
       @@ emit_list_prompts_request @@ emit_prompt_argument @@ emit_prompt
       @@ emit_list_prompts_result @@ emit_get_prompt_request @@ emit_get_prompt_result
       @@ emit_prompt_list_changed_notification @@ emit_prompt_reference
       @@ emit_list_resources_request @@ emit_resource @@ emit_list_resources_result
       @@ emit_list_resource_templates_request @@ emit_resource_template
       @@ emit_list_resource_templates_result @@ emit_read_resource_request
       @@ emit_read_resource_result @@ emit_resource_updated_notification
       @@ emit_resource_list_changed_notification @@ emit_resource_reference
       @@ emit_result @@ emit_root @@ emit_roots_list_changed_notification
       @@ emit_list_roots_request @@ emit_list_roots_result @@ emit_set_level_request
       @@ emit_logging_message_notification @@ emit_progress_notification
       @@ emit_empty_result @@ emit_sampling_message @@ emit_ping_request
       @@ emit_subscribe_request @@ emit_unsubscribe_request @@ emit_list_tools_request
       @@ emit_list_tools_result
Mcp == [structs |-> Structs, parsers |-> Parsers, emitters |-> Emitters,
        unwrapped |-> {}, ondemand |-> TRUE,
        \* the rest is written by the text of the whole object
        roots |-> DOMAIN Structs \ {"JSONRPCNotificationParams", "JSONRPCRequestParams"},
        variants |-> <<>>]
===============================================================================
