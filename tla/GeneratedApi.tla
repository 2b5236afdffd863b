----------------------------- MODULE GeneratedApi -----------------------------
(***************************************************************************)
(* What three generators print of the operations of one OpenAPI struct:    *)
(* the methods of the Client (client_sdk/emit.cpp), the tools that its     *)
(* McpAdapter lists and executes (the same file), and the snippets of      *)
(* to_docs_json (cli/sync.cpp), which call the Client.  Nobody compiles    *)
(* the snippets against the Client.                                        *)
(*                                                                         *)
(* A struct is a record, an optional member <<>> or <<x>>, a std::map a    *)
(* function.  Of what is printed there are names, types and literals.      *)
(***************************************************************************)
EXTENDS Codec

value_or(x, default) == IF x = <<>> THEN default ELSE x[1]

-----------------------------------------------------------------------------
\* Names and types of C++.

is_cpp_keyword(s) == s \in {"delete", "default", "class", "export"}   \* some of them
sanitize_cpp_identifier(name) ==
    LET Char(i) == IF SubSeq(name, i, i) \in {".", "-", " ", "/"} THEN "_" ELSE SubSeq(name, i, i)
        out == FoldLeft(LAMBDA s, i : s \o Char(i), "", [i \in 1..Len(name) |-> i])
    IN IF is_cpp_keyword(out) THEN out \o "_" ELSE out

openapi_type_to_cpp(t) ==
    CASE t = "integer" -> "int" [] t = "number" -> "double" [] t = "boolean" -> "bool"
      [] OTHER -> "std::string"
param_cpp_type(p) ==
    IF p.schema = <<>> THEN "std::string" ELSE openapi_type_to_cpp(value_or(p.schema[1].type, "string"))

-----------------------------------------------------------------------------
\* Operations.

ClientVerbs == {"get", "post", "put", "delete_op", "patch", "options", "head", "trace", "query"}
ToolVerbs   == {"get", "post", "put", "delete_op", "patch"}

\* The operations at the items of a map, with what is around them.
OperationsAt(items, verbs) ==
    UNION {{[path |-> path, verb |-> v, item |-> items[path], op |-> items[path][v][1]] :
               v \in {w \in verbs : items[path][w] # <<>>}} : path \in DOMAIN items}
PathsOf(spec) == value_or(spec.paths, <<>>)
CustomOperationsAt(items) ==
    UNION {{[path |-> path, verb |-> v, item |-> items[path], op |-> items[path].additionalOperations[1][v]] :
               v \in DOMAIN value_or(items[path].additionalOperations, <<>>)} : path \in DOMAIN items}

raw_name(o)  == value_or(o.op.operationId, "request")
func_name(o) == sanitize_cpp_identifier(raw_name(o))
collect_params(o) == value_or(o.item.parameters, <<>>) \o value_or(o.op.parameters, <<>>)
HasBody(o) == o.op.requestBody # <<>>

-----------------------------------------------------------------------------
\* The Client: every method has the parameters in order and the body last.

Declaration(o) ==
    LET params == collect_params(o)
    IN [path |-> o.path, verb |-> o.verb, name |-> func_name(o),
        params |-> [i \in DOMAIN params |-> <<param_cpp_type(params[i]), sanitize_cpp_identifier(params[i].name)>>]
                     \o (IF HasBody(o) THEN << <<"std::string", "body">> >> ELSE <<>>)]
Methods(spec) == {Declaration(o) : o \in OperationsAt(PathsOf(spec), ClientVerbs)}

-----------------------------------------------------------------------------
\* The McpAdapter.

json_type(ctype) ==
    CASE ctype = "int" -> "integer" [] ctype = "bool" -> "boolean" [] ctype = "double" -> "number"
      [] OTHER -> "string"
Tool(o) ==
    LET params == collect_params(o)
        body == IF HasBody(o) THEN <<"body">> ELSE <<>>
        needed == SelectSeq(params, LAMBDA p : p.required)
    IN [name |-> raw_name(o),
        properties |-> [i \in DOMAIN params |-> <<params[i].name, json_type(param_cpp_type(params[i]))>>]
                         \o [i \in DOMAIN body |-> <<body[i], "string">>],
        required |-> [i \in DOMAIN needed |-> needed[i].name] \o body]

\* Reading one argument: its value if there is one of the type, else the default.
\* The arguments are a function from names to <<type, value>>.
Argument(ctype, name, args) ==
    LET default == CASE ctype = "int" -> "0" [] ctype = "bool" -> "false" [] ctype = "double" -> "0.0"
                     [] OTHER -> ""
        IsOf(type) == type = json_type(ctype) \/ (ctype = "double" /\ type = "integer")
    IN IF name \in DOMAIN args /\ IsOf(args[name][1]) THEN args[name][2] ELSE default

\* The operations that answer to a name, of which the first in the order of the
\* document is executed, and the call that the execution of one makes.
Answering(spec, name) ==
    {o \in OperationsAt(PathsOf(spec), ToolVerbs) : name \in {raw_name(o), func_name(o)}}
Execution(o, args) ==
    LET params == collect_params(o)
    IN [name |-> func_name(o),
        args |-> [i \in DOMAIN params |-> Argument(param_cpp_type(params[i]), params[i].name, args)]
                   \o (IF HasBody(o) THEN <<Argument("std::string", "body", args)>> ELSE <<>>)]

-----------------------------------------------------------------------------
\* to_docs_json.

Quoted(text) == <<"quoted", text>>
Bare(text)   == <<"bare", text>>

\* An example, or the first of the values listed, or a value of the type.
doc_param_sample_value(p) ==
    LET ctype == param_cpp_type(p)
        given == [i \in DOMAIN p.example |-> IF ctype = "std::string" THEN Quoted(p.example[i])
                                             ELSE Bare(p.example[i])]
        enums  == value_or(p.schema[1].enum_values, <<>>)
        listed == [i \in DOMAIN enums |-> Quoted(enums[i])]
        usual  == CASE ctype = "int" -> Bare("1") [] ctype = "bool" -> Bare("true")
                    [] ctype = "double" -> Bare("1.0") [] OTHER -> Quoted("example")
    IN IF p.schema = <<>> THEN Quoted("example") ELSE Head(given \o listed \o <<usual>>)

\* An example of the first media type, or a text that goes with it: quoted,
\* whichever it is.
doc_request_body_sample_value(rb) == Quoted("{}")

\* Mutant: the parameters of the path are forgotten.
emit_doc_operation_code_own(o) ==
    LET params == value_or(o.op.parameters, <<>>)
    IN [name |-> raw_name(o),
        args |-> [i \in DOMAIN params |-> doc_param_sample_value(params[i])]
                   \o (IF HasBody(o) THEN <<doc_request_body_sample_value(o.op.requestBody[1])>> ELSE <<>>)]
emit_doc_operation_code(o) ==
    LET params == value_or(o.item.parameters, <<>>) \o value_or(o.op.parameters, <<>>)
    IN [name |-> raw_name(o),
        args |-> [i \in DOMAIN params |-> doc_param_sample_value(params[i])]
                   \o (IF HasBody(o) THEN <<doc_request_body_sample_value(o.op.requestBody[1])>> ELSE <<>>)]

emit_doc_operation(o) == [path |-> o.path, method |-> o.verb, code |-> emit_doc_operation_code(o)]
emit_doc_path_items(items) ==
    {emit_doc_operation(o) : o \in OperationsAt(items, ClientVerbs) \cup CustomOperationsAt(items)}
to_docs_json(spec) ==
    [operations |-> emit_doc_path_items(PathsOf(spec)),
     webhooks   |-> emit_doc_path_items(value_or(spec.webhooks, <<>>))]

-----------------------------------------------------------------------------
\* What the three have to do with each other.

\* A literal is of a type of C++: a text is quoted, a number is a numeral.
IsOfType(literal, ctype) ==
    IF literal[1] = "quoted" THEN ctype = "std::string"
    ELSE CASE ctype = "bool" -> literal[2] \in {"true", "false"}
           [] ctype = "int"  -> IsNumeral(literal[2])
           [] OTHER          -> literal[2] = "1.0" \/ IsNumeral(literal[2])
Fits(code, method) ==
    /\ code.name = method.name
    /\ Len(code.args) = Len(method.params)
    /\ \A i \in DOMAIN code.args : IsOfType(code.args[i], method.params[i][1])

\* Where a snippet is known not to fit: an id that is no identifier of C++, a
\* number with a list of values, or with an example that is none, and a verb
\* that the Client has no methods for.
Misfit(o) ==
    \/ raw_name(o) # func_name(o)
    \/ \E p \in ToSet(collect_params(o)) :
          /\ param_cpp_type(p) # "std::string"
          /\ \/ p.example # <<>> /\ ~ IsOfType(Bare(p.example[1]), param_cpp_type(p))
             \/ p.example = <<>> /\ value_or(p.schema[1].enum_values, <<>>) # <<>>
SnippetsFit(spec) ==
    LET docs == to_docs_json(spec).operations
    IN \A o \in OperationsAt(PathsOf(spec), ClientVerbs) :
          ~ Misfit(o) => \E d \in docs, m \in Methods(spec) :
                            /\ <<d.path, d.method>> = <<o.path, o.verb>>
                            /\ <<m.path, m.verb>> = <<o.path, o.verb>>
                            /\ Fits(d.code, m)

\* A tool that is called by its listed name, with a value of the listed type for
\* every property, calls the method of its own operation with each value in the
\* place of the parameter it is for; if no other operation has the name, and no
\* two parameters share one.
Told(tool) ==
    [n \in {tool.properties[i][1] : i \in DOMAIN tool.properties} |->
        <<tool.properties[SelectInSeq(tool.properties, LAMBDA p : p[1] = n)][2], n>>]
NamesOf(tool) == [i \in DOMAIN tool.properties |-> tool.properties[i][1]]
ToolsFit(spec) ==
    \A o \in OperationsAt(PathsOf(spec), ToolVerbs) :
        LET t == Tool(o)
        IN Answering(spec, t.name) = {o} /\ IsInjective(NamesOf(t)) =>
              LET call == Execution(o, Told(t))
                  m    == Declaration(o)
              IN /\ call.name = m.name /\ Len(call.args) = Len(m.params)
                 /\ ToSet(t.required) \subseteq DOMAIN Told(t)
                 /\ \A i \in DOMAIN call.args : sanitize_cpp_identifier(call.args[i]) = m.params[i][2]
===============================================================================
