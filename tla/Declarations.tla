----------------------------- MODULE Declarations -----------------------------
(***************************************************************************)
(* Code that is generated from an API and read again: the Router of a      *)
(* server (server/emit.cpp, server/parse.cpp), standalone functions        *)
(* (functions), the handlers of a command line client (client_sdk_cli) and *)
(* the mocks of a client (mocks).  Code is the comment of the API, if any, *)
(* and a sequence of functions: a name, parameters, what the body says of  *)
(* the route, and the comment above it.                                    *)
(*                                                                         *)
(* An API is [api |-> its info, servers and schemes, paths |-> a function  *)
(* from paths to items]; a path is a sequence of words, one of them "{id}" *)
(* for a parameter id.  Where functions are found in the text is taken for *)
(* granted: no comment looks like a call.                                  *)
(***************************************************************************)
EXTENDS Comments

AllVerbs == <<"GET", "POST", "PUT", "DELETE", "PATCH", "OPTIONS", "HEAD", "TRACE", "QUERY">>
CliVerbs == <<"DELETE", "GET", "PATCH", "POST", "PUT">>     \* a std::map of names in lower case

\* The operations in the order they are printed.
Printed(spec, verbs) ==
    LET paths == SetToSeq(DOMAIN spec.paths)
        Of(p) == LET item == spec.paths[p]
                     used == SelectSeq(verbs, LAMBDA v : v \in DOMAIN item.operations)
                 IN [i \in DOMAIN used |-> [path |-> p, verb |-> used[i], item |-> item,
                                            op |-> item.operations[used[i]]]]
    IN FlattenSeq([i \in DOMAIN paths |-> Of(paths[i])])

cpp_type_to_openapi(ctype) ==
    CASE ctype = "int" -> "integer" [] ctype = "double" -> "number" [] ctype = "bool" -> "boolean"
      [] OTHER -> "string"
IsHole(path, name) == ("{" \o name \o "}") \in ToSet(path)

\* What the readers put together: an operation of a function.
NoItem == [summary |-> <<>>, description |-> <<>>, parameters |-> <<>>, operations |-> <<>>]
Described(f, lines, parameters, requestBody) ==
    [parse_operation_docstrings(lines) EXCEPT !.operationId = <<f.name>>, !.parameters = parameters,
                                              !.requestBody = requestBody]
\* Of two functions with the same route the later one counts.
PathsFrom(functions, Route(_), Operation(_)) ==
    LET At(p) == {i \in DOMAIN functions : Route(functions[i])[2] = p}
        VerbsAt(p) == {Route(functions[i])[1] : i \in At(p)}
        Of(p, v) == functions[Max({i \in At(p) : Route(functions[i])[1] = v})]
    IN [p \in {Route(functions[i])[2] : i \in DOMAIN functions} |->
           [NoItem EXCEPT !.operations = [v \in VerbsAt(p) |-> Operation(Of(p, v))]]]

ReadParameter(name, path, type) ==
    LET in == IF IsHole(path, name) THEN "path" ELSE "query"
    IN [name |-> name, in |-> in, required |-> in = "path", type |-> type,
        description |-> <<>>, example |-> <<>>, deprecated |-> FALSE]
ReadParameters(f, path, bodies) ==
    LET read == SelectSeq(f.params, LAMBDA p : p[2] \notin bodies)
    IN IF read = <<>> THEN <<>>
       ELSE << [i \in DOMAIN read |-> ReadParameter(read[i][2], path, <<cpp_type_to_openapi(read[i][1])>>)] >>
HasParameter(f, name) == \E i \in DOMAIN f.params : f.params[i][2] = name
TypeOf(p) == openapi_type_to_cpp(value_or(p.type, "string"))
\* The readers look for what is said of the API in the comments of functions, too.
Comments_(code) == code.head \o FlattenSeq([i \in DOMAIN code.functions |-> code.functions[i].comment])
WithPaths(said, paths) == IF said = Undefined THEN Undefined ELSE <<"ok", [api |-> said[2], paths |-> paths]>>
Scanned(lines, title, paths) ==
    WithPaths(parse_api_docstrings(lines, << <<"Parsed", title>> >>, << <<"1.0.0">> >>), paths)

-----------------------------------------------------------------------------
\* server: a comment of the API is printed, but the reader looks for it before
\* the first brace, and there is a namespace around it.

server_emit(spec) ==
    LET ops == Printed(spec, AllVerbs)
        Function(o) ==
            LET params == value_or(o.item.parameters, <<>>) \o value_or(o.op.parameters, <<>>)
            IN [name |-> value_or(o.op.operationId, "handler"), verb |-> o.verb, path |-> o.path,
                params |-> [i \in DOMAIN params |-> <<TypeOf(params[i]), params[i].name>>]
                             \o (IF o.op.requestBody # <<>> THEN << <<"std::string", "requestBody">> >> ELSE <<>>),
                comment |-> emit_path_docstrings(o.item)
                              \o emit_operation_docstrings([o.op EXCEPT !.parameters = <<params>>])]
    IN [head |-> emit_api_docstrings(spec.api), functions |-> [i \in DOMAIN ops |-> Function(ops[i])]]

\* The comment of a function goes back to the last brace before it, which may
\* be in the comment.
comments_block(lines) ==
    LET IsBrace(w) == w # "" /\ {SubSeq(w, 1, 1), SubSeq(w, Len(w), Len(w))} \cap {"{", "}"} # {}
        Braces(i) == {j \in DOMAIN lines[i] : IsBrace(lines[i][j])}
        with == {i \in DOMAIN lines : Braces(i) # {}}
    IN IF with = {} THEN lines
       ELSE LET i == Max(with)
            IN << SubSeq(lines[i], Max(Braces(i)), Len(lines[i])) >> \o SubSeq(lines, i + 1, Len(lines))
server_parse(code) ==
    LET Route(f) == <<f.verb, f.path>>
        Operation(f) ==
            Described(f, comments_block(f.comment), ReadParameters(f, f.path, {"requestBody"}),
                      IF HasParameter(f, "requestBody") THEN << [description |-> <<>>] >> ELSE <<>>)
    IN Scanned(<<>>, "Routes", PathsFrom(code.functions, Route, Operation))

-----------------------------------------------------------------------------
\* functions: the route is in a line of the comment.

RouteLine(o) == << <<"@route", o.verb>> \o o.path >>
functions_emit(spec) ==
    LET ops == Printed(spec, AllVerbs)
        Function(o) ==
            LET params == value_or(o.op.parameters, <<>>)
            IN [name |-> value_or(o.op.operationId, "request"), verb |-> "", path |-> <<>>,
                params |-> [i \in DOMAIN params |-> <<TypeOf(params[i]), params[i].name>>]
                             \o (IF o.op.requestBody # <<>> THEN << <<"std::string", "body">> >> ELSE <<>>),
                comment |-> RouteLine(o) \o emit_operation_docstrings(o.op)]
    IN [head |-> <<>>, functions |-> [i \in DOMAIN ops |-> Function(ops[i])]]

RouteRead(f, verb) ==
    LET said == extract_tag(docstring(f.comment), "@route")
    IN IF said = <<>> THEN <<verb, <<f.name>>>> ELSE <<Head(said[1][1]), Tail(said[1][1])>>
functions_parse(code) ==
    LET Route(f) == RouteRead(f, "GET")
        Operation(f) ==
            Described(f, docstring(f.comment), ReadParameters(f, Route(f)[2], {"body"}),
                      IF HasParameter(f, "body") THEN << [description |-> <<>>] >> ELSE <<>>)
    IN Scanned(Comments_(code), "Functions", PathsFrom(code.functions, Route, Operation))

-----------------------------------------------------------------------------
\* client_sdk_cli: descriptions and examples of parameters are in the comment
\* as well, as escaped as in a text of C++, and are read as they are.

sanitize_string(name) ==
    LET Char(i) == IF SubSeq(name, i, i) \in {".", "-", " ", "/"} THEN "_" ELSE SubSeq(name, i, i)
    IN FoldLeft(LAMBDA s, i : s \o Char(i), "", [i \in 1..Len(name) |-> i])
EscapeWord(word) ==
    LET Char(i) == LET c == SubSeq(word, i, i) IN IF c \in {"\"", "\\"} THEN "\\" \o c ELSE c
    IN FoldLeft(LAMBDA s, i : s \o Char(i), "", [i \in 1..Len(word) |-> i])
\* A line break becomes a word of the line.
escape_json_string(text) ==
    LET Words(line) == [i \in DOMAIN line |-> EscapeWord(line[i])]
    IN FlattenSeq([i \in DOMAIN text |-> (IF i = 1 THEN <<>> ELSE <<"\\n">>) \o Words(text[i])])

ParameterLines(p) ==
    << <<"@param", p.name>> \o (IF p.description = <<>> THEN <<p.in, "parameter">>
                                ELSE escape_json_string(p.description[1])) >>
      \o OfEach(p.example, LAMBDA t : << <<"@param_example", p.name>> \o escape_json_string(t) >>)
      \o (IF p.deprecated THEN << <<"@param_deprecated", p.name>> >> ELSE <<>>)
emit_cli(spec) ==
    LET ops == Printed(spec, CliVerbs)
        Function(o) ==
            LET params == value_or(o.op.parameters, <<>>)
            IN [name |-> sanitize_string(value_or(o.op.operationId, "op_7")), verb |-> "", path |-> <<>>,
                params |-> [i \in DOMAIN params |-> <<"std::string", sanitize_string(params[i].name)>>]
                             \o (IF o.op.requestBody # <<>> THEN << <<"std::string", "body">> >> ELSE <<>>),
                comment |-> emit_operation_docstrings(o.op) \o RouteLine(o)
                              \o FlattenSeq([i \in DOMAIN params |-> ParameterLines(params[i])])]
    IN [head |-> emit_api_docstrings(spec.api), functions |-> [i \in DOMAIN ops |-> Function(ops[i])]]

parse_param_tags(lines, name, tag) ==
    LET contents == [i \in DOMAIN lines |-> strip_comment_line_prefix(lines[i])]
        about == SelectSeq(contents, LAMBDA l : Begins(l, tag, 3) /\ l[2] = name)
    IN IF about = <<>> THEN <<>> ELSE << << SubSeq(Last(about), 3, Len(Last(about))) >> >>
CliParameter(f, name, path) ==
    LET lines == docstring(f.comment)
        hole  == IsHole(path, name)
    IN [name |-> name, in |-> IF hole THEN "path" ELSE "query", required |-> hole, type |-> <<>>,
        description |-> parse_param_tags(lines, name, "@param"),
        example     |-> parse_param_tags(lines, name, "@param_example"),
        deprecated  |-> <<"@param_deprecated", name>> \in ToSet(lines)]
cli_parse(code) ==
    LET Route(f) == RouteRead(f, "POST")
        Operation(f) ==
            LET read == SelectSeq(f.params, LAMBDA p : p[2] # "body")
                params == [i \in DOMAIN read |-> CliParameter(f, read[i][2], Route(f)[2])]
            IN Described(f, docstring(f.comment), IF params = <<>> THEN <<>> ELSE <<params>>,
                         IF HasParameter(f, "body") THEN << [description |-> << << <<"CLI", "body", "parameter">> >> >>] >>
                         ELSE <<>>)
    IN Scanned(Comments_(code), "CLI", PathsFrom(code.functions, Route, Operation))

-----------------------------------------------------------------------------
\* mocks: the name is all there is, and the route is guessed from it.

mocks_emit(spec) ==
    LET ops == Printed(spec, AllVerbs)
    IN [head |-> <<>>,
        functions |-> [i \in DOMAIN ops |->
            [name |-> sanitize_cpp_identifier(value_or(ops[i].op.operationId, "request")),
             verb |-> "", path |-> <<>>, params |-> <<>>, comment |-> <<>>]]]
MockPrefixes == << <<"get_", "GET">>, <<"post_", "POST">>, <<"put_", "PUT">>, <<"delete_", "DELETE">>,
                   <<"patch_", "PATCH">> >>
MockRoute(f) ==
    LET Starts(i) == /\ Len(f.name) >= Len(MockPrefixes[i][1])
                     /\ SubSeq(f.name, 1, Len(MockPrefixes[i][1])) = MockPrefixes[i][1]
        which == {i \in DOMAIN MockPrefixes : Starts(i)}
    IN IF which = {} THEN <<"GET", <<f.name>>>>
       ELSE LET p == MockPrefixes[CHOOSE i \in which : TRUE]
            IN <<p[2], << SubSeq(f.name, Len(p[1]) + 1, Len(f.name)) >> >>
mocks_parse(code) ==
    LET Operation(f) == Described(f, <<>>, <<>>, <<>>)
    IN Scanned(Comments_(code), "Mock Client", PathsFrom(code.functions, MockRoute, Operation))
===============================================================================
