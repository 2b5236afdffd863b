------------------------------ MODULE RpcService ------------------------------
(***************************************************************************)
(* `cdd-cpp serve_json_rpc`: httplib's listener accepts connections and    *)
(* hands them to its ThreadPool, a thread of which serves one connection   *)
(* until it ends; POST / runs a command of cdd-cpp (Commands), GET /stop   *)
(* stops the listener.  Beside it, terminals run commands of their own.    *)
(***************************************************************************)
EXTENDS ThreadPool, Commands, FiniteSetsExt

CONSTANTS Terminals,    \* shells, and clients of `cdd-cpp mcp` on stdin
          Requests,     \* what may be sent on a connection
          Invocations,  \* the command lines that may be typed
          MaxRequests,  \* a bound
          MaxCount      \* keep_alive_max_count_
ASSUME RunnersAssumption == Runners = Threads \cup Terminals /\ Threads \cap Terminals = {}
ASSUME BoundsAssumption == MaxRequests \in Nat /\ MaxCount \in Nat \ {0}

VARIABLES svr_sock,     \* "open", "closed" by stop, or "failed"
          backlog,      \* the connections that wait for accept
          sent,         \* what each client has sent
          answers,      \* what each client got
          session       \* where each thread is with its connection

netVars == <<svr_sock, backlog, sent, answers>>
vars == <<poolVars, commandVars, netVars, session>>

-----------------------------------------------------------------------------
\* handle_mcp_cli_message

IsCall(body) == body.is = "message" /\ body.version = "2.0" /\ body.method = "tools/call"
Generates(body) == IsCall(body) /\ body.tool = "cdd_generate" /\ body.args.input # ""

\* The command that a call of cdd_generate runs.
Called(body) ==
    LET given == body.args
        CommandOf(command, sub, output) ==
            [command |-> command, sub |-> sub, input |-> given.input, output |-> output]
    IN CASE given.command \in {"to_openapi", "to_arazzo", "from_arazzo"} ->
                CommandOf(given.command, "to_sdk", given.output)
         [] OTHER -> CommandOf("from_openapi", IF given.command = "" THEN "to_sdk" ELSE given.command,
                           IF given.output = "" THEN "." ELSE given.output)

\* Mutant: the result of from_openapi is ignored too.
VerdictOk(body, rc) ==
    CASE body.is = "empty" -> -32601
      [] body.is = "text" -> -32700
      [] body.version # "2.0" -> -32600
      [] body.method \in {"initialize", "tools/list"} -> 0
      [] body.method # "tools/call" -> -32601
      [] body.tool \notin {"cdd_generate", "cdd_inspect", "cdd_sync"} -> -32601
      [] OTHER -> 0

\* The code of the error in the answer, or 0 for a result.  A "text" is no JSON
\* to the first stage of the parser; other junk has no version.
Verdict(body, rc) ==
    CASE body.is = "empty" -> -32601
      [] body.is = "text" -> -32700
      [] body.version # "2.0" -> -32600
      [] body.method \in {"initialize", "tools/list"} -> 0
      [] body.method # "tools/call" -> -32601
      [] body.tool \notin {"cdd_generate", "cdd_inspect", "cdd_sync"} -> -32601
      [] Generates(body) /\ Called(body).command = "from_openapi" /\ rc # 0 -> -32603
      [] OTHER -> 0

-----------------------------------------------------------------------------
Connected == Accepted \cup {backlog[i] : i \in DOMAIN backlog}

\* Bound: so many requests are sent and commands typed altogether, and a terminal
\* runs one.
MayAsk ==
    LET Plus(c, n) == n + Len(sent[c])
    IN FoldSet(Plus, Cardinality({w \in Terminals : run[w] # NoRun}), Jobs) < MaxRequests

\* Bound: either commands are typed or clients connect, never both (what two runs
\* do to each other is seen with two threads).
MayType(w) == run[w] = NoRun /\ MayAsk /\ Connected = {}
NothingTyped == \A w \in Terminals : run[w] = NoRun

\* The command line

\* get_arg_or_env: an environment variable that is set to nothing is a value.
Unset == "unset"
get_arg_or_env(given, env, def) ==
    IF given # "" THEN given ELSE IF env # Unset THEN env ELSE def

Default(command, sub) ==
    IF command \in Generators /\ (command = "from_google_discovery" => sub # "to_openapi")
    THEN "." ELSE ""
NeedsSub == {"from_openapi", "from_arazzo"}

\* main_impl and the run_ functions: an invocation that starts no command.
NotStarted(i) ==
    \/ i.command \notin Generators \cup Extractors
    \/ i.help
    \/ i.command \in NeedsSub /\ i.sub = ""
Resolved(i) ==
    LET sub == IF i.command = "from_google_discovery" /\ i.sub = "" THEN "to_openapi" ELSE i.sub
    IN [command |-> i.command, sub |-> sub,
        input |-> get_arg_or_env(i.input, i.env_input, ""),
        output |-> get_arg_or_env(i.output, i.env_output, Default(i.command, sub))]

\* run_from_openapi and the others, in a process of their own.
Invoke(w, i) ==
    /\ MayType(w)
    /\ ~ NotStarted(i)
    /\ Begin(w, Resolved(i))
    /\ UNCHANGED <<poolVars, netVars, session>>

\* mcp: a line from stdin.
Line(w, body) ==
    /\ MayType(w)
    /\ body.is # "empty"
    /\ Generates(body)
    /\ Begin(w, Called(body))
    /\ UNCHANGED <<poolVars, netVars, session>>

-----------------------------------------------------------------------------
\* The clients

\* Connections differ by their names only: they are used in a fixed order.
Connect(c) ==
    /\ svr_sock = "open" /\ NothingTyped
    /\ c \notin Connected /\ c = CHOOSE d \in Jobs \ Connected : TRUE
    /\ backlog' = Append(backlog, c)
    /\ \/ UNCHANGED sent
       \/ /\ MayAsk
          /\ \E r \in Requests : sent' = [sent EXCEPT ![c] = <<r>>]
    /\ UNCHANGED <<poolVars, commandVars, svr_sock, answers, session>>

\* A client goes on; one that sent nothing at first stays silent.
Send(c) ==
    /\ c \in Accepted \ ran /\ sent[c] # <<>>
    /\ MayAsk
    /\ \E r \in Requests : sent' = [sent EXCEPT ![c] = Append(@, r)]
    /\ UNCHANGED <<poolVars, commandVars, svr_sock, backlog, answers, session>>

-----------------------------------------------------------------------------
\* listen_internal

Accept ==
    /\ svr_sock = "open"
    /\ backlog # <<>>
    /\ Enqueue(Head(backlog))
    /\ backlog' = Tail(backlog)
    /\ UNCHANGED <<commandVars, svr_sock, sent, answers, session>>

\* accept fails for good: the socket is closed, svr_sock_ keeps its value.
AcceptFails ==
    /\ svr_sock = "open" /\ owner = "free" /\ ~ shutdown
    /\ faults < MaxFaults
    /\ faults' = faults + 1
    /\ svr_sock' = "failed"
    /\ UNCHANGED <<poolVars, fs, run, backlog, sent, answers, session>>

StopListening ==
    /\ svr_sock # "open" /\ ~ shutdown
    /\ Shutdown
    /\ UNCHANGED <<commandVars, netVars, session>>

-----------------------------------------------------------------------------
\* process_and_close_socket, in thread t

Fresh == [phase |-> "select", left |-> MaxCount]
Unread(c) == Len(answers[c]) < Len(sent[c])
In(t, phase) == thread[t] = "running" /\ session[t].phase = phase

\* A thread of the pool takes a connection, or does something else.
PoolStep(t) ==
    /\ Work(t)
    /\ UNCHANGED <<commandVars, netVars, session>>

\* keep_alive: select_read says that there is a request, at first or later.
Ready(t) ==
    /\ In(t, "select") \/ In(t, "poll")
    /\ Unread(task[t])

\* At first there was none.
Quiet(t) ==
    /\ In(t, "select")
    /\ ~ Unread(task[t])
    /\ session' = [session EXCEPT ![t].phase = "poll"]
    /\ UNCHANGED <<poolVars, commandVars, netVars>>

\* Mutant: the server socket is looked at before the first select_read.
HangUpAtOnce(t) ==
    /\ In(t, "poll") \/ In(t, "select")
    /\ svr_sock = "closed" \/ (In(t, "poll") /\ ~ Unread(task[t]))
    /\ Return(t)
    /\ session' = [session EXCEPT ![t] = Fresh]
    /\ UNCHANGED <<commandVars, netVars>>

\* Mutant: a silent connection is never given up.
HangUpAtStop(t) ==
    /\ In(t, "poll")
    /\ svr_sock = "closed"
    /\ Return(t)
    /\ session' = [session EXCEPT ![t] = Fresh]
    /\ UNCHANGED <<commandVars, netVars>>

\* The server socket was closed, the time is over, or the client hung up.
HangUp(t) ==
    /\ In(t, "poll")
    /\ svr_sock = "closed" \/ ~ Unread(task[t])
    /\ Return(t)
    /\ session' = [session EXCEPT ![t] = Fresh]
    /\ UNCHANGED <<commandVars, netVars>>

\* process_request wrote its response; the loop of process_server_socket_core.
Request(t) == sent[task[t]][Len(answers[task[t]]) + 1]
Respond(t, answer) ==
    /\ answers' = [answers EXCEPT ![task[t]] = Append(@, answer)]
    /\ session' = [session EXCEPT ![t] =
           [phase |-> IF Request(t).close \/ @.left = 1 THEN "over" ELSE "select", left |-> @.left - 1]]

\* What needs no command: a status, or the verdict on a POST.
IsPost(request) == request.is = "post"
RunsCommand(request) == IsPost(request) /\ Generates(request.body)
AnswerAtOnce(request) ==
    CASE request.is = "bad"     -> 400
      [] request.is = "unknown" -> 404
      [] request.is = "options" -> 200
      [] OTHER                  -> Verdict(request.body, 0)

ServeAtOnce(t) ==
    /\ Ready(t) /\ Request(t).is # "stop" /\ ~ RunsCommand(Request(t))
    /\ Respond(t, AnswerAtOnce(Request(t)))
    /\ UNCHANGED <<poolVars, commandVars, svr_sock, backlog, sent>>

\* GET /stop: Server::stop, with the assertion compiled out.
ServeStop(t) ==
    /\ Ready(t) /\ Request(t).is = "stop"
    /\ svr_sock' = "closed"
    /\ Respond(t, 200)
    /\ UNCHANGED <<poolVars, commandVars, backlog, sent>>

ServeCall(t) ==
    /\ Ready(t) /\ RunsCommand(Request(t))
    /\ Begin(t, Called(Request(t).body))
    /\ session' = [session EXCEPT ![t].phase = "command"]
    /\ UNCHANGED <<poolVars, netVars>>

Finish(t) ==
    /\ In(t, "command") /\ ~ Running(t)
    /\ Respond(t, Verdict(Request(t).body, run[t].rc))
    /\ run' = [run EXCEPT ![t] = NoRun]
    /\ UNCHANGED <<poolVars, fs, faults, svr_sock, backlog, sent>>

Close(t) ==
    /\ In(t, "over")
    /\ Return(t)
    /\ session' = [session EXCEPT ![t] = Fresh]
    /\ UNCHANGED <<commandVars, netVars>>

Serve(t) ==
    Quiet(t) \/ HangUp(t) \/ ServeAtOnce(t) \/ ServeStop(t) \/ ServeCall(t) \/ Finish(t) \/ Close(t)

-----------------------------------------------------------------------------
Init ==
    /\ PoolInit /\ CommandsInit
    /\ svr_sock = "open"
    /\ backlog = <<>>
    /\ sent = [c \in Jobs |-> <<>>]
    /\ answers = [c \in Jobs |-> <<>>]
    /\ session = [t \in Threads |-> Fresh]

Listener == Own /\ UNCHANGED <<commandVars, netVars, session>>
CommandStep(w) == Proceed(w) /\ UNCHANGED <<poolVars, netVars, session>>
Unasked(t) == Notice(t) /\ UNCHANGED <<commandVars, netVars, session>>
\* The process exits when shutdown returned; the terminals go on.
Over == owner = "done" /\ UNCHANGED vars

Next ==
    \/ \E c \in Jobs : Connect(c) \/ Send(c)
    \/ Accept \/ AcceptFails \/ StopListening \/ Listener
    \/ \E t \in Threads : PoolStep(t) \/ Serve(t) \/ Unasked(t)
    \/ \E w \in Runners : CommandStep(w)
    \/ \E w \in Terminals : \/ \E i \in Invocations : Invoke(w, i)
                            \/ \E r \in Requests : IsPost(r) /\ Line(w, r.body)
    \/ Over

Spec == Init /\ [][Next]_vars

\* Threads run, timeouts of idle connections pass, and commands go on.  No
\* client has to send, and no waiting thread has to wake up by itself.
FairSpec ==
    /\ Spec
    /\ WF_vars(Accept) /\ WF_vars(StopListening) /\ WF_vars(Listener)
    /\ \A t \in Threads : WF_vars(PoolStep(t)) /\ WF_vars(Serve(t))
    /\ \A w \in Runners : WF_vars(CommandStep(w))

-----------------------------------------------------------------------------
Phases == {"select", "poll", "command", "over"}

ServiceTypeOK ==
    /\ PoolTypeOK
    /\ CommandsTypeOK
    /\ svr_sock \in {"open", "closed", "failed"}
    /\ \A c \in Jobs : sent[c] \in Seq(Requests) /\ Len(answers[c]) <= Len(sent[c])
    /\ \A t \in Threads : session[t].phase \in Phases /\ session[t].left \in 0..MaxCount

\* OkMeansDone: when a call of cdd_generate that runs from_openapi is answered by
\* a result, the files are there, if no other run opened one of them meanwhile
\* and the disk was not full.
Answers(t) == Finish(t) /\ answers'[task[t]][Len(answers'[task[t]])] = 0
OkMeansDone ==
    [][\A t \in Threads :
          Answers(t) /\ run[t].args.command = "from_openapi" /\ run[t].alone /\ ~ run[t].full =>
              Complete(run[t]) /\ run[t].targets # <<>>]_vars

\* PromptIsAnswered: a connection that came with a request and was accepted is
\* not closed before that request is answered, even by a stop.
PromptIsAnswered == \A c \in ran : sent[c] # <<>> => answers[c] # <<>>

\* ConnectionsEnd: every connection that is accepted is served and closed.
ConnectionsEnd == Accepted # ran ~> Accepted = ran

\* StopReturns: once the server socket is closed, by GET /stop in a thread of the
\* pool or by an error of accept, listen returns.
StopReturns == svr_sock # "open" ~> owner = "done"

\* "assert(svr_sock_ != INVALID_SOCKET);" (utils/httplib.h:11381): when a handler
\* stops the server it is not stopped yet.
StopFindsSocket == [][\A t \in Threads : ServeStop(t) => svr_sock # "closed"]_vars
===============================================================================
