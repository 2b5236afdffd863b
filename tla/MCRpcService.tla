---------------------------- MODULE MCRpcService ----------------------------
(* A pool of one base and one dynamic thread; two connections; calls that
   generate an SDK, that are refused and that do nothing; stops. *)
EXTENDS RpcService, TLC

MCRunners == Threads \cup Terminals

Generate(input, command) ==
    [is |-> "message", version |-> "2.0", method |-> "tools/call", tool |-> "cdd_generate",
     args |-> [command |-> command, input |-> input, output |-> ""]]
Post(body) == [is |-> "post", body |-> body, close |-> FALSE]
MCRequests ==
    {Post(Generate("one", "")), Post(Generate("", "to_sdk")),
     [is |-> "stop", close |-> FALSE]}

Typed(command, sub, input, output) ==
    [command |-> command, sub |-> sub, input |-> input, output |-> output, help |-> FALSE,
     env_input |-> Unset, env_output |-> Unset]
MCInvocations ==
    {Typed("from_google_discovery", "to_sdk", "two", ""), Typed("to_openapi", "", "one", "spec.json"),
     Typed("to_docs_json", "", "unread", "spec.json"), Typed("to_docs_json", "", "misread", "spec.json")}
=============================================================================
