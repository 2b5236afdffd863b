--------------------------- MODULE GeneratedClient ---------------------------
(***************************************************************************)
(* The Client that emit_client generates (client_sdk/emit.cpp), as a       *)
(* program uses it: one call after the other, each of which sets some      *)
(* options of the one CURL handle, performs a request with all options     *)
(* the handle has, and returns.  libcurl keeps an option until it is set   *)
(* again, and keeps the pointer to a body or to a list of headers, not     *)
(* what it points to.                                                      *)
(***************************************************************************)
EXTENDS Naturals

CONSTANTS Operations,   \* of the document: [verb, body]: has it a request body?
          Tokens,       \* bearer tokens that a server gives out
          MaxCalls      \* how many calls the program makes

VARIABLES curl,           \* <<>> if curl_easy_init failed, else <<the options of the handle>>
          bearer_token_,
          sent,           \* what the last call asked for and the request it made, if it made one
          result,         \* of the last call
          calls           \* how many there were
vars == <<curl, bearer_token_, sent, result, calls>>

NoToken  == ""
Unset    == "unset"

\* A text or a list that a call owns, during the call and after it has returned.
Mine     == "of this call"
Gone     == "of a call that has returned"
Returned(option) == IF option = Mine THEN Gone ELSE option

\* What libcurl does with the options it has.
Verb(options) ==
    CASE options.customrequest # Unset -> options.customrequest
      [] options.customrequest = Unset /\ options.postfields # Unset -> "POST"
      [] options.customrequest = Unset /\ options.postfields = Unset -> "GET"
Request(options) == [verb |-> Verb(options), body |-> options.postfields, headers |-> options.httpheader]

Init ==
    /\ curl \in {<<>>, <<[customrequest |-> Unset, postfields |-> Unset, httpheader |-> Unset]>>}
    /\ bearer_token_ \in {"special-key"} \cup Tokens
    /\ sent = <<>> /\ result = "none" /\ calls = 0

\* Every call begins and ends like this; expected is what the caller asked for.
Perform(options, expected) ==
    /\ calls < MaxCalls
    /\ calls' = calls + 1
    /\ sent' = [i \in DOMAIN curl |-> [wanted |-> expected, request |-> Request(options)]]
    /\ curl' = [i \in DOMAIN curl |->
                  [options EXCEPT !.postfields = Returned(@), !.httpheader = Returned(@)]]
Outcome(o) == result' = IF curl = <<>> THEN "error" ELSE o

\* A method of an operation.  There is a header for the type of a body and for
\* the token, and there may be one for the api key or a parameter.
Headers(o) == IF o.body \/ o.verb = "POST" \/ bearer_token_ # NoToken THEN {Mine} ELSE {Mine, Unset}
MethodOptions(o, headers) ==
    [curl[1] EXCEPT !.customrequest = IF o.verb = "GET" THEN @ ELSE o.verb,
                 !.postfields = CASE o.body -> Mine
                                  [] ~ o.body /\ o.verb = "POST" -> "empty"
                                  [] ~ o.body /\ o.verb # "POST" -> @,
                 !.httpheader = headers]
Method(o) ==
    /\ \E headers \in Headers(o) : Perform(MethodOptions(o, headers), o.verb)
    /\ \E outcome \in {"ok", "error"} : Outcome(outcome)
    /\ UNCHANGED bearer_token_

\* Also login and refresh: they ask an address of the server for a token, which
\* the answer need not have.
fetch_oauth2_token ==
    /\ Perform([curl[1] EXCEPT !.postfields = Mine], "POST")
    /\ \E token \in Tokens \cup {bearer_token_} :
          /\ Outcome("ok")
          /\ bearer_token_' = IF curl = <<>> THEN bearer_token_ ELSE token
TokenFails ==
    /\ Perform([curl[1] EXCEPT !.postfields = Mine], "POST")
    /\ Outcome("error")
    /\ UNCHANGED bearer_token_

fetch_oidc_configuration ==
    /\ Perform(curl[1], "GET")
    /\ \E outcome \in {"ok", "error"} : Outcome(outcome)
    /\ UNCHANGED bearer_token_

register_user ==
    /\ Perform([curl[1] EXCEPT !.postfields = "empty"], "POST")
    /\ \E outcome \in {"ok", "error"} : Outcome(outcome)
    /\ UNCHANGED bearer_token_

\* logout makes no request.
set_bearer_token(token) ==
    /\ calls < MaxCalls
    /\ calls' = calls + 1
    /\ bearer_token_' = token
    /\ sent' = <<>> /\ result' = "ok"
    /\ UNCHANGED curl
logout == set_bearer_token(NoToken)

\* A tool of a name that is not listed, or with arguments that are no JSON; any
\* other is a method.
UnknownTool ==
    /\ calls < MaxCalls
    /\ calls' = calls + 1
    /\ sent' = <<>> /\ result' = "error"
    /\ UNCHANGED <<curl, bearer_token_>>

Next ==
    \/ \E o \in Operations : Method(o)
    \/ fetch_oauth2_token \/ TokenFails
    \/ fetch_oidc_configuration
    \/ register_user
    \/ logout \/ \E token \in Tokens : set_bearer_token(token)
    \/ UnknownTool
Spec == Init /\ [][Next]_vars

\* SendsOwnMethod: a request has the verb of the operation whose method made it,
\* or the one that goes with what was asked of the client, whatever calls were
\* made before on the same handle.
SendsOwnMethod == sent # <<>> => sent[1].request.verb = sent[1].wanted
==============================================================================
