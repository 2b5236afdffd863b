------------------------------ MODULE Replacements ------------------------------
(***************************************************************************)
(* The payload of a workflow's step, as apply_payload_replacement          *)
(* (arazzo/expressions.cpp) leaves it: replacements are made in it one     *)
(* after the other, and between them there are calls that only read it.    *)
(***************************************************************************)
EXTENDS Expressions

CONSTANTS Payloads, Targets, Values,  \* of replacements: a value and what it means
          MaxReplacements             \* bound: how many replacements are made
ASSUME MaxReplacementsAssumption == MaxReplacements \in Nat
ASSUME TargetsAssumption == \A target \in Targets : target \in Seq(STRING)

VARIABLES body,          \* the payload, which is also the response's body
          replacements,  \* how many were made
          call           \* the call being made, with its answer
vars == <<body, replacements, call>>

\* WorkflowExecutionContext, with a response header h.
Context(payload, h) ==
    LET One(k, v) == [x \in {<<k>>} |-> v]
    IN [kind \in Kinds |->
          CASE kind = "$statusCode" -> 20
            [] kind \in Alone \ {"$statusCode"} -> <<"u">>
            [] kind = "$response.header." -> One("h", h)
            [] kind = "$response.body" -> payload
            [] kind = "$request.body" -> Null
            [] kind \in Keyed -> One("i", payload)
            [] kind \in Outputs -> One("s", One("o", payload))
            [] kind = "$components.parameters." -> One("p", Bool(FALSE))
            [] OTHER -> One("n", <<"u">>)]
NoHeader == <<>>

Idle == [what |-> "none"]
Init ==
    /\ body \in Payloads
    /\ replacements = 0
    /\ call = Idle

Replaced(target, new, r) ==
    /\ body' = IF IsOk(r) THEN r[2] ELSE body
    /\ call' = [what |-> "replace", target |-> target, new |-> new, outcome |-> IsOk(r)]
Replace(target, new) ==
    /\ call = Idle
    /\ replacements < MaxReplacements
    /\ replacements' = replacements + 1
    /\ \E r \in {apply_payload_replacement(body, target, new.value, Context(body, NoHeader))} :
           Replaced(target, new, r)

\* Any other call reads and answers.
Answer(c) ==
    /\ call' = c
    /\ UNCHANGED <<body, replacements>>

Return ==
    /\ call # Idle
    /\ call' = Idle
    /\ UNCHANGED <<body, replacements>>

ReplacementsNext ==
    \/ \E target \in Targets, new \in Values : Replace(target, new)
    \/ call = Idle /\ \E c : c.what # "replace" /\ Answer(c)
    \/ Return
ReplacementsSpec == Init /\ [][ReplacementsNext]_vars

-----------------------------------------------------------------------------
\* The pointer to a member of a member and so on, as RFC 6901 writes it.
Slash(c) == CASE c = "~" -> <<"~", "0">> [] c = "/" -> <<"~", "1">> [] OTHER -> <<c>>
Token(name)    == FlattenSeq([k \in DOMAIN name |-> Slash(name[k])])
Pointer(names) == FlattenSeq([i \in DOMAIN names |-> <<"/">> \o Token(names[i])])

\* The members and elements that a pointer passes.
Name(t)  == <<"name", t>>
Index(n) == <<"index", n>>
Place(v, token) == IF Is(v, "array") THEN Index(ElementOf(token)) ELSE Name(token)
Places(v, tokens) ==
    LET reach == Reach(v, tokens)
    IN [k \in DOMAIN tokens |-> Place(IF IsOk(reach[k - 1]) THEN reach[k - 1][2] ELSE Null, tokens[k])]
Apart(v, p, q) ==
    LET a == Places(v, Tokens(WithoutHash(p)))
        b == Places(v, Tokens(WithoutHash(q)))
    IN ~ IsPrefix(a, b) /\ ~ IsPrefix(b, a)
IsPointer(p) == is_valid_json_pointer(WithoutHash(p))

\* There is something to replace, or a map to add it to.
Present(p) == IsOk(evaluate_json_pointer(body, p))
HoldsMap(p) == Present(p) /\ Is(evaluate_json_pointer(body, p)[2], "map")
Replaceable(p) ==
    IsPointer(p) /\ (Present(p) \/ \E i \in DOMAIN p : p[i] = "/" /\ "/" \notin ToSet(After(p, i))
                                                     /\ HoldsMap(Before(p, i)))

\* What a replacement of p by new does, which is an outcome too: it succeeds
\* just when new was found and there is something to replace.  Afterwards p
\* finds new, and every pointer that leads elsewhere what it found before.  If it
\* fails, the payload is as before.
IsLocal(p, new) ==
    /\ call'.outcome <=> IsOk(new) /\ Replaceable(p)
    /\ IF call'.outcome
       THEN /\ evaluate_json_pointer(body', p) = new
            /\ \A q \in Targets : IsPointer(q) /\ Apart(body, p, q) =>
                   evaluate_json_pointer(body', q) = evaluate_json_pointer(body, q)
       ELSE body' = body

\* ReplaceIsLocal: a replacement succeeds just when its value can be found and
\* its target is in the payload, or can be added to a map of the payload.
\* Afterwards the target's pointer finds the value, and every pointer that
\* leads elsewhere finds what it found before; escapes, indices and earlier
\* replacements make no difference.  If it fails, the payload is as before.
ReplaceIsLocal ==
    [][call = Idle /\ call'.what = "replace" => IsLocal(call'.target, call'.new.means)]_vars
===============================================================================
