-------------------------- MODULE MCGeneratedClient --------------------------
(***************************************************************************)
(* A client of a small API: reading, creating with and without a body,     *)
(* replacing and deleting.                                                 *)
(***************************************************************************)
EXTENDS GeneratedClient

MCOperations ==
    {[verb |-> v, body |-> FALSE] : v \in {"GET", "POST", "DELETE"}}
      \cup {[verb |-> v, body |-> TRUE] : v \in {"POST", "PUT"}}
==============================================================================
