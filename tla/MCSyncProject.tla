---------------------------- MODULE MCSyncProject ----------------------------
(* Instances of SyncProject for TLC: one file of the developer's, a type of his
   own ("Pet", or "Node" with a field of its own type), and one helper class,
   ApiClientConfig, standing for those of client.hpp, client.cpp and the mocks. *)
EXTENDS SyncProject, SequencesExt

MCHelpers ==
    [f \in Generated |-> IF f \in {"src/client.hpp", Mocks} THEN {"ApiClientConfig"} ELSE {}]

\* The directory is iterated with the developer's file before the generated
\* ones, and of those models.hpp before client.hpp, or the other way round.
GeneratedFirst == <<Mocks>> \o WriteOrder \o <<"pets.hpp">>
CodeFirst      == <<"pets.hpp">> \o Reverse(WriteOrder) \o <<Mocks>>
MCScanOrders   == {GeneratedFirst, CodeFirst}
==============================================================================
