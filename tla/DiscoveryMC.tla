---------------------------- MODULE DiscoveryMC ----------------------------
(* Small instances of Discovery for TLC. *)
EXTENDS Discovery

(* Graphs of the structs with cycles of one, two and three of them; C may     *)
(* refer to VoidT too, a struct of the user that refers to A; the wrapper is  *)
(* a vector of A.                                                             *)
MCShapes == {[t \in Types |-> CASE t = "A" -> a [] t = "B" -> b [] t = "C" -> c
                                [] t \in {"VoidT", "vectorA"} -> {"A"}
                                [] t = "rpcpp__VoidT" -> {}] :
                a \in SUBSET {"A", "B"}, b \in SUBSET {"A", "C"}, c \in SUBSET {"A", "VoidT"}}

(* A method of a wrapper, one of several parameters, one that takes and       *)
(* returns nothing.                                                           *)
MCSignatures == {[params |-> <<"vectorA">>, ret |-> "B"],
                 [params |-> <<"C", "integer", "A">>, ret |-> "VoidT"],
                 [params |-> <<>>, ret |-> "rpcpp__VoidT"]}
=============================================================================
