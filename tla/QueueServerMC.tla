--------------------------- MODULE QueueServerMC ---------------------------
(* Small instances of QueueServer for TLC. *)
EXTENDS QueueServer

MCMethods == {"add", "ask", "raw", "none"}

Call(m) == [parses |-> TRUE, jsonrpc |-> "2.0", method |-> m, args |-> TRUE]

(* Frames of every class. *)
EveryInput == {Call(m) : m \in MCMethods}
         \cup {[Call(m) EXCEPT !.args = FALSE] : m \in {"add", "ask"}}
         \cup {[Call("add") EXCEPT !.jsonrpc = "1.0"], [Call("add") EXCEPT !.parses = FALSE]}

Asks == {Call("ask")}
=============================================================================
