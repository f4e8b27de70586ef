--------------------------- MODULE StdioServerMC ---------------------------
(* Small instances of StdioServer for TLC. *)
EXTENDS StdioServer, TLC

MCMethods == {"add", "ask", "raw", "none"}

Ask(ok) == [parses |-> TRUE, jsonrpc |-> "2.0", method |-> "ask", args |-> ok]
RawCall == [parses |-> TRUE, jsonrpc |-> "2.0", method |-> "raw", args |-> TRUE]
Add     == [parses |-> TRUE, jsonrpc |-> "2.0", method |-> "add", args |-> TRUE]
Old     == [Add EXCEPT !.jsonrpc = "1.0"]
Garbled == [Add EXCEPT !.parses = FALSE]
Unknown == [Add EXCEPT !.method = "none"]

(* One frame of each class whose steps differ, and one of each class. *)
ThreadedInput == {Ask(TRUE), Ask(FALSE), RawCall, Add}
EveryInput    == ThreadedInput \cup {[Add EXCEPT !.args = FALSE], Old, Garbled, Unknown}

Symmetric == Permutations(Requests) \cup Permutations(Workers)
=============================================================================
