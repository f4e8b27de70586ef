---------------------------- MODULE RpcProtocol ----------------------------
(* What the server does with one request frame: the routing of                *)
(* RpcServer::processMessage and RpcServer::route, as a classification of     *)
(* frames, and the set of answers each class may be given.                    *)
(*                                                                            *)
(* A frame is what the code distinguishes: whether the codec can read it,     *)
(* the version it names, its method, and whether its params decode into the   *)
(* method's parameter tuple.  The id is absent from this record because no    *)
(* branch of the server looks at it: a request without an id is routed and    *)
(* answered (with a null id) like any other.                                  *)

CONSTANTS
    Methods,        \* method names a request may carry
    SyncTyped,      \* registered by TypedRpcServer::addMethod
    SyncRaw,        \* registered by RpcServer::addHandler (rpc.discover is one)
    AsyncTyped,     \* registered by TypedRpcServer::addAsyncMethod
    AsyncRaw,       \* registered by RpcServer::addAsyncHandler
    Input           \* the frames the client sends

Frame == [parses : BOOLEAN, jsonrpc : {"2.0", "1.0"}, method : Methods, args : BOOLEAN]

(* Each handler map has one entry per name; a name may be in both maps. *)
ASSUME RegistryAssumption ==
    /\ SyncTyped \cap SyncRaw = {}
    /\ AsyncTyped \cap AsyncRaw = {}

ASSUME InputAssumption == Input \subseteq Frame

(* The response a frame gets: the JSON-RPC error it carries, or a result. *)
Outcomes == {"ParseError",        \* -32700
             "InvalidRequest",    \* -32600
             "MethodNotFound",    \* -32601
             "InvalidParams",     \* -32602
             "InternalError",     \* -32603, the what() of an exception
             "Abandoned",         \* -32603, every handle was dropped
             "Rejected",          \* the code a handler passed to reject
             "Result"}

-----------------------------------------------------------------------------
(* The if-chain of processMessage and route: read, version, sync map, async   *)
(* map, not found.  The sync map is looked up first and shadows the async     *)
(* one.                                                                       *)
Unreadable  == {f \in Input : ~f.parses}
WrongVersion == {f \in Input : f.parses /\ f.jsonrpc # "2.0"}
Routed      == {f \in Input : f.parses /\ f.jsonrpc = "2.0"}
SyncFrames  == {f \in Routed : f.method \in SyncTyped \cup SyncRaw}
AsyncFrames == {f \in Routed \ SyncFrames : f.method \in AsyncTyped \cup AsyncRaw}
TypedFrames == {f \in AsyncFrames : f.method \in AsyncTyped}
NotFound    == Routed \ (SyncFrames \cup AsyncFrames)

(* A typed method's params are decoded before the user's code runs: a sync    *)
(* method throws (-32603), an async one responds -32602.                      *)
BadSync  == {f \in SyncFrames : f.method \in SyncTyped /\ ~f.args}
BadAsync == {f \in TypedFrames : ~f.args}

(* Every outcome the code may answer a frame with.  A sync handler returns or *)
(* throws; an async one is resolved, rejected, throws, or is abandoned.       *)
MayAnswer(f) ==
    {o \in Outcomes :
        \/ f \in Unreadable /\ o = "ParseError"
        \/ f \in WrongVersion /\ o = "InvalidRequest"
        \/ f \in NotFound /\ o = "MethodNotFound"
        \/ f \in BadSync /\ o = "InternalError"
        \/ f \in SyncFrames \ BadSync /\ o \in {"Result", "InternalError"}
        \/ f \in BadAsync /\ o = "InvalidParams"
        \/ f \in AsyncFrames \ BadAsync
             /\ o \in {"Result", "Rejected", "InternalError", "Abandoned"}}
=============================================================================
