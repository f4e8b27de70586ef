------------------------------ MODULE Registry ------------------------------
(* Registration in TypedRpcServer and RpcServer, and the OpenRPC document     *)
(* generateSchema makes of it.                                                *)
(*                                                                            *)
(* A type is what its schema is to the document: a struct, which reflect-cpp  *)
(* puts under $defs by name and others refer to, or a wrapper (a vector, an   *)
(* optional), whose schema stands where it is used.  A plain type is a class  *)
(* too (rpcpp::VoidT, std::string) but methods say "null" or "string" for it. *)
(* Scalars have no schema.                                                    *)
EXTENDS Integers, Sequences, FiniteSets, SequencesExt

CONSTANTS
    Names,          \* method names
    Structs, Wrappers, Scalars,
    Plain,          \* the types methods do not refer to
    Skipped,        \* the structs whose name under $defs is "VoidT"
    Shapes,         \* the ways types may refer to structs
    Signatures,     \* what is registered: parameter types and a return type
    NoHandler, Untyped,
    MaxAdds         \* bound on the registrations

Types == Structs \cup Wrappers

ASSUME TypeAssumption == Plain \subseteq Types /\ Skipped \subseteq Structs
ASSUME ShapeAssumption == Shapes \subseteq [Types -> SUBSET Structs]
ASSUME SignatureAssumption ==
    Signatures \subseteq [params : Seq(Types \cup Scalars), ret : Types \cup Scalars]
ASSUME HandlerAssumption == NoHandler \notin Signatures \cup {Untyped} /\ Untyped \notin Signatures

VARIABLES
    shape,          \* shape[t]: the structs the schema of type t refers to
    handlers,       \* RpcServer::_handlers
    asyncHandlers,  \* RpcServer::_asyncHandlers
    generators,     \* _schemaGenerators, by type
    described,      \* the names in _methodSchemas
    descr,          \* _methodSchemas
    log             \* history: the registrations, in their order

rvars == <<shape, handlers, asyncHandlers, generators, described, descr, log>>

RInit == /\ shape \in Shapes
         /\ handlers = [n \in Names |-> NoHandler]
         /\ asyncHandlers = [n \in Names |-> NoHandler]
         /\ generators = {} /\ described = {}
         /\ descr = [n \in Names |-> [params |-> <<>>, ret |-> NoHandler]]
         /\ log = <<>>

-----------------------------------------------------------------------------
Maps == {"sync", "async"}
Registration == [name : Names, map : Maps, sig : Signatures \cup {Untyped}]

Added(n, map, s) == /\ Len(log) < MaxAdds
                    /\ log' = Append(log, [name |-> n, map |-> map, sig |-> s])

(* Mutant of addSchemaGenerator: a return type is forgotten. *)
GeneratorsOfParams(s) == generators' = generators \cup (ToSet(s.params) \cap Types)

(* addSchemaGenerator, for each class type of the signature. *)
addSchemaGenerators(s) == generators' = generators \cup ((ToSet(s.params) \cup {s.ret}) \cap Types)

(* addParam for each parameter in turn, then addReturn.  The parameters of a  *)
(* name that is registered again follow those it has.                         *)
describe(n, s) ==
    /\ described' = described \cup {n}
    /\ descr' = [descr EXCEPT ![n] = [params |-> @.params \o s.params, ret |-> s.ret]]

(* Mutant of addMethod: the first handler of a name is kept (emplace). *)
addMethodEmplaces(n, s) ==
    /\ Added(n, "sync", s) /\ addSchemaGenerators(s) /\ describe(n, s)
    /\ handlers' = [handlers EXCEPT ![n] = IF @ = NoHandler THEN s ELSE @]
    /\ UNCHANGED <<shape, asyncHandlers>>

(* addMethod and addAsyncMethod: one description, and an entry in one map. *)
addMethod(n, s) ==
    /\ Added(n, "sync", s) /\ addSchemaGenerators(s) /\ describe(n, s)
    /\ handlers' = [handlers EXCEPT ![n] = s]
    /\ UNCHANGED <<shape, asyncHandlers>>

addAsyncMethod(n, s) ==
    /\ Added(n, "async", s) /\ addSchemaGenerators(s) /\ describe(n, s)
    /\ asyncHandlers' = [asyncHandlers EXCEPT ![n] = s]
    /\ UNCHANGED <<shape, handlers>>

(* addHandler and addAsyncHandler describe nothing. *)
addHandler(n) ==
    /\ Added(n, "sync", Untyped)
    /\ handlers' = [handlers EXCEPT ![n] = Untyped]
    /\ UNCHANGED <<shape, asyncHandlers, generators, described, descr>>

addAsyncHandler(n) ==
    /\ Added(n, "async", Untyped)
    /\ asyncHandlers' = [asyncHandlers EXCEPT ![n] = Untyped]
    /\ UNCHANGED <<shape, handlers, generators, described, descr>>

Register ==
    \E n \in Names :
        \/ \E s \in Signatures : addMethod(n, s) \/ addAsyncMethod(n, s)
        \/ addHandler(n) \/ addAsyncHandler(n)

-----------------------------------------------------------------------------
(* What t leads to by the references of g: itself if it is a struct, the      *)
(* structs it refers to, those they refer to, and no others.                  *)
Reaches(g, t) ==
    LET Closed(S) == /\ ({t} \cap Structs) \cup g[t] \subseteq S
                     /\ \A u \in S : g[u] \subseteq S
    IN {d \in Structs : \A S \in SUBSET Structs : Closed(S) => d \in S}

(* The $defs of the schema reflect-cpp makes of type t. *)
Defs(t) == Reaches(shape, t)

(* The loop over them leaves out the one named "VoidT". *)
Exported(t) == Defs(t) \ Skipped

(* Mutant of schemas: only the inner $defs are exported. *)
schemasInner == UNION {Exported(t) : t \in generators}

(* generateSchema: the types under components.schemas, namely what is         *)
(* exported of the $defs of every generator, and what it generates itself,    *)
(* under its own name.  (Discovery!Serve has the exceptions.)                 *)
schemas == (UNION {Exported(t) : t \in generators}) \cup generators

(* What the schema under t's name refers to.  Where t's own definition was    *)
(* left out there is the top of what was generated: a $ref to t.              *)
Refers == [t \in Types |-> IF t \in Skipped THEN {t} ELSE shape[t]]

(* The $refs of the methods. *)
MethodRefs == UNION {(ToSet(descr[n].params) \cup {descr[n].ret}) \cap (Types \ Plain) : n \in described}

(* What route finds under a name: the sync map shadows the async one. *)
Dispatched(n) == IF handlers[n] # NoHandler THEN handlers[n] ELSE asyncHandlers[n]
=============================================================================
