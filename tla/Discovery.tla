----------------------------- MODULE Discovery -----------------------------
(* From registration to generated code: a server's registry, the document     *)
(* rpc.discover or dumpSchema makes of it, and the code generator, which gets *)
(* it from a file or out of the server's output, declares its schemas in the  *)
(* order of topoSort and then an interface with a method for each of its own. *)
EXTENDS Registry, TopoSort

CONSTANTS NoDoc,
          MaxStray      \* bound on the lines a server prints before its answer

ASSUME StrayAssumption == MaxStray \in Nat

VARIABLES
    doc,        \* the document, or NoDoc before it was asked for
    stage,      \* of the generator: "idle", "scanning", "writing" (writeService), "threw"
    out,        \* the lines of the server's standard output, when it has closed
    next        \* the line the scan is at

fvars == <<stage, out, next>>
vars == <<rvars, tvars, doc, fvars>>

Init == /\ RInit /\ keys = {} /\ deps = Refers /\ Idle /\ doc = NoDoc
        /\ stage = "idle" /\ out = <<>> /\ next = 1

(* generateSchema. *)
Document == [schemas |-> schemas, refs |-> MethodRefs,
             methods |-> [n \in described |-> descr[n]]]

(* The generator reads what dumpSchema wrote.  (Later registrations would     *)
(* make another document; this is about one of them.)                         *)
ReadFile ==
    /\ stage = "idle"
    /\ doc' = Document
    /\ stage' = "writing"
    /\ Start(schemas, Refers)
    /\ UNCHANGED <<rvars, out, next>>

(* What a server may print besides the answer: text that is no JSON, a JSON   *)
(* value with neither error nor result, and an error (or null, which has no   *)
(* members to look at).                                                       *)
Stray == {"text", "notification", "error"}

(* The server is spawned with one request and the end of its input.  It ends  *)
(* with the document among its lines, with the error route makes of an        *)
(* exception out of generateSchema (a generated schema that is no object), or *)
(* with neither, by itself or by a signal, which may cut its last line short. *)
(* (What follows the answer is never looked at.)                              *)
Serve(before) ==
    /\ stage = "idle"
    /\ \/ out' = Append(before, "answer") /\ doc' = Document
       \/ out' \in {before, Append(before, "cut")} /\ UNCHANGED doc
       \/ generators # {} /\ out' = Append(before, "error") /\ UNCHANGED doc
    /\ stage' = "scanning"
    /\ UNCHANGED <<rvars, tvars, next>>

(* An exit code that is not zero, or no such executable: the output is not    *)
(* looked at.  Or no file, as dumpSchema threw.                               *)
Fail ==
    /\ stage = "idle"
    /\ stage' = "threw"
    /\ UNCHANGED <<rvars, tvars, doc, out, next>>

(* Mutant of Skip: a line that is no JSON is an error. *)
SkipStrict == /\ stage = "scanning" /\ next <= Len(out) /\ out[next] \in {"text", "cut", "notification"}
              /\ IF out[next] = "notification"
                 THEN next' = next + 1 /\ UNCHANGED stage
                 ELSE stage' = "threw" /\ UNCHANGED next
              /\ UNCHANGED <<rvars, tvars, doc, out>>

(* fetchSchemaFromExecutable, for each line in turn. *)
Skip == /\ stage = "scanning" /\ next <= Len(out) /\ out[next] \in {"text", "cut", "notification"}
        /\ next' = next + 1
        /\ UNCHANGED <<rvars, tvars, doc, stage, out>>

Found == /\ stage = "scanning" /\ next <= Len(out) /\ out[next] = "answer"
         /\ stage' = "writing"
         /\ Start(doc.schemas, Refers)
         /\ out' = <<>> /\ next' = 1       \* not needed any more
         /\ UNCHANGED <<rvars, doc>>

Throw == /\ stage = "scanning"
         /\ next <= Len(out) => out[next] = "error"
         /\ stage' = "threw"
         /\ UNCHANGED <<rvars, tvars, doc, out, next>>

Scan == Skip \/ Found \/ Throw

Lines == BoundedSeq(Stray, MaxStray)

(* The generator is done with the document, or with an exception. *)
Generated == stage = "writing" /\ Sorted
Ended     == Generated \/ stage = "threw"

Next ==
    \/ stage = "idle" /\ Register /\ UNCHANGED <<tvars, doc, fvars>>
    \/ ReadFile
    \/ Fail
    \/ \E b \in Lines : Serve(b)
    \/ Scan
    \/ stage = "writing" /\ SortStep /\ UNCHANGED <<rvars, doc, fvars>>
    \/ Ended /\ UNCHANGED vars

Spec == Init /\ [][Next]_vars

(* The generator is one thread of straight code. *)
FairSpec == Spec /\ WF_vars(Scan) /\ WF_vars(stage = "writing" /\ SortStep /\ UNCHANGED <<rvars, doc, fvars>>)

-----------------------------------------------------------------------------
(* generate: a declaration for each sorted key, in that order. *)
Declarations == result

(* writeService: the declared names its interface mentions. *)
Mentioned == doc.refs

Before(a, b) ==
    \E i, j \in 1..Len(Declarations) : i < j /\ Declarations[i] = a /\ Declarations[j] = b

(* a's schema leads back to itself through b. *)
OnCycle(a, b) == a = b \/ a \in Reaches(Refers, b)

(* A call of its name meets registration i: the last sync one, or the last    *)
(* async one where there is no sync one.                                      *)
SameName(i) == {j \in 1..Len(log) : log[j].name = log[i].name}
Met(i) == \A j \in SameName(i) : IF log[i].map = "sync" THEN log[j].map = "sync" => j <= i
                                                     ELSE log[j].map = "async" /\ j <= i

(* Registration i is the last that describes its name; the only one that      *)
(* describes parameters.                                                      *)
Describing(i) == {j \in SameName(i) : log[j].sig # Untyped}
LastDescribed(i) == i \in Describing(i) /\ \A j \in Describing(i) : j <= i
AloneDescribed(i) == \A j \in Describing(i) \ {i} : log[j].sig.params = <<>>

(* The values of the state; the stack holds the keys being visited, each once.*)
TypeOK ==
    /\ shape \in Shapes
    /\ \A n \in Names : handlers[n] \in Signatures \cup {NoHandler, Untyped}
    /\ \A n \in Names : asyncHandlers[n] \in Signatures \cup {NoHandler, Untyped}
    /\ generators \subseteq Types /\ described \subseteq Names /\ log \in Seq(Registration)
    /\ keys \subseteq Types /\ todo \subseteq keys
    /\ result \in Seq(keys)
    /\ {stack[i].key : i \in 1..Len(stack)} = visiting
    /\ Len(stack) = Cardinality(visiting)
    /\ stage \in {"idle", "scanning", "writing", "threw"}
    /\ out \in Seq(Stray \cup {"answer", "cut"}) /\ next \in 1..(Len(out) + 1)

(* No $ref of the document dangles, of a method or of a schema, for every way *)
(* the types may refer to each other, but a schema's $ref to a struct named   *)
(* "VoidT" that no method uses itself.                                        *)
RefsResolve ==
    doc # NoDoc => /\ doc.refs \subseteq doc.schemas
                   /\ \A t \in doc.schemas : Refers[t] \ doc.schemas \subseteq Skipped \ generators

(* The document against what a call meets, with names registered again, sync  *)
(* and async, typed and not.  A call meets the last registration of its name, *)
(* the sync before the async; if that is the last one described too, the      *)
(* document has its return type, and if no other added parameters, all of it. *)
DocumentMatchesDispatch ==
    doc # NoDoc =>
        \A i \in 1..Len(log) :
            LET n == log[i].name
            IN  Met(i) => /\ Dispatched(n) = log[i].sig
                          /\ LastDescribed(i) => doc.methods[n].ret = log[i].sig.ret
                          /\ LastDescribed(i) /\ AloneDescribed(i) => doc.methods[n] = log[i].sig

(* The generated module declares each schema of the document exactly once,    *)
(* and all that its interface mentions.                                       *)
EachDeclaredOnce ==
    Generated => /\ ToSet(Declarations) = doc.schemas
                 /\ Len(Declarations) = Cardinality(doc.schemas)
                 /\ Mentioned \subseteq ToSet(Declarations)

(* A schema is declared after the ones it refers to, but for references that  *)
(* close a cycle, where no order would do.                                    *)
DependenciesFirst ==
    Generated =>
        \A t \in doc.schemas : \A d \in Refers[t] \cap doc.schemas : Before(d, t) \/ OnCycle(t, d)

(* A server that printed its document and did not fail is not given up on for *)
(* what else it printed, unless an error stands before it: log lines and      *)
(* notifications are no matter, nor is a death by a signal.                   *)
AnswerIsFound ==
    stage = "threw" =>
        \A i \in 1..Len(out) : out[i] = "answer" => \E j \in 1..(i - 1) : out[j] = "error"

(* The generator ends, whatever the server printed and whatever cycles the    *)
(* types have.                                                                *)
GeneratorFinishes == stage # "idle" ~> Ended
=============================================================================
