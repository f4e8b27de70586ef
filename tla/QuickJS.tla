------------------------------ MODULE QuickJS ------------------------------
(* The in-process transport: who owns which QuickJS value while the Reader    *)
(* decodes one, the Writer builds one, and QuickJSTransport::drain delivers   *)
(* what other threads have queued.                                            *)
(*                                                                            *)
(* `stack` is the C++ stack of the JS thread: "read" and "write" are calls    *)
(* into qjs/, "drain" is the transport's loop and "deliver" the host's        *)
(* callback, which may keep the value, read it, or drain again.  Values are   *)
(* addresses, reused once they are freed; an object refers to its properties, *)
(* each with one reference.                                                   *)
EXTENDS Integers, Sequences, FiniteSets, SequencesExt

CONSTANTS
    Values,
    Items,      \* what other threads send
    Hollow,     \* items without a thunk
    None,
    MaxDepth,   \* bound on the JS thread's stack
    MaxGets     \* bound on the values one read fetches

ASSUME ItemAssumption == Hollow \subseteq Items /\ None \notin Values \cup Items
ASSUME BoundAssumption == MaxDepth \in Nat /\ MaxGets \in Nat

VARIABLES
    alive,      \* the allocated values
    refs,       \* their reference counts
    child,      \* child[v]: the values v's properties refer to
    host,       \* the values the host owns a reference to
    stack,
    sent,       \* the items sent
    queue,      \* the transport's queue
    calls,      \* calls[i]: how often the callback was called with item i
    lost        \* roots whose only reference an exception left behind

vars == <<alive, refs, child, host, stack, sent, queue, calls, lost>>
heap == <<alive, refs, child>>

Zero   == [v \in Values |-> 0]
One(v) == [Zero EXCEPT ![v] = 1]

Init == /\ alive = {} /\ refs = Zero /\ child = [v \in Values |-> {}]
        /\ host = {} /\ lost = {}
        /\ stack = <<>> /\ sent = {} /\ queue = {} /\ calls = [i \in Items |-> 0]

-----------------------------------------------------------------------------
(* The engine. *)
Reach(S) ==
    {v \in Values : \A C \in SUBSET Values : S \subseteq C /\ (\A u \in C : child[u] \subseteq C) => v \in C}

Links(v, S, props) == Cardinality({p \in S : v \in props[p]})

(* JS_FreeValue, b[v] times for each v, in an engine whose objects have the   *)
(* properties `props`: a value without references dies, and lets go of its    *)
(* properties, which may leave others without.                                *)
Release(b, props) ==
    LET Left(v, G) == refs[v] - b[v] - Links(v, G, props)
        gone == {v \in alive : \A G \in SUBSET alive : (\A u \in alive : Left(u, G) <= 0 => u \in G) => v \in G}
    IN /\ alive' = alive \ gone
       /\ refs' = [v \in Values |-> IF v \in gone THEN 0 ELSE Left(v, gone)]
       /\ child' = [v \in Values |-> IF v \in gone THEN {} ELSE props[v]]

Allocate(v, props) ==
    /\ v \notin alive
    /\ alive' = alive \cup {v}
    /\ refs' = [refs EXCEPT ![v] = 1]
    /\ child' = props

-----------------------------------------------------------------------------
(* The stack. *)
Top    == Last(stack)
In(op) == stack # <<>> /\ Top.op = op

(* Host code runs outside the library and in the callback. *)
HostRuns == stack = <<>> \/ In("deliver")

Push(f)    == Len(stack) < MaxDepth /\ stack' = Append(stack, f)
Replace(f) == stack' = Append(Front(stack), f)

Frame(op, root, item) == [op |-> op, root |-> root, item |-> item, owned |-> Zero]

(* An exception leaves the write or the callback, and the drain it is in. *)
Unwind == stack' = SubSeq(stack, 1, Len(stack) - (IF Top.item = None THEN 1 ELSE 2))

-----------------------------------------------------------------------------
(* Reader.  The host owns the root; a callback's value is drain's meanwhile.  *)
Read(r) ==
    /\ HostRuns
    /\ r \in host \/ (In("deliver") /\ r = Top.root)
    /\ Push(Frame("read", r, None))
    /\ UNCHANGED <<heap, host, sent, queue, calls, lost>>

Fetched == FoldFunction(+, 0, Top.owned)

Handles(f) == {f.root} \cup {v \in Values : f.owned[v] > 0}

(* Mutant of GetField: the value is freed at once and its handle kept. *)
GetFieldBorrowed(h, c) ==
    /\ In("read") /\ Fetched < MaxGets
    /\ h \in Handles(Top) /\ c \in child[h]
    /\ Replace([Top EXCEPT !.owned[c] = @ + 1])
    /\ UNCHANGED <<heap, host, sent, queue, calls, lost>>

(* get_field_*, read_array, read_object: JS_Get* hands over a reference, and  *)
(* track() keeps it.                                                          *)
GetField(h, c) ==
    /\ In("read") /\ Fetched < MaxGets
    /\ h \in Handles(Top) /\ c \in child[h]
    /\ refs' = [refs EXCEPT ![c] = @ + 1]
    /\ Replace([Top EXCEPT !.owned[c] = @ + 1])
    /\ UNCHANGED <<alive, child, host, sent, queue, calls, lost>>

(* JS_Get* may run a getter, which may take a property off any object of the  *)
(* host's; here it then yields nothing to track.                              *)
Getter(p, c) ==
    /\ In("read")
    /\ p \in Reach((host \cup {stack[k].root : k \in 1..Len(stack)}) \ {None}) /\ c \in child[p]
    /\ Release(One(c), [child EXCEPT ![p] = @ \ {c}])
    /\ UNCHANGED <<host, stack, sent, queue, calls, lost>>

(* Mutant of ReadEnds: a value fetched twice is freed once. *)
ReadEndsOnce ==
    /\ In("read")
    /\ Release([v \in Values |-> IF Top.owned[v] > 0 THEN 1 ELSE 0], child)
    /\ stack' = Front(stack)
    /\ UNCHANGED <<host, sent, queue, calls, lost>>

(* ~Reader, after a result or an error. *)
ReadEnds ==
    /\ In("read")
    /\ Release(Top.owned, child)
    /\ stack' = Front(stack)
    /\ UNCHANGED <<host, sent, queue, calls, lost>>

-----------------------------------------------------------------------------
(* Writer.  The host materializes the answer processMessage returned, or      *)
(* builds a request.                                                          *)
Write ==
    /\ HostRuns
    /\ Push(Frame("write", None, None))
    /\ UNCHANGED <<heap, host, sent, queue, calls, lost>>

(* *_as_root *)
NewRoot(v) ==
    /\ In("write") /\ Top.root = None
    /\ Allocate(v, child)
    /\ Replace([Top EXCEPT !.root = v])
    /\ UNCHANGED <<host, sent, queue, calls, lost>>

(* add_*_to_*: the parent takes over the reference to the new value. *)
AddChild(p, v) ==
    /\ In("write") /\ Top.root # None
    /\ p \in Reach({Top.root})
    /\ Allocate(v, [child EXCEPT ![p] = @ \cup {v}])
    /\ UNCHANGED <<host, stack, sent, queue, calls, lost>>

(* Mutant of AddFails: the exception is swallowed and an unset root returned. *)
AddFailsCaught ==
    /\ In("write") /\ Top.root # None
    /\ lost' = lost \cup {Top.root}
    /\ Replace(Frame("deliver", None, Top.item))
    /\ UNCHANGED <<heap, host, sent, queue, calls>>

(* For want of memory the root is an exception instead of an object, or       *)
(* JS_SetProperty* fails and has freed the child: the Writer throws, and no   *)
(* one frees the root.                                                        *)
AddFails ==
    /\ In("write")
    /\ lost' = lost \cup ({Top.root} \ {None})
    /\ Unwind
    /\ UNCHANGED <<heap, host, sent, queue, calls>>

(* write() returns the root: to the host, or to drain, which calls back. *)
WriteEnds ==
    /\ In("write") /\ Top.root # None
    /\ IF Top.item = None
       THEN host' = host \cup {Top.root} /\ stack' = Front(stack) /\ UNCHANGED calls
       ELSE /\ Replace(Frame("deliver", Top.root, Top.item))
            /\ calls' = [calls EXCEPT ![Top.item] = @ + 1]
            /\ UNCHANGED host
    /\ UNCHANGED <<heap, sent, queue, lost>>

-----------------------------------------------------------------------------
(* QuickJSTransport::send, on any thread. *)
Send(i) ==
    /\ i \notin sent
    /\ sent' = sent \cup {i} /\ queue' = queue \cup {i}
    /\ UNCHANGED <<heap, host, stack, calls, lost>>

Drain ==
    /\ HostRuns /\ Len(stack) < MaxDepth - 1
    /\ Push(Frame("drain", None, None))
    /\ UNCHANGED <<heap, host, sent, queue, calls, lost>>

(* Mutant of Dequeue: the item stays in the queue while it is delivered. *)
DequeuePeek(i) ==
    /\ In("drain") /\ i \in queue
    /\ Push(Frame("write", None, i))
    /\ UNCHANGED <<heap, host, sent, queue, calls, lost>>

(* try_dequeue; an item without a thunk is passed over. *)
Dequeue(i) ==
    /\ In("drain") /\ i \in queue
    /\ queue' = queue \ {i}
    /\ IF i \in Hollow THEN UNCHANGED stack ELSE Push(Frame("write", None, i))
    /\ UNCHANGED <<heap, host, sent, calls, lost>>

DrainEnds ==
    /\ In("drain") /\ queue = {}
    /\ stack' = Front(stack)
    /\ UNCHANGED <<heap, host, sent, queue, calls, lost>>

(* The callback keeps the value: JS_DupValue. *)
Dup ==
    /\ In("deliver") /\ Top.root \notin host
    /\ host' = host \cup {Top.root}
    /\ refs' = [refs EXCEPT ![Top.root] = @ + 1]
    /\ UNCHANGED <<alive, child, stack, sent, queue, calls, lost>>

CallbackReturns ==
    /\ In("deliver")
    /\ Release(One(Top.root), child)
    /\ stack' = Front(stack)
    /\ UNCHANGED <<host, sent, queue, calls, lost>>

(* The callback throws, and drain's JS_FreeValue is passed over. *)
CallbackThrows ==
    /\ In("deliver")
    /\ lost' = lost \cup {Top.root}
    /\ Unwind
    /\ UNCHANGED <<heap, host, sent, queue, calls>>

(* The host's JavaScript makes c a property of p as well.  (Cycles are for    *)
(* the engine's collector and are left out.)                                  *)
HostLinks(p, c) ==
    /\ HostRuns
    /\ p \in Reach(host) /\ c \in Reach(host) \ child[p] /\ p \notin Reach({c})
    /\ child' = [child EXCEPT ![p] = @ \cup {c}]
    /\ refs' = [refs EXCEPT ![c] = @ + 1]
    /\ UNCHANGED <<alive, host, stack, sent, queue, calls, lost>>

(* The host frees a value it owns. *)
HostFrees(v) ==
    /\ HostRuns /\ v \in host
    /\ host' = host \ {v}
    /\ Release(One(v), child)
    /\ UNCHANGED <<stack, sent, queue, calls, lost>>

-----------------------------------------------------------------------------
Next ==
    \/ \E v \in Values : Read(v) \/ NewRoot(v) \/ HostFrees(v)
    \/ \E v, w \in Values : GetField(v, w) \/ Getter(v, w) \/ AddChild(v, w) \/ HostLinks(v, w)
    \/ ReadEnds
    \/ Write \/ AddFails \/ WriteEnds
    \/ \E i \in Items : Send(i) \/ Dequeue(i)
    \/ Drain \/ DrainEnds
    \/ Dup \/ CallbackReturns \/ CallbackThrows

Spec == Init /\ [][Next]_vars

-----------------------------------------------------------------------------
(* The values of the state; library frames lie on the stack as calls nest.    *)
TypeOK ==
    /\ alive \subseteq Values /\ host \subseteq Values /\ lost \subseteq Values
    /\ refs \in [Values -> Nat]
    /\ child \in [Values -> SUBSET Values]
    /\ queue \subseteq sent /\ sent \subseteq Items /\ calls \in [Items -> Nat]
    /\ \A k \in 1..Len(stack) :
          /\ stack[k].root \in Values \cup {None} /\ stack[k].owned \in [Values -> Nat]
          /\ stack[k].item # None <=> k > 1 /\ stack[k - 1].op = "drain"
          /\ stack[k].op = "deliver" => stack[k].root \in alive

(* The references the code owns: the host's, those a reader tracks, the root  *)
(* of a value being written or delivered, and what exceptions have lost.      *)
Owns(f, v) == f.owned[v] + (IF f.op \in {"write", "deliver"} /\ f.root = v THEN 1 ELSE 0)

InUse(s, v) == UNION {{k} \X (1..Owns(s[k], v)) : k \in 1..Len(s)}

Owners(v) ==
    (IF v \in host THEN 1 ELSE 0) + (IF v \in lost THEN 1 ELSE 0) + Links(v, alive, child)
    + Cardinality(InUse(stack, v))

(* Every reference has exactly one owner, and every value a reference: what   *)
(* an exception lost is leaked and nothing else, and nothing is freed twice.  *)
ReferencesOwned == \A v \in alive : refs[v] = Owners(v) /\ refs[v] > 0

(* No handle outlives its value: what the Reader has fetched stays alive even *)
(* if a getter takes it off its object, and what the Writer populates is held *)
(* by its parents.                                                            *)
HandlesAlive ==
    \A k \in 1..Len(stack) :
        stack[k].op # "drain" => Handles(stack[k]) \ {None} \subseteq alive

(* An item reaches the callback at most once, though the callback may drain   *)
(* the queue it came from.                                                    *)
DeliveredOnce == \A i \in Items : calls[i] <= 1
=============================================================================
