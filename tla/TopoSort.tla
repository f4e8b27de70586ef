------------------------------ MODULE TopoSort ------------------------------
(* topoSort of json-schema/utils.ts: a depth-first search that puts each key  *)
(* after the keys its schema refers to.  One step is one pass through a loop  *)
(* or the end of a visit; the loops take their keys in any order.             *)
EXTENDS Integers, Sequences, SequencesExt

VARIABLES
    keys,       \* the keys to sort
    deps,       \* deps[k]: collectDirectRefs of k's schema
    todo,       \* keys the outer loop has not come to
    stack,      \* the calls of visit: a key, and the dependencies left to look at
    visited, visiting,
    result

tvars == <<keys, deps, todo, stack, visited, visiting, result>>

Idle == /\ todo = {} /\ stack = <<>> /\ visited = {} /\ visiting = {} /\ result = <<>>

(* topoSort is called. *)
Start(K, D) ==
    /\ keys' = K /\ deps' = D /\ todo' = K
    /\ UNCHANGED <<stack, visited, visiting, result>>

(* Mutant of Enter: a key being visited is visited again. *)
EnterRepeats(k, rest) ==
    IF k \in visited
    THEN stack' = rest /\ UNCHANGED visiting
    ELSE /\ stack' = Append(rest, [key |-> k, left |-> deps[k] \cap keys])
         /\ visiting' = visiting \cup {k}

(* visit(k), called over `rest`: it returns at once for a key that is done or *)
(* on the stack.                                                              *)
Enter(k, rest) ==
    IF k \in visited \cup visiting
    THEN stack' = rest /\ UNCHANGED visiting
    ELSE /\ stack' = Append(rest, [key |-> k, left |-> deps[k] \cap keys])
         /\ visiting' = visiting \cup {k}

(* for (const key of keys) visit(key) *)
NextKey(k) ==
    /\ stack = <<>> /\ k \in todo
    /\ todo' = todo \ {k}
    /\ Enter(k, <<>>)
    /\ UNCHANGED <<keys, deps, visited, result>>

(* Mutant of NextDependency: the loop does not advance. *)
NextDependencyStays(d) ==
    /\ stack # <<>> /\ d \in Last(stack).left
    /\ Enter(d, stack)
    /\ UNCHANGED <<keys, deps, todo, visited, result>>

(* for (const dep of getDeps(key)) if (keys.includes(dep)) visit(dep) *)
NextDependency(d) ==
    /\ stack # <<>> /\ d \in Last(stack).left
    /\ Enter(d, Append(Front(stack), [Last(stack) EXCEPT !.left = @ \ {d}]))
    /\ UNCHANGED <<keys, deps, todo, visited, result>>

(* Mutant of Leave: the key is not remembered as done. *)
LeaveUnmarked ==
    /\ stack # <<>> /\ Last(stack).left = {}
    /\ visiting' = visiting \ {Last(stack).key}
    /\ result' = Append(result, Last(stack).key)
    /\ stack' = Front(stack)
    /\ UNCHANGED <<keys, deps, todo, visited>>

(* Mutant of Leave: the order of a search from the top. *)
LeavePreOrder ==
    /\ stack # <<>> /\ Last(stack).left = {}
    /\ LET k == Last(stack).key
       IN /\ visiting' = visiting \ {k}
          /\ visited' = visited \cup {k}
          /\ result' = <<k>> \o result
    /\ stack' = Front(stack)
    /\ UNCHANGED <<keys, deps, todo>>

(* The visit ends: the key follows what it refers to. *)
Leave ==
    /\ stack # <<>> /\ Last(stack).left = {}
    /\ LET k == Last(stack).key
       IN /\ visiting' = visiting \ {k}
          /\ visited' = visited \cup {k}
          /\ result' = Append(result, k)
    /\ stack' = Front(stack)
    /\ UNCHANGED <<keys, deps, todo>>

SortStep == (\E k \in todo : NextKey(k)) \/ (\E d \in keys : NextDependency(d)) \/ Leave

Sorted == todo = {} /\ stack = <<>>
=============================================================================
