----------------------- MODULE StdioReferenceProofs ------------------------
(* Who holds what of a call, for every set of requests and workers: first     *)
(* that the in-flight counter is exact, then the references to a call's       *)
(* Resolver and to its context, and what a thread inside the library may      *)
(* still rely on.                                                             *)
EXTENDS StdioServerProofs, FiniteSetTheorems

-----------------------------------------------------------------------------
(* The in-flight counter.                                                     *)
(* A position at which a thread is ending the call it is there for: in        *)
(* ~AsyncContext::State.                                                      *)
ClosingAt(p) == p.at = "complete" \/ (p.at = "send" /\ p.then = "complete")

(* The positions between dispatchAsync's make_shared and the end of its       *)
(* scope, and those in which the typed wrapper still has its Resolver.        *)
InDispatch(p) == \/ p.at \in {"user", "encode", "claim", "release", "leaveResolver", "leaveContext"}
                 \/ p.at = "send" /\ p.then # "complete"
InWrapper(p)  == \/ p.at \in {"user", "leaveResolver"}
                 \/ p.at \in Responding /\ p.then \in {"user", "leaveResolver"}

(* dispatchAsync holds the context of the call it is in, and of no other, to  *)
(* its end; the wrapper holds a Resolver only of that call, and drops it      *)
(* first; only a destructor goes on to complete a call; one thread does, and  *)
(* when no reference is left.                                                 *)
HandleInv ==
    /\ \A r \in Requests : Main \in crefs[r] <=> InDispatch(thr[Main]) /\ thr[Main].call = r
    /\ \A r \in Requests : Main \in rrefs[r] => IsTyped(r) /\ InWrapper(thr[Main]) /\ thr[Main].call = r
    /\ \A t \in Threads : thr[t].at \in {"encode", "claim"} => thr[t].then # "complete"
    /\ \A t \in Threads, r \in Requests : Closing(t, r) =>
           crefs[r] = {} /\ \A u \in Threads : Closing(u, r) => u = t

OpenSet == {r \in Requests : Open(r)}

CountInv == HandleInv /\ IsFiniteSet(OpenSet) /\ inflight = Cardinality(OpenSet)

(* A step of one thread that leaves the contexts and the counter alone, and   *)
(* the thread as much, or as little, at the end of a call as it was.          *)
LEMMA MoveCount ==
    ASSUME TypeInv, CountInv, NEW t \in Threads, NEW p,
           thr' = [thr EXCEPT ![t] = p], UNCHANGED <<crefs, inflight>>,
           ClosingAt(p) <=> ClosingAt(thr[t]),
           ClosingAt(p) => p.call = thr[t].call,
           p.at \in {"encode", "claim"} => p.then # "complete",
           t = Main => (InDispatch(p) <=> InDispatch(thr[Main])),
           t = Main /\ InDispatch(p) => p.call = thr[Main].call,
           \A q \in Requests : Main \in rrefs'[q] => Main \in rrefs[q] /\ (t = Main => InWrapper(p)),
           \A q \in Requests : IsTyped(q) => IsTyped(q)'
    PROVE  CountInv'
<1>1. \A u \in Threads : thr'[u] = IF u = t THEN p ELSE thr[u]
    BY DEF TypeInv, TypeOK
<1>2. Main \in Threads
    BY DEF Threads
<1>3. \A u \in Threads, q \in Requests : Closing(u, q)' <=> Closing(u, q)
    BY <1>1 DEF Closing, ClosingAt
<1>4. OpenSet' = OpenSet
    BY <1>3 DEF OpenSet, Open
<1>5. ASSUME NEW q \in Requests
      PROVE  Main \in crefs'[q] <=> InDispatch(thr'[Main]) /\ thr'[Main].call = q
    <2>1. Main \in crefs[q] <=> InDispatch(thr[Main]) /\ thr[Main].call = q
        BY DEF CountInv, HandleInv
    <2>2. /\ InDispatch(thr'[Main]) <=> InDispatch(thr[Main])
          /\ InDispatch(thr'[Main]) => thr'[Main].call = thr[Main].call
        BY <1>1, <1>2
    <2> QED BY <2>1, <2>2
<1>6. ASSUME NEW q \in Requests, Main \in rrefs'[q]
      PROVE  IsTyped(q)' /\ InWrapper(thr'[Main]) /\ thr'[Main].call = q
    <2>1. Main \in rrefs[q] /\ IsTyped(q) /\ InWrapper(thr[Main]) /\ thr[Main].call = q
        BY <1>6 DEF CountInv, HandleInv
    <2>2. CASE t # Main
        BY <1>1, <1>2, <2>1, <2>2
    <2>3. CASE t = Main
        <3>1. InWrapper(p) /\ thr'[Main] = p
            BY <1>1, <1>2, <1>6, <2>3
        <3>2. InDispatch(p)
            BY <3>1 DEF InWrapper, InDispatch, Responding
        <3> QED BY <2>1, <2>3, <3>1, <3>2
    <2> QED BY <2>2, <2>3
<1>7. \A u \in Threads : thr'[u].at \in {"encode", "claim"} => thr'[u].then # "complete"
    BY <1>1 DEF CountInv, HandleInv
<1>8. \A u \in Threads, q \in Requests : Closing(u, q)' =>
          crefs'[q] = {} /\ \A v \in Threads : Closing(v, q)' => v = u
    BY <1>3 DEF CountInv, HandleInv
<1>9. HandleInv'
    BY <1>5, <1>6, <1>7, <1>8 DEF HandleInv
<1> QED BY <1>4, <1>9 DEF CountInv

(* The last reference to a context is exchanged for the duty to complete its  *)
(* call; any other reference is just dropped.                                 *)
LEMMA DropContextCount ==
    ASSUME TypeInv, CountInv, NEW t \in Threads, NEW r \in Requests, NEW ref, NEW after,
           DropContext(t, r, ref, after),
           after \in (Continuations \ {"complete"}) \cup {"idle"},
           ~ClosingAt(thr[t]),
           \/ t # Main /\ ref # Main
           \/ t = Main /\ ref = Main /\ after = "idle" /\ thr[Main].at = "leaveContext" /\ thr[Main].call = r
           \/ t = Main /\ ref # Main /\ after = "leaveContext" /\ thr[Main].at = "release" /\ thr[Main].call = r
    PROVE  CountInv'
<1>0. /\ thr \in [Threads -> Position] /\ Main \in Threads
      /\ crefs \in [Requests -> SUBSET (Threads \cup {Closures})]
      /\ UNCHANGED <<frame, rrefs, inflight>>
      /\ crefs' = [crefs EXCEPT ![r] = @ \ {ref}]
    BY DEF TypeInv, TypeOK, Threads, DropContext
<1>1. PICK p : /\ thr' = [thr EXCEPT ![t] = p]
               /\ \/ crefs[r] # {ref} /\ p = Jump(t, after)
                  \/ crefs[r] = {ref} /\ ClosingAt(p) /\ p.call = r /\ ~InDispatch(p)
               /\ p.at \notin {"encode", "claim"}
    <2>1. Jump(t, after).at \notin {"encode", "claim"}
        BY DEF Jump, Resting, Continuations
    <2>2. CASE crefs[r] # {ref} /\ thr' = [thr EXCEPT ![t] = Jump(t, after)]
        BY <2>1, <2>2
    <2>3. CASE crefs[r] = {ref} /\ Enter(t, "complete", r, NoOutcome, Nowhere)
        <3> DEFINE e == [at |-> "complete", call |-> r, out |-> NoOutcome, then |-> Nowhere]
        <3>1. thr' = [thr EXCEPT ![t] = e]
            BY <2>3 DEF Enter
        <3>2. ClosingAt(e) /\ e.call = r /\ ~InDispatch(e) /\ e.at \notin {"encode", "claim"}
            BY DEF ClosingAt, InDispatch
        <3> HIDE DEF e
        <3> QED BY <2>3, <3>1, <3>2
    <2>4. CASE crefs[r] = {ref} /\ Enter(t, "send", r, "Abandoned", "complete")
        <3> DEFINE e == [at |-> "send", call |-> r, out |-> "Abandoned", then |-> "complete"]
        <3>1. thr' = [thr EXCEPT ![t] = e]
            BY <2>4 DEF Enter
        <3>2. ClosingAt(e) /\ e.call = r /\ ~InDispatch(e) /\ e.at \notin {"encode", "claim"}
            BY DEF ClosingAt, InDispatch
        <3> HIDE DEF e
        <3> QED BY <2>4, <3>1, <3>2
    <2> QED BY <2>2, <2>3, <2>4 DEF DropContext
<1>2. \A u \in Threads : thr'[u] = IF u = t THEN p ELSE thr[u]
    BY <1>0, <1>1
<1>3. ~ClosingAt(Jump(t, after))
    BY DEF Jump, Resting, ClosingAt, Continuations
<1>4. \A u \in Threads, q \in Requests :
          Closing(u, q)' <=> IF u = t THEN crefs[r] = {ref} /\ q = r ELSE Closing(u, q)
    BY <1>1, <1>2, <1>3 DEF Closing, ClosingAt
<1>5. \A q \in Requests : ~Closing(t, q)
    BY DEF Closing, ClosingAt
<1>6. \A q \in Requests : crefs'[q] = IF q = r THEN crefs[r] \ {ref} ELSE crefs[q]
    BY <1>0
<1>7. ASSUME NEW q \in Requests PROVE Open(q)' <=> Open(q)
    <2>1. CASE q # r
        BY <1>4, <1>5, <1>6, <2>1 DEF Open
    <2>2. CASE q = r /\ crefs[r] = {ref}
        BY <1>4, <2>2 DEF Open
    <2>3. CASE q = r /\ crefs[r] # {ref}
        <3>1. crefs'[r] = {} <=> crefs[r] = {}
            BY <1>6, <2>3
        <3> QED BY <1>4, <1>5, <2>3, <3>1 DEF Open
    <2> QED BY <2>1, <2>2, <2>3
<1>8. OpenSet' = OpenSet
    BY <1>7 DEF OpenSet
<1>9. ASSUME NEW q \in Requests
      PROVE  Main \in crefs'[q] <=> InDispatch(thr'[Main]) /\ thr'[Main].call = q
    <2>1. Main \in crefs[q] <=> InDispatch(thr[Main]) /\ thr[Main].call = q
        BY DEF CountInv, HandleInv
    <2>2. CASE t # Main /\ ref # Main
        BY <1>0, <1>2, <1>6, <2>1, <2>2
    <2>3. CASE t = Main /\ ref = Main /\ after = "idle" /\ thr[Main].at = "leaveContext" /\ thr[Main].call = r
        <3>1. ~InDispatch(Jump(Main, "idle"))
            BY DEF Jump, Resting, InDispatch
        <3>2. ~InDispatch(thr'[Main])
            BY <1>0, <1>1, <1>2, <2>3, <3>1
        <3>3. Main \notin crefs'[q]
            BY <1>6, <2>1, <2>3
        <3> QED BY <3>2, <3>3
    <2>4. CASE t = Main /\ ref # Main /\ after = "leaveContext" /\ thr[Main].at = "release" /\ thr[Main].call = r
        <3>1. Main \in crefs[r]
            BY <2>4 DEF CountInv, HandleInv, InDispatch
        <3>2. thr'[Main] = Jump(Main, "leaveContext")
            BY <1>0, <1>1, <1>2, <2>4, <3>1
        <3>3. InDispatch(thr'[Main]) /\ thr'[Main].call = r
            BY <2>4, <3>2 DEF Jump, InDispatch
        <3>4. InDispatch(thr[Main])
            BY <2>4 DEF InDispatch
        <3> QED BY <1>6, <2>1, <2>4, <3>3, <3>4
    <2> QED BY <2>2, <2>3, <2>4
<1>10. ASSUME NEW q \in Requests, Main \in rrefs'[q]
       PROVE  IsTyped(q)' /\ InWrapper(thr'[Main]) /\ thr'[Main].call = q
    <2>1. Main \in rrefs[q] /\ IsTyped(q) /\ InWrapper(thr[Main]) /\ thr[Main].call = q
        BY <1>0, <1>10 DEF CountInv, HandleInv
    <2>2. t # Main
        BY <2>1 DEF InWrapper, Responding
    <2> QED BY <1>0, <1>2, <2>1, <2>2 DEF IsTyped
<1>11. \A u \in Threads : thr'[u].at \in {"encode", "claim"} => thr'[u].then # "complete"
    BY <1>1, <1>2 DEF CountInv, HandleInv
<1>12. ASSUME NEW u \in Threads, NEW q \in Requests, Closing(u, q)'
       PROVE  crefs'[q] = {} /\ \A v \in Threads : Closing(v, q)' => v = u
    <2>1. CASE u = t
        <3>1. crefs[r] = {ref} /\ q = r
            BY <1>4, <1>12, <2>1
        <3>2. \A v \in Threads : ~Closing(v, r)
            BY <3>1 DEF CountInv, HandleInv
        <3> QED BY <1>4, <1>6, <2>1, <3>1, <3>2
    <2>2. CASE u # t
        <3>1. Closing(u, q) /\ crefs[q] = {} /\ \A v \in Threads : Closing(v, q) => v = u
            BY <1>4, <1>12, <2>2 DEF CountInv, HandleInv
        <3>2. ~(crefs[r] = {ref} /\ q = r)
            BY <3>1
        <3> QED BY <1>4, <1>6, <3>1, <3>2
    <2> QED BY <2>1, <2>2
<1>13. HandleInv'
    BY <1>9, <1>10, <1>11, <1>12 DEF HandleInv
<1> QED BY <1>0, <1>8, <1>13 DEF CountInv

(* A thread jumps: to the end of the call if it was there, else within it.    *)
LEMMA JumpCount ==
    ASSUME TypeInv, CountInv, NEW t \in Threads, NEW place \in Continuations,
           thr' = [thr EXCEPT ![t] = Jump(t, place)], UNCHANGED <<frame, crefs, inflight>>,
           ClosingAt(thr[t]) <=> place = "complete",
           t = Main => (InDispatch(thr[Main]) <=> place # "complete"),
           \A q \in Requests : Main \in rrefs'[q] =>
               Main \in rrefs[q] /\ (t = Main => place \in {"user", "leaveResolver"})
    PROVE  CountInv'
<1> DEFINE p == Jump(t, place)
<1>1. /\ ClosingAt(p) <=> place = "complete"
      /\ ClosingAt(p) => p.call = thr[t].call
      /\ p.at \notin {"encode", "claim"}
    BY DEF Jump, Resting, Continuations, ClosingAt
<1>2. ASSUME t = Main
      PROVE  /\ InDispatch(p) <=> place # "complete"
             /\ p.call = thr[Main].call
             /\ place \in {"user", "leaveResolver"} => InWrapper(p)
    BY <1>2 DEF Jump, Continuations, InDispatch, InWrapper
<1>3. \A q \in Requests : IsTyped(q) => IsTyped(q)'
    BY DEF IsTyped
<1> HIDE DEF p
<1> QED BY <1>1, <1>2, <1>3, MoveCount DEF p

(* A thread enters library code, not to complete a call; Main only for the    *)
(* call it is in.                                                             *)
LEMMA EnterCount ==
    ASSUME TypeInv, CountInv, NEW t \in Threads, NEW r, NEW o, NEW next,
           NEW place \in {"encode", "claim", "send", "release"},
           Enter(t, place, r, o, next), UNCHANGED <<frame, crefs, inflight>>,
           ~ClosingAt(thr[t]), place \in Responding => next # "complete",
           t = Main => InDispatch(thr[Main]) /\ thr[Main].call = r,
           \A q \in Requests : Main \in rrefs'[q] =>
               Main \in rrefs[q] /\ (t = Main => place \in Responding /\ next \in {"user", "leaveResolver"})
    PROVE  CountInv'
<1> DEFINE p == [at |-> place, call |-> r, out |-> o, then |-> next]
<1>1. /\ thr' = [thr EXCEPT ![t] = p] /\ p.call = r
      /\ ~ClosingAt(p) /\ InDispatch(p)
      /\ p.at \in {"encode", "claim"} => p.then # "complete"
      /\ place \in Responding /\ next \in {"user", "leaveResolver"} => InWrapper(p)
    BY DEF Enter, ClosingAt, InDispatch, InWrapper, Responding
<1>2. \A q \in Requests : IsTyped(q) => IsTyped(q)'
    BY DEF IsTyped
<1> HIDE DEF p
<1> QED BY <1>1, <1>2, MoveCount

(* Main goes on outside any call.                                             *)
LEMMA LoopCount ==
    ASSUME TypeInv, CountInv, NEW p,
           thr' = [thr EXCEPT ![Main] = p], UNCHANGED <<rrefs, crefs, inflight>>,
           ~ClosingAt(thr[Main]), ~InDispatch(thr[Main]), ~ClosingAt(p), ~InDispatch(p),
           \A q \in Requests : IsTyped(q) => IsTyped(q)'
    PROVE  CountInv'
<1>1. \A q \in Requests : Main \notin rrefs[q]
    BY DEF CountInv, HandleInv, InWrapper, InDispatch, Responding
<1>2. p.at \notin {"encode", "claim"} /\ Main \in Threads
    BY DEF InDispatch, Threads
<1> QED BY <1>1, <1>2, MoveCount

(* So the counter never goes below zero. *)
LEMMA NeverNegative == CountInv => inflight \in Nat
BY FS_CardinalityType DEF CountInv

(* No thread moves. *)
LEMMA StillCount ==
    ASSUME CountInv, UNCHANGED <<rrefs, crefs, inflight, thr>>,
           \A q \in Requests : IsTyped(q) => IsTyped(q)'
    PROVE  CountInv'
<1>1. \A u \in Threads, q \in Requests : Closing(u, q)' <=> Closing(u, q)
    BY DEF Closing
<1>2. OpenSet' = OpenSet
    BY <1>1 DEF OpenSet, Open
<1>3. HandleInv'
    BY <1>1 DEF CountInv, HandleInv
<1> QED BY <1>2, <1>3 DEF CountInv

(* Reading a frame makes no request typed that was not, and none untyped.     *)
LEMMA ReadTyped ==
    ASSUME TypeInv, NEW r \in Requests, NEW f, frame[r] = Unread, frame' = [frame EXCEPT ![r] = f]
    PROVE  \A q \in Requests : IsTyped(q) => IsTyped(q)'
<1>1. Unread \notin TypedFrames
    BY FrameAssumption DEF TypedFrames, AsyncFrames, SyncFrames, Routed
<1> QED BY <1>1 DEF IsTyped, TypeInv, TypeOK

(* dispatchAsync opens a call that was not open. *)
LEMMA DispatchCount ==
    ASSUME TypeInv, OnceInv, CountInv, NEW r \in Requests, NEW f, DispatchAsync(r, f)
    PROVE  CountInv'
<1>0. /\ thr \in [Threads -> Position] /\ Main \in Threads
      /\ rrefs \in [Requests -> SUBSET Threads]
      /\ crefs \in [Requests -> SUBSET (Threads \cup {Closures})]
      /\ thr[Main].at = "idle" /\ frame[r] = Unread /\ frame' = [frame EXCEPT ![r] = f]
      /\ inflight' = inflight + 1
    BY DEF TypeInv, TypeOK, Threads, DispatchAsync
<1>1. PICK p :
          /\ thr' = [thr EXCEPT ![Main] = p]
          /\ crefs' = [crefs EXCEPT ![r] = {Main}] \/ crefs' = [crefs EXCEPT ![r] = {Main, Closures}]
          /\ p.call = r /\ InDispatch(p) /\ ~ClosingAt(p)
          /\ p.at \in {"encode", "claim"} => p.then # "complete"
          /\ \/ UNCHANGED rrefs
             \/ rrefs' = [rrefs EXCEPT ![r] = {Main}] /\ InWrapper(p) /\ f \in TypedFrames
    <2> DEFINE a == [at |-> "claim", call |-> r, out |-> "InvalidParams", then |-> "leaveContext"]
               b == [at |-> "user", call |-> r, out |-> NoOutcome, then |-> Nowhere]
    <2>1. \/ thr' = [thr EXCEPT ![Main] = a] /\ crefs' = [crefs EXCEPT ![r] = {Main}] /\ UNCHANGED rrefs
          \/ /\ thr' = [thr EXCEPT ![Main] = b] /\ crefs' = [crefs EXCEPT ![r] = {Main, Closures}]
             /\ rrefs' = [rrefs EXCEPT ![r] = {Main}] /\ f \in TypedFrames
          \/ thr' = [thr EXCEPT ![Main] = b] /\ crefs' = [crefs EXCEPT ![r] = {Main}] /\ UNCHANGED rrefs
        BY DEF DispatchAsync, Enter
    <2>2. /\ a.call = r /\ InDispatch(a) /\ ~ClosingAt(a) /\ a.then # "complete"
          /\ b.call = r /\ InDispatch(b) /\ ~ClosingAt(b) /\ InWrapper(b) /\ b.at = "user"
        BY DEF InDispatch, InWrapper, ClosingAt
    <2> HIDE DEF a, b
    <2> QED BY <2>1, <2>2
<1>2. \A u \in Threads : thr'[u] = IF u = Main THEN p ELSE thr[u]
    BY <1>0, <1>1
<1>3. Main \in crefs'[r] /\ \A q \in Requests : q # r => crefs'[q] = crefs[q]
    BY <1>0, <1>1
<1>4. \A u \in Threads, q \in Requests : Closing(u, q)' <=> Closing(u, q)
    BY <1>0, <1>1, <1>2 DEF Closing, ClosingAt
<1>5. frame[r] \notin AsyncFrames
    BY <1>0, FrameAssumption DEF AsyncFrames, SyncFrames, Routed
<1>6. \A u \in Threads : ~Closing(u, r)
    BY <1>5 DEF OnceInv, Closing, Claiming, ForACall
<1>7. crefs[r] = {} /\ ~Open(r)
    BY <1>5, <1>6 DEF OnceInv, Open
<1>8. \A q \in Requests : Open(q)' <=> Open(q) \/ q = r
    BY <1>1, <1>3, <1>4 DEF Open
<1>9. OpenSet' = OpenSet \cup {r} /\ r \notin OpenSet
    BY <1>7, <1>8 DEF OpenSet
<1>10. IsFiniteSet(OpenSet') /\ inflight' = Cardinality(OpenSet')
    BY <1>0, <1>9, FS_AddElement DEF CountInv
<1>11. ~InDispatch(thr[Main]) /\ ~InWrapper(thr[Main])
    BY <1>0 DEF InDispatch, InWrapper, Responding
<1>12. \A q \in Requests : Main \notin crefs[q] /\ Main \notin rrefs[q]
    BY <1>11 DEF CountInv, HandleInv
<1>13. \A q \in Requests : Main \in crefs'[q] <=> InDispatch(thr'[Main]) /\ thr'[Main].call = q
    BY <1>0, <1>1, <1>2, <1>3, <1>12
<1>14. ASSUME NEW q \in Requests, Main \in rrefs'[q]
       PROVE  IsTyped(q)' /\ InWrapper(thr'[Main]) /\ thr'[Main].call = q
    <2>1. q = r /\ InWrapper(p) /\ f \in TypedFrames
        BY <1>0, <1>1, <1>12, <1>14
    <2>2. frame'[r] = f
        BY <1>0 DEF TypeInv, TypeOK
    <2> QED BY <1>0, <1>1, <1>2, <2>1, <2>2 DEF IsTyped
<1>15. \A u \in Threads : thr'[u].at \in {"encode", "claim"} => thr'[u].then # "complete"
    BY <1>1, <1>2 DEF CountInv, HandleInv
<1>16. ASSUME NEW u \in Threads, NEW q \in Requests, Closing(u, q)'
       PROVE  crefs'[q] = {} /\ \A v \in Threads : Closing(v, q)' => v = u
    <2>1. Closing(u, q) /\ q # r
        BY <1>4, <1>6, <1>16
    <2> QED BY <1>3, <1>4, <2>1 DEF CountInv, HandleInv
<1>17. HandleInv'
    BY <1>13, <1>14, <1>15, <1>16 DEF HandleInv
<1> QED BY <1>10, <1>17 DEF CountInv

(* A copy of a raw handler's handle is one more reference to an open call. *)
LEMMA CopyCount ==
    ASSUME TypeInv, CountInv, NEW w \in Workers, NEW r \in Requests, CopyHandle(w, r)
    PROVE  CountInv'
<1>0. /\ thr[Main].at = "user" /\ thr[Main].call = r /\ w # Main
      /\ UNCHANGED <<frame, inflight, thr>>
      /\ rrefs \in [Requests -> SUBSET Threads]
      /\ crefs \in [Requests -> SUBSET (Threads \cup {Closures})]
    BY ThreadAssumption DEF CopyHandle, TypeInv, TypeOK
<1>1. \A u \in Threads, q \in Requests : Closing(u, q)' <=> Closing(u, q)
    BY <1>0 DEF Closing
<1>2. Main \in crefs[r]
    BY <1>0 DEF CountInv, HandleInv, InDispatch
<1>3. \A q \in Requests : \/ crefs'[q] = crefs[q]
                          \/ q = r /\ crefs'[q] = crefs[q] \cup {w}
    <2>1. UNCHANGED crefs \/ crefs' = [crefs EXCEPT ![r] = @ \cup {w}]
        BY DEF CopyHandle
    <2> QED BY <1>0, <2>1
<1>4. \A q \in Requests : Main \in rrefs'[q] <=> Main \in rrefs[q]
    BY <1>0 DEF CopyHandle
<1>5. OpenSet' = OpenSet
    BY <1>1, <1>2, <1>3 DEF OpenSet, Open
<1>6. HandleInv'
    <2>1. \A q \in Requests : Main \in crefs'[q] <=> InDispatch(thr'[Main]) /\ thr'[Main].call = q
        BY <1>0, <1>3 DEF CountInv, HandleInv
    <2>2. \A q \in Requests : Main \in rrefs'[q] => IsTyped(q)' /\ InWrapper(thr'[Main]) /\ thr'[Main].call = q
        BY <1>0, <1>4 DEF CountInv, HandleInv, IsTyped
    <2>3. \A u \in Threads : thr'[u].at \in {"encode", "claim"} => thr'[u].then # "complete"
        BY <1>0 DEF CountInv, HandleInv
    <2>4. \A u \in Threads, q \in Requests : Closing(u, q)' =>
              crefs'[q] = {} /\ \A v \in Threads : Closing(v, q)' => v = u
        <3>1. \A u \in Threads : ~Closing(u, r)
            BY <1>2 DEF CountInv, HandleInv
        <3> QED BY <1>1, <1>3, <3>1 DEF CountInv, HandleInv
    <2> QED BY <2>1, <2>2, <2>3, <2>4 DEF HandleInv
<1> QED BY <1>0, <1>5, <1>6 DEF CountInv

(* The fetch_sub at the end of a call: the call is no longer open. *)
LEMMA CompleteCount ==
    ASSUME TypeInv, CountInv, NEW t \in Threads, Complete(t)
    PROVE  CountInv'
<1>0. /\ thr \in [Threads -> Position] /\ thr[t].at = "complete"
      /\ UNCHANGED <<frame, rrefs, crefs>> /\ inflight' = inflight - 1
    BY DEF TypeInv, TypeOK, Complete
<1>1. PICK r \in Requests : r = thr[t].call
    BY <1>0 DEF Position, ForACall
<1>2. PICK p : /\ thr' = [thr EXCEPT ![t] = p]
               /\ p.at = "notify" \/ p.at = IF t = Main THEN "idle" ELSE "user"
    <2>1. Jump(t, "notify").at = "notify" /\ Resting(t).at = IF t = Main THEN "idle" ELSE "user"
        BY DEF Jump, Resting
    <2>2. thr' = [thr EXCEPT ![t] = Jump(t, "notify")] \/ thr' = [thr EXCEPT ![t] = Resting(t)]
        BY DEF Complete
    <2> QED BY <2>1, <2>2
<1>3. \A u \in Threads : thr'[u] = IF u = t THEN p ELSE thr[u]
    BY <1>0, <1>2
<1>4. \A u \in Threads, q \in Requests : Closing(u, q)' <=> u # t /\ Closing(u, q)
    BY <1>2, <1>3 DEF Closing
<1>5. \A u \in Threads, q \in Requests : u = t => (Closing(u, q) <=> q = r)
    BY <1>0, <1>1 DEF Closing
<1>6. crefs[r] = {} /\ \A u \in Threads : Closing(u, r) => u = t
    BY <1>1, <1>5 DEF CountInv, HandleInv
<1>7. OpenSet' = OpenSet \ {r} /\ r \in OpenSet
    <2>1. Open(r) /\ ~Open(r)'
        BY <1>0, <1>1, <1>4, <1>5, <1>6 DEF Open
    <2>2. \A q \in Requests : q # r => (Open(q)' <=> Open(q))
        BY <1>0, <1>4, <1>5 DEF Open
    <2> QED BY <1>1, <2>1, <2>2 DEF OpenSet
<1>8. IsFiniteSet(OpenSet') /\ inflight' = Cardinality(OpenSet')
    BY <1>0, <1>7, FS_RemoveElement DEF CountInv
<1>9. HandleInv'
    <2>1. Main \in Threads /\ (t = Main => ~InDispatch(p) /\ ~InDispatch(thr[Main]))
        BY <1>0, <1>2 DEF Threads, InDispatch
    <2>2. \A q \in Requests : Main \in crefs'[q] <=> InDispatch(thr'[Main]) /\ thr'[Main].call = q
        BY <1>0, <1>3, <2>1 DEF CountInv, HandleInv
    <2>3. ASSUME NEW q \in Requests, Main \in rrefs'[q]
          PROVE  IsTyped(q)' /\ InWrapper(thr'[Main]) /\ thr'[Main].call = q
        <3>1. IsTyped(q) /\ InWrapper(thr[Main]) /\ thr[Main].call = q
            BY <1>0, <2>3 DEF CountInv, HandleInv
        <3>2. t # Main
            BY <1>0, <3>1 DEF InWrapper, Responding
        <3> QED BY <1>0, <1>3, <2>1, <3>1, <3>2 DEF IsTyped
    <2>4. \A u \in Threads : thr'[u].at \in {"encode", "claim"} => thr'[u].then # "complete"
        BY <1>2, <1>3 DEF CountInv, HandleInv
    <2>5. \A u \in Threads, q \in Requests : Closing(u, q)' =>
              crefs'[q] = {} /\ \A v \in Threads : Closing(v, q)' => v = u
        BY <1>0, <1>4 DEF CountInv, HandleInv
    <2> QED BY <2>2, <2>3, <2>4, <2>5 DEF HandleInv
<1> QED BY <1>8, <1>9 DEF CountInv

(* A wake-up concerns no call. *)
LEMMA NotifyCount ==
    ASSUME TypeInv, CountInv, NEW t \in Threads, Notify(t)
    PROVE  CountInv'
<1>0. /\ thr[t].at = "notify" /\ UNCHANGED <<frame, rrefs, crefs, inflight>> /\ Main \in Threads
      /\ thr' = [u \in Threads |-> IF u = t THEN Resting(t) ELSE Wake(thr[u])]
    BY DEF Notify, NotifyUnlocked, Threads
<1>1. \A u \in Threads : \/ thr'[u] = thr[u]
                         \/ /\ thr[u].at \in {"notify", "asleep"}
                            /\ thr'[u].at \in {"idle", "lock"} \/ (u # Main /\ thr'[u].at = "user")
    <2> TAKE u \in Threads
    <2>1. CASE u = t
        BY <1>0, <2>1 DEF Resting
    <2>2. CASE u # t
        <3>1. thr'[u] = Wake(thr[u]) /\ thr[u] \in Position
            BY <1>0, <2>2 DEF TypeInv, TypeOK
        <3>2. CASE thr[u].at = "asleep"
            BY <3>1, <3>2 DEF Wake, Position
        <3> QED BY <3>1, <3>2 DEF Wake
    <2> QED BY <2>1, <2>2
<1>2. \A u \in Threads, q \in Requests : Closing(u, q)' <=> Closing(u, q)
    BY <1>1 DEF Closing
<1>3. OpenSet' = OpenSet
    BY <1>0, <1>2 DEF OpenSet, Open
<1>4. \/ thr'[Main] = thr[Main]
      \/ ~InDispatch(thr[Main]) /\ ~InDispatch(thr'[Main]) /\ ~InWrapper(thr[Main])
    BY <1>0, <1>1 DEF InDispatch, InWrapper, Responding
<1>5. \A u \in Threads : thr'[u].at \in {"encode", "claim"} => thr'[u].then # "complete"
    BY <1>1 DEF CountInv, HandleInv
<1>6. HandleInv'
    BY <1>0, <1>2, <1>4, <1>5 DEF CountInv, HandleInv, IsTyped
<1> QED BY <1>0, <1>3, <1>6 DEF CountInv

LEMMA DropResolverCount ==
    ASSUME TypeInv, CountInv, NEW t \in Threads, NEW r \in Requests, NEW after,
           DropResolver(t, r, after),
           \/ t # Main /\ after = "user" /\ thr[t].at = "user"
           \/ t = Main /\ after = "leaveContext" /\ thr[Main].at = "leaveResolver" /\ thr[Main].call = r
    PROVE  CountInv'
<1>0. UNCHANGED <<frame, crefs, inflight>> /\ after \in Continuations /\ after # "complete"
    BY DEF DropResolver, Continuations
<1>1. ~ClosingAt(thr[t]) /\ (t = Main => InDispatch(thr[Main]) /\ thr[Main].call = r)
    BY DEF ClosingAt, InDispatch
<1>2. \A q \in Requests : Main \in rrefs'[q] => Main \in rrefs[q] /\ t # Main
    <2>1. \A q \in Requests : rrefs'[q] = IF q = r THEN rrefs[r] \ {t} ELSE rrefs[q]
        BY DEF DropResolver, TypeInv, TypeOK
    <2>2. \A q \in Requests : t = Main /\ Main \in rrefs[q] => q = r
        BY <1>1 DEF CountInv, HandleInv
    <2> QED BY <2>1, <2>2
<1>3. CASE thr' = [thr EXCEPT ![t] = Jump(t, after)]
    BY <1>0, <1>1, <1>2, <1>3, JumpCount
<1>4. CASE Enter(t, "release", r, NoOutcome, Nowhere)
    <2>1. "release" \notin Responding
        BY DEF Responding
    <2> QED BY <1>0, <1>1, <1>2, <1>4, <2>1, EnterCount
<1>5. CASE Enter(t, "claim", r, "Abandoned", "release")
    BY <1>0, <1>1, <1>2, <1>5, EnterCount
<1> QED BY <1>3, <1>4, <1>5 DEF DropResolver

(* A thread that is answering goes on where it was told to. *)
LEMMA ReturnCount ==
    ASSUME TypeInv, CountInv, NEW t \in Threads, thr[t].at \in Responding,
           thr[t].at # "send" => thr[t].then # "complete",
           thr' = [thr EXCEPT ![t] = Jump(t, thr[t].then)], UNCHANGED <<frame, rrefs, crefs, inflight>>
    PROVE  CountInv'
<1>1. thr[t].then \in Continuations
    BY DEF TypeInv, TypeOK, Position
<1>2. ClosingAt(thr[t]) <=> thr[t].then = "complete"
    BY DEF ClosingAt, Responding
<1>3. InDispatch(thr[t]) <=> thr[t].then # "complete"
    BY DEF InDispatch, Responding
<1>4. \A q \in Requests : Main \in rrefs'[q] =>
          Main \in rrefs[q] /\ (t = Main => thr[t].then \in {"user", "leaveResolver"})
    BY DEF CountInv, HandleInv, InWrapper, Responding
<1> QED BY <1>1, <1>2, <1>3, <1>4, JumpCount

LEMMA LibraryStepCount ==
    ASSUME TypeInv, CountInv, NEW t \in Threads, LibraryStep(t)
    PROVE  CountInv'
<1>0. thr[t] \in Position
    BY DEF TypeInv, TypeOK
<1>1. ASSUME NEW at \in {"claim", "send"}, thr[t].at \in {"encode", "claim"},
             thr' = [thr EXCEPT ![t].at = at], UNCHANGED <<frame, rrefs, crefs, inflight>>
      PROVE  CountInv'
    <2> DEFINE p == [thr[t] EXCEPT !.at = at]
    <2>1. thr' = [thr EXCEPT ![t] = p] /\ p.at = at /\ p.then = thr[t].then /\ p.call = thr[t].call
        BY <1>0, <1>1 DEF Position
    <2>2. p.then # "complete"
        BY <1>1, <2>1 DEF CountInv, HandleInv
    <2> HIDE DEF p
    <2>3. ~ClosingAt(p) /\ ~ClosingAt(thr[t]) /\ InDispatch(p) /\ InDispatch(thr[t])
        BY <1>1, <2>1, <2>2 DEF ClosingAt, InDispatch
    <2>4. InWrapper(thr[t]) => InWrapper(p)
        BY <1>1, <2>1 DEF InWrapper, Responding
    <2>5. \A q \in Requests : Main \in rrefs'[q] => Main \in rrefs[q] /\ (t = Main => InWrapper(p))
        BY <1>1, <2>4 DEF CountInv, HandleInv
    <2>6. \A q \in Requests : IsTyped(q) => IsTyped(q)'
        BY <1>1 DEF IsTyped
    <2> QED BY <1>1, <2>1, <2>2, <2>3, <2>5, <2>6, MoveCount
<1>2. CASE Encode(t)
    BY <1>1, <1>2 DEF Encode
<1>3. CASE Claim(t)
    <2>1. /\ thr[t].at = "claim" /\ thr[t].at \in Responding /\ thr[t].then # "complete"
          /\ UNCHANGED <<frame, rrefs, crefs, inflight>>
        BY <1>3 DEF Claim, Responding, CountInv, HandleInv
    <2>2. CASE thr' = [thr EXCEPT ![t] = Jump(t, thr[t].then)]
        BY <2>1, <2>2, ReturnCount
    <2>3. CASE thr' = [thr EXCEPT ![t].at = "send"]
        BY <1>1, <2>1, <2>3
    <2> QED BY <1>3, <2>2, <2>3 DEF Claim
<1>4. CASE Send(t)
    BY <1>4, ReturnCount DEF Send, Responding
<1>5. CASE Release(t)
    <2>1. thr[t].at = "release" /\ thr[t].call \in Requests /\ ~ClosingAt(thr[t])
        BY <1>0, <1>5 DEF Release, Position, ForACall, ClosingAt
    <2>2. Closures # Main
        BY ClosuresAssumption DEF Threads
    <2>3. CASE t = Main
        <3>1. DropContext(t, thr[t].call, Closures, "leaveContext")
            BY <1>5, <2>3 DEF Release
        <3>2. "leaveContext" \in Continuations \ {"complete"}
            BY DEF Continuations
        <3> QED BY <2>1, <2>2, <2>3, <3>1, <3>2, DropContextCount
    <2>4. CASE t # Main
        <3>1. DropContext(t, thr[t].call, Closures, "user")
            BY <1>5, <2>4 DEF Release
        <3>2. "user" \in Continuations \ {"complete"}
            BY DEF Continuations
        <3> QED BY <2>1, <2>2, <2>4, <3>1, <3>2, DropContextCount
    <2> QED BY <2>3, <2>4
<1>6. CASE Complete(t)
    BY <1>6, CompleteCount
<1>7. CASE Notify(t)
    BY <1>7, NotifyCount
<1> QED BY <1>2, <1>3, <1>4, <1>5, <1>6, <1>7 DEF LibraryStep

(* The handler on Main returns, throws, or is left by an exception. *)
LEMMA HandlerCount ==
    ASSUME TypeInv, CountInv,
           HandlerReturn \/ HandlerThrow \/ HandlerEscapes \/ LeaveResolver \/ LeaveContext
    PROVE  CountInv'
<1>0. /\ Main \in Threads /\ thr[Main].call \in Requests
      /\ thr[Main].at \in {"user", "leaveResolver", "leaveContext"}
    BY DEF HandlerReturn, HandlerThrow, HandlerEscapes, LeaveResolver, LeaveContext, Threads,
           TypeInv, TypeOK, Handling, Position, ForACall
<1>1. ~ClosingAt(thr[Main]) /\ InDispatch(thr[Main])
    BY <1>0 DEF ClosingAt, InDispatch
<1>2. \A q \in Requests : Main \in rrefs[q] => IsTyped(thr[Main].call)
    BY DEF CountInv, HandleInv
<1>3. CASE HandlerReturn \/ HandlerEscapes
    <2>1. /\ thr' = [thr EXCEPT ![Main] =
                        Jump(Main, IF IsTyped(thr[Main].call) THEN "leaveResolver" ELSE "leaveContext")]
          /\ UNCHANGED <<frame, rrefs, crefs, inflight>>
        BY <1>3 DEF HandlerReturn, HandlerEscapes
    <2>2. {"leaveResolver", "leaveContext"} \subseteq Continuations \ {"complete"}
        BY DEF Continuations
    <2>3. CASE IsTyped(thr[Main].call)
        BY <1>0, <1>1, <2>1, <2>2, <2>3, JumpCount
    <2>4. CASE ~IsTyped(thr[Main].call)
        BY <1>0, <1>1, <1>2, <2>1, <2>2, <2>4, JumpCount
    <2> QED BY <2>3, <2>4
<1>4. CASE HandlerThrow
    <2>1. UNCHANGED <<frame, rrefs, crefs, inflight>> /\ "claim" \in Responding
        BY <1>4 DEF HandlerThrow, Responding
    <2>2. CASE Enter(Main, "claim", thr[Main].call, "InternalError", "leaveResolver")
        BY <1>0, <1>1, <2>1, <2>2, EnterCount
    <2>3. CASE IsRaw(thr[Main].call) /\ Enter(Main, "send", thr[Main].call, "InternalError", "leaveContext")
        <3>1. ~IsTyped(thr[Main].call)
            BY <2>3 DEF IsRaw, IsTyped
        <3> QED BY <1>0, <1>1, <1>2, <2>1, <2>3, <3>1, EnterCount
    <2> QED BY <1>4, <2>2, <2>3 DEF HandlerThrow
<1>5. CASE LeaveResolver
    BY <1>0, <1>5, DropResolverCount DEF LeaveResolver
<1>6. CASE LeaveContext
    BY <1>0, <1>1, <1>6, DropContextCount DEF LeaveContext
<1> QED BY <1>3, <1>4, <1>5, <1>6

(* User code fires a call, or a worker lets go of it. *)
LEMMA UserCount ==
    ASSUME TypeInv, CountInv, NEW t \in Threads, NEW r \in Requests, NEW o,
           Fire(t, r, o) \/ Respond(t, r, o) \/ (t \in Workers /\ Drop(t, r))
    PROVE  CountInv'
<1>0. thr[t].at = "user" /\ ~ClosingAt(thr[t])
    BY DEF Fire, Respond, Drop, ClosingAt
<1>1. CASE Fire(t, r, o) \/ Respond(t, r, o)
    <2>1. PICK place \in {"encode", "claim", "send"} : Enter(t, place, r, o, "user")
        BY <1>1 DEF Fire, Respond
    <2>2. UNCHANGED <<frame, rrefs, crefs, inflight>> /\ place \in Responding
        BY <1>1 DEF Fire, Respond, Responding
    <2>3. ASSUME t = Main PROVE InDispatch(thr[Main]) /\ thr[Main].call = r
        BY <1>0, <1>1, <2>3 DEF Fire, Respond, CountInv, HandleInv, InDispatch
    <2> QED BY <1>0, <2>1, <2>2, <2>3, EnterCount
<1>2. CASE t \in Workers /\ Drop(t, r)
    <2>1. t # Main
        BY <1>2, ThreadAssumption
    <2>2. "user" \in Continuations \ {"complete"}
        BY DEF Continuations
    <2> QED BY <1>0, <1>2, <2>1, <2>2, DropResolverCount, DropContextCount DEF Drop
<1> QED BY <1>1, <1>2

(* The read loop, between calls and after the last. *)
LEMMA ReadLoopCount ==
    ASSUME TypeInv, CountInv,
           \/ \E r \in Requests, f \in Input : ProcessInline(r, f)
           \/ Reply \/ EndOfInput \/ SendExit \/ Join \/ Destroy \/ Unwind \/ WaitStep \/ SpuriousWake
    PROVE  CountInv'
<1>0. UNCHANGED <<rrefs, crefs, inflight>>
    BY DEF ProcessInline, Reply, EndOfInput, SendExit, Join, Destroy, Unwind,
           WaitStep, WaitLock, WaitCheck, WaitBlock, SpuriousWake
<1>1. /\ thr[Main].at \in {"idle", "reply", "lock", "check", "block", "asleep", "drained", "join", "returned"}
      /\ \A q \in Requests : IsTyped(q) => IsTyped(q)'
    <2>1. CASE \E r \in Requests, f \in Input : ProcessInline(r, f)
        BY <2>1, ReadTyped DEF ProcessInline
    <2>2. CASE Reply \/ EndOfInput \/ SendExit \/ Join \/ Destroy \/ Unwind \/ WaitStep \/ SpuriousWake
        BY <2>2 DEF Reply, EndOfInput, SendExit, Join, Destroy, Unwind, WaitStep, WaitLock, WaitCheck,
               WaitBlock, SpuriousWake, IsTyped
    <2> QED BY <2>1, <2>2
<1>2. ~ClosingAt(thr[Main]) /\ ~InDispatch(thr[Main])
    BY <1>1 DEF ClosingAt, InDispatch
<1>3. \E p : /\ thr' = [thr EXCEPT ![Main] = p]
             /\ p.at \in {"idle", "reply", "lock", "check", "block", "asleep", "drained",
                          "join", "returned", "destroyed"}
    <2>1. ASSUME NEW at \in {"lock", "check", "block", "asleep", "drained", "join", "returned", "destroyed"},
                 thr' = [thr EXCEPT ![Main].at = at]
          PROVE  \E p : thr' = [thr EXCEPT ![Main] = p] /\ p.at = at
        <3>1. thr' = [thr EXCEPT ![Main] = [thr[Main] EXCEPT !.at = at]] /\ [thr[Main] EXCEPT !.at = at].at = at
            BY <2>1 DEF TypeInv, TypeOK, Position, Threads
        <3> QED BY <3>1
    <2>2. CASE Reply
        <3>1. thr' = [thr EXCEPT ![Main] = Resting(Main)] /\ Resting(Main).at = "idle"
            BY <2>2 DEF Reply, Resting
        <3> QED BY <3>1
    <2>3. CASE \E r \in Requests, f \in Input : ProcessInline(r, f)
        <3>1. PICK r \in Requests, o \in Outcomes : Enter(Main, "reply", r, o, Nowhere)
            BY <2>3 DEF ProcessInline, MayAnswer
        <3> DEFINE e == [at |-> "reply", call |-> r, out |-> o, then |-> Nowhere]
        <3>2. thr' = [thr EXCEPT ![Main] = e] /\ e.at = "reply"
            BY <3>1 DEF Enter
        <3> HIDE DEF e
        <3> QED BY <3>2
    <2>4. CASE EndOfInput \/ SendExit \/ Join \/ Destroy \/ Unwind \/ WaitStep \/ SpuriousWake
        <3>1. PICK at \in {"lock", "check", "block", "asleep", "drained", "join", "returned", "destroyed"} :
                  thr' = [thr EXCEPT ![Main].at = at]
            BY <2>4 DEF EndOfInput, SendExit, Join, Destroy, Unwind, WaitStep, WaitLock, WaitCheck,
                   WaitBlock, SpuriousWake
        <3> QED BY <2>1, <3>1
    <2> QED BY <2>2, <2>3, <2>4
<1>4. PICK p : /\ thr' = [thr EXCEPT ![Main] = p]
               /\ p.at \in {"idle", "reply", "lock", "check", "block", "asleep", "drained",
                            "join", "returned", "destroyed"}
    BY <1>3
<1>5. ~ClosingAt(p) /\ ~InDispatch(p)
    BY <1>4 DEF ClosingAt, InDispatch
<1> QED BY <1>0, <1>1, <1>2, <1>4, <1>5, LoopCount

LEMMA EscapeCount == TypeInv /\ CountInv /\ Escape => CountInv'
<1> SUFFICES ASSUME TypeInv, CountInv, Escape PROVE CountInv'
    OBVIOUS
<1>1. ASSUME NEW r \in Requests, NEW f \in Input, InlineEscapes(r, f) PROVE CountInv'
    BY <1>1, ReadTyped, StillCount DEF InlineEscapes
<1>2. CASE ReadThrows
    BY <1>2, StillCount DEF ReadThrows, IsTyped
<1>3. ASSUME NEW t \in Threads, CodecFails(t) PROVE CountInv'
    <2>1. CASE EncodeFails(t)
        <3>1. /\ thr[t].at = "encode" /\ thr' = [thr EXCEPT ![t] = Jump(t, "user")] /\ "user" \in Continuations
              /\ UNCHANGED <<frame, rrefs, crefs, inflight>>
            BY <2>1 DEF EncodeFails, Continuations
        <3>2. ~ClosingAt(thr[t]) /\ InDispatch(thr[t])
            BY <3>1 DEF ClosingAt, InDispatch
        <3> QED BY <3>1, <3>2, JumpCount
    <2>2. CASE ErrorFails(t)
        BY <2>2, ReturnCount DEF ErrorFails, Responding
    <2> QED BY <1>3, <2>1, <2>2 DEF CodecFails
<1> QED BY <1>1, <1>2, <1>3, HandlerCount DEF Escape

LEMMA InitCount == Init => CountInv
<1> SUFFICES ASSUME Init PROVE CountInv
    OBVIOUS
<1>1. /\ rrefs = [r \in Requests |-> {}] /\ crefs = [r \in Requests |-> {}] /\ inflight = 0
      /\ \A t \in Threads : thr[t].at = IF t = Main THEN "idle" ELSE "user"
    BY DEF Init, SInit, Resting
<1>2. \A t \in Threads, r \in Requests : ~Closing(t, r)
    BY <1>1 DEF Closing
<1>3. OpenSet = {}
    BY <1>1, <1>2 DEF OpenSet, Open
<1>4. HandleInv
    BY <1>1, <1>2 DEF HandleInv, InDispatch, Threads
<1> QED BY <1>1, <1>3, <1>4, FS_EmptySet DEF CountInv

LEMMA NextCount == TypeInv /\ OnceInv /\ CountInv /\ [Next]_vars => CountInv'
<1> SUFFICES ASSUME TypeInv, OnceInv, CountInv, [Next]_vars PROVE CountInv'
    OBVIOUS
<1>1. ASSUME \/ UNCHANGED vars
             \/ \E t \in Threads : Push(t)
             \/ \E i \in 1..Len(pending) : WriteOut(i)
      PROVE  CountInv'
    <2>1. UNCHANGED <<frame, rrefs, crefs, inflight, thr>>
        BY <1>1 DEF vars, Push, WriteOut
    <2> QED BY <2>1, StillCount DEF IsTyped
<1>2. Workers \subseteq Threads
    BY DEF Threads
<1> QED BY <1>1, <1>2, StepCases, DispatchCount, ReadLoopCount, CopyCount, UserCount,
           LibraryStepCount, HandlerCount, EscapeCount

(* _inflight is the number of calls whose context is alive or being           *)
(* destroyed: no path out of dispatchAsync forgets to count one down, and     *)
(* none counts it down twice, however the last references race.               *)
THEOREM CounterIsExact == Spec => []InflightExact
<1>1. Init => TypeInv /\ OnceInv /\ CountInv
    BY InitTyped, InitOnce, InitCount
<1>2. TypeInv /\ OnceInv /\ CountInv /\ [Next]_vars => (TypeInv /\ OnceInv /\ CountInv)'
    BY NextTyped, NextOnce, NextCount
<1>3. CountInv => InflightExact
    BY DEF CountInv, OpenSet, InflightExact
<1> QED BY <1>1, <1>2, <1>3, PTL DEF Spec

-----------------------------------------------------------------------------
(* The references.                                                            *)
(* A typed call that got as far as its handler. *)
Decoded(r) == frame[r] \in TypedFrames \ BadAsync

(* A position in, or on the way to, the release of a Resolver's closures, and *)
(* one on the way to answer for a call no one fired.                          *)
ReleasingAt(p)  == p.at = "release" \/ (p.at \in Responding /\ p.then = "release")
AbandoningAt(p) == p.at \in Responding /\ p.out = "Abandoned"

(* User code has no handle to r, and none can come to it.                     *)
Unreachable(r) == /\ frame[r] # Unread /\ rrefs[r] = {}
                  /\ IsRaw(r) => crefs[r] = {}

(* Where a worker's library code goes on, and what a thread at position p     *)
(* still holds: a worker that fires holds what it fires through, the wrapper  *)
(* its Resolver, the releaser the closures' context; and the outcome it       *)
(* carries is one its frame may be answered with.                             *)
WorkerAt(p) == /\ p.at \in {"user", "release", "complete", "notify"} \cup Responding
               /\ p.at \in Responding => p.then \in {"user", "release", "complete"}

Sound(t, p) ==
    /\ t \in Workers => WorkerAt(p)
    /\ p.at = "encode" => p.then = "user"
    /\ t \in Workers /\ p.at \in Responding /\ p.then = "user" => t \in rrefs[p.call] \cup crefs[p.call]
    /\ t = Main /\ InWrapper(p) /\ IsTyped(p.call) => Main \in rrefs[p.call]
    /\ ReleasingAt(p) => Decoded(p.call) /\ rrefs[p.call] = {} /\ Closures \in crefs[p.call]
    /\ AbandoningAt(p) => Unreachable(p.call)
    /\ p.at \in WithOutcome => p.out \in MayAnswer(frame[p.call])

(* A Resolver's closures hold the context for as long as it lives; one thread *)
(* releases them; only -32602 is said of a call that did not decode.          *)
RefInv ==
    /\ \A r \in Requests : rrefs[r] # {} => Decoded(r) /\ Closures \in crefs[r]
    /\ \A t \in Threads : Sound(t, thr[t])
    /\ \A t, u \in Threads : ReleasingAt(thr[t]) /\ ReleasingAt(thr[u]) /\ thr[t].call = thr[u].call => t = u
    /\ \A r \in Requests : frame[r] \in BadAsync /\ ~cdone[r] => thr[Main].at = "claim" /\ thr[Main].call = r

KnownInv == TypeInv /\ OnceInv /\ CountInv /\ RefInv

(* A frame once read stays; only a frame of the client's is answered.         *)
FramesStay == \A q \in Requests : frame[q] # Unread => frame'[q] = frame[q]

LEMMA FrameFacts ==
    /\ Unread \notin AsyncFrames /\ Unread \notin TypedFrames
    /\ BadAsync \subseteq TypedFrames /\ TypedFrames \subseteq AsyncFrames /\ AsyncFrames \subseteq Input
    /\ MayAnswer(Unread) = {}
BY FrameAssumption
DEF AsyncFrames, TypedFrames, SyncFrames, BadAsync, BadSync, Routed, NotFound, Unreadable, WrongVersion, MayAnswer

LEMMA AsyncAnswers ==
    ASSUME NEW f \in AsyncFrames \ BadAsync
    PROVE  {"Result", "Rejected", "InternalError", "Abandoned"} \subseteq MayAnswer(f)
BY DEF MayAnswer, Outcomes

(* Of an async frame none but these.                                          *)
LEMMA OtherAnswers ==
    /\ \A f \in BadAsync : MayAnswer(f) = {"InvalidParams"}
    /\ \A f : f \notin AsyncFrames => "Abandoned" \notin MayAnswer(f)
<1>1. /\ BadAsync \subseteq TypedFrames /\ TypedFrames \subseteq AsyncFrames
      /\ AsyncFrames \cap (Unreadable \cup WrongVersion \cup SyncFrames \cup NotFound) = {}
      /\ BadSync \subseteq SyncFrames
    BY DEF AsyncFrames, TypedFrames, SyncFrames, BadAsync, BadSync, Routed, NotFound, Unreadable, WrongVersion
<1> QED BY <1>1 DEF MayAnswer, Outcomes

(* What a thread at another position holds, it keeps through a step of t.     *)
LEMMA OthersSound ==
    ASSUME TypeInv, OnceInv, RefInv, NEW t \in Threads, NEW u \in Threads, FramesStay,
           \A q \in Requests : (u \in rrefs[q] => u \in rrefs'[q]) /\ (u \in crefs[q] => u \in crefs'[q]),
           ReleasingAt(thr[u]) => rrefs'[thr[u].call] = {} /\ Closures \in crefs'[thr[u].call],
           \A q \in Requests : Unreachable(q) => Unreachable(q)',
           NEW p, p = thr[u]
    PROVE  Sound(u, p)'
<1>0. Sound(u, p) /\ p \in Position
    BY DEF RefInv, TypeInv, TypeOK
<1>1. p.at \in Responding => p.call \in Requests
    BY <1>0 DEF Position, Responding, ForACall
<1>2. (u \in Workers => WorkerAt(p)) /\ (p.at = "encode" => p.then = "user")
    BY <1>0 DEF Sound
<1>3. u \in Workers /\ p.at \in Responding /\ p.then = "user" => u \in rrefs'[p.call] \cup crefs'[p.call]
    BY <1>0, <1>1 DEF Sound
<1>4. ASSUME u = Main, InWrapper(p), IsTyped(p.call)' PROVE Main \in rrefs'[p.call]
    <2>1. frame[p.call] \in AsyncFrames /\ p.call \in Requests
        BY <1>0, <1>1, <1>4 DEF InWrapper, OnceInv, Claiming, ForACall, Responding, Position, TypeInv, Handling
    <2>2. IsTyped(p.call)
        BY <1>4, <2>1, FrameFacts DEF IsTyped, FramesStay
    <2> QED BY <1>0, <1>4, <2>1, <2>2 DEF Sound
<1>5. ReleasingAt(p) => Decoded(p.call)' /\ rrefs'[p.call] = {} /\ Closures \in crefs'[p.call]
    <2> SUFFICES ASSUME ReleasingAt(p) PROVE Decoded(p.call)' /\ rrefs'[p.call] = {} /\ Closures \in crefs'[p.call]
        OBVIOUS
    <2>1. p.call \in Requests /\ Decoded(p.call)
        BY <1>0 DEF ReleasingAt, Responding, Position, ForACall, Sound
    <2> QED BY <2>1, FrameFacts DEF Decoded, FramesStay
<1>6. AbandoningAt(p) => Unreachable(p.call)'
    BY <1>0, <1>1 DEF Sound, AbandoningAt
<1>7. p.at \in WithOutcome => p.out \in MayAnswer(frame'[p.call])
    <2> SUFFICES ASSUME p.at \in WithOutcome PROVE p.out \in MayAnswer(frame'[p.call])
        OBVIOUS
    <2>1. p.call \in Requests /\ p.out \in MayAnswer(frame[p.call])
        BY <1>0 DEF Sound, Position, WithOutcome, ForACall
    <2> QED BY <2>1, FrameFacts DEF FramesStay
<1> QED BY <1>2, <1>3, <1>4, <1>5, <1>6, <1>7 DEF Sound

(* A step of thread t to p that may read a frame and exchange references.     *)
LEMMA StepRef ==
    ASSUME TypeInv, OnceInv, RefInv, NEW t \in Threads, NEW p, thr' = [thr EXCEPT ![t] = p],
           FramesStay, Sound(t, p)',
           \A q \in Requests : rrefs'[q] # {} => Decoded(q)' /\ Closures \in crefs'[q],
           \A q \in Requests, u \in Threads \ {t} :
               (u \in rrefs[q] => u \in rrefs'[q]) /\ (u \in crefs[q] => u \in crefs'[q]),
           \A u \in Threads \ {t} : ReleasingAt(thr[u]) =>
               /\ rrefs'[thr[u].call] = {} /\ Closures \in crefs'[thr[u].call]
               /\ ~(ReleasingAt(p) /\ p.call = thr[u].call),
           \A q \in Requests : Unreachable(q) => Unreachable(q)',
           \A q \in Requests : frame'[q] \in BadAsync /\ ~cdone'[q] =>
               IF t = Main THEN p.at = "claim" /\ p.call = q ELSE frame[q] \in BadAsync /\ ~cdone[q]
    PROVE  RefInv'
<1>1. \A u \in Threads : thr'[u] = IF u = t THEN p ELSE thr[u]
    BY DEF TypeInv, TypeOK
<1>2. ASSUME NEW u \in Threads PROVE Sound(u, thr[u])'
    <2>1. CASE u = t
        <3>1. thr'[u] = p
            BY <1>1, <2>1
        <3> QED BY <2>1, <3>1 DEF Sound, IsTyped, Decoded, Unreachable, IsRaw
    <2>2. CASE u # t
        <3>1. PICK x : x = thr[u]
            OBVIOUS
        <3>2. Sound(u, x)'
            BY <2>2, <3>1, OthersSound
        <3>3. thr'[u] = x
            BY <1>1, <2>2, <3>1
        <3> QED BY <3>2, <3>3 DEF Sound, IsTyped, Decoded, Unreachable, IsRaw
    <2> QED BY <2>1, <2>2
<1>3. ASSUME NEW u \in Threads, NEW v \in Threads, u # v,
             ReleasingAt(thr'[u]), ReleasingAt(thr'[v]), thr'[u].call = thr'[v].call
      PROVE  FALSE
    BY <1>1, <1>3 DEF RefInv
<1>4. \A q \in Requests : frame'[q] \in BadAsync /\ ~cdone'[q] => thr'[Main].at = "claim" /\ thr'[Main].call = q
    BY <1>1 DEF RefInv, Threads
<1>5. \A u, v \in Threads :
          (ReleasingAt(thr[u]) /\ ReleasingAt(thr[v]) /\ thr[u].call = thr[v].call)' => u = v
    BY <1>3 DEF ReleasingAt
<1> QED BY <1>2, <1>4, <1>5 DEF RefInv

(* A step of thread t that leaves every frame and reference alone.            *)
LEMMA MoveRef ==
    ASSUME KnownInv, NEW t \in Threads, NEW p, thr' = [thr EXCEPT ![t] = p],
           UNCHANGED <<frame, rrefs, crefs>>, Sound(t, p),
           ReleasingAt(p) => ReleasingAt(thr[t]) /\ p.call = thr[t].call,
           \A q \in Requests : cdone[q] => cdone'[q],
           t = Main /\ thr[Main].at = "claim" => cdone'[thr[Main].call]
    PROVE  RefInv'
<1>1. FramesStay /\ Sound(t, p)' /\ \A q \in Requests : Unreachable(q) => Unreachable(q)'
    BY DEF FramesStay, Sound, Decoded, Unreachable, IsTyped, IsRaw
<1>2. \A q \in Requests : rrefs'[q] # {} => Decoded(q)' /\ Closures \in crefs'[q]
    BY DEF KnownInv, RefInv, Decoded
<1>3. \A u \in Threads \ {t} : ReleasingAt(thr[u]) =>
          /\ rrefs'[thr[u].call] = {} /\ Closures \in crefs'[thr[u].call]
          /\ ~(ReleasingAt(p) /\ p.call = thr[u].call)
    BY DEF KnownInv, RefInv, Sound
<1>4. \A q \in Requests : frame'[q] \in BadAsync /\ ~cdone'[q] =>
          t # Main /\ frame[q] \in BadAsync /\ ~cdone[q]
    BY DEF KnownInv, RefInv
<1> QED BY <1>1, <1>2, <1>3, <1>4, StepRef DEF KnownInv

(* A thread that is answering goes on where it was told to.                   *)
LEMMA JumpSound ==
    ASSUME KnownInv, NEW t \in Threads, thr[t].at \in Responding
    PROVE  /\ Sound(t, Jump(t, thr[t].then))
           /\ ReleasingAt(Jump(t, thr[t].then)) =>
                  ReleasingAt(thr[t]) /\ Jump(t, thr[t].then).call = thr[t].call
<1>0. /\ Sound(t, thr[t]) /\ thr[t].then \in Continuations
      /\ t \in Workers => t # Main
    BY ThreadAssumption DEF KnownInv, RefInv, TypeInv, TypeOK, Position
<1> DEFINE p == Jump(t, thr[t].then)
<1>1. /\ p.at \in Continuations \cup {"idle"}
      /\ p.at \notin Responding /\ p.at \notin WithOutcome /\ p.at # "encode"
      /\ p.at \in ForACall => p.call = thr[t].call /\ p.at = thr[t].then
      /\ t # Main /\ thr[t].then = "user" => p.at = "user"
      /\ p.at = "user" => thr[t].then = "user"
      /\ t = Main => p.call = thr[t].call
    BY <1>0 DEF Jump, Resting, Responding, WithOutcome, ForACall, Continuations
<1>2. t \in Workers => WorkerAt(p)
    <2> HIDE DEF p
    <2>1. t \in Workers => thr[t].then \in {"user", "release", "complete"}
        BY <1>0 DEF Sound, WorkerAt
    <2>2. p.at \in ForACall \cup {"user", "idle"}
        BY <1>1 DEF Continuations, ForACall
    <2>3. t \in Workers => p.at \in {"user", "release", "complete"}
        <3>1. CASE thr[t].then = "user"
            BY <1>0, <1>1, <3>1
        <3>2. CASE thr[t].then # "user" /\ t \in Workers
            <4>1. p.at = thr[t].then
                BY <2>1, <3>2 DEF p, Jump
            <4> QED BY <2>1, <3>2, <4>1
        <3> QED BY <3>1, <3>2
    <2> QED BY <1>1, <2>3 DEF WorkerAt
<1>3. ReleasingAt(p) => ReleasingAt(thr[t]) /\ p.call = thr[t].call
    <2> HIDE DEF p
    <2> QED BY <1>1 DEF ReleasingAt, ForACall
<1>4. t = Main /\ InWrapper(p) => InWrapper(thr[t]) /\ p.call = thr[t].call
    <2> HIDE DEF p
    <2> QED BY <1>1 DEF InWrapper, ForACall
<1> HIDE DEF p
<1>5. Sound(t, p)
    BY <1>0, <1>1, <1>2, <1>3, <1>4 DEF Sound, AbandoningAt
<1> QED BY <1>3, <1>5 DEF p

(* Main moves on in its loop, its drain or its shutdown.                      *)
LEMMA LoopSound ==
    ASSUME NEW p, p.at \in {"idle", "notify", "lock", "check", "block", "asleep", "drained",
                            "join", "returned", "destroyed", "complete", "leaveContext"}
    PROVE  Sound(Main, p) /\ ~ReleasingAt(p)
BY ThreadAssumption DEF Sound, InWrapper, ReleasingAt, AbandoningAt, Responding, WithOutcome

(* A thread enters library code to answer with outcome o.                     *)
LEMMA EnterSound ==
    ASSUME KnownInv, NEW t \in Threads, NEW r \in Requests, NEW o, NEW next,
           NEW place \in Responding, frame[r] \in AsyncFrames \ BadAsync,
           o \in {"Result", "Rejected", "InternalError"},
           next \in {"user", "leaveResolver", "leaveContext"},
           place = "encode" => next = "user",
           t \in Workers => next = "user" /\ t \in rrefs[r] \cup crefs[r],
           t = Main /\ next # "leaveContext" /\ IsTyped(r) => Main \in rrefs[r]
    PROVE  LET p == [at |-> place, call |-> r, out |-> o, then |-> next]
           IN  Sound(t, p) /\ ~ReleasingAt(p)
<1> DEFINE p == [at |-> place, call |-> r, out |-> o, then |-> next]
<1>0. p.at = place /\ p.call = r /\ p.out = o /\ p.then = next
    OBVIOUS
<1> HIDE DEF p
<1>1. o \in MayAnswer(frame[r])
    BY AsyncAnswers
<1>2. p.at \in Responding /\ p.at \notin {"user", "leaveResolver", "release"}
    BY <1>0 DEF Responding
<1>3. ~ReleasingAt(p) /\ ~AbandoningAt(p)
    BY <1>0, <1>2 DEF ReleasingAt, AbandoningAt
<1>4. t \in Workers => WorkerAt(p)
    BY <1>0, <1>2 DEF WorkerAt
<1>5. t = Main /\ InWrapper(p) /\ IsTyped(p.call) => Main \in rrefs[p.call]
    BY <1>0, <1>2 DEF InWrapper
<1>6. Sound(t, p)
    BY <1>0, <1>1, <1>3, <1>4, <1>5 DEF Sound
<1> QED BY <1>3, <1>6 DEF p

(* User code fires a call, or answers it with its own bytes.                  *)
LEMMA FireRef ==
    ASSUME KnownInv, NEW t \in Threads, NEW r \in Requests, NEW o \in {"Result", "Rejected"},
           Fire(t, r, o) \/ Respond(t, r, o)
    PROVE  RefInv'
<1>1. PICK place \in Responding : Enter(t, place, r, o, "user")
    BY DEF Fire, Respond, Responding
<1> DEFINE p == [at |-> place, call |-> r, out |-> o, then |-> "user"]
<1>2. thr' = [thr EXCEPT ![t] = p] /\ thr[t].at = "user" /\ UNCHANGED <<frame, rrefs, crefs>>
    BY <1>1 DEF Enter, Fire, Respond
<1>3. /\ frame[r] \in AsyncFrames \ BadAsync
      /\ t \in rrefs[r] \cup crefs[r]
      /\ IsTyped(r) => t \in rrefs[r]
    <2>1. CASE Fire(t, r, o)
        BY <2>1, FrameFacts DEF Fire, KnownInv, RefInv, Decoded
    <2>2. CASE Respond(t, r, o)
        BY <2>2, FrameFacts DEF Respond, IsRaw, IsTyped
    <2> QED BY <2>1, <2>2
<1>4. Sound(t, p) /\ ~ReleasingAt(p)
    BY <1>3, EnterSound
<1>5. \A q \in Requests : cdone[q] => cdone'[q]
    BY DEF Fire, Respond, KnownInv, TypeInv, TypeOK
<1> HIDE DEF p
<1> QED BY <1>2, <1>4, <1>5, MoveRef

(* What a thread does within the library, short of dropping a reference.      *)
LEMMA LibraryStepRef ==
    ASSUME KnownInv, NEW t \in Threads,
           Encode(t) \/ Claim(t) \/ Send(t) \/ Complete(t) \/ CodecFails(t)
    PROVE  RefInv'
<1>0. /\ thr[t] \in Position /\ Sound(t, thr[t])
      /\ UNCHANGED <<frame, rrefs, crefs>>
      /\ \A q \in Requests : cdone[q] => cdone'[q]
    BY DEF Encode, Claim, Send, Complete, CodecFails, EncodeFails, ErrorFails, KnownInv, TypeInv, TypeOK, RefInv
<1>1. ASSUME NEW at \in {"claim", "send"}, thr[t].at \in {"encode", "claim"},
             thr' = [thr EXCEPT ![t].at = at], thr[t].at = "claim" => cdone'[thr[t].call]
      PROVE  RefInv'
    <2> DEFINE p == [thr[t] EXCEPT !.at = at]
    <2>1. /\ thr' = [thr EXCEPT ![t] = p] /\ p.at = at
          /\ p.call = thr[t].call /\ p.out = thr[t].out /\ p.then = thr[t].then
        BY <1>0, <1>1 DEF Position
    <2> HIDE DEF p
    <2>2. /\ p.at \in Responding /\ thr[t].at \in Responding
          /\ thr[t].at \in WithOutcome
          /\ p.at \notin {"user", "leaveResolver", "release"}
        BY <1>1, <2>1 DEF Responding, WithOutcome
    <2>3. /\ ReleasingAt(p) => ReleasingAt(thr[t])
          /\ AbandoningAt(p) => AbandoningAt(thr[t])
          /\ InWrapper(p) => InWrapper(thr[t])
          /\ WorkerAt(thr[t]) => WorkerAt(p)
        BY <2>1, <2>2 DEF ReleasingAt, AbandoningAt, InWrapper, WorkerAt
    <2>4. Sound(t, p)
        BY <1>0, <2>1, <2>2, <2>3 DEF Sound
    <2> QED BY <1>0, <1>1, <2>1, <2>3, <2>4, MoveRef
<1>2. ASSUME thr[t].at \in Responding, thr' = [thr EXCEPT ![t] = Jump(t, thr[t].then)],
             thr[t].at = "claim" => cdone'[thr[t].call]
      PROVE  RefInv'
    BY <1>0, <1>2, JumpSound, MoveRef
<1>3. CASE Encode(t)
    BY <1>1, <1>3 DEF Encode
<1>4. CASE Claim(t)
    <2>1. thr[t].at = "claim" /\ thr[t].at \in Responding /\ thr[t].call \in Requests
        BY <1>0, <1>4 DEF Claim, Responding, Position, ForACall
    <2>2. cdone'[thr[t].call]
        BY <1>4, <2>1 DEF Claim, KnownInv, TypeInv, TypeOK
    <2> QED BY <1>1, <1>2, <1>4, <2>1, <2>2 DEF Claim
<1>5. CASE Send(t)
    BY <1>2, <1>5 DEF Send, Responding
<1>6. CASE Complete(t)
    <2>1. \/ thr' = [thr EXCEPT ![t] = Jump(t, "notify")]
          \/ thr' = [thr EXCEPT ![t] = Resting(t)]
        BY <1>6 DEF Complete
    <2>2. PICK p : thr' = [thr EXCEPT ![t] = p] /\ p.at = IF p = Resting(t) THEN Resting(t).at ELSE "notify"
        BY <2>1 DEF Jump
    <2>3. p.at \in {"notify", "idle", "user"} /\ (p.at = "idle" <=> t = Main /\ p.at # "notify")
        BY <2>2 DEF Resting
    <2>4. Sound(t, p) /\ ~ReleasingAt(p)
        BY <2>3, ThreadAssumption DEF Sound, WorkerAt, InWrapper, ReleasingAt, AbandoningAt, Responding, WithOutcome
    <2> QED BY <1>0, <1>6, <2>2, <2>4, MoveRef DEF Complete
<1>7. CASE EncodeFails(t)
    <2>1. thr[t].at = "encode" /\ thr[t].then = "user" /\ thr[t].at \in Responding
        BY <1>0, <1>7 DEF EncodeFails, Sound, Responding
    <2> QED BY <1>2, <1>7, <2>1 DEF EncodeFails
<1>8. CASE ErrorFails(t)
    BY <1>2, <1>8 DEF ErrorFails, Responding
<1> QED BY <1>3, <1>4, <1>5, <1>6, <1>7, <1>8 DEF CodecFails

(* Dropping a reference to a context: the handler's, a worker's own to a raw  *)
(* call, or that of a Resolver's closures.  Who abandons the call holds the   *)
(* last reference, and then no Resolver is left.                              *)
LEMMA DropContextRef ==
    ASSUME KnownInv, NEW t \in Threads, NEW r \in Requests, NEW ref, NEW after,
           DropContext(t, r, ref, after),
           \/ t \in Workers /\ ref = t /\ after = "user" /\ thr[t].at = "user" /\ IsRaw(r)
           \/ t = Main /\ ref = Main /\ after = "idle" /\ thr[t].at = "leaveContext" /\ thr[t].call = r
           \/ /\ ref = Closures /\ after = IF t = Main THEN "leaveContext" ELSE "user"
              /\ thr[t].at = "release" /\ thr[t].call = r
    PROVE  RefInv'
<1>0. /\ crefs \in [Requests -> SUBSET (Threads \cup {Closures})]
      /\ crefs' = [crefs EXCEPT ![r] = @ \ {ref}]
      /\ UNCHANGED <<frame, rrefs>>
      /\ \A q \in Requests : cdone[q] => cdone'[q]
      /\ ref = t \/ ref = Closures
      /\ Closures \notin Threads /\ Main \notin Workers
    BY ClosuresAssumption, ThreadAssumption DEF DropContext, KnownInv, TypeInv, TypeOK
<1>1. \A q \in Requests : crefs'[q] = IF q = r THEN crefs[r] \ {ref} ELSE crefs[q]
    BY <1>0
<1>2. ref = Closures => ReleasingAt(thr[t]) /\ thr[t].call = r /\ Decoded(r) /\ rrefs[r] = {}
    BY <1>0 DEF ReleasingAt, KnownInv, RefInv, Sound
<1>3. ASSUME crefs[r] = {ref} PROVE rrefs[r] = {} /\ frame[r] \in AsyncFrames
    <2>1. ref # Closures => rrefs[r] = {}
        BY <1>3 DEF KnownInv, RefInv
    <2> QED BY <1>2, <1>3, <2>1 DEF KnownInv, OnceInv
<1>4. ASSUME ~cdone[r], frame[r] \in BadAsync PROVE FALSE
    <2>1. thr[Main].at = "claim" /\ thr[Main].call = r
        BY <1>4 DEF KnownInv, RefInv
    <2>2. ~Decoded(r) /\ ~IsRaw(r)
        BY <1>4, FrameFacts DEF Decoded, IsRaw
    <2> QED BY <1>2, <2>1, <2>2
<1>5. PICK p : /\ thr' = [thr EXCEPT ![t] = p]
               /\ \/ p.at = "complete" \/ (t \in Workers /\ p.at = "user")
                  \/ t = Main /\ p.at \in {"idle", "leaveContext"}
                  \/ /\ crefs[r] = {ref} /\ ~cdone[r] /\ p.at = "send" /\ p.call = r
                     /\ p.out = "Abandoned" /\ p.then = "complete"
    <2>1. CASE thr' = [thr EXCEPT ![t] = Jump(t, after)]
        <3>1. (t \in Workers /\ Jump(t, after).at = "user") \/ (t = Main /\ Jump(t, after).at \in {"idle", "leaveContext"})
            BY <1>0 DEF Jump, Resting, Threads
        <3> QED BY <2>1, <3>1
    <2>2. CASE Enter(t, "complete", r, NoOutcome, Nowhere)
        <3> DEFINE e == [at |-> "complete", call |-> r, out |-> NoOutcome, then |-> Nowhere]
        <3>1. thr' = [thr EXCEPT ![t] = e] /\ e.at = "complete"
            BY <2>2 DEF Enter
        <3> HIDE DEF e
        <3> QED BY <3>1
    <2>3. CASE crefs[r] = {ref} /\ ~cdone[r] /\ Enter(t, "send", r, "Abandoned", "complete")
        <3> DEFINE e == [at |-> "send", call |-> r, out |-> "Abandoned", then |-> "complete"]
        <3>1. /\ thr' = [thr EXCEPT ![t] = e] /\ e.at = "send" /\ e.call = r
              /\ e.out = "Abandoned" /\ e.then = "complete"
            BY <2>3 DEF Enter
        <3> HIDE DEF e
        <3> QED BY <2>3, <3>1
    <2> QED BY <2>1, <2>2, <2>3 DEF DropContext
<1>6. ~ReleasingAt(p) /\ (p.at \in WithOutcome => p.at = "send") /\ p.at # "encode"
    BY <1>5 DEF ReleasingAt, Responding, WithOutcome
<1>7. Sound(t, p)'
    <2>1. CASE p.at # "send"
        BY <1>0, <1>5, <1>6, <2>1 DEF Sound, WorkerAt, InWrapper, AbandoningAt, Responding
    <2>2. CASE p.at = "send"
        <3>1. crefs[r] = {ref} /\ ~cdone[r] /\ p.call = r /\ p.out = "Abandoned" /\ p.then = "complete"
            BY <1>5, <2>2
        <3>2. "Abandoned" \in MayAnswer(frame'[r])
            BY <1>0, <1>3, <1>4, <3>1, AsyncAnswers
        <3>3. Unreachable(r)'
            BY <1>0, <1>1, <1>3, <3>1, FrameFacts DEF Unreachable
        <3> QED BY <1>6, <2>2, <3>1, <3>2, <3>3 DEF Sound, WorkerAt, InWrapper, Responding
    <2> QED BY <2>1, <2>2
<1>8. \A q \in Requests : rrefs'[q] # {} => Decoded(q)' /\ Closures \in crefs'[q]
    BY <1>0, <1>1, <1>2 DEF KnownInv, RefInv, Decoded
<1>9. \A q \in Requests, u \in Threads \ {t} :
          (u \in rrefs[q] => u \in rrefs'[q]) /\ (u \in crefs[q] => u \in crefs'[q])
    BY <1>0, <1>1
<1>10. ASSUME NEW u \in Threads \ {t}, ReleasingAt(thr[u])
       PROVE  rrefs'[thr[u].call] = {} /\ Closures \in crefs'[thr[u].call]
    <2>1. rrefs[thr[u].call] = {} /\ Closures \in crefs[thr[u].call]
        BY <1>10 DEF KnownInv, RefInv, Sound
    <2>2. thr[u].call \in Requests
        BY <1>10 DEF KnownInv, TypeInv, TypeOK, Position, ReleasingAt, Responding, ForACall
    <2>3. ref = Closures => thr[u].call # r
        BY <1>2, <1>10 DEF KnownInv, RefInv
    <2> QED BY <1>0, <1>1, <2>1, <2>2, <2>3
<1>11. FramesStay /\ \A q \in Requests : Unreachable(q) => Unreachable(q)'
    BY <1>0, <1>1 DEF FramesStay, Unreachable, IsRaw
<1>12. \A q \in Requests : frame'[q] \in BadAsync /\ ~cdone'[q] => t # Main /\ frame[q] \in BadAsync /\ ~cdone[q]
    BY <1>0 DEF KnownInv, RefInv
<1> QED BY <1>5, <1>6, <1>7, <1>8, <1>9, <1>10, <1>11, <1>12, StepRef DEF KnownInv

(* Dropping a reference to a Resolver: the last one goes on to release the    *)
(* closures, and abandons the call first if no one fired it.                  *)
LEMMA DropResolverRef ==
    ASSUME KnownInv, NEW t \in Threads, NEW r \in Requests, NEW after,
           DropResolver(t, r, after),
           \/ t \in Workers /\ after = "user" /\ thr[t].at = "user"
           \/ t = Main /\ after = "leaveContext" /\ thr[t].at = "leaveResolver" /\ thr[t].call = r
    PROVE  RefInv'
<1>0. /\ rrefs' = [rrefs EXCEPT ![r] = @ \ {t}]
      /\ UNCHANGED <<frame, cdone, crefs>> /\ Main \notin Workers
      /\ thr[t].at \in {"user", "leaveResolver"}
    BY ThreadAssumption DEF DropResolver
<1>1. \A q \in Requests : rrefs'[q] = IF q = r THEN rrefs[r] \ {t} ELSE rrefs[q]
    BY <1>0 DEF KnownInv, TypeInv, TypeOK
<1>2. ASSUME rrefs[r] = {t} PROVE Decoded(r) /\ Closures \in crefs[r]
    BY <1>2 DEF KnownInv, RefInv
<1>3. PICK p : /\ thr' = [thr EXCEPT ![t] = p]
               /\ \/ (t \in Workers /\ p.at = "user") \/ (t = Main /\ p.at = "leaveContext")
                  \/ rrefs[r] = {t} /\ p.at = "release" /\ p.call = r
                  \/ /\ rrefs[r] = {t} /\ p.at = "claim" /\ p.call = r
                     /\ p.out = "Abandoned" /\ p.then = "release"
    <2>1. CASE thr' = [thr EXCEPT ![t] = Jump(t, after)]
        <3>1. (t \in Workers /\ Jump(t, after).at = "user") \/ (t = Main /\ Jump(t, after).at = "leaveContext")
            BY <1>0 DEF Jump, Resting
        <3> QED BY <2>1, <3>1
    <2>2. CASE rrefs[r] = {t} /\ Enter(t, "release", r, NoOutcome, Nowhere)
        <3> DEFINE e == [at |-> "release", call |-> r, out |-> NoOutcome, then |-> Nowhere]
        <3>1. thr' = [thr EXCEPT ![t] = e] /\ e.at = "release" /\ e.call = r
            BY <2>2 DEF Enter
        <3> HIDE DEF e
        <3> QED BY <2>2, <3>1
    <2>3. CASE rrefs[r] = {t} /\ Enter(t, "claim", r, "Abandoned", "release")
        <3> DEFINE e == [at |-> "claim", call |-> r, out |-> "Abandoned", then |-> "release"]
        <3>1. /\ thr' = [thr EXCEPT ![t] = e] /\ e.at = "claim" /\ e.call = r
              /\ e.out = "Abandoned" /\ e.then = "release"
            BY <2>3 DEF Enter
        <3> HIDE DEF e
        <3> QED BY <2>3, <3>1
    <2> QED BY <2>1, <2>2, <2>3 DEF DropResolver
<1>4. Sound(t, p)'
    <2>1. CASE p.at \in {"user", "leaveContext"}
        BY <1>0, <1>3, <2>1 DEF Sound, WorkerAt, InWrapper, ReleasingAt, AbandoningAt, Responding, WithOutcome
    <2>2. CASE rrefs[r] = {t} /\ p.call = r /\ p.at = "release"
        BY <1>0, <1>1, <1>2, <2>2
        DEF Sound, Decoded, WorkerAt, InWrapper, ReleasingAt, AbandoningAt, Responding, WithOutcome
    <2>3. CASE rrefs[r] = {t} /\ p.call = r /\ p.at = "claim" /\ p.out = "Abandoned" /\ p.then = "release"
        <3>1. "Abandoned" \in MayAnswer(frame'[r])
            BY <1>0, <1>2, <2>3, FrameFacts, AsyncAnswers DEF Decoded
        <3>2. Unreachable(r)'
            BY <1>0, <1>1, <1>2, <2>3, FrameFacts DEF Unreachable, Decoded, IsRaw
        <3>3. Decoded(r)' /\ rrefs'[r] = {} /\ Closures \in crefs'[r]
            BY <1>0, <1>1, <1>2, <2>3 DEF Decoded
        <3> QED BY <2>3, <3>1, <3>2, <3>3 DEF Sound, WorkerAt, InWrapper, Responding
    <2> QED BY <1>3, <2>1, <2>2, <2>3
<1>5. \A q \in Requests : rrefs'[q] # {} => Decoded(q)' /\ Closures \in crefs'[q]
    BY <1>0, <1>1 DEF KnownInv, RefInv, Decoded
<1>6. \A q \in Requests, u \in Threads \ {t} :
          (u \in rrefs[q] => u \in rrefs'[q]) /\ (u \in crefs[q] => u \in crefs'[q])
    BY <1>0, <1>1
<1>7. ASSUME NEW u \in Threads \ {t}, ReleasingAt(thr[u])
      PROVE  /\ rrefs'[thr[u].call] = {} /\ Closures \in crefs'[thr[u].call]
             /\ ~(ReleasingAt(p) /\ p.call = thr[u].call)
    <2>1. rrefs[thr[u].call] = {} /\ Closures \in crefs[thr[u].call]
        BY <1>7 DEF KnownInv, RefInv, Sound
    <2>2. thr[u].call \in Requests
        BY <1>7 DEF KnownInv, TypeInv, TypeOK, Position, ReleasingAt, Responding, ForACall
    <2>3. ReleasingAt(p) => p.call = r /\ rrefs[r] = {t}
        BY <1>3 DEF ReleasingAt, Responding
    <2> QED BY <1>0, <1>1, <2>1, <2>2, <2>3
<1>8. FramesStay /\ \A q \in Requests : Unreachable(q) => Unreachable(q)'
    BY <1>0, <1>1 DEF FramesStay, Unreachable, IsRaw
<1>9. \A q \in Requests : frame'[q] \in BadAsync /\ ~cdone'[q] => t # Main /\ frame[q] \in BadAsync /\ ~cdone[q]
    BY <1>0 DEF KnownInv, RefInv
<1> QED BY <1>3, <1>4, <1>5, <1>6, <1>7, <1>8, <1>9, StepRef DEF KnownInv

(* The handler on Main returns, throws, or is left by an exception.           *)
LEMMA HandlerRef ==
    ASSUME KnownInv, HandlerReturn \/ HandlerThrow \/ HandlerEscapes \/ LeaveResolver \/ LeaveContext
    PROVE  RefInv'
<1>0. /\ Main \in Threads /\ Main \notin Workers /\ thr[Main].call \in Requests /\ Sound(Main, thr[Main])
      /\ thr[Main].at \in {"user", "leaveResolver", "leaveContext"}
    BY ThreadAssumption DEF HandlerReturn, HandlerThrow, HandlerEscapes, LeaveResolver, LeaveContext, Threads,
           KnownInv, TypeInv, TypeOK, Handling, Position, ForACall, RefInv
<1>1. CASE HandlerReturn \/ HandlerEscapes
    <2> DEFINE p == Jump(Main, IF IsTyped(thr[Main].call) THEN "leaveResolver" ELSE "leaveContext")
    <2>1. /\ thr[Main].at = "user" /\ thr' = [thr EXCEPT ![Main] = p]
          /\ UNCHANGED <<frame, rrefs, crefs, cdone>>
        BY <1>1 DEF HandlerReturn, HandlerEscapes
    <2>2. /\ p.at = IF IsTyped(thr[Main].call) THEN "leaveResolver" ELSE "leaveContext"
          /\ p.call = thr[Main].call
        BY DEF Jump
    <2> HIDE DEF p
    <2>3. InWrapper(p) => InWrapper(thr[Main])
        BY <2>1 DEF InWrapper
    <2>4. Sound(Main, p) /\ ~ReleasingAt(p)
        BY <1>0, <2>2, <2>3 DEF Sound, ReleasingAt, AbandoningAt, Responding, WithOutcome
    <2> QED BY <1>0, <2>1, <2>4, MoveRef
<1>2. CASE HandlerThrow
    <2> PICK r \in Requests : r = thr[Main].call
        BY <1>0
    <2>1. /\ thr[Main].at = "user" /\ UNCHANGED <<frame, rrefs, crefs>>
          /\ \A q \in Requests : cdone[q] => cdone'[q]
        BY <1>2 DEF HandlerThrow, KnownInv, TypeInv, TypeOK
    <2>2. IsTyped(r) => Main \in rrefs[r]
        BY <1>0, <2>1 DEF Sound, InWrapper
    <2>3. frame[r] \in AsyncFrames \ BadAsync
        <3>1. frame[r] \in AsyncFrames
            BY <2>1 DEF KnownInv, OnceInv
        <3>2. IsTyped(r) => Decoded(r)
            BY <2>2 DEF KnownInv, RefInv
        <3> QED BY <3>1, <3>2, FrameFacts DEF Decoded, IsTyped
    <2>4. ASSUME NEW place \in Responding \ {"encode"}, NEW next \in {"leaveResolver", "leaveContext"},
                 Enter(Main, place, r, "InternalError", next)
          PROVE  RefInv'
        <3> DEFINE p == [at |-> place, call |-> r, out |-> "InternalError", then |-> next]
        <3>1. thr' = [thr EXCEPT ![Main] = p]
            BY <2>4 DEF Enter
        <3>2. Sound(Main, p) /\ ~ReleasingAt(p)
            BY <1>0, <2>2, <2>3, EnterSound
        <3> HIDE DEF p
        <3> QED BY <1>0, <2>1, <3>1, <3>2, MoveRef
    <2>5. {"claim", "send"} \subseteq Responding \ {"encode"}
        BY DEF Responding
    <2> QED BY <1>2, <2>4, <2>5 DEF HandlerThrow
<1>3. CASE LeaveResolver
    BY <1>0, <1>3, DropResolverRef DEF LeaveResolver
<1>4. CASE LeaveContext
    BY <1>0, <1>4, DropContextRef DEF LeaveContext
<1> QED BY <1>1, <1>2, <1>3, <1>4

(* Main goes on in its loop, its drain or its shutdown, or reads a frame it   *)
(* answers itself.                                                            *)
LEMMA LoopRef ==
    ASSUME KnownInv,
           \/ \E r \in Requests, f \in Input : ProcessInline(r, f)
           \/ Reply \/ EndOfInput \/ SendExit \/ Join \/ Destroy \/ Unwind \/ WaitStep \/ SpuriousWake
    PROVE  RefInv'
<1>0. /\ UNCHANGED <<rrefs, crefs, cdone>> /\ thr[Main].at # "claim" /\ Main \in Threads
      /\ thr \in [Threads -> Position]
    BY DEF ProcessInline, Reply, EndOfInput, SendExit, Join, Destroy, Unwind, Threads,
           WaitStep, WaitLock, WaitCheck, WaitBlock, SpuriousWake, KnownInv, TypeInv, TypeOK
<1>1. ASSUME NEW p, thr' = [thr EXCEPT ![Main] = p], UNCHANGED frame,
             p.at \in {"idle", "lock", "check", "block", "asleep", "drained", "join", "returned", "destroyed"}
      PROVE  RefInv'
    <2>1. Sound(Main, p) /\ ~ReleasingAt(p)
        BY <1>1, LoopSound
    <2> QED BY <1>0, <1>1, <2>1, MoveRef
<1>2. ASSUME NEW at \in {"lock", "check", "block", "asleep", "drained", "join", "returned", "destroyed"},
             thr' = [thr EXCEPT ![Main].at = at], UNCHANGED frame
      PROVE  RefInv'
    <2>1. thr' = [thr EXCEPT ![Main] = [thr[Main] EXCEPT !.at = at]] /\ [thr[Main] EXCEPT !.at = at].at = at
        BY <1>0, <1>2 DEF Position
    <2> QED BY <1>1, <1>2, <2>1
<1>3. CASE EndOfInput \/ SendExit \/ Join \/ Destroy \/ Unwind \/ WaitStep \/ SpuriousWake
    <2>1. UNCHANGED frame
        BY <1>3 DEF EndOfInput, SendExit, Join, Destroy, Unwind, WaitStep, WaitLock, WaitCheck, WaitBlock, SpuriousWake
    <2>2. PICK at \in {"lock", "check", "block", "asleep", "drained", "join", "returned", "destroyed"} :
              thr' = [thr EXCEPT ![Main].at = at]
        BY <1>3 DEF EndOfInput, SendExit, Join, Destroy, Unwind, WaitStep, WaitLock, WaitCheck,
               WaitBlock, SpuriousWake
    <2> QED BY <1>2, <2>1, <2>2
<1>4. CASE Reply
    BY <1>1, <1>4 DEF Reply, Resting
<1>5. ASSUME NEW r \in Requests, NEW f \in Input, ProcessInline(r, f)
      PROVE  RefInv'
    <2>1. PICK o \in MayAnswer(f) : Enter(Main, "reply", r, o, Nowhere)
        BY <1>5 DEF ProcessInline
    <2> DEFINE p == [at |-> "reply", call |-> r, out |-> o, then |-> Nowhere]
    <2>2. /\ thr' = [thr EXCEPT ![Main] = p] /\ p.at = "reply" /\ p.call = r /\ p.out = o
          /\ frame[r] = Unread /\ frame' = [frame EXCEPT ![r] = f] /\ f \notin AsyncFrames
        BY <1>5, <2>1 DEF ProcessInline, Enter
    <2> HIDE DEF p
    <2>3. \A q \in Requests : frame'[q] = IF q = r THEN f ELSE frame[q]
        BY <2>2 DEF KnownInv, TypeInv, TypeOK
    <2>4. FramesStay /\ ~ReleasingAt(p)
        BY <2>2, <2>3 DEF FramesStay, ReleasingAt, Responding
    <2>5. \A q \in Requests : IsTyped(q)' <=> IsTyped(q)
        BY <2>2, <2>3, FrameFacts DEF IsTyped
    <2>6. Sound(Main, p)'
        BY <2>2, <2>3, ThreadAssumption DEF Sound, InWrapper, ReleasingAt, AbandoningAt, Responding
    <2>7. \A q \in Requests : rrefs'[q] # {} => Decoded(q)' /\ Closures \in crefs'[q]
        BY <1>0, <2>2, <2>3, FrameFacts DEF KnownInv, RefInv, Decoded
    <2>8. \A u \in Threads : ReleasingAt(thr[u]) => rrefs'[thr[u].call] = {} /\ Closures \in crefs'[thr[u].call]
        BY <1>0 DEF KnownInv, RefInv, Sound
    <2>9. \A q \in Requests : Unreachable(q) => Unreachable(q)'
        BY <1>0, <2>2, <2>3 DEF Unreachable, IsRaw
    <2>10. \A q \in Requests : ~(frame'[q] \in BadAsync /\ ~cdone'[q])
        <3>1. thr[Main].at = "idle"
            BY <1>5 DEF ProcessInline
        <3> QED BY <1>0, <2>2, <2>3, <3>1, FrameFacts DEF KnownInv, RefInv
    <2> QED BY <1>0, <2>2, <2>4, <2>6, <2>7, <2>8, <2>9, <2>10, StepRef DEF KnownInv
<1> QED BY <1>3, <1>4, <1>5

(* dispatchAsync makes the first references to a call.                        *)
LEMMA DispatchRef ==
    ASSUME KnownInv, NEW r \in Requests, NEW f \in Input, DispatchAsync(r, f)
    PROVE  RefInv'
<1>0. /\ thr[Main].at = "idle" /\ frame[r] = Unread /\ f \in AsyncFrames
      /\ frame' = [frame EXCEPT ![r] = f] /\ UNCHANGED cdone
      /\ Main \in Threads /\ Main \notin Workers
    BY ThreadAssumption DEF DispatchAsync, Threads
<1>1. \A q \in Requests : frame'[q] = IF q = r THEN f ELSE frame[q]
    BY <1>0 DEF KnownInv, TypeInv, TypeOK
<1>2. rrefs[r] = {} /\ crefs[r] = {} /\ ~Unreachable(r) /\ ~Decoded(r)
    BY <1>0, FrameFacts DEF KnownInv, OnceInv, Unreachable, Decoded
<1>3. PICK p, R, C :
          /\ thr' = [thr EXCEPT ![Main] = p] /\ p.call = r /\ p.at \in {"claim", "user"}
          /\ rrefs' = [rrefs EXCEPT ![r] = R] /\ crefs' = [crefs EXCEPT ![r] = C]
          /\ \/ f \in BadAsync /\ p.at = "claim" /\ p.out = "InvalidParams" /\ p.then = "leaveContext" /\ R = {}
             \/ f \in TypedFrames \ BadAsync /\ p.at = "user" /\ R = {Main} /\ Closures \in C
             \/ f \notin TypedFrames /\ p.at = "user" /\ R = {}
    <2> DEFINE a == [at |-> "claim", call |-> r, out |-> "InvalidParams", then |-> "leaveContext"]
               b == [at |-> "user", call |-> r, out |-> NoOutcome, then |-> Nowhere]
    <2>1. rrefs = [rrefs EXCEPT ![r] = {}]
        BY <1>2 DEF KnownInv, TypeInv, TypeOK
    <2>2. /\ a.at = "claim" /\ a.call = r /\ a.out = "InvalidParams" /\ a.then = "leaveContext"
          /\ b.at = "user" /\ b.call = r
        OBVIOUS
    <2>3. \/ /\ f \in BadAsync /\ thr' = [thr EXCEPT ![Main] = a]
             /\ crefs' = [crefs EXCEPT ![r] = {Main}] /\ UNCHANGED rrefs
          \/ /\ f \in TypedFrames \ BadAsync /\ thr' = [thr EXCEPT ![Main] = b]
             /\ crefs' = [crefs EXCEPT ![r] = {Main, Closures}] /\ rrefs' = [rrefs EXCEPT ![r] = {Main}]
          \/ /\ f \notin TypedFrames /\ thr' = [thr EXCEPT ![Main] = b]
             /\ crefs' = [crefs EXCEPT ![r] = {Main}] /\ UNCHANGED rrefs
        BY DEF DispatchAsync, Enter
    <2> HIDE DEF a, b
    <2>4. CASE f \in BadAsync /\ thr' = [thr EXCEPT ![Main] = a]
               /\ crefs' = [crefs EXCEPT ![r] = {Main}] /\ UNCHANGED rrefs
        BY <2>1, <2>2, <2>4
    <2>5. CASE f \in TypedFrames \ BadAsync /\ thr' = [thr EXCEPT ![Main] = b]
               /\ crefs' = [crefs EXCEPT ![r] = {Main, Closures}] /\ rrefs' = [rrefs EXCEPT ![r] = {Main}]
        BY <2>2, <2>5
    <2>6. CASE f \notin TypedFrames /\ thr' = [thr EXCEPT ![Main] = b]
               /\ crefs' = [crefs EXCEPT ![r] = {Main}] /\ UNCHANGED rrefs
        BY <2>1, <2>2, <2>6
    <2> QED BY <2>3, <2>4, <2>5, <2>6
<1>4. \A q \in Requests : /\ rrefs'[q] = IF q = r THEN R ELSE rrefs[q]
                          /\ crefs'[q] = IF q = r THEN C ELSE crefs[q]
    BY <1>3 DEF KnownInv, TypeInv, TypeOK
<1>5. FramesStay /\ ~ReleasingAt(p)
    BY <1>0, <1>1, <1>3 DEF FramesStay, ReleasingAt, Responding
<1>6. Sound(Main, p)'
    <2>1. CASE p.at = "claim"
        <3>1. p.out \in MayAnswer(frame'[r])
            BY <1>1, <1>3, <2>1, OtherAnswers
        <3> QED BY <1>0, <1>3, <2>1, <3>1 DEF Sound, InWrapper, ReleasingAt, AbandoningAt, Responding
    <2>2. CASE p.at = "user"
        <3>1. f \in TypedFrames => Main \in rrefs'[r]
            BY <1>3, <1>4, <2>2
        <3>2. IsTyped(r)' => f \in TypedFrames
            BY <1>1 DEF IsTyped
        <3> QED BY <1>0, <1>3, <2>2, <3>1, <3>2 DEF Sound, ReleasingAt, AbandoningAt, Responding, WithOutcome
    <2> QED BY <1>3, <2>1, <2>2
<1>7. \A q \in Requests : rrefs'[q] # {} => Decoded(q)' /\ Closures \in crefs'[q]
    <2>1. Decoded(r)' <=> f \in TypedFrames \ BadAsync
        BY <1>1 DEF Decoded
    <2>2. \A q \in Requests \ {r} : Decoded(q)' <=> Decoded(q)
        BY <1>1 DEF Decoded
    <2> QED BY <1>3, <1>4, <2>1, <2>2 DEF KnownInv, RefInv
<1>8. \A q \in Requests, u \in Threads \ {Main} :
          (u \in rrefs[q] => u \in rrefs'[q]) /\ (u \in crefs[q] => u \in crefs'[q])
    BY <1>2, <1>4
<1>9. ASSUME NEW u \in Threads \ {Main}, ReleasingAt(thr[u])
      PROVE  rrefs'[thr[u].call] = {} /\ Closures \in crefs'[thr[u].call]
    <2>1. Decoded(thr[u].call) /\ rrefs[thr[u].call] = {} /\ Closures \in crefs[thr[u].call]
        BY <1>9 DEF KnownInv, RefInv, Sound
    <2>2. thr[u].call \in Requests
        BY <1>9 DEF KnownInv, TypeInv, TypeOK, Position, ReleasingAt, Responding, ForACall
    <2> QED BY <1>2, <1>4, <2>1, <2>2
<1>10. \A q \in Requests : Unreachable(q) => Unreachable(q)'
    BY <1>1, <1>2, <1>4 DEF Unreachable, IsRaw
<1>11. \A q \in Requests : frame'[q] \in BadAsync /\ ~cdone'[q] => p.at = "claim" /\ p.call = q
    <2>1. \A q \in Requests \ {r} : ~(frame'[q] \in BadAsync /\ ~cdone'[q])
        BY <1>0, <1>1 DEF KnownInv, RefInv
    <2> QED BY <1>1, <1>3, <2>1, FrameFacts
<1> QED BY <1>0, <1>3, <1>5, <1>6, <1>7, <1>8, <1>9, <1>10, <1>11, StepRef DEF KnownInv

(* The running handler hands on what Main itself still holds.                 *)
LEMMA CopyRef ==
    ASSUME KnownInv, NEW w \in Workers, NEW r \in Requests, CopyHandle(w, r)
    PROVE  RefInv'
<1>0. /\ UNCHANGED <<frame, cdone, thr>> /\ w \in Threads /\ Main \in Threads
      /\ thr[Main].at = "user" /\ thr[Main].call = r
    BY DEF CopyHandle, Threads
<1>1. /\ IsTyped(r) => Main \in rrefs[r] /\ Decoded(r)
      /\ Main \in crefs[r]
    BY <1>0 DEF KnownInv, RefInv, Sound, InWrapper, CountInv, HandleInv, InDispatch
<1>2. \A q \in Requests : /\ rrefs[q] \subseteq rrefs'[q] /\ crefs[q] \subseteq crefs'[q]
                          /\ rrefs'[q] # {} => rrefs[q] # {}
                          /\ crefs'[q] # {} => crefs[q] # {}
    BY <1>1 DEF CopyHandle, KnownInv, TypeInv, TypeOK
<1>3. \A q \in Requests : rrefs'[q] # {} => Decoded(q)' /\ Closures \in crefs'[q]
    BY <1>0, <1>2 DEF KnownInv, RefInv, Decoded
<1>4. FramesStay /\ \A q \in Requests : Unreachable(q) => Unreachable(q)'
    BY <1>0, <1>2 DEF FramesStay, Unreachable, IsRaw
<1>5. \A u \in Threads : ReleasingAt(thr[u]) => rrefs'[thr[u].call] = {} /\ Closures \in crefs'[thr[u].call]
    <2> SUFFICES ASSUME NEW u \in Threads, ReleasingAt(thr[u])
                 PROVE  rrefs'[thr[u].call] = {} /\ Closures \in crefs'[thr[u].call]
        OBVIOUS
    <2>1. thr[u].call \in Requests
        BY DEF KnownInv, TypeInv, TypeOK, Position, ReleasingAt, Responding, ForACall
    <2> QED BY <1>2, <2>1 DEF KnownInv, RefInv, Sound
<1>6. ASSUME NEW u \in Threads PROVE Sound(u, thr[u])'
    <2>1. PICK x : x = thr[u]
        OBVIOUS
    <2>2. Sound(u, x)'
        BY <1>2, <1>4, <1>5, <2>1, OthersSound DEF KnownInv
    <2> QED BY <1>0, <2>1, <2>2 DEF Sound, IsTyped, Decoded, Unreachable, IsRaw
<1> QED BY <1>0, <1>3, <1>6 DEF KnownInv, RefInv, ReleasingAt

(* A notify wakes Main and moves no other thread. *)
LEMMA NotifyRef ==
    ASSUME KnownInv, NEW t \in Threads, Notify(t)
    PROVE  RefInv'
<1>0. /\ UNCHANGED <<frame, cdone, rrefs, crefs>> /\ Main \in Threads /\ Main \notin Workers
      /\ \A u \in Threads : thr'[u] = IF u = t THEN Resting(t) ELSE Wake(thr[u])
    BY ThreadAssumption DEF Notify, NotifyUnlocked, Threads
<1>1. \A u \in Threads : \/ thr'[u] = thr[u]
                         \/ /\ thr'[u].at \in {"idle", "lock"} \/ (u \in Workers /\ thr'[u].at = "user")
                            /\ u \in Workers => thr'[u].at = "user"
                            /\ thr[u].at \in {"notify", "asleep"}
    <2> SUFFICES ASSUME NEW u \in Threads, thr'[u] # thr[u]
                 PROVE  /\ thr'[u].at \in {"idle", "lock"} \/ (u \in Workers /\ thr'[u].at = "user")
                        /\ u \in Workers => thr'[u].at = "user"
                        /\ thr[u].at \in {"notify", "asleep"}
        OBVIOUS
    <2>1. CASE u = t
        BY <1>0, <2>1 DEF Resting, Notify, NotifyUnlocked, Threads
    <2>2. CASE u # t
        <3>1. thr[u].at = "asleep" /\ thr'[u] = [thr[u] EXCEPT !.at = "lock"]
            BY <1>0, <2>2 DEF Wake
        <3>2. thr'[u].at = "lock"
            BY <3>1 DEF KnownInv, TypeInv, TypeOK, Position
        <3>3. u \notin Workers
            BY <3>1 DEF KnownInv, RefInv, Sound, WorkerAt, Responding
        <3> QED BY <3>1, <3>2, <3>3
    <2> QED BY <2>1, <2>2
<1>2. \A u \in Threads : ReleasingAt(thr'[u]) => thr'[u] = thr[u]
    BY <1>1 DEF ReleasingAt, Responding
<1>3. ASSUME NEW u \in Threads PROVE Sound(u, thr[u])'
    <2>1. CASE thr'[u] = thr[u]
        BY <1>0, <2>1 DEF KnownInv, RefInv, Sound, IsTyped, Decoded, Unreachable, IsRaw
    <2>2. CASE thr'[u].at \in {"idle", "lock", "user"} /\ (u = Main => thr'[u].at # "user")
               /\ (u \in Workers => thr'[u].at = "user")
        BY <2>2 DEF Sound, WorkerAt, InWrapper, ReleasingAt, AbandoningAt, Responding, WithOutcome
    <2> QED BY <1>0, <1>1, <2>1, <2>2
<1>4. \A u, v \in Threads :
          (ReleasingAt(thr[u]) /\ ReleasingAt(thr[v]) /\ thr[u].call = thr[v].call)' => u = v
    BY <1>2 DEF KnownInv, RefInv, ReleasingAt
<1>5. \A q \in Requests : frame'[q] \in BadAsync /\ ~cdone'[q] => thr'[Main].at = "claim" /\ thr'[Main].call = q
    BY <1>0, <1>1 DEF KnownInv, RefInv
<1>6. \A q \in Requests : rrefs'[q] # {} => Decoded(q)' /\ Closures \in crefs'[q]
    BY <1>0 DEF KnownInv, RefInv, Decoded
<1> QED BY <1>3, <1>4, <1>5, <1>6 DEF RefInv

(* A frame is read by a handler that throws at once. *)
LEMMA InlineEscapesRef ==
    ASSUME KnownInv, NEW r \in Requests, NEW f \in Input, InlineEscapes(r, f)
    PROVE  RefInv'
<1>0. /\ UNCHANGED <<rrefs, crefs, cdone, thr>> /\ Main \in Threads /\ thr[Main].at = "idle"
      /\ frame[r] = Unread /\ frame' = [frame EXCEPT ![r] = f]
    BY DEF InlineEscapes, Threads
<1>1. f \notin AsyncFrames
    BY DEF InlineEscapes, AsyncFrames
<1>2. \A q \in Requests : frame'[q] = IF q = r THEN f ELSE frame[q]
    BY <1>0 DEF KnownInv, TypeInv, TypeOK
<1>3. FramesStay /\ \A q \in Requests : Unreachable(q) => Unreachable(q)'
    BY <1>0, <1>2 DEF FramesStay, Unreachable, IsRaw
<1>4. \A q \in Requests : rrefs'[q] # {} => Decoded(q)' /\ Closures \in crefs'[q]
    BY <1>0, <1>2, FrameFacts DEF KnownInv, RefInv, Decoded
<1>5. \A u \in Threads : ReleasingAt(thr[u]) => rrefs'[thr[u].call] = {} /\ Closures \in crefs'[thr[u].call]
    BY <1>0 DEF KnownInv, RefInv, Sound
<1>6. ASSUME NEW u \in Threads PROVE Sound(u, thr[u])'
    <2>1. PICK x : x = thr[u]
        OBVIOUS
    <2>2. Sound(u, x)'
        BY <1>0, <1>3, <1>5, <2>1, OthersSound DEF KnownInv
    <2> QED BY <1>0, <2>1, <2>2 DEF Sound, IsTyped, Decoded, Unreachable, IsRaw
<1>7. \A q \in Requests : ~(frame'[q] \in BadAsync /\ ~cdone'[q])
    BY <1>0, <1>1, <1>2, FrameFacts DEF KnownInv, RefInv
<1> QED BY <1>0, <1>4, <1>6, <1>7 DEF KnownInv, RefInv, ReleasingAt

LEMMA NextRef == KnownInv /\ [Next]_vars => RefInv'
<1> SUFFICES ASSUME KnownInv, [Next]_vars PROVE RefInv'
    OBVIOUS
<1>0. Workers \subseteq Threads
    BY DEF Threads
<1>1. ASSUME \/ UNCHANGED vars \/ ReadThrows
             \/ \E t \in Threads : Push(t)
             \/ \E i \in 1..Len(pending) : WriteOut(i)
      PROVE  RefInv'
    <2>1. UNCHANGED <<frame, rrefs, crefs, cdone, thr>>
        BY <1>1 DEF vars, ReadThrows, Push, WriteOut
    <2> QED BY <2>1 DEF KnownInv, RefInv, Sound, Decoded, Unreachable, IsTyped, IsRaw
<1>2. ASSUME NEW w \in Workers, NEW r \in Requests, Drop(w, r) PROVE RefInv'
    BY <1>0, <1>2, DropResolverRef, DropContextRef DEF Drop
<1>3. ASSUME NEW t \in Threads, Release(t) PROVE RefInv'
    <2>1. thr[t].call \in Requests
        BY <1>3 DEF Release, KnownInv, TypeInv, TypeOK, Position, ForACall
    <2> QED BY <1>3, <2>1, DropContextRef DEF Release
<1>4. ASSUME NEW t \in Threads, LibraryStep(t) PROVE RefInv'
    BY <1>3, <1>4, LibraryStepRef, NotifyRef DEF LibraryStep
<1>5. CASE Escape
    BY <1>1, <1>5, LibraryStepRef, HandlerRef, InlineEscapesRef DEF Escape
<1> QED BY <1>1, <1>2, <1>4, <1>5, StepCases, DispatchRef, LoopRef, CopyRef, FireRef, HandlerRef

LEMMA InitRef == Init => RefInv
<1> SUFFICES ASSUME Init PROVE RefInv
    OBVIOUS
<1>1. /\ rrefs = [r \in Requests |-> {}] /\ crefs = [r \in Requests |-> {}]
      /\ frame = [r \in Requests |-> Unread]
      /\ \A t \in Threads : thr[t].at = IF t = Main THEN "idle" ELSE "user"
    BY DEF Init, SInit, Resting
<1>2. \A t \in Threads : Sound(t, thr[t]) /\ ~ReleasingAt(thr[t])
    BY <1>1, ThreadAssumption
    DEF Sound, WorkerAt, InWrapper, ReleasingAt, AbandoningAt, Responding, WithOutcome, Threads
<1> QED BY <1>1, <1>2, FrameFacts DEF RefInv

(* The invariant the rest is proved from. *)
LEMMA InitKnown == Init => KnownInv
BY InitTyped, InitOnce, InitCount, InitRef DEF KnownInv

LEMMA NextKnown == KnownInv /\ [Next]_vars => KnownInv'
BY NextTyped, NextOnce, NextCount, NextRef DEF KnownInv
=============================================================================
