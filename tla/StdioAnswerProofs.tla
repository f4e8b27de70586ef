------------------------- MODULE StdioAnswerProofs -------------------------
(* What becomes of the answer to each request, for every set of requests and  *)
(* workers: the first one stands, an exception and the sentinel exclude each  *)
(* other, no answer comes behind the sentinel, only answers of workers may be *)
(* overtaken by it, and the server keeps its contract.                        *)
EXTENDS StdioReferenceProofs

-----------------------------------------------------------------------------
(* What carries an answer, and how a step may move it.                        *)

LEMMA CarriedIn ==
    ASSUME NEW r, NEW o
    PROVE  o \in Carried(r) <=> \/ \E t \in Threads : Holding(t, r) /\ thr[t].out = o
                                \/ \E i \in 1..Len(pending) : pending[i].call = r /\ pending[i].out = o
                                \/ \E i \in 1..Len(wire) : wire[i][1] = r /\ wire[i][2] = o
BY DEF Carried

LEMMA NoneCarried ==
    /\ \A r : NoCarrier(r) <=> Carried(r) = {}
    /\ \A r : NoCarrier(r) <=> Carriers(r) = {}
BY DEF NoCarrier, Carried, Carriers

(* A thread that neither comes from nor gets to an answer. *)
LEMMA MoveCarries ==
    ASSUME TypeInv, NEW t \in Threads, NEW p, thr' = [thr EXCEPT ![t] = p], UNCHANGED <<pending, wire>>,
           thr[t].at \notin {"reply", "send"}, p.at \notin {"reply", "send"}
    PROVE  \A r \in Requests : Carried(r)' = Carried(r)
<1>1. \A u \in Threads : thr'[u] = IF u = t THEN p ELSE thr[u]
    BY DEF TypeInv, TypeOK
<1>2. \A r \in Requests, u \in Threads : (Holding(u, r)' <=> Holding(u, r)) /\ (Holding(u, r) => thr'[u] = thr[u])
    BY <1>1 DEF Holding
<1>3. ASSUME NEW r \in Requests
      PROVE  {thr'[u].out : u \in {u \in Threads : Holding(u, r)'}} = {thr[u].out : u \in {u \in Threads : Holding(u, r)}}
    BY <1>2
<1> QED BY <1>3 DEF Carried

(* A thread that takes an answer to a call which had none. *)
LEMMA TakeCarries ==
    ASSUME TypeInv, NEW t \in Threads, NEW p, thr' = [thr EXCEPT ![t] = p], UNCHANGED <<pending, wire>>,
           thr[t].at \notin {"reply", "send"}, p.at \in {"reply", "send"}, NEW r \in Requests, p.call = r, NoCarrier(r)
    PROVE  /\ Holding(t, r)' /\ Carried(r)' = {thr'[t].out}
           /\ \A q \in Requests \ {r} : Carried(q)' = Carried(q)
<1>1. \A u \in Threads : thr'[u] = IF u = t THEN p ELSE thr[u]
    BY DEF TypeInv, TypeOK
<1>2. Holding(t, r)' /\ \A u \in Threads : Holding(u, r)' => u = t
    BY <1>1 DEF Holding, NoCarrier
<1>3. Carried(r)' = {thr'[t].out}
    <2>1. {thr'[u].out : u \in {u \in Threads : Holding(u, r)'}} = {thr'[t].out}
        BY <1>2
    <2>2. /\ {pending'[i].out : i \in {i \in 1..Len(pending') : pending'[i].call = r}} = {}
          /\ {wire'[i][2] : i \in {i \in 1..Len(wire') : wire'[i][1] = r}} = {}
        BY DEF NoCarrier
    <2> QED BY <2>1, <2>2 DEF Carried
<1>4. ASSUME NEW q \in Requests \ {r} PROVE Carried(q)' = Carried(q)
    <2>1. \A u \in Threads : (Holding(u, q)' <=> Holding(u, q)) /\ (Holding(u, q) => thr'[u] = thr[u])
        BY <1>1 DEF Holding
    <2>2. {thr'[u].out : u \in {u \in Threads : Holding(u, q)'}} = {thr[u].out : u \in {u \in Threads : Holding(u, q)}}
        BY <2>1
    <2> QED BY <2>2 DEF Carried
<1> QED BY <1>2, <1>3, <1>4

(* A thread that lets go of the answer it holds. *)
LEMMA LoseCarries ==
    ASSUME TypeInv, OnceInv, NEW t \in Threads, NEW p, thr' = [thr EXCEPT ![t] = p], UNCHANGED <<pending, wire>>,
           p.at \notin {"reply", "send"}, NEW r \in Requests, Holding(t, r)
    PROVE  Carried(r)' = {} /\ \A q \in Requests \ {r} : Carried(q)' = Carried(q)
<1>1. \A u \in Threads : thr'[u] = IF u = t THEN p ELSE thr[u]
    BY DEF TypeInv, TypeOK
<1>2. OneCarrier(r)
    BY DEF OnceInv
<1>3. \A u \in Threads : ~Holding(u, r)'
    BY <1>1, <1>2 DEF Holding, OneCarrier
<1>4. Carried(r)' = {}
    <2>1. /\ {pending'[i].out : i \in {i \in 1..Len(pending') : pending'[i].call = r}} = {}
          /\ {wire'[i][2] : i \in {i \in 1..Len(wire') : wire'[i][1] = r}} = {}
        BY <1>2 DEF OneCarrier
    <2> QED BY <1>3, <2>1 DEF Carried
<1>5. ASSUME NEW q \in Requests \ {r} PROVE Carried(q)' = Carried(q)
    <2>1. \A u \in Threads : (Holding(u, q)' <=> Holding(u, q)) /\ (Holding(u, q) => thr'[u] = thr[u])
        BY <1>1 DEF Holding
    <2>2. {thr'[u].out : u \in {u \in Threads : Holding(u, q)'}} = {thr[u].out : u \in {u \in Threads : Holding(u, q)}}
        BY <2>1
    <2> QED BY <2>2 DEF Carried
<1> QED BY <1>4, <1>5

(* An enqueue: what the queue carries then. *)
LEMMA AppendQueue ==
    ASSUME TypeInv, NEW item, pending' = Append(pending, item), NEW r
    PROVE  {pending'[i].out : i \in {i \in 1..Len(pending') : pending'[i].call = r}} =
              {pending[i].out : i \in {i \in 1..Len(pending) : pending[i].call = r}}
                 \cup (IF item.call = r THEN {item.out} ELSE {})
<1>1. pending \in Seq(Item) /\ Len(pending) \in Nat
    BY DEF TypeInv, TypeOK
<1>2. /\ \A i \in 1..Len(pending) : i \in 1..Len(pending') /\ pending'[i] = pending[i]
      /\ pending'[Len(pending) + 1] = item /\ Len(pending) + 1 \in 1..Len(pending')
      /\ \A i \in 1..Len(pending') : i \in 1..Len(pending) \/ i = Len(pending) + 1
    BY <1>1
<1> QED BY <1>2

(* A thread enqueues the answer it holds. *)
LEMMA EnqueueCarries ==
    ASSUME TypeInv, NEW t \in Threads, NEW p, thr' = [thr EXCEPT ![t] = p], UNCHANGED wire,
           thr[t].at \in {"reply", "send"}, p.at \notin {"reply", "send"}, Enqueue(t, thr[t].call, thr[t].out)
    PROVE  \A r \in Requests : Carried(r)' = Carried(r)
<1>1. \A u \in Threads : thr'[u] = IF u = t THEN p ELSE thr[u]
    BY DEF TypeInv, TypeOK
<1> DEFINE item == [by |-> t, call |-> thr[t].call, out |-> thr[t].out]
<1>2. pending' = Append(pending, item) /\ item.call = thr[t].call /\ item.out = thr[t].out
    BY DEF Enqueue
<1> HIDE DEF item
<1>3. PICK c, o : c = thr[t].call /\ o = thr[t].out
    OBVIOUS
<1>4. ASSUME NEW r \in Requests PROVE Carried(r)' = Carried(r)
    <2>1. /\ \A u \in Threads \ {t} : (Holding(u, r)' <=> Holding(u, r)) /\ thr'[u] = thr[u]
          /\ ~Holding(t, r)' /\ (Holding(t, r) <=> c = r)
        BY <1>1, <1>3 DEF Holding
    <2>2. {thr[u].out : u \in {u \in Threads : Holding(u, r)}} =
              {thr'[u].out : u \in {u \in Threads : Holding(u, r)'}} \cup (IF c = r THEN {o} ELSE {})
        BY <1>3, <2>1
    <2>3. {pending'[i].out : i \in {i \in 1..Len(pending') : pending'[i].call = r}} =
              {pending[i].out : i \in {i \in 1..Len(pending) : pending[i].call = r}}
                 \cup (IF c = r THEN {o} ELSE {})
        BY <1>2, <1>3, AppendQueue
    <2> QED BY <2>2, <2>3 DEF Carried
<1> QED BY <1>4

(* Something that answers no request is enqueued. *)
LEMMA OtherCarries ==
    ASSUME TypeInv, NEW item, item.call = NoCall, pending' = Append(pending, item), UNCHANGED wire,
           \A r \in Requests, u \in Threads : (Holding(u, r)' <=> Holding(u, r)) /\ (Holding(u, r) => thr'[u] = thr[u])
    PROVE  \A r \in Requests : Carried(r)' = Carried(r)
<1>1. ASSUME NEW r \in Requests PROVE Carried(r)' = Carried(r)
    <2>1. item.call # r
        BY ThreadAssumption
    <2>2. {pending'[i].out : i \in {i \in 1..Len(pending') : pending'[i].call = r}} =
              {pending[i].out : i \in {i \in 1..Len(pending) : pending[i].call = r}}
        BY <2>1, AppendQueue
    <2>3. {thr'[u].out : u \in {u \in Threads : Holding(u, r)'}} = {thr[u].out : u \in {u \in Threads : Holding(u, r)}}
        OBVIOUS
    <2> QED BY <2>2, <2>3 DEF Carried
<1> QED BY <1>1

(* The responder takes an item. *)
LEMMA WriteCarries ==
    ASSUME TypeInv, NEW i \in 1..Len(pending), WriteOut(i), pending[i].out = "Exit" => pending[i].call = NoCall
    PROVE  \A r \in Requests : Carried(r)' = Carried(r)
<1>0. /\ pending \in Seq(Item) /\ Len(pending) \in Nat
      /\ wire \in Seq((Requests \cup {NoCall}) \X (Outcomes \cup {"Notification"})) /\ Len(wire) \in Nat
      /\ UNCHANGED thr
    BY DEF TypeInv, TypeOK, WriteOut
<1>1. /\ Len(pending') = Len(pending) - 1
      /\ \A j \in 1..(Len(pending) - 1) : pending'[j] = IF j < i THEN pending[j] ELSE pending[j + 1]
    BY <1>0, RemoveAtProperties DEF WriteOut
<1>2. PICK c, o : c = pending[i].call /\ o = pending[i].out
    OBVIOUS
<1>3. ASSUME NEW r \in Requests PROVE Carried(r)' = Carried(r)
    <2>1. {pending[j].out : j \in {j \in 1..Len(pending) : pending[j].call = r}} =
              {pending'[j].out : j \in {j \in 1..Len(pending') : pending'[j].call = r}}
                 \cup (IF c = r THEN {o} ELSE {})
        <3>1. \A j \in 1..Len(pending') : \E k \in 1..Len(pending) : pending'[j] = pending[k]
            BY <1>0, <1>1
        <3>2. \A k \in 1..Len(pending) : k = i \/ \E j \in 1..Len(pending') : pending'[j] = pending[k]
            <4> SUFFICES ASSUME NEW k \in 1..Len(pending), k # i
                         PROVE  \E j \in 1..Len(pending') : pending'[j] = pending[k]
                OBVIOUS
            <4>1. CASE k < i
                BY <1>0, <1>1, <4>1
            <4>2. CASE ~(k < i)
                <5>1. k - 1 \in 1..Len(pending') /\ ~(k - 1 < i) /\ (k - 1) + 1 = k
                    BY <1>0, <1>1, <4>2
                <5> QED BY <1>1, <5>1
            <4> QED BY <4>1, <4>2
        <3>3. ASSUME NEW x
              PROVE  (\E k \in 1..Len(pending) : pending[k].call = r /\ pending[k].out = x)
                        <=> \/ \E j \in 1..Len(pending') : pending'[j].call = r /\ pending'[j].out = x
                            \/ c = r /\ x = o
            <4>1. ASSUME NEW k \in 1..Len(pending), pending[k].call = r, pending[k].out = x
                  PROVE  \/ \E j \in 1..Len(pending') : pending'[j].call = r /\ pending'[j].out = x
                         \/ c = r /\ x = o
                BY <1>2, <3>2, <4>1
            <4>2. ASSUME NEW j \in 1..Len(pending'), pending'[j].call = r, pending'[j].out = x
                  PROVE  \E k \in 1..Len(pending) : pending[k].call = r /\ pending[k].out = x
                BY <3>1, <4>2
            <4> QED BY <1>2, <4>1, <4>2
        <3> QED BY <3>3
    <2>2. {wire'[j][2] : j \in {j \in 1..Len(wire') : wire'[j][1] = r}} =
              {wire[j][2] : j \in {j \in 1..Len(wire) : wire[j][1] = r}}
                 \cup (IF c = r THEN {o} ELSE {})
        <3>1. CASE o = "Exit"
            BY <1>2, <3>1, ThreadAssumption DEF WriteOut
        <3>2. CASE o # "Exit"
            <4> DEFINE x == <<c, o>>
            <4>1. x[1] = c /\ x[2] = o /\ wire' = Append(wire, x)
                BY <1>2, <3>2 DEF WriteOut
            <4> HIDE DEF x
            <4>2. /\ \A j \in 1..Len(wire) : j \in 1..Len(wire') /\ wire'[j] = wire[j]
                  /\ wire'[Len(wire) + 1] = x /\ Len(wire) + 1 \in 1..Len(wire')
                  /\ \A j \in 1..Len(wire') : j \in 1..Len(wire) \/ j = Len(wire) + 1
                BY <1>0, <4>1
            <4> QED BY <4>1, <4>2
        <3> QED BY <3>1, <3>2
    <2>3. {thr'[u].out : u \in {u \in Threads : Holding(u, r)'}} = {thr[u].out : u \in {u \in Threads : Holding(u, r)}}
        BY <1>0 DEF Holding
    <2> QED BY <2>1, <2>2, <2>3 DEF Carried
<1> QED BY <1>3

-----------------------------------------------------------------------------
(* What a step can do to the answer of one request: leave it where or as it   *)
(* is, an unclaimed call still having a reference by which it will be         *)
(* answered; give it its first; or take it away for good.                     *)
Undisturbed(r) ==
    /\ Carried(r)' = Carried(r) /\ cdone'[r] = cdone[r] /\ (r \in lost' <=> r \in lost)
    /\ \/ /\ frame'[r] = frame[r]
          /\ frame[r] \in AsyncFrames /\ ~cdone[r] /\ crefs[r] # {} => crefs'[r] # {}
       \/ frame[r] = Unread /\ frame'[r] \in AsyncFrames /\ crefs'[r] # {}

GetsAnswer(r) ==
    /\ Unclaimed(r) /\ ~Unclaimed(r)' /\ (r \in lost' <=> r \in lost)
    /\ \E t \in Threads : /\ Holding(t, r)' /\ Carried(r)' = {thr'[t].out}
                          /\ thr'[t].at = "send" \/ frame'[r] \notin AsyncFrames

LosesAnswer(r) ==
    /\ frame[r] = Unread \/ Carried(r) # {}
    /\ r \in lost' /\ Carried(r)' = {} /\ ~Unclaimed(r)' /\ Contract!MayLose(frame'[r])

Settled == \A r \in Requests : Undisturbed(r) \/ GetsAnswer(r) \/ LosesAnswer(r)

LEMMA SameSettles ==
    ASSUME \A r \in Requests : Carried(r)' = Carried(r), UNCHANGED <<frame, cdone, lost>>,
           \A r \in Requests : ~cdone[r] /\ crefs[r] # {} => crefs'[r] # {}
    PROVE  Settled
BY DEF Settled, Undisturbed

(* A thread answers a call it has claimed. *)
LEMMA TakeSettles ==
    ASSUME KnownInv, NEW t \in Threads, NEW p, thr' = [thr EXCEPT ![t] = p],
           UNCHANGED <<frame, pending, wire, lost>>, thr[t].at \notin {"reply", "send"},
           NEW r \in Requests, p.at = "send", p.call = r,
           frame[r] \in AsyncFrames, ~cdone[r], cdone' = [cdone EXCEPT ![r] = TRUE],
           \A q \in Requests : q # r => crefs'[q] = crefs[q]
    PROVE  Settled
<1>1. NoCarrier(r)
    BY ClearFlag DEF KnownInv
<1>2. ~Unclaimed(r)'
    BY SetFlag DEF KnownInv
<1>3. /\ Holding(t, r)' /\ Carried(r)' = {thr'[t].out}
      /\ \A q \in Requests \ {r} : Carried(q)' = Carried(q)
    BY <1>1, TakeCarries DEF KnownInv
<1>4. GetsAnswer(r)
    <2>1. thr'[t].at = "send"
        BY DEF KnownInv, TypeInv, TypeOK
    <2> QED BY <1>2, <1>3, <2>1 DEF GetsAnswer, Unclaimed
<1>5. \A q \in Requests \ {r} : cdone'[q] = cdone[q]
    BY DEF KnownInv, TypeInv, TypeOK
<1>6. \A q \in Requests \ {r} : Undisturbed(q)
    BY <1>3, <1>5 DEF Undisturbed
<1> QED BY <1>4, <1>6 DEF Settled

LEMMA DropContextSettles ==
    ASSUME KnownInv, NEW t \in Threads, NEW r \in Requests, NEW ref, NEW after,
           thr[t].at \notin {"reply", "send"}, DropContext(t, r, ref, after),
           after \in Continuations \cup {"idle"}, UNCHANGED wire
    PROVE  Settled
<1>0. /\ UNCHANGED <<frame, pending, wire, lost>>
      /\ \A q \in Requests : crefs'[q] = IF q = r THEN crefs[r] \ {ref} ELSE crefs[q]
    BY DEF DropContext, KnownInv, TypeInv, TypeOK
<1>1. ASSUME NEW p, thr' = [thr EXCEPT ![t] = p], p.at \notin {"reply", "send"}, UNCHANGED cdone,
             crefs[r] # {ref} \/ cdone[r]
      PROVE  Settled
    <2>1. \A q \in Requests : Carried(q)' = Carried(q)
        BY <1>0, <1>1, MoveCarries DEF KnownInv
    <2>2. \A q \in Requests : ~cdone[q] /\ crefs[q] # {} => crefs'[q] # {}
        BY <1>0, <1>1
    <2> QED BY <1>0, <1>1, <2>1, <2>2, SameSettles
<1>2. CASE crefs[r] # {ref} /\ thr' = [thr EXCEPT ![t] = Jump(t, after)] /\ UNCHANGED cdone
    <2>1. Jump(t, after).at \notin {"reply", "send"}
        BY DEF Jump, Resting, Continuations
    <2> QED BY <1>1, <1>2, <2>1
<1>3. CASE crefs[r] = {ref} /\ cdone[r] /\ Enter(t, "complete", r, NoOutcome, Nowhere) /\ UNCHANGED cdone
    <2> DEFINE e == [at |-> "complete", call |-> r, out |-> NoOutcome, then |-> Nowhere]
    <2>1. thr' = [thr EXCEPT ![t] = e] /\ e.at = "complete"
        BY <1>3 DEF Enter
    <2> HIDE DEF e
    <2> QED BY <1>1, <1>3, <2>1
<1>4. CASE /\ crefs[r] = {ref} /\ ~cdone[r] /\ cdone' = [cdone EXCEPT ![r] = TRUE]
           /\ Enter(t, "send", r, "Abandoned", "complete")
    <2> DEFINE e == [at |-> "send", call |-> r, out |-> "Abandoned", then |-> "complete"]
    <2>1. thr' = [thr EXCEPT ![t] = e] /\ e.at = "send" /\ e.call = r
        BY <1>4 DEF Enter
    <2> HIDE DEF e
    <2>2. frame[r] \in AsyncFrames
        BY <1>4 DEF KnownInv, OnceInv
    <2> QED BY <1>0, <1>4, <2>1, <2>2, TakeSettles
<1> QED BY <1>2, <1>3, <1>4 DEF DropContext

(* A thread goes on, with no answer before or after. *)
LEMMA MoveSettles ==
    ASSUME KnownInv, NEW t \in Threads, NEW p, thr' = [thr EXCEPT ![t] = p],
           UNCHANGED <<frame, cdone, crefs, pending, wire, lost>>,
           thr[t].at \notin {"reply", "send"}, p.at \notin {"reply", "send"}
    PROVE  Settled
BY MoveCarries, SameSettles DEF KnownInv

LEMMA JumpAt ==
    ASSUME NEW t, NEW place \in Continuations \cup {"idle", "notify"}
    PROVE  Jump(t, place).at \notin {"reply", "send"}
BY DEF Jump, Resting, Continuations

(* A thread enters library code that is not yet the enqueue. *)
LEMMA EnterSettles ==
    ASSUME KnownInv, NEW t \in Threads, NEW place, place \notin {"reply", "send"}, NEW r, NEW o, NEW next,
           Enter(t, place, r, o, next), UNCHANGED <<frame, cdone, crefs, pending, wire, lost>>,
           thr[t].at \notin {"reply", "send"}
    PROVE  Settled
<1> DEFINE p == [at |-> place, call |-> r, out |-> o, then |-> next]
<1>1. thr' = [thr EXCEPT ![t] = p] /\ p.at = place
    BY DEF Enter
<1> HIDE DEF p
<1> QED BY <1>1, MoveSettles

LEMMA DropResolverSettles ==
    ASSUME KnownInv, NEW t \in Threads, NEW r \in Requests, NEW after \in Continuations,
           thr[t].at \notin {"reply", "send"}, DropResolver(t, r, after), UNCHANGED wire
    PROVE  Settled
<1>0. UNCHANGED <<frame, cdone, crefs, pending, wire, lost>>
    BY DEF DropResolver
<1>1. CASE thr' = [thr EXCEPT ![t] = Jump(t, after)]
    BY <1>0, <1>1, JumpAt, MoveSettles
<1>2. CASE Enter(t, "release", r, NoOutcome, Nowhere)
    BY <1>0, <1>2, EnterSettles
<1>3. CASE Enter(t, "claim", r, "Abandoned", "release")
    BY <1>0, <1>3, EnterSettles
<1> QED BY <1>1, <1>2, <1>3 DEF DropResolver

LEMMA UserSettles ==
    ASSUME KnownInv, NEW t \in Threads, NEW r \in Requests, NEW o,
           Fire(t, r, o) \/ Respond(t, r, o) \/ (t \in Workers /\ (CopyHandle(t, r) \/ Drop(t, r))),
           UNCHANGED <<wire, responder>>
    PROVE  Settled
<1>1. CASE Fire(t, r, o)
    <2>1. PICK place \in {"encode", "claim"} : Enter(t, place, r, o, "user")
        BY <1>1 DEF Fire
    <2> QED BY <1>1, <2>1, EnterSettles DEF Fire
<1>2. CASE Respond(t, r, o)
    <2> DEFINE p == [at |-> "send", call |-> r, out |-> o, then |-> "user"]
    <2>1. thr' = [thr EXCEPT ![t] = p] /\ p.at = "send" /\ p.call = r
        BY <1>2 DEF Respond, Enter
    <2> HIDE DEF p
    <2>2. /\ frame[r] \in AsyncFrames /\ ~cdone[r] /\ cdone' = [cdone EXCEPT ![r] = TRUE]
          /\ UNCHANGED <<frame, crefs, pending, lost>> /\ thr[t].at = "user"
        BY <1>2 DEF Respond, IsRaw
    <2> QED BY <2>1, <2>2, TakeSettles
<1>3. CASE CopyHandle(t, r)
    <2>1. UNCHANGED <<frame, cdone, thr, pending, lost>>
        BY <1>3 DEF CopyHandle
    <2>2. \A q \in Requests : crefs[q] \subseteq crefs'[q]
        BY <1>3 DEF CopyHandle, KnownInv, TypeInv, TypeOK
    <2>3. \A q \in Requests : Carried(q)' = Carried(q)
        BY <2>1 DEF Carried, Holding
    <2> QED BY <2>1, <2>2, <2>3, SameSettles
<1>4. CASE Drop(t, r)
    <2>1. thr[t].at = "user" /\ "user" \in Continuations
        BY <1>4 DEF Drop, Continuations
    <2> QED BY <1>4, <2>1, DropResolverSettles, DropContextSettles DEF Drop
<1> QED BY <1>1, <1>2, <1>3, <1>4

LEMMA LibraryStepSettles ==
    ASSUME KnownInv, NEW t \in Threads, LibraryStep(t), UNCHANGED <<wire, responder>>
    PROVE  Settled
<1>0. thr[t] \in Position /\ (thr[t].at \in ForACall => thr[t].call \in Requests)
    BY DEF KnownInv, TypeInv, TypeOK, Position
<1>1. ASSUME thr[t].at \in Responding PROVE thr[t].then \in Continuations
    BY <1>0, <1>1 DEF Position
<1>2. CASE Encode(t)
    <2> DEFINE p == [thr[t] EXCEPT !.at = "claim"]
    <2>1. thr' = [thr EXCEPT ![t] = p] /\ p.at = "claim"
        BY <1>0, <1>2 DEF Encode, Position
    <2> HIDE DEF p
    <2> QED BY <1>2, <2>1, MoveSettles DEF Encode
<1>3. CASE Claim(t)
    <2>1. /\ thr[t].at = "claim" /\ thr[t].at \in Responding /\ thr[t].call \in Requests
          /\ UNCHANGED <<frame, crefs, pending, wire, lost>>
        BY <1>0, <1>3 DEF Claim, Responding, ForACall
    <2>2. frame[thr[t].call] \in AsyncFrames
        BY <2>1 DEF KnownInv, OnceInv, Claiming, ForACall
    <2>3. CASE cdone[thr[t].call]
        <3>1. thr' = [thr EXCEPT ![t] = Jump(t, thr[t].then)] /\ UNCHANGED cdone
            BY <1>3, <2>3 DEF Claim
        <3> QED BY <1>1, <2>1, <3>1, JumpAt, MoveSettles
    <2>4. CASE ~cdone[thr[t].call]
        <3> PICK r \in Requests : r = thr[t].call
            BY <2>1
        <3> DEFINE p == [thr[t] EXCEPT !.at = "send"]
        <3>1. thr' = [thr EXCEPT ![t] = p] /\ p.at = "send" /\ p.call = r
            BY <1>0, <1>3, <2>4 DEF Claim, Position
        <3> HIDE DEF p
        <3>2. cdone' = [cdone EXCEPT ![r] = TRUE]
            BY <1>3, <2>4 DEF Claim
        <3> QED BY <2>1, <2>2, <2>4, <3>1, <3>2, TakeSettles
    <2> QED BY <2>3, <2>4
<1>4. CASE Send(t)
    <2>1. thr[t].at = "send" /\ thr[t].at \in Responding /\ UNCHANGED <<frame, cdone, crefs, wire, lost>>
        BY <1>4 DEF Send, Responding
    <2>2. \A q \in Requests : Carried(q)' = Carried(q)
        BY <1>1, <1>4, <2>1, JumpAt, EnqueueCarries DEF Send, KnownInv
    <2> QED BY <2>1, <2>2, SameSettles
<1>5. CASE Release(t)
    <2>1. /\ thr[t].at = "release" /\ thr[t].call \in Requests
          /\ {"leaveContext", "user"} \subseteq Continuations
        BY <1>0, <1>5 DEF Release, ForACall, Continuations
    <2> QED BY <1>5, <2>1, DropContextSettles DEF Release
<1>6. CASE Complete(t)
    <2>1. PICK p : thr' = [thr EXCEPT ![t] = p] /\ (p = Jump(t, "notify") \/ p = Resting(t))
        BY <1>6 DEF Complete
    <2>2. p.at \notin {"reply", "send"}
        BY <2>1 DEF Jump, Resting
    <2> QED BY <1>6, <2>1, <2>2, MoveSettles DEF Complete
<1>7. CASE Notify(t)
    <2>1. /\ UNCHANGED <<frame, cdone, crefs, pending, lost>> /\ thr[t].at = "notify"
          /\ \A u \in Threads : thr'[u] = IF u = t THEN Resting(t) ELSE Wake(thr[u])
        BY <1>7 DEF Notify, NotifyUnlocked
    <2>2. ASSUME NEW u \in Threads, NEW q \in Requests
          PROVE  (Holding(u, q)' <=> Holding(u, q)) /\ (Holding(u, q) => thr'[u] = thr[u])
        <3>1. CASE u = t
            BY <2>1, <3>1 DEF Holding, Resting
        <3>2. CASE u # t
            <4>1. thr[u].at = "asleep" => thr'[u].at = "lock"
                BY <2>1, <3>2 DEF Wake, KnownInv, TypeInv, TypeOK, Position
            <4>2. thr[u].at # "asleep" => thr'[u] = thr[u]
                BY <2>1, <3>2 DEF Wake
            <4> QED BY <4>1, <4>2 DEF Holding
        <3> QED BY <3>1, <3>2
    <2>3. ASSUME NEW q \in Requests PROVE Carried(q)' = Carried(q)
        <3>1. {thr'[u].out : u \in {u \in Threads : Holding(u, q)'}} = {thr[u].out : u \in {u \in Threads : Holding(u, q)}}
            BY <2>2
        <3> QED BY <2>1, <3>1 DEF Carried
    <2> QED BY <2>1, <2>3, SameSettles
<1> QED BY <1>2, <1>3, <1>4, <1>5, <1>6, <1>7 DEF LibraryStep

(* The contract speaks of the same classes of frames. *)
LEMMA ContractFrames ==
    /\ \A f : Contract!MayLose(f) <=> f \in (SyncFrames \ BadSync) \cup (AsyncFrames \ BadAsync)
    /\ \A f : Contract!MayAnswer(f) = MayAnswer(f)
<1>1. /\ Contract!SyncFrames = SyncFrames /\ Contract!AsyncFrames = AsyncFrames
      /\ Contract!BadSync = BadSync /\ Contract!BadAsync = BadAsync
      /\ Contract!Unreadable = Unreadable /\ Contract!WrongVersion = WrongVersion
      /\ Contract!NotFound = NotFound /\ Contract!Outcomes = Outcomes
    BY DEF SyncFrames, AsyncFrames, TypedFrames, BadSync, BadAsync, Unreadable, WrongVersion, NotFound, Routed,
           Outcomes, Contract!SyncFrames, Contract!AsyncFrames, Contract!TypedFrames, Contract!BadSync,
           Contract!BadAsync, Contract!Unreadable, Contract!WrongVersion, Contract!NotFound, Contract!Routed,
           Contract!Outcomes
<1> QED BY <1>1 DEF Contract!MayLose, Contract!MayAnswer, MayAnswer

(* A frame is answered inline, lost at once, or dispatched. *)
LEMMA ReadSettles ==
    ASSUME KnownInv, NEW r \in Requests, NEW f \in Input,
           ProcessInline(r, f) \/ DispatchAsync(r, f) \/ InlineEscapes(r, f), UNCHANGED <<wire, responder>>
    PROVE  Settled
<1>0. /\ frame[r] = Unread /\ frame' = [frame EXCEPT ![r] = f] /\ thr[Main].at = "idle" /\ Main \in Threads
      /\ UNCHANGED <<cdone, pending, wire>> /\ f # Unread /\ Unclaimed(r)
    BY FrameAssumption DEF ProcessInline, DispatchAsync, InlineEscapes, Unclaimed, Threads
<1>1. \A q \in Requests : frame'[q] = IF q = r THEN f ELSE frame[q]
    BY <1>0 DEF KnownInv, TypeInv, TypeOK
<1>2. NoCarrier(r) /\ Carried(r) = {}
    BY <1>0, NoneCarried DEF KnownInv, OnceInv
<1>3. CASE ProcessInline(r, f)
    <2>1. PICK o \in MayAnswer(f) : Enter(Main, "reply", r, o, Nowhere)
        BY <1>3 DEF ProcessInline
    <2> DEFINE p == [at |-> "reply", call |-> r, out |-> o, then |-> Nowhere]
    <2>2. thr' = [thr EXCEPT ![Main] = p] /\ p.at = "reply" /\ p.call = r
        BY <2>1 DEF Enter
    <2> HIDE DEF p
    <2>3. /\ Holding(Main, r)' /\ Carried(r)' = {thr'[Main].out}
          /\ \A q \in Requests \ {r} : Carried(q)' = Carried(q)
        BY <1>0, <1>2, <2>2, TakeCarries DEF KnownInv
    <2>4. UNCHANGED <<crefs, lost>> /\ f \notin AsyncFrames
        BY <1>3 DEF ProcessInline
    <2>5. GetsAnswer(r)
        BY <1>0, <1>1, <2>3, <2>4 DEF GetsAnswer, Unclaimed
    <2>6. \A q \in Requests \ {r} : Undisturbed(q)
        BY <1>0, <1>1, <2>3, <2>4 DEF Undisturbed
    <2> QED BY <2>5, <2>6 DEF Settled
<1>4. CASE DispatchAsync(r, f)
    <2>1. PICK p : /\ thr' = [thr EXCEPT ![Main] = p] /\ p.at \in {"claim", "user"}
                   /\ \A q \in Requests : crefs'[q] = crefs[q] \/ (q = r /\ crefs'[q] # {})
        <3> DEFINE a == [at |-> "claim", call |-> r, out |-> "InvalidParams", then |-> "leaveContext"]
                   b == [at |-> "user", call |-> r, out |-> NoOutcome, then |-> Nowhere]
        <3>1. a.at = "claim" /\ b.at = "user" /\ (thr' = [thr EXCEPT ![Main] = a] \/ thr' = [thr EXCEPT ![Main] = b])
            BY <1>4 DEF DispatchAsync, Enter
        <3> HIDE DEF a, b
        <3>2. crefs' = [crefs EXCEPT ![r] = {Main}] \/ crefs' = [crefs EXCEPT ![r] = {Main, Closures}]
            BY <1>4 DEF DispatchAsync
        <3>3. \A q \in Requests : crefs'[q] = crefs[q] \/ (q = r /\ crefs'[q] # {})
            BY <3>2 DEF KnownInv, TypeInv, TypeOK
        <3> QED BY <3>1, <3>3
    <2>2. \A q \in Requests : Carried(q)' = Carried(q)
        BY <1>0, <2>1, MoveCarries DEF KnownInv
    <2>3. crefs'[r] # {} /\ UNCHANGED lost /\ f \in AsyncFrames
        BY <1>4 DEF DispatchAsync, KnownInv, TypeInv, TypeOK
    <2> QED BY <1>0, <1>1, <2>1, <2>2, <2>3 DEF Settled, Undisturbed
<1>5. CASE InlineEscapes(r, f)
    <2>1. /\ UNCHANGED <<thr, crefs>> /\ lost' = lost \cup {r} /\ f \in SyncFrames \ BadSync
          /\ f \notin AsyncFrames
        BY <1>5 DEF InlineEscapes, AsyncFrames
    <2>2. \A q \in Requests : Carried(q)' = Carried(q)
        BY <1>0, <2>1 DEF Carried, Holding
    <2>3. LosesAnswer(r)
        BY <1>0, <1>1, <1>2, <2>1, <2>2, ContractFrames DEF LosesAnswer, Unclaimed
    <2>4. \A q \in Requests \ {r} : Undisturbed(q)
        BY <1>0, <1>1, <2>1, <2>2 DEF Undisturbed
    <2> QED BY <2>3, <2>4 DEF Settled
<1> QED BY <1>3, <1>4, <1>5

(* The codec refuses a result or an error text. *)
LEMMA CodecSettles ==
    ASSUME KnownInv, NEW t \in Threads, CodecFails(t), UNCHANGED <<wire, responder>>
    PROVE  Settled
<1>0. /\ thr[t] \in Position /\ Sound(t, thr[t]) /\ UNCHANGED <<frame, cdone, crefs, pending, wire>>
      /\ \A u \in Threads : thr[u] \in Position
    BY DEF CodecFails, EncodeFails, ErrorFails, KnownInv, TypeInv, TypeOK, RefInv
<1>1. CASE EncodeFails(t)
    BY <1>0, <1>1, JumpAt, MoveSettles DEF EncodeFails, Continuations
<1>2. CASE ErrorFails(t)
    <2> PICK r \in Requests : r = thr[t].call
        BY <1>0, <1>2 DEF ErrorFails, Position, ForACall
    <2>1. /\ Holding(t, r) /\ thr[t].at \in Claiming /\ thr[t].then \in Continuations /\ thr[t].at \in WithOutcome
          /\ thr' = [thr EXCEPT ![t] = Jump(t, thr[t].then)] /\ lost' = lost \cup {r}
        BY <1>0, <1>2 DEF ErrorFails, Holding, Claiming, ForACall, Position, Responding, WithOutcome
    <2>2. Carried(r)' = {} /\ \A q \in Requests \ {r} : Carried(q)' = Carried(q)
        BY <1>0, <2>1, JumpAt, LoseCarries DEF KnownInv
    <2>3. Carried(r) # {} /\ ~NoCarrier(r)
        BY <2>1, CarriedIn DEF NoCarrier
    <2>4. ~Unclaimed(r)'
        BY <1>0, <2>3 DEF KnownInv, OnceInv, Unclaimed
    <2>5. frame[r] \in AsyncFrames \ BadAsync
        <3>1. frame[r] \in AsyncFrames
            BY <2>1 DEF KnownInv, OnceInv
        <3>2. thr[t].out \in MayAnswer(frame[r]) /\ thr[t].out # "InvalidParams"
            BY <1>0, <1>2, <2>1 DEF Sound, ErrorFails, UserTexts
        <3> QED BY <3>1, <3>2, OtherAnswers
    <2>6. LosesAnswer(r)
        BY <1>0, <2>1, <2>2, <2>3, <2>4, <2>5, ContractFrames DEF LosesAnswer
    <2>7. \A q \in Requests \ {r} : Undisturbed(q)
        BY <1>0, <2>1, <2>2 DEF Undisturbed
    <2> QED BY <2>6, <2>7 DEF Settled
<1> QED BY <1>1, <1>2 DEF CodecFails

LEMMA HandlerSettles ==
    ASSUME KnownInv, HandlerReturn \/ HandlerThrow \/ HandlerEscapes \/ LeaveResolver \/ LeaveContext,
           UNCHANGED <<wire, responder>>
    PROVE  Settled
<1>0. /\ Main \in Threads /\ thr[Main].call \in Requests /\ {"leaveResolver", "leaveContext"} \subseteq Continuations
      /\ thr[Main].at \notin {"reply", "send"}
    BY DEF HandlerReturn, HandlerThrow, HandlerEscapes, LeaveResolver, LeaveContext, Threads, Continuations,
           KnownInv, TypeInv, TypeOK, Handling, Position, ForACall
<1>1. CASE HandlerReturn \/ HandlerEscapes
    <2>1. PICK place \in {"leaveResolver", "leaveContext"} : thr' = [thr EXCEPT ![Main] = Jump(Main, place)]
        BY <1>1 DEF HandlerReturn, HandlerEscapes
    <2>2. UNCHANGED <<frame, cdone, crefs, pending, wire, lost>>
        BY <1>1 DEF HandlerReturn, HandlerEscapes
    <2> QED BY <1>0, <2>1, <2>2, JumpAt, MoveSettles
<1>2. CASE HandlerThrow
    <2> PICK r \in Requests : r = thr[Main].call
        BY <1>0
    <2>1. UNCHANGED <<frame, crefs, pending, wire, lost>>
        BY <1>2 DEF HandlerThrow
    <2>2. CASE Enter(Main, "claim", r, "InternalError", "leaveResolver") /\ UNCHANGED cdone
        BY <1>0, <2>1, <2>2, EnterSettles
    <2>3. CASE /\ IsRaw(r) /\ ~cdone[r] /\ cdone' = [cdone EXCEPT ![r] = TRUE]
               /\ Enter(Main, "send", r, "InternalError", "leaveContext")
        <3> DEFINE p == [at |-> "send", call |-> r, out |-> "InternalError", then |-> "leaveContext"]
        <3>1. thr' = [thr EXCEPT ![Main] = p] /\ p.at = "send" /\ p.call = r
            BY <2>3 DEF Enter
        <3> HIDE DEF p
        <3> QED BY <1>0, <2>1, <2>3, <3>1, TakeSettles DEF IsRaw
    <2> QED BY <1>2, <2>2, <2>3 DEF HandlerThrow
<1>3. CASE LeaveResolver \/ LeaveContext
    BY <1>0, <1>3, DropResolverSettles, DropContextSettles DEF LeaveResolver, LeaveContext
<1> QED BY <1>1, <1>2, <1>3

(* The sentinel answers no request. *)
ExitItems == \A i \in 1..Len(pending) : pending[i].out = "Exit" => pending[i].call = NoCall

(* The read loop, the drain, the shutdown and the responder. *)
LEMMA LoopSettles ==
    ASSUME KnownInv, \/ Reply \/ EndOfInput \/ SendExit \/ Join \/ Destroy \/ Unwind
                     \/ (WaitStep \/ SpuriousWake) /\ UNCHANGED <<wire, responder>>
    PROVE  Settled
<1>0. Main \in Threads /\ thr \in [Threads -> Position] /\ UNCHANGED <<frame, cdone, crefs, wire, lost>>
    BY DEF KnownInv, TypeInv, TypeOK, Threads, Reply, EndOfInput, SendExit, Join, Destroy, Unwind,
           WaitStep, WaitLock, WaitCheck, WaitBlock, SpuriousWake
<1>1. CASE Reply
    <2>1. \A r \in Requests : Carried(r)' = Carried(r)
        BY <1>0, <1>1, EnqueueCarries DEF Reply, Resting, KnownInv
    <2> QED BY <1>0, <2>1, SameSettles
<1>2. ASSUME NEW place \in Places \ {"reply", "send"}, thr' = [thr EXCEPT ![Main].at = place],
             thr[Main].at \notin {"reply", "send"}
      PROVE  /\ UNCHANGED pending => Settled
             /\ \A r \in Requests, u \in Threads : (Holding(u, r)' <=> Holding(u, r)) /\ (Holding(u, r) => thr'[u] = thr[u])
    <2> DEFINE p == [thr[Main] EXCEPT !.at = place]
    <2>1. thr' = [thr EXCEPT ![Main] = p] /\ p.at = place
        BY <1>0, <1>2 DEF Position
    <2> HIDE DEF p
    <2>2. \A u \in Threads : thr'[u] = IF u = Main THEN p ELSE thr[u]
        BY <1>0, <2>1
    <2> QED BY <1>0, <1>2, <2>1, <2>2, MoveSettles DEF Holding
<1>3. CASE SendExit
    <2> DEFINE item == [by |-> Main, call |-> NoCall, out |-> "Exit"]
    <2>1. item.call = NoCall /\ pending' = Append(pending, item)
        BY <1>3 DEF SendExit, Enqueue
    <2> HIDE DEF item
    <2>2. \A r \in Requests : Carried(r)' = Carried(r)
        BY <1>0, <1>2, <1>3, <2>1, OtherCarries DEF SendExit, Places, KnownInv
    <2> QED BY <1>0, <2>2, SameSettles
<1>4. CASE EndOfInput \/ Join \/ Destroy \/ Unwind
    BY <1>2, <1>4 DEF EndOfInput, Join, Destroy, Unwind, Places
<1>5. CASE WaitStep \/ SpuriousWake
    <2>1. PICK place \in {"check", "drained", "block", "asleep", "lock"} : thr' = [thr EXCEPT ![Main].at = place]
        BY <1>5 DEF WaitStep, WaitLock, WaitCheck, WaitBlock, SpuriousWake
    <2>2. UNCHANGED pending /\ thr[Main].at \notin {"reply", "send"} /\ place \in Places \ {"reply", "send"}
        BY <1>5 DEF WaitStep, WaitLock, WaitCheck, WaitBlock, SpuriousWake, Places
    <2> QED BY <1>2, <2>1, <2>2
<1> QED BY <1>1, <1>3, <1>4, <1>5

(* What no one answers changes nothing, and every other step settles.         *)
LEMMA NextSettles ==
    ASSUME KnownInv, ExitItems, [Next]_vars
    PROVE  Settled
<1>0. Workers \subseteq Threads
    BY DEF Threads
<1>1. ASSUME UNCHANGED vars \/ ReadThrows PROVE Settled
    <2>1. UNCHANGED <<frame, cdone, crefs, thr, pending, wire, lost>>
        BY <1>1 DEF vars, ReadThrows
    <2> QED BY <2>1 DEF Settled, Undisturbed, Carried, Holding
<1>2. ASSUME NEW t \in Threads, Push(t), UNCHANGED <<wire, responder>> PROVE Settled
    <2> DEFINE item == [by |-> t, call |-> NoCall, out |-> "Notification"]
    <2>1. item.call = NoCall /\ pending' = Append(pending, item) /\ UNCHANGED <<frame, cdone, crefs, thr, lost>>
        BY <1>2 DEF Push, Enqueue
    <2> HIDE DEF item
    <2>2. \A r \in Requests : Carried(r)' = Carried(r)
        BY <1>2, <2>1, OtherCarries DEF Holding, KnownInv
    <2> QED BY <2>1, <2>2, SameSettles
<1>3. ASSUME NEW i \in 1..Len(pending), WriteOut(i) PROVE Settled
    <2>1. \A r \in Requests : Carried(r)' = Carried(r)
        BY <1>3, WriteCarries DEF ExitItems, KnownInv
    <2> QED BY <1>3, <2>1, SameSettles DEF WriteOut
<1>4. CASE Escape
    BY <1>1, <1>4, CodecSettles, ReadSettles, HandlerSettles DEF Escape
<1> QED BY <1>0, <1>1, <1>2, <1>3, <1>4, StepCases, ReadSettles, UserSettles, LibraryStepSettles, HandlerSettles, LoopSettles

-----------------------------------------------------------------------------
(* What is true of the answer to each request.  Until it is read it has no    *)
(* answer and is not lost.  Then it is carried, lost, or still claimable      *)
(* through a reference.  A lost one stays so; what is carried its frame       *)
(* allows; and no one can reach a call that is answered for having been       *)
(* abandoned.                                                                 *)
AnswerInv ==
    \A r \in Requests :
        /\ frame[r] = Unread => ~cdone[r] /\ r \notin lost
        /\ frame[r] # Unread /\ r \notin lost =>
               Carried(r) # {} \/ (frame[r] \in AsyncFrames /\ ~cdone[r] /\ crefs[r] # {})
        /\ r \in lost => Carried(r) = {} /\ ~Unclaimed(r) /\ Contract!MayLose(frame[r])
        /\ Carried(r) \subseteq MayAnswer(frame[r])
        /\ "Abandoned" \in Carried(r) => Unreachable(r)

(* A handle to a call that no one can reach comes to no one.                  *)
LEMMA NextUnreachable ==
    ASSUME KnownInv, [Next]_vars
    PROVE  \A q \in Requests : Unreachable(q) => Unreachable(q)'
<1> SUFFICES ASSUME NEW q \in Requests, Unreachable(q) PROVE Unreachable(q)'
    OBVIOUS
<1>1. ASSUME frame'[q] = frame[q], rrefs'[q] \subseteq rrefs[q], crefs'[q] \subseteq crefs[q] PROVE Unreachable(q)'
    BY <1>1 DEF Unreachable, IsRaw
<1>2. ASSUME NEW r \in Requests, NEW f \in Input, ProcessInline(r, f) \/ DispatchAsync(r, f) \/ InlineEscapes(r, f)
      PROVE  Unreachable(q)'
    <2>1. q # r
        BY <1>2 DEF ProcessInline, DispatchAsync, InlineEscapes, Unreachable
    <2>2. frame'[q] = frame[q] /\ rrefs'[q] = rrefs[q] /\ crefs'[q] = crefs[q]
        BY <1>2, <2>1 DEF ProcessInline, DispatchAsync, InlineEscapes, KnownInv, TypeInv, TypeOK
    <2> QED BY <1>1, <2>2
<1>3. ASSUME NEW w \in Workers, NEW r \in Requests, CopyHandle(w, r) PROVE Unreachable(q)'
    <2>1. thr[Main].at = "user" /\ thr[Main].call = r /\ Main \in Threads
        BY <1>3 DEF CopyHandle, Threads
    <2>2. Main \in crefs[r] /\ (IsTyped(r) => Main \in rrefs[r])
        BY <2>1 DEF KnownInv, RefInv, Sound, InWrapper, CountInv, HandleInv, InDispatch
    <2>3. q # r
        BY <1>3, <2>2 DEF CopyHandle, Unreachable
    <2>4. frame'[q] = frame[q] /\ rrefs'[q] = rrefs[q] /\ crefs'[q] = crefs[q]
        BY <1>3, <2>3 DEF CopyHandle, KnownInv, TypeInv, TypeOK
    <2> QED BY <1>1, <2>4
<1>4. ASSUME NEW t \in Threads, NEW r \in Requests, NEW ref, NEW after,
             DropContext(t, r, ref, after) \/ DropResolver(t, r, after)
      PROVE  Unreachable(q)'
    <2>1. frame'[q] = frame[q] /\ rrefs'[q] \subseteq rrefs[q] /\ crefs'[q] \subseteq crefs[q]
        BY <1>4 DEF DropContext, DropResolver, KnownInv, TypeInv, TypeOK
    <2> QED BY <1>1, <2>1
<1>5. ASSUME UNCHANGED <<frame, rrefs, crefs>> PROVE Unreachable(q)'
    BY <1>1, <1>5
<1>6. ASSUME NEW w \in Workers, NEW r \in Requests, Drop(w, r) PROVE Unreachable(q)'
    BY <1>4, <1>6 DEF Drop, Threads
<1>7. ASSUME NEW t \in Threads, LibraryStep(t) PROVE Unreachable(q)'
    <2>1. CASE Release(t)
        <3>1. thr[t].call \in Requests
            BY <2>1 DEF Release, KnownInv, TypeInv, TypeOK, Position, ForACall
        <3> QED BY <1>4, <2>1, <3>1 DEF Release
    <2>2. CASE Encode(t) \/ Claim(t) \/ Send(t) \/ Complete(t) \/ Notify(t)
        BY <1>5, <2>2 DEF Encode, Claim, Send, Complete, Notify, NotifyUnlocked
    <2> QED BY <1>7, <2>1, <2>2 DEF LibraryStep
<1>8. ASSUME HandlerReturn \/ HandlerThrow \/ LeaveResolver \/ LeaveContext PROVE Unreachable(q)'
    <2>1. CASE HandlerReturn \/ HandlerThrow
        BY <1>5, <2>1 DEF HandlerReturn, HandlerThrow
    <2>2. CASE LeaveResolver \/ LeaveContext
        <3>1. thr[Main].call \in Requests /\ Main \in Threads
            BY <2>2 DEF LeaveResolver, LeaveContext, Threads, KnownInv, TypeInv, TypeOK, Position, ForACall
        <3> QED BY <1>4, <2>2, <3>1 DEF LeaveResolver, LeaveContext
    <2> QED BY <1>8, <2>1, <2>2
<1>9. ASSUME \/ \E t \in Threads : Push(t) \/ CodecFails(t)
             \/ \E t \in Threads, r \in Requests, o \in {"Result", "Rejected"} : Fire(t, r, o) \/ Respond(t, r, o)
             \/ HandlerEscapes \/ ReadThrows \/ WaitStep \/ SpuriousWake
             \/ Reply \/ EndOfInput \/ SendExit \/ Join \/ Destroy \/ Unwind
             \/ \E i \in 1..Len(pending) : WriteOut(i)
             \/ UNCHANGED vars
      PROVE  Unreachable(q)'
    <2>1. UNCHANGED <<frame, rrefs, crefs>>
        BY <1>9 DEF Push, CodecFails, EncodeFails, ErrorFails, Fire, Respond, HandlerEscapes, ReadThrows, WaitStep,
               WaitLock, WaitCheck, WaitBlock, SpuriousWake, Reply, EndOfInput, SendExit, Join, Destroy, Unwind,
               WriteOut, vars
    <2> QED BY <1>5, <2>1
<1>10. CASE Escape
    BY <1>2, <1>9, <1>10 DEF Escape
<1> QED BY <1>2, <1>3, <1>6, <1>7, <1>8, <1>9, <1>10, StepCases

LEMMA InitAnswer == Init => AnswerInv
<1> SUFFICES ASSUME Init, NEW r \in Requests
             PROVE  frame[r] = Unread /\ ~cdone[r] /\ r \notin lost /\ Carried(r) = {}
    BY DEF AnswerInv
<1>1. /\ pending = <<>> /\ wire = <<>> /\ lost = {}
      /\ \A t \in Threads : thr[t].at = IF t = Main THEN "idle" ELSE "user"
    BY DEF Init, SInit, Resting
<1>2. NoCarrier(r)
    BY <1>1 DEF NoCarrier, Holding
<1> QED BY <1>1, <1>2, NoneCarried DEF Init, SInit

LEMMA NextAnswer == KnownInv /\ ExitItems /\ AnswerInv /\ [Next]_vars => AnswerInv'
<1> SUFFICES ASSUME KnownInv, ExitItems, AnswerInv, [Next]_vars, NEW r \in Requests
             PROVE  /\ frame'[r] = Unread => ~cdone'[r] /\ r \notin lost'
                    /\ frame'[r] # Unread /\ r \notin lost' =>
                           Carried(r)' # {} \/ (frame'[r] \in AsyncFrames /\ ~cdone'[r] /\ crefs'[r] # {})
                    /\ r \in lost' => Carried(r)' = {} /\ ~Unclaimed(r)' /\ Contract!MayLose(frame'[r])
                    /\ Carried(r)' \subseteq MayAnswer(frame'[r])
                    /\ "Abandoned" \in Carried(r)' => Unreachable(r)'
    BY DEF AnswerInv
<1>0. /\ frame[r] = Unread => ~cdone[r] /\ r \notin lost
      /\ frame[r] # Unread /\ r \notin lost =>
             Carried(r) # {} \/ (frame[r] \in AsyncFrames /\ ~cdone[r] /\ crefs[r] # {})
      /\ r \in lost => Carried(r) = {} /\ ~Unclaimed(r) /\ Contract!MayLose(frame[r])
      /\ Carried(r) \subseteq MayAnswer(frame[r])
      /\ "Abandoned" \in Carried(r) => Unreachable(r)
      /\ Unreachable(r) => Unreachable(r)'
    BY NextUnreachable DEF AnswerInv
<1>1. CASE Undisturbed(r)
    <2>1. CASE /\ frame'[r] = frame[r]
               /\ frame[r] \in AsyncFrames /\ ~cdone[r] /\ crefs[r] # {} => crefs'[r] # {}
        BY <1>0, <1>1, <2>1 DEF Undisturbed, Unclaimed
    <2>2. CASE frame[r] = Unread /\ frame'[r] \in AsyncFrames /\ crefs'[r] # {}
        <3>1. Carried(r) = {}
            BY <2>2, NoneCarried DEF KnownInv, OnceInv, Unclaimed
        <3> QED BY <1>0, <1>1, <2>2, <3>1, FrameFacts DEF Undisturbed
    <2> QED BY <1>1, <2>1, <2>2 DEF Undisturbed
<1>2. CASE GetsAnswer(r)
    <2> PICK t \in Threads : /\ Holding(t, r)' /\ Carried(r)' = {thr'[t].out}
                             /\ thr'[t].at = "send" \/ frame'[r] \notin AsyncFrames
        BY <1>2 DEF GetsAnswer
    <2>1. RefInv'
        BY NextRef
    <2>2. Sound(t, thr[t])'
        BY <2>1 DEF RefInv
    <2>3. thr'[t].out \in MayAnswer(frame'[r])
        BY <2>2 DEF Sound, Holding, WithOutcome
    <2>4. thr'[t].out = "Abandoned" => Unreachable(r)'
        <3> SUFFICES ASSUME thr'[t].out = "Abandoned" PROVE Unreachable(r)'
            OBVIOUS
        <3>1. frame'[r] \in AsyncFrames
            BY <2>3, OtherAnswers
        <3>2. AbandoningAt(thr[t])' /\ thr'[t].call = r
            BY <3>1 DEF AbandoningAt, Responding, Holding
        <3> QED BY <2>2, <3>2 DEF Sound
    <2>5. r \notin lost' /\ frame'[r] # Unread
        BY <1>0, <1>2 DEF GetsAnswer, Unclaimed
    <2> QED BY <2>3, <2>4, <2>5
<1>3. CASE LosesAnswer(r)
    BY <1>3 DEF LosesAnswer, Unclaimed
<1> QED BY <1>1, <1>2, <1>3, NextSettles DEF Settled

-----------------------------------------------------------------------------
(* How an exception out of the read loop and the exit sentinel exclude each  *)
(* other.                                                                     *)

(* The sentinel is in the queue, or the responder has taken it. *)
ExitSent == responder = "done" \/ \E i \in 1..Len(pending) : pending[i].out = "Exit"

(* Where Main is when no exception can be on its way, and where it is once    *)
(* the sentinel is sent.                                                      *)
Draining == {"lock", "check", "block", "asleep", "drained"}
Gone     == {"returned", "destroyed"}

(* Only Main unwinds out of dispatchAsync; an exception keeps Main from the   *)
(* shutdown; the sentinel is sent only without an exception, from behind the  *)
(* drain, and nothing throws after that.                                      *)
EscapeInv ==
    /\ \A w \in Workers : thr[w].at \in Responding => thr[w].then # "leaveContext"
    /\ escaped => thr[Main].at \notin Draining \cup Gone
    /\ ExitSent => ~escaped /\ thr[Main].at \in {"join"} \cup Gone

LEMMA EscapeInvImplies == TypeInv /\ EscapeInv => EscapeNeverReturns
<1> SUFFICES ASSUME TypeInv, EscapeInv, escaped PROVE EscapeNeverReturns
    BY DEF EscapeNeverReturns
<1>1. ~ExitSent /\ thr[Main].at \notin Draining \cup Gone
    BY DEF EscapeInv
<1>2. responder \in {"running", "done"}
    BY DEF TypeInv, TypeOK
<1> QED BY <1>1, <1>2 DEF EscapeNeverReturns, ExitSent, Draining, Gone

(* An enqueue of anything but the sentinel sends none. *)
LEMMA AppendNoExit ==
    ASSUME TypeInv, NEW item, item.out # "Exit", pending' = Append(pending, item), UNCHANGED responder
    PROVE  ExitSent' => ExitSent
<1>0. pending \in Seq(Item) /\ Len(pending) \in Nat
    BY DEF TypeInv, TypeOK
<1>1. /\ \A i \in 1..Len(pending) : pending'[i] = pending[i]
      /\ pending'[Len(pending) + 1] = item
      /\ \A i \in 1..Len(pending)' : i \in 1..Len(pending) \/ i = Len(pending) + 1
    BY <1>0
<1> QED BY <1>1 DEF ExitSent

(* Where a thread runs user code or library code, or Main its loop. *)
Working == ForACall \cup {"user", "idle"}

(* A thread at work goes on working, and perhaps throws if it is Main. *)
LEMMA WorkingStep ==
    ASSUME TypeInv, EscapeInv, NEW t \in Threads, NEW p,
           thr[t].at \in Working, p.at \in Working,
           t \in Workers /\ p.at \in Responding => p.then # "leaveContext",
           thr' = [thr EXCEPT ![t] = p],
           escaped' => escaped \/ t = Main,
           ExitSent' => ExitSent
    PROVE  EscapeInv'
<1>1. \A u \in Threads : thr'[u] = IF u = t THEN p ELSE thr[u]
    BY DEF TypeInv, TypeOK
<1>2. Main \in Threads /\ Workers \subseteq Threads
    BY DEF Threads
<1>3. Working \cap (Draining \cup Gone \cup {"join"}) = {}
    BY DEF Working, Draining, Gone, ForACall
<1>4. ASSUME NEW w \in Workers, thr'[w].at \in Responding PROVE thr'[w].then # "leaveContext"
    BY <1>1, <1>2, <1>4 DEF EscapeInv
<1>5. ASSUME escaped' PROVE thr'[Main].at \notin Draining \cup Gone
    <2>1. CASE t = Main
        BY <1>1, <1>2, <1>3, <2>1
    <2>2. CASE t # Main
        BY <1>1, <1>2, <1>5, <2>2 DEF EscapeInv
    <2> QED BY <2>1, <2>2
<1>6. ASSUME ExitSent' PROVE ~escaped' /\ thr'[Main].at \in {"join"} \cup Gone
    <2>1. ~escaped /\ thr[Main].at \in {"join"} \cup Gone
        BY <1>6 DEF EscapeInv
    <2>2. t # Main
        BY <1>3, <2>1
    <2> QED BY <1>1, <1>2, <2>1, <2>2
<1> QED BY <1>4, <1>5, <1>6 DEF EscapeInv

(* Main goes on within its loop, its drain or its shutdown. *)
LEMMA MainStep ==
    ASSUME TypeInv, EscapeInv, NEW place \in Places,
           thr' = [thr EXCEPT ![Main].at = place],
           UNCHANGED <<escaped, responder, pending>>,
           escaped => place \notin Draining \cup Gone,
           ExitSent => place \in {"join"} \cup Gone
    PROVE  EscapeInv'
<1>1. /\ \A w \in Workers : thr'[w] = thr[w]
      /\ thr'[Main].at = place
    BY ThreadAssumption DEF TypeInv, TypeOK, Threads, Position
<1>2. ExitSent' <=> ExitSent
    BY DEF ExitSent
<1> QED BY <1>1, <1>2 DEF EscapeInv

(* A jump stays at work and carries no continuation. *)
LEMMA JumpWorks ==
    ASSUME NEW t, NEW place \in Continuations \cup {"idle", "notify"}
    PROVE  Jump(t, place).at \in Working \ Responding
<1>1. Jump(t, place).at \in {place, "idle", "user"}
    BY DEF Jump, Resting
<1> QED BY <1>1 DEF Working, Responding, ForACall, Continuations

(* A thread jumps to another place of work. *)
LEMMA JumpEscape ==
    ASSUME TypeInv, EscapeInv, NEW t \in Threads, NEW place \in Continuations \cup {"idle", "notify"},
           thr[t].at \in Working, thr' = [thr EXCEPT ![t] = Jump(t, place)],
           escaped' => escaped \/ t = Main, ExitSent' => ExitSent
    PROVE  EscapeInv'
<1>1. Jump(t, place).at \in Working /\ Jump(t, place).at \notin Responding
    BY JumpWorks
<1> QED BY <1>1, WorkingStep

(* A thread enters library code for a call. *)
LEMMA EnterEscape ==
    ASSUME TypeInv, EscapeInv, NEW t \in Threads, NEW place \in ForACall \cup {"user"}, NEW r, NEW o, NEW next,
           t \in Workers /\ place \in Responding => next # "leaveContext",
           thr[t].at \in Working, Enter(t, place, r, o, next),
           UNCHANGED <<escaped, responder, pending>>
    PROVE  EscapeInv'
<1> DEFINE p == [at |-> place, call |-> r, out |-> o, then |-> next]
<1>1. thr' = [thr EXCEPT ![t] = p] /\ p.then = next /\ p.at = place /\ p.at \in Working
    BY DEF Enter, Working
<1>2. ExitSent' => ExitSent
    BY DEF ExitSent
<1> HIDE DEF p
<1> QED BY <1>1, <1>2, WorkingStep

(* Dropping a reference keeps the thread at work. *)
LEMMA DropEscape ==
    ASSUME TypeInv, EscapeInv, NEW t \in Threads, NEW r \in Requests, NEW ref,
           NEW after \in Continuations \cup {"idle"},
           thr[t].at \in Working, UNCHANGED <<wire, responder>>,
           DropContext(t, r, ref, after) \/ DropResolver(t, r, after)
    PROVE  EscapeInv'
<1>1. UNCHANGED <<escaped, responder, pending>> /\ (ExitSent' => ExitSent)
    BY DEF DropContext, DropResolver, ExitSent
<1>2. \/ thr' = [thr EXCEPT ![t] = Jump(t, after)]
      \/ Enter(t, "complete", r, NoOutcome, Nowhere)
      \/ Enter(t, "send", r, "Abandoned", "complete")
      \/ Enter(t, "release", r, NoOutcome, Nowhere)
      \/ Enter(t, "claim", r, "Abandoned", "release")
    BY DEF DropContext, DropResolver
<1>3. /\ {"complete", "send", "release", "claim"} \subseteq ForACall
      /\ "complete" \notin Responding /\ "release" \notin Responding
    BY DEF ForACall, Responding
<1>4. CASE thr' = [thr EXCEPT ![t] = Jump(t, after)]
    BY <1>1, <1>4, JumpEscape
<1>5. CASE Enter(t, "complete", r, NoOutcome, Nowhere)
    BY <1>1, <1>3, <1>5, EnterEscape
<1>6. CASE Enter(t, "send", r, "Abandoned", "complete")
    BY <1>1, <1>3, <1>6, EnterEscape
<1>7. CASE Enter(t, "release", r, NoOutcome, Nowhere)
    BY <1>1, <1>3, <1>7, EnterEscape
<1>8. CASE Enter(t, "claim", r, "Abandoned", "release")
    BY <1>1, <1>3, <1>8, EnterEscape
<1> QED BY <1>2, <1>4, <1>5, <1>6, <1>7, <1>8

LEMMA LibraryStepEscape ==
    ASSUME TypeInv, EscapeInv, NEW t \in Threads, LibraryStep(t), UNCHANGED <<wire, responder>>
    PROVE  EscapeInv'
<1>0. UNCHANGED escaped /\ (UNCHANGED pending => (ExitSent' => ExitSent))
    BY DEF LibraryStep, Encode, Claim, Send, Release, DropContext, Complete, Notify, NotifyUnlocked, ExitSent
<1>1. ASSUME NEW at \in {"claim", "send"}, thr[t].at \in Responding, thr' = [thr EXCEPT ![t].at = at],
             UNCHANGED pending
      PROVE  EscapeInv'
    <2> DEFINE p == [thr[t] EXCEPT !.at = at]
    <2>1. thr' = [thr EXCEPT ![t] = p] /\ p.at = at /\ p.then = thr[t].then
        BY <1>1 DEF TypeInv, TypeOK, Position
    <2>2. t \in Workers => p.then # "leaveContext"
        BY <1>1, <2>1 DEF EscapeInv
    <2>3. p.at \in Working /\ thr[t].at \in Working
        BY <1>1, <2>1 DEF Working, Responding, ForACall
    <2> HIDE DEF p
    <2> QED BY <1>0, <1>1, <2>1, <2>2, <2>3, WorkingStep
<1>2. CASE Encode(t)
    BY <1>1, <1>2 DEF Encode, Responding
<1>3. ASSUME thr[t].at \in Responding
      PROVE  thr[t].at \in Working /\ thr[t].then \in Continuations
    BY <1>3 DEF TypeInv, TypeOK, Position, Working, Responding, ForACall
<1>4. CASE Claim(t)
    <2>1. thr[t].at \in Responding /\ UNCHANGED pending
        BY <1>4 DEF Claim, Responding
    <2>2. CASE thr' = [thr EXCEPT ![t] = Jump(t, thr[t].then)]
        BY <1>0, <1>3, <2>1, <2>2, JumpEscape
    <2>3. CASE thr' = [thr EXCEPT ![t].at = "send"]
        BY <1>1, <2>1, <2>3
    <2> QED BY <1>4, <2>2, <2>3 DEF Claim
<1>5. CASE Send(t)
    <2>1. thr[t].at \in Responding /\ thr' = [thr EXCEPT ![t] = Jump(t, thr[t].then)]
        BY <1>5 DEF Send, Responding
    <2>2. thr[t].out # "Exit"
        BY <1>5 DEF Send, TypeInv, TypeOK, Position, WithOutcome, Outcomes
    <2>3. ExitSent' => ExitSent
        BY <1>5, <2>2, AppendNoExit DEF Send, Enqueue
    <2> QED BY <1>0, <1>3, <2>1, <2>3, JumpEscape
<1>6. CASE Release(t)
    <2>1. thr[t].call \in Requests /\ thr[t].at \in Working
        BY <1>6 DEF Release, TypeInv, TypeOK, Position, ForACall, Working
    <2> QED BY <1>6, <2>1, DropEscape DEF Release, Continuations
<1>7. CASE Complete(t)
    <2>1. thr[t].at \in Working /\ UNCHANGED pending
        BY <1>7 DEF Complete, Working, ForACall
    <2>2. CASE thr' = [thr EXCEPT ![t] = Jump(t, "notify")]
        BY <1>0, <2>1, <2>2, JumpEscape
    <2>3. CASE thr' = [thr EXCEPT ![t] = Resting(t)]
        <3>1. Resting(t) = Jump(t, "idle")
            BY DEF Jump
        <3> QED BY <1>0, <2>1, <2>3, <3>1, JumpEscape
    <2> QED BY <1>7, <2>2, <2>3 DEF Complete
<1>8. CASE Notify(t)
    <2>1. /\ thr[t].at = "notify"
          /\ thr' = [u \in Threads |-> IF u = t THEN Resting(t) ELSE Wake(thr[u])]
          /\ UNCHANGED pending
        BY <1>8 DEF Notify, NotifyUnlocked
    <2>2. \A u \in Threads : \/ thr'[u] = thr[u]
                             \/ thr'[u].at \in {"idle", "user"} /\ thr[u].at = "notify"
                             \/ thr'[u].at = "lock" /\ thr[u].at = "asleep"
        BY <2>1 DEF Wake, Resting, TypeInv, TypeOK, Position
    <2>3. ASSUME NEW w \in Workers, thr'[w].at \in Responding PROVE thr'[w].then # "leaveContext"
        BY <2>2, <2>3 DEF EscapeInv, Threads, Responding
    <2>4. Main \in Threads
        BY DEF Threads
    <2>5. ASSUME escaped' PROVE thr'[Main].at \notin Draining \cup Gone
        BY <1>0, <2>2, <2>4, <2>5 DEF EscapeInv, Draining, Gone
    <2>6. ASSUME ExitSent' PROVE ~escaped' /\ thr'[Main].at \in {"join"} \cup Gone
        BY <1>0, <2>1, <2>2, <2>4, <2>6 DEF EscapeInv, Gone
    <2> QED BY <2>3, <2>5, <2>6 DEF EscapeInv
<1> QED BY <1>2, <1>4, <1>5, <1>6, <1>7, <1>8 DEF LibraryStep

(* An exception starts where Main is at work. *)
LEMMA ThrowEscape ==
    ASSUME TypeInv, EscapeInv, Escape
    PROVE  EscapeInv'
<1>0. UNCHANGED <<responder, pending>> /\ (ExitSent' => ExitSent)
    BY DEF Escape, InlineEscapes, CodecFails, EncodeFails, ErrorFails, HandlerEscapes, ReadThrows, ExitSent
<1>1. ASSUME thr[Main].at = "idle", UNCHANGED thr PROVE EscapeInv'
    BY <1>0, <1>1 DEF EscapeInv, Draining, Gone
<1>2. ASSUME NEW t \in Threads, CodecFails(t) PROVE EscapeInv'
    <2>1. thr[t].at \in Responding /\ thr[t].at \in Working /\ thr[t].then \in Continuations
        BY <1>2 DEF CodecFails, EncodeFails, ErrorFails, Responding, TypeInv, TypeOK, Position, Working, ForACall
    <2>2. PICK place \in Continuations : thr' = [thr EXCEPT ![t] = Jump(t, place)]
        BY <1>2, <2>1 DEF CodecFails, EncodeFails, ErrorFails, Continuations
    <2>3. escaped' => escaped \/ t = Main
        BY <1>2, <2>1 DEF CodecFails, EncodeFails, ErrorFails, EscapeInv, Threads
    <2> QED BY <1>0, <2>1, <2>2, <2>3, JumpEscape
<1>3. CASE HandlerEscapes
    <2>1. PICK place \in {"leaveResolver", "leaveContext"} : thr' = [thr EXCEPT ![Main] = Jump(Main, place)]
        BY <1>3 DEF HandlerEscapes
    <2>2. place \in Continuations /\ thr[Main].at \in Working /\ Main \in Threads
        BY <1>3 DEF HandlerEscapes, Continuations, Working, Threads
    <2> QED BY <1>0, <2>1, <2>2, JumpEscape
<1> QED BY <1>1, <1>2, <1>3 DEF Escape, InlineEscapes, ReadThrows

(* User code and the handler on Main. *)
LEMMA UserStepEscape ==
    ASSUME TypeInv, EscapeInv, NEW t \in Threads, NEW r \in Requests, NEW o \in Outcomes,
           Fire(t, r, o) \/ Respond(t, r, o)
              \/ (\E f \in Input : ProcessInline(r, f) \/ DispatchAsync(r, f)),
           UNCHANGED <<wire, responder>>
    PROVE  EscapeInv'
<1>0. UNCHANGED <<escaped, responder, pending>> /\ "user" \notin Responding /\ "reply" \notin Responding
    BY DEF Fire, Respond, ProcessInline, DispatchAsync, Responding
<1>1. {"encode", "claim", "send", "reply"} \subseteq ForACall
    BY DEF ForACall
<1>2. CASE Fire(t, r, o) \/ Respond(t, r, o)
    <2>1. PICK place \in {"encode", "claim", "send"} : Enter(t, place, r, o, "user") /\ thr[t].at \in Working
        BY <1>2 DEF Fire, Respond, Working
    <2> QED BY <1>0, <1>1, <2>1, EnterEscape
<1>3. ASSUME NEW f \in Input, ProcessInline(r, f) \/ DispatchAsync(r, f)
      PROVE  EscapeInv'
    <2>1. Main \in Threads /\ Main \notin Workers /\ thr[Main].at \in Working
        BY <1>3, ThreadAssumption DEF ProcessInline, DispatchAsync, Working, Threads
    <2>2. \/ \E a \in MayAnswer(f) : Enter(Main, "reply", r, a, Nowhere)
          \/ Enter(Main, "claim", r, "InvalidParams", "leaveContext")
          \/ Enter(Main, "user", r, NoOutcome, Nowhere)
        BY <1>3 DEF ProcessInline, DispatchAsync
    <2> QED BY <1>0, <1>1, <2>1, <2>2, EnterEscape
<1> QED BY <1>2, <1>3

LEMMA HandlerEscape ==
    ASSUME TypeInv, EscapeInv, HandlerReturn \/ HandlerThrow \/ LeaveResolver \/ LeaveContext,
           UNCHANGED <<wire, responder>>
    PROVE  EscapeInv'
<1>0. /\ Main \in Threads /\ Main \notin Workers /\ thr[Main].at \in Working /\ thr[Main].call \in Requests
      /\ {"leaveResolver", "leaveContext"} \subseteq Continuations /\ {"claim", "send"} \subseteq ForACall
    BY ThreadAssumption DEF HandlerReturn, HandlerThrow, LeaveResolver, LeaveContext, Threads, Working,
           Continuations, ForACall, TypeInv, TypeOK, Handling, Position
<1>1. CASE HandlerReturn
    <2>1. PICK place \in {"leaveResolver", "leaveContext"} : thr' = [thr EXCEPT ![Main] = Jump(Main, place)]
        BY <1>1 DEF HandlerReturn
    <2>2. UNCHANGED escaped /\ (ExitSent' => ExitSent)
        BY <1>1 DEF HandlerReturn, ExitSent
    <2> QED BY <1>0, <2>1, <2>2, JumpEscape
<1>2. CASE HandlerThrow
    <2>1. PICK place \in {"claim", "send"}, next \in {"leaveResolver", "leaveContext"} :
              Enter(Main, place, thr[Main].call, "InternalError", next)
        BY <1>2 DEF HandlerThrow
    <2>2. UNCHANGED <<escaped, responder, pending>>
        BY <1>2 DEF HandlerThrow
    <2> QED BY <1>0, <2>1, <2>2, EnterEscape
<1>3. CASE LeaveResolver \/ LeaveContext
    BY <1>0, <1>3, DropEscape DEF LeaveResolver, LeaveContext
<1> QED BY <1>1, <1>2, <1>3

(* The drain, the sentinel and the join. *)
LEMMA ShutdownEscape ==
    ASSUME TypeInv, EscapeInv,
           \/ EndOfInput \/ SendExit \/ Join \/ Destroy \/ Unwind
           \/ (WaitStep \/ SpuriousWake) /\ UNCHANGED <<wire, responder>>
    PROVE  EscapeInv'
<1>1. CASE SendExit
    <2>1. ~escaped'
        BY <1>1 DEF SendExit, EscapeInv, Draining
    <2>2. thr' = [thr EXCEPT ![Main].at = "join"] /\ thr \in [Threads -> Position]
        BY <1>1 DEF SendExit, TypeInv, TypeOK
    <2>3. \A w \in Workers : thr'[w] = thr[w]
        BY <2>2, ThreadAssumption DEF Threads
    <2>4. thr'[Main].at = "join"
        BY <2>2 DEF Threads, Position
    <2> QED BY <2>1, <2>3, <2>4 DEF EscapeInv, Draining, Gone
<1>2. CASE EndOfInput
    BY <1>2, MainStep DEF EndOfInput, Places, EscapeInv, Gone
<1>3. CASE Join \/ Destroy
    <2>1. /\ thr[Main].at \in {"join", "returned"} /\ ~escaped
          /\ UNCHANGED <<escaped, responder, pending>>
        BY <1>3 DEF Join, Destroy, EscapeInv, ExitSent, Gone
    <2> QED BY <1>3, <2>1, MainStep DEF Join, Destroy, Places, Gone
<1>4. CASE Unwind
    BY <1>4, MainStep DEF Unwind, Places, Draining, Gone
<1>5. CASE (WaitStep \/ SpuriousWake) /\ UNCHANGED <<wire, responder>>
    <2>1. thr[Main].at \in {"lock", "check", "block", "asleep"} /\ UNCHANGED <<escaped, responder, pending>>
        BY <1>5 DEF WaitStep, WaitLock, WaitCheck, WaitBlock, SpuriousWake
    <2>2. ~escaped /\ ~ExitSent
        BY <2>1 DEF EscapeInv, Draining, Gone
    <2>3. PICK place \in {"check", "drained", "block", "asleep", "lock"} : thr' = [thr EXCEPT ![Main].at = place]
        BY <1>5 DEF WaitStep, WaitLock, WaitCheck, WaitBlock, SpuriousWake
    <2> QED BY <2>1, <2>2, <2>3, MainStep DEF Places
<1> QED BY <1>1, <1>2, <1>3, <1>4, <1>5

(* The responder only ever takes a sentinel that was sent. *)
LEMMA WriteOutEscape ==
    ASSUME TypeInv, EscapeInv, NEW i \in 1..Len(pending), WriteOut(i)
    PROVE  EscapeInv'
<1>0. pending \in Seq(Item) /\ Len(pending) \in Nat
    BY DEF TypeInv, TypeOK
<1>1. /\ Len(pending') = Len(pending) - 1
      /\ \A j \in 1..(Len(pending) - 1) : pending'[j] = IF j < i THEN pending[j] ELSE pending[j + 1]
    BY <1>0, RemoveAtProperties DEF WriteOut
<1>2. \A j \in 1..Len(pending)' : \E k \in 1..Len(pending) : pending'[j] = pending[k]
    BY <1>0, <1>1
<1>3. responder' = "done" => responder = "done" \/ pending[i].out = "Exit"
    BY DEF WriteOut
<1>4. ExitSent' => ExitSent
    BY <1>2, <1>3 DEF ExitSent
<1> QED BY <1>4 DEF EscapeInv, WriteOut

LEMMA InitEscape == Init => EscapeInv
<1> SUFFICES ASSUME Init PROVE EscapeInv
    OBVIOUS
<1>1. pending = <<>> /\ responder = "running" /\ escaped = FALSE
    BY DEF Init, SInit
<1>2. \A w \in Workers : thr[w].at = "user"
    BY ThreadAssumption DEF Init, SInit, Resting, Threads
<1> QED BY <1>1, <1>2 DEF EscapeInv, ExitSent, Responding

LEMMA NextEscape == TypeInv /\ EscapeInv /\ [Next]_vars => EscapeInv'
<1> SUFFICES ASSUME TypeInv, EscapeInv, [Next]_vars PROVE EscapeInv'
    OBVIOUS
<1>1. CASE UNCHANGED vars \/ \E w \in Workers, r \in Requests : CopyHandle(w, r) /\ UNCHANGED <<wire, responder>>
    <2>1. UNCHANGED <<thr, escaped, responder, pending>>
        BY <1>1 DEF vars, CopyHandle
    <2> QED BY <2>1 DEF EscapeInv, ExitSent
<1>2. ASSUME NEW w \in Workers, NEW r \in Requests, Drop(w, r), UNCHANGED <<wire, responder>>
      PROVE  EscapeInv'
    <2>1. w \in Threads /\ thr[w].at \in Working /\ "user" \in Continuations
        BY <1>2 DEF Drop, Threads, Working, Continuations
    <2> QED BY <1>2, <2>1, DropEscape DEF Drop
<1>3. ASSUME NEW t \in Threads, Push(t), UNCHANGED <<wire, responder>> PROVE EscapeInv'
    <2> DEFINE item == [by |-> t, call |-> NoCall, out |-> "Notification"]
    <2>1. pending' = Append(pending, item) /\ item.out # "Exit" /\ UNCHANGED <<thr, escaped>>
        BY <1>3 DEF Push, Enqueue
    <2> HIDE DEF item
    <2>2. ExitSent' => ExitSent
        BY <1>3, <2>1, AppendNoExit
    <2> QED BY <2>1, <2>2 DEF EscapeInv
<1>4. CASE Reply
    <2> DEFINE item == [by |-> Main, call |-> thr[Main].call, out |-> thr[Main].out]
    <2>1. /\ pending' = Append(pending, item) /\ item.out = thr[Main].out
          /\ thr[Main].at = "reply" /\ thr' = [thr EXCEPT ![Main] = Resting(Main)]
          /\ Resting(Main) = Jump(Main, "idle") /\ Main \in Threads
          /\ UNCHANGED <<escaped, responder>>
        BY <1>4 DEF Reply, Enqueue, Jump, Threads
    <2>2. item.out # "Exit" /\ thr[Main].at \in Working
        BY <2>1 DEF TypeInv, TypeOK, Position, WithOutcome, Outcomes, Working, ForACall
    <2> HIDE DEF item
    <2>3. ExitSent' => ExitSent
        BY <2>1, <2>2, AppendNoExit
    <2> QED BY <2>1, <2>2, <2>3, JumpEscape
<1>5. {"Result", "Rejected"} \subseteq Outcomes /\ Main \in Threads
    BY DEF Outcomes, Threads
<1> QED BY <1>1, <1>2, <1>3, <1>4, <1>5, StepCases, UserStepEscape, LibraryStepEscape, HandlerEscape,
           ShutdownEscape, ThrowEscape, WriteOutEscape

(* Once an exception has left the read loop, run() does not return and the    *)
(* responder is not stopped, however many workers still answer: no sentinel   *)
(* is in the queue then, and none comes.                                      *)
THEOREM EscapeStays == Spec => []EscapeNeverReturns
<1>1. Init => TypeInv /\ EscapeInv
    BY InitTyped, InitEscape
<1>2. TypeInv /\ EscapeInv /\ [Next]_vars => (TypeInv /\ EscapeInv)'
    BY NextTyped, NextEscape
<1> QED BY <1>1, <1>2, EscapeInvImplies, PTL DEF Spec

-----------------------------------------------------------------------------
(* The end of run().                                                          *)
Ended == {"drained", "join"} \cup Gone

(* What waitForInflight waited for stays so, and what ~jthread waited for.    *)
Quiesced == thr[Main].at \in Ended /\ ~escaped => inflight = 0

DrainInv == Quiesced /\ (thr[Main].at \in Gone => responder = "done")

(* Nothing that answers a request comes behind the sentinel, which is Main's: *)
(* the responder, taking it, leaves no answer of Main's.                      *)
SentinelInv ==
    /\ ExitItems
    /\ \A i \in 1..Len(pending) : pending[i].out = "Exit" => pending[i].by = Main
    /\ \A i, j \in 1..Len(pending) : i < j /\ pending[i].out = "Exit" => pending[j].call = NoCall
    /\ responder = "done" => \A i \in 1..Len(pending) : pending[i].by = Main => pending[i].call = NoCall

(* A worker answers only calls that were dispatched to a handler.             *)
Deferrable(r) == frame[r] \in AsyncFrames \ BadAsync

WorkerInv ==
    /\ \A w \in Workers : thr[w].at \in Responding => Deferrable(thr[w].call)
    /\ \A i \in 1..Len(pending) :
           pending[i].by \in Workers /\ pending[i].call # NoCall => Deferrable(pending[i].call)

ShutdownStep == \/ EndOfInput \/ SendExit \/ Join \/ Destroy \/ Unwind
                \/ (WaitStep \/ SpuriousWake) /\ UNCHANGED <<wire, responder>>

(* In the server Main stands still, works on, is woken, or waits.             *)
LEMMA ServerMoves ==
    ASSUME TypeInv, ServerStep
    PROVE  \/ thr'[Main] = thr[Main]
           \/ thr[Main].at \in Working \cup {"asleep"} /\ thr'[Main].at \in Working \cup {"lock"}
           \/ WaitStep \/ SpuriousWake
<1> DEFINE Moves == \/ thr'[Main] = thr[Main]
                    \/ thr[Main].at \in Working \cup {"asleep"} /\ thr'[Main].at \in Working \cup {"lock"}
<1>0. /\ Main \in Threads /\ Main \notin Workers /\ Workers \subseteq Threads
      /\ \A t \in Threads : thr[t].at \in Responding => thr[t].then \in Continuations
      /\ {"user", "leaveContext", "leaveResolver", "release", "complete"} \subseteq Continuations
    BY ThreadAssumption DEF Threads, TypeInv, TypeOK, Position, Continuations
<1>1. ASSUME NEW t \in Threads, NEW p, thr' = [thr EXCEPT ![t] = p], thr[t].at \in Working, p.at \in Working
      PROVE  Moves
    <2>1. thr'[Main] = IF t = Main THEN p ELSE thr[Main]
        BY <1>0, <1>1 DEF TypeInv, TypeOK
    <2> QED BY <1>1, <2>1
<1>2. ASSUME NEW t \in Threads, NEW place \in Continuations \cup {"idle", "notify"}, thr[t].at \in Working,
             thr' = [thr EXCEPT ![t] = Jump(t, place)]
      PROVE  Moves
    BY <1>1, <1>2, JumpWorks
<1>3. ASSUME NEW t \in Threads, NEW place \in ForACall \cup {"user"}, NEW r, NEW o, NEW next,
             Enter(t, place, r, o, next), thr[t].at \in Working
      PROVE  Moves
    <2> DEFINE p == [at |-> place, call |-> r, out |-> o, then |-> next]
    <2>1. thr' = [thr EXCEPT ![t] = p] /\ p.at \in Working
        BY <1>3 DEF Enter, Working
    <2> HIDE DEF p
    <2> QED BY <1>1, <1>3, <2>1
<1>4. {"reply", "encode", "claim", "send", "release", "complete"} \subseteq ForACall
    BY DEF ForACall
<1>5. ASSUME NEW t \in Threads, NEW r \in Requests, NEW ref, NEW after \in Continuations \cup {"idle"},
             DropContext(t, r, ref, after) \/ DropResolver(t, r, after), thr[t].at \in Working
      PROVE  Moves
    BY <1>2, <1>3, <1>4, <1>5 DEF DropContext, DropResolver
<1>6. ASSUME UNCHANGED thr PROVE Moves
    BY <1>6
<1>7. ASSUME NEW r \in Requests, NEW f \in Input, ProcessInline(r, f) \/ DispatchAsync(r, f) PROVE Moves
    <2>1. PICK place \in {"reply", "claim", "user"} : \E o, next : Enter(Main, place, r, o, next)
        BY <1>7 DEF ProcessInline, DispatchAsync
    <2> QED BY <1>0, <1>3, <1>4, <1>7, <2>1 DEF ProcessInline, DispatchAsync, Working
<1>8. ASSUME NEW w \in Workers, NEW r \in Requests, CopyHandle(w, r) \/ Drop(w, r) PROVE Moves
    <2>1. CASE CopyHandle(w, r)
        BY <1>6, <2>1 DEF CopyHandle
    <2>2. CASE Drop(w, r)
        BY <1>0, <1>5, <2>2 DEF Drop, Working
    <2> QED BY <1>8, <2>1, <2>2
<1>9. ASSUME NEW t \in Threads, NEW r \in Requests, NEW o, Fire(t, r, o) \/ Respond(t, r, o) PROVE Moves
    <2>1. PICK place \in {"encode", "claim", "send"} : Enter(t, place, r, o, "user") /\ thr[t].at \in Working
        BY <1>9 DEF Fire, Respond, Working
    <2> QED BY <1>3, <1>4, <2>1
<1>10. ASSUME NEW t \in Threads, LibraryStep(t) \/ CodecFails(t) PROVE Moves
    <2>1. thr[t].at \in Working
        BY <1>10 DEF LibraryStep, Encode, Claim, Send, Release, Complete, Notify, NotifyUnlocked, CodecFails,
               EncodeFails, ErrorFails, Working, ForACall
    <2>2. ASSUME NEW place \in {"claim", "send"}, thr' = [thr EXCEPT ![t].at = place] PROVE Moves
        <3> DEFINE p == [thr[t] EXCEPT !.at = place]
        <3>1. thr' = [thr EXCEPT ![t] = p] /\ p.at = place
            BY <2>2 DEF TypeInv, TypeOK, Position
        <3>2. p.at \in Working
            BY <3>1 DEF Working, ForACall
        <3> HIDE DEF p
        <3> QED BY <1>1, <2>1, <3>1, <3>2
    <2>3. CASE Encode(t)
        BY <2>2, <2>3 DEF Encode
    <2>4. CASE Claim(t)
        BY <1>0, <1>2, <2>1, <2>2, <2>4 DEF Claim, Responding
    <2>5. CASE Send(t) \/ ErrorFails(t)
        BY <1>0, <1>2, <2>1, <2>5 DEF Send, ErrorFails, Responding
    <2>6. CASE EncodeFails(t)
        BY <1>0, <1>2, <2>1, <2>6 DEF EncodeFails
    <2>7. CASE Release(t)
        <3>1. thr[t].call \in Requests
            BY <2>7 DEF Release, TypeInv, TypeOK, Position, ForACall
        <3> QED BY <1>0, <1>5, <2>1, <2>7, <3>1 DEF Release
    <2>8. CASE Complete(t)
        <3>1. Resting(t) = Jump(t, "idle")
            BY DEF Jump
        <3>2. \/ thr' = [thr EXCEPT ![t] = Jump(t, "notify")]
              \/ thr' = [thr EXCEPT ![t] = Jump(t, "idle")]
            BY <2>8, <3>1 DEF Complete
        <3> QED BY <1>2, <2>1, <3>2
    <2>9. CASE Notify(t)
        <3>1. thr'[Main] = IF Main = t THEN Resting(t) ELSE Wake(thr[Main])
            BY <1>0, <2>9 DEF Notify, NotifyUnlocked
        <3>2. Resting(t).at \in Working
            BY DEF Resting, Working
        <3>3. thr[Main].at = "asleep" => Wake(thr[Main]).at = "lock"
            BY <1>0 DEF Wake, TypeInv, TypeOK, Position
        <3>4. thr[Main].at # "asleep" => Wake(thr[Main]) = thr[Main]
            BY DEF Wake
        <3> QED BY <2>1, <3>1, <3>2, <3>3, <3>4
    <2> QED BY <1>10, <2>3, <2>4, <2>5, <2>6, <2>7, <2>8, <2>9 DEF LibraryStep, CodecFails
<1>11. ASSUME HandlerReturn \/ HandlerThrow \/ HandlerEscapes \/ LeaveResolver \/ LeaveContext PROVE Moves
    <2>1. thr[Main].at \in Working /\ thr[Main].call \in Requests
        BY <1>0, <1>11 DEF HandlerReturn, HandlerThrow, HandlerEscapes, LeaveResolver, LeaveContext, Working,
               ForACall, TypeInv, TypeOK, Handling, Position
    <2>2. CASE HandlerReturn \/ HandlerEscapes
        <3>1. PICK place \in {"leaveResolver", "leaveContext"} : thr' = [thr EXCEPT ![Main] = Jump(Main, place)]
            BY <2>2 DEF HandlerReturn, HandlerEscapes
        <3> QED BY <1>0, <1>2, <2>1, <3>1
    <2>3. CASE HandlerThrow
        BY <1>0, <1>3, <1>4, <2>1, <2>3 DEF HandlerThrow
    <2>4. CASE LeaveResolver \/ LeaveContext
        BY <1>0, <1>5, <2>1, <2>4 DEF LeaveResolver, LeaveContext
    <2> QED BY <1>11, <2>2, <2>3, <2>4
<1>12. ASSUME \/ \E t \in Threads : Push(t)
              \/ \E r \in Requests, f \in Input : InlineEscapes(r, f)
       PROVE  Moves
    <2>1. UNCHANGED thr
        BY <1>12 DEF Push, InlineEscapes
    <2> QED BY <1>6, <2>1
<1> HIDE DEF Moves
<1>13. Moves \/ WaitStep \/ SpuriousWake
    BY <1>7, <1>8, <1>9, <1>10, <1>11, <1>12 DEF ServerStep, SNext
<1> QED BY <1>13 DEF Moves

(* Or it goes on with the shutdown.                                           *)
LEMMA MainMoves ==
    ASSUME TypeInv, [Next]_vars
    PROVE  \/ thr'[Main] = thr[Main]
           \/ thr[Main].at \in Working \cup {"asleep"} /\ thr'[Main].at \in Working \cup {"lock"}
           \/ ShutdownStep
<1>1. CASE ServerStep
    BY <1>1, ServerMoves DEF ShutdownStep, ServerStep
<1>2. CASE Reply
    <2>1. thr'[Main] = Resting(Main) /\ Resting(Main).at \in Working /\ thr[Main].at \in Working
        BY <1>2 DEF Reply, Resting, Working, ForACall, TypeInv, TypeOK, Threads
    <2> QED BY <2>1
<1>3. CASE ReadThrows \/ ResponderStep \/ UNCHANGED vars
    BY <1>3 DEF ReadThrows, ResponderStep, WriteOut, vars
<1> QED BY <1>1, <1>2, <1>3 DEF Next, Terminated, Hung, ShutdownStep

(* Once the counter is down to zero, no thread but Main in its read loop      *)
(* holds an answer: it would have a reference that keeps its call open.       *)
LEMMA DrainedIsQuiet ==
    ASSUME KnownInv, inflight = 0
    PROVE  /\ \A r \in Requests : crefs[r] = {}
           /\ \A t \in Threads : thr[t].at # "complete"
           /\ thr[Main].at \notin {"reply", "send"} => \A t \in Threads, r \in Requests : ~Holding(t, r)
<1>1. OpenSet = {}
    BY FS_EmptySet DEF KnownInv, CountInv
<1>2. \A r \in Requests : ~Open(r)
    BY <1>1 DEF OpenSet
<1>3. \A r \in Requests : crefs[r] = {}
    BY <1>2 DEF Open
<1>4. \A t \in Threads : thr[t].at # "complete"
    <2> SUFFICES ASSUME NEW t \in Threads, thr[t].at = "complete" PROVE FALSE
        OBVIOUS
    <2>1. thr[t].call \in Requests /\ Closing(t, thr[t].call)
        BY DEF KnownInv, TypeInv, TypeOK, Position, ForACall, Closing
    <2> QED BY <1>2, <2>1 DEF Open
<1>5. ASSUME thr[Main].at \notin {"reply", "send"}, NEW t \in Threads, NEW r \in Requests, Holding(t, r) PROVE FALSE
    <2>1. t \in Workers
        BY <1>5 DEF Holding, Threads
    <2>2. /\ thr[t].at = "send" /\ thr[t].then \in {"user", "release", "complete"} /\ thr[t].call = r
          /\ thr[t].at \in Responding /\ Sound(t, thr[t])
        BY <1>5, <2>1 DEF Holding, KnownInv, RefInv, Sound, WorkerAt, Responding
    <2>3. CASE thr[t].then = "user"
        <3>1. rrefs[r] # {} \/ crefs[r] # {}
            BY <2>1, <2>2, <2>3 DEF Sound
        <3> QED BY <1>3, <3>1 DEF KnownInv, RefInv
    <2>4. CASE thr[t].then = "release"
        BY <1>3, <2>2, <2>4 DEF Sound, ReleasingAt
    <2>5. CASE thr[t].then = "complete"
        BY <1>2, <2>2, <2>5 DEF Open, Closing
    <2> QED BY <2>2, <2>3, <2>4, <2>5
<1> QED BY <1>3, <1>4, <1>5

(* Behind the loop, then, none does.                                          *)
LEMMA EndedIsQuiet ==
    ASSUME KnownInv, inflight = 0, thr[Main].at \in Ended
    PROVE  /\ \A r \in Requests : crefs[r] = {}
           /\ \A t \in Threads, r \in Requests : ~Holding(t, r)
BY DrainedIsQuiet DEF Ended, Gone

LEMMA NextQuiesced == KnownInv /\ Quiesced /\ [Next]_vars => Quiesced'
<1> SUFFICES ASSUME KnownInv, Quiesced, [Next]_vars, thr'[Main].at \in Ended, ~escaped'
             PROVE  inflight' = 0
    BY DEF Quiesced
<1>0. /\ escaped => escaped'
      /\ Main \in Threads /\ thr[Main] \in Position
      /\ (Working \cup {"lock"}) \cap Ended = {}
    BY StepCases DEF KnownInv, TypeInv, TypeOK, Threads, Working, Ended, Gone, ForACall,
           ProcessInline, DispatchAsync, CopyHandle, Drop, DropContext, DropResolver, Fire, Respond,
           LibraryStep, Encode, Claim, Send, Release, Complete, Notify, NotifyUnlocked, Push,
           HandlerReturn, HandlerThrow, LeaveResolver, LeaveContext, WaitStep, WaitLock, WaitCheck, WaitBlock,
           SpuriousWake, Reply, EndOfInput, SendExit, Join, Destroy, Unwind, Escape, InlineEscapes, CodecFails,
           EncodeFails, ErrorFails, HandlerEscapes, ReadThrows, WriteOut, vars
<1>1. inflight' = inflight \/ (\E t \in Threads : Complete(t)) \/ thr'[Main].at \in Working
    <2>1. ASSUME NEW r \in Requests, NEW f \in Input, DispatchAsync(r, f) PROVE thr'[Main].at \in Working
        <3>1. PICK place, o, next : place \in {"claim", "user"} /\ Enter(Main, place, r, o, next)
            BY <2>1 DEF DispatchAsync
        <3> DEFINE p == [at |-> place, call |-> r, out |-> o, then |-> next]
        <3>2. thr' = [thr EXCEPT ![Main] = p] /\ p.at \in {"claim", "user"}
            BY <3>1 DEF Enter
        <3> HIDE DEF p
        <3> QED BY <1>0, <3>2 DEF KnownInv, TypeInv, TypeOK, Working, ForACall
    <2> QED BY <2>1, StepCases DEF
           ProcessInline, CopyHandle, Drop, DropContext, DropResolver, Fire, Respond,
           LibraryStep, Encode, Claim, Send, Release, Notify, NotifyUnlocked, Push,
           HandlerReturn, HandlerThrow, LeaveResolver, LeaveContext, WaitStep, WaitLock, WaitCheck, WaitBlock,
           SpuriousWake, Reply, EndOfInput, SendExit, Join, Destroy, Unwind, Escape, InlineEscapes, CodecFails,
           EncodeFails, ErrorFails, HandlerEscapes, ReadThrows, WriteOut, vars
<1>2. inflight = 0 => inflight' = 0
    BY <1>0, <1>1, DrainedIsQuiet DEF Complete
<1>3. CASE thr'[Main] = thr[Main]
    BY <1>0, <1>1, <1>2, <1>3 DEF Quiesced
<1>4. CASE ShutdownStep
    <2>1. ASSUME NEW place, thr' = [thr EXCEPT ![Main].at = place] PROVE thr'[Main].at = place
        BY <1>0, <2>1 DEF KnownInv, TypeInv, TypeOK, Position
    <2>2. CASE SendExit \/ Destroy
        <3>1. thr[Main].at \in Ended /\ (Destroy => thr[Main].at \in Gone)
            BY <2>2 DEF SendExit, Destroy, Ended, Gone
        <3>2. SendExit => thr'[Main].at = "join"
            BY <2>1 DEF SendExit
        <3> QED BY <1>0, <1>1, <1>2, <2>2, <3>1, <3>2 DEF Quiesced
    <2>3. CASE Join
        <3>1. thr[Main].at \in Ended /\ responder = "done"
            BY <2>3 DEF Join, Ended
        <3> QED BY <1>0, <1>1, <1>2, <3>1 DEF Quiesced
    <2>4. CASE EndOfInput
        BY <1>0, <2>1, <2>4 DEF EndOfInput
    <2>5. CASE Unwind
        <3>1. thr'[Main].at = "join" /\ escaped'
            BY <1>0, <2>1, <2>5 DEF Unwind
        <3> QED BY <3>1 DEF Gone
    <2>6. CASE WaitStep \/ SpuriousWake
        <3>1. PICK place \in {"check", "block", "asleep", "lock", "drained"} :
                  /\ thr' = [thr EXCEPT ![Main].at = place] /\ (place = "drained" => inflight = 0)
            BY <2>6 DEF WaitStep, WaitLock, WaitCheck, WaitBlock, SpuriousWake
        <3>2. thr'[Main].at = place
            BY <2>1, <3>1
        <3> QED BY <1>2, <3>1, <3>2 DEF Ended, Gone
    <2> QED BY <1>4, <2>2, <2>3, <2>4, <2>5, <2>6 DEF ShutdownStep
<1> QED BY <1>0, <1>3, <1>4, MainMoves DEF KnownInv

LEMMA NextDrain == KnownInv /\ DrainInv /\ [Next]_vars => DrainInv'
<1> SUFFICES ASSUME KnownInv, DrainInv, [Next]_vars, thr'[Main].at \in Gone PROVE responder' = "done"
    BY NextQuiesced DEF DrainInv
<1>0. Main \in Threads /\ thr[Main] \in Position /\ (Working \cup {"lock"}) \cap Gone = {}
    BY DEF KnownInv, TypeInv, TypeOK, Threads, Working, Gone, ForACall
<1>1. responder = "done" => responder' = "done"
    BY DEF Next, ServerStep, Reply, EndOfInput, SendExit, Join, Destroy, ResponderStep, WriteOut, ReadThrows,
           Unwind, Terminated, Hung, vars
<1>2. CASE thr'[Main] = thr[Main]
    BY <1>1, <1>2 DEF DrainInv
<1>3. CASE ShutdownStep
    <2>1. ASSUME NEW place, thr' = [thr EXCEPT ![Main].at = place] PROVE thr'[Main].at = place
        BY <1>0, <2>1 DEF KnownInv, TypeInv, TypeOK, Position
    <2>2. CASE Join \/ Destroy
        BY <1>1, <2>2 DEF Join, Destroy, DrainInv, Gone
    <2>3. CASE EndOfInput \/ SendExit \/ Unwind \/ WaitStep \/ SpuriousWake
        <3>1. PICK place \in {"lock", "check", "block", "asleep", "drained", "join"} :
                  thr' = [thr EXCEPT ![Main].at = place]
            BY <2>3 DEF EndOfInput, SendExit, Unwind, WaitStep, WaitLock, WaitCheck, WaitBlock, SpuriousWake
        <3> QED BY <2>1, <3>1 DEF Gone
    <2> QED BY <1>3, <2>2, <2>3 DEF ShutdownStep
<1> QED BY <1>0, <1>2, <1>3, MainMoves DEF KnownInv

(* An enqueue before the sentinel, or of something that answers no request.   *)
LEMMA AppendSentinel ==
    ASSUME TypeInv, SentinelInv, NEW item, pending' = Append(pending, item), UNCHANGED responder,
           item.out = "Exit" => item.call = NoCall /\ item.by = Main,
           ExitSent => item.call = NoCall
    PROVE  SentinelInv'
<1>1. pending \in Seq(Item) /\ Len(pending) \in Nat
    BY DEF TypeInv, TypeOK
<1>2. /\ \A i \in 1..Len(pending) : pending'[i] = pending[i]
      /\ pending'[Len(pending) + 1] = item
      /\ \A i \in 1..Len(pending') : i \in 1..Len(pending) \/ i = Len(pending) + 1
    BY <1>1
<1>3. ExitItems'
    BY <1>2 DEF ExitItems, SentinelInv
<1>4. ASSUME NEW i \in 1..Len(pending'), NEW j \in 1..Len(pending'), i < j, pending'[i].out = "Exit"
      PROVE  pending'[j].call = NoCall
    <2>1. i \in 1..Len(pending)
        BY <1>1, <1>2, <1>4
    <2>2. ExitSent /\ pending[i].out = "Exit"
        BY <1>2, <1>4, <2>1 DEF ExitSent
    <2> QED BY <1>2, <1>4, <2>1, <2>2 DEF SentinelInv
<1>5. responder' = "done" => \A i \in 1..Len(pending') : pending'[i].by = Main => pending'[i].call = NoCall
    BY <1>2 DEF SentinelInv, ExitSent
<1>6. \A i \in 1..Len(pending') : pending'[i].out = "Exit" => pending'[i].by = Main
    BY <1>2 DEF SentinelInv
<1> QED BY <1>3, <1>4, <1>5, <1>6 DEF SentinelInv

LEMMA NextSentinel == KnownInv /\ EscapeInv /\ DrainInv /\ SentinelInv /\ [Next]_vars => SentinelInv'
<1> SUFFICES ASSUME KnownInv, EscapeInv, DrainInv, SentinelInv, [Next]_vars PROVE SentinelInv'
    OBVIOUS
<1>1. ASSUME UNCHANGED <<pending, responder>> PROVE SentinelInv'
    BY <1>1 DEF SentinelInv, ExitItems
<1>2. ASSUME NEW t \in Threads, NEW r \in Requests, Holding(t, r) PROVE ~ExitSent
    <2>1. ExitSent => ~escaped /\ thr[Main].at \in Ended
        BY DEF EscapeInv, Ended
    <2> QED BY <1>2, <2>1, EndedIsQuiet DEF DrainInv, Quiesced
<1>3. ASSUME NEW t \in Threads, thr[t].at \in {"reply", "send"}, Enqueue(t, thr[t].call, thr[t].out),
             UNCHANGED responder
      PROVE  SentinelInv'
    <2>1. /\ thr[t].call \in Requests /\ Holding(t, thr[t].call) /\ thr[t].out # "Exit"
        BY <1>3 DEF KnownInv, TypeInv, TypeOK, Position, ForACall, WithOutcome, Outcomes, Holding
    <2> DEFINE item == [by |-> t, call |-> thr[t].call, out |-> thr[t].out]
    <2>2. pending' = Append(pending, item) /\ item.out # "Exit"
        BY <1>3, <2>1 DEF Enqueue
    <2>3. ~ExitSent
        BY <1>2, <2>1
    <2> HIDE DEF item
    <2> QED BY <1>3, <2>2, <2>3, AppendSentinel DEF KnownInv
<1>4. ASSUME NEW t \in Threads, NEW o, Enqueue(t, NoCall, o), o = "Exit" => t = Main, UNCHANGED responder
      PROVE  SentinelInv'
    <2> DEFINE item == [by |-> t, call |-> NoCall, out |-> o]
    <2>1. pending' = Append(pending, item) /\ item.call = NoCall /\ (item.out = "Exit" => item.by = Main)
        BY <1>4 DEF Enqueue
    <2> HIDE DEF item
    <2> QED BY <1>4, <2>1, AppendSentinel DEF KnownInv
<1>5. ASSUME NEW t \in Threads, LibraryStep(t), UNCHANGED <<wire, responder>> PROVE SentinelInv'
    <2>1. CASE Send(t)
        BY <1>3, <1>5, <2>1 DEF Send
    <2>2. CASE ~Send(t)
        BY <1>1, <1>5, <2>2 DEF LibraryStep, Encode, Claim, Release, DropContext, Complete, Notify, NotifyUnlocked
    <2> QED BY <2>1, <2>2
<1>6. ASSUME NEW t \in Threads, Push(t), UNCHANGED <<wire, responder>> PROVE SentinelInv'
    BY <1>4, <1>6 DEF Push
<1>7. CASE Reply \/ SendExit
    BY <1>3, <1>4, <1>7 DEF Reply, SendExit, Threads
<1>8. ASSUME NEW i \in 1..Len(pending), WriteOut(i) PROVE SentinelInv'
    <2>0. pending \in Seq(Item) /\ Len(pending) \in Nat
        BY DEF KnownInv, TypeInv, TypeOK
    <2>1. /\ Len(pending') = Len(pending) - 1
          /\ \A j \in 1..(Len(pending) - 1) : pending'[j] = IF j < i THEN pending[j] ELSE pending[j + 1]
        BY <1>8, <2>0, RemoveAtProperties DEF WriteOut
    <2> DEFINE old(j) == IF j < i THEN j ELSE j + 1
    <2>2. \A j \in 1..Len(pending') : old(j) \in 1..Len(pending) /\ pending'[j] = pending[old(j)]
        BY <2>0, <2>1
    <2>3. \A j, k \in 1..Len(pending') : j < k => old(j) < old(k)
        BY <2>0, <2>1
    <2>4. \A j \in 1..Len(pending') : pending'[j].by = pending[i].by => i < old(j)
        BY <1>8, <2>0, <2>1, <2>2 DEF WriteOut, Dequeueable
    <2> HIDE DEF old
    <2>5. ExitItems'
        BY <2>2 DEF SentinelInv, ExitItems
    <2>6. \A j, k \in 1..Len(pending') : j < k /\ pending'[j].out = "Exit" => pending'[k].call = NoCall
        BY <2>2, <2>3 DEF SentinelInv
    <2>7. ASSUME responder' = "done", NEW j \in 1..Len(pending'), pending'[j].by = Main
          PROVE  pending'[j].call = NoCall
        <3>1. pending[i].out = "Exit" /\ pending[i].by = Main
            BY <1>8, <2>7 DEF WriteOut, SentinelInv
        <3> QED BY <2>2, <2>4, <2>7, <3>1 DEF SentinelInv
    <2>8. \A j \in 1..Len(pending') : pending'[j].out = "Exit" => pending'[j].by = Main
        BY <2>2 DEF SentinelInv
    <2> QED BY <2>5, <2>6, <2>7, <2>8 DEF SentinelInv
<1>9. ASSUME \/ \E r \in Requests, f \in Input :
                   ProcessInline(r, f) \/ DispatchAsync(r, f)
             \/ \E w \in Workers, r \in Requests : CopyHandle(w, r) \/ Drop(w, r)
             \/ \E t \in Threads, r \in Requests, o \in {"Result", "Rejected"} : Fire(t, r, o) \/ Respond(t, r, o)
             \/ HandlerReturn \/ HandlerThrow \/ LeaveResolver \/ LeaveContext
             \/ WaitStep \/ SpuriousWake,
             UNCHANGED <<wire, responder>>
      PROVE  SentinelInv'
    BY <1>1, <1>9 DEF ProcessInline, DispatchAsync, CopyHandle, Drop, DropContext, DropResolver, Fire, Respond,
           HandlerReturn, HandlerThrow, LeaveResolver, LeaveContext, WaitStep, WaitLock, WaitCheck, WaitBlock,
           SpuriousWake
<1>10. CASE Escape \/ EndOfInput \/ Join \/ Destroy \/ Unwind \/ UNCHANGED vars
    BY <1>1, <1>10 DEF Escape, InlineEscapes, CodecFails, EncodeFails, ErrorFails, HandlerEscapes, ReadThrows,
           EndOfInput, Join, Destroy, Unwind, vars
<1> QED BY <1>5, <1>6, <1>7, <1>8, <1>9, <1>10, StepCases

(* What was read is not read again.                                           *)
LEMMA FramesKept ==
    ASSUME [Next]_vars
    PROVE  FramesStay
<1>1. \A q \in Requests : \A f : frame' = [frame EXCEPT ![q] = f] /\ frame[q] = Unread => FramesStay
    BY DEF FramesStay
<1>2. UNCHANGED frame => FramesStay
    BY DEF FramesStay
<1>3. ASSUME NEW r \in Requests, NEW f \in Input, ProcessInline(r, f) \/ DispatchAsync(r, f) \/ InlineEscapes(r, f)
      PROVE  FramesStay
    BY <1>1, <1>3 DEF ProcessInline, DispatchAsync, InlineEscapes
<1>4. ASSUME \/ \E w \in Workers, r \in Requests : CopyHandle(w, r) \/ Drop(w, r)
             \/ \E t \in Threads, r \in Requests, o \in {"Result", "Rejected"} : Fire(t, r, o) \/ Respond(t, r, o)
             \/ \E t \in Threads : LibraryStep(t) \/ Push(t) \/ CodecFails(t)
             \/ HandlerReturn \/ HandlerThrow \/ HandlerEscapes \/ LeaveResolver \/ LeaveContext
             \/ WaitStep \/ SpuriousWake
             \/ Reply \/ EndOfInput \/ SendExit \/ Join \/ Destroy \/ Unwind \/ ReadThrows
             \/ \E i \in 1..Len(pending) : WriteOut(i)
             \/ UNCHANGED vars
      PROVE  UNCHANGED frame
    BY <1>4 DEF CopyHandle, Drop, DropContext, DropResolver, Fire, Respond, LibraryStep, Encode, Claim, Send,
           Release, Complete, Notify, NotifyUnlocked, Push, CodecFails, EncodeFails, ErrorFails, HandlerReturn,
           HandlerThrow, HandlerEscapes, LeaveResolver, LeaveContext, WaitStep, WaitLock, WaitCheck, WaitBlock,
           SpuriousWake, Reply, EndOfInput, SendExit, Join, Destroy, Unwind, ReadThrows, WriteOut, vars
<1> QED BY <1>2, <1>3, <1>4, StepCases DEF Escape

(* A worker that has something to answer with took it for a call it reached   *)
(* through a handle; and only a decoded or a raw call has handles.            *)
LEMMA WorkerMoves ==
    ASSUME KnownInv, WorkerInv, [Next]_vars, NEW w \in Workers, thr'[w].at \in Responding
    PROVE  Deferrable(thr[w].call)'
<1>0. /\ w \in Threads /\ Main \in Threads /\ w # Main /\ thr \in [Threads -> Position]
      /\ \A t \in Threads : thr[t].at \in Responding => thr[t].call \in Requests
      /\ FramesStay
      /\ \A r \in Requests : Deferrable(r) => Deferrable(r)'
    <2>1. FramesStay
        BY FramesKept
    <2>2. \A r \in Requests : Deferrable(r) => Deferrable(r)'
        BY <2>1, FrameFacts DEF FramesStay, Deferrable
    <2> QED BY <2>1, <2>2, ThreadAssumption DEF KnownInv, TypeInv, TypeOK, Threads, Position, Responding, ForACall
<1>1. ASSUME thr'[w] = thr[w] PROVE Deferrable(thr[w].call)'
    BY <1>0, <1>1 DEF WorkerInv, Deferrable
<1>2. ASSUME NEW t \in Threads, t # w, NEW p, thr' = [thr EXCEPT ![t] = p] PROVE thr'[w] = thr[w]
    BY <1>0, <1>2
<1>3. ASSUME NEW r \in Requests, Deferrable(r), NEW place, NEW o, NEW next, Enter(w, place, r, o, next)
      PROVE  Deferrable(thr[w].call)'
    <2> DEFINE p == [at |-> place, call |-> r, out |-> o, then |-> next]
    <2>1. thr'[w] = p /\ p.call = r
        BY <1>0, <1>3 DEF Enter
    <2> HIDE DEF p
    <2> QED BY <1>0, <1>3, <2>1 DEF Deferrable
<1>4. ASSUME NEW place \in Continuations \cup {"idle", "notify"}, thr' = [thr EXCEPT ![w] = Jump(w, place)]
      PROVE  FALSE
    BY <1>0, <1>4, JumpWorks
<1>5. ASSUME NEW r \in Requests PROVE Decoded(r) \/ IsRaw(r) => Deferrable(r)
    BY FrameFacts DEF Decoded, IsRaw, Deferrable
<1>6. ASSUME NEW r \in Requests, NEW ref, NEW after \in Continuations, Decoded(r) \/ IsRaw(r),
             DropContext(w, r, ref, after) \/ DropResolver(w, r, after)
      PROVE  Deferrable(thr[w].call)'
    <2>1. \/ thr' = [thr EXCEPT ![w] = Jump(w, after)]
          \/ \E place, o, next : Enter(w, place, r, o, next)
        BY <1>6 DEF DropContext, DropResolver
    <2> QED BY <1>3, <1>4, <1>5, <1>6, <2>1
<1>7. ASSUME NEW t \in Threads, t # w, NEW r \in Requests, NEW ref, NEW after,
             DropContext(t, r, ref, after) \/ DropResolver(t, r, after)
      PROVE  thr'[w] = thr[w]
    BY <1>2, <1>7 DEF DropContext, DropResolver, Enter
<1>8. ASSUME NEW v \in Workers, NEW r \in Requests, CopyHandle(v, r) \/ Drop(v, r)
      PROVE  Deferrable(thr[w].call)'
    <2>1. CASE CopyHandle(v, r)
        BY <1>1, <2>1 DEF CopyHandle
    <2>2. CASE Drop(v, r) /\ v # w
        <3>1. v \in Threads
            BY DEF Threads
        <3> QED BY <1>1, <1>7, <2>2, <3>1 DEF Drop
    <2>3. CASE Drop(w, r)
        <3>1. Decoded(r) \/ IsRaw(r)
            BY <2>3 DEF Drop, KnownInv, RefInv
        <3>2. "user" \in Continuations
            BY DEF Continuations
        <3> QED BY <1>6, <2>3, <3>1, <3>2 DEF Drop
    <2> QED BY <1>8, <2>1, <2>2, <2>3
<1>9. ASSUME NEW t \in Threads, NEW r \in Requests, NEW o, Fire(t, r, o) \/ Respond(t, r, o)
      PROVE  Deferrable(thr[w].call)'
    <2>1. CASE t # w
        BY <1>1, <1>2, <1>9, <2>1 DEF Fire, Respond, Enter
    <2>2. CASE t = w
        <3>1. Decoded(r) \/ IsRaw(r)
            BY <1>9 DEF Fire, Respond, KnownInv, RefInv
        <3> QED BY <1>3, <1>5, <1>9, <2>2, <3>1 DEF Fire, Respond
    <2> QED BY <2>1, <2>2
<1>10. ASSUME NEW place \in {"claim", "send"}, thr[w].at \in Responding, thr' = [thr EXCEPT ![w].at = place]
       PROVE  Deferrable(thr[w].call)'
    <2>1. thr'[w].call = thr[w].call
        BY <1>0, <1>10 DEF Position
    <2> QED BY <1>0, <1>10, <2>1 DEF WorkerInv, Deferrable
<1>11. ASSUME NEW t \in Threads, LibraryStep(t) \/ CodecFails(t) PROVE Deferrable(thr[w].call)'
    <2>1. CASE Notify(t)
        <3>1. thr'[w] = IF w = t THEN Resting(t) ELSE Wake(thr[w])
            BY <1>0, <2>1 DEF Notify, NotifyUnlocked
        <3>2. Resting(t).at \notin Responding
            BY DEF Resting, Responding
        <3>3. Wake(thr[w]).at \in Responding => Wake(thr[w]) = thr[w]
            BY <1>0 DEF Wake, Responding, Position
        <3> QED BY <1>1, <3>1, <3>2, <3>3
    <2>2. CASE t # w /\ ~Notify(t)
        BY <1>1, <1>2, <1>7, <1>11, <2>2 DEF LibraryStep, CodecFails, Encode, Claim, Send, Release, Complete,
           EncodeFails, ErrorFails, DropContext, Enter
    <2>3. CASE t = w /\ (Encode(t) \/ Claim(t) \/ Send(t) \/ CodecFails(t))
        <3>1. /\ thr[w].at \in Responding /\ thr[w].then \in Continuations /\ "user" \in Continuations
              /\ \/ \E place \in {"claim", "send"} : thr' = [thr EXCEPT ![w].at = place]
                 \/ \E place \in {thr[w].then, "user"} : thr' = [thr EXCEPT ![w] = Jump(w, place)]
            BY <1>0, <2>3 DEF Encode, Claim, Send, CodecFails, EncodeFails, ErrorFails, Responding, Position,
               Continuations
        <3> QED BY <1>4, <1>10, <3>1
    <2>4. CASE t = w /\ Release(t)
        <3>1. thr[w].at = "release" /\ thr[w] \in Position /\ Sound(w, thr[w])
            BY <1>0, <2>4 DEF Release, KnownInv, RefInv
        <3>2. thr[w].call \in Requests /\ Decoded(thr[w].call)
            BY <3>1 DEF Sound, ReleasingAt, Position, ForACall
        <3>3. "user" \in Continuations
            BY DEF Continuations
        <3> QED BY <1>0, <1>6, <2>4, <3>2, <3>3 DEF Release
    <2>5. CASE t = w /\ Complete(t)
        <3>1. Resting(w) = Jump(w, "idle")
            BY DEF Jump
        <3> QED BY <1>4, <2>5, <3>1 DEF Complete
    <2> QED BY <1>11, <2>1, <2>2, <2>3, <2>4, <2>5 DEF LibraryStep
<1>12. ASSUME \/ \E r \in Requests, f \in Input :
                   ProcessInline(r, f) \/ DispatchAsync(r, f) \/ InlineEscapes(r, f)
              \/ HandlerReturn \/ HandlerThrow \/ HandlerEscapes
              \/ WaitStep \/ SpuriousWake \/ Reply \/ EndOfInput \/ SendExit \/ Join \/ Destroy \/ Unwind
       PROVE  thr'[w] = thr[w]
    <2>1. (\E p : thr' = [thr EXCEPT ![Main] = p]) \/ UNCHANGED thr
        BY <1>12 DEF ProcessInline, DispatchAsync, InlineEscapes, HandlerReturn, HandlerThrow, HandlerEscapes,
           WaitStep, WaitLock, WaitCheck, WaitBlock, SpuriousWake, Reply, EndOfInput, SendExit, Join, Destroy,
           Unwind, Enter
    <2> QED BY <1>0, <1>2, <2>1
<1>13. ASSUME LeaveResolver \/ LeaveContext PROVE thr'[w] = thr[w]
    <2>1. thr[Main].call \in Requests
        BY <1>0, <1>13 DEF LeaveResolver, LeaveContext, Position, ForACall
    <2> QED BY <1>0, <1>7, <1>13, <2>1 DEF LeaveResolver, LeaveContext
<1>14. ASSUME \/ \E t \in Threads : Push(t)
              \/ ReadThrows \/ UNCHANGED vars \/ \E i \in 1..Len(pending) : WriteOut(i)
       PROVE  thr'[w] = thr[w]
    BY <1>14 DEF Push, ReadThrows, vars, WriteOut
<1> QED BY <1>1, <1>8, <1>9, <1>11, <1>12, <1>13, <1>14, StepCases DEF Escape

(* What it enqueues answers that call; the rest of the queue is as it was.    *)
LEMMA WorkerQueues ==
    ASSUME KnownInv, WorkerInv, [Next]_vars, NEW i \in 1..Len(pending'),
           pending'[i].by \in Workers, pending'[i].call # NoCall
    PROVE  Deferrable(pending[i].call)'
<1>0. /\ pending \in Seq(Item) /\ Len(pending) \in Nat
      /\ \A r \in Requests : Deferrable(r) => Deferrable(r)'
    <2>1. \A r \in Requests : Deferrable(r) => Deferrable(r)'
        BY FramesKept, FrameFacts DEF FramesStay, Deferrable
    <2> QED BY <2>1 DEF KnownInv, TypeInv, TypeOK
<1>1. ASSUME NEW j \in 1..Len(pending), pending'[i] = pending[j] PROVE Deferrable(pending[i].call)'
    <2>0. pending[j] \in Item
        BY <1>0
    <2>1. pending[j].call \in Requests /\ Deferrable(pending[j].call)
        BY <1>1, <2>0 DEF WorkerInv, Item
    <2> QED BY <1>0, <1>1, <2>1 DEF Deferrable
<1>2. CASE UNCHANGED pending
    BY <1>1, <1>2
<1>3. ASSUME NEW item, pending' = Append(pending, item),
             item.by \in Workers /\ item.call # NoCall => item.call \in Requests /\ Deferrable(item.call)
      PROVE  Deferrable(pending[i].call)'
    <2>1. (i \in 1..Len(pending) /\ pending'[i] = pending[i]) \/ pending'[i] = item
        BY <1>0, <1>3
    <2> QED BY <1>0, <1>1, <1>3, <2>1 DEF Deferrable
<1>4. ASSUME NEW t \in Threads, Send(t) PROVE Deferrable(pending[i].call)'
    <2> DEFINE item == [by |-> t, call |-> thr[t].call, out |-> thr[t].out]
    <2>1. /\ pending' = Append(pending, item) /\ item.by = t /\ item.call = thr[t].call
          /\ thr[t].at \in Responding
        BY <1>4 DEF Send, Enqueue, Responding
    <2>2. thr[t].call \in Requests
        BY <2>1 DEF KnownInv, TypeInv, TypeOK, Position, Responding, ForACall
    <2> HIDE DEF item
    <2>3. item.by \in Workers => Deferrable(item.call)
        BY <2>1 DEF WorkerInv
    <2> QED BY <1>3, <2>1, <2>2, <2>3
<1>5. ASSUME NEW t \in Threads, NEW c, NEW o, Enqueue(t, c, o), t = Main \/ c = NoCall
      PROVE  Deferrable(pending[i].call)'
    <2> DEFINE item == [by |-> t, call |-> c, out |-> o]
    <2>1. pending' = Append(pending, item) /\ ~(item.by \in Workers /\ item.call # NoCall)
        BY <1>5, ThreadAssumption DEF Enqueue
    <2> HIDE DEF item
    <2> QED BY <1>3, <2>1
<1>6. CASE Reply \/ SendExit \/ \E t \in Threads : Push(t)
    BY <1>5, <1>6 DEF Reply, SendExit, Push, Threads
<1>7. ASSUME NEW k \in 1..Len(pending), WriteOut(k) PROVE Deferrable(pending[i].call)'
    <2>1. /\ Len(pending') = Len(pending) - 1
          /\ \A j \in 1..(Len(pending) - 1) : pending'[j] = IF j < k THEN pending[j] ELSE pending[j + 1]
        BY <1>0, <1>7, RemoveAtProperties DEF WriteOut
    <2>2. \E j \in 1..Len(pending) : pending'[i] = pending[j]
        BY <1>0, <2>1
    <2> QED BY <1>1, <2>2
<1>8. ASSUME \/ \E r \in Requests, f \in Input : ProcessInline(r, f) \/ DispatchAsync(r, f)
             \/ \E w \in Workers, r \in Requests : CopyHandle(w, r) \/ Drop(w, r)
             \/ \E t \in Threads, r \in Requests, o \in {"Result", "Rejected"} : Fire(t, r, o) \/ Respond(t, r, o)
             \/ \E t \in Threads : LibraryStep(t) /\ ~Send(t)
             \/ HandlerReturn \/ HandlerThrow \/ LeaveResolver \/ LeaveContext
             \/ WaitStep \/ SpuriousWake \/ EndOfInput \/ Join \/ Destroy \/ Unwind
             \/ Escape \/ UNCHANGED vars
      PROVE  UNCHANGED pending
    BY <1>8 DEF ProcessInline, DispatchAsync, CopyHandle, Drop, DropContext, DropResolver, Fire, Respond,
           LibraryStep, Encode, Claim, Release, Complete, Notify, NotifyUnlocked, HandlerReturn, HandlerThrow,
           LeaveResolver, LeaveContext, WaitStep, WaitLock, WaitCheck, WaitBlock, SpuriousWake, EndOfInput, Join,
           Destroy, Unwind, Escape, InlineEscapes, CodecFails, EncodeFails, ErrorFails, HandlerEscapes, ReadThrows,
           vars
<1> QED BY <1>2, <1>4, <1>6, <1>7, <1>8, StepCases

LEMMA NextWorker == KnownInv /\ WorkerInv /\ [Next]_vars => WorkerInv'
<1>1. ASSUME KnownInv, WorkerInv, [Next]_vars PROVE WorkerInv'
    BY <1>1, WorkerMoves, WorkerQueues DEF WorkerInv
<1> QED BY <1>1

-----------------------------------------------------------------------------
(* The invariant of the whole server.                                         *)
SystemInv == KnownInv /\ EscapeInv /\ AnswerInv /\ DrainInv /\ SentinelInv /\ WorkerInv

LEMMA InitSystem == Init => SystemInv
<1> SUFFICES ASSUME Init PROVE DrainInv /\ SentinelInv /\ WorkerInv
    BY InitKnown, InitEscape, InitAnswer DEF SystemInv
<1>1. thr[Main].at = "idle" /\ pending = <<>> /\ responder = "running"
    BY DEF Init, SInit, Resting, Threads
<1>2. \A w \in Workers : thr[w].at \notin Responding
    BY DEF Init, SInit, Resting, Threads, Responding
<1>3. WorkerInv
    BY <1>1, <1>2 DEF WorkerInv
<1> QED BY <1>1, <1>3 DEF DrainInv, Quiesced, SentinelInv, ExitItems, Ended, Gone

LEMMA NextSystem == SystemInv /\ [Next]_vars => SystemInv'
BY NextKnown, NextEscape, NextAnswer, NextDrain, NextSentinel, NextWorker DEF SystemInv, SentinelInv, KnownInv

LEMMA SystemStays == Spec => []SystemInv
BY InitSystem, NextSystem, PTL DEF Spec

(* "Abandoned" is the answer only to a call that user code can neither fire   *)
(* nor respond to any more, whichever of the destructors gave it, on whatever *)
(* thread, and however late the answer is on its way.                         *)
THEOREM AbandonedIsSafe == Spec => []AbandonedMeansUnreachable
<1>1. SystemInv => AbandonedMeansUnreachable
    BY DEF SystemInv, AnswerInv, AbandonedMeansUnreachable, Unreachable
<1> QED BY <1>1, SystemStays, PTL

(* When waitForInflight lets Main go, the answer to every request that was    *)
(* read has been enqueued, or was lost to an exception, and no thread still   *)
(* has one to enqueue: so none comes behind the exit sentinel.                *)
THEOREM DrainIsComplete == Spec => []NoAnswerAfterExit
<1>1. ASSUME SystemInv, thr[Main].at \in {"drained", "join", "returned", "destroyed"}, ~escaped, NEW r \in Accepted
      PROVE  ((Carriers(r) = {}) <=> r \in lost) /\ \A t \in Threads : ~Holding(t, r)
    <2>1. r \in Requests /\ frame[r] # Unread
        BY DEF Accepted
    <2>2. thr[Main].at \in Ended
        BY <1>1 DEF Ended, Gone
    <2>3. crefs[r] = {} /\ \A t \in Threads : ~Holding(t, r)
        BY <1>1, <2>1, <2>2, EndedIsQuiet DEF SystemInv, DrainInv, Quiesced
    <2>4. Carried(r) = {} <=> r \in lost
        BY <1>1, <2>1, <2>3 DEF SystemInv, AnswerInv
    <2> QED BY <2>3, <2>4, NoneCarried
<1>2. SystemInv => NoAnswerAfterExit
    BY <1>1 DEF NoAnswerAfterExit
<1> QED BY <1>2, SystemStays, PTL

(* The first answer to a request stands: no step replaces it, joins another   *)
(* to it or drops it, but for an exception out of the codec, and after that   *)
(* the request has none for ever.                                             *)
THEOREM FirstStands == Spec => FirstAnswerStands
<1>1. ASSUME SystemInv, [Next]_vars, NEW r \in Requests
      PROVE  /\ Carried(r) # {} => IF r \in lost' THEN Carried(r)' = {} ELSE Carried(r)' = Carried(r)
             /\ r \in lost => Carried(r)' = {}
    <2>1. Undisturbed(r) \/ GetsAnswer(r) \/ LosesAnswer(r)
        BY <1>1, NextSettles DEF SystemInv, SentinelInv, Settled
    <2>2. /\ r \in lost => Carried(r) = {} /\ ~Unclaimed(r)
          /\ Unclaimed(r) => Carried(r) = {}
        BY <1>1, NoneCarried DEF SystemInv, AnswerInv, KnownInv, OnceInv
    <2> QED BY <2>1, <2>2 DEF Undisturbed, GetsAnswer, LosesAnswer
<1>2. SystemInv /\ [Next]_vars =>
          [\A r \in Requests :
              /\ Carried(r) # {} => IF r \in lost' THEN Carried(r)' = {} ELSE Carried(r)' = Carried(r)
              /\ r \in lost => Carried(r)' = {}]_vars
    BY <1>1
<1> QED BY <1>2, SystemStays, PTL DEF Spec, FirstAnswerStands

(* Once the sentinel is taken, what was read and not lost is on the wire, or  *)
(* left in the queue by a worker that was given a handle to it.               *)
LEMMA AllAccounted ==
    ASSUME SystemInv, responder = "done", NEW r \in Accepted
    PROVE  Written(r) \/ r \in lost \/ (Stranded(r) /\ Deferrable(r))
<1>1. r \in Requests /\ frame[r] # Unread /\ r # NoCall
    BY ThreadAssumption DEF Accepted
<1>2. ~escaped /\ thr[Main].at \in Ended
    BY DEF SystemInv, EscapeInv, ExitSent, Ended
<1>3. crefs[r] = {} /\ \A t \in Threads : ~Holding(t, r)
    BY <1>1, <1>2, EndedIsQuiet DEF SystemInv, DrainInv, Quiesced
<1>4. ASSUME NEW i \in 1..Len(pending), pending[i].call = r PROVE Stranded(r) /\ Deferrable(r)
    <2>0. pending[i] \in Item
        BY DEF SystemInv, KnownInv, TypeInv, TypeOK
    <2>1. pending[i].by \in Threads /\ pending[i].by # Main
        BY <1>1, <1>4, <2>0 DEF SystemInv, SentinelInv, Item
    <2>2. pending[i].by \in Workers
        BY <2>1 DEF Threads
    <2> QED BY <1>1, <1>4, <2>2 DEF Stranded, SystemInv, WorkerInv
<1>5. ASSUME r \notin lost, ~Written(r) PROVE \E i \in 1..Len(pending) : pending[i].call = r
    <2>1. ~NoCarrier(r)
        BY <1>1, <1>3, <1>5, NoneCarried DEF SystemInv, AnswerInv
    <2> QED BY <1>3, <1>5, <2>1 DEF NoCarrier, Written
<1> QED BY <1>4, <1>5

(* The queue strands no answer but those that workers enqueued: run() returns *)
(* with every other request it read answered on the wire, or lost to an       *)
(* exception, and with no answer still in the hands of a thread.              *)
THEOREM OthersAreWritten == Spec => []OnlyWorkersStranded
<1>1. SystemInv => OnlyWorkersStranded
    BY AllAccounted DEF SystemInv, DrainInv, OnlyWorkersStranded, Gone
<1> QED BY <1>1, SystemStays, PTL

-----------------------------------------------------------------------------
(* The contract.                                                              *)
Answers == [r \in Requests |-> IF Written(r) THEN AnswerOf(r) ELSE NoAnswer]
Over    == thr[Main].at \in Gone

(* One entry alone for a request: that is the answer.                         *)
LEMMA TheAnswer ==
    ASSUME NEW w, NEW r, NEW k \in 1..Len(w), w[k][1] = r,
           \A i \in 1..Len(w) : w[i][1] = r => i = k
    PROVE  LET i == CHOOSE i \in 1..Len(w) : w[i][1] = r IN w[i][2] = w[k][2]
<1>1. (CHOOSE i \in 1..Len(w) : w[i][1] = r) = k
    OBVIOUS
<1> QED BY <1>1

(* What is written is carried, and never the mark that nothing is.            *)
LEMMA WrittenAnswer ==
    ASSUME SystemInv, NEW r \in Requests
    PROVE  Answers[r] # NoAnswer <=> Written(r)
<1> SUFFICES ASSUME Written(r) PROVE AnswerOf(r) # NoAnswer
    BY DEF Answers
<1>1. PICK k \in 1..Len(wire) : wire[k][1] = r
    BY DEF Written
<1>2. AnswerOf(r) = wire[k][2]
    BY <1>1, TheAnswer DEF SystemInv, KnownInv, OnceInv, OneCarrier, AnswerOf
<1>3. AnswerOf(r) \in Carried(r)
    BY <1>1, <1>2, CarriedIn
<1> QED BY <1>3, AnswerAssumption DEF SystemInv, AnswerInv, MayAnswer

(* The responder writes an answer; or a notification, or takes the sentinel.  *)
LEMMA WriteAnswers ==
    ASSUME SystemInv, NEW i \in 1..Len(pending), WriteOut(i), NEW r \in Requests
    PROVE  Answers'[r] = IF pending[i].call = r THEN pending[i].out ELSE Answers[r]
<1>0. /\ wire \in Seq((Requests \cup {NoCall}) \X (Outcomes \cup {"Notification"})) /\ Len(wire) \in Nat
      /\ \A j, k \in 1..Len(wire) : wire[j][1] = r /\ wire[k][1] = r => j = k
      /\ \A j \in 1..Len(wire) : ~(pending[i].call = r /\ wire[j][1] = r)
    BY DEF SystemInv, KnownInv, OnceInv, OneCarrier, TypeInv, TypeOK
<1>1. PICK c, o : c = pending[i].call /\ o = pending[i].out
    OBVIOUS
<1>2. CASE o = "Exit"
    <2>1. c # r /\ UNCHANGED wire
        BY <1>1, <1>2, ThreadAssumption DEF SystemInv, SentinelInv, ExitItems, WriteOut
    <2> QED BY <1>1, <2>1 DEF Answers, Written, AnswerOf
<1>3. CASE o # "Exit"
    <2> DEFINE x == <<c, o>>
    <2>1. x[1] = c /\ x[2] = o /\ wire' = Append(wire, x)
        BY <1>1, <1>3 DEF WriteOut
    <2> HIDE DEF x
    <2>2. /\ \A j \in 1..Len(wire) : j \in 1..Len(wire') /\ wire'[j] = wire[j]
          /\ wire'[Len(wire) + 1] = x /\ Len(wire) + 1 \in 1..Len(wire')
          /\ \A j \in 1..Len(wire') : j \in 1..Len(wire) \/ j = Len(wire) + 1
        BY <1>0, <2>1
    <2>3. ASSUME NEW k \in 1..Len(wire'), wire'[k][1] = r, \A j \in 1..Len(wire') : wire'[j][1] = r => j = k
          PROVE  Answers'[r] = wire'[k][2]
        <3>1. Written(r)'
            BY <2>3 DEF Written
        <3>2. AnswerOf(r)' = wire'[k][2]
            BY <2>3, TheAnswer DEF AnswerOf
        <3> QED BY <3>1, <3>2 DEF Answers
    <2>4. CASE c = r
        BY <1>0, <1>1, <2>1, <2>2, <2>3, <2>4
    <2>5. CASE c # r
        <3>1. CASE Written(r)
            <4>1. PICK k \in 1..Len(wire) : wire[k][1] = r
                BY <3>1 DEF Written
            <4>2. AnswerOf(r) = wire[k][2]
                BY <1>0, <4>1, TheAnswer DEF AnswerOf
            <4>3. Answers'[r] = wire'[k][2]
                <5>1. k \in 1..Len(wire') /\ wire'[k] = wire[k]
                    BY <2>2, <4>1
                <5>2. \A j \in 1..Len(wire') : wire'[j][1] = r => j = k
                    BY <1>0, <2>1, <2>2, <2>5, <4>1
                <5> QED BY <2>3, <4>1, <5>1, <5>2
            <4> QED BY <1>1, <2>2, <2>5, <3>1, <4>1, <4>2, <4>3 DEF Answers
        <3>2. CASE ~Written(r)
            <4>1. ~Written(r)'
                BY <2>1, <2>2, <2>5, <3>2 DEF Written
            <4> QED BY <1>1, <2>5, <3>2, <4>1 DEF Answers
        <3> QED BY <3>1, <3>2
    <2> QED BY <2>4, <2>5
<1> QED BY <1>2, <1>3

(* run() is left by ~jthread's join alone. *)
LEMMA OnlyJoinEnds ==
    ASSUME SystemInv, [Next]_vars, ~Join
    PROVE  Over' <=> Over
<1>0. Main \in Threads /\ thr \in [Threads -> Position] /\ Working \cap Gone = {}
    BY DEF SystemInv, KnownInv, TypeInv, TypeOK, Threads, Working, Gone, ForACall
<1>1. ASSUME NEW place, thr' = [thr EXCEPT ![Main].at = place] PROVE thr'[Main].at = place
    BY <1>0, <1>1 DEF Position
<1>2. CASE ShutdownStep
    <2>1. CASE Destroy
        BY <1>1, <2>1 DEF Destroy, Over, Gone
    <2>2. CASE EndOfInput \/ SendExit \/ Unwind
        BY <1>1, <2>2 DEF EndOfInput, SendExit, Unwind, Over, Gone
    <2>3. CASE WaitStep \/ SpuriousWake
        <3>1. PICK place \in {"check", "block", "asleep", "lock", "drained"} : thr' = [thr EXCEPT ![Main].at = place]
            BY <2>3 DEF WaitStep, WaitLock, WaitCheck, WaitBlock, SpuriousWake
        <3>2. thr[Main].at \in {"check", "block", "asleep", "lock"}
            BY <2>3 DEF WaitStep, WaitLock, WaitCheck, WaitBlock, SpuriousWake
        <3> QED BY <1>1, <3>1, <3>2 DEF Over, Gone
    <2> QED BY <1>2, <2>1, <2>2, <2>3 DEF ShutdownStep
<1>3. CASE thr'[Main] = thr[Main]
    BY <1>3 DEF Over
<1>4. CASE thr[Main].at \in Working \cup {"asleep"} /\ thr'[Main].at \in Working \cup {"lock"}
    BY <1>0, <1>4 DEF Over, Gone
<1> QED BY <1>2, <1>3, <1>4, MainMoves DEF SystemInv, KnownInv

(* The server's state is one of the contract's.                               *)
LEMMA ContractVars ==
    /\ UNCHANGED <<frame, Answers, lost, Over>> => UNCHANGED Contract!vars
    /\ UNCHANGED wire => UNCHANGED Answers
BY DEF Answers, AnswerOf, Written, Over, Gone, Contract!vars

LEMMA InitContract == Init => Contract!Init
<1> SUFFICES ASSUME Init PROVE Contract!Init
    OBVIOUS
<1>1. \A r \in Requests : ~Written(r)
    BY DEF Init, Written
<1>2. thr[Main].at = "idle"
    BY DEF Init, SInit, Resting, Threads
<1> QED BY <1>1, <1>2 DEF Contract!Init, Init, SInit

(* Reading a frame accepts it; when its handler throws at once it is lost     *)
(* with that.                                                                 *)
LEMMA AcceptStep ==
    ASSUME SystemInv, [Next]_vars, NEW r \in Requests, NEW f \in Input,
           ProcessInline(r, f) \/ DispatchAsync(r, f) \/ InlineEscapes(r, f), UNCHANGED wire
    PROVE  Contract!Accept(r, f)
<1>1. /\ thr[Main].at = "idle" /\ frame[r] = Unread /\ frame' = [frame EXCEPT ![r] = f]
      /\ lost' = lost \/ (Contract!MayLose(f) /\ lost' = lost \cup {r})
    BY ContractFrames DEF ProcessInline, DispatchAsync, InlineEscapes
<1>2. ~Over /\ UNCHANGED <<Answers, Over>>
    BY <1>1, OnlyJoinEnds, ContractVars DEF Over, Gone, Join
<1> QED BY <1>1, <1>2 DEF Contract!Accept, Answers, Over, Gone

(* A text the codec refuses takes the answer of an open call.                 *)
LEMMA LoseStep ==
    ASSUME SystemInv, SystemInv', [Next]_vars, NEW t \in Threads, ErrorFails(t), UNCHANGED wire
    PROVE  \E r \in Requests : Contract!Lose(r)
<1> PICK r \in Requests : r = thr[t].call
    BY DEF ErrorFails, SystemInv, KnownInv, TypeInv, TypeOK, Position, ForACall
<1>1. Holding(t, r) /\ lost' = lost \cup {r} /\ UNCHANGED frame
    BY DEF ErrorFails, Holding
<1>2. ~Written(r) /\ Carried(r) # {}
    <2>1. thr[t].out \in Carried(r)
        BY <1>1, CarriedIn
    <2>2. OneCarrier(r)
        BY DEF SystemInv, KnownInv, OnceInv
    <2> QED BY <1>1, <2>1, <2>2 DEF Written, OneCarrier
<1>3. r \notin lost /\ frame[r] # Unread
    <2>1. ~NoCarrier(r)
        BY <1>1 DEF NoCarrier
    <2> QED BY <1>2, <2>1 DEF SystemInv, AnswerInv, KnownInv, OnceInv, Unclaimed
<1>4. Contract!MayLose(frame[r])
    BY <1>1 DEF SystemInv, AnswerInv
<1>5. ~Over
    <2> SUFFICES ASSUME Over PROVE FALSE
        OBVIOUS
    <2>1. ~escaped /\ thr[Main].at \in Ended
        BY DEF Over, Ended, SystemInv, EscapeInv
    <2> QED BY <1>1, <2>1, EndedIsQuiet DEF SystemInv, DrainInv, Quiesced
<1>6. UNCHANGED <<Answers, Over>>
    <2>1. ~Join
        BY <1>1, <1>3 DEF Join
    <2> QED BY <2>1, OnlyJoinEnds, ContractVars DEF Over
<1>7. Answers[r] = NoAnswer
    BY <1>2 DEF Answers
<1>8. Contract!Open(r)
    BY <1>3, <1>7 DEF Contract!Open, Answers
<1> QED BY <1>1, <1>4, <1>5, <1>6, <1>8 DEF Contract!Lose, Answers, Over, Gone

(* The responder writes the answer to an open call, or one to none.           *)
LEMMA AnswerStep ==
    ASSUME SystemInv, [Next]_vars, NEW i \in 1..Len(pending), WriteOut(i)
    PROVE  (\E r \in Requests, o \in Outcomes : Contract!Answer(r, o)) \/ UNCHANGED Contract!vars
<1>0. /\ UNCHANGED <<frame, lost, thr>> /\ ~Over /\ pending[i] \in Item
      /\ \A r \in Requests : Answers'[r] = IF pending[i].call = r THEN pending[i].out ELSE Answers[r]
    BY WriteAnswers DEF WriteOut, Over, SystemInv, DrainInv, KnownInv, TypeInv, TypeOK
<1>1. UNCHANGED Over
    BY <1>0 DEF Over
<1>2. CASE pending[i].call \notin Requests
    <2>1. Answers' = Answers
        BY <1>0, <1>2 DEF Answers
    <2> QED BY <1>0, <1>1, <2>1, ContractVars
<1>3. ASSUME NEW r \in Requests, pending[i].call = r PROVE \E o \in Outcomes : Contract!Answer(r, o)
    <2>1. pending[i].out \in Carried(r) /\ ~NoCarrier(r)
        BY <1>3, CarriedIn DEF NoCarrier
    <2>2. ~Written(r)
        BY <1>3 DEF Written, SystemInv, KnownInv, OnceInv, OneCarrier
    <2>3. frame[r] # Unread /\ r \notin lost /\ Answers[r] = NoAnswer
        BY <2>1, <2>2 DEF SystemInv, AnswerInv, KnownInv, OnceInv, Unclaimed, Answers
    <2>4. Contract!Open(r)
        BY <2>3 DEF Contract!Open, Answers
    <2>5. pending[i].out \in Contract!MayAnswer(frame[r]) /\ pending[i].out \in Outcomes
        BY <2>1, ContractFrames DEF SystemInv, AnswerInv, MayAnswer
    <2>6. Answers' = [Answers EXCEPT ![r] = pending[i].out]
        <3>1. PICK o : o = pending[i].out
            OBVIOUS
        <3>2. \A q \in Requests : Answers'[q] = [Answers EXCEPT ![r] = o][q]
            BY <1>0, <1>3, <3>1 DEF Answers
        <3> QED BY <3>1, <3>2 DEF Answers
    <2> QED BY <1>0, <1>1, <2>4, <2>5, <2>6 DEF Contract!Answer, Answers, Over, Gone
<1> QED BY <1>2, <1>3

(* The join ends the server with no call open but such as a worker answered.  *)
LEMMA FinishStep ==
    ASSUME SystemInv, Join
    PROVE  Contract!Finish
<1>1. /\ thr[Main].at = "join" /\ responder = "done" /\ UNCHANGED <<frame, lost, wire>>
      /\ thr'[Main].at = "returned"
    BY DEF Join, SystemInv, KnownInv, TypeInv, TypeOK, Threads, Position
<1>2. \A r \in Requests : Contract!Open(r) => frame[r] \in AsyncFrames \ BadAsync
    <2> SUFFICES ASSUME NEW r \in Requests, frame[r] # Unread, r \notin lost, Answers[r] = NoAnswer
                 PROVE  frame[r] \in AsyncFrames \ BadAsync
        BY DEF Contract!Open, Answers
    <2>1. ~Written(r)
        BY WrittenAnswer
    <2> QED BY <1>1, <2>1, AllAccounted DEF Accepted, Deferrable
<1>3. ~Over /\ Over' /\ UNCHANGED Answers
    BY <1>1, ContractVars DEF Over, Gone
<1> QED BY <1>1, <1>2, <1>3 DEF Contract!Finish, Answers, Over, Gone

LEMMA NextContract == SystemInv /\ SystemInv' /\ [Next]_vars => [Contract!Next]_(Contract!vars)
<1> SUFFICES ASSUME SystemInv, SystemInv', [Next]_vars
             PROVE  Contract!Next \/ UNCHANGED Contract!vars
    OBVIOUS
<1>0. Contract!Outcomes = Outcomes
    BY DEF Outcomes, Contract!Outcomes
<1>1. ASSUME UNCHANGED <<frame, wire, lost>>, ~Join PROVE UNCHANGED Contract!vars
    <2>1. UNCHANGED <<Answers, Over>>
        BY <1>1, OnlyJoinEnds, ContractVars DEF Over
    <2> QED BY <1>1, <2>1, ContractVars
<1>2. ASSUME NEW r \in Requests, NEW f \in Input,
             ProcessInline(r, f) \/ DispatchAsync(r, f) \/ InlineEscapes(r, f), UNCHANGED <<wire, responder>>
      PROVE  Contract!Next
    BY <1>2, AcceptStep DEF Contract!Next
<1>3. ASSUME NEW t \in Threads, CodecFails(t), UNCHANGED <<wire, responder>>
      PROVE  Contract!Next \/ UNCHANGED Contract!vars
    <2>1. CASE ErrorFails(t)
        BY <1>3, <2>1, LoseStep DEF Contract!Next
    <2>2. CASE EncodeFails(t)
        <3>1. UNCHANGED <<frame, wire, lost>>
            BY <1>3, <2>2 DEF EncodeFails
        <3>2. CASE Join
            BY <3>2, FinishStep DEF Contract!Next
        <3> QED BY <1>1, <3>1, <3>2
    <2> QED BY <1>3, <2>1, <2>2 DEF CodecFails
<1>4. ASSUME NEW i \in 1..Len(pending), WriteOut(i) PROVE Contract!Next \/ UNCHANGED Contract!vars
    BY <1>0, <1>4, AnswerStep DEF Contract!Next
<1>5. CASE Join
    BY <1>5, FinishStep DEF Contract!Next
<1>6. ASSUME UNCHANGED <<frame, wire, lost>> PROVE Contract!Next \/ UNCHANGED Contract!vars
    BY <1>1, <1>5, <1>6
<1>7. CASE Escape
    <2>1. CASE (HandlerEscapes /\ UNCHANGED <<wire, responder>>) \/ ReadThrows
        BY <1>6, <2>1 DEF HandlerEscapes, ReadThrows
    <2> QED BY <1>2, <1>3, <1>7, <2>1 DEF Escape
<1>8. ASSUME \/ \E w \in Workers, r \in Requests : CopyHandle(w, r) \/ Drop(w, r)
             \/ \E t \in Threads, r \in Requests, o \in {"Result", "Rejected"} : Fire(t, r, o) \/ Respond(t, r, o)
             \/ \E t \in Threads : LibraryStep(t) \/ Push(t)
             \/ HandlerReturn \/ HandlerThrow \/ LeaveResolver \/ LeaveContext
             \/ WaitStep \/ SpuriousWake,
             UNCHANGED <<wire, responder>>
      PROVE  UNCHANGED <<frame, wire, lost>>
    BY <1>8 DEF CopyHandle, Drop, DropContext, DropResolver, Fire, Respond, LibraryStep, Encode, Claim, Send,
           Release, Complete, Notify, NotifyUnlocked, Push, HandlerReturn, HandlerThrow, LeaveResolver,
           LeaveContext, WaitStep, WaitLock, WaitCheck, WaitBlock, SpuriousWake
<1>9. CASE Reply \/ EndOfInput \/ SendExit \/ Destroy \/ Unwind \/ UNCHANGED vars
    BY <1>6, <1>9 DEF Reply, EndOfInput, SendExit, Destroy, Unwind, vars
<1> QED BY <1>2, <1>4, <1>5, <1>6, <1>7, <1>8, <1>9, StepCases

(* The server implements its contract: every frame read is answered at most   *)
(* once, with an answer its class allows, or lost to an exception where user  *)
(* code or its texts may throw; and when run() is over, no call is open but   *)
(* such as may have been answered by another thread.                          *)
THEOREM ServerKeepsContract == Spec => ImplementsContract
<1>1. SystemInv /\ SystemInv' /\ [Next]_vars => [Contract!Next]_(Contract!vars)
    BY NextContract
<1> QED BY <1>1, InitContract, SystemStays, PTL DEF Spec, ImplementsContract, Contract!Spec
=============================================================================
