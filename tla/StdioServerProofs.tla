------------------------- MODULE StdioServerProofs -------------------------
(* What is proved of StdioServer for every set of requests and workers, every *)
(* set of input frames and either order the queue may have.                   *)
EXTENDS StdioServer, SequenceTheorems, TLAPS

(* While Main is in user code it is running the handler of some request. *)
Handling == thr[Main].at = "user" => thr[Main].call \in Requests

TypeInv == TypeOK /\ Handling

(* The steps in which something is thrown. *)
Escape == \/ \E r \in Requests, f \in Input : InlineEscapes(r, f) /\ UNCHANGED <<wire, responder>>
          \/ \E t \in Threads : CodecFails(t) /\ UNCHANGED <<wire, responder>>
          \/ HandlerEscapes /\ UNCHANGED <<wire, responder>>
          \/ ReadThrows

(* The steps of the system, one disjunct per action. *)
LEMMA StepCases ==
    ASSUME [Next]_vars
    PROVE  \/ \E r \in Requests, f \in Input :
                 (ProcessInline(r, f) \/ DispatchAsync(r, f)) /\ UNCHANGED <<wire, responder>>
           \/ \E w \in Workers, r \in Requests :
                 (CopyHandle(w, r) \/ Drop(w, r)) /\ UNCHANGED <<wire, responder>>
           \/ \E t \in Threads, r \in Requests, o \in {"Result", "Rejected"} :
                 (Fire(t, r, o) \/ Respond(t, r, o)) /\ UNCHANGED <<wire, responder>>
           \/ \E t \in Threads :
                 (LibraryStep(t) \/ Push(t)) /\ UNCHANGED <<wire, responder>>
           \/ (HandlerReturn \/ HandlerThrow \/ LeaveResolver \/ LeaveContext)
                 /\ UNCHANGED <<wire, responder>>
           \/ (WaitStep \/ SpuriousWake) /\ UNCHANGED <<wire, responder>>
           \/ Reply \/ EndOfInput \/ SendExit \/ Join \/ Destroy \/ Unwind
           \/ Escape
           \/ \E i \in 1..Len(pending) : WriteOut(i)
           \/ UNCHANGED vars
BY DEF Next, ServerStep, SNext, Terminated, Hung, ResponderStep, Escape

(* Removing one item of a sequence keeps the others, in order. *)
LEMMA RemoveAtProperties ==
    ASSUME NEW S, NEW s \in Seq(S), NEW i \in 1..Len(s)
    PROVE  /\ RemoveAt(s, i) \in Seq(S)
           /\ Len(RemoveAt(s, i)) = Len(s) - 1
           /\ \A j \in 1..(Len(s) - 1) : RemoveAt(s, i)[j] = IF j < i THEN s[j] ELSE s[j + 1]
<1> DEFINE a == SubSeq(s, 1, i - 1)
           b == SubSeq(s, i + 1, Len(s))
<1>1. a \in Seq(S) /\ Len(a) = i - 1 /\ \A j \in 1..(i - 1) : a[j] = s[j]
    BY SubSeqProperties
<1>2. b \in Seq(S) /\ Len(b) = Len(s) - i /\ \A j \in 1..(Len(s) - i) : b[j] = s[i + j]
    BY SubSeqProperties
<1>3. /\ a \o b \in Seq(S)
      /\ Len(a \o b) = Len(a) + Len(b)
      /\ \A j \in 1..(Len(a) + Len(b)) :
            (a \o b)[j] = IF j <= Len(a) THEN a[j] ELSE b[j - Len(a)]
    <2> HIDE DEF a, b
    <2> QED BY <1>1, <1>2, ConcatProperties
<1>4. RemoveAt(s, i) = a \o b
    BY DEF RemoveAt
<1>5. Len(a) + Len(b) = Len(s) - 1
    <2> HIDE DEF a, b
    <2> QED BY <1>1, <1>2
<1>6. ASSUME NEW j \in 1..(Len(s) - 1)
      PROVE  (a \o b)[j] = IF j < i THEN s[j] ELSE s[j + 1]
    <2> HIDE DEF a, b
    <2>1. CASE j < i
        BY <2>1, <1>1, <1>3, <1>5
    <2>2. CASE ~(j < i)
        <3>1. (a \o b)[j] = b[j - (i - 1)]
            BY <2>2, <1>1, <1>3, <1>5
        <3>2. j - (i - 1) \in 1..(Len(s) - i)
            BY <2>2
        <3>3. b[j - (i - 1)] = s[i + (j - (i - 1))]
            BY <3>2, <1>2
        <3> QED BY <3>1, <3>3, <2>2
    <2> QED BY <2>1, <2>2
<1> QED BY <1>3, <1>4, <1>5, <1>6

-----------------------------------------------------------------------------
(* Typing.                                                                    *)

(* A thread that goes on within a call is again at a well-formed position. *)
LEMMA JumpTyped ==
    ASSUME NEW t \in Threads, thr[t] \in Position, NEW p \in Continuations \cup {"idle", "notify"},
           p \in (Continuations \ {"user"}) \cup {"notify"} => thr[t].call \in Requests
    PROVE  Jump(t, p) \in Position
BY DEF Jump, Resting, Position, Places, ForACall, WithOutcome, Responding, Continuations

LEMMA RestingTyped == \A t \in Threads : Resting(t) \in Position
BY DEF Resting, Position, Places, ForACall, WithOutcome, Responding

(* Entering library code for a call. *)
LEMMA EnterTyped ==
    ASSUME NEW place \in Places, NEW r \in Requests, NEW o \in Outcomes \cup {NoOutcome},
           NEW next \in Continuations \cup {Nowhere},
           place \in WithOutcome => o \in Outcomes,
           place \in Responding => next \in Continuations
    PROVE  [at |-> place, call |-> r, out |-> o, then |-> next] \in Position
BY DEF Position

(* Dropping a reference leaves the state typed. *)
LEMMA DropContextTyped ==
    ASSUME TypeInv, NEW t \in Threads, NEW r \in Requests, NEW ref,
           NEW after \in {"user", "leaveContext", "idle"},
           after = "leaveContext" => thr[t].call \in Requests,
           after = "user" => t # Main,
           DropContext(t, r, ref, after), UNCHANGED <<wire, responder>>
    PROVE  TypeInv'
<1>2. thr' \in [Threads -> Position] /\ Handling'
    <2>1. CASE thr' = [thr EXCEPT ![t] = Jump(t, after)]
        <3>1. Jump(t, after) \in Position
            BY JumpTyped DEF TypeInv, TypeOK, Continuations
        <3>2. t = Main => Jump(t, after).at # "user"
            BY DEF Jump, Resting
        <3> QED BY <2>1, <3>1, <3>2 DEF TypeInv, TypeOK, Handling
    <2>2. CASE Enter(t, "complete", r, NoOutcome, Nowhere)
        <3>1. [at |-> "complete", call |-> r, out |-> NoOutcome, then |-> Nowhere] \in Position
            BY EnterTyped DEF Places, WithOutcome, Responding
        <3> QED BY <2>2, <3>1 DEF TypeInv, TypeOK, Handling, Enter
    <2>3. CASE Enter(t, "send", r, "Abandoned", "complete")
        <3>1. [at |-> "send", call |-> r, out |-> "Abandoned", then |-> "complete"] \in Position
            BY EnterTyped DEF Places, Outcomes, Continuations
        <3> QED BY <2>3, <3>1 DEF TypeInv, TypeOK, Handling, Enter
    <2> QED BY <2>1, <2>2, <2>3 DEF DropContext
<1>3. cdone' \in [Requests -> BOOLEAN]
    BY DEF DropContext, TypeInv, TypeOK
<1>4. crefs' \in [Requests -> SUBSET (Threads \cup {Closures})]
    BY DEF DropContext, TypeInv, TypeOK
<1> QED BY <1>2, <1>3, <1>4 DEF DropContext, TypeInv, TypeOK

LEMMA DropResolverTyped ==
    ASSUME TypeInv, NEW t \in Threads, NEW r \in Requests,
           NEW after \in {"user", "leaveContext"},
           after = "leaveContext" => thr[t].call \in Requests,
           after = "user" => t # Main,
           DropResolver(t, r, after), UNCHANGED <<wire, responder>>
    PROVE  TypeInv'
<1>1. thr' \in [Threads -> Position] /\ Handling'
    <2>1. CASE thr' = [thr EXCEPT ![t] = Jump(t, after)]
        <3>1. Jump(t, after) \in Position
            BY JumpTyped DEF TypeInv, TypeOK, Continuations
        <3>2. t = Main => Jump(t, after).at # "user"
            BY DEF Jump, Resting
        <3> QED BY <2>1, <3>1, <3>2 DEF TypeInv, TypeOK, Handling
    <2>2. CASE Enter(t, "release", r, NoOutcome, Nowhere)
        <3>1. [at |-> "release", call |-> r, out |-> NoOutcome, then |-> Nowhere] \in Position
            BY EnterTyped DEF Places, WithOutcome, Responding
        <3> QED BY <2>2, <3>1 DEF TypeInv, TypeOK, Handling, Enter
    <2>3. CASE Enter(t, "claim", r, "Abandoned", "release")
        <3>1. [at |-> "claim", call |-> r, out |-> "Abandoned", then |-> "release"] \in Position
            BY EnterTyped DEF Places, Outcomes, Continuations
        <3> QED BY <2>3, <3>1 DEF TypeInv, TypeOK, Handling, Enter
    <2> QED BY <2>1, <2>2, <2>3 DEF DropResolver
<1>2. rdone' \in [Requests -> BOOLEAN]
    BY DEF DropResolver, TypeInv, TypeOK
<1>3. rrefs' \in [Requests -> SUBSET Threads]
    BY DEF DropResolver, TypeInv, TypeOK
<1> QED BY <1>1, <1>2, <1>3 DEF DropResolver, TypeInv, TypeOK

LEMMA DispatchTyped ==
    ASSUME TypeInv, NEW r \in Requests, NEW f \in Input,
           ProcessInline(r, f) \/ DispatchAsync(r, f), UNCHANGED <<wire, responder>>
    PROVE  TypeInv'
<1>1. CASE ProcessInline(r, f)
    <2>1. PICK o \in MayAnswer(f) : Enter(Main, "reply", r, o, Nowhere)
        BY <1>1 DEF ProcessInline
    <2>2. o \in Outcomes
        BY DEF MayAnswer
    <2>3. [at |-> "reply", call |-> r, out |-> o, then |-> Nowhere] \in Position
        BY <2>2, EnterTyped DEF Places, Responding
    <2> QED BY <1>1, <2>1, <2>3 DEF ProcessInline, TypeInv, TypeOK, Handling, Enter
<1>2. CASE DispatchAsync(r, f)
    <2>1. /\ frame' \in [Requests -> Input \cup {Unread}]
          /\ rrefs' \in [Requests -> SUBSET Threads]
          /\ crefs' \in [Requests -> SUBSET (Threads \cup {Closures})]
          /\ inflight' \in Int
        <3>1. {Main} \in SUBSET Threads /\ {Main, Closures} \in SUBSET (Threads \cup {Closures})
            BY DEF Threads
        <3>2. rrefs' = rrefs \/ rrefs' = [rrefs EXCEPT ![r] = {Main}]
            BY <1>2 DEF DispatchAsync
        <3>3. crefs' = [crefs EXCEPT ![r] = {Main}] \/ crefs' = [crefs EXCEPT ![r] = {Main, Closures}]
            BY <1>2 DEF DispatchAsync
        <3>4. frame' = [frame EXCEPT ![r] = f] /\ inflight' = inflight + 1
            BY <1>2 DEF DispatchAsync
        <3>5. /\ frame \in [Requests -> Input \cup {Unread}]
              /\ rrefs \in [Requests -> SUBSET Threads]
              /\ crefs \in [Requests -> SUBSET (Threads \cup {Closures})]
              /\ inflight \in Int
            BY DEF TypeInv, TypeOK
        <3> QED BY <3>1, <3>2, <3>3, <3>4, <3>5
    <2>2. [at |-> "claim", call |-> r, out |-> "InvalidParams", then |-> "leaveContext"] \in Position
        BY EnterTyped DEF Places, Outcomes, Continuations
    <2>3. [at |-> "user", call |-> r, out |-> NoOutcome, then |-> Nowhere] \in Position
        BY EnterTyped DEF Places, WithOutcome, Responding
    <2>4. thr' \in [Threads -> Position] /\ Handling'
        <3> DEFINE claim == [at |-> "claim", call |-> r, out |-> "InvalidParams", then |-> "leaveContext"]
                   user  == [at |-> "user", call |-> r, out |-> NoOutcome, then |-> Nowhere]
        <3>1. thr' = [thr EXCEPT ![Main] = claim] \/ thr' = [thr EXCEPT ![Main] = user]
            BY <1>2 DEF DispatchAsync, Enter
        <3>2. claim \in Position /\ user \in Position /\ claim.call = r /\ user.call = r
            BY <2>2, <2>3
        <3>3. thr \in [Threads -> Position]
            BY DEF TypeInv, TypeOK
        <3> HIDE DEF claim, user
        <3> QED BY <3>1, <3>2, <3>3 DEF Handling, Threads
    <2> QED BY <1>2, <2>1, <2>4 DEF DispatchAsync, TypeInv, TypeOK
<1> QED BY <1>1, <1>2

LEMMA FireTyped ==
    ASSUME TypeInv, NEW t \in Threads, NEW r \in Requests, NEW o \in {"Result", "Rejected"},
           Fire(t, r, o) \/ Respond(t, r, o), UNCHANGED <<wire, responder>>
    PROVE  TypeInv'
<1>1. /\ [at |-> "encode", call |-> r, out |-> o, then |-> "user"] \in Position
      /\ [at |-> "claim", call |-> r, out |-> o, then |-> "user"] \in Position
      /\ [at |-> "send", call |-> r, out |-> o, then |-> "user"] \in Position
    BY EnterTyped DEF Places, Outcomes, Continuations
<1>2. thr' \in [Threads -> Position] /\ Handling'
    <2>1. PICK place \in {"encode", "claim", "send"} : Enter(t, place, r, o, "user")
        BY DEF Fire, Respond
    <2> QED BY <1>1, <2>1 DEF TypeInv, TypeOK, Handling, Enter
<1>3. rdone' \in [Requests -> BOOLEAN] /\ cdone' \in [Requests -> BOOLEAN]
    BY DEF Fire, Respond, TypeInv, TypeOK
<1> QED BY <1>2, <1>3 DEF Fire, Respond, TypeInv, TypeOK

(* Encode, Claim and Send end in a jump within the call. *)
LEMMA ReturnTyped ==
    ASSUME TypeInv, NEW t \in Threads, thr[t].at \in Responding
    PROVE  /\ Jump(t, "user") \in Position
           /\ Jump(t, thr[t].then) \in Position
           /\ thr' = [thr EXCEPT ![t] = Jump(t, "user")] => Handling'
           /\ thr' = [thr EXCEPT ![t] = Jump(t, thr[t].then)] => Handling'
<1>1. thr[t] \in Position /\ thr[t].call \in Requests /\ thr[t].then \in Continuations
    BY DEF TypeInv, TypeOK, Position, Responding, ForACall
<1>2. Jump(t, "user") \in Position /\ Jump(t, thr[t].then) \in Position
    BY <1>1, JumpTyped DEF Continuations
<1>3. /\ t = Main => Jump(t, "user").call \in Requests
      /\ t = Main => Jump(t, thr[t].then).call \in Requests
    BY <1>1 DEF Jump, Continuations
<1>4. ASSUME NEW p, t = Main => p.call \in Requests, thr' = [thr EXCEPT ![t] = p]
      PROVE  Handling'
    BY <1>4 DEF TypeInv, TypeOK, Handling, Threads
<1> QED BY <1>2, <1>3, <1>4

LEMMA LibraryStepTyped ==
    ASSUME TypeInv, NEW t \in Threads, LibraryStep(t) \/ Push(t), UNCHANGED <<wire, responder>>
    PROVE  TypeInv'
<1> USE DEF TypeInv, TypeOK
<1>0. thr[t] \in Position
    OBVIOUS
<1>1. CASE Encode(t)
    <2>1. [thr[t] EXCEPT !.at = "claim"] \in Position
        BY <1>0, <1>1 DEF Encode, Position, Places, ForACall, WithOutcome, Responding
    <2>2. thr' \in [Threads -> Position] /\ Handling'
        BY <1>1, <2>1 DEF Encode, Handling
    <2> QED BY <1>1, <2>2 DEF Encode
<1>2. CASE Claim(t)
    <2>1. [thr[t] EXCEPT !.at = "send"] \in Position
        BY <1>0, <1>2 DEF Claim, Position, Places, ForACall, WithOutcome, Responding
    <2>2. thr' \in [Threads -> Position] /\ Handling'
        <3>1. CASE thr' = [thr EXCEPT ![t].at = "send"]
            BY <2>1, <3>1 DEF Handling
        <3>2. CASE thr' = [thr EXCEPT ![t] = Jump(t, thr[t].then)]
            <4>1. thr[t].at \in Responding
                BY <1>2 DEF Claim, Responding
            <4> QED BY <3>2, <4>1, ReturnTyped
        <3> QED BY <1>2, <3>1, <3>2 DEF Claim
    <2> QED BY <1>2, <2>2 DEF Claim
<1>3. CASE Send(t)
    <2>1. [by |-> t, call |-> thr[t].call, out |-> thr[t].out] \in Item
        BY <1>0, <1>3 DEF Send, Position, ForACall, WithOutcome, Item
    <2>2. pending' \in Seq(Item)
        BY <1>3, <2>1 DEF Send, Enqueue
    <2>3. thr' \in [Threads -> Position] /\ Handling'
        <3>1. thr[t].at \in Responding
            BY <1>3 DEF Send, Responding
        <3> QED BY <1>3, <3>1, ReturnTyped DEF Send
    <2> QED BY <1>3, <2>2, <2>3 DEF Send
<1>4. CASE Release(t)
    <2>1. thr[t].call \in Requests
        BY <1>0, <1>4 DEF Release, Position, ForACall
    <2> QED BY <1>4, <2>1, DropContextTyped DEF Release
<1>5. CASE Complete(t)
    <2>1. Jump(t, "notify") \in Position
        BY <1>0, <1>5, JumpTyped DEF Complete, Position, ForACall
    <2>2. thr' \in [Threads -> Position] /\ Handling'
        BY <1>5, <2>1, RestingTyped DEF Complete, Handling, Jump, Resting
    <2>3. inflight' \in Int
        BY <1>5 DEF Complete
    <2> QED BY <1>5, <2>2, <2>3 DEF Complete
<1>6. CASE Notify(t)
    <2>1. \A u \in Threads : Wake(thr[u]) \in Position
        BY DEF Wake, Position, Places, ForACall, WithOutcome, Responding
    <2>2. thr' \in [Threads -> Position]
        BY <1>6, <2>1, RestingTyped DEF Notify, NotifyUnlocked
    <2>3. Handling'
        BY <1>6 DEF Notify, NotifyUnlocked, Handling, Wake, Resting, Position, Threads
    <2> QED BY <1>6, <2>2, <2>3 DEF Notify, NotifyUnlocked
<1>7. CASE Push(t)
    <2>1. [by |-> t, call |-> NoCall, out |-> "Notification"] \in Item
        BY DEF Item
    <2>2. pending' \in Seq(Item)
        BY <1>7, <2>1 DEF Push, Enqueue
    <2>3. pushed' \in 0..MaxPush
        BY <1>7, PushAssumption DEF Push
    <2> QED BY <1>7, <2>2, <2>3 DEF Push, Handling
<1> QED BY <1>1, <1>2, <1>3, <1>4, <1>5, <1>6, <1>7 DEF LibraryStep

(* Main in its loop, in a handler, and in waitForInflight. *)
LEMMA MainStepTyped ==
    ASSUME TypeInv, NEW at \in Places \ ForACall, at # "user",
           thr' = [thr EXCEPT ![Main].at = at]
    PROVE  thr' \in [Threads -> Position] /\ Handling'
<1>1. [thr[Main] EXCEPT !.at = at] \in Position
    BY DEF TypeInv, TypeOK, Position, Threads, ForACall, WithOutcome, Responding
<1> QED BY <1>1 DEF TypeInv, TypeOK, Handling, Threads

LEMMA HandlerStepTyped ==
    ASSUME TypeInv, HandlerReturn \/ HandlerThrow \/ LeaveResolver \/ LeaveContext,
           UNCHANGED <<wire, responder>>
    PROVE  TypeInv'
<1> DEFINE r == thr[Main].call
<1>0. Main \in Threads /\ thr[Main] \in Position
    BY DEF TypeInv, TypeOK, Threads
<1>1. CASE HandlerReturn
    <2>1. r \in Requests
        BY <1>1 DEF HandlerReturn, TypeInv, Handling
    <2>2. PICK p \in {"leaveResolver", "leaveContext"} : thr' = [thr EXCEPT ![Main] = Jump(Main, p)]
        BY <1>1 DEF HandlerReturn
    <2>3. Jump(Main, p) \in Position /\ Jump(Main, p).at # "user"
        BY <1>0, <2>1, JumpTyped DEF Continuations, Jump
    <2> QED BY <1>0, <1>1, <2>2, <2>3 DEF HandlerReturn, TypeInv, TypeOK, Handling
<1>2. CASE HandlerThrow
    <2>1. r \in Requests
        BY <1>2 DEF HandlerThrow, TypeInv, Handling
    <2>2. /\ [at |-> "claim", call |-> r, out |-> "InternalError", then |-> "leaveResolver"] \in Position
          /\ [at |-> "send", call |-> r, out |-> "InternalError", then |-> "leaveContext"] \in Position
        BY <2>1, EnterTyped DEF Places, Outcomes, Continuations
    <2>3. thr' \in [Threads -> Position] /\ Handling'
        <3>1. thr \in [Threads -> Position]
            BY DEF TypeInv, TypeOK
        <3> QED BY <1>0, <1>2, <2>2, <3>1 DEF HandlerThrow, Handling, Enter
    <2>4. rdone' \in [Requests -> BOOLEAN] /\ cdone' \in [Requests -> BOOLEAN]
        BY <1>2, <2>1 DEF HandlerThrow, TypeInv, TypeOK
    <2> QED BY <1>2, <2>3, <2>4 DEF HandlerThrow, TypeInv, TypeOK
<1>3. CASE LeaveResolver
    <2>1. r \in Requests
        BY <1>0, <1>3 DEF LeaveResolver, Position, ForACall
    <2> QED BY <1>0, <1>3, <2>1, DropResolverTyped DEF LeaveResolver
<1>4. CASE LeaveContext
    <2>1. r \in Requests
        BY <1>0, <1>4 DEF LeaveContext, Position, ForACall
    <2> QED BY <1>0, <1>4, <2>1, DropContextTyped DEF LeaveContext
<1> QED BY <1>1, <1>2, <1>3, <1>4

LEMMA TransportStepTyped ==
    ASSUME TypeInv, \/ Reply \/ EndOfInput \/ SendExit \/ Join \/ Destroy \/ Unwind
                    \/ (WaitStep \/ SpuriousWake) /\ UNCHANGED <<wire, responder>>
    PROVE  TypeInv'
<1>0. Main \in Threads /\ thr[Main] \in Position
    BY DEF TypeInv, TypeOK, Threads
<1>1. CASE Reply
    <2>1. [by |-> Main, call |-> thr[Main].call, out |-> thr[Main].out] \in Item
        BY <1>0, <1>1 DEF Reply, Position, ForACall, WithOutcome, Item
    <2>2. pending' \in Seq(Item)
        BY <1>1, <2>1 DEF Reply, Enqueue, TypeInv, TypeOK
    <2>3. thr' \in [Threads -> Position] /\ Handling'
        BY <1>0, <1>1, RestingTyped DEF Reply, TypeInv, TypeOK, Handling, Resting
    <2> QED BY <1>1, <2>2, <2>3 DEF Reply, TypeInv, TypeOK
<1>2. CASE SendExit
    <2>1. [by |-> Main, call |-> NoCall, out |-> "Exit"] \in Item
        BY <1>0 DEF Item
    <2>2. pending' \in Seq(Item)
        BY <1>2, <2>1 DEF SendExit, Enqueue, TypeInv, TypeOK
    <2>3. thr' \in [Threads -> Position] /\ Handling'
        BY <1>2, MainStepTyped DEF SendExit, Places, ForACall
    <2> QED BY <1>2, <2>2, <2>3 DEF SendExit, TypeInv, TypeOK
<1>3. CASE \/ EndOfInput \/ Join \/ Destroy \/ Unwind
           \/ (WaitStep \/ SpuriousWake) /\ UNCHANGED <<wire, responder>>
    <2>1. PICK at \in {"lock", "check", "block", "asleep", "drained", "join", "returned", "destroyed"} :
              thr' = [thr EXCEPT ![Main].at = at]
        BY <1>3 DEF EndOfInput, Join, Destroy, Unwind, WaitStep, WaitLock, WaitCheck, WaitBlock, SpuriousWake
    <2>2. thr' \in [Threads -> Position] /\ Handling'
        BY <2>1, MainStepTyped DEF Places, ForACall
    <2>3. UNCHANGED <<frame, rdone, cdone, rrefs, crefs, inflight, pending, pushed, escaped, lost, wire, responder>>
        BY <1>3 DEF EndOfInput, Join, Destroy, Unwind, WaitStep, WaitLock, WaitCheck, WaitBlock, SpuriousWake
    <2> QED BY <2>2, <2>3 DEF TypeInv, TypeOK
<1> QED BY <1>1, <1>2, <1>3

(* An exception takes a thread to another well-formed position. *)
LEMMA EscapeTyped == TypeInv /\ Escape => TypeInv'
<1> SUFFICES ASSUME TypeInv, Escape PROVE TypeInv'
    OBVIOUS
<1>0. Main \in Threads /\ \A t \in Threads : thr[t] \in Position
    BY DEF TypeInv, TypeOK, Threads
<1>1. ASSUME NEW r \in Requests, NEW f \in Input, InlineEscapes(r, f), UNCHANGED <<wire, responder>>
      PROVE  TypeInv'
    BY <1>1 DEF InlineEscapes, TypeInv, TypeOK, Handling
<1>2. ASSUME NEW t \in Threads, EncodeFails(t), UNCHANGED <<wire, responder>>
      PROVE  TypeInv'
    <2>1. thr' \in [Threads -> Position] /\ Handling'
        <3>1. thr[t].at \in Responding
            BY <1>2 DEF EncodeFails, Responding
        <3> QED BY <1>2, <3>1, ReturnTyped DEF EncodeFails, TypeInv, TypeOK
    <2> QED BY <1>2, <2>1 DEF EncodeFails, TypeInv, TypeOK
<1>3. ASSUME NEW t \in Threads, ErrorFails(t), UNCHANGED <<wire, responder>>
      PROVE  TypeInv'
    <2>1. thr' \in [Threads -> Position] /\ Handling'
        <3>1. thr[t].at \in Responding
            BY <1>3 DEF ErrorFails, Responding
        <3> QED BY <1>3, <3>1, ReturnTyped DEF ErrorFails, TypeInv, TypeOK
    <2>2. thr[t].call \in Requests
        BY <1>0, <1>3 DEF ErrorFails, Position, ForACall
    <2>3. escaped' \in BOOLEAN /\ lost' \subseteq Requests
        BY <1>3, <2>2 DEF ErrorFails, TypeInv, TypeOK
    <2> QED BY <1>3, <2>1, <2>3 DEF ErrorFails, TypeInv, TypeOK
<1>4. CASE HandlerEscapes /\ UNCHANGED <<wire, responder>>
    <2>1. thr[Main].call \in Requests
        BY <1>4 DEF HandlerEscapes, TypeInv, Handling
    <2>2. PICK p \in {"leaveResolver", "leaveContext"} : thr' = [thr EXCEPT ![Main] = Jump(Main, p)]
        BY <1>4 DEF HandlerEscapes
    <2>3. Jump(Main, p) \in Position /\ Jump(Main, p).at # "user"
        BY <1>0, <2>1, JumpTyped DEF Continuations, Jump
    <2> QED BY <1>0, <1>4, <2>2, <2>3 DEF HandlerEscapes, TypeInv, TypeOK, Handling
<1>5. CASE ReadThrows
    BY <1>5 DEF ReadThrows, TypeInv, TypeOK, Handling
<1> QED BY <1>1, <1>2, <1>3, <1>4, <1>5 DEF Escape, CodecFails

LEMMA WriteOutTyped ==
    ASSUME TypeInv, NEW i \in 1..Len(pending), WriteOut(i)
    PROVE  TypeInv'
<1>1. pending \in Seq(Item) /\ pending[i] \in Item
    BY DEF TypeInv, TypeOK
<1>2. pending' \in Seq(Item)
    BY <1>1, RemoveAtProperties DEF WriteOut
<1>3. wire' \in Seq((Requests \cup {NoCall}) \X (Outcomes \cup {"Notification"}))
    <2>1. CASE pending[i].out = "Exit"
        BY <2>1 DEF WriteOut, TypeInv, TypeOK
    <2>2. CASE pending[i].out # "Exit"
        <3>1. <<pending[i].call, pending[i].out>> \in (Requests \cup {NoCall}) \X (Outcomes \cup {"Notification"})
            BY <1>1, <2>2 DEF Item
        <3> DEFINE W == (Requests \cup {NoCall}) \X (Outcomes \cup {"Notification"})
        <3>2. wire \in Seq(W) /\ wire' = Append(wire, <<pending[i].call, pending[i].out>>)
            BY <2>2 DEF WriteOut, TypeInv, TypeOK
        <3> HIDE DEF W
        <3>3. <<pending[i].call, pending[i].out>> \in W
            BY <3>1 DEF W
        <3>4. wire' \in Seq(W)
            BY <3>2, <3>3, AppendProperties
        <3> QED BY <3>4 DEF W
    <2> QED BY <2>1, <2>2
<1> QED BY <1>2, <1>3 DEF WriteOut, TypeInv, TypeOK, Handling

LEMMA InitTyped == Init => TypeInv
<1> SUFFICES ASSUME Init PROVE TypeInv
    OBVIOUS
<1>1. thr \in [Threads -> Position] /\ Handling
    BY RestingTyped DEF Init, SInit, Handling, Resting, Threads
<1>2. pending \in Seq(Item) /\ pushed \in 0..MaxPush
    BY PushAssumption DEF Init, SInit
<1>3. /\ frame \in [Requests -> Input \cup {Unread}]
      /\ rdone \in [Requests -> BOOLEAN] /\ cdone \in [Requests -> BOOLEAN]
      /\ rrefs \in [Requests -> SUBSET Threads]
      /\ crefs \in [Requests -> SUBSET (Threads \cup {Closures})]
    BY DEF Init, SInit
<1>4. escaped = FALSE /\ lost \subseteq Requests
    BY DEF Init, SInit
<1>5. /\ inflight \in Int /\ responder \in {"running", "done"}
      /\ wire \in Seq((Requests \cup {NoCall}) \X (Outcomes \cup {"Notification"}))
    BY EmptySeq DEF Init, SInit
<1> QED BY <1>1, <1>2, <1>3, <1>4, <1>5 DEF TypeInv, TypeOK

LEMMA NextTyped == TypeInv /\ [Next]_vars => TypeInv'
<1> SUFFICES ASSUME TypeInv, [Next]_vars PROVE TypeInv'
    OBVIOUS
<1>1. ASSUME NEW w \in Workers, NEW r \in Requests, CopyHandle(w, r), UNCHANGED <<wire, responder>>
      PROVE  TypeInv'
    <2>1. /\ rrefs' \in [Requests -> SUBSET Threads]
          /\ crefs' \in [Requests -> SUBSET (Threads \cup {Closures})]
        <3>1. /\ rrefs \in [Requests -> SUBSET Threads]
              /\ crefs \in [Requests -> SUBSET (Threads \cup {Closures})]
            BY DEF TypeInv, TypeOK
        <3>2. CASE rrefs' = [rrefs EXCEPT ![r] = @ \cup {w}] /\ UNCHANGED crefs
            BY <3>1, <3>2 DEF Threads
        <3>3. CASE crefs' = [crefs EXCEPT ![r] = @ \cup {w}] /\ UNCHANGED rrefs
            BY <3>1, <3>3 DEF Threads
        <3> QED BY <1>1, <3>2, <3>3 DEF CopyHandle
    <2> QED BY <1>1, <2>1 DEF CopyHandle, TypeInv, TypeOK, Handling
<1>2. ASSUME NEW w \in Workers, NEW r \in Requests, Drop(w, r), UNCHANGED <<wire, responder>>
      PROVE  TypeInv'
    <2>1. w \in Threads /\ w # Main
        BY ThreadAssumption DEF Threads
    <2> QED BY <1>2, <2>1, DropResolverTyped, DropContextTyped DEF Drop
<1>3. ASSUME UNCHANGED vars PROVE TypeInv'
    BY <1>3 DEF vars, TypeInv, TypeOK, Handling
<1> QED BY <1>1, <1>2, <1>3, StepCases, DispatchTyped, FireTyped, LibraryStepTyped,
           HandlerStepTyped, TransportStepTyped, EscapeTyped, WriteOutTyped

(* Every state of the server is typed: no thread is ever inside the library   *)
(* without the call, and before the enqueue without the outcome, that the     *)
(* code it runs uses.                                                         *)
THEOREM Typing == Spec => []TypeOK
<1>1. Spec => []TypeInv
    BY InitTyped, NextTyped, PTL DEF Spec
<1>2. TypeInv => TypeOK
    BY DEF TypeInv
<1> QED BY <1>1, <1>2, PTL

-----------------------------------------------------------------------------
(* At most one answer.                                                        *)

(* Nothing carries an answer to r. *)
NoCarrier(r) == /\ \A t \in Threads : ~Holding(t, r)
                /\ \A i \in 1..Len(pending) : pending[i].call # r
                /\ \A i \in 1..Len(wire) : wire[i][1] # r

(* AtMostOneAnswer(r), place by place. *)
OneCarrier(r) ==
    /\ \A t, u \in Threads : Holding(t, r) /\ Holding(u, r) => t = u
    /\ \A i, j \in 1..Len(pending) : pending[i].call = r /\ pending[j].call = r => i = j
    /\ \A i, j \in 1..Len(wire) : wire[i][1] = r /\ wire[j][1] = r => i = j
    /\ \A t \in Threads, i \in 1..Len(pending) : ~(Holding(t, r) /\ pending[i].call = r)
    /\ \A t \in Threads, i \in 1..Len(wire) : ~(Holding(t, r) /\ wire[i][1] = r)
    /\ \A i \in 1..Len(pending), j \in 1..Len(wire) : ~(pending[i].call = r /\ wire[j][1] = r)

(* A request nobody has claimed yet: not read, or an async call whose context *)
(* has its once-flag clear.                                                   *)
Unclaimed(r) == frame[r] = Unread \/ (frame[r] \in AsyncFrames /\ ~cdone[r])

(* Where a thread works on an async call inside the library. *)
Claiming == ForACall \ {"reply"}

OnceInv ==
    /\ \A r \in Requests : rrefs[r] # {} \/ crefs[r] # {} => frame[r] \in AsyncFrames
    /\ \A t \in Threads : thr[t].at \in Claiming => frame[thr[t].call] \in AsyncFrames
    /\ thr[Main].at = "user" => frame[thr[Main].call] \in AsyncFrames
    /\ \A r \in Requests : Unclaimed(r) => NoCarrier(r)
    /\ \A r \in Requests : OneCarrier(r)

LEMMA OneCarrierMeansOneAnswer == (\A r \in Requests : OneCarrier(r)) => AtMostOneAnswer
<1> SUFFICES ASSUME NEW r \in Requests, OneCarrier(r), NEW a \in Carriers(r), NEW b \in Carriers(r)
             PROVE  a = b
    BY DEF AtMostOneAnswer
<1>1. \/ \E t \in Threads : a = <<"thread", t>> /\ Holding(t, r)
      \/ \E i \in 1..Len(pending) : a = <<"queue", i>> /\ pending[i].call = r
      \/ \E i \in 1..Len(wire) : a = <<"wire", i>> /\ wire[i][1] = r
    BY DEF Carriers
<1>2. \/ \E t \in Threads : b = <<"thread", t>> /\ Holding(t, r)
      \/ \E i \in 1..Len(pending) : b = <<"queue", i>> /\ pending[i].call = r
      \/ \E i \in 1..Len(wire) : b = <<"wire", i>> /\ wire[i][1] = r
    BY DEF Carriers
<1> QED BY <1>1, <1>2 DEF OneCarrier

(* A step that enqueues and writes nothing keeps "at most one carrier" if the *)
(* only thread that comes to hold an answer holds one to a call that had no   *)
(* carrier and is now claimed.                                                *)
LEMMA ClaimStep ==
    ASSUME OnceInv, UNCHANGED <<pending, wire>>, NEW t0, NEW r0,
           \A t \in Threads, r \in Requests :
               Holding(t, r)' => Holding(t, r) \/ (t = t0 /\ r = r0 /\ NoCarrier(r0) /\ ~Unclaimed(r0)'),
           \A r \in Requests : Unclaimed(r)' => Unclaimed(r)
    PROVE  /\ \A r \in Requests : Unclaimed(r)' => NoCarrier(r)'
           /\ \A r \in Requests : OneCarrier(r)'
<1>1. ASSUME NEW r \in Requests, Unclaimed(r)' PROVE NoCarrier(r)'
    BY <1>1 DEF OnceInv, NoCarrier
<1>2. ASSUME NEW r \in Requests PROVE OneCarrier(r)'
    BY DEF OnceInv, NoCarrier, OneCarrier
<1> QED BY <1>1, <1>2

(* A step that moves the answer a thread holds to the queue. *)
LEMMA EnqueueStep ==
    ASSUME TypeInv, OnceInv, UNCHANGED <<frame, cdone, wire>>, NEW t0 \in Threads, NEW o,
           thr[t0].at \in {"reply", "send"},
           pending' = Append(pending, [by |-> t0, call |-> thr[t0].call, out |-> o]),
           \A r \in Requests : ~Holding(t0, r)',
           \A t \in Threads \ {t0} : thr'[t] = thr[t]
    PROVE  /\ \A r \in Requests : Unclaimed(r)' => NoCarrier(r)'
           /\ \A r \in Requests : OneCarrier(r)'
<1>0. pending \in Seq(Item) /\ Len(pending) \in Nat
    BY DEF TypeInv, TypeOK
<1>1. /\ Len(pending') = Len(pending) + 1
      /\ \A i \in 1..Len(pending) : pending'[i] = pending[i]
      /\ pending'[Len(pending) + 1] = [by |-> t0, call |-> thr[t0].call, out |-> o]
    BY <1>0
<1>2. \A i \in 1..Len(pending)' : i \in 1..Len(pending) \/ i = Len(pending) + 1
    BY <1>0, <1>1
<1>3. \A t \in Threads, r \in Requests : Holding(t, r)' => t # t0 /\ Holding(t, r)
    BY DEF Holding
<1>4. ASSUME NEW r \in Requests, Unclaimed(r)' PROVE NoCarrier(r)'
    <2>1. NoCarrier(r) /\ ~Holding(t0, r)
        BY <1>4 DEF OnceInv, Unclaimed, NoCarrier
    <2>2. thr[t0].call # r
        BY <2>1 DEF Holding
    <2> QED BY <1>1, <1>2, <1>3, <2>1, <2>2 DEF NoCarrier
<1>5. ASSUME NEW r \in Requests PROVE OneCarrier(r)'
    <2>1. CASE thr[t0].call = r
        <3>1. Holding(t0, r)
            BY <2>1 DEF Holding
        <3>2. /\ \A t \in Threads : ~Holding(t, r)'
              /\ \A i \in 1..Len(pending) : pending[i].call # r
              /\ \A i \in 1..Len(wire) : wire[i][1] # r
            BY <1>3, <3>1 DEF OnceInv, OneCarrier
        <3> QED BY <1>1, <1>2, <3>2 DEF OneCarrier
    <2>2. CASE thr[t0].call # r
        <3>1. \A i \in 1..Len(pending)' : pending'[i].call = r => i \in 1..Len(pending) /\ pending[i].call = r
            BY <1>1, <1>2, <2>2
        <3> QED BY <1>3, <3>1 DEF OnceInv, OneCarrier
    <2> QED BY <2>1, <2>2
<1> QED BY <1>4, <1>5

(* A step that claims nothing and moves nothing. *)
LEMMA QuietStep ==
    ASSUME OnceInv, UNCHANGED <<pending, wire>>,
           \A t \in Threads, r \in Requests : Holding(t, r)' => Holding(t, r),
           \A r \in Requests : Unclaimed(r)' => Unclaimed(r)
    PROVE  /\ \A r \in Requests : Unclaimed(r)' => NoCarrier(r)'
           /\ \A r \in Requests : OneCarrier(r)'
BY ClaimStep

LEMMA DispatchOnce ==
    ASSUME TypeInv, OnceInv, NEW r \in Requests, NEW f \in Input,
           ProcessInline(r, f) \/ DispatchAsync(r, f), UNCHANGED <<wire, responder>>
    PROVE  OnceInv'
<1>0. /\ Unread \notin AsyncFrames /\ AsyncFrames \subseteq Input /\ f # Unread
      /\ frame[r] = Unread /\ frame' = [frame EXCEPT ![r] = f] /\ thr[Main].at = "idle"
      /\ \A q \in Requests \ {r} : frame'[q] = frame[q]
      /\ frame'[r] = f
    BY FrameAssumption DEF AsyncFrames, SyncFrames, Routed, ProcessInline, DispatchAsync, TypeInv, TypeOK
<1>1. rrefs[r] = {} /\ crefs[r] = {} /\ NoCarrier(r)
    BY <1>0 DEF OnceInv, Unclaimed
<1>2. \A t \in Threads : thr[t].at \in Claiming => thr[t].call # r
    BY <1>0 DEF OnceInv
<1>3. CASE ProcessInline(r, f)
    <2>1. PICK o : thr' = [thr EXCEPT ![Main] = [at |-> "reply", call |-> r, out |-> o, then |-> Nowhere]]
        BY <1>3 DEF ProcessInline, Enter
    <2>2. \A t \in Threads, q \in Requests : Holding(t, q)' => Holding(t, q) \/ (t = Main /\ q = r)
        BY <2>1 DEF Holding, TypeInv, TypeOK
    <2>3. ~Unclaimed(r)' /\ \A q \in Requests : Unclaimed(q)' => Unclaimed(q)
        BY <1>0, <1>3 DEF ProcessInline, Unclaimed
    <2>4. UNCHANGED <<pending, wire, rrefs, crefs>>
        BY <1>3 DEF ProcessInline
    <2>5. /\ \A q \in Requests : Unclaimed(q)' => NoCarrier(q)'
          /\ \A q \in Requests : OneCarrier(q)'
        BY <1>1, <2>2, <2>3, <2>4, ClaimStep
    <2>6. \A t \in Threads : thr'[t].at \in Claiming => thr'[t] = thr[t]
        BY <2>1 DEF Claiming, ForACall, TypeInv, TypeOK
    <2>7. thr'[Main].at = "reply"
        BY <2>1 DEF TypeInv, TypeOK, Threads
    <2>8. \A t \in Threads : thr'[t].at \in Claiming => frame'[thr'[t].call] \in AsyncFrames
        BY <1>0, <1>2, <2>6 DEF OnceInv, TypeInv, TypeOK, Position, Claiming, ForACall
    <2>9. \A q \in Requests : rrefs'[q] # {} \/ crefs'[q] # {} => frame'[q] \in AsyncFrames
        BY <1>0, <1>1, <2>4 DEF OnceInv
    <2> QED BY <2>5, <2>7, <2>8, <2>9 DEF OnceInv
<1>4. CASE DispatchAsync(r, f)
    <2>0. PICK at \in {"claim", "user"} : \E o, next : Enter(Main, at, r, o, next)
        <3>1. \/ Enter(Main, "claim", r, "InvalidParams", "leaveContext")
              \/ Enter(Main, "user", r, NoOutcome, Nowhere)
            BY <1>4 DEF DispatchAsync
        <3> QED BY <3>1, Zenon
    <2>00. PICK o, next : Enter(Main, at, r, o, next)
        BY <2>0
    <2> DEFINE p == [at |-> at, call |-> r, out |-> o, then |-> next]
    <2>1. thr' = [thr EXCEPT ![Main] = p] /\ p.at \in {"claim", "user"} /\ p.call = r
        BY <2>0, <2>00 DEF Enter
    <2> HIDE DEF p
    <2>2. \A t \in Threads, q \in Requests : Holding(t, q)' => Holding(t, q)
        BY <2>1 DEF Holding, TypeInv, TypeOK
    <2>3. \A q \in Requests : Unclaimed(q)' => Unclaimed(q)
        BY <1>0, <1>4 DEF DispatchAsync, Unclaimed
    <2>4. UNCHANGED <<pending, wire>> /\ f \in AsyncFrames
        BY <1>4 DEF DispatchAsync
    <2>5. /\ \A q \in Requests : Unclaimed(q)' => NoCarrier(q)'
          /\ \A q \in Requests : OneCarrier(q)'
        BY <2>2, <2>3, <2>4, QuietStep
    <2>6. \A t \in Threads : thr'[t] = thr[t] \/ (t = Main /\ thr'[t] = p)
        BY <2>1 DEF TypeInv, TypeOK
    <2>7. thr'[Main] = p
        BY <2>1 DEF TypeInv, TypeOK, Threads
    <2>8. \A t \in Threads : thr'[t].at \in Claiming => frame'[thr'[t].call] \in AsyncFrames
        BY <1>0, <1>2, <2>1, <2>4, <2>6 DEF OnceInv, TypeInv, TypeOK, Position, Claiming, ForACall
    <2>9. \A q \in Requests : rrefs'[q] # {} \/ crefs'[q] # {} => frame'[q] \in AsyncFrames
        <3>1. \A q \in Requests \ {r} : rrefs'[q] = rrefs[q] /\ crefs'[q] = crefs[q]
            BY <1>4 DEF DispatchAsync, TypeInv, TypeOK
        <3> QED BY <1>0, <2>4, <3>1 DEF OnceInv
    <2>10. frame'[thr'[Main].call] \in AsyncFrames
        BY <1>0, <2>1, <2>4, <2>7
    <2> QED BY <2>5, <2>8, <2>9, <2>10 DEF OnceInv
<1> QED BY <1>3, <1>4

(* A step of thread t on an async call r that reads no frame: enough to say   *)
(* where t goes and that references only go away.                             *)
LEMMA CallStep ==
    ASSUME TypeInv, OnceInv, UNCHANGED frame, NEW t \in Threads, NEW p,
           thr' = [thr EXCEPT ![t] = p],
           p.at \in Claiming \/ (t = Main /\ p.at = "user") => frame[p.call] \in AsyncFrames,
           \A q \in Requests : rrefs'[q] \subseteq rrefs[q] /\ crefs'[q] \subseteq crefs[q],
           \A q \in Requests : Unclaimed(q)' => NoCarrier(q)',
           \A q \in Requests : OneCarrier(q)'
    PROVE  OnceInv'
<1>1. \A u \in Threads : thr'[u] = IF u = t THEN p ELSE thr[u]
    BY DEF TypeInv, TypeOK
<1>2. \A u \in Threads : thr'[u].at \in Claiming => frame'[thr'[u].call] \in AsyncFrames
    BY <1>1 DEF OnceInv
<1>3. thr'[Main].at = "user" => frame'[thr'[Main].call] \in AsyncFrames
    BY <1>1 DEF OnceInv, Threads
<1>4. \A q \in Requests : rrefs'[q] # {} \/ crefs'[q] # {} => frame'[q] \in AsyncFrames
    <2> SUFFICES ASSUME NEW q \in Requests, rrefs'[q] # {} \/ crefs'[q] # {}
                 PROVE  frame[q] \in AsyncFrames
        OBVIOUS
    <2>1. rrefs[q] # {} \/ crefs[q] # {}
        OBVIOUS
    <2> QED BY <2>1 DEF OnceInv
<1> QED BY <1>2, <1>3, <1>4 DEF OnceInv

LEMMA DropContextOnce ==
    ASSUME TypeInv, OnceInv, NEW t \in Threads, NEW r \in Requests, frame[r] \in AsyncFrames, NEW ref,
           NEW after \in {"user", "leaveContext", "idle"},
           ~(thr[t].at \in {"reply", "send"}),
           after = "leaveContext" => frame[thr[t].call] \in AsyncFrames,
           after = "user" => t # Main,
           DropContext(t, r, ref, after), UNCHANGED <<wire, responder>>
    PROVE  OnceInv'
<1>0. /\ UNCHANGED <<frame, pending, wire>>
      /\ \A q \in Requests : rrefs'[q] \subseteq rrefs[q] /\ crefs'[q] \subseteq crefs[q]
      /\ frame[r] \in AsyncFrames
    BY DEF DropContext, TypeInv, TypeOK, OnceInv
<1>1. \A q \in Requests : Unclaimed(q)' => Unclaimed(q)
    BY DEF DropContext, Unclaimed, TypeInv, TypeOK
<1>2. CASE thr' = [thr EXCEPT ![t] = Jump(t, after)]
    <2>1. /\ Jump(t, after).at \notin {"reply", "send"}
          /\ ~(t = Main /\ Jump(t, after).at = "user")
          /\ Jump(t, after).at \in Claiming => frame[Jump(t, after).call] \in AsyncFrames
        BY DEF Jump, Resting, Claiming, ForACall
    <2>2. \A u \in Threads, q \in Requests : Holding(u, q)' => Holding(u, q)
        BY <1>2, <2>1 DEF Holding, TypeInv, TypeOK
    <2> QED BY <1>0, <1>1, <1>2, <2>1, <2>2, QuietStep, CallStep
<1>3. CASE Enter(t, "complete", r, NoOutcome, Nowhere)
    <2>1. \A u \in Threads, q \in Requests : Holding(u, q)' => Holding(u, q)
        BY <1>3 DEF Enter, Holding, TypeInv, TypeOK
    <2>2. /\ \A q \in Requests : Unclaimed(q)' => NoCarrier(q)'
          /\ \A q \in Requests : OneCarrier(q)'
        BY <1>0, <1>1, <2>1, QuietStep
    <2> QED BY <1>0, <1>3, <2>2, CallStep DEF Enter, Claiming, ForACall
<1>4. CASE /\ ~cdone[r] /\ cdone' = [cdone EXCEPT ![r] = TRUE]
           /\ Enter(t, "send", r, "Abandoned", "complete")
    <2>1. \A u \in Threads, q \in Requests : Holding(u, q)' => Holding(u, q) \/ (u = t /\ q = r)
        BY <1>4 DEF Enter, Holding, TypeInv, TypeOK
    <2>2. NoCarrier(r) /\ ~Unclaimed(r)'
        BY <1>0, <1>4, FrameAssumption
        DEF OnceInv, Unclaimed, TypeInv, TypeOK, AsyncFrames, SyncFrames, Routed
    <2>3. /\ \A q \in Requests : Unclaimed(q)' => NoCarrier(q)'
          /\ \A q \in Requests : OneCarrier(q)'
        BY <1>0, <1>1, <2>1, <2>2, ClaimStep
    <2> QED BY <1>0, <1>4, <2>3, CallStep DEF Enter, Claiming, ForACall
<1> QED BY <1>2, <1>3, <1>4 DEF DropContext

LEMMA DropResolverOnce ==
    ASSUME TypeInv, OnceInv, NEW t \in Threads, NEW r \in Requests, frame[r] \in AsyncFrames,
           NEW after \in {"user", "leaveContext"},
           ~(thr[t].at \in {"reply", "send"}),
           after = "leaveContext" => frame[thr[t].call] \in AsyncFrames,
           after = "user" => t # Main,
           DropResolver(t, r, after), UNCHANGED <<wire, responder>>
    PROVE  OnceInv'
<1>0. /\ UNCHANGED <<frame, cdone, pending, wire>>
      /\ \A q \in Requests : rrefs'[q] \subseteq rrefs[q] /\ crefs'[q] \subseteq crefs[q]
      /\ frame[r] \in AsyncFrames
    BY DEF DropResolver, TypeInv, TypeOK, OnceInv
<1>1. \A q \in Requests : Unclaimed(q)' => Unclaimed(q)
    BY <1>0 DEF Unclaimed
<1>2. PICK p : /\ thr' = [thr EXCEPT ![t] = p]
               /\ p.at \notin {"reply", "send"}
               /\ ~(t = Main /\ p.at = "user")
               /\ p.at \in Claiming => frame[p.call] \in AsyncFrames
    <2>1. CASE thr' = [thr EXCEPT ![t] = Jump(t, after)]
        <3>1. /\ Jump(t, after).at \notin {"reply", "send"}
              /\ ~(t = Main /\ Jump(t, after).at = "user")
              /\ Jump(t, after).at \in Claiming => frame[Jump(t, after).call] \in AsyncFrames
            BY DEF Jump, Resting, Claiming, ForACall
        <3> QED BY <2>1, <3>1
    <2>2. CASE Enter(t, "release", r, NoOutcome, Nowhere)
        <3> DEFINE e == [at |-> "release", call |-> r, out |-> NoOutcome, then |-> Nowhere]
        <3>1. thr' = [thr EXCEPT ![t] = e] /\ e.at = "release" /\ e.call = r
            BY <2>2 DEF Enter
        <3> HIDE DEF e
        <3> QED BY <1>0, <3>1
    <2>3. CASE Enter(t, "claim", r, "Abandoned", "release")
        <3> DEFINE e == [at |-> "claim", call |-> r, out |-> "Abandoned", then |-> "release"]
        <3>1. thr' = [thr EXCEPT ![t] = e] /\ e.at = "claim" /\ e.call = r
            BY <2>3 DEF Enter
        <3> HIDE DEF e
        <3> QED BY <1>0, <3>1
    <2> QED BY <2>1, <2>2, <2>3 DEF DropResolver
<1>3. \A u \in Threads, q \in Requests : Holding(u, q)' => Holding(u, q)
    BY <1>2 DEF Holding, TypeInv, TypeOK
<1>4. /\ \A q \in Requests : Unclaimed(q)' => NoCarrier(q)'
      /\ \A q \in Requests : OneCarrier(q)'
    BY <1>0, <1>1, <1>3, QuietStep
<1> QED BY <1>0, <1>2, <1>4, CallStep

(* A step of thread t to p, on an async call: it comes to hold an answer only *)
(* by claiming a call that had none.                                          *)
LEMMA MoveOnce ==
    ASSUME TypeInv, OnceInv, UNCHANGED <<frame, pending, wire>>, NEW t \in Threads, NEW p,
           thr' = [thr EXCEPT ![t] = p],
           p.at # "reply",
           p.at \in Claiming \/ (t = Main /\ p.at = "user") => frame[p.call] \in AsyncFrames,
           p.at = "send" => NoCarrier(p.call) /\ ~Unclaimed(p.call)',
           \A q \in Requests : rrefs'[q] \subseteq rrefs[q] /\ crefs'[q] \subseteq crefs[q],
           \A q \in Requests : Unclaimed(q)' => Unclaimed(q)
    PROVE  OnceInv'
<1>1. \A u \in Threads, q \in Requests :
          Holding(u, q)' => Holding(u, q) \/ (u = t /\ q = p.call /\ p.at = "send")
    BY DEF Holding, TypeInv, TypeOK
<1>2. /\ \A q \in Requests : Unclaimed(q)' => NoCarrier(q)'
      /\ \A q \in Requests : OneCarrier(q)'
    <2>1. CASE p.at = "send"
        <3>1. NoCarrier(p.call) /\ ~Unclaimed(p.call)'
            BY <2>1
        <3> DEFINE c == p.call
        <3>2. \A u \in Threads, q \in Requests :
                  Holding(u, q)' => Holding(u, q) \/ (u = t /\ q = c /\ NoCarrier(c) /\ ~Unclaimed(c)')
            BY <1>1, <3>1
        <3> HIDE DEF c
        <3> QED BY <3>2, ClaimStep
    <2>2. CASE p.at # "send"
        BY <1>1, <2>2, QuietStep
    <2> QED BY <2>1, <2>2
<1> QED BY <1>2, CallStep

(* Nothing but its flag keeps an async call from being claimed. *)
LEMMA ClearFlag ==
    ASSUME TypeInv, OnceInv, NEW r \in Requests, frame[r] \in AsyncFrames, ~cdone[r]
    PROVE  NoCarrier(r)
BY DEF OnceInv, Unclaimed

LEMMA SetFlag ==
    ASSUME TypeInv, UNCHANGED frame, NEW r \in Requests, frame[r] \in AsyncFrames,
           cdone' = [cdone EXCEPT ![r] = TRUE]
    PROVE  ~Unclaimed(r)' /\ \A q \in Requests : Unclaimed(q)' => Unclaimed(q)
<1>1. frame[r] # Unread
    BY FrameAssumption DEF AsyncFrames, SyncFrames, Routed
<1> QED BY <1>1 DEF Unclaimed, TypeInv, TypeOK

(* User code fires or answers a call. *)
LEMMA FireOnce ==
    ASSUME TypeInv, OnceInv, NEW t \in Threads, NEW r \in Requests, NEW o,
           Fire(t, r, o) \/ Respond(t, r, o), UNCHANGED <<wire, responder>>
    PROVE  OnceInv'
<1>0. frame[r] \in AsyncFrames /\ UNCHANGED <<frame, rrefs, crefs, pending, wire>>
    BY DEF Fire, Respond, IsRaw, OnceInv
<1>1. CASE Fire(t, r, o)
    <2> DEFINE p == [at |-> IF o = "Result" THEN "encode" ELSE "claim", call |-> r, out |-> o, then |-> "user"]
    <2>1. thr' = [thr EXCEPT ![t] = p] /\ p.at \in {"encode", "claim"} /\ p.call = r /\ UNCHANGED cdone
        BY <1>1 DEF Fire, Enter
    <2>2. \A q \in Requests : Unclaimed(q)' => Unclaimed(q)
        BY <1>0, <2>1 DEF Unclaimed
    <2> HIDE DEF p
    <2> QED BY <1>0, <2>1, <2>2, MoveOnce
<1>2. CASE Respond(t, r, o)
    <2> DEFINE p == [at |-> "send", call |-> r, out |-> o, then |-> "user"]
    <2>1. /\ thr' = [thr EXCEPT ![t] = p] /\ p.at = "send" /\ p.call = r
          /\ ~cdone[r] /\ cdone' = [cdone EXCEPT ![r] = TRUE]
        BY <1>2 DEF Respond, Enter
    <2> HIDE DEF p
    <2>2. NoCarrier(r)
        BY <1>0, <2>1, ClearFlag
    <2>3. ~Unclaimed(r)' /\ \A q \in Requests : Unclaimed(q)' => Unclaimed(q)
        BY <1>0, <2>1, SetFlag
    <2> QED BY <1>0, <2>1, <2>2, <2>3, MoveOnce
<1> QED BY <1>1, <1>2

(* A handle is copied or let go. *)
LEMMA HandleOnce ==
    ASSUME TypeInv, OnceInv, NEW w \in Workers, NEW r \in Requests,
           CopyHandle(w, r) \/ Drop(w, r), UNCHANGED <<wire, responder>>
    PROVE  OnceInv'
<1>0. frame[r] \in AsyncFrames
    BY DEF CopyHandle, Drop, IsTyped, IsRaw, TypedFrames, OnceInv
<1>1. CASE CopyHandle(w, r)
    <2>1. UNCHANGED <<frame, cdone, thr, pending, wire>>
        BY <1>1 DEF CopyHandle
    <2>2. \A q \in Requests : (rrefs'[q] # {} \/ crefs'[q] # {}) => (rrefs[q] # {} \/ crefs[q] # {} \/ q = r)
        BY <1>1 DEF CopyHandle, TypeInv, TypeOK
    <2>3. /\ \A q \in Requests : Unclaimed(q)' => NoCarrier(q)'
          /\ \A q \in Requests : OneCarrier(q)'
        <3>1. \A q \in Requests : Unclaimed(q)' => Unclaimed(q)
            BY <2>1 DEF Unclaimed
        <3>2. \A u \in Threads, q \in Requests : Holding(u, q)' => Holding(u, q)
            BY <2>1 DEF Holding
        <3> QED BY <2>1, <3>1, <3>2, QuietStep
    <2> QED BY <1>0, <2>1, <2>2, <2>3 DEF OnceInv
<1>2. CASE Drop(w, r)
    <2>1. w \in Threads /\ w # Main /\ ~(thr[w].at \in {"reply", "send"})
        BY <1>2, ThreadAssumption DEF Drop, Threads
    <2>2. DropResolver(w, r, "user") \/ DropContext(w, r, w, "user")
        BY <1>2 DEF Drop
    <2> QED BY <1>0, <2>1, <2>2, DropResolverOnce, DropContextOnce
<1> QED BY <1>1, <1>2


(* Going on within a call holds no answer and stays on the async call. *)
LEMMA JumpOnce ==
    ASSUME NEW t \in Threads, frame[thr[t].call] \in AsyncFrames,
           NEW place \in Continuations \cup {"notify", "idle"}
    PROVE  /\ Jump(t, place).at \notin {"reply", "send"}
           /\ Jump(t, place).at \in Claiming \/ (t = Main /\ Jump(t, place).at = "user")
                 => frame[Jump(t, place).call] \in AsyncFrames
BY DEF Jump, Resting, Claiming, ForACall, Continuations

LEMMA LibraryStepOnce ==
    ASSUME TypeInv, OnceInv, NEW t \in Threads, LibraryStep(t), UNCHANGED <<wire, responder>>
    PROVE  OnceInv'
<1> DEFINE r == thr[t].call
<1>0. /\ thr[t].at \in Claiming /\ frame[r] \in AsyncFrames /\ r \in Requests
      /\ thr[t].at = "send" => thr[t].then \in Continuations
      /\ thr[t].at = "claim" => thr[t].then \in Continuations
    BY DEF LibraryStep, Encode, Claim, Send, Release, Complete, Notify, NotifyUnlocked,
           OnceInv, Claiming, ForACall, TypeInv, TypeOK, Position, Responding
<1>1. CASE Encode(t)
    <2>1. /\ UNCHANGED <<frame, cdone, rrefs, crefs, pending, wire>>
          /\ \A q \in Requests : Unclaimed(q)' => Unclaimed(q)
        BY <1>1 DEF Encode, Unclaimed
    <2> DEFINE p == [thr[t] EXCEPT !.at = "claim"]
    <2>2. thr' = [thr EXCEPT ![t] = p] /\ p.at = "claim" /\ p.call = r
        BY <1>1 DEF Encode, TypeInv, TypeOK, Position
    <2> HIDE DEF p
    <2> QED BY <1>0, <2>1, <2>2, MoveOnce
<1>2. CASE Claim(t)
    <2>1. UNCHANGED <<frame, rrefs, crefs, pending, wire>> /\ thr[t].at = "claim"
        BY <1>2 DEF Claim
    <2>2. CASE cdone[r]
        <3>1. thr' = [thr EXCEPT ![t] = Jump(t, thr[t].then)] /\ UNCHANGED cdone
            BY <1>2, <2>2 DEF Claim
        <3>2. \A q \in Requests : Unclaimed(q)' => Unclaimed(q)
            BY <2>1, <3>1 DEF Unclaimed
        <3> QED BY <1>0, <2>1, <3>1, <3>2, JumpOnce, MoveOnce
    <2>3. CASE ~cdone[r]
        <3>1. PICK c \in Requests : c = thr[t].call
            BY <1>0
        <3> DEFINE p == [thr[t] EXCEPT !.at = "send"]
        <3>2. /\ frame[c] \in AsyncFrames /\ ~cdone[c] /\ cdone' = [cdone EXCEPT ![c] = TRUE]
              /\ thr' = [thr EXCEPT ![t] = p] /\ p.at = "send" /\ p.call = c
            BY <1>0, <1>2, <2>3, <3>1 DEF Claim, TypeInv, TypeOK, Position
        <3>3. NoCarrier(c)
            BY <3>2, ClearFlag
        <3>4. ~Unclaimed(c)' /\ \A q \in Requests : Unclaimed(q)' => Unclaimed(q)
            BY <2>1, <3>2, SetFlag
        <3> HIDE DEF p
        <3> QED BY <2>1, <3>2, <3>3, <3>4, MoveOnce
    <2> QED BY <2>2, <2>3
<1>3. CASE Send(t)
    <2> DEFINE p == Jump(t, thr[t].then)
    <2>1. /\ UNCHANGED <<frame, cdone, rrefs, crefs, wire>> /\ thr[t].at = "send"
          /\ pending' = Append(pending, [by |-> t, call |-> r, out |-> thr[t].out])
          /\ thr' = [thr EXCEPT ![t] = p]
        BY <1>3 DEF Send, Enqueue
    <2>2. /\ p.at \notin {"reply", "send"}
          /\ p.at \in Claiming \/ (t = Main /\ p.at = "user") => frame[p.call] \in AsyncFrames
        BY <1>0, <2>1, JumpOnce
    <2>3. \A u \in Threads : thr'[u] = IF u = t THEN p ELSE thr[u]
        BY <2>1 DEF TypeInv, TypeOK
    <2>4. \A q \in Requests : ~Holding(t, q)'
        BY <2>2, <2>3 DEF Holding
    <2> HIDE DEF p
    <2>5. /\ \A q \in Requests : Unclaimed(q)' => NoCarrier(q)'
          /\ \A q \in Requests : OneCarrier(q)'
        <3>1. \A u \in Threads \ {t} : thr'[u] = thr[u]
            BY <2>3
        <3> QED BY <2>1, <2>4, <3>1, EnqueueStep
    <2> QED BY <2>1, <2>2, <2>5, CallStep
<1>4. CASE Release(t)
    <2>1. ~(thr[t].at \in {"reply", "send"})
        BY <1>4 DEF Release
    <2>2. CASE t = Main
        <3>1. DropContext(t, r, Closures, "leaveContext")
            BY <1>4, <2>2 DEF Release
        <3> QED BY <1>0, <2>1, <3>1, DropContextOnce
    <2>3. CASE t # Main
        <3>1. DropContext(t, r, Closures, "user")
            BY <1>4, <2>3 DEF Release
        <3> QED BY <1>0, <2>1, <2>3, <3>1, DropContextOnce
    <2> QED BY <2>2, <2>3
<1>5. CASE Complete(t)
    <2>1. /\ UNCHANGED <<frame, cdone, rrefs, crefs, pending, wire>>
          /\ \A q \in Requests : Unclaimed(q)' => Unclaimed(q)
        BY <1>5 DEF Complete, Unclaimed
    <2>2. CASE thr' = [thr EXCEPT ![t] = Jump(t, "notify")]
        BY <1>0, <2>1, <2>2, JumpOnce, MoveOnce
    <2>3. CASE thr' = [thr EXCEPT ![t] = Resting(t)]
        <3>1. /\ Resting(t).at \notin {"reply", "send"} /\ Resting(t).at \notin Claiming
              /\ ~(t = Main /\ Resting(t).at = "user")
            BY DEF Resting, Claiming, ForACall
        <3> QED BY <2>1, <2>3, <3>1, MoveOnce
    <2> QED BY <1>5, <2>2, <2>3 DEF Complete
<1>6. CASE Notify(t)
    <2>1. UNCHANGED <<frame, cdone, rrefs, crefs, pending, wire>>
        BY <1>6 DEF Notify, NotifyUnlocked
    <2>2. \A u \in Threads :
             /\ thr'[u].at \notin Claiming \cup {"reply"} \/ thr'[u] = thr[u]
             /\ u = Main => thr'[u].at # "user" \/ thr'[u] = thr[u]
        BY <1>6 DEF Notify, NotifyUnlocked, Wake, Resting, Claiming, ForACall, TypeInv, TypeOK, Position
    <2>3. \A u \in Threads, q \in Requests : Holding(u, q)' => Holding(u, q)
        BY <2>2 DEF Holding, Claiming, ForACall
    <2>4. \A q \in Requests : Unclaimed(q)' => Unclaimed(q)
        BY <2>1 DEF Unclaimed
    <2>5. /\ \A q \in Requests : Unclaimed(q)' => NoCarrier(q)'
          /\ \A q \in Requests : OneCarrier(q)'
        BY <2>1, <2>3, <2>4, QuietStep
    <2>6. \A u \in Threads : thr'[u].at \in Claiming => frame'[thr'[u].call] \in AsyncFrames
        BY <2>1, <2>2 DEF OnceInv
    <2>7. thr'[Main].at = "user" => frame'[thr'[Main].call] \in AsyncFrames
        BY <2>1, <2>2 DEF OnceInv, Threads
    <2> QED BY <2>1, <2>5, <2>6, <2>7 DEF OnceInv
<1> QED BY <1>1, <1>2, <1>3, <1>4, <1>5, <1>6 DEF LibraryStep


(* The handler on Main returns or throws, and its frame is unwound. *)
LEMMA HandlerOnce ==
    ASSUME TypeInv, OnceInv, HandlerReturn \/ HandlerThrow \/ LeaveResolver \/ LeaveContext,
           UNCHANGED <<wire, responder>>
    PROVE  OnceInv'
<1>0. PICK r \in Requests : r = thr[Main].call /\ frame[r] \in AsyncFrames
    BY DEF HandlerReturn, HandlerThrow, LeaveResolver, LeaveContext, TypeInv, Handling, TypeOK,
           Position, ForACall, Threads, OnceInv, Claiming
<1>1. Main \in Threads
    BY DEF Threads
<1>2. CASE HandlerReturn
    <2>1. /\ UNCHANGED <<frame, cdone, rrefs, crefs, pending, wire>>
          /\ \A q \in Requests : Unclaimed(q)' => Unclaimed(q)
        BY <1>2 DEF HandlerReturn, Unclaimed
    <2>2. PICK place \in {"leaveResolver", "leaveContext"} : thr' = [thr EXCEPT ![Main] = Jump(Main, place)]
        BY <1>2 DEF HandlerReturn
    <2>3. place \in Continuations
        BY DEF Continuations
    <2> QED BY <1>0, <1>1, <2>1, <2>2, <2>3, JumpOnce, MoveOnce
<1>3. CASE HandlerThrow
    <2>1. UNCHANGED <<frame, rrefs, crefs, pending, wire>>
        BY <1>3 DEF HandlerThrow
    <2>2. CASE Enter(Main, "claim", r, "InternalError", "leaveResolver") /\ UNCHANGED cdone
        <3> DEFINE p == [at |-> "claim", call |-> r, out |-> "InternalError", then |-> "leaveResolver"]
        <3>1. thr' = [thr EXCEPT ![Main] = p] /\ p.at = "claim" /\ p.call = r
            BY <2>2 DEF Enter
        <3>2. \A q \in Requests : Unclaimed(q)' => Unclaimed(q)
            BY <2>1, <2>2 DEF Unclaimed
        <3> HIDE DEF p
        <3> QED BY <1>0, <1>1, <2>1, <3>1, <3>2, MoveOnce
    <2>3. CASE /\ ~cdone[r] /\ cdone' = [cdone EXCEPT ![r] = TRUE]
               /\ Enter(Main, "send", r, "InternalError", "leaveContext")
        <3> DEFINE p == [at |-> "send", call |-> r, out |-> "InternalError", then |-> "leaveContext"]
        <3>1. thr' = [thr EXCEPT ![Main] = p] /\ p.at = "send" /\ p.call = r
            BY <2>3 DEF Enter
        <3>2. NoCarrier(r)
            BY <1>0, <2>3, ClearFlag
        <3>3. ~Unclaimed(r)' /\ \A q \in Requests : Unclaimed(q)' => Unclaimed(q)
            BY <1>0, <2>1, <2>3, SetFlag
        <3> HIDE DEF p
        <3> QED BY <1>0, <1>1, <2>1, <3>1, <3>2, <3>3, MoveOnce
    <2> QED BY <1>0, <1>3, <2>2, <2>3 DEF HandlerThrow
<1>4. CASE LeaveResolver
    <2>1. thr[Main].at = "leaveResolver" /\ DropResolver(Main, r, "leaveContext")
        BY <1>0, <1>4 DEF LeaveResolver
    <2> QED BY <1>0, <1>1, <2>1, DropResolverOnce
<1>5. CASE LeaveContext
    <2>1. thr[Main].at = "leaveContext" /\ DropContext(Main, r, Main, "idle")
        BY <1>0, <1>5 DEF LeaveContext
    <2> QED BY <1>0, <1>1, <2>1, DropContextOnce
<1> QED BY <1>2, <1>3, <1>4, <1>5

(* Appending an item that answers no request. *)
LEMMA AppendOther ==
    ASSUME TypeInv, OnceInv, UNCHANGED <<frame, cdone, wire>>, NEW item,
           item.call = NoCall, pending' = Append(pending, item),
           \A t \in Threads, r \in Requests : Holding(t, r)' => Holding(t, r)
    PROVE  /\ \A r \in Requests : Unclaimed(r)' => NoCarrier(r)'
           /\ \A r \in Requests : OneCarrier(r)'
<1>0. pending \in Seq(Item) /\ Len(pending) \in Nat
    BY DEF TypeInv, TypeOK
<1>1. /\ \A i \in 1..Len(pending) : pending'[i] = pending[i]
      /\ pending'[Len(pending) + 1] = item
      /\ \A i \in 1..Len(pending)' : i \in 1..Len(pending) \/ i = Len(pending) + 1
    BY <1>0
<1>2. \A r \in Requests, i \in 1..Len(pending)' :
          pending'[i].call = r => i \in 1..Len(pending) /\ pending[i].call = r
    BY <1>1, ThreadAssumption
<1>3. ASSUME NEW r \in Requests, Unclaimed(r)' PROVE NoCarrier(r)'
    <2>1. NoCarrier(r)
        BY <1>3 DEF OnceInv, Unclaimed
    <2> QED BY <1>2, <2>1 DEF NoCarrier
<1>4. ASSUME NEW r \in Requests PROVE OneCarrier(r)'
    BY <1>2 DEF OnceInv, OneCarrier
<1> QED BY <1>3, <1>4

(* What is pushed or enqueued by the read loop outside any call. *)
LEMMA EnqueueOnce ==
    ASSUME TypeInv, OnceInv,
           ((\E t \in Threads : Push(t)) /\ UNCHANGED <<wire, responder>>) \/ SendExit \/ Reply
    PROVE  OnceInv'
<1>0. UNCHANGED <<frame, cdone, rrefs, crefs, wire>> /\ Main \in Threads
    BY DEF Push, SendExit, Reply, Threads
<1>1. CASE \E t \in Threads : Push(t)
    <2> PICK t \in Threads : Push(t)
        BY <1>1
    <2> DEFINE item == [by |-> t, call |-> NoCall, out |-> "Notification"]
    <2>1. item.call = NoCall /\ pending' = Append(pending, item) /\ UNCHANGED thr
        BY DEF Push, Enqueue
    <2>2. \A u \in Threads, r \in Requests : Holding(u, r)' => Holding(u, r)
        BY <2>1 DEF Holding
    <2> HIDE DEF item
    <2>3. /\ \A r \in Requests : Unclaimed(r)' => NoCarrier(r)'
          /\ \A r \in Requests : OneCarrier(r)'
        BY <1>0, <2>1, <2>2, AppendOther
    <2> QED BY <1>0, <2>1, <2>3 DEF OnceInv
<1>2. CASE SendExit
    <2> DEFINE item == [by |-> Main, call |-> NoCall, out |-> "Exit"]
               p == [thr[Main] EXCEPT !.at = "join"]
    <2>1. /\ item.call = NoCall /\ pending' = Append(pending, item)
          /\ thr' = [thr EXCEPT ![Main] = p] /\ p.at = "join"
        BY <1>2 DEF SendExit, Enqueue, TypeInv, TypeOK, Position, Threads
    <2> HIDE DEF item, p
    <2>2. \A u \in Threads, r \in Requests : Holding(u, r)' => Holding(u, r)
        BY <2>1 DEF Holding, TypeInv, TypeOK
    <2>3. /\ \A r \in Requests : Unclaimed(r)' => NoCarrier(r)'
          /\ \A r \in Requests : OneCarrier(r)'
        BY <1>0, <2>1, <2>2, AppendOther
    <2> QED BY <1>0, <2>1, <2>3, CallStep DEF Claiming, ForACall
<1>3. CASE Reply
    <2> DEFINE p == Resting(Main)
    <2>1. /\ thr[Main].at = "reply" /\ thr' = [thr EXCEPT ![Main] = p] /\ p.at = "idle"
          /\ pending' = Append(pending, [by |-> Main, call |-> thr[Main].call, out |-> thr[Main].out])
        BY <1>3 DEF Reply, Enqueue, Resting
    <2> HIDE DEF p
    <2>2. \A u \in Threads : thr'[u] = IF u = Main THEN p ELSE thr[u]
        BY <2>1 DEF TypeInv, TypeOK
    <2>3. \A r \in Requests : ~Holding(Main, r)'
        BY <1>0, <2>1, <2>2 DEF Holding
    <2>4. /\ \A r \in Requests : Unclaimed(r)' => NoCarrier(r)'
          /\ \A r \in Requests : OneCarrier(r)'
        <3>1. \A u \in Threads \ {Main} : thr'[u] = thr[u]
            BY <2>2
        <3> QED BY <1>0, <2>1, <2>3, <3>1, EnqueueStep
    <2> QED BY <1>0, <2>1, <2>4, CallStep DEF Claiming, ForACall
<1> QED BY <1>1, <1>2, <1>3

(* The read loop's waits and its end: no call is concerned. *)
LEMMA WaitOnce ==
    ASSUME TypeInv, OnceInv,
           ((WaitStep \/ SpuriousWake) /\ UNCHANGED <<wire, responder>>) \/ EndOfInput \/ Join \/ Destroy \/ Unwind
    PROVE  OnceInv'
<1>1. UNCHANGED <<frame, cdone, rrefs, crefs, pending, wire>> /\ Main \in Threads
    BY DEF WaitStep, WaitLock, WaitCheck, WaitBlock, SpuriousWake, EndOfInput, Join, Destroy, Unwind, Threads
<1>2. PICK place \in {"check", "drained", "block", "asleep", "lock", "join", "returned", "destroyed"} :
          thr' = [thr EXCEPT ![Main].at = place]
    BY DEF WaitStep, WaitLock, WaitCheck, WaitBlock, SpuriousWake, EndOfInput, Join, Destroy, Unwind
<1> DEFINE p == [thr[Main] EXCEPT !.at = place]
<1>3. thr' = [thr EXCEPT ![Main] = p] /\ p.at = place
    BY <1>1, <1>2 DEF TypeInv, TypeOK, Position
<1>4. \A q \in Requests : Unclaimed(q)' => Unclaimed(q)
    BY <1>1 DEF Unclaimed
<1>5. p.at \notin Claiming /\ p.at \notin {"reply", "send", "user"}
    BY <1>3 DEF Claiming, ForACall
<1> HIDE DEF p
<1> QED BY <1>1, <1>3, <1>4, <1>5, MoveOnce


(* The responder moves one item from the queue to the wire, or takes the      *)
(* sentinel.                                                                  *)
LEMMA WriteOutOnce ==
    ASSUME TypeInv, OnceInv, NEW i \in 1..Len(pending), WriteOut(i)
    PROVE  OnceInv'
<1>0. /\ pending \in Seq(Item) /\ Len(pending) \in Nat
      /\ wire \in Seq((Requests \cup {NoCall}) \X (Outcomes \cup {"Notification"})) /\ Len(wire) \in Nat
      /\ UNCHANGED <<frame, cdone, rrefs, crefs, thr>>
    BY DEF TypeInv, TypeOK, WriteOut
<1> DEFINE m(j) == IF j < i THEN j ELSE j + 1
<1>1. /\ Len(pending') = Len(pending) - 1
      /\ \A j \in 1..(Len(pending) - 1) : pending'[j] = IF j < i THEN pending[j] ELSE pending[j + 1]
    BY <1>0, RemoveAtProperties DEF WriteOut
<1>2. \A j \in 1..Len(pending)' : m(j) \in 1..Len(pending) /\ m(j) # i /\ pending'[j] = pending[m(j)]
    BY <1>0, <1>1
<1>3. \A j, k \in 1..Len(pending)' : m(j) = m(k) => j = k
    BY <1>0, <1>1
<1>4. /\ Len(wire)' \in Nat
      /\ \A k \in 1..Len(wire)' :
            \/ k \in 1..Len(wire) /\ wire'[k] = wire[k]
            \/ k = Len(wire) + 1 /\ wire'[k][1] = pending[i].call
    <2>1. CASE UNCHANGED wire
        BY <1>0, <2>1
    <2>2. CASE wire' = Append(wire, <<pending[i].call, pending[i].out>>)
        <3> DEFINE x == <<pending[i].call, pending[i].out>>
        <3>1. x[1] = pending[i].call /\ wire' = Append(wire, x)
            BY <2>2
        <3> HIDE DEF x
        <3> QED BY <1>0, <3>1
    <2> QED BY <2>1, <2>2 DEF WriteOut
<1> HIDE DEF m
<1>5. \A t \in Threads, r \in Requests : Holding(t, r)' <=> Holding(t, r)
    BY <1>0 DEF Holding
<1>6. ASSUME NEW r \in Requests, Unclaimed(r)' PROVE NoCarrier(r)'
    <2>1. NoCarrier(r)
        BY <1>0, <1>6 DEF OnceInv, Unclaimed
    <2> QED BY <1>2, <1>4, <1>5, <2>1 DEF NoCarrier
<1>7. ASSUME NEW r \in Requests PROVE OneCarrier(r)'
    <2>0. OneCarrier(r)
        BY DEF OnceInv
    <2>1. \A t, u \in Threads : Holding(t, r)' /\ Holding(u, r)' => t = u
        BY <1>5, <2>0 DEF OneCarrier
    <2>2. \A j, k \in 1..Len(pending)' : pending'[j].call = r /\ pending'[k].call = r => j = k
        BY <1>2, <1>3, <2>0 DEF OneCarrier
    <2>3. \A j, k \in 1..Len(wire)' : wire'[j][1] = r /\ wire'[k][1] = r => j = k
        BY <1>4, <2>0 DEF OneCarrier
    <2>4. \A t \in Threads, j \in 1..Len(pending)' : ~(Holding(t, r)' /\ pending'[j].call = r)
        BY <1>2, <1>5, <2>0 DEF OneCarrier
    <2>5. \A t \in Threads, j \in 1..Len(wire)' : ~(Holding(t, r)' /\ wire'[j][1] = r)
        BY <1>4, <1>5, <2>0 DEF OneCarrier
    <2>6. \A j \in 1..Len(pending)', k \in 1..Len(wire)' : ~(pending'[j].call = r /\ wire'[k][1] = r)
        BY <1>2, <1>4, <2>0 DEF OneCarrier
    <2> QED BY <2>1, <2>2, <2>3, <2>4, <2>5, <2>6 DEF OneCarrier
<1> QED BY <1>0, <1>6, <1>7 DEF OnceInv

(* What an exception takes with it is an answer; it brings no new one.        *)
LEMMA EscapeOnce ==
    ASSUME TypeInv, OnceInv, Escape
    PROVE  OnceInv'
<1>0. UNCHANGED <<cdone, rrefs, crefs, pending, wire>> /\ Main \in Threads
    BY DEF Escape, InlineEscapes, CodecFails, EncodeFails, ErrorFails, HandlerEscapes, ReadThrows, Threads
<1>1. ASSUME NEW r \in Requests, NEW f \in Input, InlineEscapes(r, f)
      PROVE  OnceInv'
    <2>1. /\ frame[r] = Unread /\ frame' = [frame EXCEPT ![r] = f] /\ UNCHANGED thr
          /\ f # Unread /\ f \notin AsyncFrames /\ Unread \notin AsyncFrames
        BY <1>1, FrameAssumption DEF InlineEscapes, AsyncFrames, SyncFrames, Routed
    <2>2. /\ \A q \in Requests \ {r} : frame'[q] = frame[q]
          /\ frame'[r] = f
        BY <2>1 DEF TypeInv, TypeOK
    <2>3. \A q \in Requests : frame[q] \in AsyncFrames => frame'[q] \in AsyncFrames
        BY <2>1, <2>2
    <2>4. \A q \in Requests : Unclaimed(q)' => Unclaimed(q)
        BY <1>0, <2>1, <2>2 DEF Unclaimed
    <2>5. /\ \A q \in Requests : Unclaimed(q)' => NoCarrier(q)'
          /\ \A q \in Requests : OneCarrier(q)'
        BY <1>0, <2>1, <2>4, QuietStep DEF Holding
    <2>6. /\ \A t \in Threads : thr[t].at \in Claiming => thr[t].call \in Requests
          /\ thr[Main].at = "user" => thr[Main].call \in Requests
        BY DEF TypeInv, TypeOK, Handling, Position, Claiming
    <2> QED BY <1>0, <2>1, <2>3, <2>5, <2>6 DEF OnceInv
<1>2. ASSUME NEW t \in Threads, CodecFails(t)
      PROVE  OnceInv'
    <2>1. UNCHANGED frame /\ \A q \in Requests : Unclaimed(q)' => Unclaimed(q)
        BY <1>0, <1>2 DEF CodecFails, EncodeFails, ErrorFails, Unclaimed
    <2>2. thr[t].at \in Responding
        BY <1>2 DEF CodecFails, EncodeFails, ErrorFails, Responding
    <2>3. frame[thr[t].call] \in AsyncFrames
        BY <2>2 DEF OnceInv, Responding, Claiming, ForACall
    <2>4. PICK place \in Continuations : thr' = [thr EXCEPT ![t] = Jump(t, place)]
        <3>1. thr[t].then \in Continuations /\ "user" \in Continuations
            BY <2>2 DEF TypeInv, TypeOK, Position, Continuations
        <3> QED BY <1>2, <3>1 DEF CodecFails, EncodeFails, ErrorFails
    <2> QED BY <1>0, <2>1, <2>3, <2>4, JumpOnce, MoveOnce
<1>3. CASE HandlerEscapes
    <2>1. UNCHANGED frame /\ \A q \in Requests : Unclaimed(q)' => Unclaimed(q)
        BY <1>0, <1>3 DEF HandlerEscapes, Unclaimed
    <2>2. PICK place \in {"leaveResolver", "leaveContext"} : thr' = [thr EXCEPT ![Main] = Jump(Main, place)]
        BY <1>3 DEF HandlerEscapes
    <2>3. frame[thr[Main].call] \in AsyncFrames /\ place \in Continuations
        BY <1>3 DEF HandlerEscapes, OnceInv, Continuations
    <2> QED BY <1>0, <2>1, <2>2, <2>3, JumpOnce, MoveOnce
<1>4. CASE ReadThrows
    <2>1. UNCHANGED <<frame, cdone, rrefs, crefs, thr, pending, wire>>
        BY <1>4 DEF ReadThrows
    <2> QED BY <2>1 DEF OnceInv, Unclaimed, NoCarrier, OneCarrier, Holding
<1> QED BY <1>1, <1>2, <1>3, <1>4 DEF Escape

LEMMA InitOnce == Init => OnceInv
<1> SUFFICES ASSUME Init PROVE OnceInv
    OBVIOUS
<1>1. /\ rrefs = [r \in Requests |-> {}] /\ crefs = [r \in Requests |-> {}]
      /\ pending = <<>> /\ wire = <<>>
      /\ \A t \in Threads : thr[t].at = IF t = Main THEN "idle" ELSE "user"
    BY DEF Init, SInit, Resting
<1>2. \A t \in Threads, r \in Requests : ~Holding(t, r)
    BY <1>1 DEF Holding
<1>3. \A r \in Requests : NoCarrier(r)
    BY <1>1, <1>2 DEF NoCarrier
<1>4. \A r \in Requests : OneCarrier(r)
    BY <1>1, <1>2 DEF OneCarrier
<1> QED BY <1>1, <1>3, <1>4 DEF OnceInv, Claiming, ForACall, Threads

LEMMA NextOnce == TypeInv /\ OnceInv /\ [Next]_vars => OnceInv'
<1> SUFFICES ASSUME TypeInv, OnceInv, [Next]_vars PROVE OnceInv'
    OBVIOUS
<1>1. CASE UNCHANGED vars
    <2>1. UNCHANGED <<frame, cdone, rrefs, crefs, thr, pending, wire>>
        BY <1>1 DEF vars
    <2> QED BY <2>1 DEF OnceInv, Unclaimed, NoCarrier, OneCarrier, Holding
<1> QED BY <1>1, StepCases, DispatchOnce, HandleOnce, FireOnce, LibraryStepOnce, EnqueueOnce,
           HandlerOnce, WaitOnce, EscapeOnce, WriteOutOnce

(* No request is ever answered twice, whatever handles its handler spreads    *)
(* over however many threads, and however they race with each other, with the *)
(* handler's exception and with the destructors.                              *)
THEOREM AtMostOne == Spec => []AtMostOneAnswer
<1>1. Init => TypeInv /\ OnceInv
    BY InitTyped, InitOnce
<1>2. TypeInv /\ OnceInv /\ [Next]_vars => (TypeInv /\ OnceInv)'
    BY NextTyped, NextOnce
<1>3. TypeInv /\ OnceInv => AtMostOneAnswer
    BY OneCarrierMeansOneAnswer DEF OnceInv
<1> QED BY <1>1, <1>2, <1>3, PTL DEF Spec
=============================================================================
