------------------------- MODULE QueueServerProofs -------------------------
(* What is proved of QueueServer for every set of requests and workers, every *)
(* set of input frames and either kind of codec.                              *)
EXTENDS QueueServer, SequenceTheorems, FiniteSetTheorems, TLAPS

(* The server inside the host is the one of StdioServer, with a responder     *)
(* that writes nothing and never ends: what is delivered leaves its queue     *)
(* without a trace there, and HostInv below says what becomes of it.          *)
Stdio == INSTANCE StdioAnswerProofs WITH wire <- <<>>, responder <- "running"

-----------------------------------------------------------------------------
(* The steps they share.                                                      *)

LEMMA ServerSteps == ServerStep => Stdio!ServerStep /\ UNCHANGED <<deferred, delivered>>
BY DEF ServerStep, Stdio!ServerStep, SNext, Stdio!SNext, ProcessInline, Stdio!ProcessInline, DispatchAsync,
       Stdio!DispatchAsync, InlineEscapes, Stdio!InlineEscapes, CopyHandle, Stdio!CopyHandle, Drop,
       Stdio!Drop, DropResolver, Stdio!DropResolver, DropContext, Stdio!DropContext, Fire, Stdio!Fire,
       Respond, Stdio!Respond, LibraryStep, Stdio!LibraryStep, Encode, Stdio!Encode, Claim, Stdio!Claim,
       Send, Stdio!Send, Release, Stdio!Release, Complete, Stdio!Complete, Notify, Stdio!Notify,
       NotifyUnlocked, Stdio!NotifyUnlocked, Push, Stdio!Push, HandlerReturn, Stdio!HandlerReturn,
       HandlerThrow, Stdio!HandlerThrow, HandlerEscapes, Stdio!HandlerEscapes, LeaveResolver,
       Stdio!LeaveResolver, LeaveContext, Stdio!LeaveContext, WaitStep, Stdio!WaitStep, WaitLock,
       Stdio!WaitLock, WaitCheck, Stdio!WaitCheck, WaitBlock, Stdio!WaitBlock, SpuriousWake,
       Stdio!SpuriousWake, CodecFails, Stdio!CodecFails, EncodeFails, Stdio!EncodeFails, ErrorFails,
       Stdio!ErrorFails, Enter, Stdio!Enter, Enqueue, Stdio!Enqueue, Jump, Stdio!Jump, Resting,
       Stdio!Resting, Wake, Stdio!Wake, MutexFree, Stdio!MutexFree, IsTyped, Stdio!IsTyped, IsRaw,
       Stdio!IsRaw, Threads, Stdio!Threads, Closures, Stdio!Closures, UserTexts, Stdio!UserTexts,
       MayAnswer, Stdio!MayAnswer, Outcomes, Stdio!Outcomes, BadSync, Stdio!BadSync, BadAsync,
       Stdio!BadAsync, AsyncFrames, Stdio!AsyncFrames, TypedFrames, Stdio!TypedFrames, SyncFrames,
       Stdio!SyncFrames, Routed, Stdio!Routed, NotFound, Stdio!NotFound, Unreadable, Stdio!Unreadable,
       WrongVersion, Stdio!WrongVersion, own

-----------------------------------------------------------------------------
(* What the host has of each request.                                         *)

(* The queue holds notifications and answers, and no sentinel. *)
PlainItems ==
    \A i \in 1..Len(pending) :
        pending[i].out \in (IF pending[i].call = NoCall THEN {"Notification"} ELSE Outcomes)

(* Until someone claims a request it has no answer, delivered or lost.  Once  *)
(* it is read its answer is carried, delivered or lost, or it is still to be  *)
(* claimed through a reference; an answer delivered or lost is carried no     *)
(* more, and one excludes the other; and every answer is one its frame allows.*)
AnswerKept(r) ==
    /\ frame[r] = Unread => ~cdone[r]
    /\ Stdio!Unclaimed(r) => r \notin lost /\ delivered[r] = <<>>
    /\ frame[r] # Unread /\ r \notin lost /\ delivered[r] = <<>> =>
           Stdio!Carried(r) # {} \/ (frame[r] \in AsyncFrames /\ ~cdone[r] /\ crefs[r] # {})
    /\ r \in lost \/ delivered[r] # <<>> => Stdio!Carried(r) = {}
    /\ r \in lost => delivered[r] = <<>> /\ Contract!MayLose(frame[r])
    /\ Stdio!Carried(r) \subseteq MayAnswer(frame[r])
    /\ delivered[r] # <<>> => \E o \in MayAnswer(frame[r]) : delivered[r] = <<o>>

HostInv == \A r \in Requests : AnswerKept(r)

QueueInv ==
    /\ Stdio!KnownInv /\ Stdio!EscapeInv /\ Stdio!Quiesced
    /\ deferred \in BOOLEAN /\ delivered \in [Requests -> Seq(Outcomes)] /\ PlainItems /\ HostInv

-----------------------------------------------------------------------------
(* The steps of the server, and the host's wait.                              *)

(* What the server does and the host does not is a step of StdioServer.       *)
LEMMA SharedSteps ==
    ASSUME ServerStep \/ HostWaits \/ UNCHANGED vars
    PROVE  [Stdio!Next]_(Stdio!vars) /\ UNCHANGED <<deferred, delivered>>
<1>1. CASE ServerStep
    BY <1>1, ServerSteps DEF Stdio!Next
<1>2. CASE HostWaits
    BY <1>2 DEF HostWaits, Stdio!EndOfInput, Stdio!Next
<1>3. CASE UNCHANGED vars
    BY <1>3 DEF vars, Stdio!vars
<1> QED BY <1>1, <1>2, <1>3

(* What StdioServer assumes of its constants. *)
LEMMA SameAssumptions ==
    /\ SyncTyped \cap SyncRaw = {} /\ AsyncTyped \cap AsyncRaw = {} /\ Input \subseteq Stdio!Frame
    /\ Main \notin Workers /\ NoCall \notin Requests /\ Unread \notin Input /\ MaxPush \in Nat
    /\ Stdio!Closures \notin Stdio!Threads /\ FALSE \in BOOLEAN /\ NoAnswer \notin Stdio!Outcomes
BY RegistryAssumption, InputAssumption, ThreadAssumption, FrameAssumption, PushAssumption, ClosuresAssumption,
   AnswerAssumption DEF Frame, Stdio!Frame, Closures, Stdio!Closures, Threads, Stdio!Threads,
   Outcomes, Stdio!Outcomes

LEMMA SharedKnown ==
    ASSUME Stdio!KnownInv, Stdio!EscapeInv, Stdio!Quiesced, ServerStep \/ HostWaits \/ UNCHANGED vars
    PROVE  Stdio!KnownInv' /\ Stdio!EscapeInv' /\ Stdio!Quiesced'
<1>1. [Stdio!Next]_(Stdio!vars)
    BY SharedSteps
<1>2. Stdio!KnownInv'
    BY <1>1, SameAssumptions, Stdio!NextKnown
<1>3. Stdio!EscapeInv'
    BY <1>1, SameAssumptions, Stdio!NextEscape DEF Stdio!KnownInv
<1>4. Stdio!Quiesced'
    BY <1>1, SameAssumptions, Stdio!NextQuiesced
<1> QED BY <1>2, <1>3, <1>4

-----------------------------------------------------------------------------
(* The host's own steps: Main comes back from a reply or a drain, or leaves;  *)
(* an item leaves the queue; an exception is caught.                          *)

(* Main has delivered, drained or left, and its answer is carried no more.    *)
LEMMA RestKnown ==
    ASSUME Stdio!KnownInv, NEW p, thr' = [thr EXCEPT ![Main] = p], p \in Stdio!Position, p.at \in {"idle", "destroyed"},
           thr[Main].at \in {"reply", "drained"}, lost' \subseteq Requests,
           UNCHANGED <<frame, rdone, cdone, rrefs, crefs, inflight, pending, pushed, escaped>>
    PROVE  Stdio!KnownInv'
<1>0. Main \in Stdio!Threads /\ thr \in [Stdio!Threads -> Stdio!Position]
    BY DEF Stdio!Threads, Stdio!KnownInv, Stdio!TypeInv, Stdio!TypeOK
<1>1. Stdio!TypeInv'
    BY <1>0 DEF Stdio!KnownInv, Stdio!TypeInv, Stdio!TypeOK, Stdio!Handling
<1>2. Stdio!OnceInv'
    BY <1>0, SameAssumptions, Stdio!MoveOnce DEF Stdio!KnownInv, Stdio!Claiming, Stdio!ForACall, Stdio!Unclaimed
<1>3. Stdio!CountInv'
    <2>1. /\ ~Stdio!ClosingAt(thr[Main]) /\ ~Stdio!InDispatch(thr[Main])
          /\ ~Stdio!ClosingAt(p) /\ ~Stdio!InDispatch(p)
        BY DEF Stdio!ClosingAt, Stdio!InDispatch
    <2>2. \A q \in Requests : Stdio!IsTyped(q) => Stdio!IsTyped(q)'
        BY DEF Stdio!IsTyped
    <2> QED BY <2>1, <2>2, SameAssumptions, Stdio!LoopCount DEF Stdio!KnownInv
<1>4. Stdio!RefInv'
    <2>1. Stdio!Sound(Main, p) /\ ~Stdio!ReleasingAt(p)
        BY SameAssumptions, Stdio!LoopSound
    <2> QED BY <1>0, <2>1, SameAssumptions, Stdio!MoveRef
<1> QED BY <1>1, <1>2, <1>3, <1>4 DEF Stdio!KnownInv

(* The items of the queue are items it had, in other places. *)
LEMMA QueueKnown ==
    ASSUME Stdio!KnownInv, pending' \in Seq(Stdio!Item), NEW m,
           \A j \in 1..Len(pending') : m[j] \in 1..Len(pending) /\ pending'[j] = pending[m[j]],
           \A j, k \in 1..Len(pending') : m[j] = m[k] => j = k,
           lost' \subseteq Requests, escaped' \in BOOLEAN,
           UNCHANGED <<frame, rdone, cdone, rrefs, crefs, inflight, thr, pushed>>
    PROVE  Stdio!KnownInv'
<1>1. Stdio!TypeInv'
    BY DEF Stdio!KnownInv, Stdio!TypeInv, Stdio!TypeOK, Stdio!Handling
<1>2. Stdio!OnceInv'
    <2>1. \A t \in Stdio!Threads, r \in Requests : Stdio!Holding(t, r)' <=> Stdio!Holding(t, r)
        BY DEF Stdio!Holding
    <2>2. ASSUME NEW r \in Requests, Stdio!Unclaimed(r)' PROVE Stdio!NoCarrier(r)'
        <3>1. Stdio!NoCarrier(r)
            BY <2>2 DEF Stdio!KnownInv, Stdio!OnceInv, Stdio!Unclaimed
        <3> QED BY <2>1, <3>1 DEF Stdio!NoCarrier
    <2>3. ASSUME NEW r \in Requests PROVE Stdio!OneCarrier(r)'
        <3>1. Stdio!OneCarrier(r)
            BY DEF Stdio!KnownInv, Stdio!OnceInv
        <3> QED BY <2>1, <3>1 DEF Stdio!OneCarrier
    <2> QED BY <2>2, <2>3 DEF Stdio!KnownInv, Stdio!OnceInv
<1>3. Stdio!CountInv'
    <2>1. \A q \in Requests : Stdio!IsTyped(q) => Stdio!IsTyped(q)'
        BY DEF Stdio!IsTyped
    <2> QED BY <2>1, SameAssumptions, Stdio!StillCount DEF Stdio!KnownInv
<1>4. Stdio!RefInv'
    BY DEF Stdio!KnownInv, Stdio!RefInv, Stdio!Sound, Stdio!Decoded, Stdio!Unreachable, Stdio!IsTyped, Stdio!IsRaw
<1> QED BY <1>1, <1>2, <1>3, <1>4 DEF Stdio!KnownInv

-----------------------------------------------------------------------------
(* What becomes of each answer.                                               *)

(* Nothing is handed over. *)
LEMMA NothingOver ==
    ASSUME HostInv, \A r \in Requests : Stdio!Carried(r)' = Stdio!Carried(r),
           UNCHANGED <<frame, cdone, crefs, lost, delivered>>
    PROVE  HostInv'
BY DEF HostInv, AnswerKept, Stdio!Unclaimed

(* The answer to c is handed over to the host, or a thunk throws. *)
HandsOver(c, o) ==
    /\ Stdio!Carried(c)' = {} /\ \A q \in Requests \ {c} : Stdio!Carried(q)' = Stdio!Carried(q)
    /\ UNCHANGED <<frame, cdone, crefs>>
    /\ \/ delivered' = [delivered EXCEPT ![c] = Append(@, o)] /\ UNCHANGED lost
       \/ lost' = lost \cup {c} /\ UNCHANGED delivered /\ o = "Result"

(* What is carried is the answer to an open call. *)
LEMMA CarriedIsOpen ==
    ASSUME QueueInv, NEW c \in Requests, NEW o \in Stdio!Carried(c)
    PROVE  /\ ~Stdio!Unclaimed(c) /\ frame[c] # Unread /\ c \notin lost /\ delivered[c] = <<>>
           /\ o \in MayAnswer(frame[c]) /\ o \in Outcomes
           /\ o = "Result" => Contract!MayLose(frame[c])
<1>1. ~Stdio!NoCarrier(c)
    BY SameAssumptions, Stdio!NoneCarried
<1>2. ~Stdio!Unclaimed(c) /\ frame[c] # Unread
    BY <1>1 DEF QueueInv, Stdio!KnownInv, Stdio!OnceInv, Stdio!Unclaimed
<1>3. o \in MayAnswer(frame[c]) /\ o \in Outcomes /\ c \notin lost /\ delivered[c] = <<>>
    BY DEF QueueInv, HostInv, AnswerKept, MayAnswer
<1>4. o = "Result" => Contract!MayLose(frame[c])
    BY <1>3 DEF MayAnswer, Contract!MayLose, Contract!SyncFrames, Contract!BadSync, Contract!AsyncFrames,
           Contract!BadAsync, Contract!Routed, Contract!TypedFrames,
           SyncFrames, BadSync, AsyncFrames, BadAsync, Routed, TypedFrames, Unreadable, WrongVersion, NotFound
<1> QED BY <1>2, <1>3, <1>4

LEMMA HandOver ==
    ASSUME QueueInv, NEW c \in Requests, NEW o \in Stdio!Carried(c), HandsOver(c, o)
    PROVE  HostInv' /\ delivered' \in [Requests -> Seq(Outcomes)]
<1>1. ~Stdio!Unclaimed(c) /\ ~Stdio!Unclaimed(c)'
    BY CarriedIsOpen DEF HandsOver, Stdio!Unclaimed
<1>2. /\ o \in MayAnswer(frame[c]) /\ o \in Outcomes
      /\ c \notin lost /\ delivered[c] = <<>>
    BY CarriedIsOpen
<1>3. ASSUME NEW q \in Requests \ {c}
      PROVE  /\ (q \in lost' <=> q \in lost) /\ delivered'[q] = delivered[q]
             /\ Stdio!Carried(q)' = Stdio!Carried(q) /\ (Stdio!Unclaimed(q)' <=> Stdio!Unclaimed(q))
    BY DEF HandsOver, QueueInv, Stdio!Unclaimed
<1>4. CASE delivered' = [delivered EXCEPT ![c] = Append(@, o)] /\ UNCHANGED lost
    <2>1. delivered'[c] = <<o>>
        BY <1>2, <1>4 DEF QueueInv
    <2>2. delivered' \in [Requests -> Seq(Outcomes)]
        BY <1>2, <1>4 DEF QueueInv
    <2>3. HostInv'
        BY <1>1, <1>2, <1>3, <1>4, <2>1 DEF HandsOver, QueueInv, HostInv, AnswerKept, Stdio!Unclaimed
    <2> QED BY <2>2, <2>3
<1>5. CASE lost' = lost \cup {c} /\ UNCHANGED delivered /\ o = "Result"
    <2>1. Contract!MayLose(frame[c])
        BY <1>5, CarriedIsOpen
    <2>2. HostInv'
        BY <1>1, <1>2, <1>3, <1>5, <2>1 DEF HandsOver, QueueInv, HostInv, AnswerKept, Stdio!Unclaimed
    <2> QED BY <1>5, <2>2 DEF QueueInv
<1> QED BY <1>4, <1>5 DEF HandsOver

LEMMA SameFrames ==
    /\ AsyncFrames = Stdio!AsyncFrames
    /\ \A f : MayAnswer(f) = Stdio!MayAnswer(f)
    /\ \A f : Contract!MayLose(f) <=> Stdio!Contract!MayLose(f)
BY DEF MayAnswer, Stdio!MayAnswer, Outcomes, Stdio!Outcomes, Unreadable, Stdio!Unreadable, WrongVersion,
       Stdio!WrongVersion, NotFound, Stdio!NotFound, SyncFrames, Stdio!SyncFrames, BadSync, Stdio!BadSync,
       AsyncFrames, Stdio!AsyncFrames, BadAsync, Stdio!BadAsync, Routed, Stdio!Routed, TypedFrames,
       Stdio!TypedFrames, Contract!MayLose, Stdio!Contract!MayLose, Contract!SyncFrames,
       Stdio!Contract!SyncFrames, Contract!BadSync, Stdio!Contract!BadSync, Contract!AsyncFrames,
       Stdio!Contract!AsyncFrames, Contract!BadAsync, Stdio!Contract!BadAsync, Contract!Routed,
       Stdio!Contract!Routed, Contract!TypedFrames, Stdio!Contract!TypedFrames

(* The server and the wait hand nothing over: the answer to a request stays,  *)
(* is its first, or is taken by an exception.                                 *)
LEMMA SharedHost ==
    ASSUME QueueInv, ServerStep \/ HostWaits \/ UNCHANGED vars
    PROVE  HostInv'
<1>0. [Stdio!Next]_(Stdio!vars) /\ UNCHANGED delivered
    BY SharedSteps
<1>1. Stdio!KnownInv'
    BY SharedKnown DEF QueueInv
<1>2. Stdio!ExitItems
    BY ThreadAssumption DEF QueueInv, PlainItems, Stdio!ExitItems, Outcomes
<1>3. Stdio!Settled
    BY <1>0, <1>2, SameAssumptions, Stdio!NextSettles DEF QueueInv
<1>4. ASSUME NEW r \in Requests PROVE AnswerKept(r)'
    <2>0. AnswerKept(r) /\ (Stdio!Unclaimed(r) => Stdio!Carried(r) = {})
        BY SameAssumptions, Stdio!NoneCarried DEF QueueInv, HostInv, Stdio!KnownInv, Stdio!OnceInv
    <2>1. CASE Stdio!Undisturbed(r)
        BY <1>0, <2>0, <2>1, SameFrames DEF Stdio!Undisturbed, AnswerKept, Stdio!Unclaimed
    <2>2. CASE Stdio!GetsAnswer(r)
        <3>1. PICK t \in Stdio!Threads : Stdio!Holding(t, r)' /\ Stdio!Carried(r)' = {thr'[t].out}
            BY <2>2 DEF Stdio!GetsAnswer
        <3>2. thr'[t].out \in MayAnswer(frame'[r])
            BY <1>1, <3>1, SameFrames DEF Stdio!KnownInv, Stdio!RefInv, Stdio!Sound, Stdio!Holding, Stdio!WithOutcome
        <3> QED BY <1>0, <2>0, <2>2, <3>1, <3>2, SameFrames DEF Stdio!GetsAnswer, AnswerKept, Stdio!Unclaimed
    <2>3. CASE Stdio!LosesAnswer(r)
        BY <1>0, <2>0, <2>3, SameFrames DEF Stdio!LosesAnswer, AnswerKept, Stdio!Unclaimed
    <2> QED BY <1>3, <2>1, <2>2, <2>3 DEF Stdio!Settled
<1> QED BY <1>4 DEF HostInv

LEMMA AppendPlain ==
    ASSUME PlainItems, pending \in Seq(Stdio!Item), NEW item, pending' = Append(pending, item),
           item.out \in (IF item.call = NoCall THEN {"Notification"} ELSE Outcomes)
    PROVE  PlainItems'
<1>1. Len(pending) \in Nat /\ \A i \in 1..Len(pending') :
          (i \in 1..Len(pending) /\ pending'[i] = pending[i]) \/ pending'[i] = item
    OBVIOUS
<1> QED BY <1>1 DEF PlainItems

LEMMA SharedPlain ==
    ASSUME QueueInv, ServerStep \/ HostWaits \/ UNCHANGED vars
    PROVE  PlainItems'
<1>0. pending \in Seq(Stdio!Item) /\ thr \in [Stdio!Threads -> Stdio!Position]
    BY DEF QueueInv, Stdio!KnownInv, Stdio!TypeInv, Stdio!TypeOK
<1>1. ASSUME NEW t \in Threads, Send(t) PROVE PlainItems'
    <2> DEFINE item == [by |-> t, call |-> thr[t].call, out |-> thr[t].out]
    <2>1. thr[t] \in Stdio!Position /\ thr[t].at = "send"
        BY <1>0, <1>1 DEF Send, Threads, Stdio!Threads
    <2>2. item.call \in Requests /\ item.out \in Outcomes /\ pending' = Append(pending, item)
        BY <1>1, <2>1 DEF Send, Enqueue, Stdio!Position, Stdio!ForACall, Stdio!WithOutcome, Outcomes, Stdio!Outcomes
    <2> HIDE DEF item
    <2> QED BY <1>0, <2>2, AppendPlain, ThreadAssumption DEF QueueInv
<1>2. ASSUME NEW t \in Threads, Push(t) PROVE PlainItems'
    <2> DEFINE item == [by |-> t, call |-> NoCall, out |-> "Notification"]
    <2>1. item.call = NoCall /\ item.out = "Notification" /\ pending' = Append(pending, item)
        BY <1>2 DEF Push, Enqueue
    <2> HIDE DEF item
    <2> QED BY <1>0, <2>1, AppendPlain DEF QueueInv
<1>3. CASE UNCHANGED pending
    BY <1>3 DEF QueueInv, PlainItems
<1>4. UNCHANGED pending \/ \E t \in Threads : Send(t) \/ Push(t)
    BY DEF ServerStep, SNext, ProcessInline, DispatchAsync, InlineEscapes, CopyHandle, Drop, DropResolver, DropContext,
           Fire, Respond, LibraryStep, Encode, Claim, Release, Complete, Notify, NotifyUnlocked, HandlerReturn,
           HandlerThrow, HandlerEscapes, LeaveResolver, LeaveContext, WaitStep, WaitLock, WaitCheck, WaitBlock,
           SpuriousWake, CodecFails, EncodeFails, ErrorFails, HostWaits, vars
<1> QED BY <1>1, <1>2, <1>3, <1>4

-----------------------------------------------------------------------------
(* The invariant of the embedded server.                                      *)

(* The other half of the invariant, of a step of the host.                    *)
LEMMA HostRest ==
    ASSUME QueueInv, PlainItems', UNCHANGED inflight,
           \A w \in Workers : thr'[w] = thr[w],
           escaped' => escaped /\ thr'[Main].at \in {"idle", thr[Main].at},
           thr'[Main].at \in {"idle", "destroyed", thr[Main].at}, thr'[Main].at = "destroyed" => thr[Main].at \in {"drained", "destroyed"},
           escaped /\ ~escaped' => thr'[Main].at = "idle"
    PROVE  Stdio!EscapeInv' /\ Stdio!Quiesced'
<1>1. ~Stdio!ExitSent /\ ~Stdio!ExitSent'
    BY ThreadAssumption DEF QueueInv, PlainItems, Stdio!ExitSent, Outcomes
<1>2. Stdio!EscapeInv'
    BY <1>1 DEF QueueInv, Stdio!EscapeInv, Stdio!Draining, Stdio!Gone
<1>3. Stdio!Quiesced'
    BY DEF QueueInv, Stdio!Quiesced, Stdio!Ended, Stdio!Gone
<1> QED BY <1>2, <1>3

LEMMA InlineQueue ==
    ASSUME QueueInv, DeliverInline
    PROVE  QueueInv' /\ \E c \in Requests : \E o \in Stdio!Carried(c) : HandsOver(c, o)
<1>1. PICK p : p = Resting(Main)
    OBVIOUS
<1>2. PICK c, o : c = thr[Main].call /\ o = thr[Main].out
    OBVIOUS
<1>0. /\ Main \in Stdio!Threads /\ thr \in [Stdio!Threads -> Stdio!Position]
      /\ Stdio!Threads = Workers \cup {Main} /\ Main \notin Workers
    BY ThreadAssumption DEF QueueInv, Stdio!KnownInv, Stdio!TypeInv, Stdio!TypeOK, Stdio!Threads
<1>3. /\ thr[Main].at = "reply" /\ thr' = [thr EXCEPT ![Main] = p] /\ p.at = "idle"
      /\ UNCHANGED <<frame, rdone, cdone, rrefs, crefs, inflight, pending, pushed, escaped, deferred>>
    BY <1>1 DEF DeliverInline, Resting
<1>4. p \in Stdio!Position
    BY <1>1, SameAssumptions, Stdio!RestingTyped, <1>0 DEF Resting, Stdio!Resting
<1>5. c \in Requests /\ o \in Outcomes /\ Stdio!Holding(Main, c)
    BY <1>0, <1>2, <1>3 DEF Stdio!Position, Stdio!ForACall, Stdio!WithOutcome, Outcomes, Stdio!Outcomes, Stdio!Holding
<1>6. \/ delivered' = [delivered EXCEPT ![c] = Append(@, o)] /\ UNCHANGED lost
      \/ lost' = lost \cup {c} /\ UNCHANGED delivered /\ o = "Result"
    BY <1>2, <1>5, ThreadAssumption DEF DeliverInline, Deliver, MayThrow
<1>7. HandsOver(c, o) /\ o \in Stdio!Carried(c)
    <2>1. /\ Stdio!Carried(c)' = {} /\ \A q \in Requests \ {c} : Stdio!Carried(q)' = Stdio!Carried(q)
        BY <1>0, <1>3, <1>5, SameAssumptions, Stdio!LoseCarries DEF QueueInv, Stdio!KnownInv
    <2>2. o \in Stdio!Carried(c)
        BY <1>0, <1>2, <1>5, SameAssumptions, Stdio!CarriedIn
    <2> QED BY <1>3, <1>6, <2>1, <2>2 DEF HandsOver
<1>8. HostInv' /\ delivered' \in [Requests -> Seq(Outcomes)]
    BY <1>5, <1>7, HandOver
<1>9. Stdio!KnownInv'
    <2>1. lost' \subseteq Requests
        BY <1>5, <1>6 DEF QueueInv, Stdio!KnownInv, Stdio!TypeInv, Stdio!TypeOK
    <2> QED BY <1>3, <1>4, <2>1, RestKnown DEF QueueInv
<1>10. PlainItems' /\ deferred' \in BOOLEAN
    BY <1>3 DEF QueueInv, PlainItems
<1>11. Stdio!EscapeInv' /\ Stdio!Quiesced'
    <2>1. thr'[Main].at = "idle" /\ \A w \in Workers : thr'[w] = thr[w]
        BY <1>0, <1>3
    <2> QED BY <1>3, <1>10, <2>1, HostRest
<1> QED BY <1>5, <1>7, <1>8, <1>9, <1>10, <1>11 DEF QueueInv

LEMMA DrainedQueue == QueueInv /\ HostDrained => QueueInv'
<1> SUFFICES ASSUME QueueInv, HostDrained PROVE QueueInv'
    OBVIOUS
<1>0. /\ Main \in Stdio!Threads /\ thr \in [Stdio!Threads -> Stdio!Position]
      /\ Stdio!Threads = Workers \cup {Main} /\ Main \notin Workers
    BY ThreadAssumption DEF QueueInv, Stdio!KnownInv, Stdio!TypeInv, Stdio!TypeOK, Stdio!Threads
<1>1. PICK p : p \in Stdio!Position /\ p.at \in {"idle", "destroyed"} /\ thr' = [thr EXCEPT ![Main] = p]
    <2>1. CASE thr' = [thr EXCEPT ![Main] = Resting(Main)]
        <3>1. Resting(Main) \in Stdio!Position /\ Resting(Main).at = "idle"
            BY <1>0, SameAssumptions, Stdio!RestingTyped DEF Resting, Stdio!Resting
        <3> QED BY <2>1, <3>1
    <2>2. CASE thr' = [thr EXCEPT ![Main].at = "destroyed"]
        <3> DEFINE e == [thr[Main] EXCEPT !.at = "destroyed"]
        <3>1. thr' = [thr EXCEPT ![Main] = e]
            BY <1>0, <2>2
        <3>2. e \in Stdio!Position /\ e.at = "destroyed"
            BY <1>0 DEF Stdio!Position, Stdio!Places, Stdio!ForACall, Stdio!WithOutcome, Stdio!Responding
        <3> QED BY <3>1, <3>2
    <2> QED BY <2>1, <2>2 DEF HostDrained
<1>2. /\ thr[Main].at = "drained"
      /\ UNCHANGED <<frame, rdone, cdone, rrefs, crefs, inflight, pending, pushed, escaped, lost, deferred, delivered>>
    BY DEF HostDrained
<1>3. HostInv'
    <2>1. \A r \in Requests : Stdio!Carried(r)' = Stdio!Carried(r)
        BY <1>0, <1>1, <1>2, SameAssumptions, Stdio!MoveCarries DEF QueueInv, Stdio!KnownInv
    <2> QED BY <1>2, <2>1, NothingOver DEF QueueInv
<1>4. Stdio!KnownInv'
    <2>1. lost' \subseteq Requests
        BY <1>2 DEF QueueInv, Stdio!KnownInv, Stdio!TypeInv, Stdio!TypeOK
    <2> QED BY <1>1, <1>2, <2>1, RestKnown DEF QueueInv
<1>5. PlainItems' /\ deferred' \in BOOLEAN /\ delivered' \in [Requests -> Seq(Outcomes)]
    BY <1>2 DEF QueueInv, PlainItems
<1>6. Stdio!EscapeInv' /\ Stdio!Quiesced'
    <2>1. thr'[Main].at \in {"idle", "destroyed"} /\ \A w \in Workers : thr'[w] = thr[w]
        BY <1>0, <1>1
    <2>2. ~escaped
        BY <1>2 DEF QueueInv, Stdio!EscapeInv, Stdio!Draining
    <2> QED BY <1>2, <1>5, <2>1, <2>2, HostRest
<1> QED BY <1>3, <1>4, <1>5, <1>6 DEF QueueInv

LEMMA CatchQueue == QueueInv /\ HostCatches => QueueInv'
<1> SUFFICES ASSUME QueueInv, HostCatches PROVE QueueInv'
    OBVIOUS
<1>1. /\ thr[Main].at = "idle" /\ ~escaped'
      /\ UNCHANGED <<frame, rdone, cdone, rrefs, crefs, inflight, thr, pending, pushed, lost, deferred, delivered>>
    BY DEF HostCatches
<1>2. HostInv'
    <2>1. \A r \in Requests : Stdio!Carried(r)' = Stdio!Carried(r)
        BY <1>1 DEF Stdio!Carried, Stdio!Holding
    <2> QED BY <1>1, <2>1, NothingOver DEF QueueInv
<1>3. Stdio!KnownInv'
    <2> DEFINE m == [j \in 1..Len(pending) |-> j]
    <2>1. /\ \A j \in 1..Len(pending') : m[j] \in 1..Len(pending) /\ pending'[j] = pending[m[j]]
          /\ \A j, k \in 1..Len(pending') : m[j] = m[k] => j = k
        BY <1>1
    <2>2. pending' \in Seq(Stdio!Item) /\ lost' \subseteq Requests /\ escaped' \in BOOLEAN
        BY <1>1 DEF HostCatches, QueueInv, Stdio!KnownInv, Stdio!TypeInv, Stdio!TypeOK
    <2> HIDE DEF m
    <2> QED BY <1>1, <2>1, <2>2, QueueKnown DEF QueueInv
<1>4. PlainItems' /\ deferred' \in BOOLEAN /\ delivered' \in [Requests -> Seq(Outcomes)]
    BY <1>1 DEF QueueInv, PlainItems
<1>5. Stdio!EscapeInv' /\ Stdio!Quiesced'
    BY <1>1, <1>4, HostRest
<1> QED BY <1>2, <1>3, <1>4, <1>5 DEF QueueInv

(* The item that leaves the queue takes along the one answer to its call.     *)
LEMMA ItemCarries ==
    ASSUME QueueInv, NEW i \in 1..Len(pending), pending' = RemoveAt(pending, i), UNCHANGED thr, NEW m,
           m = [j \in 1..Len(pending') |-> IF j < i THEN j ELSE j + 1]
    PROVE  /\ pending' \in Seq(Stdio!Item)
           /\ \A j \in 1..Len(pending') : m[j] \in 1..Len(pending) /\ m[j] # i /\ pending'[j] = pending[m[j]]
           /\ \A j, k \in 1..Len(pending') : m[j] = m[k] => j = k
           /\ \A q \in Requests : pending[i].call # q => Stdio!Carried(q)' = Stdio!Carried(q)
           /\ \A q \in Requests : pending[i].call = q => Stdio!Carried(q)' = {}
<1>0. pending \in Seq(Stdio!Item) /\ Len(pending) \in Nat
    BY DEF QueueInv, Stdio!KnownInv, Stdio!TypeInv, Stdio!TypeOK
<1>1. RemoveAt(pending, i) = Stdio!RemoveAt(pending, i)
    BY DEF RemoveAt, Stdio!RemoveAt
<1>2. /\ pending' \in Seq(Stdio!Item) /\ Len(pending') = Len(pending) - 1
      /\ \A j \in 1..(Len(pending) - 1) : pending'[j] = IF j < i THEN pending[j] ELSE pending[j + 1]
    BY <1>0, <1>1, SameAssumptions, Stdio!RemoveAtProperties
<1>3. \A j \in 1..Len(pending') : m[j] \in 1..Len(pending) /\ m[j] # i /\ pending'[j] = pending[m[j]]
    BY <1>0, <1>2
<1>4. \A j, k \in 1..Len(pending') : m[j] = m[k] => j = k
    BY <1>0, <1>2
<1>5. \A k \in 1..Len(pending) \ {i} : \E j \in 1..Len(pending') : pending'[j] = pending[k]
    <2> SUFFICES ASSUME NEW k \in 1..Len(pending) \ {i} PROVE \E j \in 1..Len(pending') : pending'[j] = pending[k]
        OBVIOUS
    <2>1. CASE k < i
        <3>1. k \in 1..Len(pending') /\ pending'[k] = pending[k]
            BY <1>0, <1>2, <2>1
        <3> QED BY <3>1
    <2>2. CASE i < k
        <3>1. k - 1 \in 1..Len(pending') /\ pending'[k - 1] = pending[k]
            BY <1>0, <1>2, <2>2
        <3> QED BY <3>1
    <2> QED BY <1>0, <2>1, <2>2
<1>6. \A t \in Stdio!Threads, q \in Requests : Stdio!Holding(t, q)' <=> Stdio!Holding(t, q)
    BY DEF Stdio!Holding
<1>7. ASSUME NEW q \in Requests, pending[i].call # q PROVE Stdio!Carried(q)' = Stdio!Carried(q)
    <2>1. {pending'[j].out : j \in {j \in 1..Len(pending') : pending'[j].call = q}}
              = {pending[j].out : j \in {j \in 1..Len(pending) : pending[j].call = q}}
        <3>1. ASSUME NEW x, NEW j \in 1..Len(pending'), pending'[j].call = q, pending'[j].out = x
              PROVE  \E k \in 1..Len(pending) : pending[k].call = q /\ pending[k].out = x
            BY <1>3, <3>1
        <3>2. ASSUME NEW x, NEW k \in 1..Len(pending), pending[k].call = q, pending[k].out = x
              PROVE  \E j \in 1..Len(pending') : pending'[j].call = q /\ pending'[j].out = x
            BY <1>5, <1>7, <3>2
        <3> QED BY <3>1, <3>2
    <2>2. {thr'[t].out : t \in {t \in Stdio!Threads : Stdio!Holding(t, q)'}}
              = {thr[t].out : t \in {t \in Stdio!Threads : Stdio!Holding(t, q)}}
        BY <1>6
    <2> QED BY <2>1, <2>2 DEF Stdio!Carried
<1>8. ASSUME NEW q \in Requests, pending[i].call = q PROVE Stdio!Carried(q)' = {}
    <2>1. Stdio!OneCarrier(q)
        BY DEF QueueInv, Stdio!KnownInv, Stdio!OnceInv
    <2>2. /\ \A j \in 1..Len(pending') : pending'[j].call # q
          /\ \A t \in Stdio!Threads : ~Stdio!Holding(t, q)'
        BY <1>3, <1>6, <1>8, <2>1 DEF Stdio!OneCarrier
    <2> QED BY <2>2 DEF Stdio!Carried
<1> QED BY <1>2, <1>3, <1>4, <1>7, <1>8

LEMMA PollQueue ==
    ASSUME QueueInv, NEW i \in 1..Len(pending), Poll(i)
    PROVE  /\ QueueInv'
           /\ \/ UNCHANGED <<lost, delivered>>
              \/ \E c \in Requests : \E o \in Stdio!Carried(c) : HandsOver(c, o)
<1>1. /\ pending' = RemoveAt(pending, i) /\ thr[Main].at \in {"idle", "drained"}
      /\ UNCHANGED <<frame, rdone, cdone, rrefs, crefs, inflight, thr, pushed, escaped, deferred>>
    BY DEF Poll
<1>2. PICK c, o : c = pending[i].call /\ o = pending[i].out
    OBVIOUS
<1>3. PICK m : m = [j \in 1..Len(pending') |-> IF j < i THEN j ELSE j + 1]
    OBVIOUS
<1>4. /\ pending' \in Seq(Stdio!Item)
      /\ \A j \in 1..Len(pending') : m[j] \in 1..Len(pending) /\ m[j] # i /\ pending'[j] = pending[m[j]]
      /\ \A j, k \in 1..Len(pending') : m[j] = m[k] => j = k
      /\ \A q \in Requests : c # q => Stdio!Carried(q)' = Stdio!Carried(q)
      /\ \A q \in Requests : c = q => Stdio!Carried(q)' = {}
    <2>1. UNCHANGED thr /\ pending' = RemoveAt(pending, i)
        BY <1>1
    <2>2. /\ \A q \in Requests : pending[i].call # q => Stdio!Carried(q)' = Stdio!Carried(q)
          /\ \A q \in Requests : pending[i].call = q => Stdio!Carried(q)' = {}
        BY <1>3, <2>1, ItemCarries
    <2>3. /\ pending' \in Seq(Stdio!Item)
          /\ \A j \in 1..Len(pending') : m[j] \in 1..Len(pending) /\ m[j] # i /\ pending'[j] = pending[m[j]]
          /\ \A j, k \in 1..Len(pending') : m[j] = m[k] => j = k
        BY <1>3, <2>1, ItemCarries
    <2> QED BY <1>2, <2>2, <2>3
<1>5. c \in Requests \cup {NoCall} /\ o \in (IF c = NoCall THEN {"Notification"} ELSE Outcomes)
    <2>1. pending[i] \in Stdio!Item
        BY DEF QueueInv, Stdio!KnownInv, Stdio!TypeInv, Stdio!TypeOK
    <2>2. c \in Requests \cup {NoCall}
        BY <1>2, <2>1 DEF Stdio!Item
    <2> QED BY <1>2, <2>2 DEF QueueInv, PlainItems
<1>6. /\ HostInv' /\ delivered' \in [Requests -> Seq(Outcomes)]
      /\ lost' \subseteq Requests
      /\ UNCHANGED <<lost, delivered>> \/ \E r \in Requests : \E x \in Stdio!Carried(r) : HandsOver(r, x)
    <2>1. CASE c = NoCall
        <3>1. UNCHANGED <<lost, delivered>>
            BY <1>2, <1>5, <2>1 DEF Poll, Deliver, MayThrow
        <3>2. HostInv'
            BY <1>1, <1>4, <2>1, <3>1, NothingOver, ThreadAssumption DEF QueueInv
        <3> QED BY <3>1, <3>2 DEF QueueInv, Stdio!KnownInv, Stdio!TypeInv, Stdio!TypeOK
    <2>2. CASE c \in Requests
        <3>1. \/ delivered' = [delivered EXCEPT ![c] = Append(@, o)] /\ UNCHANGED lost
              \/ lost' = lost \cup {c} /\ UNCHANGED delivered /\ o = "Result"
            BY <1>2, <2>2, ThreadAssumption DEF Poll, Deliver, MayThrow
        <3>2. o \in Stdio!Carried(c)
            BY <1>2, SameAssumptions, Stdio!CarriedIn
        <3>3. HandsOver(c, o)
            BY <1>1, <1>4, <2>2, <3>1 DEF HandsOver
        <3>4. HostInv' /\ delivered' \in [Requests -> Seq(Outcomes)]
            BY <2>2, <3>2, <3>3, HandOver
        <3> QED BY <2>2, <3>1, <3>2, <3>3, <3>4 DEF QueueInv, Stdio!KnownInv, Stdio!TypeInv, Stdio!TypeOK
    <2> QED BY <1>5, <2>1, <2>2
<1>7. Stdio!KnownInv'
    <2>1. escaped' \in BOOLEAN
        BY <1>1 DEF QueueInv, Stdio!KnownInv, Stdio!TypeInv, Stdio!TypeOK
    <2> QED BY <1>1, <1>4, <1>6, <2>1, QueueKnown DEF QueueInv
<1>8. PlainItems' /\ deferred' \in BOOLEAN
    BY <1>1, <1>4 DEF QueueInv, PlainItems
<1>9. Stdio!EscapeInv' /\ Stdio!Quiesced'
    <2>1. escaped' => escaped
        BY <1>1
    <2>2. UNCHANGED <<thr, inflight, escaped>>
        BY <1>1
    <2> QED BY <1>8, <2>2, HostRest
<1> QED BY <1>6, <1>7, <1>8, <1>9 DEF QueueInv

LEMMA InitQueue == Init => QueueInv
<1> SUFFICES ASSUME Init PROVE QueueInv
    OBVIOUS
<1>1. Stdio!Init
    BY DEF Init, SInit, Stdio!Init, Stdio!SInit, Resting, Stdio!Resting, Threads, Stdio!Threads
<1>2. Stdio!KnownInv /\ Stdio!EscapeInv
    BY <1>1, SameAssumptions, Stdio!InitKnown, Stdio!InitEscape
<1>3. /\ thr[Main].at = "idle" /\ pending = <<>> /\ lost = {}
      /\ delivered = [r \in Requests |-> <<>>] /\ deferred \in BOOLEAN
      /\ \A r \in Requests : frame[r] = Unread /\ ~cdone[r]
    BY DEF Init, SInit, Resting, Threads
<1>4. Stdio!Quiesced /\ PlainItems /\ delivered \in [Requests -> Seq(Outcomes)]
    <2>1. <<>> \in Seq(Outcomes)
        OBVIOUS
    <2> QED BY <1>3, <2>1 DEF Stdio!Quiesced, Stdio!Ended, Stdio!Gone, PlainItems
<1>5. HostInv
    <2>1. \A r \in Requests : Stdio!Carried(r) = {}
        BY <1>2, <1>3, SameAssumptions, Stdio!NoneCarried DEF Stdio!KnownInv, Stdio!OnceInv, Stdio!Unclaimed
    <2> QED BY <1>3, <2>1 DEF HostInv, AnswerKept
<1> QED BY <1>2, <1>3, <1>4, <1>5 DEF QueueInv

LEMMA NextQueue == QueueInv /\ [Next]_vars => QueueInv'
<1> SUFFICES ASSUME QueueInv, [Next]_vars PROVE QueueInv'
    OBVIOUS
<1>1. CASE ServerStep \/ HostWaits \/ UNCHANGED vars
    <2>1. deferred' \in BOOLEAN /\ delivered' \in [Requests -> Seq(Outcomes)]
        BY <1>1, SharedSteps DEF QueueInv
    <2> QED BY <1>1, <2>1, SharedKnown, SharedPlain, SharedHost DEF QueueInv
<1> QED BY <1>1, InlineQueue, DrainedQueue, CatchQueue, PollQueue DEF Next, HostPolls, Stopped

LEMMA QueueStays == Spec => []QueueInv
BY InitQueue, NextQueue, PTL DEF Spec

-----------------------------------------------------------------------------
(* What the host can rely on.                                                 *)

(* Every variable keeps its type: the counter never goes below zero, and what *)
(* the host is given is a sequence of outcomes.                               *)
THEOREM QueueTyping == Spec => []TypeOK
<1>1. ASSUME QueueInv PROVE TypeOK
    <2>1. Stdio!TypeOK
        BY <1>1 DEF QueueInv, Stdio!KnownInv, Stdio!TypeInv
    <2>2. inflight \in Nat
        BY <1>1, SameAssumptions, Stdio!NeverNegative DEF QueueInv, Stdio!KnownInv
    <2>3. ASSUME NEW i \in 1..Len(pending) PROVE pending[i] \in Item /\ pending[i].out # "Exit"
        <3>1. pending[i] \in Stdio!Item
            BY <2>1 DEF Stdio!TypeOK
        <3>2. pending[i].out \in {"Notification"} \cup Outcomes
            BY <1>1 DEF QueueInv, PlainItems
        <3> QED BY <3>1, <3>2 DEF Item, Stdio!Item, Threads, Stdio!Threads, Outcomes, Stdio!Outcomes
    <2>4. thr \in [Threads -> Position]
        BY <2>1 DEF Stdio!TypeOK, Threads, Stdio!Threads, Position, Stdio!Position, Outcomes, Stdio!Outcomes,
               Places, Stdio!Places, Continuations, Stdio!Continuations, ForACall, Stdio!ForACall,
               WithOutcome, Stdio!WithOutcome, Responding, Stdio!Responding
    <2>5. /\ frame \in [Requests -> Input \cup {Unread}]
          /\ rdone \in [Requests -> BOOLEAN] /\ cdone \in [Requests -> BOOLEAN]
          /\ rrefs \in [Requests -> SUBSET Threads] /\ crefs \in [Requests -> SUBSET (Threads \cup {Closures})]
          /\ pushed \in 0..MaxPush /\ escaped \in BOOLEAN /\ lost \subseteq Requests
        BY <2>1 DEF Stdio!TypeOK, Threads, Stdio!Threads, Closures, Stdio!Closures
    <2>6. deferred \in BOOLEAN /\ \A r \in Requests : delivered[r] \in Seq(Outcomes)
        BY <1>1 DEF QueueInv
    <2> QED BY <2>2, <2>3, <2>4, <2>5, <2>6 DEF TypeOK
<1> QED BY <1>1, QueueStays, PTL

(* When the counter is zero on the host's thread, no answer is on its way.    *)
LEMMA QuietHost ==
    ASSUME QueueInv, inflight = 0, thr[Main].at \in {"idle", "drained", "destroyed"}, NEW r \in Requests, frame[r] # Unread
    PROVE  /\ Stdio!Carried(r) # {} <=> Queued(r)
           /\ \/ Queued(r) /\ delivered[r] = <<>> /\ r \notin lost
              \/ ~Queued(r) /\ delivered[r] # <<>> /\ r \notin lost
              \/ ~Queued(r) /\ delivered[r] = <<>> /\ r \in lost
<1>1. crefs[r] = {} /\ \A t \in Stdio!Threads : ~Stdio!Holding(t, r)
    BY SameAssumptions, Stdio!DrainedIsQuiet DEF QueueInv
<1>2. Stdio!Carried(r) # {} <=> Queued(r)
    BY <1>1, SameAssumptions, Stdio!NoneCarried DEF Stdio!NoCarrier, Queued
<1>3. AnswerKept(r)
    BY DEF QueueInv, HostInv
<1>4. r \notin lost /\ delivered[r] = <<>> => Queued(r)
    BY <1>1, <1>2, <1>3 DEF AnswerKept
<1>5. r \in lost \/ delivered[r] # <<>> => ~Queued(r)
    BY <1>2, <1>3 DEF AnswerKept
<1>6. r \in lost => delivered[r] = <<>>
    BY <1>3 DEF AnswerKept
<1> QED BY <1>2, <1>4, <1>5, <1>6

LEMMA OneOfThree ==
    ASSUME NEW a \in BOOLEAN, NEW b \in BOOLEAN, NEW c \in BOOLEAN, 
           (a /\ ~b /\ ~c) \/ (~a /\ b /\ ~c) \/ (~a /\ ~b /\ c)
    PROVE  Cardinality({k \in 1..3 : <<a, b, c>>[k]}) = 1
<1> DEFINE S == {k \in 1..3 : <<a, b, c>>[k]}
<1>1. \A k : k \in S <=> (k = 1 /\ a) \/ (k = 2 /\ b) \/ (k = 3 /\ c)
    OBVIOUS
<1> HIDE DEF S
<1>2. S = {1} \/ S = {2} \/ S = {3}
    BY <1>1
<1>3. Cardinality(S) = 1
    BY <1>2, FS_Singleton
<1> QED BY <1>3 DEF S

(* A host that polls may go by the counter alone: when it reads zero on the   *)
(* host's own thread, the answer to every request that was read is in the     *)
(* queue, delivered or lost to an exception, and exactly one of the three.    *)
THEOREM QuietIsQueued == Spec => []QuietMeansQueued
<1>1. QueueInv => QuietMeansQueued
    <2> SUFFICES ASSUME QueueInv, inflight = 0, thr[Main].at \in {"idle", "drained", "destroyed"}, NEW r \in Accepted
                 PROVE  Cardinality({k \in 1..3 : <<Queued(r), delivered[r] # <<>>, r \in lost>>[k]}) = 1
        BY DEF QuietMeansQueued
    <2> DEFINE a == Queued(r)
               b == delivered[r] # <<>>
               c == r \in lost
    <2>1. a \in BOOLEAN /\ b \in BOOLEAN /\ c \in BOOLEAN
        BY DEF Queued
    <2>2. (a /\ ~b /\ ~c) \/ (~a /\ b /\ ~c) \/ (~a /\ ~b /\ c)
        BY QuietHost DEF Accepted
    <2> HIDE DEF a, b, c
    <2>3. Cardinality({k \in 1..3 : <<a, b, c>>[k]}) = 1
        BY <2>1, <2>2, OneOfThree
    <2> QED BY <2>3 DEF a, b, c
<1> QED BY <1>1, QueueStays, PTL

-----------------------------------------------------------------------------
(* The contract.                                                              *)
Answers == [r \in Requests |-> CASE Len(delivered[r]) = 0 -> NoAnswer
                                 [] Len(delivered[r]) = 1 -> delivered[r][1]
                                 [] OTHER -> "Twice"]
Over    == thr[Main].at = "destroyed"

(* The contract speaks of the same classes of frames. *)
LEMMA ContractFrames ==
    /\ \A f : Contract!MayLose(f) <=> f \in (SyncFrames \ BadSync) \cup (AsyncFrames \ BadAsync)
    /\ \A f : Contract!MayAnswer(f) = MayAnswer(f)
<1>1. /\ Contract!SyncFrames = SyncFrames /\ Contract!AsyncFrames = AsyncFrames
      /\ Contract!BadSync = BadSync /\ Contract!BadAsync = BadAsync
      /\ Contract!Unreadable = Unreadable /\ Contract!WrongVersion = WrongVersion
      /\ Contract!NotFound = NotFound /\ Contract!Outcomes = Outcomes
    BY DEF SyncFrames, AsyncFrames, TypedFrames, BadSync, BadAsync, Unreadable, WrongVersion, NotFound, Routed,
           Outcomes, Contract!SyncFrames, Contract!AsyncFrames, Contract!TypedFrames, Contract!BadSync,
           Contract!BadAsync, Contract!Unreadable, Contract!WrongVersion, Contract!NotFound, Contract!Routed,
           Contract!Outcomes
<1> QED BY <1>1 DEF Contract!MayLose, Contract!MayAnswer, MayAnswer

LEMMA ContractVars ==
    /\ UNCHANGED <<frame, Answers, lost, Over>> => UNCHANGED Contract!vars
    /\ UNCHANGED delivered => UNCHANGED Answers
BY DEF Answers, Over, Contract!vars

LEMMA AnswerValue ==
    /\ \A r \in Requests : delivered[r] = <<>> => Answers[r] = NoAnswer
    /\ \A r \in Requests, o \in Outcomes : delivered[r] = <<o>> => Answers[r] = o
<1>1. ASSUME NEW r \in Requests, delivered[r] = <<>> PROVE Answers[r] = NoAnswer
    <2>1. Len(delivered[r]) = 0
        BY <1>1
    <2> QED BY <2>1 DEF Answers
<1>2. ASSUME NEW r \in Requests, NEW o \in Outcomes, delivered[r] = <<o>> PROVE Answers[r] = o
    <2>1. Len(delivered[r]) = 1 /\ Len(delivered[r]) # 0 /\ delivered[r][1] = o
        BY <1>2
    <2> QED BY <2>1 DEF Answers
<1> QED BY <1>1, <1>2

(* Main leaves the server only when the host does.                            *)
LEMMA OnlyHostEnds ==
    ASSUME QueueInv, ServerStep
    PROVE  UNCHANGED Over
<1>0. Main \in Stdio!Threads /\ thr \in [Stdio!Threads -> Stdio!Position]
    BY DEF QueueInv, Stdio!KnownInv, Stdio!TypeInv, Stdio!TypeOK, Stdio!Threads
<1>1. CASE thr'[Main] = thr[Main]
    BY <1>1 DEF Over
<1>2. CASE /\ thr[Main].at \in Stdio!Working \cup {"asleep"}
           /\ thr'[Main].at \in Stdio!Working \cup {"lock"}
    BY <1>2 DEF Over, Stdio!Working, Stdio!ForACall
<1>3. CASE Stdio!WaitStep \/ Stdio!SpuriousWake
    <2>1. PICK place \in {"check", "block", "asleep", "lock", "drained"} : thr' = [thr EXCEPT ![Main].at = place]
        BY <1>3 DEF Stdio!WaitStep, Stdio!WaitLock, Stdio!WaitCheck, Stdio!WaitBlock, Stdio!SpuriousWake
    <2>2. thr'[Main].at = place
        BY <1>0, <2>1 DEF Stdio!Position
    <2>3. thr[Main].at \in {"check", "block", "asleep", "lock"}
        BY <1>3 DEF Stdio!WaitStep, Stdio!WaitLock, Stdio!WaitCheck, Stdio!WaitBlock, Stdio!SpuriousWake
    <2> QED BY <2>2, <2>3 DEF Over
<1>4. Stdio!ServerStep
    BY ServerSteps
<1> QED BY <1>1, <1>2, <1>3, <1>4, SameAssumptions, Stdio!ServerMoves DEF QueueInv, Stdio!KnownInv

LEMMA InitContract == Init => Contract!Init
<1> SUFFICES ASSUME Init PROVE Contract!Init
    OBVIOUS
<1>1. \A r \in Requests : delivered[r] = <<>>
    BY DEF Init
<1>2. thr[Main].at = "idle"
    BY DEF Init, SInit, Resting, Threads
<1> QED BY <1>1, <1>2 DEF Contract!Init, Init, SInit

(* Handing an answer over answers an open call; a thunk that throws loses it. *)
LEMMA HandStep ==
    ASSUME QueueInv, NEW c \in Requests, NEW o \in Stdio!Carried(c), HandsOver(c, o), ~Over, ~Over'
    PROVE  Contract!Answer(c, o) \/ Contract!Lose(c)
<1>1. /\ frame[c] # Unread /\ c \notin lost /\ delivered[c] = <<>>
      /\ o \in MayAnswer(frame[c]) /\ o \in Outcomes /\ (o = "Result" => Contract!MayLose(frame[c]))
    BY CarriedIsOpen
<1>2. Answers[c] = NoAnswer
    BY <1>1, AnswerValue
<1>3. Contract!Open(c)
    BY <1>1, <1>2 DEF Contract!Open, Answers
<1>4. CASE delivered' = [delivered EXCEPT ![c] = Append(@, o)] /\ UNCHANGED lost
    <2>1. Answers' = [Answers EXCEPT ![c] = o]
        <3>1. delivered'[c] = <<o>> /\ \A q \in Requests \ {c} : delivered'[q] = delivered[q]
            BY <1>1, <1>4 DEF QueueInv
        <3>2. Answers'[c] = o
            <4>1. Len(delivered'[c]) = 1 /\ Len(delivered'[c]) # 0 /\ delivered'[c][1] = o
                BY <3>1
            <4> QED BY <4>1 DEF Answers
        <3>3. \A q \in Requests \ {c} : Answers'[q] = Answers[q]
            BY <3>1 DEF Answers
        <3>4. PICK F, G : F = Answers /\ G = Answers'
            OBVIOUS
        <3>5. F = [q \in Requests |-> F[q]] /\ G = [q \in Requests |-> G[q]]
            BY <3>4 DEF Answers
        <3>6. G[c] = o /\ \A q \in Requests \ {c} : G[q] = F[q]
            BY <3>2, <3>3, <3>4
        <3>7. G = [F EXCEPT ![c] = o]
            BY <3>5, <3>6
        <3> QED BY <3>4, <3>7
    <2>2. o \in Contract!MayAnswer(frame[c])
        BY <1>1, ContractFrames
    <2> QED BY <1>3, <1>4, <2>1, <2>2 DEF Contract!Answer, HandsOver, Answers, Over
<1>5. CASE lost' = lost \cup {c} /\ UNCHANGED delivered /\ o = "Result"
    <2>1. UNCHANGED Answers
        BY <1>5, ContractVars
    <2> QED BY <1>1, <1>3, <1>5, <2>1 DEF Contract!Lose, HandsOver, Answers, Over
<1> QED BY <1>4, <1>5 DEF HandsOver

(* Reading a frame accepts it.                                                *)
LEMMA AcceptStep ==
    ASSUME QueueInv, ServerStep, NEW r \in Requests, NEW f \in Input,
           ProcessInline(r, f) \/ DispatchAsync(r, f) \/ InlineEscapes(r, f)
    PROVE  Contract!Accept(r, f)
<1>1. /\ thr[Main].at = "idle" /\ frame[r] = Unread /\ frame' = [frame EXCEPT ![r] = f]
      /\ lost' = lost \/ (Contract!MayLose(f) /\ lost' = lost \cup {r})
    BY ContractFrames DEF ProcessInline, DispatchAsync, InlineEscapes
<1>2. ~Over /\ UNCHANGED <<Answers, Over>>
    BY <1>1, OnlyHostEnds, ServerSteps, ContractVars DEF Over
<1> QED BY <1>1, <1>2 DEF Contract!Accept, Answers, Over

(* A text a byte codec refuses takes the answer of an open call.              *)
LEMMA RefuseStep ==
    ASSUME QueueInv, QueueInv', ServerStep, NEW t \in Threads, ErrorFails(t)
    PROVE  \E c \in Requests : Contract!Lose(c)
<1>0. t \in Stdio!Threads /\ thr \in [Stdio!Threads -> Stdio!Position]
    BY DEF Threads, QueueInv, Stdio!KnownInv, Stdio!TypeInv, Stdio!TypeOK, Stdio!Threads
<1>1. PICK c \in Requests : c = thr[t].call
    BY <1>0 DEF ErrorFails, Stdio!Position, Stdio!ForACall
<1>2. Stdio!Holding(t, c) /\ lost' = lost \cup {c} /\ UNCHANGED frame
    BY <1>1 DEF ErrorFails, Stdio!Holding
<1>3. thr[t].out \in Stdio!Carried(c)
    BY <1>0, <1>2, SameAssumptions, Stdio!CarriedIn
<1>4. frame[c] # Unread /\ c \notin lost /\ delivered[c] = <<>>
    BY <1>3, CarriedIsOpen
<1>5. Contract!MayLose(frame[c])
    BY <1>2 DEF QueueInv, HostInv, AnswerKept
<1>6. ~Over
    <2> SUFFICES ASSUME Over PROVE FALSE
        OBVIOUS
    <2>1. ~escaped /\ thr[Main].at \in Stdio!Ended
        BY DEF Over, Stdio!Ended, Stdio!Gone, QueueInv, Stdio!EscapeInv
    <2> QED BY <1>0, <1>2, <2>1, SameAssumptions, Stdio!EndedIsQuiet DEF QueueInv, Stdio!Quiesced
<1>7. UNCHANGED <<Answers, Over>>
    BY OnlyHostEnds, ServerSteps, ContractVars
<1>8. Contract!Open(c)
    BY <1>4, AnswerValue DEF Contract!Open, Answers
<1> QED BY <1>2, <1>5, <1>6, <1>7, <1>8 DEF Contract!Lose, Answers, Over

(* The host leaves with no call open. *)
LEMMA FinishStep ==
    ASSUME QueueInv, HostDrained
    PROVE  Contract!Finish \/ UNCHANGED Contract!vars
<1>1. /\ thr[Main].at = "drained" /\ pending = <<>> /\ UNCHANGED <<frame, lost, delivered, Answers>>
      /\ Main \in Stdio!Threads /\ thr \in [Stdio!Threads -> Stdio!Position]
    BY ContractVars DEF HostDrained, QueueInv, Stdio!KnownInv, Stdio!TypeInv, Stdio!TypeOK, Stdio!Threads
<1>2. CASE Over'
    <2>1. inflight = 0
        BY <1>1 DEF QueueInv, Stdio!Quiesced, Stdio!EscapeInv, Stdio!Ended, Stdio!Draining
    <2>2. \A r \in Requests : ~Contract!Open(r)
        <3> SUFFICES ASSUME NEW r \in Requests, frame[r] # Unread, r \notin lost PROVE Answers[r] # NoAnswer
            BY DEF Contract!Open, Answers
        <3>1. delivered[r] # <<>>
            BY <1>1, <2>1, QuietHost DEF Queued
        <3>2. PICK o \in Outcomes : delivered[r] = <<o>>
            BY <3>1 DEF QueueInv, HostInv, AnswerKept, MayAnswer
        <3> QED BY <3>2, AnswerValue, AnswerAssumption
    <2>3. ~Over
        BY <1>1 DEF Over
    <2> QED BY <1>1, <1>2, <2>2, <2>3 DEF Contract!Finish, Answers, Over
<1>3. CASE ~Over'
    <2>1. ~Over
        BY <1>1 DEF Over
    <2> QED BY <1>1, <1>3, <2>1, ContractVars DEF Over
<1> QED BY <1>2, <1>3

LEMMA NextContract == QueueInv /\ QueueInv' /\ [Next]_vars => [Contract!Next]_(Contract!vars)
<1> SUFFICES ASSUME QueueInv, QueueInv', [Next]_vars
             PROVE  Contract!Next \/ UNCHANGED Contract!vars
    OBVIOUS
<1>0. Contract!Outcomes = Outcomes
    BY DEF Outcomes, Contract!Outcomes
<1>1. CASE ServerStep
    <2>1. ASSUME NEW r \in Requests, NEW f \in Input, ProcessInline(r, f) \/ DispatchAsync(r, f) \/ InlineEscapes(r, f)
          PROVE  Contract!Next
        BY <1>1, <2>1, AcceptStep DEF Contract!Next
    <2>2. ASSUME NEW t \in Threads, ErrorFails(t) PROVE Contract!Next
        BY <1>1, <2>2, RefuseStep DEF Contract!Next
    <2>3. ASSUME UNCHANGED <<frame, lost>> PROVE UNCHANGED Contract!vars
        BY <1>1, <2>3, OnlyHostEnds, ServerSteps, ContractVars
    <2>4. \/ \E r \in Requests, f \in Input : ProcessInline(r, f) \/ DispatchAsync(r, f) \/ InlineEscapes(r, f)
          \/ \E t \in Threads : ErrorFails(t)
          \/ UNCHANGED <<frame, lost>>
        BY <1>1 DEF ServerStep, SNext, CopyHandle, Drop, DropResolver, DropContext,
           Fire, Respond, LibraryStep, Encode, Claim, Send, Release, Complete, Notify, NotifyUnlocked, Push, HandlerReturn,
           HandlerThrow, HandlerEscapes, LeaveResolver, LeaveContext, WaitStep, WaitLock, WaitCheck, WaitBlock,
           SpuriousWake, CodecFails, EncodeFails
    <2> QED BY <2>1, <2>2, <2>3, <2>4
<1>2. ASSUME NEW c \in Requests, NEW o \in Stdio!Carried(c), HandsOver(c, o), ~Over, ~Over' PROVE Contract!Next
    <2>1. o \in Outcomes
        BY CarriedIsOpen
    <2> QED BY <1>0, <1>2, <2>1, HandStep DEF Contract!Next
<1>3. CASE DeliverInline
    <2>1. ~Over /\ ~Over'
        BY <1>3 DEF DeliverInline, Resting, Over, Threads, QueueInv, Stdio!KnownInv, Stdio!TypeInv, Stdio!TypeOK, Stdio!Threads
    <2> QED BY <1>2, <1>3, <2>1, InlineQueue
<1>4. ASSUME NEW i \in 1..Len(pending), Poll(i) PROVE Contract!Next \/ UNCHANGED Contract!vars
    <2>1. ~Over /\ ~Over' /\ UNCHANGED frame
        BY <1>4 DEF Poll, Over
    <2>2. CASE UNCHANGED <<lost, delivered>>
        <3>1. UNCHANGED Over
            BY <2>1 DEF Over
        <3> QED BY <2>1, <2>2, <3>1, ContractVars
    <2>3. CASE \E c \in Requests : \E o \in Stdio!Carried(c) : HandsOver(c, o)
        <3>1. PICK c \in Requests : \E o \in Stdio!Carried(c) : HandsOver(c, o)
            BY <2>3
        <3>2. PICK o \in Stdio!Carried(c) : HandsOver(c, o)
            BY <3>1
        <3> QED BY <1>2, <2>1, <3>2
    <2>4. \/ UNCHANGED <<lost, delivered>>
          \/ \E c \in Requests : \E o \in Stdio!Carried(c) : HandsOver(c, o)
        BY <1>4, PollQueue
    <2> QED BY <2>2, <2>3, <2>4
<1>5. CASE HostCatches \/ HostWaits \/ UNCHANGED vars
    <2>1. UNCHANGED <<frame, lost, delivered>>
        BY <1>5 DEF HostCatches, HostWaits, vars
    <2>2. UNCHANGED Over
        BY <1>5 DEF HostCatches, HostWaits, vars, Over, QueueInv, Stdio!KnownInv, Stdio!TypeInv, Stdio!TypeOK,
               Stdio!Threads, Stdio!Position
    <2> QED BY <2>1, <2>2, ContractVars
<1>6. CASE HostDrained
    BY <1>6, FinishStep DEF Contract!Next
<1> QED BY <1>1, <1>3, <1>4, <1>5, <1>6 DEF Next, HostPolls, Stopped

(* The embedded server implements the contract of the one on stdio, whatever  *)
(* order the queue gives its items in and whichever codec makes them: every   *)
(* frame read is answered once, with an answer its class allows, or lost to   *)
(* an exception; and the host does not leave before that.                     *)
THEOREM HostKeepsContract == Spec => ImplementsContract
<1>1. QueueInv /\ QueueInv' /\ [Next]_vars => [Contract!Next]_(Contract!vars)
    BY NextContract
<1> QED BY <1>1, InitContract, QueueStays, PTL DEF Spec, ImplementsContract, Contract!Spec
=============================================================================
