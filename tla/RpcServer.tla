----------------------------- MODULE RpcServer -----------------------------
(* RpcServer.h, Resolver.h and the async half of TypedRpcServer.h: dispatch,  *)
(* the handles a handler may keep and use from other threads, the once-flags, *)
(* the destructors, the in-flight counter and waitForInflight.                *)
(*                                                                            *)
(* One step of a thread is one access to state another thread can see: an     *)
(* exchange on a once-flag, a reference count reaching its new value, an      *)
(* enqueue, a fetch_sub, a lock.  A destructor's exchange is part of the step *)
(* that drops the last reference: no other thread can reach the object then.  *)
(*                                                                            *)
(* Main runs the read loop and, on its stack, the handlers.  A handler may    *)
(* copy its handle to workers; a copy handed on later from worker to worker   *)
(* adds nothing, because that worker may as well have held it from the start  *)
(* and used it late.                                                          *)
EXTENDS RpcProtocol, Integers, Sequences, FiniteSets

CONSTANTS
    Requests,       \* request slots: one per frame the client ever sends
    Workers,        \* user threads that hold handles
    Main,           \* the thread that runs the read loop and the handlers
    Unread,         \* frame[r] of a request not read yet
    NoCall, NoOutcome, Nowhere,
    MaxPush         \* bound on the notifications user code pushes

ASSUME ThreadAssumption == Main \notin Workers /\ NoCall \notin Requests
ASSUME FrameAssumption == Unread \notin Input
ASSUME PushAssumption == MaxPush \in Nat

Threads == Workers \cup {Main}

(* The reference to an AsyncContext::State held by the onResolve and onReject *)
(* closures of a Resolver::State.                                             *)
Closures == "closures"

ASSUME ClosuresAssumption == Closures \notin Threads

VARIABLES
    frame,      \* frame[r]: what was read for request r
    rdone,      \* Resolver::State::done
    cdone,      \* AsyncContext::State::done
    rrefs,      \* rrefs[r]: threads with a reference to the Resolver::State
    crefs,      \* crefs[r]: threads (and Closures) with one to the AsyncContext::State
    inflight,   \* RpcServer::_inflight
    thr,        \* thr[t]: where thread t is, for which call, with which outcome
    pending,    \* the transport's queue, in enqueue order
    pushed,     \* notifications pushed so far
    escaped,    \* an exception is on its way out of processMessage, on Main
    lost        \* requests whose answer an exception took with it (history)

svars == <<frame, rdone, cdone, rrefs, crefs, inflight, thr, pending, pushed, escaped, lost>>

(* Where a thread may be.  "user" is user code: a handler's body on Main, the *)
(* worker's own loop on a worker.                                             *)
Places == {"idle", "reply", "user", "encode", "claim", "send", "release", "complete",
           "notify", "leaveResolver", "leaveContext",
           "lock", "check", "block", "asleep", "drained", "join", "returned", "destroyed"}

Item == [by : Threads, call : Requests \cup {NoCall}, out : Outcomes \cup {"Notification", "Exit"}]

(* A thread inside the library is there for a call; it carries the outcome it *)
(* is going to answer with up to the enqueue, and knows where to go on then.  *)
ForACall == {"reply", "encode", "claim", "send", "release", "complete", "notify",
             "leaveResolver", "leaveContext"}
WithOutcome == {"reply", "encode", "claim", "send"}
Responding  == {"encode", "claim", "send"}
Continuations == {"user", "release", "complete", "leaveResolver", "leaveContext"}

Position == {p \in [at : Places, call : Requests \cup {NoCall}, out : Outcomes \cup {NoOutcome},
                    then : Continuations \cup {Nowhere}] :
                /\ p.at \in ForACall => p.call \in Requests
                /\ p.at \in WithOutcome => p.out \in Outcomes
                /\ p.at \in Responding => p.then \in Continuations}

Resting(t) == [at |-> IF t = Main THEN "idle" ELSE "user",
               call |-> NoCall, out |-> NoOutcome, then |-> Nowhere]

SInit == /\ frame = [r \in Requests |-> Unread]
         /\ rdone = [r \in Requests |-> FALSE]
         /\ cdone = [r \in Requests |-> FALSE]
         /\ rrefs = [r \in Requests |-> {}]
         /\ crefs = [r \in Requests |-> {}]
         /\ inflight = 0
         /\ thr = [t \in Threads |-> Resting(t)]
         /\ pending = <<>>
         /\ pushed = 0
         /\ escaped = FALSE
         /\ lost = {}

-----------------------------------------------------------------------------
(* Mutant of Jump: the thread forgets its call on every return. *)
JumpForgetful(t, place) == [Resting(t) EXCEPT !.at = place]

(* Thread t goes on at `place`: a worker back in its loop, and Main back at   *)
(* the read loop, leave the call behind.                                      *)
Jump(t, place) ==
    IF place = "idle" \/ (place = "user" /\ t # Main) THEN Resting(t)
    ELSE [at |-> place, call |-> thr[t].call, out |-> NoOutcome, then |-> Nowhere]

(* Thread t enters library code for call r with outcome o, then goes to `next`. *)
Enter(t, place, r, o, next) ==
    thr' = [thr EXCEPT ![t] = [at |-> place, call |-> r, out |-> o, then |-> next]]

(* _send, through the transport: an enqueue by the calling thread. *)
Enqueue(t, r, o) == pending' = Append(pending, [by |-> t, call |-> r, out |-> o])

IsTyped(r) == frame[r] \in TypedFrames
IsRaw(r)   == frame[r] \in AsyncFrames \ TypedFrames

-----------------------------------------------------------------------------
(* processMessage: the frame is answered inline, or a call is dispatched.     *)
ProcessInline(r, f) ==
    /\ thr[Main].at = "idle" /\ ~escaped /\ frame[r] = Unread
    /\ f \notin AsyncFrames
    /\ frame' = [frame EXCEPT ![r] = f]
    /\ \E o \in MayAnswer(f) : Enter(Main, "reply", r, o, Nowhere)
    /\ UNCHANGED <<rdone, cdone, rrefs, crefs, inflight, pending, pushed, escaped, lost>>

(* dispatchAsync: the state is made, the counter goes up and the handler is   *)
(* called.  A typed handler first decodes the params: if that fails it        *)
(* responds -32602 and returns; if not, it makes the Resolver::State, whose   *)
(* closures copy the context.                                                 *)
DispatchAsync(r, f) ==
    /\ thr[Main].at = "idle" /\ ~escaped /\ frame[r] = Unread
    /\ f \in AsyncFrames
    /\ frame' = [frame EXCEPT ![r] = f]
    /\ inflight' = inflight + 1
    /\ \/ /\ f \in BadAsync
          /\ crefs' = [crefs EXCEPT ![r] = {Main}]
          /\ Enter(Main, "claim", r, "InvalidParams", "leaveContext")
          /\ UNCHANGED rrefs
       \/ /\ f \in TypedFrames \ BadAsync
          /\ crefs' = [crefs EXCEPT ![r] = {Main, Closures}]
          /\ rrefs' = [rrefs EXCEPT ![r] = {Main}]
          /\ Enter(Main, "user", r, NoOutcome, Nowhere)
       \/ /\ f \notin TypedFrames
          /\ crefs' = [crefs EXCEPT ![r] = {Main}]
          /\ Enter(Main, "user", r, NoOutcome, Nowhere)
          /\ UNCHANGED rrefs
    /\ UNCHANGED <<rdone, cdone, pending, pushed, escaped, lost>>

(* The running handler gives worker w a copy of its handle. *)
CopyHandle(w, r) ==
    /\ thr[Main].at = "user" /\ thr[Main].call = r
    /\ \/ /\ IsTyped(r) /\ w \notin rrefs[r]
          /\ rrefs' = [rrefs EXCEPT ![r] = @ \cup {w}]
          /\ UNCHANGED crefs
       \/ /\ IsRaw(r) /\ w \notin crefs[r]
          /\ crefs' = [crefs EXCEPT ![r] = @ \cup {w}]
          /\ UNCHANGED rrefs
    /\ UNCHANGED <<frame, rdone, cdone, inflight, thr, pending, pushed, escaped, lost>>

-----------------------------------------------------------------------------
(* Resolver::resolve and reject.  The exchange decides: a caller that finds   *)
(* the flag set returns without effect, a step that changes nothing.          *)
Fire(t, r, o) ==
    /\ thr[t].at = "user" /\ t \in rrefs[r] /\ ~rdone[r]
    /\ rdone' = [rdone EXCEPT ![r] = TRUE]
    /\ Enter(t, IF o = "Result" THEN "encode" ELSE "claim", r, o, "user")
    /\ UNCHANGED <<frame, cdone, rrefs, crefs, inflight, pending, pushed, escaped, lost>>

(* Mutant: the once-flag is set but not looked at. *)
RespondUnguarded(t, r, o) ==
    /\ thr[t].at = "user" /\ IsRaw(r) /\ t \in crefs[r]
    /\ cdone' = [cdone EXCEPT ![r] = TRUE]
    /\ Enter(t, "send", r, o, "user")
    /\ UNCHANGED <<frame, rdone, rrefs, crefs, inflight, pending, pushed, escaped, lost>>

(* AsyncContext::respondBytes and respondError, called by a raw handler's     *)
(* code: the bytes are already encoded.                                       *)
Respond(t, r, o) ==
    /\ thr[t].at = "user" /\ IsRaw(r) /\ t \in crefs[r] /\ ~cdone[r]
    /\ cdone' = [cdone EXCEPT ![r] = TRUE]
    /\ Enter(t, "send", r, o, "user")
    /\ UNCHANGED <<frame, rdone, rrefs, crefs, inflight, pending, pushed, escaped, lost>>

(* onResolve: the result is encoded before the context is claimed. *)
Encode(t) ==
    /\ thr[t].at = "encode"
    /\ thr' = [thr EXCEPT ![t].at = "claim"]
    /\ UNCHANGED <<frame, rdone, cdone, rrefs, crefs, inflight, pending, pushed, escaped, lost>>

(* respondBytes and respondError under a Resolver: the context's own flag. *)
Claim(t) ==
    /\ thr[t].at = "claim"
    /\ IF cdone[thr[t].call]
       THEN thr' = [thr EXCEPT ![t] = Jump(t, thr[t].then)] /\ UNCHANGED cdone
       ELSE /\ cdone' = [cdone EXCEPT ![thr[t].call] = TRUE]
            /\ thr' = [thr EXCEPT ![t].at = "send"]
    /\ UNCHANGED <<frame, rdone, rrefs, crefs, inflight, pending, pushed, escaped, lost>>

(* onBytes and onError: the response reaches the transport. *)
Send(t) ==
    /\ thr[t].at = "send"
    /\ Enqueue(t, thr[t].call, thr[t].out)
    /\ thr' = [thr EXCEPT ![t] = Jump(t, thr[t].then)]
    /\ UNCHANGED <<frame, rdone, cdone, rrefs, crefs, inflight, pushed, escaped, lost>>

-----------------------------------------------------------------------------
(* Mutants of the next definition: the call is completed by the destructor of *)
(* each copy and not of the shared state; the destructor answers whatever the *)
(* once-flag says; it leaves the call unanswered.                              *)
ContextDtor(t, r, ref, after, last) ==
    /\ crefs' = [crefs EXCEPT ![r] = @ \ {ref}]
    /\ IF crefs[r] = {ref} THEN last ELSE thr' = [thr EXCEPT ![t] = Jump(t, after)] /\ UNCHANGED cdone
    /\ UNCHANGED <<frame, rdone, rrefs, inflight, pending, pushed, escaped, lost>>

DropContextPerCopy(t, r, ref, after) ==
    /\ crefs' = [crefs EXCEPT ![r] = @ \ {ref}]
    /\ Enter(t, "complete", r, NoOutcome, Nowhere)
    /\ UNCHANGED <<frame, rdone, cdone, rrefs, inflight, pending, pushed, escaped, lost>>

DropContextAlways(t, r, ref, after) ==
    ContextDtor(t, r, ref, after,
        /\ cdone' = [cdone EXCEPT ![r] = TRUE]
        /\ Enter(t, "send", r, "Abandoned", "complete"))

DropContextSilent(t, r, ref, after) ==
    ContextDtor(t, r, ref, after,
        /\ cdone' = [cdone EXCEPT ![r] = TRUE]
        /\ Enter(t, "complete", r, NoOutcome, Nowhere))

(* Thread t drops reference `ref` to the context of call r and goes on at     *)
(* `after`.  With the last one ~AsyncContext::State runs: it answers if no    *)
(* one has, then completes the call.                                          *)
DropContext(t, r, ref, after) ==
    /\ crefs' = [crefs EXCEPT ![r] = @ \ {ref}]
    /\ \/ /\ crefs[r] # {ref}
          /\ thr' = [thr EXCEPT ![t] = Jump(t, after)]
          /\ UNCHANGED cdone
       \/ /\ crefs[r] = {ref} /\ cdone[r]
          /\ Enter(t, "complete", r, NoOutcome, Nowhere)
          /\ UNCHANGED cdone
       \/ /\ crefs[r] = {ref} /\ ~cdone[r]
          /\ cdone' = [cdone EXCEPT ![r] = TRUE]
          /\ Enter(t, "send", r, "Abandoned", "complete")
    /\ UNCHANGED <<frame, rdone, rrefs, inflight, pending, pushed, escaped, lost>>

(* Mutant: ~Resolver rejects, and not the destructor of the shared state. *)
DropResolverEager(t, r, after) ==
    /\ rrefs' = [rrefs EXCEPT ![r] = @ \ {t}]
    /\ rdone' = [rdone EXCEPT ![r] = TRUE]
    /\ LET next == IF rrefs[r] = {t} THEN "release" ELSE after
       IN IF rdone[r] THEN Enter(t, next, r, NoOutcome, Nowhere)
          ELSE Enter(t, "claim", r, "Abandoned", next)
    /\ UNCHANGED <<frame, cdone, crefs, inflight, pending, pushed, escaped, lost>>

(* Thread t drops its reference to the Resolver of call r.  With the last one *)
(* ~Resolver::State runs: it rejects if no one fired, then the closures, and  *)
(* with them their context, are released.                                     *)
DropResolver(t, r, after) ==
    /\ rrefs' = [rrefs EXCEPT ![r] = @ \ {t}]
    /\ rdone' = [rdone EXCEPT ![r] = rdone[r] \/ rrefs[r] = {t}]
    /\ \/ /\ rrefs[r] # {t}
          /\ thr' = [thr EXCEPT ![t] = Jump(t, after)]
       \/ /\ rrefs[r] = {t} /\ rdone[r]
          /\ Enter(t, "release", r, NoOutcome, Nowhere)
       \/ /\ rrefs[r] = {t} /\ ~rdone[r]
          /\ Enter(t, "claim", r, "Abandoned", "release")
    /\ UNCHANGED <<frame, cdone, crefs, inflight, pending, pushed, escaped, lost>>

(* A worker lets go of its copy. *)
Drop(w, r) ==
    /\ thr[w].at = "user"
    /\ \/ w \in rrefs[r] /\ DropResolver(w, r, "user")
       \/ IsRaw(r) /\ w \in crefs[r] /\ DropContext(w, r, w, "user")

Release(t) ==
    /\ thr[t].at = "release"
    /\ DropContext(t, thr[t].call, Closures, IF t = Main THEN "leaveContext" ELSE "user")

(* onComplete: the counter goes down outside the lock; the thread that took   *)
(* it to zero then locks and notifies.                                        *)
Complete(t) ==
    /\ thr[t].at = "complete"
    /\ inflight' = inflight - 1
    /\ thr' = [thr EXCEPT ![t] = IF inflight = 1 THEN Jump(t, "notify") ELSE Resting(t)]
    /\ UNCHANGED <<frame, rdone, cdone, rrefs, crefs, pending, pushed, escaped, lost>>

(* _inflight_mtx is held by a waiter from its lock until it blocks or returns. *)
MutexFree == thr[Main].at \notin {"check", "block"}

Wake(p) == IF p.at = "asleep" THEN [p EXCEPT !.at = "lock"] ELSE p

(* On its own, a mutant of Notify: notify_all without the lock. *)
NotifyUnlocked(t) ==
    /\ thr[t].at = "notify"
    /\ thr' = [u \in Threads |-> IF u = t THEN Resting(t) ELSE Wake(thr[u])]
    /\ UNCHANGED <<frame, rdone, cdone, rrefs, crefs, inflight, pending, pushed, escaped, lost>>

Notify(t) == MutexFree /\ NotifyUnlocked(t)

-----------------------------------------------------------------------------
(* The handler returns, or throws a std::exception: the typed wrapper (or     *)
(* dispatchAsync, for a raw one) answers -32603 unless the call was fired.    *)
HandlerReturn ==
    /\ thr[Main].at = "user"
    /\ thr' = [thr EXCEPT ![Main] =
                  Jump(Main, IF IsTyped(thr[Main].call) THEN "leaveResolver" ELSE "leaveContext")]
    /\ UNCHANGED <<frame, rdone, cdone, rrefs, crefs, inflight, pending, pushed, escaped, lost>>

HandlerThrow ==
    LET r == thr[Main].call IN
    /\ thr[Main].at = "user"
    /\ \/ /\ IsTyped(r) /\ ~rdone[r]
          /\ rdone' = [rdone EXCEPT ![r] = TRUE]
          /\ Enter(Main, "claim", r, "InternalError", "leaveResolver")
          /\ UNCHANGED cdone
       \/ /\ IsRaw(r) /\ ~cdone[r]
          /\ cdone' = [cdone EXCEPT ![r] = TRUE]
          /\ Enter(Main, "send", r, "InternalError", "leaveContext")
          /\ UNCHANGED rdone
    /\ UNCHANGED <<frame, rrefs, crefs, inflight, pending, pushed, escaped, lost>>

(* The wrapper's `state`, then its ctx and dispatchAsync's `state`, go out of scope. *)
LeaveResolver == /\ thr[Main].at = "leaveResolver"
                 /\ DropResolver(Main, thr[Main].call, "leaveContext")

LeaveContext == /\ thr[Main].at = "leaveContext"
                /\ DropContext(Main, thr[Main].call, Main, "idle")

-----------------------------------------------------------------------------
(* What exceptions do.  The codec cannot encode a result: the exception       *)
(* leaves through resolve() into user code.  The Resolver's flag is set and   *)
(* the context's is not, so the call is still there to be abandoned.          *)
EncodeFails(t) ==
    /\ thr[t].at = "encode"
    /\ thr' = [thr EXCEPT ![t] = Jump(t, "user")]
    /\ UNCHANGED <<frame, rdone, cdone, rrefs, crefs, inflight, pending, pushed, escaped, lost>>

(* Error texts that are the user's: the library's own can always be encoded.  *)
UserTexts == {"Rejected", "InternalError"}

(* onError encodes after the flag is set, so a text the codec refuses takes   *)
(* the answer with it.  The exception reaches the caller of reject, or, under *)
(* the typed wrapper's catch, that of dispatchAsync, which swallows it; from  *)
(* within dispatchAsync's own catch it leaves processMessage.                 *)
ErrorFails(t) ==
    /\ thr[t].at = "send" /\ thr[t].out \in UserTexts
    /\ lost' = lost \cup {thr[t].call}
    /\ escaped' = (escaped \/ thr[t].then = "leaveContext")
    /\ thr' = [thr EXCEPT ![t] = Jump(t, thr[t].then)]
    /\ UNCHANGED <<frame, rdone, cdone, rrefs, crefs, inflight, pending, pushed>>

CodecFails(t) == EncodeFails(t) \/ ErrorFails(t)

(* A sync handler throws what is no std::exception, or a what() the codec     *)
(* refuses: the exception leaves route() and no one answers.                  *)
InlineEscapes(r, f) ==
    /\ thr[Main].at = "idle" /\ ~escaped /\ frame[r] = Unread
    /\ f \in SyncFrames \ BadSync
    /\ frame' = [frame EXCEPT ![r] = f]
    /\ escaped' = TRUE
    /\ lost' = lost \cup {r}
    /\ UNCHANGED <<rdone, cdone, rrefs, crefs, inflight, thr, pending, pushed>>

(* So does an async handler; the unwinding drops what the wrapper held. *)
HandlerEscapes ==
    /\ thr[Main].at = "user"
    /\ thr' = [thr EXCEPT ![Main] =
                  Jump(Main, IF IsTyped(thr[Main].call) THEN "leaveResolver" ELSE "leaveContext")]
    /\ escaped' = TRUE
    /\ UNCHANGED <<frame, rdone, cdone, rrefs, crefs, inflight, pending, pushed, lost>>

-----------------------------------------------------------------------------
(* writeNotification, from user code: a handler's, or that of a worker that   *)
(* may still use the server.                                                  *)
Push(t) ==
    /\ thr[t].at = "user" /\ thr[Main].at # "destroyed" /\ pushed < MaxPush
    /\ pushed' = pushed + 1
    /\ Enqueue(t, NoCall, "Notification")
    /\ UNCHANGED <<frame, rdone, cdone, rrefs, crefs, inflight, thr, escaped, lost>>

-----------------------------------------------------------------------------
(* waitForInflight on Main: lock, test the predicate, block.  The wait gives  *)
(* up the lock and sleeps in one step; it may wake without a notify.          *)
WaitLock == /\ thr[Main].at = "lock"
            /\ thr' = [thr EXCEPT ![Main].at = "check"]
            /\ UNCHANGED <<frame, rdone, cdone, rrefs, crefs, inflight, pending, pushed, escaped, lost>>

WaitCheck == /\ thr[Main].at = "check"
             /\ thr' = [thr EXCEPT ![Main].at = IF inflight = 0 THEN "drained" ELSE "block"]
             /\ UNCHANGED <<frame, rdone, cdone, rrefs, crefs, inflight, pending, pushed, escaped, lost>>

WaitBlock == /\ thr[Main].at = "block"
             /\ thr' = [thr EXCEPT ![Main].at = "asleep"]
             /\ UNCHANGED <<frame, rdone, cdone, rrefs, crefs, inflight, pending, pushed, escaped, lost>>

(* Mutant: wait(lk) without the predicate. *)
SpuriousReturn == /\ thr[Main].at = "asleep"
                  /\ thr' = [thr EXCEPT ![Main].at = "drained"]
                  /\ UNCHANGED <<frame, rdone, cdone, rrefs, crefs, inflight, pending, pushed, escaped, lost>>

SpuriousWake == /\ thr[Main].at = "asleep"
                /\ thr' = [thr EXCEPT ![Main].at = "lock"]
                /\ UNCHANGED <<frame, rdone, cdone, rrefs, crefs, inflight, pending, pushed, escaped, lost>>

-----------------------------------------------------------------------------
(* What a thread does inside the library without user code deciding. *)
LibraryStep(t) == Encode(t) \/ Claim(t) \/ Send(t) \/ Release(t) \/ Complete(t) \/ Notify(t)

WaitStep == WaitLock \/ WaitCheck \/ WaitBlock

(* Without CodecFails, which depends on the codec: a thunk is always made.    *)
SNext ==
    \/ \E r \in Requests, f \in Input : ProcessInline(r, f) \/ DispatchAsync(r, f) \/ InlineEscapes(r, f)
    \/ \E w \in Workers, r \in Requests : CopyHandle(w, r) \/ Drop(w, r)
    \/ \E t \in Threads, r \in Requests, o \in {"Result", "Rejected"} : Fire(t, r, o) \/ Respond(t, r, o)
    \/ \E t \in Threads : LibraryStep(t) \/ Push(t)
    \/ HandlerReturn \/ HandlerThrow \/ HandlerEscapes \/ LeaveResolver \/ LeaveContext
    \/ WaitStep \/ SpuriousWake
=============================================================================
