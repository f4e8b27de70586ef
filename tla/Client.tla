------------------------------- MODULE Client -------------------------------
(* createClient.ts over the TypeScript StdioTransport: the pending map, the   *)
(* promises, the async function `call`, and the stream events that settle     *)
(* them.                                                                      *)
(*                                                                            *)
(* JavaScript runs one event at a time.  A 'data' event may hold several      *)
(* frames, which are dispatched one after the other on its stack (`pushing`); *)
(* user code runs there only inside notification handlers.  When the stack is *)
(* empty the continuations that became ready run (Resume, Settle), and user   *)
(* code after them; the next event comes when no continuation is left.        *)
(*                                                                            *)
(* The server is the one RpcContract describes: it answers a request it got   *)
(* at most once, and one whose bytes its codec cannot read with a null id.    *)
(* $notify has no action: it writes a frame and keeps nothing, and what the   *)
(* server answers it with, a null id too, changes nothing.                    *)
EXTENDS Integers, FiniteSets

CONSTANTS
    Calls,      \* the calls user code makes
    Handlers    \* notification handlers user code subscribes

VARIABLES
    call,       \* where call() is: "idle", "sending" and "waiting" (its two awaits), "settled"
    id,         \* the id call() took from nextId; 0 before
    nextId,
    slots,      \* the calls with a slot in the pending map, whose key is their id
    sent,       \* the promise transport.send returned
    promise,    \* the promise of the slot
    outcome,    \* what the caller of the method sees
    closed,     \* the client's flag
    tclosed,    \* the transport's flag
    ended,      \* the input stream has ended
    pushing,    \* FrameParser.push is on the stack
    handlers,   \* notificationHandlers
    firing,     \* the snapshot's handlers not called yet
    reply       \* reply[c]: what the server answered c with, once it was dispatched

vars == <<call, id, nextId, slots, sent, promise, outcome, closed, tclosed, ended,
          pushing, handlers, firing, reply>>

connection == <<closed, tclosed, ended>>
dispatch   == <<pushing, handlers, firing>>

Answers == {"Result", "CallError"}
Settlement == Answers \cup {"DecodeError", "TransportClosed", "ClientClosed"}
Outcome == Settlement \cup {"EncodeError", "SendError"}

Init == /\ call = [c \in Calls |-> "idle"]
        /\ id = [c \in Calls |-> 0]
        /\ nextId = 1
        /\ slots = {}
        /\ sent = [c \in Calls |-> "none"]
        /\ promise = [c \in Calls |-> "pending"]
        /\ outcome = [c \in Calls |-> "none"]
        /\ closed = FALSE /\ tclosed = FALSE /\ ended = FALSE
        /\ pushing = FALSE
        /\ handlers = {} /\ firing = {}
        /\ reply = [c \in Calls |-> "none"]

-----------------------------------------------------------------------------
(* Settling a settled promise has no effect. *)
SettlePromises(S, v) ==
    promise' = [c \in Calls |-> IF c \in S /\ promise[c] = "pending" THEN v ELSE promise[c]]

rejectAll(reason) == SettlePromises(slots, reason) /\ slots' = {}

(* The caller of c gets its answer, or its exception. *)
Finish(c, o) == /\ call' = [call EXCEPT ![c] = "settled"]
                /\ outcome' = [outcome EXCEPT ![c] = o]

(* The continuations that are ready; an event waits for them. *)
Resumable(c) == call[c] = "sending" /\ sent[c] \in {"ok", "failed"}
Settleable(c) == call[c] = "waiting" /\ promise[c] # "pending"
StackEmpty == ~pushing
Quiet == StackEmpty /\ \A c \in Calls : ~Resumable(c) /\ ~Settleable(c)

UserRuns == StackEmpty \/ firing # {}

-----------------------------------------------------------------------------
(* Mutants of Take: an id is the number of calls pending, plus one; the slot  *)
(* is left for later.                                                         *)
TakeReused(c) ==
    /\ id' = [id EXCEPT ![c] = Cardinality(slots) + 1]
    /\ slots' = slots \cup {c}
    /\ UNCHANGED nextId

TakeUnregistered(c) ==
    /\ id' = [id EXCEPT ![c] = nextId] /\ nextId' = nextId + 1
    /\ UNCHANGED slots

(* nextId++ and pending.set. *)
Take(c) ==
    /\ id' = [id EXCEPT ![c] = nextId]
    /\ nextId' = nextId + 1
    /\ slots' = slots \cup {c}

(* A method of the proxy is called.  It fails at once on a closed client or   *)
(* if the codec cannot encode; send() fails at once on a closed transport.    *)
Call(c) ==
    /\ UserRuns /\ call[c] = "idle"
    /\ \/ /\ closed
          /\ Finish(c, "TransportClosed")
          /\ UNCHANGED <<id, nextId, slots, sent>>
       \/ /\ ~closed
          /\ id' = [id EXCEPT ![c] = nextId] /\ nextId' = nextId + 1
          /\ Finish(c, "EncodeError")
          /\ UNCHANGED <<slots, sent>>
       \/ /\ ~closed
          /\ Take(c)
          /\ call' = [call EXCEPT ![c] = "sending"]
          /\ sent' = [sent EXCEPT ![c] = IF tclosed THEN "failed" ELSE "writing"]
          /\ UNCHANGED outcome
    /\ UNCHANGED <<promise, connection, dispatch, reply>>

(* The stream calls the callback of a write. *)
WriteCallback(c) ==
    /\ Quiet /\ sent[c] = "writing"
    /\ \E s \in {"ok", "failed"} : sent' = [sent EXCEPT ![c] = s]
    /\ UNCHANGED <<call, id, nextId, slots, promise, outcome, connection, dispatch, reply>>

(* Mutants of Resume: the slot of a call that could not be sent stays; the    *)
(* exception is swallowed.                                                    *)
ResumeKeepsSlot(c) ==
    /\ StackEmpty /\ Resumable(c)
    /\ IF sent[c] = "ok" THEN call' = [call EXCEPT ![c] = "waiting"] /\ UNCHANGED outcome
                         ELSE Finish(c, "SendError")
    /\ UNCHANGED <<id, nextId, slots, sent, promise, connection, dispatch, reply>>

ResumeSwallows(c) ==
    /\ StackEmpty /\ Resumable(c)
    /\ IF sent[c] = "ok" THEN call' = [call EXCEPT ![c] = "waiting"] /\ UNCHANGED slots
                         ELSE call' = [call EXCEPT ![c] = "settled"] /\ slots' = slots \ {c}
    /\ UNCHANGED <<id, nextId, sent, promise, outcome, connection, dispatch, reply>>

(* call() goes on after `await transport.send`. *)
Resume(c) ==
    /\ StackEmpty /\ Resumable(c)
    /\ IF sent[c] = "ok"
       THEN call' = [call EXCEPT ![c] = "waiting"] /\ UNCHANGED <<slots, outcome>>
       ELSE Finish(c, "SendError") /\ slots' = slots \ {c}
    /\ UNCHANGED <<id, nextId, sent, promise, connection, dispatch, reply>>

(* `return promise` hands the settled promise to the caller. *)
Settle(c) ==
    /\ StackEmpty /\ Settleable(c)
    /\ Finish(c, promise[c])
    /\ UNCHANGED <<id, nextId, slots, sent, promise, connection, dispatch, reply>>

-----------------------------------------------------------------------------
(* A 'data' event, or its next frame.  Data may still come in after close():  *)
(* only the end of the input stops it.                                        *)
FrameDispatched == (pushing \/ Quiet) /\ firing = {} /\ ~ended /\ pushing' = TRUE

(* onFrame with a response or an error that has the id of call d: the slot    *)
(* found under that id is removed and settled.                                *)
AnswerFrame(d, a) ==
    /\ FrameDispatched
    /\ sent[d] \in {"writing", "ok"} /\ reply[d] = "none"
    /\ reply' = [reply EXCEPT ![d] = a]
    /\ LET found == {c \in slots : id[c] = id[d]}
       IN SettlePromises(found, a) /\ slots' = slots \ found
    /\ UNCHANGED <<call, id, nextId, sent, outcome, connection, handlers, firing>>

(* The answer to d has a null id, and is ignored. *)
UnaddressedFrame(d) ==
    /\ FrameDispatched
    /\ sent[d] \in {"writing", "ok"} /\ reply[d] = "none"
    /\ reply' = [reply EXCEPT ![d] = "Unaddressed"]
    /\ UNCHANGED <<call, id, nextId, slots, sent, promise, outcome, connection, handlers, firing>>

(* A frame the codec cannot decode fails every pending call. *)
GarbledFrame ==
    /\ FrameDispatched
    /\ rejectAll("DecodeError")
    /\ UNCHANGED <<call, id, nextId, sent, outcome, connection, handlers, firing, reply>>

(* A notification: the handlers are snapshot, then called in turn. *)
NotificationFrame ==
    /\ FrameDispatched
    /\ firing' = handlers
    /\ UNCHANGED <<call, id, nextId, slots, sent, promise, outcome, connection, handlers, reply>>

FireHandler(h) ==
    /\ h \in firing
    /\ firing' = firing \ {h}
    /\ UNCHANGED <<call, id, nextId, slots, sent, promise, outcome, connection, pushing, handlers, reply>>

(* push() returns: no further frame in the buffer is complete. *)
PushDone ==
    /\ pushing /\ firing = {}
    /\ pushing' = FALSE
    /\ UNCHANGED <<call, id, nextId, slots, sent, promise, outcome, connection, handlers, firing, reply>>

(* $on and $off. *)
Subscribe(h) ==
    /\ UserRuns
    /\ handlers' \in {handlers \cup {h}, handlers \ {h}}
    /\ UNCHANGED <<call, id, nextId, slots, sent, promise, outcome, connection, pushing, firing, reply>>

-----------------------------------------------------------------------------
(* Mutant: the client marks itself closed and leaves its pending calls. *)
handleCloseForgets ==
    IF tclosed THEN UNCHANGED <<closed, tclosed, slots, promise>>
    ELSE closed' = TRUE /\ tclosed' = TRUE /\ UNCHANGED <<slots, promise>>

(* StdioTransport.handleClose and the client's onClose; nothing is left to do *)
(* if the transport was closed before, by its own close() or by an event.     *)
handleClose ==
    IF tclosed THEN UNCHANGED <<closed, tclosed, slots, promise>>
    ELSE closed' = TRUE /\ tclosed' = TRUE /\ rejectAll("TransportClosed")

(* 'end' or 'close' of the input. *)
InputEnds ==
    /\ Quiet
    /\ ended' = TRUE
    /\ handleClose
    /\ UNCHANGED <<call, id, nextId, sent, outcome, dispatch, reply>>

(* 'error' of either stream. *)
StreamError ==
    /\ Quiet
    /\ handleClose
    /\ UNCHANGED <<call, id, nextId, sent, outcome, ended, dispatch, reply>>

(* Mutant: $close only closes the transport. *)
CloseTransportOnly ==
    /\ UserRuns
    /\ handlers' = {}
    /\ tclosed' = TRUE
    /\ UNCHANGED <<call, id, nextId, slots, sent, promise, outcome, closed, ended, pushing, firing, reply>>

(* $close.  The transport's close() sets its flag, so that no later event     *)
(* reaches onClose: the client's own flag stays as it is.                     *)
Close ==
    /\ UserRuns
    /\ rejectAll("ClientClosed")
    /\ handlers' = {}
    /\ tclosed' = TRUE
    /\ UNCHANGED <<call, id, nextId, sent, outcome, closed, ended, pushing, firing, reply>>

-----------------------------------------------------------------------------
Continue(c) == Resume(c) \/ Settle(c)

Answer(c) == UnaddressedFrame(c) \/ \E a \in Answers : AnswerFrame(c, a)

Next ==
    \/ \E c \in Calls : Call(c) \/ WriteCallback(c) \/ Continue(c) \/ Answer(c)
    \/ GarbledFrame \/ NotificationFrame \/ PushDone
    \/ \E h \in Handlers : FireHandler(h) \/ Subscribe(h)
    \/ InputEnds \/ StreamError \/ Close

Spec == Init /\ [][Next]_vars

(* The engine runs what is on its stack and every continuation.  The event    *)
(* loop is fair: a callback or a frame that is due is not put off for ever by *)
(* other events, hence strong fairness.  Every write is called back, and      *)
(* every request that was written is answered as long as input lasts.         *)
Fairness ==
    /\ \A c \in Calls : WF_vars(Continue(c)) /\ SF_vars(WriteCallback(c)) /\ SF_vars(Answer(c))
    /\ \A h \in Handlers : WF_vars(FireHandler(h))
    /\ SF_vars(PushDone)

LiveSpec == Spec /\ Fairness

-----------------------------------------------------------------------------
(* The values of the state; a call is settled exactly when its caller has     *)
(* something in hand.                                                         *)
TypeOK ==
    /\ call \in [Calls -> {"idle", "sending", "waiting", "settled"}]
    /\ nextId \in Nat \ {0}
    /\ id \in [Calls -> 0..(nextId - 1)]
    /\ slots \subseteq Calls
    /\ sent \in [Calls -> {"none", "writing", "ok", "failed"}]
    /\ promise \in [Calls -> Settlement \cup {"pending"}]
    /\ outcome \in [Calls -> Outcome \cup {"none"}]
    /\ \A c \in Calls : call[c] = "settled" <=> outcome[c] # "none"
    /\ closed \in BOOLEAN /\ tclosed \in BOOLEAN /\ ended \in BOOLEAN /\ pushing \in BOOLEAN
    /\ handlers \subseteq Handlers /\ firing \subseteq Handlers
    /\ reply \in [Calls -> Answers \cup {"Unaddressed", "none"}]

(* The pending map holds the open calls, neither fewer, which would hang, nor *)
(* more, which would leak: those call() has begun and nothing has settled.    *)
PendingMapExact ==
    slots = {c \in Calls : call[c] \in {"sending", "waiting"} /\ promise[c] = "pending"}

(* A caller that gets an answer gets the server's answer to its own request,  *)
(* even when earlier calls were given up and their answers come late.         *)
AnswersMatch == \A c \in Calls : outcome[c] \in Answers => reply[c] = outcome[c]

(* An answer is not lost, even one that comes before the write's callback:    *)
(* its call is settled, by it or by what happened before.                     *)
AnswerNotLost ==
    \A c \in Calls : reply[c] \in Answers => promise[c] # "pending" \/ call[c] = "settled"

(* Once the transport is closed, from either side, no call waits for an       *)
(* answer after the continuations have run.                                   *)
NothingWaitsAfterClose == tclosed /\ Quiet => \A c \in Calls : call[c] # "waiting"

(* Every call returns or throws, while the server answers or the input ends;  *)
(* one that was answered without an id waits, but not beyond the close.       *)
EveryCallSettles ==
    \A c \in Calls :
        /\ call[c] = "sending" ~> (call[c] = "settled" \/ reply[c] = "Unaddressed")
        /\ (call[c] # "idle" /\ tclosed) ~> call[c] = "settled"

(* "rejects any pending calls": a rejection reaches the caller with the       *)
(* continuations of the event that caused it.  Until call() is past its first *)
(* await, nobody has attached to the promise, and the engine reports the      *)
(* rejection as unhandled.                                                    *)
RejectionsReachCallers ==
    Quiet => \A c \in Calls : promise[c] \in Settlement \ {"Result"} => call[c] # "sending"
=============================================================================
