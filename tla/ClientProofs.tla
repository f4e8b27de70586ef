---------------------------- MODULE ClientProofs ----------------------------
(* The safety properties of Client, for any number of calls and handlers.     *)
(*                                                                            *)
(* None of them is inductive alone.  What they rest on together: the pending  *)
(* map holds exactly the open calls, no two calls have the same id, and once  *)
(* the transport is closed only a call whose send failed still has a slot.    *)
EXTENDS Client, TLAPS

(* Nothing has happened to a call that was not made. *)
IdleUntouched ==
    \A c \in Calls : call[c] = "idle" =>
        promise[c] = "pending" /\ sent[c] = "none" /\ reply[c] = "none"

(* nextId never gives an id twice. *)
IdsDistinct ==
    \A c, d \in Calls : id[c] = id[d] /\ id[c] # 0 => c = d

SentHasId == \A c \in Calls : sent[c] # "none" => id[c] # 0

PromisesMatch == \A c \in Calls : promise[c] \in Answers => reply[c] = promise[c]

SlotsAfterClose == tclosed => \A c \in slots : sent[c] = "failed" /\ call[c] = "sending"

IInv == /\ TypeOK /\ PendingMapExact /\ AnswersMatch /\ AnswerNotLost
        /\ IdleUntouched /\ IdsDistinct /\ SentHasId /\ PromisesMatch /\ SlotsAfterClose

-----------------------------------------------------------------------------
(* How the sets of outcomes lie to each other. *)
LEMMA OutcomeFacts ==
    /\ Answers \subseteq Settlement /\ Settlement \subseteq Outcome
    /\ {"DecodeError", "TransportClosed", "ClientClosed"} \subseteq Settlement \ Answers
    /\ {"EncodeError", "SendError", "TransportClosed"} \subseteq Outcome \ Answers
    /\ "none" \notin Outcome /\ "none" \notin Answers
    /\ "pending" \notin Settlement /\ "pending" \notin Answers
BY DEF Outcome, Settlement, Answers

(* Settling settles the pending promises of a set, and no others. *)
LEMMA SettleFacts ==
    ASSUME promise \in [Calls -> Settlement \cup {"pending"}],
           NEW S, NEW v \in Settlement, SettlePromises(S, v)
    PROVE  /\ promise' \in [Calls -> Settlement \cup {"pending"}]
           /\ \A c \in Calls : promise'[c] = IF c \in S /\ promise[c] = "pending" THEN v ELSE promise[c]
BY DEF SettlePromises

(* Finish settles one call, with an outcome. *)
LEMMA FinishFacts ==
    ASSUME TypeOK, NEW c \in Calls, NEW o \in Outcome, Finish(c, o)
    PROVE  /\ call' \in [Calls -> {"idle", "sending", "waiting", "settled"}]
           /\ outcome' \in [Calls -> Outcome \cup {"none"}]
           /\ \A d \in Calls : /\ call'[d] = IF d = c THEN "settled" ELSE call[d]
                               /\ outcome'[d] = IF d = c THEN o ELSE outcome[d]
           /\ \A d \in Calls : call'[d] = "settled" <=> outcome'[d] # "none"
<1>1. /\ call' \in [Calls -> {"idle", "sending", "waiting", "settled"}]
      /\ outcome' \in [Calls -> Outcome \cup {"none"}]
      /\ \A d \in Calls : /\ call'[d] = IF d = c THEN "settled" ELSE call[d]
                          /\ outcome'[d] = IF d = c THEN o ELSE outcome[d]
    BY DEF TypeOK, Finish
<1>2. \A d \in Calls : call'[d] = "settled" <=> outcome'[d] # "none"
    BY <1>1, OutcomeFacts DEF TypeOK
<1> QED BY <1>1, <1>2

(* The transport's close event leaves everything, or closes the client too.   *)
LEMMA CloseFacts ==
    ASSUME TypeOK, handleClose
    PROVE  /\ closed' \in BOOLEAN /\ tclosed' = TRUE
           /\ slots' \subseteq Calls
           /\ promise' \in [Calls -> Settlement \cup {"pending"}]
           /\ \/ UNCHANGED <<slots, promise, tclosed>>
              \/ /\ slots' = {}
                 /\ \A c \in Calls : promise'[c] = IF c \in slots /\ promise[c] = "pending"
                                                   THEN "TransportClosed" ELSE promise[c]
<1>1. CASE tclosed
    BY <1>1 DEF TypeOK, handleClose
<1>2. CASE ~tclosed
    BY <1>2, OutcomeFacts, SettleFacts DEF TypeOK, handleClose, rejectAll
<1> QED BY <1>1, <1>2

-----------------------------------------------------------------------------
(* Each action keeps the types. *)
LEMMA TypeStep == TypeOK /\ [Next]_vars => TypeOK'
<1> SUFFICES ASSUME TypeOK, [Next]_vars PROVE TypeOK'
    OBVIOUS
<1> USE OutcomeFacts DEF connection, dispatch
<1>1. ASSUME NEW c \in Calls, Call(c) PROVE TypeOK'
    <2>1. CASE Finish(c, "TransportClosed") /\ UNCHANGED <<id, nextId, slots, sent>>
        BY <1>1, <2>1, FinishFacts DEF TypeOK, Call
    <2>2. CASE /\ id' = [id EXCEPT ![c] = nextId] /\ nextId' = nextId + 1
               /\ Finish(c, "EncodeError")
               /\ UNCHANGED <<slots, sent>>
        BY <1>1, <2>2, FinishFacts DEF TypeOK, Call
    <2>3. CASE /\ Take(c)
               /\ call' = [call EXCEPT ![c] = "sending"]
               /\ sent' = [sent EXCEPT ![c] = IF tclosed THEN "failed" ELSE "writing"]
               /\ UNCHANGED outcome
        <3>1. \A d \in Calls : call'[d] = "settled" <=> outcome'[d] # "none"
            BY <1>1, <2>3 DEF TypeOK, Call
        <3> QED BY <1>1, <2>3, <3>1 DEF TypeOK, Call, Take
    <2> QED BY <1>1, <2>1, <2>2, <2>3 DEF Call
<1>2. ASSUME NEW c \in Calls, WriteCallback(c) PROVE TypeOK'
    BY <1>2 DEF TypeOK, WriteCallback
<1>3. ASSUME NEW c \in Calls, Resume(c) PROVE TypeOK'
    <2>1. CASE sent[c] = "ok"
        <3>1. \A d \in Calls : call'[d] = "settled" <=> outcome'[d] # "none"
            BY <1>3, <2>1 DEF TypeOK, Resume, Resumable
        <3> QED BY <1>3, <2>1, <3>1 DEF TypeOK, Resume
    <2>2. CASE sent[c] # "ok"
        BY <1>3, <2>2, FinishFacts DEF TypeOK, Resume
    <2> QED BY <2>1, <2>2
<1>4. ASSUME NEW c \in Calls, Settle(c) PROVE TypeOK'
    <2>1. promise[c] \in Outcome
        BY <1>4 DEF TypeOK, Settle, Settleable
    <2> QED BY <1>4, <2>1, FinishFacts DEF TypeOK, Settle
<1>5. ASSUME NEW c \in Calls, Answer(c) PROVE TypeOK'
    <2>1. CASE UnaddressedFrame(c)
        BY <2>1 DEF TypeOK, UnaddressedFrame, FrameDispatched
    <2>2. ASSUME NEW a \in Answers, AnswerFrame(c, a) PROVE TypeOK'
        BY <2>2, SettleFacts DEF TypeOK, AnswerFrame, FrameDispatched
    <2> QED BY <1>5, <2>1, <2>2 DEF Answer
<1>6. CASE GarbledFrame
    BY <1>6, SettleFacts DEF TypeOK, GarbledFrame, FrameDispatched, rejectAll
<1>7. CASE NotificationFrame
    BY <1>7 DEF TypeOK, NotificationFrame, FrameDispatched
<1>8. CASE PushDone
    BY <1>8 DEF TypeOK, PushDone
<1>9. ASSUME NEW h \in Handlers, FireHandler(h) PROVE TypeOK'
    BY <1>9 DEF TypeOK, FireHandler
<1>10. ASSUME NEW h \in Handlers, Subscribe(h) PROVE TypeOK'
    BY <1>10 DEF TypeOK, Subscribe
<1>11. CASE InputEnds
    BY <1>11, CloseFacts DEF TypeOK, InputEnds
<1>12. CASE StreamError
    BY <1>12, CloseFacts DEF TypeOK, StreamError
<1>13. CASE Close
    BY <1>13, SettleFacts DEF TypeOK, Close, rejectAll
<1>14. CASE UNCHANGED vars
    BY <1>14 DEF TypeOK, vars
<1> QED
    BY <1>1, <1>2, <1>3, <1>4, <1>5, <1>6, <1>7, <1>8, <1>9, <1>10, <1>11, <1>12, <1>13, <1>14
    DEF Next, Continue

-----------------------------------------------------------------------------
(* Rejecting the open calls, because a frame is garbled or the connection     *)
(* goes, leaves the map empty and every promise settled that was in it.       *)
LEMMA RejectStep ==
    ASSUME IInv, NEW v \in Settlement \ Answers, SettlePromises(slots, v), slots' = {},
           UNCHANGED <<call, id, sent, outcome, reply>>
    PROVE  /\ PendingMapExact' /\ AnswersMatch' /\ AnswerNotLost'
           /\ IdleUntouched' /\ IdsDistinct' /\ SentHasId' /\ PromisesMatch' /\ SlotsAfterClose'
<1>1. \A c \in Calls : promise'[c] = IF c \in slots /\ promise[c] = "pending" THEN v ELSE promise[c]
    BY SettleFacts DEF IInv, TypeOK
<1>2. v # "pending" /\ v \notin Answers
    BY OutcomeFacts
<1>3. PendingMapExact'
    BY <1>1, <1>2 DEF IInv, PendingMapExact
<1>4. AnswersMatch' /\ IdsDistinct' /\ SentHasId' /\ SlotsAfterClose'
    BY DEF IInv, AnswersMatch, IdsDistinct, SentHasId, SlotsAfterClose
<1>5. AnswerNotLost' /\ PromisesMatch'
    BY <1>1, <1>2 DEF IInv, AnswerNotLost, PromisesMatch
<1>6. IdleUntouched'
    BY <1>1 DEF IInv, IdleUntouched, PendingMapExact
<1> QED BY <1>3, <1>4, <1>5, <1>6

(* A call that ends without a promise's help: what call() does when it throws *)
(* before or after the write, with its slot gone.                             *)
LEMMA ThrowStep ==
    ASSUME IInv, NEW c \in Calls, NEW o \in Outcome \ Answers, Finish(c, o),
           slots' = slots \ {c}, UNCHANGED <<sent, promise, tclosed, reply>>
    PROVE  /\ PendingMapExact' /\ AnswersMatch' /\ AnswerNotLost'
           /\ IdleUntouched' /\ PromisesMatch' /\ SlotsAfterClose'
<1>1. \A d \in Calls : /\ call'[d] = IF d = c THEN "settled" ELSE call[d]
                       /\ outcome'[d] = IF d = c THEN o ELSE outcome[d]
    BY FinishFacts DEF IInv
<1>2. PendingMapExact'
    BY <1>1 DEF IInv, PendingMapExact
<1>3. AnswersMatch' /\ AnswerNotLost' /\ IdleUntouched'
    BY <1>1 DEF IInv, AnswersMatch, AnswerNotLost, IdleUntouched
<1>4. PromisesMatch'
    BY DEF IInv, PromisesMatch
<1>5. SlotsAfterClose'
    BY <1>1 DEF IInv, TypeOK, SlotsAfterClose
<1> QED BY <1>2, <1>3, <1>4, <1>5

(* The next id is nobody's. *)
LEMMA FreshId ==
    ASSUME IInv, NEW c \in Calls, id' = [id EXCEPT ![c] = nextId]
    PROVE  IdsDistinct' /\ id'[c] # 0 /\ \A d \in Calls \ {c} : id'[d] = id[d]
<1>1. \A d \in Calls : id[d] \in 0..(nextId - 1) /\ id'[d] = IF d = c THEN nextId ELSE id[d]
    BY DEF IInv, TypeOK
<1>2. nextId \in Nat \ {0} /\ \A d \in Calls : id[d] # nextId
    BY <1>1 DEF IInv, TypeOK
<1> QED BY <1>1, <1>2 DEF IInv, IdsDistinct

LEMMA CallStep ==
    ASSUME IInv, NEW c \in Calls, Call(c) PROVE IInv'
<1> TypeOK'
    BY TypeStep DEF IInv, Next
<1> USE DEF connection
<1>1. CASE Finish(c, "TransportClosed") /\ UNCHANGED <<id, nextId, slots, sent>>
    <2>1. slots' = slots \ {c}
        BY <1>1 DEF IInv, Call, PendingMapExact
    <2>2. IdsDistinct' /\ SentHasId'
        BY <1>1 DEF IInv, IdsDistinct, SentHasId
    <2> QED BY <1>1, <2>1, <2>2, ThrowStep, OutcomeFacts DEF IInv, Call
<1>2. CASE /\ id' = [id EXCEPT ![c] = nextId] /\ nextId' = nextId + 1
           /\ Finish(c, "EncodeError")
           /\ UNCHANGED <<slots, sent>>
    <2>1. slots' = slots \ {c}
        BY <1>2 DEF IInv, Call, PendingMapExact
    <2>2. IdsDistinct' /\ SentHasId'
        BY <1>2, FreshId DEF IInv, SentHasId
    <2> QED BY <1>2, <2>1, <2>2, ThrowStep, OutcomeFacts DEF IInv, Call
<1>3. CASE /\ Take(c)
           /\ call' = [call EXCEPT ![c] = "sending"]
           /\ sent' = [sent EXCEPT ![c] = IF tclosed THEN "failed" ELSE "writing"]
           /\ UNCHANGED outcome
    <2>1. /\ \A d \in Calls : /\ call'[d] = IF d = c THEN "sending" ELSE call[d]
                              /\ sent'[d] = IF d = c THEN (IF tclosed THEN "failed" ELSE "writing") ELSE sent[d]
          /\ slots' = slots \cup {c} /\ UNCHANGED <<promise, reply, tclosed>>
          /\ call[c] = "idle" /\ promise[c] = "pending" /\ reply[c] = "none"
        BY <1>3 DEF IInv, TypeOK, Call, Take, IdleUntouched
    <2>2. IdsDistinct' /\ SentHasId'
        BY <1>3, <2>1, FreshId DEF IInv, SentHasId, Take
    <2>3. PendingMapExact'
        BY <2>1 DEF IInv, PendingMapExact
    <2>4. AnswersMatch' /\ PromisesMatch'
        BY <1>3, <2>1 DEF IInv, AnswersMatch, PromisesMatch
    <2>5. AnswerNotLost' /\ IdleUntouched'
        BY <2>1, OutcomeFacts DEF IInv, AnswerNotLost, IdleUntouched
    <2>6. SlotsAfterClose'
        BY <2>1 DEF IInv, TypeOK, SlotsAfterClose
    <2> QED BY <2>2, <2>3, <2>4, <2>5, <2>6 DEF IInv
<1> QED BY <1>1, <1>2, <1>3 DEF Call

LEMMA ResumeStep ==
    ASSUME IInv, NEW c \in Calls, Resume(c) PROVE IInv'
<1> TypeOK'
    BY TypeStep DEF IInv, Next, Continue
<1> USE DEF connection
<1>1. IdsDistinct' /\ SentHasId'
    BY DEF IInv, Resume, IdsDistinct, SentHasId
<1>2. CASE sent[c] = "ok"
    <2>1. /\ \A d \in Calls : call'[d] = IF d = c THEN "waiting" ELSE call[d]
          /\ call[c] = "sending"
          /\ UNCHANGED <<slots, sent, promise, tclosed, reply, outcome>>
        BY <1>2 DEF IInv, TypeOK, Resume, Resumable
    <2>2. PendingMapExact' /\ AnswersMatch' /\ AnswerNotLost' /\ IdleUntouched' /\ PromisesMatch'
        BY <2>1 DEF IInv, PendingMapExact, AnswersMatch, AnswerNotLost, IdleUntouched, PromisesMatch
    <2>3. SlotsAfterClose'
        BY <1>2, <2>1 DEF IInv, TypeOK, SlotsAfterClose
    <2> QED BY <1>1, <2>2, <2>3 DEF IInv
<1>3. CASE sent[c] # "ok"
    BY <1>1, <1>3, ThrowStep, OutcomeFacts DEF IInv, Resume
<1> QED BY <1>2, <1>3

LEMMA SettleStep ==
    ASSUME IInv, NEW c \in Calls, Settle(c) PROVE IInv'
<1> TypeOK'
    BY TypeStep DEF IInv, Next, Continue
<1> USE DEF connection
<1>1. /\ \A d \in Calls : /\ call'[d] = IF d = c THEN "settled" ELSE call[d]
                          /\ outcome'[d] = IF d = c THEN promise[c] ELSE outcome[d]
      /\ promise[c] # "pending"
      /\ UNCHANGED <<id, slots, sent, promise, tclosed, reply>>
    <2>1. promise[c] \in Outcome /\ promise[c] # "pending"
        BY OutcomeFacts DEF IInv, TypeOK, Settle, Settleable
    <2> QED BY <2>1, FinishFacts DEF IInv, Settle
<1>2. PendingMapExact' /\ AnswerNotLost' /\ IdleUntouched'
    BY <1>1 DEF IInv, PendingMapExact, AnswerNotLost, IdleUntouched
<1>3. AnswersMatch' /\ PromisesMatch'
    BY <1>1 DEF IInv, AnswersMatch, PromisesMatch
<1>4. IdsDistinct' /\ SentHasId'
    BY <1>1 DEF IInv, IdsDistinct, SentHasId
<1>5. SlotsAfterClose'
    BY <1>1 DEF IInv, PendingMapExact, SlotsAfterClose
<1> QED BY <1>2, <1>3, <1>4, <1>5 DEF IInv

(* The answer to d finds the slot of d or none: ids are distinct. *)
LEMMA AnswerStep ==
    ASSUME IInv, NEW d \in Calls, NEW a \in Answers, AnswerFrame(d, a) PROVE IInv'
<1> DEFINE found == {c \in slots : id[c] = id[d]}
<1> TypeOK'
    BY TypeStep DEF IInv, Next, Answer
<1> USE DEF connection
<1>1. found = slots \cap {d}
    <2>1. id[d] # 0
        BY DEF IInv, AnswerFrame, SentHasId
    <2> QED BY <2>1 DEF IInv, TypeOK, IdsDistinct
<1>2. /\ \A c \in Calls : /\ promise'[c] = IF c \in found /\ promise[c] = "pending" THEN a ELSE promise[c]
                          /\ reply'[c] = IF c = d THEN a ELSE reply[c]
      /\ slots' = slots \ found
      /\ reply[d] = "none" /\ sent[d] # "none" /\ sent[d] # "failed"
      /\ a # "pending" /\ a # "none"
      /\ UNCHANGED <<call, id, sent, outcome, tclosed>>
    BY OutcomeFacts, SettleFacts DEF IInv, TypeOK, AnswerFrame
<1> HIDE DEF found
<1>3. PendingMapExact'
    BY <1>1, <1>2 DEF IInv, PendingMapExact
<1>4. outcome[d] \notin Answers /\ promise[d] \notin Answers
    BY <1>2, OutcomeFacts DEF IInv, AnswersMatch, PromisesMatch
<1>5. AnswersMatch' /\ PromisesMatch'
    BY <1>1, <1>2, <1>4 DEF IInv, AnswersMatch, PromisesMatch
<1>6. AnswerNotLost'
    <2>1. d \in slots \/ promise[d] # "pending" \/ call[d] = "settled"
        BY <1>2 DEF IInv, TypeOK, PendingMapExact, IdleUntouched
    <2> QED BY <1>1, <1>2, <2>1 DEF IInv, AnswerNotLost
<1>7. IdleUntouched' /\ IdsDistinct' /\ SentHasId' /\ SlotsAfterClose'
    BY <1>1, <1>2 DEF IInv, IdleUntouched, IdsDistinct, SentHasId, SlotsAfterClose
<1> QED BY <1>3, <1>5, <1>6, <1>7 DEF IInv

(* An answer without an id touches nothing but the record of it. *)
LEMMA UnaddressedStep ==
    ASSUME IInv, NEW d \in Calls, UnaddressedFrame(d) PROVE IInv'
<1> TypeOK'
    BY TypeStep DEF IInv, Next, Answer
<1> USE DEF connection
<1>1. /\ \A c \in Calls : reply'[c] = IF c = d THEN "Unaddressed" ELSE reply[c]
      /\ reply[d] = "none" /\ sent[d] # "none"
      /\ UNCHANGED <<call, id, slots, sent, promise, outcome, tclosed>>
    BY DEF IInv, TypeOK, UnaddressedFrame
<1>2. "Unaddressed" \notin Answers /\ "none" \notin Answers
    BY DEF Answers
<1>3. AnswersMatch' /\ PromisesMatch' /\ AnswerNotLost'
    BY <1>1, <1>2 DEF IInv, AnswersMatch, PromisesMatch, AnswerNotLost
<1>4. IdleUntouched' /\ IdsDistinct' /\ SentHasId' /\ SlotsAfterClose' /\ PendingMapExact'
    BY <1>1 DEF IInv, IdleUntouched, IdsDistinct, SentHasId, SlotsAfterClose, PendingMapExact
<1> QED BY <1>3, <1>4 DEF IInv

LEMMA WriteCallbackStep ==
    ASSUME IInv, NEW c \in Calls, WriteCallback(c) PROVE IInv'
<1> TypeOK'
    BY TypeStep DEF IInv, Next
<1> USE DEF connection
<1>1. /\ \A d \in Calls : d # c => sent'[d] = sent[d]
      /\ sent[c] = "writing" /\ UNCHANGED <<call, id, slots, promise, outcome, tclosed, reply>>
    BY DEF IInv, TypeOK, WriteCallback
<1>2. PendingMapExact' /\ AnswersMatch' /\ AnswerNotLost' /\ PromisesMatch' /\ IdsDistinct'
    BY <1>1 DEF IInv, PendingMapExact, AnswersMatch, AnswerNotLost, PromisesMatch, IdsDistinct
<1>3. IdleUntouched' /\ SentHasId'
    BY <1>1 DEF IInv, IdleUntouched, SentHasId
<1>4. SlotsAfterClose'
    BY <1>1 DEF IInv, TypeOK, SlotsAfterClose
<1> QED BY <1>2, <1>3, <1>4 DEF IInv

(* The close of the transport, by a stream event. *)
LEMMA HandleCloseStep ==
    ASSUME IInv, handleClose, TypeOK', UNCHANGED <<call, id, sent, outcome, reply>> PROVE IInv'
<1>1. CASE tclosed
    <2>1. UNCHANGED <<tclosed, slots, promise>>
        BY <1>1 DEF handleClose
    <2> QED BY <2>1 DEF IInv, PendingMapExact, AnswersMatch, AnswerNotLost, IdleUntouched,
                        IdsDistinct, SentHasId, PromisesMatch, SlotsAfterClose
<1>2. CASE ~tclosed
    BY <1>2, RejectStep, OutcomeFacts DEF IInv, handleClose, rejectAll
<1> QED BY <1>1, <1>2

-----------------------------------------------------------------------------
LEMMA Initially == Init => IInv
<1> SUFFICES ASSUME Init PROVE IInv
    OBVIOUS
<1>1. TypeOK
    <2>1. \A c \in Calls : call[c] = "settled" <=> outcome[c] # "none"
        BY DEF Init
    <2>2. handlers \subseteq Handlers /\ firing \subseteq Handlers /\ slots \subseteq Calls
        BY DEF Init
    <2>3. id \in [Calls -> 0..(nextId - 1)] /\ nextId \in Nat \ {0}
        BY DEF Init
    <2> QED BY <2>1, <2>2, <2>3 DEF Init, TypeOK
<1>2. PendingMapExact /\ AnswersMatch /\ AnswerNotLost
    BY OutcomeFacts DEF Init, PendingMapExact, AnswersMatch, AnswerNotLost
<1>3. IdleUntouched /\ IdsDistinct /\ SentHasId /\ PromisesMatch /\ SlotsAfterClose
    BY OutcomeFacts DEF Init, IdleUntouched, IdsDistinct, SentHasId, PromisesMatch, SlotsAfterClose
<1> QED BY <1>1, <1>2, <1>3 DEF IInv

LEMMA Inductive == IInv /\ [Next]_vars => IInv'
<1> SUFFICES ASSUME IInv, [Next]_vars PROVE IInv'
    OBVIOUS
<1> TypeOK'
    BY TypeStep DEF IInv
<1> USE DEF connection, dispatch
<1>1. ASSUME UNCHANGED <<call, id, slots, sent, promise, outcome, tclosed, reply>> PROVE IInv'
    BY <1>1 DEF IInv, PendingMapExact, AnswersMatch, AnswerNotLost, IdleUntouched,
                IdsDistinct, SentHasId, PromisesMatch, SlotsAfterClose
<1>2. CASE GarbledFrame
    BY <1>2, RejectStep, OutcomeFacts DEF IInv, GarbledFrame, rejectAll
<1>3. CASE NotificationFrame \/ PushDone
    BY <1>1, <1>3 DEF NotificationFrame, PushDone
<1>4. ASSUME NEW h \in Handlers, FireHandler(h) \/ Subscribe(h) PROVE IInv'
    BY <1>1, <1>4 DEF FireHandler, Subscribe
<1>5. CASE InputEnds \/ StreamError
    BY <1>5, HandleCloseStep DEF InputEnds, StreamError
<1>6. CASE Close
    BY <1>6, RejectStep, OutcomeFacts DEF IInv, Close, rejectAll
<1>7. CASE UNCHANGED vars
    BY <1>1, <1>7 DEF vars
<1> QED
    BY <1>2, <1>3, <1>4, <1>5, <1>6, <1>7,
       CallStep, ResumeStep, SettleStep, AnswerStep, UnaddressedStep, WriteCallbackStep
    DEF Next, Continue, Answer

LEMMA Invariance == Spec => []IInv
BY Initially, Inductive, PTL DEF Spec

(* The state is well formed whatever calls, frames and stream events come,    *)
(* and in which order.                                                        *)
THEOREM ClientTyping == Spec => []TypeOK
<1>1. IInv => TypeOK
    BY DEF IInv
<1> QED BY <1>1, Invariance, PTL

(* The pending map holds exactly the open calls: every way a call ends takes  *)
(* its slot, and nothing else does.                                           *)
THEOREM PendingIsExact == Spec => []PendingMapExact
<1>1. IInv => PendingMapExact
    BY DEF IInv
<1> QED BY <1>1, Invariance, PTL

(* No caller is ever given another call's answer. *)
THEOREM AnswersAreMatched == Spec => []AnswersMatch
<1>1. IInv => AnswersMatch
    BY DEF IInv
<1> QED BY <1>1, Invariance, PTL

(* An answer dispatched before its write is called back is not lost. *)
THEOREM AnswersAreKept == Spec => []AnswerNotLost
<1>1. IInv => AnswerNotLost
    BY DEF IInv
<1> QED BY <1>1, Invariance, PTL

(* Once the transport is closed and the continuations have run, nobody waits. *)
THEOREM ClosedMeansSettled == Spec => []NothingWaitsAfterClose
<1>1. IInv => NothingWaitsAfterClose
    BY DEF IInv, PendingMapExact, SlotsAfterClose, NothingWaitsAfterClose, Quiet, Settleable
<1> QED BY <1>1, Invariance, PTL
=============================================================================
