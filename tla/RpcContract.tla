---------------------------- MODULE RpcContract ----------------------------
(* What an rpcpp server promises its client, with no threads, queue or        *)
(* handles in it: every frame read is answered exactly once, with an answer   *)
(* its class allows, in any order, unless an exception takes the answer of a  *)
(* frame whose handler ran; and the server is not over while a frame it has   *)
(* read is neither answered nor lost, but for those frames whose answers it   *)
(* may leave behind.                                                          *)
EXTENDS RpcProtocol

CONSTANTS Requests, Unread, NoAnswer,
          MayStrand     \* frames whose answers may still be on their way at the end

VARIABLES frame,    \* frame[r]: the frame of request r, or Unread
          answer,   \* answer[r]: what the client has been sent, or NoAnswer
          lost,     \* requests that will never be answered
          over      \* the server has been left

vars == <<frame, answer, lost, over>>

Init == /\ frame = [r \in Requests |-> Unread]
        /\ answer = [r \in Requests |-> NoAnswer]
        /\ lost = {}
        /\ over = FALSE

(* Only user code throws, and only its texts are refused by a codec. *)
MayLose(f) == f \in (SyncFrames \ BadSync) \cup (AsyncFrames \ BadAsync)

Accept(r, f) == /\ ~over
                /\ frame[r] = Unread
                /\ frame' = [frame EXCEPT ![r] = f]
                /\ \/ UNCHANGED lost
                   \/ MayLose(f) /\ lost' = lost \cup {r}
                /\ UNCHANGED <<answer, over>>

Open(r) == frame[r] # Unread /\ answer[r] = NoAnswer /\ r \notin lost

Answer(r, o) == /\ ~over /\ Open(r)
                /\ o \in MayAnswer(frame[r])
                /\ answer' = [answer EXCEPT ![r] = o]
                /\ UNCHANGED <<frame, lost, over>>

Lose(r) == /\ ~over /\ Open(r)
           /\ MayLose(frame[r])
           /\ lost' = lost \cup {r}
           /\ UNCHANGED <<frame, answer, over>>

Finish == /\ ~over
          /\ \A r \in Requests : Open(r) => frame[r] \in MayStrand
          /\ over' = TRUE
          /\ UNCHANGED <<frame, answer, lost>>

Next == \/ \E r \in Requests, f \in Input : Accept(r, f)
        \/ \E r \in Requests, o \in Outcomes : Answer(r, o)
        \/ \E r \in Requests : Lose(r)
        \/ Finish

Spec == Init /\ [][Next]_vars
=============================================================================
