---------------------------- MODULE QueueServer ----------------------------
(* An RpcServer that lives in a host process: the host's loop on Main calls   *)
(* processMessage, delivers what it returns inline, and polls a queue for the *)
(* rest (QueueTransport::tryReceive, QuickJSTransport::drain).  No thread of  *)
(* the library runs; the host waits for the calls in flight before it stops.  *)
(*                                                                            *)
(* With a byte codec a response is encoded where it is made; with             *)
(* QuickJSCodec it is a thunk, built on Main when it is delivered.            *)
EXTENDS RpcServer, SequencesExt

CONSTANT NoAnswer

ASSUME AnswerAssumption == NoAnswer \notin Outcomes

VARIABLES
    deferred,   \* the codec makes thunks
    delivered   \* delivered[r]: the answers to r the host was given, in order

own  == <<deferred, delivered>>
vars == <<frame, rdone, cdone, rrefs, crefs, inflight, thr, pending, pushed, escaped, lost,
          deferred, delivered>>

Init == /\ SInit
        /\ deferred \in BOOLEAN
        /\ delivered = [r \in Requests |-> <<>>]

Deliver(r, o) == delivered' = IF r = NoCall THEN delivered ELSE [delivered EXCEPT ![r] = Append(@, o)]

(* Only a result is data of the user's that building a JSValue may refuse. *)
MayThrow(o) == deferred /\ o = "Result"

-----------------------------------------------------------------------------
(* processMessage returned a response: the host delivers it. *)
DeliverInline ==
    /\ thr[Main].at = "reply"
    /\ thr' = [thr EXCEPT ![Main] = Resting(Main)]
    /\ \/ Deliver(thr[Main].call, thr[Main].out) /\ UNCHANGED lost
       \/ /\ MayThrow(thr[Main].out)
          /\ lost' = lost \cup {thr[Main].call}
          /\ UNCHANGED delivered
    /\ UNCHANGED <<frame, rdone, cdone, rrefs, crefs, inflight, pending, pushed, escaped, deferred>>

(* The host catches what processMessage threw and goes on. *)
HostCatches ==
    /\ thr[Main].at = "idle" /\ escaped
    /\ escaped' = FALSE
    /\ UNCHANGED <<frame, rdone, cdone, rrefs, crefs, inflight, thr, pending, pushed, lost, deferred, delivered>>

(* moodycamel's queue: the items of one producer in order. *)
Dequeueable(i) == \A j \in 1..(i - 1) : pending[j].by # pending[i].by

(* Mutants of Poll: the item is looked at and left in the queue; the queue is *)
(* taken as a whole, and an exception takes the rest of it along.             *)
PollPeek(i) ==
    /\ thr[Main].at \in {"idle", "drained"}
    /\ Dequeueable(i)
    /\ pending[i].call # NoCall => Len(delivered[pending[i].call]) < 2
    /\ Deliver(pending[i].call, pending[i].out)
    /\ UNCHANGED <<frame, rdone, cdone, rrefs, crefs, inflight, thr, pending, pushed, escaped, lost, deferred>>

PollBatch(i) ==
    /\ thr[Main].at \in {"idle", "drained"}
    /\ Dequeueable(i)
    /\ \/ Deliver(pending[i].call, pending[i].out) /\ pending' = RemoveAt(pending, i) /\ UNCHANGED lost
       \/ /\ MayThrow(pending[i].out)
          /\ lost' = lost \cup {pending[i].call}
          /\ pending' = <<>> /\ UNCHANGED delivered
    /\ UNCHANGED <<frame, rdone, cdone, rrefs, crefs, inflight, thr, pushed, escaped, deferred>>

(* One turn of the host's polling loop.  An exception out of a thunk leaves   *)
(* drain() with the item already taken; the host catches it.                  *)
Poll(i) ==
    /\ thr[Main].at \in {"idle", "drained"}
    /\ Dequeueable(i)
    /\ pending' = RemoveAt(pending, i)
    /\ \/ Deliver(pending[i].call, pending[i].out) /\ UNCHANGED lost
       \/ /\ MayThrow(pending[i].out)
          /\ lost' = lost \cup {pending[i].call}
          /\ UNCHANGED delivered
    /\ UNCHANGED <<frame, rdone, cdone, rrefs, crefs, inflight, thr, pushed, escaped, deferred>>

HostPolls == \E i \in 1..Len(pending) : Poll(i)

(* The host waits for the calls in flight; tryReceive() until nullopt empties *)
(* the queue; then it goes on, or it stops.                                   *)
HostWaits ==
    /\ thr[Main].at = "idle" /\ ~escaped
    /\ thr' = [thr EXCEPT ![Main].at = "lock"]
    /\ UNCHANGED <<frame, rdone, cdone, rrefs, crefs, inflight, pending, pushed, escaped, lost, deferred, delivered>>

HostDrained ==
    /\ thr[Main].at = "drained" /\ pending = <<>>
    /\ \/ thr' = [thr EXCEPT ![Main] = Resting(Main)]
       \/ thr' = [thr EXCEPT ![Main].at = "destroyed"]
    /\ UNCHANGED <<frame, rdone, cdone, rrefs, crefs, inflight, pending, pushed, escaped, lost, deferred, delivered>>

(* A thunk is always made; a byte codec may throw. *)
ServerStep == /\ SNext \/ (~deferred /\ \E t \in Threads : CodecFails(t))
              /\ UNCHANGED own

Stopped == /\ thr[Main].at = "destroyed"
           /\ \A w \in Workers : thr[w].at = "user"
           /\ UNCHANGED vars

Next == ServerStep \/ DeliverInline \/ HostCatches \/ HostPolls \/ HostWaits \/ HostDrained \/ Stopped

Spec == Init /\ [][Next]_vars

-----------------------------------------------------------------------------
(* The fairness of StdioServer, with the host's loop in the place of run():   *)
(* it delivers what it is returned, catches what is thrown, and polls on each *)
(* tick.  User code lets go of its handles.                                   *)
Fairness ==
    /\ \A t \in Threads : WF_vars(LibraryStep(t) /\ UNCHANGED own)
    /\ \A t \in Threads : SF_vars(Notify(t) /\ UNCHANGED own)
    /\ WF_vars(LeaveResolver /\ UNCHANGED own) /\ WF_vars(LeaveContext /\ UNCHANGED own)
    /\ WF_vars(HandlerReturn /\ UNCHANGED own) /\ WF_vars(WaitStep /\ UNCHANGED own)
    /\ WF_vars(DeliverInline) /\ WF_vars(HostCatches) /\ WF_vars(HostPolls)
    /\ \A w \in Workers, r \in Requests : WF_vars(Drop(w, r) /\ UNCHANGED own)

LiveSpec == Spec /\ Fairness

-----------------------------------------------------------------------------
TypeOK ==
    /\ frame \in [Requests -> Input \cup {Unread}]
    /\ rdone \in [Requests -> BOOLEAN] /\ cdone \in [Requests -> BOOLEAN]
    /\ rrefs \in [Requests -> SUBSET Threads]
    /\ crefs \in [Requests -> SUBSET (Threads \cup {Closures})]
    /\ inflight \in Nat
    /\ thr \in [Threads -> Position]
    /\ \A i \in 1..Len(pending) : pending[i] \in Item /\ pending[i].out # "Exit"
    /\ pushed \in 0..MaxPush
    /\ escaped \in BOOLEAN /\ lost \subseteq Requests
    /\ deferred \in BOOLEAN
    /\ \A r \in Requests : delivered[r] \in Seq(Outcomes)

Accepted  == {r \in Requests : frame[r] # Unread}
Queued(r) == \E i \in 1..Len(pending) : pending[i].call = r

(* hasInflight() is enough for a host that polls instead of blocking: when it *)
(* says no on the host's own thread, every answer is in the queue, delivered  *)
(* or lost to an exception, and exactly one of the three; draining once more  *)
(* misses nothing.                                                            *)
QuietMeansQueued ==
    (inflight = 0 /\ thr[Main].at \in {"idle", "drained", "destroyed"}) =>
        \A r \in Accepted :
            Cardinality({k \in 1..3 : <<Queued(r), delivered[r] # <<>>, r \in lost>>[k]}) = 1

(* The embedded server implements the contract of the one on stdio, and       *)
(* leaves no answer behind: a request delivered twice would be a second,      *)
(* different, answer.                                                         *)
Contract == INSTANCE RpcContract WITH
    MayStrand <- {},
    answer <- [r \in Requests |-> CASE Len(delivered[r]) = 0 -> NoAnswer
                                    [] Len(delivered[r]) = 1 -> delivered[r][1]
                                    [] OTHER -> "Twice"],
    over   <- thr[Main].at = "destroyed"

ImplementsContract == Contract!Spec

(* Every request is eventually answered through one way or the other, unless  *)
(* an exception took the answer.                                              *)
EveryCallAnswered == \A r \in Requests : frame[r] # Unread ~> (delivered[r] # <<>> \/ r \in lost)

(* "Materialize and deliver every queued response." *)
QueuedIsDelivered == \A r \in Requests : Queued(r) ~> delivered[r] # <<>>
=============================================================================
