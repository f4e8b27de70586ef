---------------------------- MODULE StdioServer ----------------------------
(* An RpcServer bound to a StdioTransport and run: the read loop on Main, the *)
(* queue, the responder thread, and the shutdown that waits for the calls in  *)
(* flight, enqueues the exit sentinel and joins the responder.                *)
EXTENDS RpcServer, SequencesExt

CONSTANT NoAnswer

ASSUME AnswerAssumption == NoAnswer \notin Outcomes

VARIABLES
    wire,       \* what the responder has written, as <<call, outcome>>
    responder   \* "running", or "done" once it has taken the sentinel

vars == <<frame, rdone, cdone, rrefs, crefs, inflight, thr, pending, pushed, escaped, lost, wire, responder>>

Init == SInit /\ wire = <<>> /\ responder = "running"

-----------------------------------------------------------------------------
(* The read loop enqueues the response processMessage returned inline. *)
Reply ==
    /\ thr[Main].at = "reply"
    /\ Enqueue(Main, thr[Main].call, thr[Main].out)
    /\ thr' = [thr EXCEPT ![Main] = Resting(Main)]
    /\ UNCHANGED <<frame, rdone, cdone, rrefs, crefs, inflight, pushed, escaped, lost, wire, responder>>

(* Mutant: the sentinel follows the end of input at once. *)
EndOfInputNoWait ==
    /\ thr[Main].at = "idle" /\ ~escaped
    /\ thr' = [thr EXCEPT ![Main].at = "drained"]
    /\ UNCHANGED <<frame, rdone, cdone, rrefs, crefs, inflight, pending, pushed, escaped, lost, wire, responder>>

(* The framer returns nullopt: the loop ends and waitForInflight is called. *)
EndOfInput ==
    /\ thr[Main].at = "idle" /\ ~escaped
    /\ thr' = [thr EXCEPT ![Main].at = "lock"]
    /\ UNCHANGED <<frame, rdone, cdone, rrefs, crefs, inflight, pending, pushed, escaped, lost, wire, responder>>

SendExit ==
    /\ thr[Main].at = "drained"
    /\ Enqueue(Main, NoCall, "Exit")
    /\ thr' = [thr EXCEPT ![Main].at = "join"]
    /\ UNCHANGED <<frame, rdone, cdone, rrefs, crefs, inflight, pushed, escaped, lost, wire, responder>>

(* Mutant: the responder is detached. *)
JoinNothing ==
    /\ thr[Main].at = "join"
    /\ thr' = [thr EXCEPT ![Main].at = "returned"]
    /\ UNCHANGED <<frame, rdone, cdone, rrefs, crefs, inflight, pending, pushed, escaped, lost, wire, responder>>

(* ~jthread joins the responder as run() returns. *)
Join ==
    /\ thr[Main].at = "join" /\ responder = "done"
    /\ thr' = [thr EXCEPT ![Main].at = "returned"]
    /\ UNCHANGED <<frame, rdone, cdone, rrefs, crefs, inflight, pending, pushed, escaped, lost, wire, responder>>

(* Reading a frame throws: Length32Framer allocates what the prefix says. *)
ReadThrows ==
    /\ thr[Main].at = "idle" /\ ~escaped
    /\ escaped' = TRUE
    /\ UNCHANGED <<frame, rdone, cdone, rrefs, crefs, inflight, thr, pending, pushed, lost, wire, responder>>

(* Mutant: the sentinel is sent on the way out as well. *)
UnwindExits ==
    /\ thr[Main].at = "idle" /\ escaped
    /\ Enqueue(Main, NoCall, "Exit")
    /\ thr' = [thr EXCEPT ![Main].at = "join"]
    /\ UNCHANGED <<frame, rdone, cdone, rrefs, crefs, inflight, pushed, escaped, lost, wire, responder>>

(* An exception leaves the loop, past waitForInflight and the sentinel, into  *)
(* ~jthread.  (If no one up the stack catches it, the process ends here: the  *)
(* model is of a caller that would.)                                          *)
Unwind ==
    /\ thr[Main].at = "idle" /\ escaped
    /\ thr' = [thr EXCEPT ![Main].at = "join"]
    /\ UNCHANGED <<frame, rdone, cdone, rrefs, crefs, inflight, pending, pushed, escaped, lost, wire, responder>>

(* The server and the transport leave scope after run(), as in the examples. *)
Destroy ==
    /\ thr[Main].at = "returned"
    /\ thr' = [thr EXCEPT ![Main].at = "destroyed"]
    /\ UNCHANGED <<frame, rdone, cdone, rrefs, crefs, inflight, pending, pushed, escaped, lost, wire, responder>>

(* moodycamel's queue keeps the order of one producer's items and promises    *)
(* nothing about the items of two producers.                                  *)
Dequeueable(i) == \A j \in 1..(i - 1) : pending[j].by # pending[i].by

(* The responder takes an item: it exits on the sentinel and writes the rest. *)
WriteOut(i) ==
    /\ responder = "running"
    /\ Dequeueable(i)
    /\ pending' = RemoveAt(pending, i)
    /\ IF pending[i].out = "Exit"
       THEN responder' = "done" /\ UNCHANGED wire
       ELSE wire' = Append(wire, <<pending[i].call, pending[i].out>>) /\ UNCHANGED responder
    /\ UNCHANGED <<frame, rdone, cdone, rrefs, crefs, inflight, thr, pushed, escaped, lost>>

ResponderStep == \E i \in 1..Len(pending) : WriteOut(i)

ServerStep == (SNext \/ \E t \in Threads : CodecFails(t)) /\ UNCHANGED <<wire, responder>>

(* The process has nothing left to do once run() has returned, its server is  *)
(* gone and no worker is inside the library.                                  *)
Terminated == /\ thr[Main].at = "destroyed"
              /\ \A w \in Workers : thr[w].at = "user"
              /\ UNCHANGED vars

(* Or it hangs: Main waits for a responder that no sentinel will end. *)
Hung == /\ thr[Main].at = "join" /\ escaped /\ pending = <<>>
        /\ \A w \in Workers : thr[w].at = "user"
        /\ UNCHANGED vars

Next == \/ ServerStep \/ Reply \/ EndOfInput \/ SendExit \/ Join \/ Destroy \/ ResponderStep
        \/ ReadThrows \/ Unwind \/ Terminated \/ Hung

Spec == Init /\ [][Next]_vars

-----------------------------------------------------------------------------
(* Fairness.  Library code, the read loop's bookkeeping and the responder run *)
(* when they can; a handler returns.  A thread that keeps finding the mutex   *)
(* free eventually gets it (strong fairness: a waiter that wakes spuriously   *)
(* for ever takes it again and again).  Nothing is assumed of the client, of  *)
(* spurious wake-ups, or of user code that could fire a call but need not.    *)
own == <<wire, responder>>

SystemFairness ==
    /\ \A t \in Threads : WF_vars(LibraryStep(t) /\ UNCHANGED own)
    /\ \A t \in Threads : SF_vars(Notify(t) /\ UNCHANGED own)
    /\ WF_vars(LeaveResolver /\ UNCHANGED own) /\ WF_vars(LeaveContext /\ UNCHANGED own)
    /\ WF_vars(HandlerReturn /\ UNCHANGED own) /\ WF_vars(WaitStep /\ UNCHANGED own)
    /\ WF_vars(Reply) /\ WF_vars(SendExit) /\ WF_vars(Unwind) /\ WF_vars(Join) /\ WF_vars(ResponderStep)

(* User code eventually lets go of every handle. *)
HandlesDropped == \A w \in Workers, r \in Requests : WF_vars(Drop(w, r) /\ UNCHANGED own)

SystemSpec == Spec /\ SystemFairness
LiveSpec   == SystemSpec /\ HandlesDropped

-----------------------------------------------------------------------------
(* Where an answer to request r can be: in the hands of the thread about to   *)
(* enqueue it, in the queue, or written.                                      *)
Holding(t, r) == thr[t].at \in {"reply", "send"} /\ thr[t].call = r
Carriers(r) == {<<"thread", t>> : t \in {t \in Threads : Holding(t, r)}}
          \cup {<<"queue", i>> : i \in {i \in 1..Len(pending) : pending[i].call = r}}
          \cup {<<"wire", i>> : i \in {i \in 1..Len(wire) : wire[i][1] = r}}
Carried(r) == {thr[t].out : t \in {t \in Threads : Holding(t, r)}}
         \cup {pending[i].out : i \in {i \in 1..Len(pending) : pending[i].call = r}}
         \cup {wire[i][2] : i \in {i \in 1..Len(wire) : wire[i][1] = r}}

Accepted == {r \in Requests : frame[r] # Unread}
Written(r) == \E i \in 1..Len(wire) : wire[i][1] = r

(* A call is open from dispatchAsync's fetch_add to the fetch_sub at the end  *)
(* of ~AsyncContext::State.                                                   *)
Closing(t, r) == /\ thr[t].call = r
                 /\ thr[t].at = "complete" \/ (thr[t].at = "send" /\ thr[t].then = "complete")
Open(r) == crefs[r] # {} \/ \E t \in Threads : Closing(t, r)

(* The values of the state: a thread inside the library has the call it is    *)
(* there for and, up to the enqueue, an outcome; every queued item and every  *)
(* written answer is well formed.                                             *)
TypeOK ==
    /\ frame \in [Requests -> Input \cup {Unread}]
    /\ rdone \in [Requests -> BOOLEAN]
    /\ cdone \in [Requests -> BOOLEAN]
    /\ rrefs \in [Requests -> SUBSET Threads]
    /\ crefs \in [Requests -> SUBSET (Threads \cup {Closures})]
    /\ inflight \in Int
    /\ thr \in [Threads -> Position]
    /\ pending \in Seq(Item)
    /\ pushed \in 0..MaxPush
    /\ escaped \in BOOLEAN
    /\ lost \subseteq Requests
    /\ wire \in Seq((Requests \cup {NoCall}) \X (Outcomes \cup {"Notification"}))
    /\ responder \in {"running", "done"}

(* No request is ever answered twice: whatever handles fire, throw and are    *)
(* dropped in whatever order, at most one answer to it is on its way or out.  *)
AtMostOneAnswer == \A r \in Requests : \A a, b \in Carriers(r) : a = b

(* _inflight counts exactly the calls whose context is alive or being         *)
(* destroyed, on every path out of dispatchAsync.                             *)
InflightExact == inflight = Cardinality({r \in Requests : Open(r)})

(* "Abandoned" is said of a call only when no handle to it is left: neither a *)
(* Resolver nor, for a raw handler, an AsyncContext.                          *)
AbandonedMeansUnreachable ==
    \A r \in Requests : "Abandoned" \in Carried(r) =>
        /\ rrefs[r] = {}
        /\ IsRaw(r) => crefs[r] = {}

(* waitForInflight does its work: once Main goes past it, every request that  *)
(* was read has its answer in the queue or written, so none can be enqueued   *)
(* behind the exit sentinel; what an exception took stays lost.               *)
NoAnswerAfterExit ==
    (thr[Main].at \in {"drained", "join", "returned", "destroyed"} /\ ~escaped) =>
        \A r \in Accepted : /\ (Carriers(r) = {}) <=> r \in lost
                            /\ \A t \in Threads : ~Holding(t, r)

(* The first answer to a request stands: between the once-flag and the wire   *)
(* it is never replaced or joined by another, nor dropped except by an        *)
(* exception out of the codec, after which the request has none for ever.     *)
FirstAnswerStands ==
    [][\A r \in Requests :
        /\ Carried(r) # {} => IF r \in lost' THEN Carried(r)' = {} ELSE Carried(r)' = Carried(r)
        /\ r \in lost => Carried(r)' = {}]_vars

(* An exception out of the read loop never comes back from run(): the         *)
(* responder outlives it, to write what workers still answer, and Main stays  *)
(* in ~jthread.                                                               *)
EscapeNeverReturns ==
    escaped => /\ responder = "running"
               /\ thr[Main].at \notin {"lock", "check", "block", "asleep", "drained", "returned", "destroyed"}
               /\ \A i \in 1..Len(pending) : pending[i].out # "Exit"

-----------------------------------------------------------------------------
(* When run() returns, every request that was read has been answered on the   *)
(* wire, or an exception took its answer: none is stranded behind the exit    *)
(* sentinel.                                                                  *)
NothingStranded == thr[Main].at \in {"returned", "destroyed"} =>
                       \A r \in Accepted : Written(r) \/ r \in lost

(* The sentinel overtook the answer to r, which a worker had enqueued: it     *)
(* stays in the queue.                                                        *)
Stranded(r) == /\ responder = "done"
               /\ \E i \in 1..Len(pending) : pending[i].call = r /\ pending[i].by \in Workers

(* What the order of the queue does guarantee: an answer that is missing when *)
(* run() returns, and that no exception took, was enqueued before the         *)
(* sentinel, by a worker.  Every answer the read loop's own thread gave is on *)
(* the wire, and none is still in a thread's hands.                           *)
OnlyWorkersStranded ==
    thr[Main].at \in {"returned", "destroyed"} =>
        \A r \in Accepted : Written(r) \/ r \in lost \/ Stranded(r)

AnswerOf(r) == LET i == CHOOSE i \in 1..Len(wire) : wire[i][1] = r IN wire[i][2]

(* The server implements its contract, in which an answer that may come from  *)
(* another thread, and none else, may be left behind.                         *)
Contract == INSTANCE RpcContract WITH
    MayStrand <- AsyncFrames \ BadAsync,
    answer <- [r \in Requests |-> IF Written(r) THEN AnswerOf(r) ELSE NoAnswer],
    over   <- thr[Main].at \in {"returned", "destroyed"}

ImplementsContract == Contract!Spec

(* No request that was read stays open, if the handles to it are eventually   *)
(* dropped: fired or not, during an unwinding or after it, it is written,     *)
(* unless an exception took its answer or the sentinel overtook it.  In those *)
(* two cases its client does hang.                                            *)
EveryRequestAnswered ==
    \A r \in Requests : frame[r] # Unread ~> (Written(r) \/ r \in lost \/ Stranded(r))

(* After end of input, run() returns: no wake-up is lost between the counter, *)
(* the mutex and the condition variable, and the responder takes the sentinel.*)
RunReturns == thr[Main].at = "lock" ~> thr[Main].at = "returned"

(* "Block until every async handler in flight has resolved": with every call  *)
(* that was read answered, run() goes on to return.                           *)
ResolvedMeansReturns ==
    (thr[Main].at = "lock" /\ \A r \in Accepted : Carriers(r) # {}) ~> thr[Main].at = "returned"

(* Once the server has left scope, no thread is still inside its code.        *)
NoUseAfterDestroy == thr[Main].at = "destroyed" => \A w \in Workers : thr[w].at = "user"
=============================================================================
