# rpcpp in TLA+

rpcpp is a JSON-RPC 2.0 server library in C++ (`src/src`), with a TypeScript client and a
code generator (`src/clients/typescript`). This directory holds TLA+ models of its control
logic, TLC configurations that check them on small instances, and TLAPS proofs for every
instance. `PROJECT.json` maps each definition to the lines it models.

## The system

| component | state | operations | interacts with |
|---|---|---|---|
| `RpcServer` (RpcServer.h) | handler maps, `_inflight`, its mutex and condition variable | `processMessage`, `route`, `dispatchAsync`, `writeNotification`, `waitForInflight` | the transport's `send`, from any thread |
| `AsyncContext`, `Resolver` (Resolver.h) | two shared states per async call, each with a once-flag `done` and a reference count | `respondBytes`, `respondError`, `resolve`, `reject`, copies, `~State` | `RpcServer` through `onBytes`, `onError`, `onComplete` |
| `TypedRpcServer` | schema generators, method descriptors | `addMethod`, `addAsyncMethod`, `generateSchema`, the typed wrappers | registers in `RpcServer`; makes `Resolver`s over `AsyncContext`s |
| `StdioTransport` (C++) | a lock-free queue, the responder thread | `run`, `send` | the framers, the server, stdin and stdout |
| Framers (Framer.h) | the stream | `read`, `write` | `StdioTransport` |
| `QueueTransport`, `QuickJSTransport` | a queue the host drains | `send`, `tryReceive`, `drain` | the host's event loop |
| QuickJS codec (`qjs/`) | owned `JSValue`s | read, write, thunks | `QuickJSTransport` |
| `createClient.ts` | pending map, `closed`, `nextId`, notification handlers | `call`, `$notify`, `$on`, `$off`, `$close`, `onFrame`, `onClose` | a `Transport` |
| TS `StdioTransport`, `FrameParser` | `closed`, the reassembly buffer | `send`, `close`, stream events, `push` | node streams, `createClient` |
| codegen | none between runs | fetch a schema, order its types, emit | a child process |

What is hard here: the handler's thread, any number of user threads with copies of a
handle, the responder and the destructors race for one answer and one counter; shutdown
has to wait for all of them without losing a wake-up or an answer; a call can fail half
way (decode, encode, handler exception), and an exception may leave the read loop; on the client, promises settle while other
callbacks are on their way. `PROJECT.json` lists these hazards at their lines.

What makes each component correct: the server answers every request exactly once, with an
answer its class allows; a handle never answers twice and a dropped one answers for
itself; the counter is the number of open calls; `run()` returns after end of input with
every answer written, but for what an exception took and, as the code is, for answers of
workers that the sentinel overtook. The client settles every call once, with the answer to that call,
and settles all of them when the connection ends; a framer's reader returns the payloads
its writer was given.

## Modules

`RpcProtocol` classifies a request frame as `processMessage` and `route` do and gives the
set of outcomes the code may answer each class with. A frame is the record of what the
code branches on: readable or not, version, method, whether the params decode.

`RpcServer` is the server's dispatch, the handles and the counter. `thr[t]` says where
thread `t` is in the library. `Main` runs the read loop and, on the same stack, the
handlers: `ProcessInline` and `DispatchAsync` are the two outcomes of `processMessage`;
`HandlerReturn`, `HandlerThrow`, `LeaveResolver` and `LeaveContext` unwind the handler's
frames. Workers are user threads: the handler gives them copies of its handle
(`CopyHandle`) and they `Fire` it (resolve, reject), `Respond` (a raw handler's context)
or `Drop` it at any time. What the library does on their thread follows step by step:
`Encode`, `Claim` (the context's flag), `Send` (the enqueue), `Release` (the closures of
a Resolver let go of the context), `Complete` (the `fetch_sub`), `Notify`. `rrefs` and
`crefs` are the reference counts of the two shared states as sets of holders.
One step is one access to shared state, so all interleavings the code allows are there.
A drop that reaches zero runs the destructor's exchange in the same step, because no
other thread can reach the object then.

Exceptions are steps of their own. A codec may refuse a result (`EncodeFails`: the context
is still unclaimed, so the call will be abandoned) or an error text of the user's
(`ErrorFails`: the flag is already set, the answer is gone, and what happens next depends
on who called). A handler may throw what the library does not catch (`InlineEscapes`,
`HandlerEscapes`): `escaped` says that an exception is on its way out of `processMessage`.
`lost` is a history variable: the requests whose answer an exception took. The properties
speak of every request but these, and say that these are lost for good.

`StdioServer` composes `RpcServer` with the transport: `Reply`, `EndOfInput`, the wait on
the condition variable, `SendExit`, `Join`, `Destroy`, and the responder (`WriteOut`).
An exception out of the loop, the framer's own included (`ReadThrows`), goes past the
sentinel into `~jthread` (`Unwind`), which joins a responder that nothing ends: `Hung`. The
model is of a `main` that would catch it; if nobody does, the process ends there.
The queue gives what `moodycamel::BlockingConcurrentQueue` promises, the order of the items of
one producer: the responder takes any item that has none of the same producer before it
(`Dequeueable`). All runs and theorems are about this queue.

`RpcContract` is what a client may rely on: a request read gets one answer out of those
its class allows, or an exception took it, which only a frame whose handler ran can come to
(`MayLose`); a session that is over leaves no request it read open, but for those in
`MayStrand`. The embedded server implements it with `MayStrand = {}`. The server on stdio does
not: the sentinel is Main's and may overtake an answer of a worker, so it implements the
contract with `MayStrand` the frames a worker can have answered, those of async methods whose
params decode. The stdio server and the
embedded one are shown to implement it by the mappings in `StdioServer` and `QueueServer`
(`Contract`).

`QueueServer` composes the same `RpcServer` with a host that calls `processMessage` on its
own thread, delivers what it returns (`DeliverInline`), catches what it throws
(`HostCatches`) and polls the queue of a `QueueTransport` or `QuickJSTransport` (`Poll`, one
turn of `while (tryReceive())` or of `drain`). `deferred` is the codec: a byte codec encodes
where the answer is made and may throw there; `QuickJSCodec` makes a thunk, which throws
where the host delivers it. The host may wait for the calls in flight, drain, and go on or
stop (`HostWaits`, `HostDrained`).

`StdioServerMC` and `QueueServerMC` hold the instances; `StdioServerProofs` and, on top of
it, `StdioReferenceProofs` and `StdioAnswerProofs` hold the theorems; `QueueServerProofs`
uses theirs.

`Client` is `createClient.ts` over the TypeScript `StdioTransport`. `call[c]` says at
which of its two awaits `call()` is; `sent[c]` is the promise of `transport.send`,
`promise[c]` the one of the slot, `outcome[c]` what the caller holds. The engine's
schedule is in the guards: `Quiet` says that the stack is empty and no continuation is
ready, and only then the next event comes (`WriteCallback`, a frame, `InputEnds`,
`StreamError`); user code (`Call`, `Subscribe`, `Close`) runs when the stack is empty or
inside a notification handler (`UserRuns`). One 'data' event may dispatch several frames
before any continuation runs (`pushing`). Two flags are kept apart as the code keeps
them: `$close` sets the transport's, a stream event sets both. Continuations
that are ready together run in any order. `reply[c]` is what the server answered; a request
whose bytes its codec could not read is answered with a null id (`UnaddressedFrame`), which
`onFrame` ignores.

`Framing` puts both writers and both readers of the two framings on one stream: the
blocking framers of Framer.h and the incremental `FrameParser`. `Deliver` hands over any
number of bytes, `End` closes the stream or cuts it anywhere. A byte is a digit below
`Base` and a prefix has `Width` digits, 256 and 4 in the code.

`Registry` is registration in `TypedRpcServer` and the document `generateSchema` makes:
which types get a generator, which names land under `components.schemas`, what the
methods refer to. A type is what matters of its schema: the structs it refers to, and
whether it stands under a name of its own. The `$defs` of a type are what its references lead
to (`Reaches`); `generateSchema` leaves out the one named "VoidT" (`Skipped`, a set of structs:
how reflect-cpp spells a name is its own matter, and `rpcpp::VoidT` itself becomes
`rpcpp__VoidT`, which is `Plain` and not skipped). A skipped struct that a method uses stands
in the document with a `$ref` to itself (`Refers`), and one that no method uses is a
`$ref` to nothing: the code does that, and `RefsResolve` says that no other reference
dangles. An exception out of `generateSchema` is an error line of the server (`Serve`) or no
file (`Fail`). `log` is a history variable, the registrations in their order: a name may be
registered again, in the same map or the other, with a description or without, and
`DocumentMatchesDispatch` says how far the document still tells what a call meets (`Met`). `TopoSort` is the depth-first search of
`json-schema/utils.ts`, one step per pass of a loop, with `visit`'s recursion as an
explicit stack. `Discovery` composes them: registrations, then the document, then the
generator's order of declarations. The generator gets the document from a file
(`ReadFile`) or from a server it spawns (`Serve`), whose output it scans line by line when
it has closed (`Skip`, `Found`, `Throw`); nothing of the output is looked at before, so the
server's run is one step that may leave any lines before the answer, cut the last one
short, or leave no answer. The generators are in an `unordered_map`, so the
search takes its keys in any order.

`QuickJS` is the ownership of `JSValue`s in `qjs/` and `QuickJSTransport`. `stack` is the
C++ stack of the JS thread: reads, writes, drains and the host's callback nest as the code
lets them. The engine is modelled from outside: a reference count per value, properties
that hold references, `Release` for `JS_FreeValue`. What dies of a release is the least set
closed under "nothing is left of its references", and what can be reached (`Reach`), like
what a type drags into the document (`Registry!Reaches`), the least set closed under following
references; TLC computes the one that recursion would find, and the provers can reason about
it. The Writer's objects are fresh; `JS_SetProperty` on them runs no JavaScript unless the host
has put a setter on their prototype, and the model assumes that it has not. The Reader's
objects are the host's, and a getter may change them under its hands (`Getter`). Exceptions out of a write or a callback
unwind the drain around them and leave a reference behind (`lost`).

`QuickJSMC`, `DiscoveryMC` and `FramingMC` hold the instances; `ClientProofs`,
`DiscoveryProofs`, `QuickJSProofs` and `FramingProofs` hold the theorems.

## Runs

| run | instance | question |
|---|---|---|
| `stdio_safety` | 2 requests, 2 workers, 1 notification, per-producer queue | every safety property of the handles, the flags, the counter and the drain, with exceptions |
| `stdio_contract` | 2 requests, 1 worker, all eight classes of frame, per-producer queue, fairness | what is not written at the end is lost or a worker's; the server implements `RpcContract`; every request comes to one of these ends, `run()` returns |
| `stdio_stranded` | 1 request, 1 worker, per-producer queue | fails: the sentinel overtakes an answer |
| `stdio_kept_handle` | 1 request, 1 worker, no fairness on drops | fails: resolving is not enough for `waitForInflight` |
| `stdio_destroy` | 1 request, 1 worker | fails: the server is destroyed under a worker about to notify |
| `queue_host` | 2 requests, 1 worker, all eight classes of frame, both kinds of codec, fairness | the embedded server implements `RpcContract`, `hasInflight` can be trusted, every call is answered |
| `queue_deferred` | 1 request, 1 worker | fails: an answer whose thunk throws in `drain` is gone, and nothing answers in its place |
| `client` | 2 calls, 1 notification handler | calls settle, each with its own answer; the map neither leaks nor loses |
| `client_unhandled` | 1 call | fails: a rejection meets no listener while the write is outstanding |
| `framing` | 2 frames of up to 3 bytes, digits 0 and 1, prefix of 2 digits | both readers return what was written, for every chunking and cut |
| `discovery` | 1 method name, 2 registrations, 3 structs and one named "VoidT", 1 wrapper, 1 plain type, 1 stray line before the answer | the document resolves, tells the truth, is found in the output and is declared in order |
| `quickjs` | 3 values, 3 items (one without a thunk), 6 frames, 3 fetches per read | every reference has one owner, no handle dangles, no item comes twice |

Two requests are what it takes for one call to be open while another closes (the counter
passes through values other than 0 and 1) and for an inline answer to pass an async one;
two workers with Main are three holders of one handle, enough for two to race while the
third keeps the state alive. `MaxPush` bounds the notifications user code sends and names
the only cap on behaviour; each request slot is one frame of the client, so the number
of slots bounds the length of the input.

Two calls are what it takes for a late answer to meet another call's slot; one handler is
enough for user code to run inside a dispatch. With `Base = 2` and `Width = 2` every
payload byte looks like part of a prefix and the longest payload is the longest the
prefix can count; two frames give a chunk the middle of one and the start of the next.
`MaxFrames`, `MaxAdds` and `MaxStray` are caps on the environment, `MaxDepth` and `MaxGets` on the
nesting of host and library and on the length of a read: six frames hold a drain in a
callback of a drain with a read on top, three fetches fetch one value twice. Three
addresses make a tree with siblings or a shared value; they are symmetric, as nothing
depends on an address. The 64 graphs of
`discovery` have cycles of one, two and three structs, diamonds and chains, and references to
and from the skipped struct; two registrations of one name are every pair of sync and async,
described and not.

Fairness (`SystemFairness`): the library's own code, the read loop and the responder are
threads the system schedules, hence weak fairness; the step that needs the mutex has
strong fairness, because a waiter woken spuriously for ever would take the mutex again and
again. A handler returns. Nothing is assumed of the client, of spurious wake-ups, of a
handle being fired, and, except in `LiveSpec`, of a handle being dropped. `LiveSpec` adds
that user code lets go of its handles: without it no answer is owed. An exception on its
way out of the loop gets there (`Unwind`). `QueueServer`'s `Fairness` is the same with the
host in the place of `run()`: it delivers what it is returned, catches what is thrown and
polls on each tick, which is what README.md:97 asks of it; it need not wait or stop.

`Client`'s `LiveSpec`: the engine runs its stack and every continuation (weak fairness).
A write callback and an answer are enabled only between other events, so they have strong
fairness: an event that is due is not put off for ever. That node calls back every write
and that the server answers what it read are assumptions. The second is more than the server's
contract gives, which lets an answer be lost to an exception or left behind at shutdown: a
caller of such a call waits until the stream ends, which `EveryCallSettles` does not promise
(and it is weaker for a request answered without an id, which may wait until the close).
`Discovery`'s `FairSpec` says that the generator
runs on, which straight code on one thread does.

## Findings

The five failing runs are disagreements between the code and its own words; each is
quoted in `PROJECT.json`. In short: (1) the exit sentinel can overtake answers that were
enqueued before it, since the queue is not FIFO across producers; (2) `waitForInflight`
waits for handles to be dropped, not for calls to be resolved; (3) the worker that takes
the counter to zero still locks the server's mutex afterwards, and nothing keeps the
server alive until it has; (4) on the client, a rejection that comes between the creation
of a call's promise and the end of `await transport.send` reaches nobody: the engine
reports it as unhandled, which ends a Node process by default; (5) an answer `QuickJSCodec`
cannot build fails in `drain()`, after the call was closed, and its client is left waiting,
where a byte codec's failure ends in "Async request was abandoned".

## Proofs

`StdioServerProofs` proves for all constants that meet the modules' assumptions
(`Main` is no worker, `Unread` is no frame, `NoCall` is no request, `Closures` is no thread,
`MaxPush` is a natural number):

* `Typing`: `Spec => []TypeOK`. The inductive invariant is `TypeInv`, which adds that Main
  in user code runs the handler of some request (`Handling`); without it the step that
  unwinds the handler would have no call to name.
* `AtMostOne`: `Spec => []AtMostOneAnswer`. `AtMostOneAnswer` counts the places an answer
  can be at and is not inductive. `OnceInv` adds why it stays true: a request whose
  once-flag is clear (`Unclaimed`) has no answer anywhere, references exist only to calls
  that were dispatched, and a thread inside the library for a call works on an async one.
  Every step that creates an answer takes a call from `Unclaimed` (`ClaimStep`), every
  other one moves an answer from a thread to the queue (`EnqueueStep`) or from the queue
  to the wire (`WriteOutOnce`).

`StdioReferenceProofs` first proves `CounterIsExact`: `Spec => []InflightExact`. To follow a
cardinality through a step one must know which calls the step opens or closes, and that is
what `HandleInv` says: `dispatchAsync` holds the context of the call it is in, so a copy is
never made of a closed one (`CopyCount`); only a destructor goes on to complete a call; and
one thread at a time does, when no reference is left, so `Complete` takes exactly one call
out of the set (`CompleteCount`). `DropContextCount` is the heart: the last reference is
exchanged for that duty, any other changes nothing. All the rest are moves of one thread
that keep it as far from the end of its call as it was (`MoveCount`). That a dispatched
request was not open before comes from `OnceInv`.

The rest of it and `StdioAnswerProofs` prove the remaining safety of the server, for the same
constants. The inductive invariant, `SystemInv`, has these parts:

* `KnownInv`: the three invariants above and `RefInv`, which says who holds what. A reference to
  a Resolver means that its closures still hold the context; a thread that is to answer, to
  release the closures or to abandon a call has what that takes (`Sound`); one thread releases
  the closures of a call; and a call whose params did not decode is answered by Main alone.
* `EscapeInv`: only Main unwinds out of `dispatchAsync`, an exception keeps Main out of the
  shutdown, and the sentinel, once sent, comes from behind the drain, where nothing throws any
  more. Each half needs the other: Main could leave the join if a sentinel were on its way, and
  a sentinel would be if an exception could still start behind the drain. `EscapeStays` is
  `Spec => []EscapeNeverReturns`.
* `AnswerInv`: the answer of a call that was read is at one place, or its flag is clear and a
  reference is left that will set it, or an exception took it and nothing will bring it back. An
  answer "Abandoned" says that the call is `Unreachable`, which by `RefInv` is so when the last
  holder's destructor does its exchange, and stays so: `AbandonedIsSafe`
  (`AbandonedMeansUnreachable`). Without the part about the closures a Resolver's destructor
  could be thought to run beside the context's. `FirstStands` (`FirstAnswerStands`) is the
  action property.
* `DrainInv`: behind the wait the counter stays zero (`Quiesced`). By `CounterIsExact` no
  reference is left then, hence no thread is inside a call: `DrainIsComplete`
  (`NoAnswerAfterExit`).
* `SentinelInv` and `WorkerInv`: no item of Main is behind the sentinel, so none of them is left
  when the responder is done; and an item of another thread is a worker's, with an answer a
  worker may give (`Deferrable`). Every request is therefore written, lost, or `Stranded`, in the
  queue by a worker: `OthersAreWritten` is `Spec => []OnlyWorkersStranded`. That such answers are
  left is the finding of `stdio_stranded`. `ServerKeepsContract` builds on it: every step of the
  server is a step of `RpcContract` under the mapping `Contract`, or leaves its state alone, and
  when `run()` returns only calls in `MayStrand` are open.

`QueueServerProofs` does not prove the server again. It instantiates `StdioAnswerProofs` with an
empty wire and a responder that never ends (`Stdio`): a step of `RpcServer` inside the host is
the same step there (`ServerSteps`), so is the host's wait (`SharedSteps`), and what the host does on its own
(deliver, poll, go on) keeps `KnownInv`, `EscapeInv` and `Quiesced` for reasons of its own
(`RestKnown`, `PollQueue`). `HostInv` adds what the embedding is about: the answer of a call that
was read is carried by the server, delivered or lost, or still to be claimed through a reference,
and two of these never hold at once. From `QueueInv`, which joins them, follow `QueueTyping`
(`TypeOK`), `QuietIsQueued` (`QuietMeansQueued`) and `HostKeepsContract`: the embedded server
implements `RpcContract`, with either kind of codec and, unlike the one on stdio, with nothing
that may be left behind.

`ClientProofs` proves the client's five safety properties (`ClientTyping`,
`PendingIsExact`, `AnswersAreMatched`, `AnswersAreKept`, `ClosedMeansSettled`) for any sets
of calls and handlers, without an assumption. One inductive invariant, `IInv`, carries all
of them. `AnswersMatch` needs that a slot's promise already agrees with the reply
(`PromisesMatch`), and that an answer finds its own slot or none, which holds because ids
are distinct (`IdsDistinct`) and a frame is answered only if its call took one
(`SentHasId`). `NothingWaitsAfterClose` needs that after a close only calls whose send
failed hold a slot (`SlotsAfterClose`). The paths that settle without an answer share two
lemmas: `RejectStep` for the events that fail every open call, `ThrowStep` for the
exceptions of `call()`.

`DiscoveryProofs` proves all safety properties of `Discovery`, for any set of types and names,
any graph of references and any number of registrations. `DiscoveryInv` has one part per
phase. `RegistryInv`: every class type a description mentions has a generator (`HasGenerators`),
and the log explains the maps (`LoggedInv`): each holds the last registration of a name in it
(`Stored`), and the description has the return type of the last that describes and no
parameters but its own where the others have none (`DescribedInv`). From these follow
`DocumentIsTrue` and, as `$defs` is closed, which is what a least closed set gives without
induction, `RefsAlwaysResolve`. `ScanInv` says that what the generator passed over is no answer. `SortInv`
is the invariant of the depth-first search: the stack is a path of the graph whose keys are
the ones being visited (`StackOf`), and what is visited and not on the stack has all its
dependencies declared before it or on a cycle with it (`ResultInv`). A key that is met while it
is being visited closes a cycle because it is on the path, which is where the exception in
`DependenciesFirst` comes from.

`QuickJSProofs` proves the four properties of `QuickJS`, from the assumption that `None` is
neither a value nor an item: for any number of addresses, items and nested calls. `RefInv`
says of every address, allocated or not, that its count is the number of its owners (`Base`)
and of the properties that refer to it; for a free one both are zero, so nobody refers to a
freed value (`OwnedAlive`). `ReleaseKeeps` is the heart: what dies when references are let go
has nothing left but from other dead values, and what stays has the count it should have.
Counting needs that no root is owned by two calls and that a call into `qjs/` is the last one
(`StackOK`), and that the drain an exception unwinds owns nothing. `ItemInv` is for
`NothingTwice`: an item whose value is being built is not in the queue any more.

`FramingProofs` proves the five properties of `Framing` for any base and width of the prefix,
any newline byte and any set of payloads; `Carries` is the only restriction on what is sent,
and without it the code makes no promise. The inductive invariant, `FlowInv`, says that there
is a stream `S` of all that was ever written, with the end `at[j]` of its `j`-th frame
(`Laid`), of which each buffer holds a window: the pipe from `d` to `m`, the parser from `b`
to `d`, the istream from `i` to `d`. Neither `S` nor `at` is in the program's state, so they
are quantified in the invariant, and TLC checks its consequences only. The parser stands at
the end of the last frame it emitted (`ParserAt`); the framer does as well, or has read all
there is, or has taken a line that was cut for a line (`ReaderOn`, `ReaderOver`,
`ReaderTail`). What makes a step keep this is that the next boundary a reader sees is the
next one in `at`: for lines because no payload has a newline (`LineFound`,
`LineUnfinished`), for prefixes because the length it decodes is the one that was encoded
(`PrefixRoundTrip`, `Length32Found`). The round trip is an induction over the digits of the
prefix, and the induction theorems take an operator. `Induction` says the same of sets
and follows from the well-foundedness of the subsets of a finite set; `Power` and `Decoded`
are therefore recursive functions whose values are a sequence of intermediate results
(`Horner`).

What stays with TLC: liveness (`RunReturns`, `EveryRequestAnswered`, `EveryCallSettles`,
`EveryCallAnswered`, `GeneratorFinishes`), which needs `ENABLED`. Every safety property of a
passing run is proved, and under no other assumption than those on the constants.

## Not modelled

Compile-time code (method names, type metaprogramming), the codecs' encodings and the
emitters' text are data or layout without control: they are left out for good, with the
spelling of names, `set_binary_stdio`, the parsing of command-line arguments, and `$notify`
on the client, which keeps no state. Exceptions out of the client's `onFrame` are left out
because only an error envelope without a body raises one, and no server here sends it. A
node event without a listener (a child that cannot be spawned, a pipe that breaks) is the
engine's business. Client and server are not composed in one state space: what `Client`
assumes of the server (one answer at most to a request, with its id or, if it could not be
read, without) is what `RpcContract` says, which both servers are shown to implement.
