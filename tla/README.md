# smocket in TLA+

smocket replaces socket.io in tests: client Sockets, server Sockets and namespaces
run in one process, without a network, and a MessagePort bridge lets a page reach a
server that lives in a SharedWorker. This directory models the parts of it whose
correctness depends on the order in which things happen. TLC checks the models on
small instances; TLAPS proves some of the results for every instance.

All paths are relative to the repository; `runtime/` is `src/src/runtime/`.

## 1. The system

JavaScript runs one thing at a time, so the difficulties are not data races. They
come from three sources.

* **Re-entrance.** The library calls listeners, observers, middleware, auth callbacks
  and adapters in the middle of its own operations, and each may call any operation
  again before the first continues.
* **Deferred work.** `defer` (`runtime/delivery.ts:12`) puts work on the microtask
  queue. It finds, when it runs, whatever the code before it has left.
* **Two parties on a port.** The page and the worker do run at the same time, and know
  of each other what the messages say.

| Part | State | Operations | Interacts with |
|---|---|---|---|
| Client Socket (`sockets.ts:556-918`) | `connected`, `connectionAttempt`, `serverSocket`, `sendBuffer`, pending acknowledgements | `connect`, `disconnect`, `emit`, `emitWithAck`, `timeout`, flush | Manager, Namespace, its server Socket |
| Server Socket (`sockets.ts:60-545`) | `active`, `connected`, `teardownPromise`, `membershipCleaned`, delivery and acknowledgement states, rooms | `emit`, `disconnect(close)`, `join`, `leave`, `use` | its peer, Namespace, Adapter |
| Manager (`manager.ts`) | namespace claims, `pendingClients`, `connectedClients` | `disconnect` of the whole group | its clients |
| Namespace (`namespaces.ts`) | `sockets` (the roster), middleware, `ready`, `waiters`, `closed` | pairing, admission, `nextConnection`, `close`, broadcast | all of the above |
| Server (`server.ts`) | registry of origins, namespaces, dynamic parents, cached Manager, adapter factory | `of`, `connect`, `adapter`, `nextConnection`, `close` | namespaces |
| Delivery (`delivery.ts`) | none of its own | `send`, guards, `withAckTimeout` | both Sockets, Adapter |
| Adapters (`adapters.ts`) | room indexes; delay queues; dropped sids; traces | `add`, `del`, `scheduleDelivery`, `removeSocket` | delivery, broadcast |
| Broadcast (`broadcast.ts`) | immutable operators; `collect` has responses and a timer | `emit`, `emitWithAck`, `socketsJoin`, ... | Adapter, roster |
| Emitters (`emitters.ts`, `host-emitter.ts`) | listener arrays | `on`, `once`, `off`, dispatch | everything |
| Packet dispatch (`sockets.ts:128-264`) | middleware chain, `fired` of each wrapper, dispatch depth | `use`, dispatch, named dispatch | emitters, teardown |
| Bridge page (`shared-worker-client.ts`) | request, generation, connection flags, buffer, pending acknowledgements | `connect`, `disconnect`, `emit`, message handlers | the port |
| Bridge host (`shared-worker-host.ts`) | active generation, its client Socket, references | message handlers, Socket callbacks, `close` | the port, a client Socket |
| Release (`src/scripts/`, `src/.github/workflows/release.yml`) | candidate with digests, jobs, the npm registry | pack, check, publish, verify, adopt | npm, GitHub Actions |

What makes each part correct, and where it could go wrong:

* *Lifecycle.* Both sides, the roster and the Manager agree about who is connected,
  whatever callback a disconnect, reconnect or close starts in. An attempt settles
  once. Deferred halves of a disconnect must not hit a newer connection.
* *Acknowledgements.* Answer, timer and disconnect settle an emit between them, and its
  callback is called once, except by the loop of a disconnect (section 4); an
  acknowledgement function dies with its connection; an interrupted flush neither
  loses, repeats nor reorders packets.
* *Delayed delivery.* One FIFO stream per socket although delays shrink, timers fire in
  any order and listeners re-enter the adapter; nothing waits without a timer.
* *Bridge.* Page and host agree whenever nothing is on the port. What belongs to a
  request or generation that is over is recognised on both sides.
* *Rooms and broadcast.* Three views of the rooms stay the same while a Socket goes; a
  collection ends once, with every answer or the timer; a loop over Sockets misses none
  although their listeners disconnect others.
* *Server and connection API.* A Socket is offered once and to the oldest observer, in
  whatever way its namespace came about and however often matchers and chains answer;
  closing is final; no two namespaces share a custom adapter.
* *Packets.* They are taken in order, each reaches its named listeners once per completed
  chain, a `once()` listener runs once, and when the connection ends both sides know.
* *Release.* Only the bytes that were packed and checked are published, the client of a
  version follows the root of its own commit, and only a complete pair is certified.

`PROJECT.json` lists the hazards line by line with the properties that cover them.

## 2. Modules

| Module | Models | Used by |
|---|---|---|
| `Pairing` | client and server Sockets, Namespace admission, Manager, `Server.close` | `MCPairing`, `PairingProofs` |
| `Acknowledgements` | emits with an answer, timers, send buffer and flush | `MCAcknowledgements`, `AcknowledgementProofs` |
| `FifoStream` | the promise of ordered delivery to one socket | `DelayingAdapter` (`INSTANCE`) |
| `DelayingAdapter` | the delay queue of one sid, its runs and its drain | `MCDelayingAdapter`, `DelayingAdapterProofs` |
| `SharedWorkerBridge` | page facade, port, worker host | `MCSharedWorkerBridge`, `SharedWorkerBridgeProofs` |
| `Broadcast` | rooms, membership, `DroppingAdapter`, broadcasts and bulk disconnects | `MCBroadcast`, `BroadcastProofs` |
| `ConnectionQueue` | the promise of `nextConnection`: one FIFO queue per name | `ConnectionApi` (`INSTANCE`) |
| `ConnectionApi` | registry of origins, namespaces, dynamic parents, adapters, `nextConnection`, `Server.close` | `MCConnectionApi`, `ConnectionApiProofs` |
| `PacketPipeline` | the promise about the packets of a Socket: order, one dispatch per chain, the end | `PacketDispatch` (`INSTANCE`) |
| `PacketDispatch` | queue, catch-all and named listeners, `use` middleware, `once`, teardown | `MCPacketDispatch`, `PacketDispatchProofs` |
| `ReleaseLedger` | the promise of a release, per version | `Release` (`INSTANCE`) |
| `Release` | candidate, checks, release jobs, registry | `MCRelease`, `ReleaseProofs` |
| `PairingProofs`, `AcknowledgementProofs`, `DelayingAdapterProofs`, `ConnectionApiProofs`, `BroadcastProofs`, `PacketDispatchProofs`, `ReleaseProofs`, `SharedWorkerBridgeProofs` | theorems | |

**How code becomes actions.** A synchronous piece of library code between two points at
which it calls the application is one action. Where it does call the application, the
rest of the code is a frame on `stack` (`calls` in the bridge), and a `...Returns`
action of its own continues it. Application operations are enabled at top level and
inside every callback. A microtask runs only when `stack` is empty.

### Pairing

A client's attempts are numbered; `<<c, n>>` names the attempt and the server Socket
that pairing creates for it. `state`, `attempt`, `socket`, `online` are
`ConnectionAttempt.state`, `connectionAttempt`, `serverSocket` and `connected` of the
client; `active`, `srvConnected`, `cleaned`, `torn` are `active`, `connected`,
`membershipCleaned` and `teardownPromise` of the server Socket; `roster` is
`Namespace.sockets`. `told` and `heard` record the last lifecycle event that the
application saw of each Socket; nothing reads them but the properties.

* `Connect`, `ResolveAuth`, `RunPair`, `CallNext`, `RefuseNext`, `RunAccept`,
  `RunRefuse`, `ConnectionReturns`, `RunConnectError` follow an attempt through
  `Namespace.pair` and its middleware to `completeConnectionAttempt`.
* `FlushReturns`: the outgoing observers of one buffered packet have returned.
* `Disconnect`, `CancelAttempt`, `LeavingReturns`, `RunTeardown` are a disconnect by the
  client, `ServerDisconnect`, `DisconnectingReturns`, `DisconnectReturns`,
  `RunClientDisconnect` one by the server, `Close` and `CloseFromServer` `Server.close`.
* `DisconnectGroup`, `DisconnectMember`, `CancelGroup`, `DisconnectInitiator` are
  `Manager.disconnect`, which calls listeners between the members of its snapshot.

Abstractions: which clients share a Manager is a constant; the sets of `Manager` and
`Server.close` are visited in any order, although the code visits them in insertion
order; of the packets only the number in the buffer is kept; of the rooms only the
room named by the id. `EarlyDisconnect`, `StaleDisconnect` and `MaxNext` say whether
the application disconnects a Socket inside its middleware, disconnects Sockets whose
attempt was cancelled or rejected, and calls `next` repeatedly. `PairingTwo` and the first
theorems allow all three, `PairingStale` the second; `PairingOne` and the theorems about a
`Disciplined` application leave them out.

### Acknowledgements

One client and its successive server Sockets. An emit is a record of `msgs`: its form
(callback or promise), whether it has `timeout(ms)`, where the packet is, which Socket's
guards it captured, and what settled it. `receiving`, `serverAcks`, `clientAcks` are the
Sockets whose `deliveryState`, `serverAcknowledgementState` and
`clientAcknowledgementState` are active. `ClientEmit` and `ServerEmit` go as far as the
outgoing observers, `ClientSends` and `ServerSends` continue. `FlushFrom`, `FlushSends`
and `FlushRestores` are the flush on connecting; the last is the branch in which an
observer has disconnected and the rest goes back to the buffer. `MarkDisconnected` is a
disconnect up to its loop over the rejecters (`runtime/sockets.ts:910`), which calls
callbacks of the application: `RejectFrom` goes on to the next callback, `RejectReturns`
continues when it returns, and the frame between them holds the rejecters that are left.
The callback may emit, connect, disconnect, or advance fake timers. `LeavingReturns(drain)`
covers the window in which the client is already disconnected and the server has not yet
torn down.

Abstractions: the default adapter, so a delivery is one microtask; a timer may fire at
any moment (the tests use fake timers); values can be encoded; listeners hold an
acknowledgement function as long as they like and may call it twice; the loop visits the
rejecters in any order; callbacks do not throw. Middleware is `Admit`, which may come late.

### DelayingAdapter and FifoStream

One sid. `entries` is the queue, `queue` its identity (a queue that is created again
for the sid is another one), `runs` the scheduled functions in the microtask queue and
the timer, with the queue and the head that they captured; `scheduled` is the one that
`removeSocket` would cancel. `Run` calls `deliver` and pushes a frame; `RunReturns`
continues with `shift` and `pump`; `RemoveSocket` and `DrainReturns` drain. A timer that
is cancelled may have no `cancel`: `Cancel` removes the run or leaves it. Delays may be
negative or zero, as `setDelay` clamps them. `FifoStream` counts messages sent and
delivered; the refinement mapping is the identity on `sent` and `delivered`.

Abstractions: `removeSocket` is called once, as the library does for each sid; sending
is bounded by `MaxSends`, and time by `MaxTime`: a message is not sent when it would be
due later than that.

### SharedWorkerBridge

Both sides and the two directions of the port (`toHost`, `toPage`). `requestId`,
`generation` and the flags have the names of the page's fields; `active`,
`nextGeneration`, `requestOf`, `sockets`, `serverAcks`, `references` are the host's.
The page's handlers are `Receive...`, the host's `Host...`. What the worker's client
Socket does (`ServerAccepts`, `ServerRefuses`, `ServerDisconnects`, `ServerEmits`,
`ServerAnswers`) is nondeterministic within what a client Socket promises. A message
that cannot be cloned makes `postMessage` throw, and the listeners of `bridge_error`
may use the facade before the caller continues (`calls`). A server event named `''` or
`bridge_error` is posted by the host and dropped by the page, whose protocol refuses the
name (`unreadable`). `Faults` says which of these an application does.

Abstractions: the host's `CONNECTED`, which holds an id, can always be cloned.
`bridge_error` reports that the host sends only call listeners and are left out. Listeners
of `bridge_error` do not throw. A Socket that is accepted again is accepted again only once
the page has read everything: a bound.

### Broadcast

Several Sockets, each with one client and its first connection. `roomsOf` is
`ServerSocket.rooms`, `members` and `index` are the Adapter's two maps and `known` the
keys of the second, `dropped` is the set of a `DroppingAdapter` over the default
Adapter. `Join`, `Leave`, `SetDropped`, `CleanupMembership` change them; admission
(`Register`, `ConnectionReturns`, `Abandon`) and the two ways to disconnect are those of
`Pairing` as far as rooms and packets see them.

`Emit` chooses the recipients once (`Recipients`); a frame `cast` stands for the outgoing
observers of each in turn, and `CastReturns` continues `sendBroadcast`. `place` says
where the packet of each recipient is: chosen, in the microtask queue, lost, heard, or
its acknowledgement function held, spent and counted. `Collect` and `Timeout` are the
two ends of `collect`. `DisconnectSockets` takes its Sockets from `Socket.rooms`
(`ManagementSockets`); `BulkNext` disconnects the next one.

Abstractions: an operator is its rooms, exclusions and `volatile`; loops visit their
Sockets in any order; a timer may fire at any moment, `timeout(ms)` or not; the two ack
forms are one. `MaxChanges` bounds joins, leaves and drops of the application,
`MaxDepth` how deep in callbacks it acts. Managers with several clients are `Pairing`'s.

### ConnectionApi and ConnectionQueue

The Server of one origin. `registered`, `parents`, `custom`, `adapterOf`, `instances`,
`admissionStarted` and `dynamicWaiters` are its fields; `ready` and `waiters` are the two
queues of each Namespace, `nsClosed` its `closed`. `building` is what the calls of
`adapter()` that are under way have collected, the innermost first: `adapter()` calls one
factory after the other, and a factory may call it again (`MaxNested` bounds how deep).
`result` says what became of each `nextConnection()` call, and `state` is that of the attempt.

* `Of`, `OfParent`, `Create`, `CreateFails` are `of()` and `getNamespace`; `Create` moves
  the observers of the name, as the code does before it announces `new_namespace`.
* `Connect`, `RunAdmit`, `AnswerAdmitAuth`, `TryParent`, `AnswerMatcher`, `Admit`,
  `ResumeAdmission` are dynamic admission: RegExp parents are passed over, a function is
  asked and may answer at once, later or twice. `RunPair`, `AnswerAuth`, `Pair`,
  `CallNext`, `RunAccept`, `RunRefuse`, `HandlerReturns` are the attempt after that.
* `Offer`, `Claim`, `DiscardReady`, `NextConnection`, `ResumeObservation` and `Close` are
  the connection API. `RegisterAdapters`, `FactoryReturns`, `FactoryFails` are `adapter()`,
  in whose factories the application may do anything.

`ConnectionQueue` has one queue of observers per name, where the code has one in the
Server before the Namespace exists and one in the Namespace afterwards: `Waiting` is the
refinement mapping.

Abstractions: a name stands for its normalized form; a factory that `getNamespace` calls
does nothing else, and `new_namespace` listeners do not throw; what becomes of a Socket
after its admission is `Pairing`'s. `CloseWhenAnnounced` says whether the application may
close the Server in a `new_namespace` listener that a `nextConnection()` waits for.

### PacketDispatch and PacketPipeline

One admitted server Socket and the packets of its client. `active`, `clientDrain` and
`torn` are `deliveryState` and `teardownPromise`; `listeners` are the registries of the
catch-all, of one named event and of `error`, each a sequence in which 0 is a listener of
`on()` and a number a wrapper of `once()`. A loop over a snapshot is a frame; it is `busy`
while the application runs in it. `CallListener` calls the next entry and removes a
wrapper first, as the code does; `EndCatchAll` starts the chain on the middleware of that
moment, `EndCatchAllDirect` the named listeners when there was none before the
catch-alls. `RunNamed` is the named dispatch, one tick later, which asks whether the
Socket is still valid or draining. `Throw` lets application code throw out of any loop.

Abstractions: one event name, and packets without acknowledgements (`Acknowledgements`).
A `CONNECT` error after admission (`runtime/sockets.ts:317`) is not among the ends: it
tears the server Socket down and leaves the client connected, and is `Pairing`'s
(`RunRefuse`). `Limit` bounds the registries, `MaxChanges` their changes, `MaxNext` the
calls of `next`.

### Release and ReleaseLedger

`ci`, `checked` and `candidate` are the package job of each commit, `job` the stages of
the five jobs of a run, `copy` what the running job has downloaded, `attempt` and
`pending` the loop of `verifyRegistryVisibility`. A tarball is the commit it was packed
from, or `Damaged`. `CreateCandidate`, `CheckCandidate`, `ConcludeChecks` are continuous
integration; `CertifyCi`, `Download`, `LoadCandidate`, `LookUpRoot`, `Publish`,
`EndPublication`, `StartVerification`, `LookUpRound`, `Adopt` the jobs. External are the
registry, which accepts a version once and shows it later (`Show`), machines that stop at
any point (`Stop`), and GitHub's repetition of failed jobs or of all jobs (`Rerun`).

Abstractions: the publishing jobs download the copy that the run's preflight has uploaded
again (`src/.github/workflows/release.yml:102`, `:130`, `:162`), which holds the bytes that
preflight downloaded: `Download` reads the candidate for all jobs, and `Damaged` may come
in at each of them. Digests and sizes are the identity of a tarball; the checks of the packages
either pass or fail; the bounds are the checks of a candidate, repetitions and faults.

## 3. Runs

| Run | Instance | Shows |
|---|---|---|
| `PairingOne` | one client, three attempts, auth callback, two middleware functions, two buffered packets; fairness | client, roster and events agree (`RosterAgreement`, `EventOrder`), attempts that ask nobody settle, nobody stays on a Socket that is torn down; the application calls `next` once and disconnects only admitted Sockets |
| `PairingTwo` | two clients of one Manager, three attempts of both together, one middleware function, a repeated completion (`FewAttempts`), no restriction on the application | the Manager's sets are exact, a group disconnect reaches the whole group, the inductive invariant of the proofs (`PairingInv`), attempts settle once |
| `PairingStale` | one client, two attempts | **violated**: `OnlyOwnConnection` (section 4) |
| `ConnectionApiQueue` | two names, two attempts to the dynamic one, two observers, a RegExp and function parents (two at most), two custom adapters, `adapter()` twice nested, one repeated answer, another Server for the origin | closing is final and adapters are isolated (`ApiInv`), a Namespace with Sockets keeps its adapter, refinement of `ConnectionQueue` |
| `PacketDispatchAll` | two packets, one middleware function, registries of one, one and two listeners, one change, two calls of `next`, throwing listeners | refinement of `PacketPipeline`, `once()` listeners run once (`DispatchInv`), both sides know of the end |
| `ReleaseRuns` | three commits, two of one version and one that cannot be packed; two runs, two checks, two lookups, one repetition, one fault; fairness | only packed bytes are published (`ReleaseInv`), refinement of `ReleaseLedger`, runs settle |
| `AckSettle` | two connections, two emits in either direction | emits settle, and on their own connection; only the loop of a disconnect calls a callback again (`OnlyTheLoopCallsAgain`); the buffer keeps its rest, in order |
| `AckRevived` | the same | **violated**: `SettledIsNotResent` (section 4) |
| `DelayStream` | four messages, four units of time, a short delay, a long one and one that clears it | nothing is lost or left waiting; refinement of `FifoStream`, with its liveness |
| `BridgeCalm` | three connects, two emits, two server events; no faults; fairness | agreement and no orphans (`BridgeInv`), acknowledgements carried, order, and that connecting and leaving end |
| `BridgeFaults` | two connects, two emits, one event; all faults, `"names"` included | the host never meets a protocol it does not understand; generations end in order |
| `BroadcastRooms` | two Sockets, one room, one broadcast to all or to the room without its first Socket, one change of rooms; fairness | room views agree, collections end once and with every answer, bulk disconnects reach all |

Why the bounds are enough for what a run asks: the hazards of the lifecycle need an old
and a new connection of a client, and the third attempt adds one cancelled in between;
group disconnects need an initiator and another member, and either may reconnect while
the loop runs. `FewAttempts` leaves out that both do in one behaviour, or one does beside a
repeated completion, which is too large for a run; the proofs cover it. A flush can be
interrupted in front of, between and behind two packets, so two emits suffice there, and
two connections tell a packet's own from the next.
A queue of four holds one message in delivery, a scheduled head and two that wait while
it is drained or replaced. On the port three connects give a replaced, a replacing and
a later generation; two emits and two events give each direction a message that may
overtake. Two recipients are a first one, whose observers act, and one behind it, for a
broadcast as for a bulk disconnect. Two observers and two Sockets of one name are the
least that an order can be read from, and the name is created by `of()`, by admission or
by an observer while they wait; a second parent is what a matcher's refusal goes on to.
A packet may wait behind one that ends the connection, and two calls of `next` are one
repetition. Two runs and two commits of one version are a release and its competitor,
each of which may be repeated. The safety properties of `Broadcast` also held on an
exploration with two changes and callbacks two deep (2.6 million states), which is too
large for a run with liveness.

`CHECK_DEADLOCK FALSE` is in every configuration because each system may come to rest:
all clients are disconnected, everything is delivered, or a bound is reached.

### Fairness

* `Pairing`: `WF(GroupStep)`, since a loop in library code runs to its end;
  `SF(CallbackReturns)` and `SF(Microtask)`, since a callback makes finitely many calls
  and returns, and the event loop empties the microtask queue before anything else. They
  are strong because application calls disable them meanwhile. There is no fairness on
  the application: its middleware and auth callback, which `PairingOne` has, may never
  answer, and `PendingSettles` excuses an attempt for as long as it waits for one (`Asked`).
* `DelayingAdapter`: listeners return, scheduled functions run, time passes. There is
  none on the application.
* `SharedWorkerBridge`: the code after a listener continues, the port delivers both
  ways, and the server accepts or refuses a Socket that waits. The first two are the
  event loop's; the third is an assumption on the server's middleware.
* `Broadcast`: `WF(BulkDisconnect)`, a library loop; `SF(CallbackReturns)` and
  `SF(Microtask)` as in `Pairing`; every timer fires unless it was cleared.
* `Release`: the jobs of a run that was started go on (`WF(JobStep)`). Nobody has to
  start a run or repeat it, and nothing makes the registry show a version in time.
* `ConnectionApi` and `PacketDispatch` have no liveness property: an observer waits for a
  client that may never come, a chain for a `next` that may never be called.
* `Acknowledgements` has no liveness property: an emit without timeout may wait for its
  answer for ever.

## 4. Findings

`AckRevived` is a disagreement of the code with its own decision record:
`runtime/sockets.ts:633`. An `emitWithAck()` without timeout that an interrupted flush
puts back into the buffer has been rejected by the disconnect, but has no `isSettled`,
and is sent on the next connection. Decision 0012 says that settled packets are skipped.

`PairingStale` is another: the half of `disconnectNamespaceFromServer` that is deferred
(`runtime/sockets.ts:365`) marks the client disconnected if it is connected, and does not
ask to which Socket. A Socket whose attempt was cancelled in its `connection` handler is
still usable; its `disconnect()` drops the newer connection of the client. Decision 0028
says of `disconnect(false)` that only the addressed Socket closes.

A third has no run of its own. Decision 0012 (`:29-33`) says that the settlement by a
disconnect clears the timer, "so expiry cannot invoke the callback again", and that there
is one. The loop of `markDisconnected` (`runtime/sockets.ts:910-912`) walks a snapshot of
the rejecters, and a rejecter does not ask whether its emit is settled
(`runtime/delivery.ts:156-161`). When two emits with `timeout(ms)` are in flight and the
callback of the first, called by the loop, advances fake timers past the second, its timer
calls the second's callback, and then the loop calls it again. `CallbackOnce` of
`Acknowledgements` states what decision 0012 does; as an `INVARIANT` of `AckSettle` it is
violated in ten states. The run checks instead that this is the only way
(`OnlyTheLoopCallsAgain`).

What passing runs exclude by a constant, because a property fails there:

* `StaleDisconnect` (`PairingOne`): with the disconnect of `PairingStale`, `RosterAgreement`
  fails too: the client is offline and the Socket of its newer connection is in the roster.
* `EarlyDisconnect`, `MaxNext` (`PairingOne`): middleware that disconnects a Socket and
  then admits it leaves it in the roster; `next()` followed by `next(err)` lets an
  attempt outlive `Server.close`.
* `"auth"` (`BridgeCalm`): a `connect()` that fails to post its auth resets `connecting`
  and `requestId` while an earlier connect is under way
  (`src/src/shared-worker-client.ts:297`). The worker completes that one for a page that
  does not recognise it (`BridgeInv`; by decision 0038 a `connect()` replaces any
  earlier generation).
* `"blank"`, `"refusal"` (`BridgeCalm`): blank error texts and refusals after acceptance
  leave page and host in disagreement.
* `"values"` (`BridgeCalm`): when a buffered emit cannot be cloned, an emit made in its
  `bridge_error` listener is posted before the rest of the flush
  (`src/src/shared-worker-client.ts:376`), and with three emits `EmitsInOrder` fails. An
  answer that cannot be cloned leaves its acknowledgement pending on the other side until
  the connection ends (`AcksAreCarried`).
* `"names"` (`BridgeCalm`): the host posts a server event named `''` or `bridge_error` and
  keeps its acknowledgement, but the page's protocol refuses the name
  (`src/src/shared-worker-protocol.ts:183-189`) and drops the message: the acknowledgement
  is pending until the connection ends (`AcksAreCarried`). `BridgeInv` holds all the same.
* `CloseWhenAnnounced` (`ConnectionApiQueue`): a `new_namespace` listener that closes the
  Server leaves the observer that created the Namespace pending for ever, because
  `nextConnection()` does not look at `closed` again (`runtime/server.ts:394`); decision
  0030 says that closing settles the pending observers. `QueueSpec` and `ApiInv` fail.

What a model contains and excuses or leaves without a property:

* A Socket stays in `ready` after it has disconnected; `nextConnection()` then returns a
  Socket whose connection is over (`runtime/namespaces.ts:199`).
* A `disconnect` listener of the client that throws leaves the server Socket connected
  (`runtime/sockets.ts:886`); one of a lifecycle event leaves the teardown half done, and
  `close()` waits for it (`:281`). `AtRestBothSidesAgree` excuses both (`broken`), so no
  property covers them.
* An error that middleware reports after it has admitted the Socket ends that Socket and
  leaves its client connected to it (`runtime/sockets.ts:317`). `Pairing` has it
  (`RunRefuse`, in `PairingTwo`); `RosterAgreement` is checked without repeated answers.
* The length of the middleware chain is looked at before the catch-all listeners, and the
  chain is copied after them: middleware added by the first catch-all of a Socket that
  had none is not asked for that packet. After a disconnect by the client from inside a
  dispatch, packets of the queue are still dispatched by name, which decision 0034 does
  not mention; a packet without middleware is, whoever ends the connection in its
  catch-all listeners.
* A broadcast with an acknowledgement whose observer cancels the pending client of a
  recipient asks the guard of a Socket that is not there (`runtime/sockets.ts:686`): the
  loop ends with a `TypeError`, later recipients get nothing and the timer settles;
  without an acknowledgement the error comes in the microtask (`:675`). `Broadcast`
  models both (`Guardless`).
* A machine that stops after the registry has accepted its tarball fails a job that no
  repetition gets past, because the version is taken: such a version is never certified.
* A Socket that still emits after its client left, when the next attempt already has its
  Socket, captures the guards of that Socket (`runtime/sockets.ts:671`).
* Only `PacketDispatch` has listeners that throw. In a `DelayingAdapter` they stall a
  queue or cut its drain.

## 5. Proofs

`PairingProofs` assumes `PairingAssumption`: any finite number of clients, any Managers,
middleware and bounds. Its first results hold for an unrestricted application; the last
two are about a `Disciplined` one.

* `PairingInvariant`: `Spec => []PairingInv`. `ConnectedOwnsAttempt` is not inductive:
  `markDisconnected` clears an attempt that it does not inspect, so one must know that an
  attempt belongs to its client and is not settled (`AttemptsKept`), that completions
  waiting in `microtasks` and frames that will complete an attempt refer to Sockets that
  exist (`CallsAreKnown`), and that the Managers' sets are exact (`ManagerKnowsGroup`),
  which in turn rests on the first. Every action has a lemma of its own.
* `TypeCorrect`, `ConnectionsAreOwned`, `GroupsAreKnown` are its parts.
  `SettledStaysSettled` proves the action property `AttemptsSettleOnce` from it.
* `GroupLeavesTogether`: `Spec => []GroupIsLeaving`, from `GroupInv`. Listeners run between
  the members of a group disconnect, and may connect a client of the group again. It
  becomes connected only when its `connection` callback returns, which is always at the
  bottom of the stack, below the group disconnect (`Covers`): so whoever is connected is
  still in the snapshot or on a Socket whose teardown has begun (`GroupFrameOk`).
* `RosterAgrees` (`Spec => []RosterAgreement`) and `EventsAreOrdered`
  (`Spec => EventOrder`) assume `Disciplined`: `MaxNext = 1`, no `EarlyDisconnect`, no
  `StaleDisconnect`, which is what `PairingOne` has for constants. The hypothesis cannot be
  dropped: with any of the three TLC finds a behaviour in which roster and clients come to
  disagree (section 4). The application may still call every
  operation from inside every callback.

  They rest on `RosterInv`. A Socket of the roster whose teardown has begun is owed its
  end by a task or a frame (`Ending`), and a client that is on a Socket without membership
  is owed the news (`Telling`); `RosterOk` and `LiveOk` say so, `TaskOk` and `FrameOk` what
  each such task and frame finds. That a client has one Socket in the roster is a matter of
  the queue: when `accept` runs for an attempt, no teardown and no `clientLeave` of an older
  Socket may wait behind it. `MayPrecede` says which task may stand before which;
  `Latest` says of the frames that will defer a teardown that no later attempt has
  come to the server, so that its `accept` cannot be in the queue yet; and `OnlyHeard`
  that none was accepted. `clientLeave` reads the client's state without asking which
  Socket it is on, and is right because of the same order.

`AcknowledgementProofs` assumes the module's assumption on its bounds only: any number of
connections and emits.

* `AckInvariant`: `Spec => []AckInv`, in every state between two calls of the application,
  those in the loop over the rejecters included. It follows each emit from the buffer to its answer:
  what a place says of the emit (`MessageOk`), that what the client has shown to its
  observers or sent is tracked by the disconnect on the connection it has (`TrackedOk`),
  that a callback whose rejecter is tracked is not settled (`PendingOk`), which guards
  exist (`ConnectionOk`), and that buffer, flush and microtasks hold each emit once and in
  order (`BufferOk`, `StackOk`, `TasksOk`). What the loop of a disconnect has left to call
  are rejecters of promises, and of timed callbacks that nobody but their timer has settled
  since; one loop is under way at most, and meanwhile the client has no connection and tracks
  promises at most (`LoopOk`, `OneLoop`). None of these is inductive without the others:
  a flush that is interrupted returns emits to the buffer which the disconnect has
  settled, or has rejected and not settled.
* `SettledOnce` (`OnlyTheLoopCallsAgain`: an answer and a timer never call a callback again,
  and a disconnect only that of an emit that expired inside its loop),
  `DeadConnectionsSettle` (`DeadConnectionSettles`: what was sent on a connection that is
  over is settled, or the loop has its rejecter left),
  `FlushKeepsOrder` (`FlushKeepsTheRest`) and `AnswersAreOfTheConnection`
  (`AnswersNeedTheConnection`) are its consequences.
* `KeptFacts` and `KeptAscending` say what filtering a sequence returns. `Kept` is a
  recursive function; the lemmas follow its recursion with the least number at which they
  would fail, since the induction theorems of the library cannot be used.

`DelayingAdapterProofs` assumes `DelayAssumption` only.

* `StreamInvariant`: `Spec => []StreamInv`, where the invariant says how the stack is
  built (at most a drain above a run), that what waits is numbered without a gap, that
  nothing refers to a queue that does not exist yet, and that the queue has one run for
  its head or is delivering. `AlwaysPumped` depends on all of them, because a run of an older queue
  returns, after a drain, into a state with another queue.
* `NothingIsLost`, `QueuesArePumped` are its consequences; `ImplementsStream` shows that
  every step is a `Send`, a `Deliver` or a stutter of `FifoStream`.

`ConnectionApiProofs` assumes `ConnectionApiAssumption`, and in its theorems that
`CloseWhenAnnounced` is false; any names, attempts, observers, parents and adapters.

* `ServerInvariant`: `Spec => []ApiInv`. What is under way belongs to registered names
  (`KnownNames`); observers are in the queue of the Server or of the Namespace and never
  in both, and one that is on the stack is in neither (`QueueShape`, `ObserversEntered`);
  an admitted attempt is pending only while its `connection` handlers run
  (`AdmittedOnce`), so that no second completion can offer it again; the adapters that
  factories have returned differ (`BuildingShape`, for every call of
  `adapter()` that is nested in another); and while `adapter()` is under way
  nothing has begun to come in (`Admission`).
* `AdaptersOfSocketsStay`: `Spec => AdapterIsKept`, from `Admission`.
* `ServerImplementsQueue`: `Spec => QueueSpec`. Every step offers, observes, withdraws,
  ends or leaves the mapped queues alone; creating a Namespace is a stutter.

`BroadcastProofs` assumes `BroadcastAssumption` only: any Sockets, rooms and broadcasts.

* `RoomViewsStayTogether` (`Spec => []RoomsInv`), `SuccessIsEveryAnswer`
  (`Spec => []AllHaveAnswered`) and `ResultsAreFinal` (`Spec => CollectsOnce`) rest on
  `BroadcastInv`. "Every recipient has answered" is not inductive: an answer may arrive
  while the loop still sends. The invariant says that a loop on the stack holds only
  recipients to which nothing was sent (`FramesOk`), that a packet or an answer is under way
  once, where the broadcast says it is (`TasksOk`), and that the responses are of
  recipients that have answered, each once (`AnswersOk`); so the count of answers cannot reach the number of
  recipients before the last of them.
* `DisconnectSocketsMissesNobody` (`Spec => []BulkReachesAll`) rests on `BulkInv`: the
  teardown of what a bulk disconnect has visited has begun, and one that has begun is
  over, runs or waits.

`PacketDispatchProofs` assumes `PacketDispatchAssumption` only.

* `ImplementsPipeline`: `Spec => PipelineSpec`. A packet is taken in order because, while
  deliveries are valid, the packets sent and not yet taken wait in their order and none is
  missing (`OrderOk`); a named dispatch has a chain of its own because those done and those
  waiting never exceed the chains that passed (`CountOk`, about the number of microtasks of
  a packet); and the teardown of a client that left inside a dispatch finds everything
  taken, because it waits once and behind all deliveries (`TeardownOk`).
* `RestIsAgreement` (`Spec => []AtRestBothSidesAgree`), from `EndOk`: whoever ended the
  connection, what remains to be done for it is on the stack or in the queue.
* `OnceListenersRunOnce` (`Spec => []OnceRunsOnce`), and with the types of the registries,
  which `off()` filters, `RegistriesAreSound` (`Spec => []DispatchInv`).

`ReleaseProofs` assumes `ReleaseAssumption` only: any commits, versions and runs.

* `OnlyPackedBytesArePublished`: `Spec => []ReleaseInv`. The jobs take their turns in the
  order of `Needs` (`JobOrder`), so that only one of a run is under way and its copy is
  the one it has loaded (`JobVerified`), and what they have published stays
  (`JobPublished`).
* `ImplementsLedger`: `Spec => LedgerSpec`.

`SharedWorkerBridgeProofs` assumes `BridgeAssumption`: any number of connects, emits and
events. What it assumes of the application is a hypothesis about `Faults` in each theorem.

* `PortIsSound`: `Spec => []PortInv`, for all `Faults`. A connect in the port is newer than
  all that the host has taken, and each other message is of a generation the host has
  handed out and names its request (`ToHostOk`, `ToPageOk`); the host's numbers follow the
  page's (`NumbersOk`); the page is in one stage of a connection (`PageOk`). The page gets
  the request of a generation from the host and returns it, so neither side's messages can
  be judged without the other's. `HostIsUnderstood` (`HostUnderstands`), `EndsAreFinal`
  (`EndedGenerationIsSilent`) and `PageListens` (`ObservesWhileNeeded`) are consequences.
* `BothSidesAgree`: `Spec => []BridgeInv`, for `Faults \subseteq {"values", "names"}`. Agreement in
  a state with an empty port is not inductive: `LinkInv` says of every state that the host
  is where the page believes it to be or that a message which says otherwise is in the port
  (`StageOk`), that nobody has heard of a generation that waits (`PendingOk`), and that a
  connection is announced before anything else of it (`AnnouncedOk`). With each of the three other
  faults TLC finds that the sides disagree; a late refusal also leaves a Socket behind.
* `AcksArrive`: `Spec => []AcksAreCarried`, for `Faults = {}`, from `CarryInv` with both
  invariants above. An acknowledgement may be lost with a message of another generation:
  `CarryInv` follows only messages of the page's own, or the host's active, generation, and
  where one of those is dropped the other side is gone and says so. Each single fault makes the
  property fail.
* `EmitsStayInOrder`: `Spec => EmitsInOrder`, without `"values"`. What is in the port, in
  the one flush that may be under way and in the buffer is in this order later than what the
  server has received (`InPort`, `AfterPosted`, `Flushes`), and a connected page buffers
  nothing.

Only model-checked: all liveness, including the fair half of the refinements,
`CollectionEnds`, `ConnectSettles` and `LeavingEnds`. `TypeOK` and `ConnectedOwnsAttempt`
of `Pairing` are checked as parts of `PairingInv`.

## 6. What is left

Worth doing next, the most important first.

1. Listeners that throw in `DelayingAdapter`, in the cleanup of a Socket and in
   `new_namespace`; factories called by `getNamespace` that re-enter the Server.
2. `ParentBroadcastOperator`, reconnecting clients in `Broadcast`, middleware and
   listeners that children inherit from a dynamic parent.

**Not modelled.** More than half of the repository's lines never run or keep no state:

* type declarations and files that only check types (`src/src/contracts/`,
  `src/src/*.typecheck.ts`), re-exports and the facade package;
* scripts that read files and print a verdict (`check-public-surface.mjs`,
  `published-type-compatibility.mjs`, `conformance-report.mjs`): parsers and
  comparisons, where an order of steps decides nothing;
* payload snapshots and ids (`delivery.ts`), the grammar of names, URLs and options: pure
  functions of strings and object graphs, about which a model says nothing a unit test
  does not;
* the website, examples, experiments and consumers; they were read for what they expect.

Of the code that does keep state these are left out: the choice of a Manager
(`managerFor`, a constant in `Pairing`), `TracingAdapter`, listener queries and limits of
the emitters and the component-emitter of the client, `ParentBroadcastOperator`, and of
the release the publication by hand (`check-client-release-order.mjs`), the expiry of
artifacts and a second run of continuous integration for one commit.

## 7. Running it

    tlasany Pairing.tla
    tlc -config PairingOne.cfg MCPairing.tla
    tlapm PairingProofs.tla

The module of each run is the `MC...` module named in `PROJECT.json`. Each property of a
passing run has a mutant, a plausible error in one definition, under which it fails.
