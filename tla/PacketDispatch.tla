--------------------------- MODULE PacketDispatch ---------------------------
(***************************************************************************)
(* The packets of one client in its server Socket: their queue, the        *)
(* catch-all and named listeners, the packet middleware and the teardown   *)
(* that ends it all (ServerSocket in runtime/sockets.ts, with the emitters *)
(* of runtime/emitters.ts).                                                *)
(*                                                                         *)
(* Listeners and middleware are application code: while one runs           *)
(* (Running), and between microtasks, the application may call anything;   *)
(* `stack` holds the loops that wait for it to return or to throw.  A loop *)
(* runs over the listeners that were registered when it began.  The `next` *)
(* functions of middleware are in `held`: they may be called at once,      *)
(* later, or more than once.                                               *)
(***************************************************************************)
EXTENDS Integers, Sequences, FiniteSets

CONSTANTS
  MaxPackets,       \* bound: packets the client sends
  MaxMiddleware,    \* bound: middleware of the Socket
  Limit,            \* bound: the listeners of each registry
  MaxChanges,       \* bound: changes of the registries after admission
  MaxNext,          \* bound: calls of `next`
  Throwing          \* listeners may throw

ASSUME PacketDispatchAssumption ==
  /\ {MaxPackets, MaxMiddleware, MaxChanges, MaxNext} \subseteq Nat
  /\ Limit \in [{"any", "packet", "error"} -> Nat]
  /\ Throwing \in BOOLEAN

VARIABLES
  clientOn,         \* the client is connected
  sent,             \* packets the client has sent
  microtasks,
  active,           \* deliveryState.active
  clientDrain,      \* deliveryState.clientDrain
  torn,             \* why teardownPromise is set: "no", "client", "drain", "server" or "close"
  connected,        \* ServerSocket.connected
  ended,            \* `disconnect` was emitted
  listeners,        \* the catch-all, the named and the `error` listeners
  wrappers,         \* the `once` wrappers made so far, which numbers them
  changes,          \* changes of the registries so far
  observed,         \* a listener of `removeListener` is registered
  middleware,       \* how many packet middleware are registered
  chain,            \* the length of the chain each packet was given
  held,             \* `next` functions handed to middleware, which may be called any time
  nexts,            \* calls of them so far
  fired,            \* the `once` wrappers that have fired
  stack,
  taken,            \* history: packets dispatched, the last one
  passed, named,    \* history: completed chains and named dispatches of each packet
  ran, ranAgain,    \* history: the `once` wrappers whose listener ran, and ran again
  broken            \* history: a listener threw out of a lifecycle event

clientVars   == <<clientOn, sent>>
teardownVars == <<active, clientDrain, torn, connected, ended>>
emitterVars  == <<listeners, wrappers, changes, observed, fired>>
chainVars    == <<middleware, chain, held, nexts>>
historyVars  == <<taken, passed, named, ran, ranAgain, broken>>
vars == <<clientVars, microtasks, teardownVars, emitterVars, chainVars, stack, historyVars>>

Packets == 1..MaxPackets
Registries == {"any", "packet", "error"}
Ordinary == 0                   \* a listener registered with on()
Entries == {Ordinary} \cup 1..(MaxChanges + 1)

Loops == {"any", "anyDirect", "packet", "error"}
Lifecycle == {"disconnecting", "disconnect"}
Frames == [op : Loops \cup Lifecycle \cup {"middleware", "left"}, of : 0..MaxPackets,
           left : Seq(Entries), busy : BOOLEAN]
Tasks == [op : {"deliver", "named"}, of : Packets] \cup [op : {"teardown", "peer"}, of : {0}]

TypeOK ==
  /\ clientOn \in BOOLEAN /\ sent \in 0..MaxPackets
  /\ microtasks \in Seq(Tasks)
  /\ {active, clientDrain, connected, ended, observed} \subseteq BOOLEAN
  /\ torn \in {"no", "client", "drain", "server", "close"}
  /\ listeners \in [Registries -> Seq(Entries)]
  /\ wrappers \in 0..(MaxChanges + 1) /\ changes \in 0..MaxChanges /\ fired \subseteq 1..wrappers
  /\ middleware \in 0..MaxMiddleware /\ chain \in [Packets -> 0..MaxMiddleware]
  /\ held \subseteq Packets \X (1..MaxMiddleware) /\ nexts \in 0..MaxNext
  /\ stack \in Seq(Frames)
  /\ taken \in 0..MaxPackets
  /\ {passed, named} \subseteq [Packets -> Nat]
  /\ ran \subseteq 1..wrappers /\ ranAgain \subseteq ran
  /\ broken \in BOOLEAN

\* An admitted Socket and its connected client; the `connection` handlers have
\* registered what they wanted.  `error` starts with a listener of its own.
Init ==
  /\ clientOn = TRUE /\ sent = 0 /\ microtasks = <<>>
  /\ active = TRUE /\ clientDrain = FALSE /\ torn = "no" /\ connected = TRUE /\ ended = FALSE
  /\ \E any \in {<<>>, <<Ordinary>>}, packet \in {<<>>, <<Ordinary>>, <<1>>} :
       /\ listeners = [any |-> any, packet |-> packet, error |-> <<Ordinary>>]
       /\ wrappers = IF packet = <<1>> THEN 1 ELSE 0
  /\ changes = 0 /\ observed = FALSE /\ fired = {}
  /\ middleware \in 0..MaxMiddleware /\ chain = [p \in Packets |-> 0]
  /\ held = {} /\ nexts = 0
  /\ stack = <<>>
  /\ taken = 0 /\ passed = [p \in Packets |-> 0] /\ named = [p \in Packets |-> 0]
  /\ ran = {} /\ ranAgain = {} /\ broken = FALSE

-----------------------------------------------------------------------------
(* The run-time system.                                                    *)

Running == stack # <<>> => Head(stack).busy
Top(op) == stack # <<>> /\ Head(stack).op = op
Loop(op, p) == [op |-> op, of |-> p, left |-> listeners[IF op = "anyDirect" THEN "any" ELSE op],
                busy |-> FALSE]
Call(op, p) == [op |-> op, of |-> p, left |-> <<>>, busy |-> TRUE]
Push(f) == stack' = <<f>> \o stack
Pop == stack' = Tail(stack)
Become(f) == stack' = <<f>> \o Tail(stack)

Defer(op, p) == microtasks' = Append(microtasks, [op |-> op, of |-> p])
Due(op, p) == stack = <<>> /\ microtasks # <<>> /\ Head(microtasks) = [op |-> op, of |-> p]
Consume == microtasks' = Tail(microtasks)

\* dispatchDepth > 0: the loops entered through withDispatchOwnership.
Dispatching == \E i \in DOMAIN stack : stack[i].op \in {"any", "anyDirect", "packet"} \cup Lifecycle

-----------------------------------------------------------------------------
(* Registering listeners and middleware.                                   *)

Change == changes < MaxChanges /\ changes' = changes + 1

On(r, once, front) ==
  /\ Running
  /\ Len(listeners[r]) < Limit[r]
  /\ once => r # "any"
  /\ Change
  /\ wrappers' = IF once THEN wrappers + 1 ELSE wrappers
  /\ LET e == IF once THEN wrappers + 1 ELSE Ordinary
     IN listeners' = [listeners EXCEPT ![r] = IF front THEN <<e>> \o @ ELSE Append(@, e)]
  /\ UNCHANGED <<clientVars, microtasks, teardownVars, observed, fired, chainVars, stack, historyVars>>

\* The catch-all registry drops the first match, the Node registries the last one.
Off(r) ==
  /\ Running /\ Change
  /\ listeners[r] # <<>>
  /\ listeners' = [listeners EXCEPT ![r] = IF r = "any" THEN Tail(@) ELSE SubSeq(@, 1, Len(@) - 1)]
  /\ UNCHANGED <<clientVars, microtasks, teardownVars, wrappers, observed, fired, chainVars,
                 stack, historyVars>>

\* on('removeListener'): from now on removing a listener throws, because the event that
\* announces it is a reserved name.
Observe ==
  /\ Running /\ Throwing /\ Change
  /\ ~observed /\ observed' = TRUE
  /\ UNCHANGED <<clientVars, microtasks, teardownVars, listeners, wrappers, fired, chainVars,
                 stack, historyVars>>

Use ==
  /\ Running /\ Change
  /\ middleware < MaxMiddleware /\ middleware' = middleware + 1
  /\ UNCHANGED <<clientVars, microtasks, teardownVars, listeners, wrappers, observed, fired, chain, held, nexts,
                 stack, historyVars>>

-----------------------------------------------------------------------------
(* Packets.                                                                *)

ClientEmit ==
  /\ Running /\ clientOn
  /\ sent < MaxPackets /\ sent' = sent + 1
  /\ Defer("deliver", sent + 1)
  /\ UNCHANGED <<clientOn, teardownVars, emitterVars, chainVars, stack, historyVars>>

\* dispatch() of a packet, unless the guard captured by sendEncoded has fallen.
RunDeliver(p) ==
  /\ Due("deliver", p) /\ Consume
  /\ IF active
     THEN /\ taken' = p
          /\ Push(Loop(IF middleware = 0 THEN "anyDirect" ELSE "any", p))
     ELSE UNCHANGED <<taken, stack>>
  /\ UNCHANGED <<clientVars, teardownVars, emitterVars, chainVars, passed, named, ran, ranAgain, broken>>

\* The next listener of a loop is called, when the one before it has returned.
Rest == [Head(stack) EXCEPT !.left = Tail(@), !.busy = FALSE]
Runs(e) ==
  /\ ran' = ran \cup {e}
  /\ ranAgain' = IF e \in ran THEN ranAgain \cup {e} ELSE ranAgain
  /\ Become([Rest EXCEPT !.busy = TRUE])
Without(e) ==       \* a wrapper is registered once
  [r \in Registries |->
     LET q == listeners[r]
         i == CHOOSE i \in DOMAIN q : q[i] = e
     IN IF \E j \in DOMAIN q : q[j] = e THEN SubSeq(q, 1, i - 1) \o SubSeq(q, i + 1, Len(q)) ELSE q]
CallUnfired(e) ==   \* mutant of CallOnce: the wrapper does not remember that it fired
  Runs(e) /\ listeners' = Without(e) /\ fired' = fired
CallOnce(e) ==
  IF e \in fired
  THEN Become(Rest) /\ UNCHANGED <<listeners, fired, ran, ranAgain>>
  ELSE /\ listeners' = Without(e)
       /\ IF observed /\ listeners' # listeners
          THEN Pop /\ UNCHANGED <<fired, ran, ranAgain>>
          ELSE Runs(e) /\ fired' = fired \cup {e}

CallListener ==
  /\ \E op \in Loops : Top(op)
  /\ Head(stack).left # <<>>
  /\ LET e == Head(Head(stack).left)
     IN IF e # Ordinary THEN CallOnce(e)
        ELSE Become([Rest EXCEPT !.busy = TRUE]) /\ UNCHANGED <<listeners, fired, ran, ranAgain>>
  /\ UNCHANGED <<clientVars, microtasks, teardownVars, wrappers, changes, observed, chainVars,
                 taken, passed, named, broken>>

\* run(i): the next middleware of the chain, or the named dispatch one tick later.
RunChain(p, i, length, below) ==
  IF i <= length
  THEN /\ stack' = <<Call("middleware", p)>> \o below
       /\ held' = held \cup {<<p, i>>}
       /\ UNCHANGED <<microtasks, passed>>
  ELSE /\ stack' = below
       /\ Defer("named", p)
       /\ passed' = [passed EXCEPT ![p] = @ + 1]
       /\ UNCHANGED held

Done(op) == Top(op) /\ Head(stack).left = <<>>

\* After the catch-all listeners: the chain, of which a snapshot is taken now ...
EndCatchAll ==
  /\ Done("any")
  /\ LET p == Head(stack).of
     IN /\ chain' = [chain EXCEPT ![p] = middleware]
        /\ RunChain(p, 1, middleware, Tail(stack))
  /\ UNCHANGED <<clientVars, teardownVars, emitterVars, middleware, nexts,
                 taken, named, ran, ranAgain, broken>>

\* ... or the named listeners, when there was no middleware at the start.
EndCatchAllDirect ==
  /\ Done("anyDirect")
  /\ LET p == Head(stack).of
     IN /\ Become(Loop("packet", p))
        /\ passed' = [passed EXCEPT ![p] = @ + 1] /\ named' = [named EXCEPT ![p] = @ + 1]
  /\ UNCHANGED <<clientVars, microtasks, teardownVars, emitterVars, chainVars, taken, ran, ranAgain, broken>>

\* The last listener of a loop, or a middleware, returns.
Return ==
  /\ Done("packet") \/ Done("error") \/ Done("middleware")
  /\ Pop
  /\ UNCHANGED <<clientVars, microtasks, teardownVars, emitterVars, chainVars, historyVars>>

\* The application calls `next`, with an error or without, at once, later or again.
CallNext(p, i, ok) ==
  /\ Running
  /\ <<p, i>> \in held
  /\ nexts < MaxNext /\ nexts' = nexts + 1
  /\ IF ok THEN RunChain(p, i + 1, chain[p], stack)
     ELSE Push(Loop("error", p)) /\ UNCHANGED <<held, microtasks, passed>>
  /\ UNCHANGED <<clientVars, teardownVars, emitterVars, middleware, chain, taken, named,
                 ran, ranAgain, broken>>

\* The named dispatch, one tick after its chain.
NamedAlways(p) ==   \* mutant of RunNamed: whatever became of the connection
  /\ Due("named", p) /\ Consume
  /\ named' = [named EXCEPT ![p] = @ + 1]
  /\ Push(Loop("packet", p))
  /\ UNCHANGED <<clientVars, teardownVars, emitterVars, chainVars, taken, passed, ran, ranAgain, broken>>
RunNamed(p) ==
  /\ Due("named", p) /\ Consume
  /\ IF active \/ clientDrain
     THEN named' = [named EXCEPT ![p] = @ + 1] /\ Push(Loop("packet", p))
     ELSE UNCHANGED <<named, stack>>
  /\ UNCHANGED <<clientVars, teardownVars, emitterVars, chainVars, taken, passed, ran, ranAgain, broken>>

-----------------------------------------------------------------------------
(* The end of the connection.                                              *)

\* teardown(): the first call counts.  It waits behind what is queued, and leaves the
\* queue valid when the client leaves from inside a dispatch.  (The connection middleware
\* has answered once: closeAfterRepeatedConnectionError, which also calls it and leaves the
\* client connected, is not among the reasons here.  Module Pairing has it.)
Teardown(why) ==
  IF torn # "no" THEN UNCHANGED <<torn, active, clientDrain, microtasks>>
  ELSE /\ torn' = why
       /\ active' = (why = "drain") /\ clientDrain' = FALSE
       /\ Defer("teardown", 0)

\* client.disconnect(): the client's own listeners of `disconnect` run first.
ClientDisconnect ==
  /\ Running /\ clientOn
  /\ clientOn' = FALSE
  /\ Push(Call("left", 0))
  /\ UNCHANGED <<sent, microtasks, teardownVars, emitterVars, chainVars, historyVars>>

\* They return, and the server Socket is told.
HandleDisconnect ==
  /\ Top("left")
  /\ Pop
  /\ Teardown(IF Dispatching THEN "drain" ELSE "client")
  /\ UNCHANGED <<clientVars, connected, ended, emitterVars, chainVars, historyVars>>

\* Server.close().
ServerClose ==
  /\ Running /\ torn = "no"
  /\ Teardown("close")
  /\ UNCHANGED <<clientVars, connected, ended, emitterVars, chainVars, stack, historyVars>>

\* serverSocket.disconnect(): the lifecycle events are emitted before it returns.
ServerDisconnect ==
  /\ Running /\ torn = "no"
  /\ torn' = "server" /\ active' = FALSE /\ clientDrain' = FALSE
  /\ Push(Call("disconnecting", 0))
  /\ UNCHANGED <<clientVars, microtasks, connected, ended, emitterVars, chainVars, historyVars>>

RunTeardown ==
  /\ Due("teardown", 0) /\ Consume
  /\ active' = FALSE /\ clientDrain' = (torn = "drain")
  /\ Push(Call("disconnecting", 0))
  /\ UNCHANGED <<clientVars, torn, connected, ended, emitterVars, chainVars, historyVars>>

EndDisconnecting ==
  /\ Top("disconnecting")
  /\ connected' = FALSE
  /\ Become(Call("disconnect", 0))
  /\ UNCHANGED <<clientVars, microtasks, active, clientDrain, torn, ended, emitterVars, chainVars,
                 historyVars>>

\* The teardown resolves; the client of a Socket that the server ended is told next.
EndUntold ==   \* mutant of EndDisconnect: only close() tells the client
  /\ Top("disconnect")
  /\ ended' = TRUE
  /\ Pop
  /\ IF torn = "close" THEN Defer("peer", 0) ELSE UNCHANGED microtasks
  /\ UNCHANGED <<clientVars, active, clientDrain, torn, connected, emitterVars, chainVars, historyVars>>
EndDisconnect ==
  /\ Top("disconnect")
  /\ ended' = TRUE
  /\ Pop
  /\ IF torn \in {"server", "close"} THEN Defer("peer", 0) ELSE UNCHANGED microtasks
  /\ UNCHANGED <<clientVars, active, clientDrain, torn, connected, emitterVars, chainVars, historyVars>>

RunPeer ==
  /\ Due("peer", 0) /\ Consume
  /\ clientOn' = FALSE
  /\ UNCHANGED <<sent, teardownVars, emitterVars, chainVars, stack, historyVars>>

\* Application code throws: the loop it was called from ends, and with it the dispatch,
\* the teardown or the disconnect() that ran the loop.
Throw ==
  /\ Throwing
  /\ stack # <<>> /\ Head(stack).busy
  /\ Pop
  /\ broken' = (broken \/ Head(stack).op \in Lifecycle \cup {"left"})
  /\ UNCHANGED <<clientVars, microtasks, teardownVars, emitterVars, chainVars, taken, passed, named, ran, ranAgain>>

-----------------------------------------------------------------------------
AppCall ==
  \/ \E r \in Registries : \/ \E once, front \in BOOLEAN : On(r, once, front)
                           \/ Off(r)
  \/ Observe \/ Use
  \/ ClientEmit \/ ClientDisconnect \/ ServerDisconnect \/ ServerClose
  \/ \E p \in Packets, i \in 1..MaxMiddleware, ok \in BOOLEAN : CallNext(p, i, ok)

Internal ==
  \/ \E p \in Packets : RunDeliver(p) \/ RunNamed(p)
  \/ CallListener \/ EndCatchAll \/ EndCatchAllDirect \/ Return
  \/ HandleDisconnect \/ RunTeardown \/ EndDisconnecting \/ EndDisconnect \/ RunPeer

Next == AppCall \/ Internal \/ Throw

Spec == Init /\ [][Next]_vars

-----------------------------------------------------------------------------
Pipeline == INSTANCE PacketPipeline WITH
  phase <- IF active THEN IF torn = "drain" THEN "draining" ELSE "open"
           ELSE IF clientDrain THEN "drained" ELSE "closed"

\* Packets are taken in order without a gap, each is dispatched by name at most once per
\* completed chain, and the end of the connection cuts them off, or drains them when the
\* client left from inside a dispatch (sockets.ts dispatch and teardown).
PipelineSpec == Pipeline!Spec

\* A listener registered with once() runs at most once, although it may be in several
\* snapshots: a middleware that fails inside an `error` listener dispatches `error` again.
OnceRunsOnce == ranAgain = {}

DispatchInv == TypeOK /\ OnceRunsOnce

\* When nothing is left to run: if anybody ended the connection, both sides have, unless
\* a listener of a lifecycle event threw out of it; and while nobody did, every chain
\* that passed was followed by its named dispatch.
AtRestBothSidesAgree ==
  stack = <<>> /\ microtasks = <<>> =>
    /\ ~clientOn \/ torn # "no" => (~clientOn /\ ended) \/ broken
    /\ torn = "no" => named = passed

=============================================================================
