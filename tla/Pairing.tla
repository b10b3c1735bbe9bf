------------------------------ MODULE Pairing ------------------------------
(***************************************************************************)
(* The connection lifecycle of smocket: the client Socket, the server      *)
(* Socket a pairing creates for it, the Namespace that admits the pairing, *)
(* and the client Manager that groups Sockets (runtime/sockets.ts,         *)
(* runtime/namespaces.ts, runtime/manager.ts, and Server.close).           *)
(*                                                                         *)
(* JavaScript runs one thing at a time.  `microtasks` is the FIFO queue    *)
(* behind `defer`; `stack` holds what the library still has to do when the *)
(* application callback it is calling returns.  Application code may run   *)
(* whenever no library code is mid-way (InApp): at top level between two   *)
(* microtasks, and inside every callback, where it may call any operation  *)
(* again.  Packets and acknowledgements, the nextConnection queues and the *)
(* other rooms are other components; this module keeps the number of       *)
(* buffered packets, because flushing them calls the application back.     *)
(***************************************************************************)
EXTENDS Integers, Sequences, FiniteSets

CONSTANTS
  Clients,          \* the client Sockets
  ManagerOf,        \* the Manager each client Socket belongs to
  Middlewares,      \* length of the namespace middleware chain
  CallbackAuth,     \* `auth` is a callback the application answers later
  EarlyDisconnect,  \* the application disconnects server Sockets in middleware
  StaleDisconnect,  \* ... and server Sockets of cancelled or rejected attempts
  MaxAttempts,      \* bound: connection attempts per client
  MaxNext,          \* bound: middleware completions per attempt
  MaxBuffered,      \* bound: buffered packets at which emit is disabled
  None

Attempts == Clients \X (1..MaxAttempts)

ASSUME PairingAssumption ==
  /\ IsFiniteSet(Clients)
  /\ DOMAIN ManagerOf = Clients
  /\ {Middlewares, MaxAttempts, MaxNext, MaxBuffered} \subseteq Nat
  /\ MaxNext >= 1
  /\ {CallbackAuth, EarlyDisconnect, StaleDisconnect} \subseteq BOOLEAN
  /\ None \notin Attempts

VARIABLES
  \* the client Sockets
  begun,            \* attempts each client has begun
  attempt,          \* connectionAttempt
  socket,           \* serverSocket
  online,           \* the clients whose `connected` is true
  buffered,         \* packets in each sendBuffer
  \* the connection attempts
  state,            \* ConnectionAttempt.state
  authing,          \* attempts whose auth callback holds `done`
  attached,         \* attempts that have their server Socket
  index,            \* middleware functions called for each attempt
  nexts,            \* completions of each attempt's chain
  \* the server Sockets, each named by its attempt
  active,           \* `active`
  srvConnected,     \* `connected`
  cleaned,          \* `membershipCleaned`, the opposite of `acceptsRoomJoins`
  torn,             \* `teardownPromise` is set
  closing,          \* ... by closeFromServer, which awaits it
  \* the Namespaces and the Managers
  roster,           \* Namespace.sockets
  idRoom,           \* the Sockets that are in the room named by their id
  closed,           \* Namespace.closed
  pendingClients, connectedClients,
  \* the run-time system
  microtasks, stack,
  \* what the application was told last about each attempt
  told,             \* by the server Socket and its Namespace
  heard             \* by the client Socket

clientVars  == <<begun, attempt, socket, online, buffered>>
attemptVars == <<state, authing, attached, index, nexts>>
serverVars  == <<active, srvConnected, cleaned, torn, closing>>
rosterVars  == <<roster, idRoom>>
managerVars == <<pendingClients, connectedClients>>
vars == <<clientVars, attemptVars, serverVars, rosterVars, closed, managerVars,
          microtasks, stack, told, heard>>

States == {"unused", "pending", "cancelled", "rejected", "connected"}
TaskOps == {"pair", "accept", "refuse", "connectError", "teardown",
            "clientLeave", "clientClose"}
Tasks == [op : TaskOps, of : Attempts]
\* The places where a callback leaves library code to run after it.
Windows == {"connection", "repeated", "flush", "leaving", "syncDisconnecting",
            "syncDisconnect", "disconnecting", "disconnect"}
\* The two stages of Manager.disconnect, which are library code between callbacks.
Loops == {"group", "initiator"}
Frames == [op : Windows \cup Loops, of : Attempts, todo : SUBSET Clients, left : Nat]

DataTypeOK ==
  /\ begun \in [Clients -> 0..MaxAttempts]
  /\ attempt \in [Clients -> Attempts \cup {None}]
  /\ socket \in [Clients -> Attempts \cup {None}]
  /\ online \subseteq Clients
  /\ buffered \in [Clients -> Nat]
  /\ state \in [Attempts -> States]
  /\ authing \subseteq Attempts
  /\ attached \subseteq Attempts
  /\ index \in [Attempts -> 0..Middlewares]
  /\ nexts \in [Attempts -> 0..MaxNext]
  /\ active \subseteq Attempts
  /\ srvConnected \subseteq Attempts
  /\ cleaned \subseteq Attempts
  /\ torn \subseteq Attempts
  /\ closing \subseteq Attempts
  /\ roster \subseteq Attempts
  /\ idRoom \subseteq Attempts
  /\ closed \in BOOLEAN
  /\ pendingClients \subseteq Clients
  /\ connectedClients \subseteq Clients
  /\ told \in [Attempts -> {"nothing", "connection", "disconnecting", "disconnect"}]
  /\ heard \in [Attempts -> {"nothing", "connect", "connect_error", "disconnect"}]

TypeOK ==
  /\ DataTypeOK
  /\ microtasks \in Seq(Tasks)
  /\ stack \in Seq(Frames)

Init ==
  /\ begun = [c \in Clients |-> 0]
  /\ attempt = [c \in Clients |-> None]
  /\ socket = [c \in Clients |-> None]
  /\ online = {}
  /\ buffered = [c \in Clients |-> 0]
  /\ state = [a \in Attempts |-> "unused"]
  /\ authing = {} /\ attached = {}
  /\ index = [a \in Attempts |-> 0]
  /\ nexts = [a \in Attempts |-> 0]
  /\ active = {} /\ srvConnected = {} /\ cleaned = {} /\ torn = {} /\ closing = {}
  /\ roster = {} /\ idRoom = {}
  /\ closed = FALSE
  /\ pendingClients = {} /\ connectedClients = {}
  /\ microtasks = <<>> /\ stack = <<>>
  /\ told = [a \in Attempts |-> "nothing"]
  /\ heard = [a \in Attempts |-> "nothing"]

-----------------------------------------------------------------------------
(* The run-time system.                                                    *)

Task(op, a) == <<[op |-> op, of |-> a]>>
Frame(op, a, C, n) == [op |-> op, of |-> a, todo |-> C, left |-> n]
Window(op, a) == Frame(op, a, {}, 0)

Client(a) == a[1]

\* Application code may run: nothing on the stack is library code mid-way.
InApp == stack # <<>> => Head(stack).op \in Windows

Defer(tasks) == microtasks' = microtasks \o tasks
\* The library starts the oldest microtask; the tasks it defers go last.
Due(op, a) == stack = <<>> /\ microtasks # <<>> /\ Head(microtasks) = [op |-> op, of |-> a]
Consume(tasks) == microtasks' = Tail(microtasks) \o tasks
\* The callback of the innermost call returns.
Top(op, a) == stack # <<>> /\ Head(stack).op = op /\ Head(stack).of = a
Push(f) == stack' = <<f>> \o stack
Pop == stack' = Tail(stack)
Continue(f) == stack' = <<f>> \o Tail(stack)

-----------------------------------------------------------------------------
(* Pieces of handlers that several operations share.                       *)

PendingOrSettled(a) == attempt[Client(a)] = a   \* mutant of Pending: no state check
Pending(a) == attempt[Client(a)] = a /\ state[a] = "pending"

EstablishedOnce(a) == socket[Client(a)] = a   \* mutant of Established: perhaps over
Established(a) ==
  /\ attempt[Client(a)] = a /\ state[a] = "connected"
  /\ Client(a) \in online /\ socket[Client(a)] = a

\* cleanupMembership of the server Sockets in S: the second time it does nothing.
CleanRoomsOnly(S) ==   \* mutant: the Namespace is not told
  /\ cleaned' = cleaned \cup S
  /\ idRoom' = idRoom \ (S \ cleaned)
  /\ UNCHANGED roster
CleanMembership(S) ==
  /\ cleaned' = cleaned \cup S
  /\ roster' = roster \ (S \ cleaned)
  /\ idRoom' = idRoom \ (S \ cleaned)

\* cleanupConnectionAttempt: no lifecycle events, and `connected` keeps its value.
Discard(S) ==
  /\ active' = active \ S
  /\ CleanMembership(S)
  /\ UNCHANGED <<srvConnected, torn, closing>>

\* rejectConnectionAttempt of a pending attempt.  Its connect_error is deferred.
Reject(a) ==
  /\ state' = [state EXCEPT ![a] = "rejected"]
  /\ Discard({a} \cap attached)
  /\ attempt' = [attempt EXCEPT ![Client(a)] = None]
  /\ pendingClients' = pendingClients \ {Client(a)}
  /\ UNCHANGED <<begun, socket, online, buffered, authing, attached, index, nexts,
                 closed, connectedClients, told, heard>>

\* cancelConnectionAttempt of the clients in C, all of them pending.
CancelUnknown(C) ==   \* mutant of Cancel: the Manager is not told
  LET mine == {attempt[c] : c \in C}
  IN /\ state' = [a \in Attempts |-> IF a \in mine THEN "cancelled" ELSE state[a]]
     /\ Discard(mine \cap attached)
     /\ attempt' = [c \in Clients |-> IF c \in C THEN None ELSE attempt[c]]
     /\ UNCHANGED pendingClients
Cancel(C) ==
  LET mine == {attempt[c] : c \in C}
  IN /\ state' = [a \in Attempts |-> IF a \in mine THEN "cancelled" ELSE state[a]]
     /\ Discard(mine \cap attached)
     /\ attempt' = [c \in Clients |-> IF c \in C THEN None ELSE attempt[c]]
     /\ pendingClients' = pendingClients \ C

\* Construct and attach the server Socket, then start the middleware chain.  An
\* empty chain completes at once: Admitted is the task it defers.
Attach(a) ==
  /\ attached' = attached \cup {a}
  /\ active' = active \cup {a}
  /\ IF Middlewares = 0
     THEN nexts' = [nexts EXCEPT ![a] = 1] /\ UNCHANGED index
     ELSE index' = [index EXCEPT ![a] = 1] /\ UNCHANGED nexts
  /\ UNCHANGED <<clientVars, state, authing, srvConnected, cleaned, torn, closing,
                 rosterVars, closed, managerVars, told, heard>>
Admitted(a) == IF Middlewares = 0 THEN Task("accept", a) ELSE <<>>

\* Register an accepted Socket, let it join its id-room, and emit `connection`.
Register(a) ==
  /\ roster' = roster \cup {a}
  /\ idRoom' = IF a \in cleaned THEN idRoom ELSE idRoom \cup {a}
  /\ srvConnected' = srvConnected \cup {a}
  /\ told' = [told EXCEPT ![a] = "connection"]

\* markDisconnected up to the callback of the client's `disconnect` event.
MarkAttemptOnly(c) ==   \* mutant of MarkDisconnected: `connected` stays true
  /\ state' = [state EXCEPT ![attempt[c]] = "cancelled"]
  /\ heard' = [heard EXCEPT ![attempt[c]] = "disconnect"]
  /\ attempt' = [attempt EXCEPT ![c] = None]
  /\ UNCHANGED <<online, connectedClients>>
MarkDisconnected(c) ==
  /\ state' = [state EXCEPT ![attempt[c]] = "cancelled"]
  /\ heard' = [heard EXCEPT ![attempt[c]] = "disconnect"]
  /\ attempt' = [attempt EXCEPT ![c] = None]
  /\ online' = online \ {c}
  /\ connectedClients' = connectedClients \ {c}

\* teardownSynchronously up to the callback of `disconnecting`.
BeginAgain(a) ==   \* mutant of BeginTeardown: no teardownPromise
  active' = active \ {a} /\ told' = [told EXCEPT ![a] = "disconnecting"] /\ UNCHANGED torn
BeginTeardown(a) ==
  /\ torn' = torn \cup {a}
  /\ active' = active \ {a}
  /\ told' = [told EXCEPT ![a] = "disconnecting"]

\* ownsConnection
Owns(c, a) ==
  /\ a \in active
  /\ \/ c \in online /\ socket[c] = a
     \/ attempt[c] = a /\ state[a] = "pending" /\ a \in attached

Group(a) == {c \in Clients : ManagerOf[c] = ManagerOf[Client(a)]}

-----------------------------------------------------------------------------
(* Calls of the application.                                               *)

\* ClientSocket.connect, and the first connection of a new client Socket.
Connect(c) ==
  LET a == <<c, begun[c] + 1>>
  IN /\ InApp
     /\ c \notin online
     /\ attempt[c] # None => state[attempt[c]] # "pending"
     /\ begun[c] < MaxAttempts
     /\ begun' = [begun EXCEPT ![c] = @ + 1]
     /\ attempt' = [attempt EXCEPT ![c] = a]
     /\ state' = [state EXCEPT ![a] = "pending"]
     /\ pendingClients' = pendingClients \cup {c}
     /\ Defer(Task("pair", a))
     /\ UNCHANGED <<socket, online, buffered, authing, attached, index, nexts,
                    serverVars, rosterVars, closed, connectedClients, stack, told, heard>>

\* The application answers the auth callback: `done` of resolveAuth.
ResolveAuth(a) ==
  /\ InApp
  /\ a \in authing
  /\ Pending(a)
  /\ UNCHANGED stack
  /\ \/ closed /\ Reject(a) /\ Defer(Task("connectError", a))
     \/ ~closed /\ a \notin attached /\ Attach(a) /\ Defer(Admitted(a))

\* Middleware calls `next()`: the next function runs, or the chain completes.
CallNext(a) ==
  /\ InApp
  /\ index[a] >= 1
  /\ \/ /\ index[a] < Middlewares
        /\ index' = [index EXCEPT ![a] = @ + 1]
        /\ UNCHANGED <<nexts, microtasks>>
     \/ /\ index[a] = Middlewares
        /\ nexts[a] < MaxNext
        /\ nexts' = [nexts EXCEPT ![a] = @ + 1]
        /\ Defer(Task("accept", a))
        /\ UNCHANGED index
  /\ UNCHANGED <<clientVars, state, authing, attached, serverVars, rosterVars, closed,
                 managerVars, stack, told, heard>>

RefuseWhileOpen(a) ==   \* mutant of RefuseNext: a closed Namespace takes no completions
  /\ InApp
  /\ index[a] >= 1
  /\ nexts[a] < MaxNext
  /\ nexts' = [nexts EXCEPT ![a] = @ + 1]
  /\ IF closed THEN UNCHANGED microtasks ELSE Defer(Task("refuse", a))
  /\ UNCHANGED <<clientVars, state, authing, attached, index, serverVars, rosterVars,
                 closed, managerVars, stack, told, heard>>

\* Middleware calls `next(err)`.
RefuseNext(a) ==
  /\ InApp
  /\ index[a] >= 1
  /\ nexts[a] < MaxNext
  /\ nexts' = [nexts EXCEPT ![a] = @ + 1]
  /\ Defer(Task("refuse", a))
  /\ UNCHANGED <<clientVars, state, authing, attached, index, serverVars, rosterVars,
                 closed, managerVars, stack, told, heard>>

\* An emit before the connection completes is buffered.
Emit(c) ==
  /\ InApp
  /\ c \notin online
  /\ buffered[c] < MaxBuffered
  /\ buffered' = [buffered EXCEPT ![c] = @ + 1]
  /\ UNCHANGED <<begun, attempt, socket, online, attemptVars, serverVars, rosterVars,
                 closed, managerVars, microtasks, stack, told, heard>>

\* ClientSocket.disconnect of a connected client, up to its `disconnect` event.
Disconnect(c) ==
  /\ InApp
  /\ c \in online
  /\ MarkDisconnected(c)
  /\ Push(Window("leaving", socket[c]))
  /\ UNCHANGED <<begun, socket, buffered, authing, attached, index, nexts, serverVars,
                 rosterVars, closed, pendingClients, microtasks, told>>

\* ClientSocket.disconnect of a client whose attempt is pending.
CancelAttempt(c) ==
  /\ InApp
  /\ c \notin online
  /\ attempt[c] # None
  /\ state[attempt[c]] = "pending"
  /\ Cancel({c})
  /\ UNCHANGED <<begun, socket, online, buffered, authing, attached, index, nexts,
                 closed, connectedClients, microtasks, stack, told, heard>>

\* The server Sockets on which the application calls disconnect.
Handles == {a \in attached : /\ EarlyDisconnect \/ told[a] # "nothing"
                             /\ StaleDisconnect \/ a \notin cleaned}

\* ServerSocket.disconnect(), up to its `disconnecting` event.
ServerDisconnect(a) ==
  /\ InApp
  /\ a \in Handles
  /\ a \notin torn
  /\ BeginTeardown(a)
  /\ Push(Window("syncDisconnecting", a))
  /\ UNCHANGED <<clientVars, attemptVars, srvConnected, cleaned, closing, rosterVars,
                 closed, managerVars, microtasks, heard>>

\* ServerSocket.disconnect(true): the Manager takes the snapshot of its clients.
DisconnectGroup(a) ==
  /\ InApp
  /\ a \in Handles
  /\ Owns(Client(a), a)
  /\ Push(Frame("group", a, Group(a) \cap connectedClients, 0))
  /\ UNCHANGED <<clientVars, attemptVars, serverVars, rosterVars, closed, managerVars,
                 microtasks, told, heard>>

\* The sequences that list the finite set S in some order.
Orderings(S) ==
  {q \in [1..Cardinality(S) -> S] : \A i, j \in DOMAIN q : q[i] = q[j] => i = j}

\* closeFromServer of the Sockets in S: it defers the teardown and awaits it.
TeardownAll(S) ==
  \E q \in Orderings(S) : Defer([i \in DOMAIN q |-> [op |-> "teardown", of |-> q[i]]])
CloseServerSide(S) ==   \* mutant of CloseFromServer: the client is not disconnected
  torn' = torn \cup S /\ TeardownAll(S) /\ UNCHANGED closing
CloseFromServer(S) ==
  torn' = torn \cup S /\ TeardownAll(S) /\ closing' = closing \cup S

\* Server.close: every namespace calls closeFromServer on its roster.  A Socket whose
\* teardown had begun keeps its own reason for it.
Close ==
  /\ InApp
  /\ ~closed
  /\ closed' = TRUE
  /\ CloseFromServer(roster \ torn)
  /\ UNCHANGED <<clientVars, attemptVars, active, srvConnected, cleaned, rosterVars,
                 managerVars, stack, told, heard>>

-----------------------------------------------------------------------------
(* Microtasks.                                                             *)

\* continuePair: check the attempt and the namespace, resolve auth, attach.
RunPair(a) ==
  /\ Due("pair", a)
  /\ UNCHANGED stack
  /\ \/ /\ ~Pending(a)
        /\ Consume(<<>>)
        /\ UNCHANGED <<clientVars, attemptVars, serverVars, rosterVars, closed,
                       managerVars, told, heard>>
     \/ Pending(a) /\ closed /\ Reject(a) /\ Consume(Task("connectError", a))
     \/ /\ Pending(a) /\ ~closed /\ CallbackAuth
        /\ authing' = authing \cup {a}
        /\ Consume(<<>>)
        /\ UNCHANGED <<clientVars, state, attached, index, nexts, serverVars, rosterVars,
                       closed, managerVars, told, heard>>
     \/ /\ Pending(a) /\ ~closed /\ ~CallbackAuth
        /\ Attach(a)
        /\ Consume(Admitted(a))

\* The middleware chain accepted the pairing.
RunAccept(a) ==
  /\ Due("accept", a)
  /\ \/ /\ Pending(a) /\ ~closed
        /\ Register(a)
        /\ Push(Window("connection", a))
        /\ Consume(<<>>)
        /\ UNCHANGED <<clientVars, attemptVars, active, cleaned, torn, closing, closed,
                       managerVars, heard>>
     \/ /\ Pending(a) /\ closed
        /\ Reject(a)
        /\ Consume(Task("connectError", a))
        /\ UNCHANGED stack
     \/ /\ Established(a) /\ ~closed
        /\ Register(a)
        /\ Push(Window("repeated", a))
        /\ Consume(<<>>)
        /\ UNCHANGED <<clientVars, attemptVars, active, cleaned, torn, closing, closed,
                       managerVars, heard>>
     \/ /\ ~Pending(a) /\ (Established(a) => closed)
        /\ IF Established(a) \/ state[a] # "connected"
           THEN Discard({a})
           ELSE UNCHANGED <<serverVars, rosterVars>>
        /\ Consume(<<>>)
        /\ UNCHANGED <<clientVars, attemptVars, closed, managerVars, stack, told, heard>>

\* The middleware chain refused the pairing, perhaps after it had accepted it.
RunRefuse(a) ==
  /\ Due("refuse", a)
  /\ UNCHANGED stack
  /\ \/ Pending(a) /\ Reject(a) /\ Consume(Task("connectError", a))
     \/ /\ Established(a)
        /\ active' = active \ {a}
        /\ CleanMembership({a})
        /\ torn' = torn \cup {a}
        /\ Consume(Task("connectError", a) \o
                   IF a \in torn THEN <<>> ELSE Task("teardown", a))
        /\ UNCHANGED <<clientVars, attemptVars, srvConnected, closing, closed,
                       managerVars, told, heard>>
     \/ /\ ~Pending(a) /\ ~Established(a)
        /\ Consume(<<>>)
        /\ UNCHANGED <<clientVars, attemptVars, serverVars, rosterVars, closed,
                       managerVars, told, heard>>

RunConnectError(a) ==
  /\ Due("connectError", a)
  /\ heard' = [heard EXCEPT ![a] = "connect_error"]
  /\ Consume(<<>>)
  /\ UNCHANGED <<clientVars, attemptVars, serverVars, rosterVars, closed, managerVars,
                 stack, told>>

\* The deferred part of teardown, up to its `disconnecting` event.
RunTeardown(a) ==
  /\ Due("teardown", a)
  /\ active' = active \ {a}
  /\ told' = [told EXCEPT ![a] = "disconnecting"]
  /\ Push(Window("disconnecting", a))
  /\ Consume(<<>>)
  /\ UNCHANGED <<clientVars, attemptVars, srvConnected, cleaned, torn, closing,
                 rosterVars, closed, managerVars, heard>>

\* A server-side disconnect reaches the client: `io server disconnect` after
\* disconnectNamespaceFromServer, `transport close` after closeFromServer.
RunClientDisconnect(a) ==
  /\ Due("clientLeave", a) \/ Due("clientClose", a)
  /\ Consume(<<>>)
  /\ IF Client(a) \in online
     THEN MarkDisconnected(Client(a))
     ELSE UNCHANGED <<attempt, state, online, connectedClients, heard>>
  /\ UNCHANGED <<begun, socket, buffered, authing, attached, index, nexts, serverVars,
                 rosterVars, closed, pendingClients, stack, told>>

-----------------------------------------------------------------------------
(* Callbacks return to the library.                                        *)

\* After `connection`: completeConnectionAttempt, up to the first packet it
\* flushes, or to the client's `connect` event when there is none.
ConnectionReturns(a) ==
  LET c == Client(a)
  IN /\ Top("connection", a)
     /\ \/ /\ Pending(a)
           /\ state' = [state EXCEPT ![a] = "connected"]
           /\ socket' = [socket EXCEPT ![c] = a]
           /\ online' = online \cup {c}
           /\ pendingClients' = pendingClients \ {c}
           /\ connectedClients' = connectedClients \cup {c}
           /\ buffered' = [buffered EXCEPT ![c] = 0]
           /\ IF buffered[c] = 0
              THEN heard' = [heard EXCEPT ![a] = "connect"] /\ Pop
              ELSE Continue(Frame("flush", a, {}, buffered[c])) /\ UNCHANGED heard
           /\ UNCHANGED <<begun, attempt, serverVars, rosterVars>>
        \/ /\ ~Pending(a)
           /\ IF state[a] # "connected"
              THEN Discard({a})
              ELSE UNCHANGED <<serverVars, rosterVars>>
           /\ Pop
           /\ UNCHANGED <<clientVars, state, managerVars, heard>>
     /\ UNCHANGED <<authing, attached, index, nexts, closed, microtasks, told>>

\* After the outgoing observers of one flushed packet: send it and go on, or put
\* the unflushed packets back when an observer ended the connection.
FlushReturns(a) ==
  LET c == Client(a)  n == Head(stack).left
  IN /\ Top("flush", a)
     /\ \/ Established(a) /\ n > 1 /\ Continue(Frame("flush", a, {}, n - 1))
           /\ UNCHANGED <<buffered, heard>>
        \/ Established(a) /\ n = 1 /\ Pop
           /\ heard' = [heard EXCEPT ![a] = "connect"] /\ UNCHANGED buffered
        \/ ~Established(a) /\ Pop
           /\ buffered' = [buffered EXCEPT ![c] = @ + n] /\ UNCHANGED heard
     /\ UNCHANGED <<begun, attempt, socket, online, attemptVars, serverVars, rosterVars,
                    closed, managerVars, microtasks, told>>

\* After the `connection` of a repeated completion: repeatConnectionCompletion.
RepeatedReturns(a) ==
  /\ Top("repeated", a)
  /\ heard' = [heard EXCEPT ![a] = "connect"]
  /\ Pop
  /\ UNCHANGED <<clientVars, attemptVars, serverVars, rosterVars, closed, managerVars,
                 microtasks, told>>

\* After the `disconnect` event of a client that left: handleDisconnect.
LeavingReturns(a) ==
  LET s == socket[Client(a)]
  IN /\ Top("leaving", a)
     /\ torn' = torn \cup {s}
     /\ Defer(IF s \in torn THEN <<>> ELSE Task("teardown", s))
     /\ Pop
     /\ UNCHANGED <<clientVars, attemptVars, active, srvConnected, cleaned, closing,
                    rosterVars, closed, managerVars, told, heard>>

\* After `disconnecting`: leave every room and the roster, emit `disconnect`.
DisconnectingReturns(a) ==
  /\ \/ Top("syncDisconnecting", a) /\ Continue(Window("syncDisconnect", a))
     \/ Top("disconnecting", a) /\ Continue(Window("disconnect", a))
  /\ srvConnected' = srvConnected \ {a}
  /\ CleanMembership({a})
  /\ told' = [told EXCEPT ![a] = "disconnect"]
  /\ UNCHANGED <<clientVars, attemptVars, active, torn, closing, closed, managerVars,
                 microtasks, heard>>

\* After `disconnect`: disconnectNamespaceFromServer defers the client's part;
\* the deferred teardown resolves its promise, on which closeFromServer goes on.
DisconnectReturns(a) ==
  /\ \/ Top("syncDisconnect", a) /\ Defer(Task("clientLeave", a))
     \/ Top("disconnect", a)
        /\ Defer(IF a \in closing THEN Task("clientClose", a) ELSE <<>>)
  /\ Pop
  /\ UNCHANGED <<clientVars, attemptVars, serverVars, rosterVars, closed, managerVars,
                 told, heard>>

\* Manager.disconnect: one connected client of the snapshot is disconnected.
DisconnectMember(a, c) ==
  LET f == Head(stack)  rest == [f EXCEPT !.todo = @ \ {c}]
  IN /\ Top("group", a)
     /\ c \in f.todo
     /\ IF c \in online /\ socket[c] \notin torn
        THEN /\ BeginTeardown(socket[c])
             /\ stack' = <<Window("syncDisconnecting", socket[c]), rest>> \o Tail(stack)
        ELSE Continue(rest) /\ UNCHANGED <<torn, active, told>>
     /\ UNCHANGED <<clientVars, attemptVars, srvConnected, cleaned, closing, rosterVars,
                    closed, managerVars, microtasks, heard>>

CancelOthers(a) ==   \* mutant of CancelGroup: spares the initiator's client
  /\ Top("group", a)
  /\ Head(stack).todo = {}
  /\ Cancel((Group(a) \cap pendingClients) \ {Client(a)})
  /\ Continue(Window("initiator", a))
  /\ UNCHANGED <<begun, socket, online, buffered, authing, attached, index, nexts,
                 closed, connectedClients, microtasks, told, heard>>
\* ... then the pending clients are cancelled, but for the initiator's own attempt.
CancelGroup(a) ==
  /\ Top("group", a)
  /\ Head(stack).todo = {}
  /\ Cancel({c \in Group(a) \cap pendingClients : ~Owns(c, a)})
  /\ Continue(Window("initiator", a))
  /\ UNCHANGED <<begun, socket, online, buffered, authing, attached, index, nexts,
                 closed, connectedClients, microtasks, told, heard>>

\* ... and the initiator is disconnected, unless it already was.
DisconnectInitiator(a) ==
  /\ Top("initiator", a)
  /\ IF a \in torn
     THEN Pop /\ UNCHANGED <<torn, active, told>>
     ELSE BeginTeardown(a) /\ Continue(Window("syncDisconnecting", a))
  /\ UNCHANGED <<clientVars, attemptVars, srvConnected, cleaned, closing, rosterVars,
                 closed, managerVars, microtasks, heard>>

-----------------------------------------------------------------------------
AppCall ==
  \/ \E c \in Clients : Connect(c) \/ Emit(c) \/ Disconnect(c) \/ CancelAttempt(c)
  \/ \E a \in Attempts : \/ ResolveAuth(a) \/ CallNext(a) \/ RefuseNext(a)
                         \/ ServerDisconnect(a) \/ DisconnectGroup(a)
  \/ Close

Microtask ==
  \E a \in Attempts : \/ RunPair(a) \/ RunAccept(a) \/ RunRefuse(a)
                      \/ RunConnectError(a) \/ RunTeardown(a) \/ RunClientDisconnect(a)

CallbackReturns ==
  \E a \in Attempts :
    \/ ConnectionReturns(a) \/ FlushReturns(a) \/ RepeatedReturns(a) \/ LeavingReturns(a)
    \/ DisconnectingReturns(a) \/ DisconnectReturns(a)

GroupStep ==
  \E a \in Attempts :
    \/ \E c \in Clients : DisconnectMember(a, c)
    \/ CancelGroup(a) \/ DisconnectInitiator(a)

Next == AppCall \/ Microtask \/ CallbackReturns \/ GroupStep

Spec == Init /\ [][Next]_vars

\* Library code runs to its end.  Application code is finite: a callback returns,
\* however many calls it makes first, and so does the code between two microtasks,
\* after which the event loop runs the next one.
FairSpec ==
  Spec /\ WF_vars(GroupStep) /\ SF_vars(CallbackReturns) /\ SF_vars(Microtask)

-----------------------------------------------------------------------------
(* What the lifecycle promises.                                            *)

\* A client whose `connected` is true owns an attempt that connected, its
\* serverSocket is the Socket of that attempt, and no other attempt of it is
\* connected: markDisconnected reads connectionAttempt without a check.
ConnectedOwnsAttempt ==
  /\ \A c \in online : /\ attempt[c] # None
                       /\ state[attempt[c]] = "connected"
                       /\ socket[c] = attempt[c]
                       /\ attempt[c] \in attached
  /\ \A a \in Attempts : state[a] = "connected" => Established(a)

\* The Managers' two sets hold exactly the clients that are connected and those
\* whose attempt is pending: `disconnect(true)` forgets no member of the group
\* and touches no client that is in neither state.
ManagerKnowsGroup ==
  /\ connectedClients = online
  /\ pendingClients = {c \in Clients : attempt[c] # None /\ state[attempt[c]] = "pending"}

\* Namespace.sockets holds no Socket whose membership was cleaned up: such a Socket
\* is in no room, accepts no join, and no teardown would take it out again.  A Socket
\* of the roster that no teardown has begun on is active and connected and still in its
\* id-room, and its client is on it, waits for it, or is inside the `disconnect`
\* callback that precedes the teardown: no broadcast goes to a Socket that nobody will
\* tear down.
RosterIsPaired ==
  /\ roster \cap cleaned = {}
  /\ \A a \in roster \ torn :
       /\ a \in active /\ a \in srvConnected /\ a \in idRoom
       /\ \/ Established(a) \/ Pending(a)
          \/ \E i \in DOMAIN stack : stack[i].op = "leaving" /\ stack[i].of = a

\* A client has at most one Socket in the roster, however it interleaves
\* disconnecting and connecting again: the teardown of the old Socket, deferred by
\* the client, runs before the new one is registered.
OneSocketPerClient ==
  \A a, b \in roster : Client(a) = Client(b) => a = b

\* When nothing is left to run, the roster is exactly the Sockets of the clients
\* that believe they are connected.
QuiescentAgreement ==
  stack = <<>> /\ microtasks = <<>> => roster = {socket[c] : c \in online}

\* When nothing is left to run after Server.close, nobody is connected.
ClosedMeansEmpty ==
  closed /\ stack = <<>> /\ microtasks = <<>> => online = {} /\ roster = {}

\* Client, Manager and server agree on who is connected, in all these respects.
RosterAgreement ==
  RosterIsPaired /\ OneSocketPerClient /\ QuiescentAgreement /\ ClosedMeansEmpty

\* When Manager.disconnect comes to the initiator, every other client of the group
\* is being disconnected or has no attempt left, whatever the listeners it called
\* did in the meantime.
GroupIsLeaving ==
  stack # <<>> /\ Head(stack).op = "initiator" =>
    \A c \in Group(Head(stack).of) :
      /\ c \in online => socket[c] \in torn
      /\ attempt[c] # None /\ state[attempt[c]] = "pending" => Owns(c, Head(stack).of)

\* An attempt settles once: pending becomes connected, rejected or cancelled,
\* connected becomes cancelled, and nothing revives it.
AttemptsSettleOnce ==
  [][\A a \in Attempts : state'[a] # state[a] =>
       \/ state[a] = "unused" /\ state'[a] = "pending"
       \/ state[a] = "pending" /\ state'[a] \in {"connected", "rejected", "cancelled"}
       \/ state[a] = "connected" /\ state'[a] = "cancelled"]_vars

\* A server-side disconnect ends only the connection of the Socket it was called on:
\* the microtask it leaves behind never disconnects a newer connection.  So says decision
\* 0028, but the microtask asks whether the client is connected and not to which Socket:
\* with StaleDisconnect the Socket of a cancelled attempt ends the next connection.
OnlyOwnConnection ==
  [][\A a \in Attempts :
       /\ Due("clientLeave", a) \/ Due("clientClose", a)
       /\ Consume(<<>>)
       /\ Client(a) \in online
       => socket[Client(a)] = a]_vars

\* For each Socket the application observes `connection`, then `disconnecting`, then
\* `disconnect`, each at most once and in that order.
ServerEventOrder ==
  [][\A a \in Attempts : told'[a] # told[a] =>
       <<told[a], told'[a]>> \in {<<"nothing", "connection">>,
                                  <<"connection", "disconnecting">>,
                                  <<"disconnecting", "disconnect">>}]_vars

\* For each attempt the client observes one of `connect` and `connect_error`, and
\* `disconnect` last; an attempt cancelled before it connected is never heard of.
ClientEventOrder ==
  [][\A a \in Attempts : heard'[a] # heard[a] =>
       /\ <<heard[a], heard'[a]>> \in {<<"nothing", "connect">>, <<"nothing", "connect_error">>,
                                       <<"connect", "disconnect">>, <<"nothing", "disconnect">>}
       /\ heard'[a] = "connect" => told[a] # "nothing"]_vars

\* What either side observes of a connection, callbacks inside callbacks included.
EventOrder == ServerEventOrder /\ ClientEventOrder

\* An attempt that asks nobody settles: only an auth callback that has not answered, or
\* middleware that never called its `next`, can keep one pending.
Asked(a) ==
  \/ a \in authing /\ a \notin attached
  \/ index[a] >= 1 /\ nexts[a] = 0
PendingSettles == \A a \in Attempts : []<>(state[a] # "pending" \/ Asked(a))

\* A client does not stay on a Socket whose teardown has begun.
TornIsLeft ==
  \A a \in Attempts :
    a \in torn ~> ~(Client(a) \in online /\ socket[Client(a)] = a)

-----------------------------------------------------------------------------
(* The inductive invariant behind ConnectedOwnsAttempt and ManagerKnowsGroup. *)

\* connectionAttempt refers to an attempt of that client that is not settled, and
\* attempts that were not begun have no state.
AttemptsKept ==
  /\ \A c \in Clients : attempt[c] # None =>
       Client(attempt[c]) = c /\ state[attempt[c]] \in {"pending", "connected"}
  /\ \A a \in Attempts : a[2] > begun[Client(a)] => state[a] = "unused"

\* `next` belongs to attempts that have their Socket, and so do its completions.
KnownTasks == {t \in Tasks : t.op \in {"accept", "refuse"} => t.of \in attached}
KnownFrames ==
  {f \in Frames : /\ f.op = "connection" => f.of \in attached
                  /\ f.op = "leaving" => socket[Client(f.of)] # None}
CallsAreKnown ==
  /\ \A a \in Attempts : index[a] >= 1 => a \in attached
  /\ microtasks \in Seq(KnownTasks)
  /\ stack \in Seq(KnownFrames)

\* What the application can rely on whatever it does: TypeOK and the two invariants
\* above, strengthened until every step preserves them.
PairingInv ==
  /\ TypeOK
  /\ ConnectedOwnsAttempt
  /\ ManagerKnowsGroup
  /\ AttemptsKept
  /\ CallsAreKnown

=============================================================================
