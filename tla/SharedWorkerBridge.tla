------------------------- MODULE SharedWorkerBridge -------------------------
(***************************************************************************)
(* One page and one worker joined by a MessagePort: the page's socket      *)
(* facade (shared-worker-client.ts) and the host that connects a real      *)
(* client Socket in the worker on its behalf (shared-worker-host.ts).      *)
(*                                                                         *)
(* The two run at the same time and share nothing but the port, a FIFO     *)
(* channel in each direction.  Every connect() of the page gets a request  *)
(* number and, when the host handles it, a generation; both sides must     *)
(* recognise what belongs to a request or a generation that is over.       *)
(*                                                                         *)
(* `calls` holds what the facade does when a bridge_error listener, called *)
(* because a message could not be cloned, returns.  The worker's client    *)
(* Socket is seen through the events it promises: connect or connect_error *)
(* and then disconnect.                                                    *)
(***************************************************************************)
EXTENDS Integers, Sequences, FiniteSets

CONSTANTS
  Faults,        \* what the application may do besides calling the two sides:
                 \*   "auth"    set an auth object that cannot be cloned
                 \*   "values"  send or answer values that cannot be cloned
                 \*   "refusal" refuse, in middleware, a connection it accepted
                 \*   "blank"   give empty error messages and close reasons
                 \*   "names"   emit, on the server, events whose name the page refuses
                 \*             ("" and "bridge_error"); the page refuses its own at once
  MaxConnects,   \* bound: calls of connect
  MaxEmits,      \* bound: emits of the page
  MaxEvents      \* bound: events of the server

ASSUME BridgeAssumption ==
  /\ {MaxConnects, MaxEmits, MaxEvents} \subseteq Nat
  /\ MaxConnects >= 1
  /\ Faults \subseteq {"auth", "values", "refusal", "blank", "names"}

VARIABLES
  \* the page
  requestSequence, requestId,        \* 0 is undefined, as for generation
  generation,
  connected, connecting, disconnecting, disconnectAfterConnect,
  observingPageHide,
  outgoingBuffer,
  emitted,                           \* emits so far; they are numbered
  clientAcks,                        \* emits whose acknowledgement is pending
  answerable,                        \* server events whose callback is live
  calls,
  \* the port
  toHost, toPage,
  \* the worker
  active,                            \* its generation; 0 is undefined
  nextGeneration,
  requestOf,                         \* the request of each generation
  sockets,                           \* the client Socket of each generation
  sent,                              \* events of the server so far
  serverAcks,                        \* its events with a pending acknowledgement
  references,                        \* emits whose acknowledgement it may send
  hostClosed,
  received                           \* the last emit that reached the server

requestVars == <<requestSequence, requestId, connecting, disconnectAfterConnect,
                 observingPageHide>>
linkVars == <<generation, connected, disconnecting, clientAcks, answerable>>
pageVars == <<requestVars, linkVars, outgoingBuffer, emitted, calls>>
hostVars == <<active, nextGeneration, requestOf, sockets, sent, serverAcks, references,
              hostClosed, received>>
vars == <<pageVars, toHost, toPage, hostVars>>

Requests == 1..MaxConnects
Generations == 1..MaxConnects
Emits == 1..MaxEmits
Events == 1..MaxEvents

Kinds == {"plain", "ack"} \cup (IF "values" \in Faults THEN {"unclonable"} ELSE {})
Emissions == [id : Emits, kind : Kinds]

PageMessages ==
  [type : {"connect"}, request : Requests]
  \cup [type : {"event"}, generation : Generations, id : Emits, ack : BOOLEAN]
  \cup [type : {"ack"}, generation : Generations, id : Events]
  \cup [type : {"disconnect"}, generation : Generations, request : Requests]
HostMessages ==
  [type : {"connected", "connectError", "disconnected", "unreadable"},
   generation : Generations, request : Requests]
  \cup [type : {"event"}, generation : Generations, id : Events, ack : BOOLEAN]
  \cup [type : {"ack"}, generation : Generations, id : Emits]

\* connect() after its failed post, and flushOutgoing with what is left to flush,
\* between two emissions or after the bridge_error of one.
Calls == [op : {"connect", "flush", "flushError"}, generation : 0..MaxConnects,
          rest : Seq(Emissions)]

TypeOK ==
  /\ requestSequence \in Requests
  /\ requestId \in Requests \cup {0}
  /\ generation \in Generations \cup {0}
  /\ {connected, connecting, disconnecting, disconnectAfterConnect,
      observingPageHide, hostClosed} \subseteq BOOLEAN
  /\ outgoingBuffer \in Seq(Emissions)
  /\ emitted \in 0..MaxEmits
  /\ clientAcks \subseteq Emits
  /\ answerable \subseteq Events
  /\ calls \in Seq(Calls)
  /\ toHost \in Seq(PageMessages)
  /\ toPage \in Seq(HostMessages)
  /\ active \in Generations \cup {0}
  /\ nextGeneration \in 0..MaxConnects
  /\ requestOf \in [Generations -> Requests \cup {0}]
  /\ sockets \in [Generations -> {"none", "pending", "connected", "gone"}]
  /\ sent \in 0..MaxEvents
  /\ serverAcks \subseteq Events
  /\ references \subseteq Emits
  /\ received \in 0..MaxEmits

\* The facade after its constructor, whose connect() may fail to post its auth.
Init ==
  /\ requestSequence = 1
  /\ \/ requestId = 1 /\ connecting = TRUE /\ observingPageHide = TRUE
        /\ toHost = <<[type |-> "connect", request |-> 1]>>
     \/ "auth" \in Faults
        /\ requestId = 0 /\ connecting = FALSE /\ observingPageHide = FALSE
        /\ toHost = <<>>
  /\ generation = 0 /\ connected = FALSE
  /\ disconnecting = FALSE /\ disconnectAfterConnect = FALSE
  /\ outgoingBuffer = <<>> /\ emitted = 0
  /\ clientAcks = {} /\ answerable = {} /\ calls = <<>>
  /\ toPage = <<>>
  /\ active = 0 /\ nextGeneration = 0
  /\ requestOf = [g \in Generations |-> 0]
  /\ sockets = [g \in Generations |-> "none"]
  /\ sent = 0 /\ serverAcks = {} /\ references = {}
  /\ hostClosed = FALSE /\ received = 0

-----------------------------------------------------------------------------
(* The page.                                                               *)

\* The application runs on the page: at top level, or in a bridge_error listener.
InPage == calls # <<>> => Head(calls).op \in {"connect", "flushError"}

Post(messages) == toHost' = toHost \o messages

\* Mutant: callbacks of a connection that is over stay registered.
ReleaseCallbacks == UNCHANGED clientAcks /\ answerable' = {}

ReleaseAcknowledgements == clientAcks' = {} /\ answerable' = {}

ReleaseGeneration ==
  /\ connected' = FALSE
  /\ generation' = 0
  /\ ReleaseAcknowledgements

\* connect().  A previous connection is forgotten, not disconnected: the host does that.
Connect ==
  /\ InPage
  /\ ~(connected /\ ~disconnecting)
  /\ requestSequence < MaxConnects
  /\ ReleaseGeneration
  /\ disconnectAfterConnect' = FALSE /\ disconnecting' = FALSE
  /\ connecting' = TRUE /\ observingPageHide' = TRUE
  /\ requestSequence' = requestSequence + 1
  /\ requestId' = requestSequence + 1
  /\ \/ Post(<<[type |-> "connect", request |-> requestSequence + 1]>>)
        /\ UNCHANGED calls
     \/ "auth" \in Faults
        /\ calls' = <<[op |-> "connect", generation |-> 0, rest |-> <<>>]>> \o calls
        /\ UNCHANGED toHost
  /\ UNCHANGED <<outgoingBuffer, emitted, toPage, hostVars>>

\* The bridge_error listener of a connect() that could not be posted returns.
ConnectFailed ==
  /\ calls # <<>> /\ Head(calls).op = "connect"
  /\ calls' = Tail(calls)
  /\ connecting' = FALSE
  /\ requestId' = 0
  /\ observingPageHide' = FALSE
  /\ UNCHANGED <<requestSequence, disconnectAfterConnect, linkVars, outgoingBuffer, emitted,
                 toHost, toPage, hostVars>>

\* Mutant: disconnect() keeps listening for pagehide.
LeaveListening(g) ==
  /\ disconnecting' = TRUE
  /\ connected' = FALSE
  /\ ReleaseAcknowledgements
  /\ UNCHANGED observingPageHide
  /\ Post(<<[type |-> "disconnect", generation |-> g, request |-> requestId]>>)

\* disconnect() of a page that is connected to generation g.
Leave(g) ==
  /\ disconnecting' = TRUE
  /\ connected' = FALSE
  /\ ReleaseAcknowledgements
  /\ observingPageHide' = FALSE
  /\ Post(<<[type |-> "disconnect", generation |-> g, request |-> requestId]>>)

\* disconnect(), called by the application or by the pagehide event.
Disconnect ==
  /\ InPage
  /\ ~disconnecting
  /\ connected \/ connecting
  /\ IF connected
     THEN Leave(generation) /\ UNCHANGED <<disconnectAfterConnect, generation>>
     ELSE /\ disconnectAfterConnect' = TRUE
          /\ observingPageHide' = FALSE
          /\ UNCHANGED <<linkVars, toHost>>
  /\ UNCHANGED <<requestSequence, requestId, connecting, outgoingBuffer, emitted, calls,
                 toPage, hostVars>>

\* postEmission of an emission that can be cloned.
PostEmission(e, g) ==
  /\ Post(<<[type |-> "event", generation |-> g, id |-> e.id, ack |-> e.kind = "ack"]>>)
  /\ clientAcks' = IF e.kind = "ack" THEN clientAcks \cup {e.id} ELSE clientAcks

\* Mutant: the buffer is a stack.
PutFirst(e) == outgoingBuffer' = <<e>> \o outgoingBuffer

Buffer(e) == outgoingBuffer' = Append(outgoingBuffer, e)

\* emit(): posted when connected, else buffered.  One that cannot be cloned is lost.
Emit(kind) ==
  LET e == [id |-> emitted + 1, kind |-> kind]
  IN /\ InPage
     /\ kind \in Kinds
     /\ emitted < MaxEmits
     /\ emitted' = emitted + 1
     /\ IF ~connected \/ disconnecting
        THEN Buffer(e) /\ UNCHANGED <<toHost, clientAcks>>
        ELSE /\ IF kind = "unclonable" THEN UNCHANGED <<toHost, clientAcks>>
                                       ELSE PostEmission(e, generation)
             /\ UNCHANGED outgoingBuffer
     /\ UNCHANGED <<requestVars, generation, connected, disconnecting, answerable, calls,
                    toPage, hostVars>>

\* The application answers event n of the server.
Answer(n) ==
  /\ InPage
  /\ n \in answerable
  /\ answerable' = answerable \ {n}
  /\ \/ /\ connected /\ ~disconnecting
        /\ Post(<<[type |-> "ack", generation |-> generation, id |-> n]>>)
     \/ /\ ~connected \/ disconnecting \/ "values" \in Faults
        /\ UNCHANGED toHost
  /\ UNCHANGED <<requestVars, generation, connected, disconnecting, clientAcks,
                 outgoingBuffer, emitted, calls, toPage, hostVars>>

\* One round of flushOutgoing: stop when the connection it serves is over.
Flush ==
  LET f == Head(calls)  e == Head(f.rest)
  IN /\ calls # <<>>
     /\ f.op \in {"flush", "flushError"}
     /\ \/ /\ f.rest = <<>>
           /\ calls' = Tail(calls)
           /\ UNCHANGED <<outgoingBuffer, toHost, clientAcks>>
        \/ /\ f.rest # <<>>
           /\ ~connected \/ generation # f.generation \/ disconnecting
           /\ outgoingBuffer' = f.rest \o outgoingBuffer
           /\ calls' = Tail(calls)
           /\ UNCHANGED <<toHost, clientAcks>>
        \/ /\ f.rest # <<>>
           /\ connected /\ generation = f.generation /\ ~disconnecting
           /\ IF e.kind = "unclonable" THEN UNCHANGED <<toHost, clientAcks>>
                                       ELSE PostEmission(e, generation)
           /\ calls' = <<[f EXCEPT !.rest = Tail(@),
                                   !.op = IF e.kind = "unclonable" THEN "flushError"
                                                                   ELSE "flush"]>> \o Tail(calls)
           /\ UNCHANGED outgoingBuffer
     /\ UNCHANGED <<requestVars, generation, connected, disconnecting, answerable, emitted,
                    toPage, hostVars>>

\* The page takes the next message from the port.
PageTakes(type) ==
  /\ calls = <<>> /\ toPage # <<>> /\ Head(toPage).type = type
  /\ toPage' = Tail(toPage)
  /\ UNCHANGED hostVars

\* Mutants: any answer will do; a page that is leaving waits for none.
AnyAnswer(m) == connecting
StayingAnswer(m) == m.request = requestId /\ connecting /\ ~disconnectAfterConnect

\* The page waits for this answer.
Awaited(m) == m.request = requestId /\ connecting

\* receiveConnected: flush the buffer, or leave at once if disconnect() was called.
ReceiveConnected ==
  LET m == Head(toPage)
  IN /\ PageTakes("connected")
     /\ UNCHANGED <<requestSequence, requestId, emitted>>
     /\ IF Awaited(m)
        THEN /\ generation' = m.generation
             /\ connecting' = FALSE
             /\ disconnectAfterConnect' = FALSE
             /\ IF disconnectAfterConnect
                THEN Leave(m.generation) /\ UNCHANGED <<outgoingBuffer, calls>>
                ELSE /\ connected' = TRUE
                     /\ calls' = <<[op |-> "flush", generation |-> m.generation,
                                    rest |-> outgoingBuffer]>>
                     /\ outgoingBuffer' = <<>>
                     /\ UNCHANGED <<disconnecting, clientAcks, answerable,
                                    observingPageHide, toHost>>
        ELSE UNCHANGED <<connecting, disconnectAfterConnect, observingPageHide, linkVars,
                         outgoingBuffer, calls, toHost>>

ReceiveConnectError ==
  LET mine == Awaited(Head(toPage))
  IN /\ PageTakes("connectError")
     /\ generation' = IF mine THEN 0 ELSE generation
     /\ connected' = (connected /\ ~mine)
     /\ observingPageHide' = (observingPageHide /\ ~mine)
     /\ connecting' = (connecting /\ ~mine)
     /\ UNCHANGED <<requestSequence, requestId, disconnectAfterConnect, disconnecting,
                    clientAcks, answerable, outgoingBuffer, emitted, calls, toHost>>

\* An event of the server is dispatched, unless it is of another generation.
ReceiveEvent ==
  LET m == Head(toPage)
  IN /\ PageTakes("event")
     /\ answerable' = IF m.ack /\ m.generation = generation /\ connected /\ ~disconnecting
                      THEN answerable \cup {m.id} ELSE answerable
     /\ UNCHANGED <<requestVars, generation, connected, disconnecting, clientAcks,
                    outgoingBuffer, emitted, calls, toHost>>

\* An acknowledgement calls the callback of the emit, if it is still pending.
ReceiveAcknowledgement ==
  LET m == Head(toPage)
  IN /\ PageTakes("ack")
     /\ clientAcks' = IF m.generation = generation /\ connected /\ ~disconnecting
                      THEN clientAcks \ {m.id} ELSE clientAcks
     /\ UNCHANGED <<requestVars, generation, connected, disconnecting, answerable,
                    outgoingBuffer, emitted, calls, toHost>>

ReceiveDisconnected ==
  LET m == Head(toPage)
  IN /\ PageTakes("disconnected")
     /\ IF m.generation = generation /\ m.request = requestId
        THEN /\ connecting' = FALSE
             /\ disconnecting' = FALSE
             /\ observingPageHide' = FALSE
             /\ ReleaseGeneration
        ELSE UNCHANGED <<connecting, observingPageHide, linkVars>>
     /\ UNCHANGED <<requestSequence, requestId, disconnectAfterConnect, outgoingBuffer,
                    emitted, calls, toHost>>

\* A message without its text, or of an event that is not allowed, fails validation:
\* bridge_error, and nothing else.
ReceiveUnreadable ==
  /\ PageTakes("unreadable")
  /\ UNCHANGED <<requestVars, linkVars, outgoingBuffer, emitted, calls, toHost>>

-----------------------------------------------------------------------------
(* The worker.                                                             *)

Reply(messages) == toPage' = toPage \o messages

\* A message of generation g whose text the application gives: it may be empty.
Texts(type, g) ==
  {[type |-> t, generation |-> g, request |-> requestOf[g]] :
     t \in {type} \cup (IF "blank" \in Faults THEN {"unreadable"} ELSE {})}

\* Mutants: active keeps the finished connection; its acknowledgements stay pending.
FinishActive(g, state) ==
  /\ active' = active
  /\ sockets' = [sockets EXCEPT ![g] = state]
  /\ serverAcks' = {} /\ references' = {}
FinishPending(g, state) ==
  /\ active' = 0
  /\ sockets' = [sockets EXCEPT ![g] = state]
  /\ UNCHANGED serverAcks /\ references' = {}

\* finish() of generation g, whose Socket is then in the given state.
Finish(g, state) ==
  /\ active' = 0
  /\ sockets' = [sockets EXCEPT ![g] = state]
  /\ serverAcks' = {} /\ references' = {}

Disconnected(g) == [type |-> "disconnected", generation |-> g, request |-> requestOf[g]]

\* The host takes the next message from the port.
HostTakes(type) ==
  /\ toHost # <<>> /\ Head(toHost).type = type
  /\ toHost' = Tail(toHost)
  /\ ~hostClosed
  /\ UNCHANGED <<pageVars, hostClosed>>

\* Mutant: the generations are compared the wrong way.
IsEarlier(m) == active # 0 /\ m.generation < active

\* handleMessage acts on what is of the active generation; the rest is over or an error.
IsActive(m) == active # 0 /\ m.generation = active

\* Mutant of Replaced: the replaced Socket stays.
ReplacedStays == sockets

NextGeneration == nextGeneration + 1

\* The sockets once the active one, replaced, is disconnected.
Replaced == IF active = 0 THEN sockets ELSE [sockets EXCEPT ![active] = "gone"]

\* connect(): disconnect the active Socket and start another, unless that throws.
HostConnect ==
  LET g == NextGeneration
      m == Head(toHost)
      replaced == IF active = 0 THEN <<>> ELSE <<Disconnected(active)>>
  IN /\ HostTakes("connect")
     /\ nextGeneration' = g
     /\ requestOf' = [requestOf EXCEPT ![g] = m.request]
     /\ serverAcks' = {} /\ references' = {}
     /\ \/ /\ active' = g
           /\ sockets' = [Replaced EXCEPT ![g] = "pending"]
           /\ Reply(replaced)
        \/ /\ active' = 0
           /\ sockets' = Replaced
           /\ Reply(replaced \o <<[type |-> "connectError", generation |-> g,
                                   request |-> m.request]>>)
     /\ UNCHANGED <<sent, received>>

\* handleClientEvent: the Socket emits the event.
HostEvent ==
  LET m == Head(toHost)
  IN /\ HostTakes("event")
     /\ received' = IF IsActive(m) THEN m.id ELSE received
     /\ references' = IF IsActive(m) /\ m.ack THEN references \cup {m.id} ELSE references
     /\ UNCHANGED <<active, nextGeneration, requestOf, sockets, sent, serverAcks, toPage>>

HostAcknowledgement ==
  LET m == Head(toHost)
  IN /\ HostTakes("ack")
     /\ serverAcks' = IF IsActive(m) THEN serverAcks \ {m.id} ELSE serverAcks
     /\ UNCHANGED <<active, nextGeneration, requestOf, sockets, sent, references, received,
                    toPage>>

HostDisconnect ==
  LET m == Head(toHost)
  IN /\ HostTakes("disconnect")
     /\ IF IsActive(m) /\ m.request = requestOf[active]
        THEN Finish(active, "gone") /\ Reply(<<Disconnected(active)>>)
        ELSE UNCHANGED <<active, sockets, serverAcks, references, toPage>>
     /\ UNCHANGED <<nextGeneration, requestOf, sent, received>>

\* Messages that arrive after close() find no listener.
HostIgnores ==
  /\ toHost # <<>> /\ hostClosed
  /\ toHost' = Tail(toHost)
  /\ UNCHANGED <<pageVars, toPage, hostVars>>

\* The Socket's connect event.  Accepting again reports it again.
ServerAccepts(g) ==
  /\ g = active
  /\ \/ sockets[g] = "pending"
     \/ sockets[g] = "connected" /\ "refusal" \in Faults
        /\ toPage = <<>>             \* bound: once the page has caught up
  /\ sockets' = [sockets EXCEPT ![g] = "connected"]
  /\ Reply(<<[type |-> "connected", generation |-> g, request |-> requestOf[g]]>>)
  /\ UNCHANGED <<pageVars, toHost, active, nextGeneration, requestOf, sent, serverAcks,
                 references, hostClosed, received>>

\* The Socket's connect_error event.  Refused after it was accepted, it stays connected.
ServerRefuses(g) ==
  /\ g = active
  /\ \/ sockets[g] = "pending" /\ Finish(g, "gone")
     \/ sockets[g] = "connected" /\ "refusal" \in Faults /\ Finish(g, "connected")
  /\ \E m \in Texts("connectError", g) : Reply(<<m>>)
  /\ UNCHANGED <<pageVars, toHost, nextGeneration, requestOf, sent, hostClosed, received>>

\* The Socket's disconnect event, when the server disconnects it.
ServerDisconnects(g) ==
  /\ sockets[g] = "connected"
  /\ IF g = active
     THEN Finish(g, "gone") /\ Reply(<<Disconnected(g)>>)
     ELSE /\ sockets' = [sockets EXCEPT ![g] = "gone"]
          /\ UNCHANGED <<active, serverAcks, references, toPage>>
  /\ UNCHANGED <<pageVars, toHost, nextGeneration, requestOf, sent, hostClosed, received>>

\* forwardServerEvent.  What cannot be cloned is lost, and its acknowledgement forgotten.
\* What the page will refuse is posted, and its acknowledgement waits.
ServerEmits(g, ack) ==
  /\ g = active /\ sockets[g] = "connected"
  /\ sent < MaxEvents
  /\ sent' = sent + 1
  /\ \/ /\ \/ Reply(<<[type |-> "event", generation |-> g, id |-> sent + 1, ack |-> ack]>>)
           \/ /\ "names" \in Faults
              /\ Reply(<<[type |-> "unreadable", generation |-> g, request |-> requestOf[g]]>>)
        /\ serverAcks' = IF ack THEN serverAcks \cup {sent + 1} ELSE serverAcks
     \/ "values" \in Faults /\ UNCHANGED <<toPage, serverAcks>>
  /\ UNCHANGED <<pageVars, toHost, active, nextGeneration, requestOf, sockets, references,
                 hostClosed, received>>

\* acknowledgeClientEvent: the server answers emit e.
ServerAnswers(e) ==
  /\ e \in references
  /\ references' = references \ {e}
  /\ \/ Reply(<<[type |-> "ack", generation |-> active, id |-> e]>>)
     \/ "values" \in Faults /\ UNCHANGED toPage
  /\ UNCHANGED <<pageVars, toHost, active, nextGeneration, requestOf, sockets, sent,
                 serverAcks, hostClosed, received>>

\* close(reason) of the host.
HostClose ==
  /\ ~hostClosed
  /\ hostClosed' = TRUE
  /\ IF active = 0
     THEN UNCHANGED <<active, sockets, serverAcks, references, toPage>>
     ELSE /\ Finish(active, "gone")
          /\ \E m \in Texts("disconnected", active) : Reply(<<m>>)
  /\ UNCHANGED <<pageVars, toHost, nextGeneration, requestOf, sent, received>>

-----------------------------------------------------------------------------

Application ==
  \/ Connect \/ Disconnect
  \/ \E kind \in Kinds : Emit(kind)
  \/ \E n \in Events : Answer(n)
  \/ HostClose
  \/ \E g \in Generations : ServerDisconnects(g)
  \/ \E g \in Generations, ack \in BOOLEAN : ServerEmits(g, ack)
  \/ \E e \in Emits : ServerAnswers(e)

Page == ConnectFailed \/ Flush

PageReceives ==
  \/ ReceiveConnected \/ ReceiveConnectError \/ ReceiveEvent
  \/ ReceiveAcknowledgement \/ ReceiveDisconnected \/ ReceiveUnreadable

HostReceives ==
  HostConnect \/ HostEvent \/ HostAcknowledgement \/ HostDisconnect \/ HostIgnores

ServerSettles == \E g \in Generations : ServerAccepts(g) \/ ServerRefuses(g)

Next == Application \/ Page \/ PageReceives \/ HostReceives \/ ServerSettles

Spec == Init /\ [][Next]_vars

\* Callbacks return, ports deliver, and the server settles every connection.
FairSpec ==
  /\ Spec
  /\ WF_vars(Page) /\ WF_vars(PageReceives) /\ WF_vars(HostReceives)
  /\ WF_vars(ServerSettles)

-----------------------------------------------------------------------------
(* Properties.                                                             *)

Members(s) == {s[i] : i \in DOMAIN s}

Settled == toHost = <<>> /\ toPage = <<>> /\ calls = <<>> /\ ~hostClosed

\* The host never sees what it reports as a broken protocol: a generation it has not
\* handed out, or a disconnect whose request is not that of its generation.
HostUnderstands ==
  \A m \in Members(toHost) : m.type # "connect" =>
    /\ m.generation <= nextGeneration
    /\ m.type = "disconnect" => requestOf[m.generation] = m.request

\* When nothing is under way, page and host agree: the page is connected, or connecting,
\* exactly if the host's active connection is, and it is the same one.
BridgeAgreement ==
  Settled =>
    /\ ~disconnecting
    /\ connected <=> (active # 0 /\ sockets[active] = "connected")
    /\ connecting <=> (active # 0 /\ sockets[active] = "pending")
    /\ connected => generation = active
    /\ active # 0 <=> (connected \/ connecting)
    /\ active # 0 => requestOf[active] = requestId

\* The worker keeps no client Socket alive that no page can reach: only that of the
\* active generation is connecting or connected.
NoOrphanSocket ==
  \A g \in Generations : sockets[g] \in {"pending", "connected"} => g = active

BridgeInv == TypeOK /\ BridgeAgreement /\ NoOrphanSocket

\* A pending acknowledgement of the page can still come: its event, its answer, or the
\* end of the connection is on its way, or the server holds it.
PageAckIsCarried ==
  \A e \in clientAcks :
    \/ e \in references
    \/ \E m \in Members(toHost) : m.type = "event" /\ m.id = e /\ m.ack
    \/ \E m \in Members(toPage) : m.type = "ack" /\ m.id = e
    \/ \E m \in Members(toPage) : m.type = "disconnected" /\ m.generation = generation

\* And one of the worker: unless the page has left, its event or its answer is on its
\* way, or the page holds it.
HostAckIsCarried ==
  \A n \in serverAcks :
    \/ n \in answerable
    \/ \E m \in Members(toPage) : m.type = "event" /\ m.id = n /\ m.ack
    \/ \E m \in Members(toHost) : m.type = "ack" /\ m.id = n
    \/ \E m \in Members(toHost) : m.type \in {"connect", "disconnect"}

\* On neither side does an acknowledgement wait for nothing.
AcksAreCarried == PageAckIsCarried /\ HostAckIsCarried

\* A generation that was reported over is not heard of again.
EndedGenerationIsSilent ==
  \A i, j \in DOMAIN toPage :
    i < j /\ toPage[i].type \in {"disconnected", "connectError"}
      => toPage[j].generation > toPage[i].generation

\* The page listens for pagehide exactly while there is a connection to leave.
ObservesWhileNeeded ==
  calls = <<>> =>
    (observingPageHide <=> connected \/ (connecting /\ ~disconnectAfterConnect))

\* Emits reach the server in order and at most once, over every reconnection.
EmitsInOrder == [][received' # received => received' > received]_vars

\* A connection that was asked for settles, and one that was left is over in the end.
ConnectSettles == connecting ~> (~connecting \/ hostClosed)
LeavingEnds == disconnecting ~> ~disconnecting

=============================================================================
