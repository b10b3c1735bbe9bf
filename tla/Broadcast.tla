------------------------------ MODULE Broadcast ------------------------------
(***************************************************************************)
(* The rooms of a Namespace and what is sent to them: Adapter and Socket    *)
(* membership, the BroadcastOperator with its routing, its acknowledgement  *)
(* collection and its bulk disconnect (broadcast.ts, adapters.ts,           *)
(* sockets.ts).                                                             *)
(*                                                                         *)
(* The adapter is a DroppingAdapter over the default Adapter.  Every Socket *)
(* has one client, whose first connection it is; admission is Pairing's     *)
(* subject and is kept here only as far as it changes the roster and what   *)
(* reaches the client.  A broadcast calls outgoing observers between its    *)
(* recipients, and a bulk disconnect calls listeners between its Sockets:   *)
(* `stack` is what continues when they return, `microtasks` the deferred.   *)
(***************************************************************************)
EXTENDS Naturals, Sequences, FiniteSets

CONSTANTS
  Sids,          \* the Sockets
  SharedRooms,   \* the rooms besides those named by a Socket
  Operators,     \* the rooms and the exclusions of the operators that are used
  MaxCasts,      \* bound: broadcasts
  MaxChanges,    \* bound: joins, leaves and drops the application asks for
  MaxDepth       \* bound: callbacks within callbacks in which the application acts

Rooms == SharedRooms \cup Sids

ASSUME BroadcastAssumption ==
  /\ IsFiniteSet(Sids)
  /\ SharedRooms \cap Sids = {}
  /\ Operators \subseteq [rooms : SUBSET Rooms, except : SUBSET Rooms]
  /\ MaxCasts \in Nat /\ MaxChanges \in Nat /\ MaxDepth \in Nat

VARIABLES
  client,        \* the connection of each Socket, as its client sees it
  roster,        \* Namespace.sockets
  roomsOf,       \* Socket.rooms
  members,       \* Adapter.rooms
  known, index,  \* Adapter.sids: its keys, and their values
  dropped,       \* DroppingAdapter.dropped
  cleaned,       \* membershipCleaned, the opposite of acceptsRoomJoins
  torn,          \* teardownPromise is set
  acks,          \* clientAcknowledgementState is active
  casts,         \* the broadcasts so far
  changes,       \* how many joins, leaves and drops
  microtasks, stack

roomVars == <<roster, roomsOf, members, known, index, dropped, cleaned>>
socketVars == <<client, torn, acks>>
runVars == <<microtasks, stack>>
vars == <<roomVars, socketVars, casts, changes, runVars>>

Casts == 1..MaxCasts
\* Where the packet of a broadcast is for one Socket.
Places == {"unrouted", "routed", "queued", "lost", "heard", "held", "spent", "answered"}
Messages ==
  [ack : BOOLEAN,                \* a trailing callback collects acknowledgements
   place : [Sids -> Places],
   responses : Seq(Sids),
   result : {"none", "ok", "timeout"}]
Tasks ==
  [op : {"deliver"}, of : Casts, to : Sids, kept : BOOLEAN]
    \cup [op : {"answer"}, of : Casts, from : Sids] \cup [op : {"empty"}, of : Casts]
    \cup [op : {"teardown", "leave"}, of : Sids]
Frames ==
  [op : {"cast"}, of : Casts, to : Sids, was : BOOLEAN, rest : SUBSET Sids]
    \cup [op : {"bulk"}, chosen : SUBSET Sids, rest : SUBSET Sids]
    \cup [op : {"disconnecting", "disconnect"}, of : Sids, sync : BOOLEAN]
    \cup [op : {"connection", "leaving"}, of : Sids]

TypeOK ==
  /\ client \in [Sids -> {"pending", "online", "left", "abandoned"}]
  /\ roster \subseteq Sids
  /\ roomsOf \in [Sids -> SUBSET Rooms]
  /\ members \in [Rooms -> SUBSET Sids]
  /\ known \subseteq Sids
  /\ index \in [Sids -> SUBSET Rooms]
  /\ dropped \cup cleaned \cup torn \cup acks \subseteq Sids
  /\ casts \in Seq(Messages) /\ Len(casts) <= MaxCasts
  /\ changes \in 0..MaxChanges
  /\ microtasks \in Seq(Tasks)
  /\ stack \in Seq(Frames)

\* Every client is connecting, and its Socket is with the middleware.
Init ==
  /\ client = [s \in Sids |-> "pending"]
  /\ roster = {} /\ roomsOf = [s \in Sids |-> {}] /\ members = [r \in Rooms |-> {}]
  /\ known = {} /\ index = [s \in Sids |-> {}]
  /\ dropped = {} /\ cleaned = {} /\ torn = {} /\ acks = Sids
  /\ casts = <<>> /\ changes = 0 /\ microtasks = <<>> /\ stack = <<>>

-----------------------------------------------------------------------------
(* The run-time system.                                                    *)

Defer(task) == microtasks' = Append(microtasks, task)
Due(op) == stack = <<>> /\ microtasks # <<>> /\ Head(microtasks).op = op
Task == Head(microtasks)

\* The application runs between tasks and in every callback.
InApp ==
  /\ Len(stack) <= MaxDepth
  /\ stack # <<>> => Head(stack).op # "bulk"
Returning(op) == stack # <<>> /\ Head(stack).op = op
Frame == Head(stack)

-----------------------------------------------------------------------------
(* Membership.                                                             *)

\* One more change of the rooms; a call that changes nothing is a stutter.
Change ==
  /\ changes < MaxChanges /\ changes' = changes + 1
  /\ roomVars' # roomVars

\* Adapter.add and the live room view, in step.
Add(s, r) ==
  /\ members' = [members EXCEPT ![r] = @ \cup {s}]
  /\ known' = known \cup {s}
  /\ index' = [index EXCEPT ![s] = @ \cup {r}]
  /\ roomsOf' = [roomsOf EXCEPT ![s] = @ \cup {r}]

\* Mutant: whole-socket cleanup has not been asked about.
AlwaysAccepts(s) == TRUE

AcceptsRoomJoins(s) == s \notin cleaned

Join(s, r) ==
  /\ InApp
  /\ AcceptsRoomJoins(s)
  /\ Add(s, r)
  /\ UNCHANGED <<roster, dropped, cleaned, socketVars, casts, runVars>>
  /\ Change

\* Leaving its id-room is but leaving a room.
Leave(s, r) ==
  /\ InApp
  /\ members' = [members EXCEPT ![r] = @ \ {s}]
  /\ index' = [index EXCEPT ![s] = @ \ {r}]
  /\ roomsOf' = [roomsOf EXCEPT ![s] = @ \ {r}]
  /\ UNCHANGED <<roster, known, dropped, cleaned, socketVars, casts, runVars>>
  /\ Change

\* DroppingAdapter.setDropped, for sids the adapter knows.
SetDropped(s) ==
  /\ InApp
  /\ s \in known
  /\ dropped' \in {dropped \cup {s}, dropped \ {s}}
  /\ UNCHANGED <<roster, roomsOf, members, known, index, cleaned, socketVars, casts, runVars>>
  /\ Change

\* cleanupMembership, of which only the first call does anything.
CleanupMembership(s) ==
  \/ /\ s \notin cleaned
     /\ cleaned' = cleaned \cup {s}
     /\ members' = [r \in Rooms |-> IF r \in roomsOf[s] THEN members[r] \ {s} ELSE members[r]]
     /\ known' = known \ {s}
     /\ index' = [index EXCEPT ![s] = {}]
     /\ dropped' = dropped \ {s}
     /\ roomsOf' = [roomsOf EXCEPT ![s] = {}]
     /\ roster' = roster \ {s}
  \/ s \in cleaned /\ UNCHANGED roomVars

-----------------------------------------------------------------------------
(* Connections.                                                            *)

\* Admission registers the Socket and calls the connection handlers.
Register(s) ==
  /\ stack = <<>>
  /\ client[s] = "pending" /\ s \notin roster
  /\ roster' = roster \cup {s}
  /\ IF AcceptsRoomJoins(s) THEN Add(s, s) ELSE UNCHANGED <<roomsOf, members, known, index>>
  /\ stack' = <<[op |-> "connection", of |-> s]>>
  /\ UNCHANGED <<dropped, cleaned, socketVars, casts, changes, microtasks>>

\* completeConnectionAttempt, if the attempt is still pending.
ConnectionReturns ==
  /\ Returning("connection")
  /\ client' = [client EXCEPT ![Frame.of] = IF @ = "pending" THEN "online" ELSE @]
  /\ stack' = Tail(stack)
  /\ UNCHANGED <<roomVars, torn, acks, casts, changes, microtasks>>

\* The client gives up a pending attempt, or middleware refuses it.
Abandon(s) ==
  /\ InApp
  /\ client[s] = "pending"
  /\ client' = [client EXCEPT ![s] = "abandoned"]
  /\ acks' = acks \ {s}
  /\ CleanupMembership(s)
  /\ UNCHANGED <<torn, casts, changes, runVars>>

\* ClientSocket.disconnect of a connected client: first its own disconnect event.
ClientDisconnect(s) ==
  /\ InApp
  /\ client[s] = "online"
  /\ client' = [client EXCEPT ![s] = "left"]
  /\ acks' = acks \ {s}
  /\ stack' = <<[op |-> "leaving", of |-> s]>> \o stack
  /\ UNCHANGED <<roomVars, torn, casts, changes, microtasks>>

\* ... then the server's, deferred.
LeavingReturns ==
  /\ Returning("leaving")
  /\ torn' = torn \cup {Frame.of}
  /\ IF Frame.of \in torn THEN UNCHANGED microtasks
     ELSE Defer([op |-> "teardown", of |-> Frame.of])
  /\ stack' = Tail(stack)
  /\ UNCHANGED <<roomVars, client, acks, casts, changes>>

RunTeardown ==
  /\ Due("teardown")
  /\ stack' = <<[op |-> "disconnecting", of |-> Task.of, sync |-> FALSE]>>
  /\ acks' = acks \ {Task.of}
  /\ microtasks' = Tail(microtasks)
  /\ UNCHANGED <<roomVars, client, torn, casts, changes>>

\* teardownSynchronously, above what is left on the stack.
Teardown(s, below) ==
  /\ s \notin torn
  /\ torn' = torn \cup {s}
  /\ acks' = acks \ {s}
  /\ stack' = <<[op |-> "disconnecting", of |-> s, sync |-> TRUE]>> \o below

\* ServerSocket.disconnect.
ServerDisconnect(s) ==
  /\ InApp
  /\ Teardown(s, stack)
  /\ UNCHANGED <<roomVars, client, casts, changes, microtasks>>

\* The disconnecting listeners return: membership ends, the disconnect listeners run.
DisconnectingReturns ==
  /\ Returning("disconnecting")
  /\ CleanupMembership(Frame.of)
  /\ stack' = <<[Frame EXCEPT !.op = "disconnect"]>> \o Tail(stack)
  /\ UNCHANGED <<socketVars, casts, changes, microtasks>>

DisconnectReturns ==
  /\ Returning("disconnect")
  /\ IF Frame.sync THEN Defer([op |-> "leave", of |-> Frame.of]) ELSE UNCHANGED microtasks
  /\ stack' = Tail(stack)
  /\ UNCHANGED <<roomVars, socketVars, casts, changes>>

\* The client is told, if it is still connected.
RunLeave ==
  /\ Due("leave")
  /\ client' = [client EXCEPT ![Task.of] = IF @ = "online" THEN "left" ELSE @]
  /\ acks' = IF client[Task.of] = "online" THEN acks \ {Task.of} ELSE acks
  /\ microtasks' = Tail(microtasks)
  /\ UNCHANGED <<roomVars, torn, casts, changes, stack>>

-----------------------------------------------------------------------------
(* Broadcasts.                                                             *)

SocketsIn(rooms) == UNION {members[r] : r \in rooms}

\* recipients(): routed by the adapter, connected when volatile, not dropped.
Recipients(o, volatile) ==
  {s \in (IF o.rooms = {} THEN roster ELSE SocketsIn(o.rooms) \cap roster) :
     /\ s \notin SocketsIn(o.except)
     /\ volatile => client[s] = "online"
     /\ s \notin dropped}

\* Observers of the next recipient, or the end of the loop; `below` is what it returns to.
Observe(c, rest, below) ==
  \/ rest = {} /\ stack' = below
  \/ \E s \in rest :
       stack' = <<[op |-> "cast", of |-> c, to |-> s, was |-> client[s] = "online",
                   rest |-> rest \ {s}]>> \o below

\* Mutant: nobody to answer, nobody to wait for.
DeferNothing(c) == UNCHANGED microtasks

\* A collection without recipients is answered by a microtask, and has no timer.
AnswerEmpty(c) == Defer([op |-> "empty", of |-> c])

\* emit of an operator: the recipients are chosen once, then each is sent to.
Emit(o, volatile, ack) ==
  LET chosen == Recipients(o, volatile)
      c == Len(casts) + 1
  IN /\ InApp
     /\ c <= MaxCasts
     /\ casts' = Append(casts, [ack |-> ack,
                                place |-> [s \in Sids |-> IF s \in chosen THEN "routed"
                                                                         ELSE "unrouted"],
                                responses |-> <<>>, result |-> "none"])
     /\ IF ack /\ chosen = {} THEN AnswerEmpty(c) ELSE UNCHANGED microtasks
     /\ Observe(c, chosen, stack)
     /\ UNCHANGED <<roomVars, socketVars, changes>>

Move(c, s, place) == casts' = [casts EXCEPT ![c].place[s] = place]

\* The client of an abandoned attempt has no Socket to take a guard from.
Guardless(s) == client[s] = "abandoned"

\* sendBroadcast after its observers.  An observer that disconnected the client does not
\* retract the packet.  Asking a client without a Socket for the guard of an
\* acknowledgement throws, and leaves the loop.
CastReturns ==
  /\ Returning("cast")
  /\ IF casts[Frame.of].ack /\ Guardless(Frame.to)
     THEN stack' = Tail(stack) /\ UNCHANGED <<casts, microtasks>>
     ELSE /\ Move(Frame.of, Frame.to, "queued")
          /\ Defer([op |-> "deliver", of |-> Frame.of, to |-> Frame.to,
                    kept |-> Frame.was /\ client[Frame.to] # "online"])
          /\ Observe(Frame.of, Frame.rest, Tail(stack))
  /\ UNCHANGED <<roomVars, socketVars, changes>>

\* The packet reaches the client, unless its connection is over by then.
RunDeliver ==
  /\ Due("deliver")
  /\ Move(Task.of, Task.to,
          IF ~Task.kept /\ client[Task.to] # "online" THEN "lost"
          ELSE IF casts[Task.of].ack THEN "held" ELSE "heard")
  /\ microtasks' = Tail(microtasks)
  /\ UNCHANGED <<roomVars, socketVars, changes, stack>>

\* The client calls the acknowledgement function, which works once and while connected.
Answer(c, s) ==
  /\ InApp
  /\ casts[c].place[s] = "held"
  /\ s \in acks
  /\ Move(c, s, "spent")
  /\ Defer([op |-> "answer", of |-> c, from |-> s])
  /\ UNCHANGED <<roomVars, socketVars, changes, stack>>

Chosen(c) == {s \in Sids : casts[c].place[s] # "unrouted"}

\* Mutant: an answer too late is counted.
CountAnswer(c, s) ==
  LET responses == Append(casts[c].responses, s)
      done == Len(responses) = Cardinality(Chosen(c))
  IN casts' = [casts EXCEPT ![c].place[s] = "answered", ![c].responses = responses,
                            ![c].result = IF done THEN "ok" ELSE @]
\* Mutant: the first answer is as good as all.
FirstAnswer(c, s) ==
  casts' = [casts EXCEPT ![c].place[s] = "answered", ![c].responses = Append(@, s),
                         ![c].result = "ok"]

\* collect(): one answer more, and the last one settles.
Collect(c, s) ==
  LET responses == Append(casts[c].responses, s)
      done == Len(responses) = Cardinality(Chosen(c))
  IN casts' = IF casts[c].result # "none" THEN [casts EXCEPT ![c].place[s] = "answered"]
              ELSE [casts EXCEPT ![c].place[s] = "answered", ![c].responses = responses,
                                 ![c].result = IF done THEN "ok" ELSE "none"]

RunAnswer ==
  /\ Due("answer")
  /\ Collect(Task.of, Task.from)
  /\ microtasks' = Tail(microtasks)
  /\ UNCHANGED <<roomVars, socketVars, changes, stack>>

RunEmpty ==
  /\ Due("empty")
  /\ casts' = [casts EXCEPT ![Task.of].result = "ok"]
  /\ microtasks' = Tail(microtasks)
  /\ UNCHANGED <<roomVars, socketVars, changes, stack>>

\* The timer, which a collection with recipients always has, timeout(ms) or not.
Timeout(c) ==
  /\ InApp
  /\ casts[c].ack /\ casts[c].result = "none" /\ Chosen(c) # {}
  /\ casts' = [casts EXCEPT ![c].result = "timeout"]
  /\ UNCHANGED <<roomVars, socketVars, changes, runVars>>

-----------------------------------------------------------------------------
(* Management.                                                             *)

\* managementSockets(): by the rooms of the Sockets, not by the adapter.
ManagementSockets(o) ==
  {s \in roster : /\ o.rooms # {} => roomsOf[s] \cap o.rooms # {}
                  /\ roomsOf[s] \cap o.except = {}}

\* disconnectSockets(false), which does nothing when every teardown has begun.
DisconnectSockets(o) ==
  LET chosen == ManagementSockets(o)
  IN /\ InApp
     /\ ~(chosen \subseteq torn)
     /\ stack' = <<[op |-> "bulk", chosen |-> chosen, rest |-> chosen]>> \o stack
     /\ UNCHANGED <<roomVars, socketVars, casts, changes, microtasks>>

\* Mutant: a Socket on its way out ends the loop.
BulkUntilTorn ==
  /\ Returning("bulk")
  /\ \E s \in Frame.rest :
       LET below == <<[Frame EXCEPT !.rest = IF s \in torn THEN {} ELSE @ \ {s}]>> \o Tail(stack)
       IN \/ Teardown(s, below)
          \/ s \in torn /\ stack' = below /\ UNCHANGED <<torn, acks>>
  /\ UNCHANGED <<roomVars, client, casts, changes, microtasks>>

\* The next Socket; disconnecting it does nothing if its teardown has begun.
BulkNext ==
  /\ Returning("bulk")
  /\ \E s \in Frame.rest :
       LET below == <<[Frame EXCEPT !.rest = @ \ {s}]>> \o Tail(stack)
       IN \/ Teardown(s, below)
          \/ s \in torn /\ stack' = below /\ UNCHANGED <<torn, acks>>
  /\ UNCHANGED <<roomVars, client, casts, changes, microtasks>>

BulkReturns ==
  /\ Returning("bulk") /\ Frame.rest = {}
  /\ stack' = Tail(stack)
  /\ UNCHANGED <<roomVars, socketVars, casts, changes, microtasks>>

-----------------------------------------------------------------------------
Application ==
  \/ \E s \in Sids : \/ \E r \in SharedRooms \cup {s} : Join(s, r) \/ Leave(s, r)
                     \/ SetDropped(s)
                     \/ Abandon(s) \/ ClientDisconnect(s) \/ ServerDisconnect(s)
  \/ \E o \in Operators : \/ \E volatile, ack \in BOOLEAN : Emit(o, volatile, ack)
                          \/ DisconnectSockets(o)
  \/ \E c \in DOMAIN casts, s \in Sids : Answer(c, s)

CallbackReturns ==
  \/ ConnectionReturns \/ LeavingReturns \/ DisconnectingReturns \/ DisconnectReturns
  \/ CastReturns

BulkDisconnect == BulkNext \/ BulkReturns

Microtask ==
  \/ \E s \in Sids : Register(s)
  \/ RunTeardown \/ RunLeave \/ RunDeliver \/ RunAnswer \/ RunEmpty

Next ==
  \/ Application \/ CallbackReturns \/ BulkDisconnect \/ Microtask
  \/ \E c \in DOMAIN casts : Timeout(c)

Spec == Init /\ [][Next]_vars

\* Callbacks return, microtasks run and timers fire, whatever the application does in
\* between, which is finite.
FairSpec ==
  /\ Spec
  /\ WF_vars(BulkDisconnect) /\ SF_vars(CallbackReturns) /\ SF_vars(Microtask)
  /\ \A c \in Casts : SF_vars(c \in DOMAIN casts /\ Timeout(c))

-----------------------------------------------------------------------------
(* Properties.                                                             *)

\* The room views of Socket and Adapter, in both directions, never come apart, and a
\* Socket whose membership was cleaned up is in none of them and not dropped, whatever
\* its listeners and observers join or leave while it goes.
RoomViewsAgree ==
  /\ \A s \in Sids : /\ roomsOf[s] = {r \in Rooms : s \in members[r]}
                     /\ index[s] = roomsOf[s]
  /\ cleaned \cap known = {} /\ dropped \subseteq known
  /\ \A s \in cleaned : roomsOf[s] = {}

RoomsInv == TypeOK /\ RoomViewsAgree

\* A collection succeeds when every Socket it was routed to has answered, each once,
\* also those that have left since; nobody else is among the responses.
AllHaveAnswered ==
  \A c \in DOMAIN casts :
    LET responses == casts[c].responses
        from == {responses[i] : i \in DOMAIN responses}
    IN /\ Cardinality(from) = Len(responses)
       /\ from \subseteq Chosen(c)
       /\ casts[c].result = "ok" => from = Chosen(c)

\* A collection calls back once, and the responses it has shown stay as they are.
CollectsOnce ==
  [][\A c \in DOMAIN casts : casts[c].result # "none" =>
       casts'[c].result = casts[c].result /\ casts'[c].responses = casts[c].responses]_vars

\* When disconnectSockets returns, the Sockets it chose are out of the roster, or their
\* teardown, begun earlier, is waiting or is what called it.
BulkReachesAll ==
  Returning("bulk") /\ Frame.rest = {} =>
    \A s \in (Frame.chosen \cap roster) \ cleaned :
      \/ \E i \in DOMAIN stack : stack[i].op = "disconnecting" /\ stack[i].of = s
      \/ \E i \in DOMAIN microtasks : microtasks[i].op = "teardown" /\ microtasks[i].of = s

\* Every collection calls back, even if its recipients leave or the loop is left early.
CollectionEnds ==
  \A c \in Casts : (c \in DOMAIN casts /\ casts[c].ack)
                     ~> (c \in DOMAIN casts /\ casts[c].result # "none")

=============================================================================
