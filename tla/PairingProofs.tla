--------------------------- MODULE PairingProofs ---------------------------
(***************************************************************************)
(* Proofs about Pairing, for any number of clients, attempts and           *)
(* middleware functions.  PairingInvariant and GroupLeavesTogether hold    *)
(* for every behaviour of the application; what Disciplined assumes of it  *)
(* is named where the agreement of client and server begins.               *)
(***************************************************************************)
EXTENDS Pairing, SequenceTheorems, FiniteSetTheorems, TLAPS

-----------------------------------------------------------------------------
(* The stack and the queue as sequences.                                   *)

LEMMA PushFacts ==
  ASSUME NEW S, NEW q \in Seq(S), NEW e \in S
  PROVE  LET p == <<e>> \o q
         IN /\ p \in Seq(S) /\ Len(p) = Len(q) + 1 /\ p # <<>>
            /\ Head(p) = e /\ p[1] = e
            /\ \A i \in 1..Len(q) : p[i + 1] = q[i]
            /\ \A i \in 2..Len(p) : i - 1 \in 1..Len(q) /\ p[i] = q[i - 1]
OBVIOUS

LEMMA TailFacts ==
  ASSUME NEW S, NEW q \in Seq(S), q # <<>>
  PROVE  /\ Head(q) = q[1] /\ q[1] \in S
         /\ Tail(q) \in Seq(S) /\ Len(Tail(q)) = Len(q) - 1
         /\ \A i \in 1..Len(Tail(q)) : i + 1 \in 1..Len(q) /\ Tail(q)[i] = q[i + 1]
OBVIOUS

\* The set of what is in a sequence.
Elements(q) == {q[i] : i \in DOMAIN q}

LEMMA PushElements ==
  ASSUME NEW S, NEW q \in Seq(S), NEW e \in S
  PROVE  Elements(<<e>> \o q) = {e} \cup Elements(q)
<1> DEFINE p == <<e>> \o q
<1>1. /\ DOMAIN p = 1..(Len(q) + 1) /\ DOMAIN q = 1..Len(q) /\ Len(q) \in Nat /\ p[1] = e
      /\ \A i \in 1..Len(q) : p[i + 1] = q[i]
      /\ \A i \in DOMAIN p : i = 1 \/ (i - 1 \in 1..Len(q) /\ p[i] = q[i - 1])
  BY PushFacts
<1> HIDE DEF p
<1>2. \A i \in DOMAIN q : i + 1 \in DOMAIN p /\ 1 \in DOMAIN p
  BY <1>1
<1>3. 1 \in DOMAIN p
  BY <1>1
<1> QED
  BY <1>1, <1>2, <1>3 DEF Elements, p

LEMMA TailElements ==
  ASSUME NEW S, NEW q \in Seq(S), q # <<>>
  PROVE  Elements(q) = {Head(q)} \cup Elements(Tail(q))
<1>1. <<Head(q)>> \o Tail(q) = q /\ Tail(q) \in Seq(S) /\ Head(q) \in S
  OBVIOUS
<1> QED
  BY <1>1, PushElements

-----------------------------------------------------------------------------
(* The queue, the stack, and what they hold.                               *)

LEMMA SeqWidens ==
  ASSUME NEW S, NEW T, S \subseteq T, NEW q \in Seq(S)
  PROVE  q \in Seq(T)
  OBVIOUS

LEMMA QueueKeeps ==
  ASSUME NEW S, microtasks \in Seq(S), NEW q \in Seq(S)
  PROVE  /\ Defer(q) => microtasks' \in Seq(S)
         /\ microtasks # <<>> /\ Consume(q) => microtasks' \in Seq(S)
<1>1. microtasks \o q \in Seq(S)
  OBVIOUS
<1>2. microtasks # <<>> => Tail(microtasks) \in Seq(S)
  OBVIOUS
<1>3. microtasks # <<>> => Tail(microtasks) \o q \in Seq(S)
  BY <1>2
<1> QED
  BY <1>1, <1>3 DEF Defer, Consume

LEMMA StackKeeps ==
  ASSUME NEW S, stack \in Seq(S)
  PROVE  /\ stack # <<>> => Head(stack) \in S
         /\ \A f \in S : Push(f) => stack' \in Seq(S)
         /\ stack # <<>> /\ Pop => stack' \in Seq(S)
         /\ \A f \in S : stack # <<>> /\ Continue(f) => stack' \in Seq(S)
<1>1. stack # <<>> => Head(stack) \in S /\ Tail(stack) \in Seq(S)
  OBVIOUS
<1>2. \A f \in S : <<f>> \in Seq(S)
  OBVIOUS
<1>3. \A f \in S : /\ <<f>> \o stack \in Seq(S)
                   /\ stack # <<>> => <<f>> \o Tail(stack) \in Seq(S)
  BY <1>1, <1>2
<1> QED
  BY <1>1, <1>3 DEF Push, Continue, Pop

LEMMA Bounds ==
  /\ Middlewares \in Nat /\ MaxAttempts \in Nat /\ MaxNext \in Nat /\ MaxBuffered \in Nat
  /\ MaxNext >= 1
  BY PairingAssumption

LEMMA AttemptClient == \A a \in Attempts : Client(a) \in Clients
  BY DEF Attempts, Client

\* The tasks and frames an action adds are known ones.
LEMMA NewTask ==
  ASSUME NEW a \in Attempts, NEW op \in TaskOps,
         op \in {"accept", "refuse"} => a \in attached'
  PROVE  Task(op, a) \in Seq(KnownTasks')
<1>1. [op |-> op, of |-> a] \in KnownTasks'
  BY DEF KnownTasks, Tasks
<1> QED
  BY <1>1 DEF Task

LEMMA NewFrame ==
  ASSUME NEW a \in Attempts, NEW op \in Windows \cup Loops, NEW C \in SUBSET Clients,
         NEW n \in Nat,
         op = "connection" => a \in attached',
         op = "leaving" => socket'[Client(a)] # None
  PROVE  Frame(op, a, C, n) \in KnownFrames'
  BY DEF Frame, Frames, KnownFrames

\* Known tasks and frames stay known while Sockets are only added.
LEMMA StillKnown ==
  ASSUME CallsAreKnown, attached \subseteq attached',
         \A c \in Clients : socket[c] # None => socket'[c] # None
  PROVE  microtasks \in Seq(KnownTasks') /\ stack \in Seq(KnownFrames')
<1>1. KnownTasks \subseteq KnownTasks'
  BY DEF KnownTasks
<1>2. KnownFrames \subseteq KnownFrames'
  BY AttemptClient DEF KnownFrames, Frames
<1> QED
  BY <1>1, <1>2, SeqWidens DEF CallsAreKnown

-----------------------------------------------------------------------------
(* Who is connected and who is pending.                                    *)

Ownership == ConnectedOwnsAttempt /\ ManagerKnowsGroup /\ AttemptsKept

\* Steps that leave the attempts and the clients alone only add Sockets.
LEMMA QuietKeepsOwnership ==
  ASSUME Ownership, attached \subseteq attached',
         UNCHANGED <<begun, attempt, socket, online, state, managerVars>>
  PROVE  Ownership'
BY DEF Ownership, ConnectedOwnsAttempt, ManagerKnowsGroup, AttemptsKept, Established,
       managerVars

LEMMA RejectKeepsOwnership ==
  ASSUME TypeOK, Ownership, NEW a \in Attempts, Pending(a), Reject(a)
  PROVE  Ownership'
<1> USE AttemptClient DEF Ownership, Pending, Reject, TypeOK, DataTypeOK
<1>1. ConnectedOwnsAttempt'
  BY DEF ConnectedOwnsAttempt, Established
<1>2. ManagerKnowsGroup'
  BY DEF ManagerKnowsGroup, AttemptsKept, Client
<1>3. AttemptsKept'
  BY DEF AttemptsKept
<1> QED
  BY <1>1, <1>2, <1>3

LEMMA CancelKeepsOwnership ==
  ASSUME TypeOK, Ownership, NEW C \in SUBSET pendingClients, Cancel(C),
         UNCHANGED <<begun, socket, online, attached, connectedClients>>
  PROVE  Ownership'
<1> DEFINE mine == {attempt[c] : c \in C}
<1> USE AttemptClient DEF Ownership, TypeOK, DataTypeOK
<1>1. \A c \in C : /\ c \in Clients /\ attempt[c] \in Attempts /\ Client(attempt[c]) = c
                   /\ state[attempt[c]] = "pending" /\ c \notin online
  BY PairingAssumption DEF ManagerKnowsGroup, AttemptsKept, ConnectedOwnsAttempt
<1>2. /\ state' = [b \in Attempts |-> IF b \in mine THEN "cancelled" ELSE state[b]]
      /\ attempt' = [c \in Clients |-> IF c \in C THEN None ELSE attempt[c]]
      /\ pendingClients' = pendingClients \ C
  BY DEF Cancel
<1>3. \A c \in Clients \ C : attempt[c] # None => attempt[c] \notin mine
  BY <1>1 DEF AttemptsKept
<1> HIDE DEF mine
<1>4. \A c \in Clients \ C : attempt[c] # None => state'[attempt[c]] = state[attempt[c]]
  BY <1>2, <1>3
<1>5. ConnectedOwnsAttempt'
  <2>1. \A c \in online : /\ attempt'[c] # None /\ state'[attempt'[c]] = "connected"
                          /\ socket[c] = attempt'[c] /\ attempt'[c] \in attached
    BY <1>1, <1>2, <1>4 DEF ConnectedOwnsAttempt
  <2>2. ASSUME NEW b \in Attempts, state'[b] = "connected"
        PROVE  Established(b)'
    <3>1. b \notin mine /\ state[b] = "connected" /\ Established(b)
      BY <1>2, <2>2 DEF ConnectedOwnsAttempt
    <3>2. Client(b) \notin C
      BY <1>1, <3>1 DEF Established
    <3> QED
      BY <1>2, <2>2, <3>1, <3>2 DEF Established
  <2> QED
    BY <2>1, <2>2 DEF ConnectedOwnsAttempt
<1>6. ManagerKnowsGroup'
  <2>1. \A c \in Clients :
          (attempt'[c] # None /\ state'[attempt'[c]] = "pending")
          <=> (c \notin C /\ attempt[c] # None /\ state[attempt[c]] = "pending")
    BY <1>2, <1>4
  <2>2. connectedClients' = online'
    BY DEF ManagerKnowsGroup
  <2>3. pendingClients' = {c \in Clients : attempt'[c] # None /\ state'[attempt'[c]] = "pending"}
    BY <1>2, <2>1 DEF ManagerKnowsGroup
  <2> QED
    BY <2>2, <2>3 DEF ManagerKnowsGroup
<1>7. AttemptsKept'
  <2>1. ASSUME NEW b \in Attempts, b[2] > begun[Client(b)]
        PROVE  state'[b] = "unused"
    <3>1. state[b] = "unused"
      BY <2>1 DEF AttemptsKept
    <3>2. b \notin mine
      BY <1>1, <3>1 DEF mine
    <3> QED
      BY <1>2, <3>1, <3>2
  <2>2. ASSUME NEW c \in Clients, attempt'[c] # None
        PROVE  Client(attempt'[c]) = c /\ state'[attempt'[c]] \in {"pending", "connected"}
    BY <1>2, <1>4, <2>2 DEF AttemptsKept
  <2> QED
    BY <2>1, <2>2 DEF AttemptsKept
<1> QED
  BY <1>5, <1>6, <1>7

LEMMA MarkDisconnectedKeepsOwnership ==
  ASSUME TypeOK, Ownership, NEW c \in online, MarkDisconnected(c),
         UNCHANGED <<begun, socket, attached, pendingClients>>
  PROVE  Ownership'
<1> USE AttemptClient DEF Ownership, TypeOK, DataTypeOK, MarkDisconnected
<1>1. /\ attempt[c] \in Attempts /\ Client(attempt[c]) = c /\ c \in Clients
      /\ state[attempt[c]] = "connected"
  BY DEF ConnectedOwnsAttempt, AttemptsKept
<1>2. ConnectedOwnsAttempt'
  <2>1. ASSUME NEW d \in online' 
        PROVE  /\ attempt'[d] # None /\ state'[attempt'[d]] = "connected"
               /\ socket'[d] = attempt'[d] /\ attempt'[d] \in attached'
    BY <1>1, <2>1 DEF ConnectedOwnsAttempt, AttemptsKept
  <2>2. ASSUME NEW b \in Attempts, state'[b] = "connected"
        PROVE  Established(b)'
    <3>1. b # attempt[c] /\ state[b] = "connected" /\ Established(b)
      BY <1>1, <2>2 DEF ConnectedOwnsAttempt
    <3>2. Client(b) # c
      BY <3>1 DEF Established
    <3> QED
      BY <1>1, <2>2, <3>1, <3>2 DEF Established
  <2> QED
    BY <2>1, <2>2 DEF ConnectedOwnsAttempt
<1>3. ManagerKnowsGroup'
  BY <1>1 DEF ManagerKnowsGroup, AttemptsKept
<1>4. AttemptsKept'
  BY <1>1 DEF AttemptsKept
<1> QED
  BY <1>2, <1>3, <1>4

-----------------------------------------------------------------------------
(* Every step keeps the types of the data.                                 *)

LEMMA AttachTypes ==
  ASSUME DataTypeOK, NEW a \in Attempts, Attach(a)
  PROVE  DataTypeOK'
<1>1. index' \in [Attempts -> 0..Middlewares]
  BY Bounds DEF Attach, DataTypeOK
<1>2. nexts' \in [Attempts -> 0..MaxNext]
  BY Bounds DEF Attach, DataTypeOK
<1> QED
  BY <1>1, <1>2 DEF Attach, DataTypeOK, clientVars, rosterVars, managerVars

LEMMA RejectTypes ==
  ASSUME DataTypeOK, NEW a \in Attempts, Reject(a)
  PROVE  DataTypeOK'
BY AttemptClient DEF Reject, Discard, CleanMembership, DataTypeOK, States

LEMMA BeginTeardownTypes ==
  ASSUME DataTypeOK, NEW a \in Attempts, BeginTeardown(a),
         UNCHANGED <<clientVars, attemptVars, srvConnected, cleaned, closing, rosterVars,
                     closed, managerVars, heard>>
  PROVE  DataTypeOK'
<1>1. /\ torn' \subseteq Attempts /\ active' \subseteq Attempts
      /\ told' \in [Attempts -> {"nothing", "connection", "disconnecting", "disconnect"}]
  BY DEF BeginTeardown, DataTypeOK
<1> QED
  BY <1>1 DEF DataTypeOK, clientVars, attemptVars, rosterVars, managerVars

LEMMA ConnectionReturnsTypes ==
  ASSUME DataTypeOK, NEW a \in Attempts, ConnectionReturns(a)
  PROVE  DataTypeOK'
<1> USE DEF ConnectionReturns, DataTypeOK
<1>1. CASE Pending(a)
  <2>1. heard' \in [Attempts -> {"nothing", "connect", "connect_error", "disconnect"}]
    BY <1>1
  <2>2. UNCHANGED <<begun, attempt, serverVars, rosterVars, authing, attached, index,
                    nexts, closed, told>>
    BY <1>1
  <2>3. /\ state' \in [Attempts -> States]
        /\ socket' \in [Clients -> Attempts \cup {None}]
        /\ online' \subseteq Clients
        /\ pendingClients' \subseteq Clients
        /\ connectedClients' \subseteq Clients
        /\ buffered' \in [Clients -> Nat]
    BY <1>1, AttemptClient DEF States
  <2> QED
    BY <2>1, <2>2, <2>3 DEF serverVars, rosterVars
<1>2. CASE ~Pending(a)
  BY <1>2 DEF Discard, CleanMembership, clientVars, managerVars, serverVars, rosterVars
<1> QED
  BY <1>1, <1>2

LEMMA FlushReturnsTypes ==
  ASSUME DataTypeOK, NEW a \in Attempts, Head(stack) \in Frames, FlushReturns(a)
  PROVE  DataTypeOK'
<1>1. Head(stack).left \in Nat
  BY DEF Frames
<1>2. buffered' \in [Clients -> Nat]
  BY <1>1, AttemptClient DEF FlushReturns, DataTypeOK
<1>3. heard' \in [Attempts -> {"nothing", "connect", "connect_error", "disconnect"}]
  BY DEF FlushReturns, DataTypeOK
<1> QED
  BY <1>2, <1>3 DEF FlushReturns, DataTypeOK, attemptVars, serverVars, rosterVars, managerVars

LEMMA CallNextTypes ==
  ASSUME DataTypeOK, NEW a \in Attempts, CallNext(a)
  PROVE  DataTypeOK'
<1>1. index' \in [Attempts -> 0..Middlewares]
  BY Bounds DEF CallNext, DataTypeOK
<1>2. nexts' \in [Attempts -> 0..MaxNext]
  BY Bounds DEF CallNext, DataTypeOK
<1>3. UNCHANGED <<clientVars, state, authing, attached, serverVars, rosterVars, closed,
                  managerVars, told, heard>>
  BY DEF CallNext
<1> QED
  BY <1>1, <1>2, <1>3 DEF DataTypeOK, clientVars, serverVars, rosterVars, managerVars

LEMMA DataTypeKept ==
  ASSUME PairingInv, [Next]_vars
  PROVE  DataTypeOK'
<1> USE AttemptClient DEF PairingInv, TypeOK, DataTypeOK, States, clientVars, attemptVars,
                          serverVars, rosterVars, managerVars
<1>1. ASSUME NEW c \in Clients, Connect(c) PROVE DataTypeOK'
  <2>1. begun[c] + 1 \in 1..MaxAttempts /\ <<c, begun[c] + 1>> \in Attempts
    BY <1>1, Bounds DEF Connect, Attempts
  <2>2. /\ begun' \in [Clients -> 0..MaxAttempts]
        /\ attempt' \in [Clients -> Attempts \cup {None}]
        /\ state' \in [Attempts -> States]
        /\ pendingClients' \subseteq Clients
    BY <1>1, <2>1, Bounds DEF Connect
  <2> QED
    BY <1>1, <2>2 DEF Connect
<1>2. ASSUME NEW c \in Clients, Emit(c) PROVE DataTypeOK'
  BY <1>2, Bounds DEF Emit
<1>3. ASSUME NEW c \in Clients, Disconnect(c) PROVE DataTypeOK'
  BY <1>3, Bounds DEF Disconnect, MarkDisconnected
<1>4. ASSUME NEW c \in Clients, CancelAttempt(c) PROVE DataTypeOK'
  BY <1>4, Bounds DEF CancelAttempt, Cancel, Discard, CleanMembership
<1>5. ASSUME NEW a \in Attempts, ResolveAuth(a) PROVE DataTypeOK'
  BY <1>5, RejectTypes, AttachTypes DEF ResolveAuth
<1>6. ASSUME NEW a \in Attempts, CallNext(a) PROVE DataTypeOK'
  BY <1>6, CallNextTypes
<1>7. ASSUME NEW a \in Attempts, RefuseNext(a) PROVE DataTypeOK'
  BY <1>7, Bounds DEF RefuseNext
<1>8. ASSUME NEW a \in Attempts, ServerDisconnect(a) PROVE DataTypeOK'
  BY <1>8, BeginTeardownTypes DEF ServerDisconnect, Handles
<1>9. ASSUME NEW a \in Attempts, DisconnectGroup(a) PROVE DataTypeOK'
  BY <1>9, Bounds DEF DisconnectGroup
<1>10. ASSUME NEW a \in Attempts, RunPair(a) PROVE DataTypeOK'
  <2>1. CASE Reject(a) \/ Attach(a)
    BY <2>1, RejectTypes, AttachTypes
  <2>2. CASE ~(Reject(a) \/ Attach(a))
    BY <1>10, <2>2 DEF RunPair
  <2> QED
    BY <2>1, <2>2
<1>11. ASSUME NEW a \in Attempts, RunAccept(a) PROVE DataTypeOK'
  BY <1>11, Bounds DEF RunAccept, Reject, Register, Discard, CleanMembership
<1>12. ASSUME NEW a \in Attempts, RunRefuse(a) PROVE DataTypeOK'
  BY <1>12, Bounds DEF RunRefuse, Reject, Discard, CleanMembership
<1>13. ASSUME NEW a \in Attempts, RunConnectError(a) PROVE DataTypeOK'
  BY <1>13, Bounds DEF RunConnectError
<1>14. ASSUME NEW a \in Attempts, RunTeardown(a) PROVE DataTypeOK'
  BY <1>14, Bounds DEF RunTeardown
<1>15. ASSUME NEW a \in Attempts, RunClientDisconnect(a) PROVE DataTypeOK'
  BY <1>15, Bounds DEF RunClientDisconnect, MarkDisconnected
<1>16. ASSUME NEW a \in Attempts, ConnectionReturns(a) PROVE DataTypeOK'
  BY <1>16, ConnectionReturnsTypes
<1>17. ASSUME NEW a \in Attempts, FlushReturns(a) PROVE DataTypeOK'
  <2>1. Head(stack) \in Frames
    BY <1>17, StackKeeps DEF FlushReturns, Top
  <2> QED
    BY <1>17, <2>1, FlushReturnsTypes
<1>18. ASSUME NEW a \in Attempts, RepeatedReturns(a) PROVE DataTypeOK'
  BY <1>18, Bounds DEF RepeatedReturns
<1>19. ASSUME NEW a \in Attempts, LeavingReturns(a) PROVE DataTypeOK'
  <2>1. Head(stack) \in KnownFrames /\ Head(stack).op = "leaving" /\ Head(stack).of = a
    BY <1>19, StackKeeps DEF LeavingReturns, Top, CallsAreKnown
  <2>2. socket[Client(a)] \in Attempts
    BY <2>1 DEF KnownFrames
  <2> QED
    BY <1>19, <2>2 DEF LeavingReturns
<1>20. ASSUME NEW a \in Attempts, DisconnectingReturns(a) PROVE DataTypeOK'
  BY <1>20, Bounds DEF DisconnectingReturns, CleanMembership
<1>21. ASSUME NEW a \in Attempts, DisconnectReturns(a) PROVE DataTypeOK'
  BY <1>21, Bounds DEF DisconnectReturns
<1>22. ASSUME NEW a \in Attempts, CancelGroup(a) PROVE DataTypeOK'
  BY <1>22, Bounds DEF CancelGroup, Cancel, Discard, CleanMembership
<1>23. ASSUME NEW a \in Attempts, DisconnectInitiator(a) PROVE DataTypeOK'
  <2>1. CASE a \in torn
    BY <1>23, <2>1 DEF DisconnectInitiator
  <2>2. CASE a \notin torn
    BY <1>23, <2>2, BeginTeardownTypes DEF DisconnectInitiator
  <2> QED
    BY <2>1, <2>2
<1>24. ASSUME NEW a \in Attempts, NEW c \in Clients, DisconnectMember(a, c)
      PROVE  DataTypeOK'
  <2>1. CASE c \in online /\ socket[c] \notin torn
    <3>1. socket[c] \in Attempts
      BY <2>1, PairingAssumption DEF ConnectedOwnsAttempt
    <3> QED
      BY <1>24, <2>1, <3>1, BeginTeardownTypes DEF DisconnectMember
  <2>2. CASE ~(c \in online /\ socket[c] \notin torn)
    BY <1>24, <2>2 DEF DisconnectMember
  <2> QED
    BY <2>1, <2>2
<1>25. ASSUME Close PROVE DataTypeOK'
  BY <1>25, Bounds DEF Close, CloseFromServer
<1>26. ASSUME UNCHANGED vars PROVE DataTypeOK'
  BY <1>26 DEF vars
<1> QED
  BY <1>1, <1>2, <1>3, <1>4, <1>5, <1>6, <1>7, <1>8, <1>9, <1>10, <1>11, <1>12,
     <1>13, <1>14, <1>15, <1>16, <1>17, <1>18, <1>19, <1>20, <1>21, <1>22, <1>23,
     <1>24, <1>25, <1>26 DEF Next, AppCall, Microtask, CallbackReturns, GroupStep

-----------------------------------------------------------------------------
(* Every step keeps the ownership of connections.                          *)

LEMMA ConnectKeepsOwnership ==
  ASSUME TypeOK, Ownership, NEW c \in Clients, Connect(c)
  PROVE  Ownership'
<1> DEFINE a == <<c, begun[c] + 1>>
<1> USE DEF Ownership, TypeOK, DataTypeOK
<1>1. /\ a \in Attempts /\ Client(a) = c /\ a[2] = begun[c] + 1
      /\ a[2] > begun[c] /\ begun[c] \in Nat /\ a # None
  BY Bounds, PairingAssumption DEF Connect, Attempts, Client
<1>2. state[a] = "unused"
  BY <1>1 DEF AttemptsKept
<1>3. /\ begun' = [begun EXCEPT ![c] = @ + 1]
      /\ attempt' = [attempt EXCEPT ![c] = a]
      /\ state' = [state EXCEPT ![a] = "pending"]
      /\ pendingClients' = pendingClients \cup {c}
      /\ UNCHANGED <<socket, online, attached, connectedClients>>
      /\ c \notin online
  BY DEF Connect
<1>4. \A d \in Clients \ {c} : attempt[d] # None => attempt[d] # a
  BY <1>1 DEF AttemptsKept
<1> HIDE DEF a
<1>5. \A d \in Clients \ {c} :
        /\ attempt'[d] = attempt[d]
        /\ attempt[d] # None => state'[attempt[d]] = state[attempt[d]]
  BY <1>1, <1>3, <1>4
<1>6. attempt'[c] = a /\ state'[a] = "pending"
  BY <1>1, <1>3
<1>7. ConnectedOwnsAttempt'
  <2>1. ASSUME NEW d \in online
        PROVE  /\ attempt'[d] # None /\ state'[attempt'[d]] = "connected"
               /\ socket[d] = attempt'[d] /\ attempt'[d] \in attached
    BY <1>3, <1>5 DEF ConnectedOwnsAttempt
  <2>2. ASSUME NEW b \in Attempts, state'[b] = "connected"
        PROVE  Established(b)'
    <3>1. b # a /\ state[b] = "connected" /\ Established(b)
      BY <1>1, <1>3, <2>2 DEF ConnectedOwnsAttempt
    <3> QED
      BY <1>3, <1>5, <2>2, <3>1, AttemptClient DEF Established
  <2> QED
    BY <1>3, <2>1, <2>2 DEF ConnectedOwnsAttempt
<1>8. ManagerKnowsGroup'
  <2>1. \A d \in Clients :
          (attempt'[d] # None /\ state'[attempt'[d]] = "pending")
          <=> (d = c \/ (attempt[d] # None /\ state[attempt[d]] = "pending"))
    BY <1>1, <1>5, <1>6
  <2>2. pendingClients' = {d \in Clients : attempt'[d] # None /\ state'[attempt'[d]] = "pending"}
    BY <1>3, <2>1 DEF ManagerKnowsGroup
  <2> QED
    BY <1>3, <2>2 DEF ManagerKnowsGroup
<1>9. AttemptsKept'
  <2>1. ASSUME NEW d \in Clients, attempt'[d] # None
        PROVE  Client(attempt'[d]) = d /\ state'[attempt'[d]] \in {"pending", "connected"}
    <3>1. CASE d = c
      BY <1>1, <1>6, <3>1
    <3>2. CASE d # c
      BY <1>5, <2>1, <3>2 DEF AttemptsKept
    <3> QED
      BY <3>1, <3>2
  <2>2. ASSUME NEW b \in Attempts, b[2] > begun'[Client(b)]
        PROVE  state'[b] = "unused"
    <3>1. b[2] \in Nat /\ begun[Client(b)] \in Nat /\ Client(b) \in Clients
      BY AttemptClient, Bounds DEF Attempts
    <3>2. b # a
      BY <1>1, <1>3, <2>2
    <3>3. b[2] > begun[Client(b)]
      BY <1>3, <2>2, <3>1
    <3> QED
      BY <1>3, <3>2, <3>3 DEF AttemptsKept
  <2> QED
    BY <2>1, <2>2 DEF AttemptsKept
<1> QED
  BY <1>7, <1>8, <1>9

LEMMA CompletionKeepsOwnership ==
  ASSUME TypeOK, Ownership, NEW a \in attached, Pending(a), ConnectionReturns(a)
  PROVE  Ownership'
<1> DEFINE c == Client(a)
<1> USE DEF Ownership, TypeOK, DataTypeOK
<1>1. /\ a \in Attempts /\ c \in Clients /\ a # None
      /\ attempt[c] = a /\ state[a] = "pending"
  BY AttemptClient, PairingAssumption DEF Pending
<1>2. /\ state' = [state EXCEPT ![a] = "connected"]
      /\ socket' = [socket EXCEPT ![c] = a]
      /\ online' = online \cup {c}
      /\ pendingClients' = pendingClients \ {c}
      /\ connectedClients' = connectedClients \cup {c}
      /\ UNCHANGED <<begun, attempt, attached>>
  BY DEF ConnectionReturns
<1>3. \A d \in Clients \ {c} : attempt[d] # None => attempt[d] # a
  BY DEF AttemptsKept
<1> HIDE DEF c
<1>4. \A d \in Clients \ {c} :
        /\ socket'[d] = socket[d]
        /\ attempt[d] # None => state'[attempt[d]] = state[attempt[d]]
  BY <1>1, <1>2, <1>3
<1>5. state'[a] = "connected" /\ socket'[c] = a
  BY <1>1, <1>2
<1>6. ConnectedOwnsAttempt'
  <2>1. ASSUME NEW d \in online'
        PROVE  /\ attempt'[d] # None /\ state'[attempt'[d]] = "connected"
               /\ socket'[d] = attempt'[d] /\ attempt'[d] \in attached'
    BY <1>1, <1>2, <1>4, <1>5 DEF ConnectedOwnsAttempt
  <2>2. ASSUME NEW b \in Attempts, b # a, state'[b] = "connected"
        PROVE  Established(b)'
    <3>1. state[b] = "connected" /\ Established(b)
      BY <1>1, <1>2, <2>2 DEF ConnectedOwnsAttempt
    <3>2. Client(b) # c
      BY <1>1, <2>2, <3>1 DEF Established
    <3> QED
      BY <1>2, <1>4, <2>2, <3>1, <3>2, AttemptClient DEF Established
  <2>3. Established(a)'
    BY <1>1, <1>2, <1>5 DEF Established, c
  <2> QED
    BY <2>1, <2>2, <2>3 DEF ConnectedOwnsAttempt
<1>7. ManagerKnowsGroup'
  <2>1. \A d \in Clients :
          (attempt'[d] # None /\ state'[attempt'[d]] = "pending")
          <=> (d # c /\ attempt[d] # None /\ state[attempt[d]] = "pending")
    BY <1>1, <1>2, <1>4, <1>5
  <2>2. pendingClients' = {d \in Clients : attempt'[d] # None /\ state'[attempt'[d]] = "pending"}
    BY <1>2, <2>1 DEF ManagerKnowsGroup
  <2> QED
    BY <1>2, <2>2 DEF ManagerKnowsGroup
<1>8. AttemptsKept'
  BY <1>1, <1>2, <1>4, <1>5 DEF AttemptsKept
<1> QED
  BY <1>6, <1>7, <1>8

LEMMA OwnershipKept ==
  ASSUME PairingInv, [Next]_vars
  PROVE  Ownership'
<1>0. TypeOK /\ Ownership /\ CallsAreKnown
  BY DEF PairingInv, Ownership
<1> USE <1>0
<1>1. ASSUME NEW c \in Clients, Connect(c) PROVE Ownership'
  BY <1>1, ConnectKeepsOwnership
<1>2. ASSUME NEW c \in Clients, Emit(c) PROVE Ownership'
  BY <1>2, QuietKeepsOwnership DEF Emit, clientVars, attemptVars
<1>3. ASSUME NEW c \in Clients, Disconnect(c) PROVE Ownership'
  BY <1>3, MarkDisconnectedKeepsOwnership DEF Disconnect
<1>4. ASSUME NEW c \in Clients, CancelAttempt(c) PROVE Ownership'
  <2>1. c \in pendingClients
    BY <1>4 DEF CancelAttempt, Ownership, ManagerKnowsGroup
  <2> QED
    BY <1>4, <2>1, CancelKeepsOwnership DEF CancelAttempt
<1>5. ASSUME NEW a \in Attempts, ResolveAuth(a) PROVE Ownership'
  <2>1. CASE Pending(a) /\ Reject(a)
    BY <2>1, RejectKeepsOwnership
  <2>2. CASE ~(Pending(a) /\ Reject(a))
    BY <1>5, <2>2, QuietKeepsOwnership DEF ResolveAuth, Attach, clientVars, attemptVars
  <2> QED
    BY <2>1, <2>2
<1>6. ASSUME NEW a \in Attempts, CallNext(a) PROVE Ownership'
  BY <1>6, QuietKeepsOwnership DEF CallNext, clientVars, attemptVars
<1>7. ASSUME NEW a \in Attempts, RefuseNext(a) PROVE Ownership'
  BY <1>7, QuietKeepsOwnership DEF RefuseNext, clientVars, attemptVars
<1>8. ASSUME NEW a \in Attempts, ServerDisconnect(a) PROVE Ownership'
  BY <1>8, QuietKeepsOwnership DEF ServerDisconnect, clientVars, attemptVars
<1>9. ASSUME NEW a \in Attempts, DisconnectGroup(a) PROVE Ownership'
  BY <1>9, QuietKeepsOwnership DEF DisconnectGroup, clientVars, attemptVars
<1>10. ASSUME NEW a \in Attempts, RunPair(a) PROVE Ownership'
  <2>1. CASE Pending(a) /\ Reject(a)
    BY <2>1, RejectKeepsOwnership
  <2>2. CASE ~(Pending(a) /\ Reject(a))
    BY <1>10, <2>2, QuietKeepsOwnership DEF RunPair, Attach, clientVars, attemptVars
  <2> QED
    BY <2>1, <2>2
<1>11. ASSUME NEW a \in Attempts, RunAccept(a) PROVE Ownership'
  <2>1. CASE Pending(a) /\ Reject(a)
    BY <2>1, RejectKeepsOwnership
  <2>2. CASE ~(Pending(a) /\ Reject(a))
    BY <1>11, <2>2, QuietKeepsOwnership DEF RunAccept, Attach, clientVars, attemptVars
  <2> QED
    BY <2>1, <2>2
<1>12. ASSUME NEW a \in Attempts, RunRefuse(a) PROVE Ownership'
  <2>1. CASE Pending(a) /\ Reject(a)
    BY <2>1, RejectKeepsOwnership
  <2>2. CASE ~(Pending(a) /\ Reject(a))
    BY <1>12, <2>2, QuietKeepsOwnership DEF RunRefuse, Attach, clientVars, attemptVars
  <2> QED
    BY <2>1, <2>2
<1>13. ASSUME NEW a \in Attempts, RunConnectError(a) PROVE Ownership'
  BY <1>13, QuietKeepsOwnership DEF RunConnectError, clientVars, attemptVars
<1>14. ASSUME NEW a \in Attempts, RunTeardown(a) PROVE Ownership'
  BY <1>14, QuietKeepsOwnership DEF RunTeardown, clientVars, attemptVars
<1>15. ASSUME NEW a \in Attempts, RunClientDisconnect(a) PROVE Ownership'
  <2>1. CASE Client(a) \in online
    BY <1>15, <2>1, MarkDisconnectedKeepsOwnership DEF RunClientDisconnect
  <2>2. CASE Client(a) \notin online
    BY <1>15, <2>2, QuietKeepsOwnership DEF RunClientDisconnect, managerVars
  <2> QED
    BY <2>1, <2>2
<1>16. ASSUME NEW a \in Attempts, ConnectionReturns(a) PROVE Ownership'
  <2>1. CASE Pending(a)
    <3>1. Head(stack) \in KnownFrames /\ Head(stack).op = "connection" /\ Head(stack).of = a
      BY <1>16, StackKeeps DEF ConnectionReturns, Top, CallsAreKnown
    <3> QED
      BY <1>16, <2>1, <3>1, CompletionKeepsOwnership DEF KnownFrames
  <2>2. CASE ~Pending(a)
    BY <1>16, <2>2, QuietKeepsOwnership DEF ConnectionReturns, clientVars
  <2> QED
    BY <2>1, <2>2
<1>17. ASSUME NEW a \in Attempts, FlushReturns(a) PROVE Ownership'
  BY <1>17, QuietKeepsOwnership DEF FlushReturns, clientVars, attemptVars
<1>18. ASSUME NEW a \in Attempts, RepeatedReturns(a) PROVE Ownership'
  BY <1>18, QuietKeepsOwnership DEF RepeatedReturns, clientVars, attemptVars
<1>19. ASSUME NEW a \in Attempts, LeavingReturns(a) PROVE Ownership'
  BY <1>19, QuietKeepsOwnership DEF LeavingReturns, clientVars, attemptVars
<1>20. ASSUME NEW a \in Attempts, DisconnectingReturns(a) PROVE Ownership'
  BY <1>20, QuietKeepsOwnership DEF DisconnectingReturns, clientVars, attemptVars
<1>21. ASSUME NEW a \in Attempts, DisconnectReturns(a) PROVE Ownership'
  BY <1>21, QuietKeepsOwnership DEF DisconnectReturns, clientVars, attemptVars
<1>22. ASSUME NEW a \in Attempts, CancelGroup(a) PROVE Ownership'
  BY <1>22, CancelKeepsOwnership DEF CancelGroup
<1>23. ASSUME NEW a \in Attempts, DisconnectInitiator(a) PROVE Ownership'
  BY <1>23, QuietKeepsOwnership DEF DisconnectInitiator, clientVars, attemptVars
<1>24. ASSUME NEW a \in Attempts, NEW c \in Clients, DisconnectMember(a, c)
      PROVE  Ownership'
  BY <1>24, QuietKeepsOwnership DEF DisconnectMember, clientVars, attemptVars
<1>25. ASSUME Close PROVE Ownership'
  BY <1>25, QuietKeepsOwnership DEF Close, CloseFromServer, clientVars, attemptVars
<1>26. ASSUME UNCHANGED vars PROVE Ownership'
  BY <1>26, QuietKeepsOwnership DEF vars, clientVars, attemptVars
<1> QED
  BY <1>1, <1>2, <1>3, <1>4, <1>5, <1>6, <1>7, <1>8, <1>9, <1>10, <1>11, <1>12,
     <1>13, <1>14, <1>15, <1>16, <1>17, <1>18, <1>19, <1>20, <1>21, <1>22, <1>23,
     <1>24, <1>25, <1>26 DEF Next, AppCall, Microtask, CallbackReturns, GroupStep

-----------------------------------------------------------------------------
(* Every step keeps the queue and the stack known.                         *)

\* CallsAreKnown from what a step adds: Sockets, tasks and frames.
AddsTasks ==
  \/ UNCHANGED microtasks
  \/ \E q \in Seq(KnownTasks') : Defer(q) \/ (microtasks # <<>> /\ Consume(q))
AddsFrames ==
  \/ UNCHANGED stack
  \/ stack # <<>> /\ Pop
  \/ \E f \in KnownFrames' : Push(f) \/ (stack # <<>> /\ Continue(f))

LEMMA CallsFromParts ==
  ASSUME PairingInv, attached \subseteq attached',
         \A a \in Attempts : index'[a] >= 1 => a \in attached',
         \A c \in Clients : socket[c] # None => socket'[c] # None,
         AddsTasks, AddsFrames
  PROVE  CallsAreKnown'
<1>1. microtasks \in Seq(KnownTasks') /\ stack \in Seq(KnownFrames')
  BY StillKnown DEF PairingInv
<1>2. microtasks' \in Seq(KnownTasks')
  BY <1>1, QueueKeeps DEF AddsTasks
<1>3. stack' \in Seq(KnownFrames')
  BY <1>1, StackKeeps DEF AddsFrames
<1> QED
  BY <1>2, <1>3 DEF CallsAreKnown

\* Most steps neither create Sockets nor call middleware.
LEMMA QuietCallsFromParts ==
  ASSUME PairingInv, UNCHANGED <<attached, index, socket>>, AddsTasks, AddsFrames
  PROVE  CallsAreKnown'
BY CallsFromParts DEF PairingInv, CallsAreKnown

LEMMA NoTasks == <<>> \in Seq(KnownTasks')
  OBVIOUS

LEMMA RejectCalls ==
  ASSUME PairingInv, NEW a \in Attempts, Reject(a), AddsTasks, AddsFrames
  PROVE  CallsAreKnown'
BY QuietCallsFromParts DEF Reject

LEMMA AttachCalls ==
  ASSUME PairingInv, NEW a \in Attempts, Attach(a),
         \/ Defer(Admitted(a))
         \/ microtasks # <<>> /\ Consume(Admitted(a)),
         UNCHANGED stack
  PROVE  CallsAreKnown'
<1>1. attached \subseteq attached' /\ a \in attached' /\ UNCHANGED socket
  BY DEF Attach, clientVars
<1>2. Admitted(a) \in Seq(KnownTasks')
  BY <1>1, NewTask, NoTasks DEF Admitted, TaskOps
<1>3. \A b \in Attempts : index'[b] >= 1 => b \in attached'
  <2>1. \A b \in Attempts : b # a => index'[b] = index[b]
    BY DEF Attach, PairingInv, TypeOK, DataTypeOK
  <2> QED
    BY <1>1, <2>1 DEF PairingInv, CallsAreKnown
<1>4. AddsTasks /\ AddsFrames
  BY <1>2 DEF AddsTasks, AddsFrames
<1> QED
  BY <1>1, <1>3, <1>4, CallsFromParts

LEMMA DisconnectWindow ==
  ASSUME NEW a \in Attempts,
         NEW op \in {"syncDisconnecting", "syncDisconnect", "disconnecting", "disconnect",
                     "initiator"}
  PROVE  Window(op, a) \in KnownFrames'
BY NewFrame DEF Window, Windows, Loops

LEMMA FunctionIsSeq ==
  ASSUME NEW S, NEW n \in Nat, NEW f \in [1..n -> S]
  PROVE  f \in Seq(S)
  OBVIOUS

LEMMA AttemptsFinite == IsFiniteSet(Attempts)
<1>1. IsFiniteSet(Clients) /\ IsFiniteSet(1..MaxAttempts)
  BY PairingAssumption, Bounds, FS_Interval
<1> QED
  BY <1>1, FS_Product DEF Attempts

LEMMA CallsKept ==
  ASSUME PairingInv, [Next]_vars
  PROVE  CallsAreKnown'
<1>1. ASSUME NEW c \in Clients, Connect(c) PROVE CallsAreKnown'
  <2>1. <<c, begun[c] + 1>> \in Attempts
    BY <1>1, Bounds DEF Connect, Attempts, PairingInv, TypeOK, DataTypeOK
  <2>2. Task("pair", <<c, begun[c] + 1>>) \in Seq(KnownTasks')
    BY <2>1, NewTask DEF TaskOps
  <2>3. AddsTasks /\ AddsFrames
    BY <1>1, <2>2 DEF Connect, AddsTasks, AddsFrames
  <2> QED
    BY <1>1, <2>3, QuietCallsFromParts DEF Connect
<1>2. ASSUME NEW c \in Clients, Emit(c) PROVE CallsAreKnown'
  BY <1>2, QuietCallsFromParts DEF Emit, AddsTasks, AddsFrames, attemptVars
<1>3. ASSUME NEW c \in Clients, Disconnect(c) PROVE CallsAreKnown'
  <2>1. socket[c] \in Attempts /\ Client(socket[c]) = c /\ socket' = socket
    BY <1>3, PairingAssumption DEF Disconnect, PairingInv, ConnectedOwnsAttempt,
       AttemptsKept, TypeOK, DataTypeOK
  <2>2. Window("leaving", socket[c]) \in KnownFrames'
    BY <2>1, NewFrame, PairingAssumption DEF Window, Windows
  <2>3. AddsTasks /\ AddsFrames
    BY <1>3, <2>2 DEF Disconnect, AddsTasks, AddsFrames
  <2> QED
    BY <1>3, <2>3, QuietCallsFromParts DEF Disconnect
<1>4. ASSUME NEW c \in Clients, CancelAttempt(c) PROVE CallsAreKnown'
  BY <1>4, QuietCallsFromParts DEF CancelAttempt, AddsTasks, AddsFrames, attemptVars
<1>5. ASSUME NEW a \in Attempts, ResolveAuth(a) PROVE CallsAreKnown'
  <2>1. Task("connectError", a) \in Seq(KnownTasks')
    BY NewTask DEF TaskOps
  <2>2. CASE Reject(a) /\ Defer(Task("connectError", a))
    BY <1>5, <2>1, <2>2, RejectCalls DEF ResolveAuth, AddsTasks, AddsFrames
  <2>3. CASE Attach(a) /\ Defer(Admitted(a))
    BY <1>5, <2>3, AttachCalls DEF ResolveAuth
  <2> QED
    BY <1>5, <2>2, <2>3 DEF ResolveAuth
<1>6. ASSUME NEW a \in Attempts, CallNext(a) PROVE CallsAreKnown'
  <2>1. a \in attached /\ attached' = attached /\ socket' = socket
    BY <1>6 DEF CallNext, PairingInv, CallsAreKnown, clientVars
  <2>2. Task("accept", a) \in Seq(KnownTasks')
    BY <2>1, NewTask DEF TaskOps
  <2>3. AddsTasks /\ AddsFrames
    BY <1>6, <2>2 DEF CallNext, AddsTasks, AddsFrames
  <2>4. \A b \in Attempts : b # a => index'[b] = index[b]
    BY <1>6 DEF CallNext, PairingInv, TypeOK, DataTypeOK
  <2>5. \A b \in Attempts : index'[b] >= 1 => b \in attached'
    BY <2>1, <2>4 DEF PairingInv, CallsAreKnown
  <2> QED
    BY <2>1, <2>3, <2>5, CallsFromParts
<1>7. ASSUME NEW a \in Attempts, RefuseNext(a) PROVE CallsAreKnown'
  <2>1. a \in attached /\ attached' = attached /\ socket' = socket
    BY <1>7 DEF RefuseNext, PairingInv, CallsAreKnown, clientVars
  <2>2. Task("refuse", a) \in Seq(KnownTasks')
    BY <2>1, NewTask DEF TaskOps
  <2>3. AddsTasks /\ AddsFrames
    BY <1>7, <2>2 DEF RefuseNext, AddsTasks, AddsFrames
  <2> QED
    BY <1>7, <2>3, QuietCallsFromParts DEF RefuseNext, clientVars
<1>8. ASSUME NEW a \in Attempts, ServerDisconnect(a) PROVE CallsAreKnown'
  <2>1. AddsTasks /\ AddsFrames
    BY <1>8, DisconnectWindow DEF ServerDisconnect, AddsTasks, AddsFrames
  <2> QED
    BY <1>8, <2>1, QuietCallsFromParts DEF ServerDisconnect, clientVars, attemptVars
<1>9. ASSUME NEW a \in Attempts, DisconnectGroup(a) PROVE CallsAreKnown'
  <2>1. Frame("group", a, Group(a) \cap connectedClients, 0) \in KnownFrames'
    BY NewFrame DEF Windows, Loops, Group
  <2>2. AddsTasks /\ AddsFrames
    BY <1>9, <2>1 DEF DisconnectGroup, AddsTasks, AddsFrames
  <2> QED
    BY <1>9, <2>2, QuietCallsFromParts DEF DisconnectGroup, clientVars, attemptVars
<1>10. ASSUME NEW a \in Attempts, RunPair(a) PROVE CallsAreKnown'
  <2>0. microtasks # <<>> /\ UNCHANGED stack
    BY <1>10 DEF RunPair, Due
  <2>1. Task("connectError", a) \in Seq(KnownTasks')
    BY NewTask DEF TaskOps
  <2>2. CASE Reject(a) /\ Consume(Task("connectError", a))
    BY <2>0, <2>1, <2>2, RejectCalls DEF AddsTasks, AddsFrames
  <2>3. CASE Attach(a) /\ Consume(Admitted(a))
    BY <2>0, <2>3, AttachCalls
  <2>4. CASE Consume(<<>>) /\ UNCHANGED <<attached, index, socket>>
    BY <2>0, <2>4, NoTasks, QuietCallsFromParts DEF AddsTasks, AddsFrames
  <2> QED
    BY <1>10, <2>2, <2>3, <2>4 DEF RunPair, clientVars, attemptVars
<1>11. ASSUME NEW a \in Attempts, RunAccept(a) PROVE CallsAreKnown'
  <2>0. /\ Head(microtasks) = [op |-> "accept", of |-> a] /\ microtasks # <<>>
        /\ Head(microtasks) \in KnownTasks /\ a \in attached
    <3>1. Head(microtasks) = [op |-> "accept", of |-> a] /\ microtasks # <<>>
      BY <1>11 DEF RunAccept, Due
    <3>2. Head(microtasks) \in KnownTasks
      BY <3>1 DEF PairingInv, CallsAreKnown
    <3> QED
      BY <3>1, <3>2 DEF KnownTasks
  <2>1. Task("connectError", a) \in Seq(KnownTasks')
    BY NewTask DEF TaskOps
  <2>2. CASE Reject(a) /\ Consume(Task("connectError", a)) /\ UNCHANGED stack
    BY <2>0, <2>1, <2>2, RejectCalls DEF AddsTasks, AddsFrames
  <2>3. CASE ~Reject(a) \/ ~Consume(Task("connectError", a)) \/ ~UNCHANGED stack
    <3>1. UNCHANGED <<attached, index, socket>> /\ Consume(<<>>)
      BY <1>11, <2>3 DEF RunAccept, clientVars, attemptVars
    <3>2. Window("connection", a) \in KnownFrames' /\ Window("repeated", a) \in KnownFrames'
      BY <2>0, <3>1, NewFrame DEF Window, Windows
    <3>3. AddsFrames
      BY <1>11, <2>3, <3>2 DEF RunAccept, AddsFrames
    <3> QED
      BY <2>0, <3>1, <3>3, NoTasks, QuietCallsFromParts DEF AddsTasks
  <2> QED
    BY <2>2, <2>3
<1>12. ASSUME NEW a \in Attempts, RunRefuse(a) PROVE CallsAreKnown'
  <2>1. /\ Task("connectError", a) \in Seq(KnownTasks')
        /\ Task("teardown", a) \in Seq(KnownTasks')
    BY NewTask DEF TaskOps
  <2>2. /\ Task("connectError", a) \o Task("teardown", a) \in Seq(KnownTasks')
        /\ Task("connectError", a) \o <<>> \in Seq(KnownTasks')
    BY <2>1
  <2>3. microtasks # <<>> /\ UNCHANGED stack
    BY <1>12 DEF RunRefuse, Due
  <2>4. CASE Reject(a) /\ Consume(Task("connectError", a))
    BY <2>1, <2>3, <2>4, RejectCalls DEF AddsTasks, AddsFrames
  <2>5. CASE ~Reject(a) \/ ~Consume(Task("connectError", a))
    <3>1. UNCHANGED <<attached, index, socket>>
      BY <1>12, <2>5 DEF RunRefuse, clientVars, attemptVars
    <3>2. AddsTasks
      BY <1>12, <2>2, <2>3, <2>5, NoTasks DEF RunRefuse, AddsTasks
    <3> QED
      BY <2>3, <3>1, <3>2, QuietCallsFromParts DEF AddsFrames
  <2> QED
    BY <2>4, <2>5
<1>13. ASSUME NEW a \in Attempts, RunConnectError(a) PROVE CallsAreKnown'
  <2>1. AddsTasks
    BY <1>13, NoTasks DEF RunConnectError, Due, AddsTasks
  <2>2. AddsFrames
    BY <1>13, DisconnectWindow DEF RunConnectError, AddsFrames
  <2> QED
    BY <1>13, <2>1, <2>2, QuietCallsFromParts DEF RunConnectError, clientVars, attemptVars
<1>14. ASSUME NEW a \in Attempts, RunTeardown(a) PROVE CallsAreKnown'
  <2>1. AddsTasks
    BY <1>14, NoTasks DEF RunTeardown, Due, AddsTasks
  <2>2. AddsFrames
    BY <1>14, DisconnectWindow DEF RunTeardown, AddsFrames
  <2> QED
    BY <1>14, <2>1, <2>2, QuietCallsFromParts DEF RunTeardown, clientVars, attemptVars
<1>15. ASSUME NEW a \in Attempts, RunClientDisconnect(a) PROVE CallsAreKnown'
  <2>1. AddsTasks
    BY <1>15, NoTasks DEF RunClientDisconnect, Due, AddsTasks
  <2>2. AddsFrames
    BY <1>15, DisconnectWindow DEF RunClientDisconnect, AddsFrames
  <2> QED
    BY <1>15, <2>1, <2>2, QuietCallsFromParts DEF RunClientDisconnect, clientVars, attemptVars
<1>16. ASSUME NEW a \in Attempts, ConnectionReturns(a) PROVE CallsAreKnown'
  <2>1. Frame("flush", a, {}, buffered[Client(a)]) \in KnownFrames'
    BY NewFrame, AttemptClient DEF Windows, PairingInv, TypeOK, DataTypeOK
  <2>2. AddsTasks /\ AddsFrames
    BY <1>16, <2>1 DEF ConnectionReturns, Top, AddsTasks, AddsFrames
  <2>3. UNCHANGED <<attached, index>>
    BY <1>16 DEF ConnectionReturns
  <2>4. \A c \in Clients : socket[c] # None => socket'[c] # None
    BY <1>16, PairingAssumption DEF ConnectionReturns, clientVars, PairingInv, TypeOK,
       DataTypeOK
  <2> QED
    BY <2>2, <2>3, <2>4, CallsFromParts DEF PairingInv, CallsAreKnown
<1>17. ASSUME NEW a \in Attempts, FlushReturns(a) PROVE CallsAreKnown'
  <2>1. Head(stack) \in Frames
    BY <1>17, StackKeeps DEF FlushReturns, Top, PairingInv, TypeOK
  <2>2. Head(stack).left > 1 => Frame("flush", a, {}, Head(stack).left - 1) \in KnownFrames'
    BY <2>1, NewFrame DEF Windows, Frames
  <2>3. AddsTasks /\ AddsFrames
    BY <1>17, <2>2 DEF FlushReturns, Top, AddsTasks, AddsFrames
  <2> QED
    BY <1>17, <2>3, QuietCallsFromParts DEF FlushReturns, attemptVars
<1>18. ASSUME NEW a \in Attempts, RepeatedReturns(a) PROVE CallsAreKnown'
  BY <1>18, QuietCallsFromParts DEF RepeatedReturns, Top, AddsTasks, AddsFrames, clientVars, attemptVars
<1>19. ASSUME NEW a \in Attempts, LeavingReturns(a) PROVE CallsAreKnown'
  <2>1. Head(stack) \in KnownFrames /\ Head(stack).op = "leaving" /\ Head(stack).of = a
    BY <1>19, StackKeeps DEF LeavingReturns, Top, PairingInv, CallsAreKnown
  <2>2. socket[Client(a)] \in Attempts
    BY <2>1, AttemptClient DEF KnownFrames, PairingInv, TypeOK, DataTypeOK
  <2>3. Task("teardown", socket[Client(a)]) \in Seq(KnownTasks')
    BY <2>2, NewTask DEF TaskOps
  <2>4. AddsTasks /\ AddsFrames
    BY <1>19, <2>3, NoTasks DEF LeavingReturns, Top, AddsTasks, AddsFrames
  <2> QED
    BY <1>19, <2>4, QuietCallsFromParts DEF LeavingReturns, clientVars, attemptVars
<1>20. ASSUME NEW a \in Attempts, DisconnectingReturns(a) PROVE CallsAreKnown'
  <2>1. AddsTasks /\ AddsFrames
    BY <1>20, DisconnectWindow DEF DisconnectingReturns, Top, AddsTasks, AddsFrames
  <2> QED
    BY <1>20, <2>1, QuietCallsFromParts DEF DisconnectingReturns, clientVars, attemptVars
<1>21. ASSUME NEW a \in Attempts, DisconnectReturns(a) PROVE CallsAreKnown'
  <2>1. /\ Task("clientLeave", a) \in Seq(KnownTasks')
        /\ Task("clientClose", a) \in Seq(KnownTasks')
    BY NewTask DEF TaskOps
  <2>2. AddsTasks /\ AddsFrames
    BY <1>21, <2>1, NoTasks DEF DisconnectReturns, Top, AddsTasks, AddsFrames
  <2> QED
    BY <1>21, <2>2, QuietCallsFromParts DEF DisconnectReturns, clientVars, attemptVars
<1>22. ASSUME NEW a \in Attempts, CancelGroup(a) PROVE CallsAreKnown'
  <2>1. AddsTasks /\ AddsFrames
    BY <1>22, DisconnectWindow DEF CancelGroup, Top, AddsTasks, AddsFrames
  <2> QED
    BY <1>22, <2>1, QuietCallsFromParts DEF CancelGroup
<1>23. ASSUME NEW a \in Attempts, DisconnectInitiator(a) PROVE CallsAreKnown'
  <2>1. AddsTasks /\ AddsFrames
    BY <1>23, DisconnectWindow DEF DisconnectInitiator, Top, AddsTasks, AddsFrames
  <2> QED
    BY <1>23, <2>1, QuietCallsFromParts DEF DisconnectInitiator, clientVars, attemptVars
<1>24. ASSUME NEW a \in Attempts, NEW c \in Clients, DisconnectMember(a, c)
      PROVE  CallsAreKnown'
  <2> DEFINE rest == [Head(stack) EXCEPT !.todo = @ \ {c}]
  <2>1. UNCHANGED <<attached, index, socket, microtasks>> /\ stack # <<>>
    BY <1>24 DEF DisconnectMember, Top, clientVars, attemptVars
  <2>2. Head(stack) \in KnownFrames /\ Tail(stack) \in Seq(KnownFrames)
    BY <2>1 DEF PairingInv, CallsAreKnown
  <2>3. rest \in KnownFrames /\ KnownFrames' = KnownFrames
    BY <2>1, <2>2 DEF KnownFrames, Frames
  <2>4. CASE c \in online /\ socket[c] \notin torn
    <3>1. socket[c] \in Attempts
      BY <2>4, PairingAssumption DEF PairingInv, ConnectedOwnsAttempt, TypeOK, DataTypeOK
    <3>2. Window("syncDisconnecting", socket[c]) \in KnownFrames'
      BY <3>1, DisconnectWindow
    <3>3. stack' = <<Window("syncDisconnecting", socket[c]), rest>> \o Tail(stack)
      BY <1>24, <2>4 DEF DisconnectMember
    <3>4. stack' \in Seq(KnownFrames)
      BY <2>2, <2>3, <3>2, <3>3
    <3> QED
      BY <2>1, <2>3, <3>4 DEF PairingInv, CallsAreKnown, KnownTasks
  <2>5. CASE ~(c \in online /\ socket[c] \notin torn)
    <3>1. Continue(rest)
      BY <1>24, <2>5 DEF DisconnectMember
    <3> QED
      BY <2>1, <2>3, <3>1, QuietCallsFromParts DEF AddsTasks, AddsFrames
  <2> QED
    BY <2>4, <2>5
<1>25. ASSUME Close PROVE CallsAreKnown'
  <2> DEFINE doomed == roster \ torn
  <2>1. UNCHANGED <<attached, index, socket, stack>>
    BY <1>25 DEF Close, CloseFromServer, TeardownAll, clientVars, attemptVars
  <2>2. Cardinality(doomed) \in Nat
    BY AttemptsFinite, FS_Subset, FS_CardinalityType DEF PairingInv, TypeOK, DataTypeOK
  <2>3. PICK q \in Orderings(doomed) :
          Defer([i \in DOMAIN q |-> [op |-> "teardown", of |-> q[i]]])
    BY <1>25 DEF Close, CloseFromServer, TeardownAll
  <2>4. q \in [1..Cardinality(doomed) -> doomed] /\ doomed \subseteq Attempts
    BY <2>3 DEF Orderings, PairingInv, TypeOK, DataTypeOK
  <2>5. \A b \in Attempts : [op |-> "teardown", of |-> b] \in KnownTasks'
    BY DEF KnownTasks, Tasks, TaskOps
  <2>6. [i \in DOMAIN q |-> [op |-> "teardown", of |-> q[i]]]
          \in [1..Cardinality(doomed) -> KnownTasks']
    BY <2>4, <2>5
  <2>7. [i \in DOMAIN q |-> [op |-> "teardown", of |-> q[i]]] \in Seq(KnownTasks')
    BY <2>2, <2>6, FunctionIsSeq
  <2> QED
    BY <2>1, <2>3, <2>7, QuietCallsFromParts DEF AddsTasks, AddsFrames
<1>26. ASSUME UNCHANGED vars PROVE CallsAreKnown'
  BY <1>26, QuietCallsFromParts DEF vars, clientVars, attemptVars, AddsTasks, AddsFrames
<1> QED
  BY <1>1, <1>2, <1>3, <1>4, <1>5, <1>6, <1>7, <1>8, <1>9, <1>10, <1>11, <1>12,
     <1>13, <1>14, <1>15, <1>16, <1>17, <1>18, <1>19, <1>20, <1>21, <1>22, <1>23,
     <1>24, <1>25, <1>26 DEF Next, AppCall, Microtask, CallbackReturns, GroupStep

-----------------------------------------------------------------------------
(* The theorems.                                                           *)

LEMMA InitInv == Init => PairingInv
<1> SUFFICES ASSUME Init PROVE PairingInv
  OBVIOUS
<1> USE Bounds DEF Init
<1>1. DataTypeOK
  <2>1. /\ begun \in [Clients -> 0..MaxAttempts]
        /\ index \in [Attempts -> 0..Middlewares]
        /\ nexts \in [Attempts -> 0..MaxNext]
    <3>1. 0 \in 0..MaxAttempts /\ 0 \in 0..Middlewares /\ 0 \in 0..MaxNext
      OBVIOUS
    <3> QED
      BY <3>1
  <2>2. /\ attempt \in [Clients -> Attempts \cup {None}]
        /\ socket \in [Clients -> Attempts \cup {None}]
        /\ buffered \in [Clients -> Nat]
    OBVIOUS
  <2>3. state \in [Attempts -> States]
    BY DEF States
  <2> QED
    BY <2>1, <2>2, <2>3 DEF DataTypeOK
<1>2. <<>> \in Seq(Tasks) /\ <<>> \in Seq(Frames)
      /\ <<>> \in Seq(KnownTasks) /\ <<>> \in Seq(KnownFrames)
  OBVIOUS
<1>3. TypeOK /\ CallsAreKnown
  BY <1>1, <1>2 DEF TypeOK, CallsAreKnown
<1>4. ConnectedOwnsAttempt /\ ManagerKnowsGroup /\ AttemptsKept
  BY AttemptClient DEF ConnectedOwnsAttempt, ManagerKnowsGroup, AttemptsKept
<1> QED
  BY <1>3, <1>4 DEF PairingInv

LEMMA NextInv == PairingInv /\ [Next]_vars => PairingInv'
<1> SUFFICES ASSUME PairingInv, [Next]_vars PROVE PairingInv'
  OBVIOUS
<1>1. DataTypeOK' /\ Ownership' /\ CallsAreKnown'
  BY DataTypeKept, OwnershipKept, CallsKept
<1>2. microtasks' \in Seq(Tasks) /\ stack' \in Seq(Frames)
  <2>1. KnownTasks' \subseteq Tasks /\ KnownFrames' \subseteq Frames
    BY DEF KnownTasks, KnownFrames
  <2> QED
    BY <1>1, <2>1, SeqWidens DEF CallsAreKnown
<1> QED
  BY <1>1, <1>2 DEF PairingInv, TypeOK, Ownership

\* Every state the program reaches satisfies the inductive invariant.
THEOREM PairingInvariant == Spec => []PairingInv
  BY InitInv, NextInv, PTL DEF Spec

\* The variables keep their types in every state.
THEOREM TypeCorrect == Spec => []TypeOK
<1>1. PairingInv => TypeOK
  BY DEF PairingInv
<1> QED
  BY <1>1, PairingInvariant, PTL

\* However the application interleaves its calls with the library's microtasks and
\* callbacks, a connected client owns exactly the attempt its Socket belongs to, so
\* markDisconnected never reads a missing attempt (sockets.ts:900-905).
THEOREM ConnectionsAreOwned == Spec => []ConnectedOwnsAttempt
<1>1. PairingInv => ConnectedOwnsAttempt
  BY DEF PairingInv
<1> QED
  BY <1>1, PairingInvariant, PTL

\* The Manager's sets never drift from the clients' own states (manager.ts:33-48).
THEOREM GroupsAreKnown == Spec => []ManagerKnowsGroup
<1>1. PairingInv => ManagerKnowsGroup
  BY DEF PairingInv
<1> QED
  BY <1>1, PairingInvariant, PTL

-----------------------------------------------------------------------------
(* An attempt settles once.                                                *)

\* One step of AttemptsSettleOnce.
Settles ==
  \A a \in Attempts : state'[a] # state[a] =>
    \/ state[a] = "unused" /\ state'[a] = "pending"
    \/ state[a] = "pending" /\ state'[a] \in {"connected", "rejected", "cancelled"}
    \/ state[a] = "connected" /\ state'[a] = "cancelled"

LEMMA RejectSettles ==
  ASSUME TypeOK, NEW a \in Attempts, Pending(a), Reject(a)
  PROVE  Settles
  BY DEF TypeOK, DataTypeOK, Pending, Reject, Settles

LEMMA CancelSettles ==
  ASSUME TypeOK, Ownership, NEW C \in SUBSET pendingClients, Cancel(C)
  PROVE  Settles
<1> DEFINE mine == {attempt[c] : c \in C}
<1>1. \A b \in mine : state[b] = "pending"
  BY DEF Ownership, ManagerKnowsGroup
<1>2. state' = [b \in Attempts |-> IF b \in mine THEN "cancelled" ELSE state[b]]
  BY DEF Cancel
<1> QED
  BY <1>1, <1>2 DEF Settles

LEMMA MarkDisconnectedSettles ==
  ASSUME TypeOK, Ownership, NEW c \in Clients, c \in online, MarkDisconnected(c)
  PROVE  Settles
  BY DEF TypeOK, DataTypeOK, Ownership, ConnectedOwnsAttempt, MarkDisconnected, Settles

LEMMA NextSettles ==
  ASSUME PairingInv, [Next]_vars
  PROVE  Settles
<1>0. TypeOK /\ Ownership
  BY DEF PairingInv, Ownership
<1> USE <1>0
<1>1. ASSUME NEW c \in Clients, Connect(c) PROVE Settles
  <2>1. begun[c] + 1 \in 1..MaxAttempts /\ <<c, begun[c] + 1>> \in Attempts
    BY <1>1, Bounds DEF Connect, Attempts, TypeOK, DataTypeOK
  <2>2. state[<<c, begun[c] + 1>>] = "unused"
    BY <2>1, Bounds DEF Ownership, AttemptsKept, Client, TypeOK, DataTypeOK
  <2> QED
    BY <1>1, <2>1, <2>2 DEF Connect, Settles, TypeOK, DataTypeOK
<1>2. ASSUME NEW c \in Clients, CancelAttempt(c) PROVE Settles
  <2>1. c \in pendingClients
    BY <1>2 DEF CancelAttempt, Ownership, ManagerKnowsGroup
  <2> QED
    BY <1>2, <2>1, CancelSettles DEF CancelAttempt
<1>3. ASSUME NEW a \in Attempts, CancelGroup(a) PROVE Settles
  BY <1>3, CancelSettles DEF CancelGroup
<1>4. ASSUME NEW c \in Clients, Disconnect(c) PROVE Settles
  BY <1>4, MarkDisconnectedSettles DEF Disconnect
<1>5. ASSUME NEW a \in Attempts, RunClientDisconnect(a) PROVE Settles
  <2>1. CASE Client(a) \in online
    BY <1>5, <2>1, AttemptClient, MarkDisconnectedSettles DEF RunClientDisconnect
  <2>2. CASE Client(a) \notin online
    BY <1>5, <2>2 DEF RunClientDisconnect, Settles
  <2> QED
    BY <2>1, <2>2
<1>6. ASSUME NEW a \in Attempts,
             ResolveAuth(a) \/ RunPair(a) \/ RunAccept(a) \/ RunRefuse(a)
      PROVE  Settles
  <2>1. CASE Pending(a) /\ Reject(a)
    BY <2>1, RejectSettles
  <2>2. CASE ~(Pending(a) /\ Reject(a))
    <3>1. UNCHANGED state
      BY <1>6, <2>2
         DEF ResolveAuth, RunPair, RunAccept, RunRefuse, Attach, attemptVars
    <3> QED
      BY <3>1 DEF Settles
  <2> QED
    BY <2>1, <2>2
<1>7. ASSUME NEW a \in Attempts, ConnectionReturns(a) PROVE Settles
  <2>1. CASE Pending(a)
    <3>1. state[a] = "pending" /\ state' = [state EXCEPT ![a] = "connected"]
      BY <1>7, <2>1 DEF ConnectionReturns, Pending
    <3> QED
      BY <3>1 DEF Settles, TypeOK, DataTypeOK
  <2>2. CASE ~Pending(a)
    BY <1>7, <2>2 DEF ConnectionReturns, Settles
  <2> QED
    BY <2>1, <2>2
<1>8. CASE UNCHANGED state
  BY <1>8 DEF Settles
<1>9. ASSUME NEW a \in Attempts,
             \/ CallNext(a) \/ RefuseNext(a) \/ ServerDisconnect(a) \/ DisconnectGroup(a)
             \/ RunConnectError(a) \/ RunTeardown(a) \/ FlushReturns(a)
             \/ RepeatedReturns(a) \/ LeavingReturns(a) \/ DisconnectingReturns(a)
             \/ DisconnectReturns(a) \/ DisconnectInitiator(a)
             \/ \E c \in Clients : DisconnectMember(a, c)
      PROVE  UNCHANGED state
  BY <1>9 DEF CallNext, RefuseNext, ServerDisconnect, DisconnectGroup, RunConnectError,
       RunTeardown, FlushReturns, RepeatedReturns, LeavingReturns, DisconnectingReturns,
       DisconnectReturns, DisconnectInitiator, DisconnectMember, attemptVars
<1>10. ASSUME Close \/ (\E c \in Clients : Emit(c)) \/ UNCHANGED vars
       PROVE  UNCHANGED state
  BY <1>10 DEF Close, CloseFromServer, Emit, attemptVars, vars
<1> QED
  BY <1>1, <1>2, <1>3, <1>4, <1>5, <1>6, <1>7, <1>8, <1>9, <1>10
     DEF Next, AppCall, Microtask, CallbackReturns, GroupStep

\* No step revives a settled attempt, whichever of its paths (acceptance, refusal, the
\* client's cancellation, a group disconnect, a server-side disconnect) comes first:
\* the state checks of completeConnectionAttempt, rejectConnectionAttempt and
\* cancelConnectionAttempt (sockets.ts:610-748) are enough.
THEOREM SettledStaysSettled == Spec => AttemptsSettleOnce
<1>1. PairingInv /\ [Next]_vars =>
        [\A a \in Attempts : state'[a] # state[a] =>
           \/ state[a] = "unused" /\ state'[a] = "pending"
           \/ state[a] = "pending" /\ state'[a] \in {"connected", "rejected", "cancelled"}
           \/ state[a] = "connected" /\ state'[a] = "cancelled"]_vars
  BY NextSettles DEF Settles
<1> QED
  BY <1>1, PairingInvariant, PTL DEF Spec, AttemptsSettleOnce

-----------------------------------------------------------------------------
(* What lies above what on the stack, and which task comes before which.   *)

\* Every two elements of a sequence are related in their order.
Pairwise(q, R) == \A i, j \in DOMAIN q : i < j => <<q[i], q[j]>> \in R

LEMMA PairwisePush ==
  ASSUME NEW S, NEW R, NEW q \in Seq(S), NEW e \in S, Pairwise(q, R),
         \A x \in Elements(q) : <<e, x>> \in R
  PROVE  Pairwise(<<e>> \o q, R)
<1> DEFINE p == <<e>> \o q
<1>1. /\ DOMAIN p = 1..(Len(q) + 1) /\ DOMAIN q = 1..Len(q) /\ Len(q) \in Nat /\ p[1] = e
      /\ \A i \in DOMAIN p : i = 1 \/ (i - 1 \in DOMAIN q /\ p[i] = q[i - 1])
  BY PushFacts
<1> HIDE DEF p
<1> SUFFICES ASSUME NEW i \in DOMAIN p, NEW j \in DOMAIN p, i < j
             PROVE  <<p[i], p[j]>> \in R
  BY DEF Pairwise, p
<1>2. i \in Int /\ j \in Int /\ j # 1 /\ j - 1 \in DOMAIN q /\ p[j] = q[j - 1]
  BY <1>1
<1>3. CASE i = 1
  BY <1>1, <1>2, <1>3 DEF Elements
<1>4. CASE i # 1
  <2>1. i - 1 \in DOMAIN q /\ p[i] = q[i - 1] /\ i - 1 < j - 1
    BY <1>1, <1>2, <1>4
  <2> QED
    BY <1>2, <2>1 DEF Pairwise
<1> QED
  BY <1>3, <1>4

LEMMA PairwiseTail ==
  ASSUME NEW S, NEW R, NEW q \in Seq(S), q # <<>>, Pairwise(q, R)
  PROVE  /\ Pairwise(Tail(q), R)
         /\ \A x \in Elements(Tail(q)) : <<Head(q), x>> \in R
<1> DEFINE p == Tail(q)
<1>1. /\ Head(q) = q[1] /\ DOMAIN p = 1..Len(p) /\ Len(p) \in Nat
      /\ DOMAIN q = 1..Len(q) /\ 1 \in DOMAIN q
      /\ \A i \in DOMAIN p : i + 1 \in DOMAIN q /\ p[i] = q[i + 1]
  BY TailFacts
<1> HIDE DEF p
<1>2. ASSUME NEW i \in DOMAIN p, NEW j \in DOMAIN p, i < j
      PROVE  <<p[i], p[j]>> \in R
  <2>1. i + 1 \in DOMAIN q /\ j + 1 \in DOMAIN q /\ i + 1 < j + 1
    BY <1>1, <1>2
  <2> QED
    BY <1>1, <2>1 DEF Pairwise
<1>3. ASSUME NEW i \in DOMAIN p PROVE <<Head(q), p[i]>> \in R
  <2>1. i + 1 \in DOMAIN q /\ 1 < i + 1
    BY <1>1
  <2> QED
    BY <1>1, <2>1 DEF Pairwise
<1> QED
  BY <1>2, <1>3 DEF Pairwise, Elements, p

LEMMA PushHead ==
  ASSUME NEW S, NEW q \in Seq(S), NEW e \in S
  PROVE  <<e>> \o q \in Seq(S) /\ <<e>> \o q # <<>> /\ Head(<<e>> \o q) = e
OBVIOUS

LEMMA PushTwo ==
  ASSUME NEW S, NEW q \in Seq(S), NEW d \in S, NEW e \in S
  PROVE  <<d, e>> \o q = <<d>> \o (<<e>> \o q)
<1>1. /\ <<d, e>> \o q \in Seq(S) /\ <<e>> \o q \in Seq(S)
      /\ <<d>> \o (<<e>> \o q) \in Seq(S)
  OBVIOUS
<1>2. Len(<<d, e>> \o q) = Len(<<d>> \o (<<e>> \o q))
  OBVIOUS
<1>3. ASSUME NEW i \in 1..Len(<<d, e>> \o q)
      PROVE  (<<d, e>> \o q)[i] = (<<d>> \o (<<e>> \o q))[i]
  OBVIOUS
<1> QED
  BY <1>1, <1>2, <1>3, SeqEqual

LEMMA ConcatFacts ==
  ASSUME NEW S, NEW q \in Seq(S), NEW r \in Seq(S)
  PROVE  /\ DOMAIN q = 1..Len(q) /\ DOMAIN r = 1..Len(r) /\ Len(q) \in Nat /\ Len(r) \in Nat
         /\ DOMAIN (q \o r) = 1..(Len(q) + Len(r))
         /\ \A i \in DOMAIN q : (q \o r)[i] = q[i]
         /\ \A i \in 1..Len(r) : (q \o r)[Len(q) + i] = r[i]
OBVIOUS

LEMMA ConcatPlaces ==
  ASSUME NEW S, NEW q \in Seq(S), NEW r \in Seq(S)
  PROVE  /\ \A i \in DOMAIN (q \o r) :
               \/ i \in DOMAIN q /\ (q \o r)[i] = q[i]
               \/ i > Len(q) /\ i - Len(q) \in DOMAIN r /\ (q \o r)[i] = r[i - Len(q)]
         /\ \A i \in DOMAIN q : i \in DOMAIN (q \o r) /\ (q \o r)[i] = q[i]
         /\ \A i \in DOMAIN r : Len(q) + i \in DOMAIN (q \o r) /\ (q \o r)[Len(q) + i] = r[i]
<1> DEFINE p == q \o r
<1>1. /\ DOMAIN q = 1..Len(q) /\ DOMAIN r = 1..Len(r) /\ Len(q) \in Nat /\ Len(r) \in Nat
      /\ DOMAIN p = 1..(Len(q) + Len(r))
      /\ \A i \in DOMAIN q : p[i] = q[i]
      /\ \A i \in 1..Len(r) : p[Len(q) + i] = r[i]
  BY ConcatFacts
<1> HIDE DEF p
<1>2. ASSUME NEW i \in DOMAIN p, i \notin DOMAIN q
      PROVE  i > Len(q) /\ i - Len(q) \in DOMAIN r /\ p[i] = r[i - Len(q)]
  <2>1. i \in Int /\ i > Len(q) /\ i - Len(q) \in 1..Len(r) /\ i = Len(q) + (i - Len(q))
    BY <1>1, <1>2
  <2> QED
    BY <1>1, <2>1
<1>3. /\ \A i \in DOMAIN q : i \in DOMAIN p
      /\ \A i \in DOMAIN r : Len(q) + i \in DOMAIN p /\ p[Len(q) + i] = r[i]
  BY <1>1
<1>4. \A i \in DOMAIN p :
        \/ i \in DOMAIN q /\ p[i] = q[i]
        \/ i > Len(q) /\ i - Len(q) \in DOMAIN r /\ p[i] = r[i - Len(q)]
  BY <1>1, <1>2
<1> QED
  BY <1>1, <1>3, <1>4 DEF p

LEMMA ConcatElements ==
  ASSUME NEW S, NEW q \in Seq(S), NEW r \in Seq(S)
  PROVE  Elements(q \o r) = Elements(q) \cup Elements(r)
<1> DEFINE p == q \o r
<1>1. /\ \A i \in DOMAIN p : \/ i \in DOMAIN q /\ p[i] = q[i]
                             \/ i - Len(q) \in DOMAIN r /\ p[i] = r[i - Len(q)]
      /\ \A i \in DOMAIN q : i \in DOMAIN p /\ p[i] = q[i]
      /\ \A i \in DOMAIN r : Len(q) + i \in DOMAIN p /\ p[Len(q) + i] = r[i]
  BY ConcatPlaces
<1> HIDE DEF p
<1>2. Elements(p) = Elements(q) \cup Elements(r)
  BY <1>1 DEF Elements
<1> QED
  BY <1>2 DEF p

LEMMA PairwiseConcat ==
  ASSUME NEW S, NEW R, NEW q \in Seq(S), NEW r \in Seq(S), Pairwise(q, R), Pairwise(r, R),
         \A x \in Elements(q), y \in Elements(r) : <<x, y>> \in R
  PROVE  Pairwise(q \o r, R)
<1> DEFINE p == q \o r
<1>1. /\ DOMAIN q = 1..Len(q) /\ DOMAIN r = 1..Len(r) /\ Len(q) \in Nat /\ Len(r) \in Nat
      /\ DOMAIN p = 1..(Len(q) + Len(r))
  BY ConcatFacts
<1>2. \A i \in DOMAIN p :
        \/ i \in DOMAIN q /\ p[i] = q[i]
        \/ i > Len(q) /\ i - Len(q) \in DOMAIN r /\ p[i] = r[i - Len(q)]
  BY ConcatPlaces
<1> HIDE DEF p
<1> SUFFICES ASSUME NEW i \in DOMAIN p, NEW j \in DOMAIN p, i < j
             PROVE  <<p[i], p[j]>> \in R
  BY DEF Pairwise, p
<1>3. CASE j \in DOMAIN q
  <2>1. i \in DOMAIN q /\ p[i] = q[i] /\ p[j] = q[j]
    BY <1>1, <1>2, <1>3
  <2> QED
    BY <1>3, <2>1 DEF Pairwise
<1>4. CASE j \notin DOMAIN q
  <2>1. j - Len(q) \in DOMAIN r /\ p[j] = r[j - Len(q)]
    BY <1>2, <1>4
  <2>2. CASE i \in DOMAIN q
    <3>1. p[i] = q[i]
      BY <1>1, <1>2, <2>2
    <3> QED
      BY <2>1, <2>2, <3>1 DEF Elements
  <2>3. CASE i \notin DOMAIN q
    <3>1. i - Len(q) \in DOMAIN r /\ p[i] = r[i - Len(q)]
      BY <1>2, <2>3
    <3>2. i - Len(q) < j - Len(q)
      BY <1>1
    <3> QED
      BY <2>1, <3>1, <3>2 DEF Pairwise
  <2> QED
    BY <2>2, <2>3
<1> QED
  BY <1>3, <1>4

\* A callback that a microtask calls runs on an empty stack; nothing runs on top of the
\* second stage of a group disconnect.
Bottoms == {"connection", "repeated", "flush", "disconnecting", "disconnect"}
Covers == {p \in Frames \X Frames : p[1].op \notin Bottoms /\ p[2].op # "initiator"}

LEMMA NoFrames ==
  ASSUME stack = <<>>
  PROVE  Elements(stack) = {} /\ Pairwise(stack, Covers)
  BY DEF Elements, Pairwise

\* What is below the head of the stack.
LEMMA BelowHead ==
  ASSUME stack \in Seq(Frames), Pairwise(stack, Covers), stack # <<>>
  PROVE  /\ Head(stack) \in Frames /\ Tail(stack) \in Seq(Frames) /\ Pairwise(Tail(stack), Covers)
         /\ Elements(stack) = {Head(stack)} \cup Elements(Tail(stack))
         /\ \A g \in Elements(Tail(stack)) : g \in Frames /\ g.op # "initiator"
         /\ Head(stack).op \in Bottoms => Elements(Tail(stack)) = {}
<1>1. \A g \in Elements(Tail(stack)) : <<Head(stack), g>> \in Covers
  BY PairwiseTail
<1>2. \A g \in Elements(Tail(stack)) :
        g \in Frames /\ g.op # "initiator" /\ Head(stack).op \notin Bottoms
  BY <1>1 DEF Covers
<1>3. Elements(stack) = {Head(stack)} \cup Elements(Tail(stack))
  BY TailElements
<1> QED
  BY <1>2, <1>3, TailFacts, PairwiseTail

LEMMA Pushed ==
  ASSUME stack \in Seq(Frames), Pairwise(stack, Covers), NEW f \in Frames, Push(f),
         f.op # "initiator", stack = <<>> \/ (InApp /\ f.op \notin Bottoms)
  PROVE  /\ Elements(stack') = {f} \cup Elements(stack) /\ Pairwise(stack', Covers)
         /\ stack' # <<>> /\ Head(stack') = f
<1>1. \A g \in Elements(stack) : <<f, g>> \in Covers
  <2>1. CASE stack = <<>>
    BY <2>1, NoFrames
  <2>2. CASE stack # <<>> /\ InApp /\ f.op \notin Bottoms
    <3>1. Head(stack).op # "initiator"
      BY <2>2 DEF InApp, Windows
    <3>2. \A g \in Elements(stack) : g \in Frames /\ g.op # "initiator"
      BY <2>2, <3>1, BelowHead
    <3> QED
      BY <2>2, <3>2 DEF Covers
  <2> QED
    BY <2>1, <2>2
<1> QED
  BY <1>1, PairwisePush, PushElements, PushFacts DEF Push

LEMMA Popped ==
  ASSUME stack \in Seq(Frames), Pairwise(stack, Covers), stack # <<>>, Pop
  PROVE  /\ Elements(stack) = {Head(stack)} \cup Elements(stack') /\ Pairwise(stack', Covers)
         /\ stack' # <<>> => Head(stack').op # "initiator"
         /\ Head(stack).op \in Bottoms => Elements(stack') = {}
<1>1. stack' # <<>> => Head(stack') \in Elements(stack')
  BY TailElements, BelowHead DEF Pop
<1> QED
  BY <1>1, BelowHead DEF Pop

LEMMA Continued ==
  ASSUME stack \in Seq(Frames), Pairwise(stack, Covers), stack # <<>>, NEW f \in Frames,
         Continue(f), f.op \in Bottoms => Head(stack).op \in Bottoms
  PROVE  /\ Elements(stack) = {Head(stack)} \cup Elements(Tail(stack))
         /\ Elements(stack') = {f} \cup Elements(Tail(stack)) /\ Pairwise(stack', Covers)
         /\ stack' # <<>> /\ Head(stack') = f
         /\ Head(stack).op \in Bottoms => Elements(Tail(stack)) = {}
<1>1. \A g \in Elements(Tail(stack)) : <<f, g>> \in Covers
  BY BelowHead DEF Covers
<1>2. /\ Tail(stack) \in Seq(Frames) /\ Pairwise(Tail(stack), Covers)
      /\ stack' = <<f>> \o Tail(stack)
  BY BelowHead DEF Continue
<1>3. Elements(stack') = {f} \cup Elements(Tail(stack))
  BY <1>2, PushElements
<1>5. stack' # <<>> /\ Head(stack') = f
  BY <1>2
<1>4. Pairwise(stack', Covers)
  BY <1>1, <1>2, PairwisePush
<1> QED
  BY <1>3, <1>4, <1>5, BelowHead

-----------------------------------------------------------------------------
(* A group leaves together.                                                *)

\* Every client of the group that is connected is still to be disconnected or already is.
GroupFrameOk(f) ==
  f.op = "group" => \A c \in Group(f.of) : c \in online => c \in f.todo \/ socket[c] \in torn

\* A client only comes to be connected when nothing is on top of its `connection`
\* callback, and that callback is at the bottom of the stack: no client joins a group
\* whose disconnect has begun.
GroupInv ==
  /\ Pairwise(stack, Covers)
  /\ \A f \in Elements(stack) : GroupFrameOk(f)
  /\ GroupIsLeaving

\* Most steps leave the clients' sockets alone, connect nobody and begin no second stage.
LEMMA QuietGroups ==
  ASSUME PairingInv, GroupInv, UNCHANGED socket, online' \subseteq online, torn \subseteq torn'
  PROVE  /\ \A f \in Frames : GroupFrameOk(f) => GroupFrameOk(f)'
         /\ UNCHANGED stack /\ stack = <<>> => GroupInv'
         /\ UNCHANGED stack /\ InApp => GroupInv'
         /\ stack # <<>> /\ Pop => GroupInv'
         /\ \A f \in Frames : Push(f) /\ f.op \notin Loops /\ stack = <<>> => GroupInv'
         /\ \A f \in Frames : Push(f) /\ f.op \notin Loops \cup Bottoms /\ InApp => GroupInv'
         /\ \A f \in Frames :
              /\ stack # <<>> /\ Continue(f) /\ f.op \notin Loops
              /\ f.op \in Bottoms => Head(stack).op \in Bottoms
              => GroupInv'
<1>0. stack \in Seq(Frames) /\ Pairwise(stack, Covers)
  BY DEF PairingInv, TypeOK, GroupInv
<1>1. \A f : GroupFrameOk(f) => GroupFrameOk(f)'
  BY DEF GroupFrameOk, Group
<1>2. \A f \in Elements(stack) : GroupFrameOk(f)'
  BY <1>1 DEF GroupInv
<1>3. ASSUME UNCHANGED stack, stack = <<>> \/ InApp PROVE GroupInv'
  <2>1. stack' # <<>> => Head(stack').op # "initiator"
    BY <1>3 DEF InApp, Windows
  <2>2. Pairwise(stack', Covers) /\ \A f \in Elements(stack') : GroupFrameOk(f)'
    BY <1>0, <1>2, <1>3
  <2> QED
    BY <2>1, <2>2 DEF GroupInv, GroupIsLeaving
<1>4. ASSUME stack # <<>>, Pop PROVE GroupInv'
  BY <1>0, <1>2, <1>4, Popped DEF GroupInv, GroupIsLeaving
<1>5. ASSUME NEW f \in Frames, Push(f), f.op \notin Loops,
             stack = <<>> \/ (InApp /\ f.op \notin Bottoms)
      PROVE  GroupInv'
  <2>1. GroupFrameOk(f)' /\ f.op # "initiator"
    BY <1>5 DEF Loops, GroupFrameOk
  <2>2. /\ Elements(stack') = {f} \cup Elements(stack) /\ Pairwise(stack', Covers)
        /\ stack' # <<>> /\ Head(stack') = f
    BY <1>0, <1>5, <2>1, Pushed
  <2> QED
    BY <1>2, <2>1, <2>2 DEF GroupInv, GroupIsLeaving
<1>6. ASSUME NEW f \in Frames, stack # <<>>, Continue(f), f.op \notin Loops,
             f.op \in Bottoms => Head(stack).op \in Bottoms
      PROVE  GroupInv'
  <2>1. GroupFrameOk(f)' /\ f.op # "initiator"
    BY <1>6 DEF Loops, GroupFrameOk
  <2>2. /\ Elements(stack) = {Head(stack)} \cup Elements(Tail(stack))
        /\ Elements(stack') = {f} \cup Elements(Tail(stack)) /\ Pairwise(stack', Covers)
        /\ stack' # <<>> /\ Head(stack') = f
    BY <1>0, <1>6, Continued
  <2> QED
    BY <1>2, <2>1, <2>2 DEF GroupInv, GroupIsLeaving
<1> QED
  BY <1>1, <1>3, <1>4, <1>5, <1>6

\* The windows the actions open.
LEMMA WindowFrame ==
  ASSUME NEW a \in Attempts, NEW op \in Windows
  PROVE  Window(op, a) \in Frames /\ Window(op, a).op = op /\ Window(op, a).of = a
  BY DEF Window, Frame, Frames

LEMMA WindowOps ==
  /\ \A op \in {"leaving", "syncDisconnecting", "syncDisconnect"} :
       op \in Windows /\ op \notin Loops \cup Bottoms
  /\ \A op \in {"connection", "repeated", "flush", "disconnecting", "disconnect"} :
       op \in Windows /\ op \notin Loops /\ op \in Bottoms
  BY DEF Windows, Loops, Bottoms

LEMMA GroupDisconnects ==
  ASSUME PairingInv, GroupInv, NEW a \in Attempts, DisconnectGroup(a)
  PROVE  GroupInv'
<1> PICK f : f = Frame("group", a, Group(a) \cap connectedClients, 0)
  OBVIOUS
<1>1. f \in Frames /\ f.op = "group" /\ f.of = a /\ f.todo = Group(a) \cap connectedClients
  BY DEF Frame, Frames, Loops, Group
<1>2. Push(f) /\ InApp /\ UNCHANGED <<socket, online, torn>>
  BY DEF DisconnectGroup, clientVars, serverVars
<1>3. GroupFrameOk(f)'
  BY <1>1, <1>2 DEF GroupFrameOk, Group, PairingInv, ManagerKnowsGroup
<1>4. f.op # "initiator" /\ f.op \notin Bottoms
  BY <1>1 DEF Bottoms
<1>5. /\ Elements(stack') = {f} \cup Elements(stack) /\ Pairwise(stack', Covers)
      /\ stack' # <<>> /\ Head(stack') = f
  BY <1>1, <1>2, <1>4, Pushed DEF PairingInv, TypeOK, GroupInv
<1>6. \A g \in Elements(stack) : GroupFrameOk(g)'
  BY <1>2 DEF GroupInv, GroupFrameOk, Group
<1> QED
  BY <1>3, <1>4, <1>5, <1>6 DEF GroupInv, GroupIsLeaving

LEMMA MemberLeaves ==
  ASSUME PairingInv, GroupInv, NEW a \in Attempts, NEW c \in Clients, DisconnectMember(a, c)
  PROVE  GroupInv'
<1> PICK rest : rest = [Head(stack) EXCEPT !.todo = @ \ {c}]
  OBVIOUS
<1>1. stack # <<>> /\ Head(stack).op = "group" /\ stack \in Seq(Frames) /\ Pairwise(stack, Covers)
  BY DEF DisconnectMember, Top, PairingInv, TypeOK, GroupInv
<1>2. Head(stack) \in Frames /\ Elements(stack) = {Head(stack)} \cup Elements(Tail(stack))
  BY <1>1, BelowHead
<1>3. /\ rest \in Frames /\ rest.op = "group" /\ rest.of = Head(stack).of
      /\ rest.todo = Head(stack).todo \ {c}
  BY <1>1, <1>2 DEF Frames
<1>4. UNCHANGED <<socket, online>> /\ torn \subseteq torn'
  BY DEF DisconnectMember, clientVars, BeginTeardown
<1>5. c \in online => socket[c] \in torn'
  BY DEF DisconnectMember, BeginTeardown
<1>6. \A f : GroupFrameOk(f) => GroupFrameOk(f)'
  BY <1>4 DEF GroupFrameOk, Group
<1>7. GroupFrameOk(Head(stack))
  BY <1>2 DEF GroupInv
<1>8. GroupFrameOk(rest)'
  BY <1>1, <1>3, <1>4, <1>5, <1>7 DEF GroupFrameOk, Group
<1>9. \A g \in Elements(Tail(stack)) : <<rest, g>> \in Covers
  BY <1>1, <1>3, BelowHead DEF Covers, Bottoms
<1>0. PICK below : below = <<rest>> \o Tail(stack)
  OBVIOUS
<1>10. /\ below \in Seq(Frames) /\ Pairwise(below, Covers) /\ below # <<>> /\ Head(below) = rest
       /\ Elements(below) = {rest} \cup Elements(Tail(stack))
  <2>1. Tail(stack) \in Seq(Frames) /\ Pairwise(Tail(stack), Covers) /\ rest \in Frames
    BY <1>1, <1>3, BelowHead
  <2>2. Pairwise(below, Covers)
    BY <1>0, <1>9, <2>1, PairwisePush
  <2>3. Elements(below) = {rest} \cup Elements(Tail(stack))
    BY <1>0, <2>1, PushElements
  <2>4. below \in Seq(Frames) /\ below # <<>> /\ Head(below) = rest
    BY <1>0, <2>1, PushHead
  <2> QED
    BY <2>2, <2>3, <2>4
<1>11. \A g \in Elements(below) : GroupFrameOk(g)' /\ g \in Frames /\ g.op # "initiator"
  BY <1>1, <1>2, <1>3, <1>6, <1>8, <1>10, BelowHead DEF GroupInv
<1>12. CASE c \in online /\ socket[c] \notin torn
  <2>0. PICK w : w = Window("syncDisconnecting", socket[c])
    OBVIOUS
  <2>1. socket[c] \in Attempts
    BY <1>12, PairingAssumption DEF PairingInv, ConnectedOwnsAttempt, TypeOK, DataTypeOK
  <2>2. w \in Frames /\ w.op = "syncDisconnecting"
    BY <2>0, <2>1, WindowFrame, WindowOps
  <2>3. stack' = <<w>> \o below
    <3>1. stack' = <<w, rest>> \o Tail(stack)
      BY <1>12, <2>0 DEF DisconnectMember
    <3>2. Tail(stack) \in Seq(Frames)
      BY <1>1, BelowHead
    <3>3. w \in Frames /\ rest \in Frames
      BY <1>3, <2>2
    <3>4. <<w, rest>> \o Tail(stack) = <<w>> \o (<<rest>> \o Tail(stack))
      BY <3>2, <3>3, PushTwo
    <3> QED
      BY <1>0, <3>1, <3>4
  <2>4. \A g \in Elements(below) : <<w, g>> \in Covers
    BY <1>11, <2>2 DEF Covers, Bottoms
  <2>5. /\ Pairwise(stack', Covers) /\ stack' # <<>> /\ Head(stack') = w
        /\ Elements(stack') = {w} \cup Elements(below)
    <3>1. Pairwise(stack', Covers)
      BY <1>10, <2>2, <2>3, <2>4, PairwisePush
    <3>2. Elements(stack') = {w} \cup Elements(below)
      <4>1. w \in Frames /\ below \in Seq(Frames)
        BY <1>10, <2>2
      <4>2. Elements(<<w>> \o below) = {w} \cup Elements(below)
        BY <4>1, PushElements
      <4> QED
        BY <2>3, <4>2
    <3>3. stack' # <<>> /\ Head(stack') = w
      BY <1>10, <2>2, <2>3, PushHead
    <3> QED
      BY <3>1, <3>2, <3>3
  <2>6. GroupFrameOk(w)'
    BY <2>2 DEF GroupFrameOk
  <2> QED
    BY <1>11, <2>2, <2>5, <2>6 DEF GroupInv, GroupIsLeaving
<1>13. CASE ~(c \in online /\ socket[c] \notin torn)
  <2>1. stack' = below
    BY <1>0, <1>13 DEF DisconnectMember, Continue
  <2> QED
    BY <1>3, <1>10, <1>11, <2>1 DEF GroupInv, GroupIsLeaving
<1> QED
  BY <1>12, <1>13

LEMMA GroupIsCancelled ==
  ASSUME PairingInv, GroupInv, NEW a \in Attempts, CancelGroup(a)
  PROVE  GroupInv'
<1> DEFINE f == Window("initiator", a)
           C == {c \in Group(a) \cap pendingClients : ~Owns(c, a)}
           mine == {attempt[c] : c \in C}
<1>1. /\ stack # <<>> /\ Head(stack).op = "group" /\ Head(stack).of = a /\ Head(stack).todo = {}
      /\ stack \in Seq(Frames) /\ Pairwise(stack, Covers)
  BY DEF CancelGroup, Top, PairingInv, TypeOK, GroupInv
<1>2. f \in Frames /\ f.op = "initiator" /\ f.of = a /\ f.op \notin Bottoms
  BY DEF Window, Frame, Frames, Loops, Bottoms
<1>3. Continue(f) /\ Cancel(C) /\ UNCHANGED <<socket, online, torn, attached>>
  BY DEF CancelGroup, Cancel, Discard
<1>4. /\ state' = [b \in Attempts |-> IF b \in mine THEN "cancelled" ELSE state[b]]
      /\ attempt' = [c \in Clients |-> IF c \in C THEN None ELSE attempt[c]]
      /\ active' = active \ (mine \cap attached)
  BY <1>3 DEF Cancel, Discard
<1>5. \A c \in Clients : c \in pendingClients <=> attempt[c] # None /\ state[attempt[c]] = "pending"
  BY DEF PairingInv, ManagerKnowsGroup
<1>6. \A c \in Group(a) : c \in online => socket[c] \in torn
  <2>1. GroupFrameOk(Head(stack))
    BY <1>1, BelowHead DEF GroupInv
  <2> QED
    BY <1>1, <2>1 DEF GroupFrameOk
<1>7. \A c \in C : c \in Clients /\ Client(attempt[c]) = c
  BY <1>5 DEF Group, PairingInv, AttemptsKept
<1>8. ASSUME NEW c \in Group(a), attempt'[c] # None, state'[attempt'[c]] = "pending"
      PROVE  Owns(c, a)'
  <2>1. c \in Clients /\ c \notin C /\ attempt'[c] = attempt[c] /\ attempt[c] \in Attempts
    BY <1>4, <1>8 DEF Group, PairingInv, TypeOK, DataTypeOK
  <2>2. attempt[c] \notin mine /\ state[attempt[c]] = "pending"
    BY <1>4, <1>8, <2>1
  <2>3. c \in pendingClients /\ Owns(c, a)
    BY <1>5, <1>8, <2>1, <2>2
  <2>4. attempt[c] = a
    BY <2>1, <2>2, <2>3 DEF Owns, PairingInv, ConnectedOwnsAttempt
  <2>5. a \in active'
    BY <1>4, <2>2, <2>3, <2>4 DEF Owns
  <2>6. a \in attached
    BY <2>2, <2>3, <2>4 DEF Owns, PairingInv, ConnectedOwnsAttempt
  <2> QED
    BY <1>3, <1>8, <2>1, <2>4, <2>5, <2>6 DEF Owns
<1> HIDE DEF f, C, mine
<1>9. /\ Elements(stack) = {Head(stack)} \cup Elements(Tail(stack))
      /\ Elements(stack') = {f} \cup Elements(Tail(stack)) /\ Pairwise(stack', Covers)
      /\ stack' # <<>> /\ Head(stack') = f
  BY <1>1, <1>2, <1>3, Continued
<1>10. \A g \in Elements(stack') : GroupFrameOk(g)'
  BY <1>2, <1>3, <1>9 DEF GroupInv, GroupFrameOk, Group
<1>11. GroupIsLeaving'
  BY <1>2, <1>3, <1>6, <1>8, <1>9 DEF GroupIsLeaving, Group
<1> QED
  BY <1>9, <1>10, <1>11 DEF GroupInv

LEMMA ConnectionCompletes ==
  ASSUME PairingInv, GroupInv, NEW a \in Attempts, ConnectionReturns(a)
  PROVE  GroupInv'
<1>1. /\ stack # <<>> /\ Head(stack).op \in Bottoms
      /\ stack \in Seq(Frames) /\ Pairwise(stack, Covers)
  BY DEF ConnectionReturns, Top, Bottoms, PairingInv, TypeOK, GroupInv
<1> PICK f : f = Frame("flush", a, {}, buffered[Client(a)])
  OBVIOUS
<1>2. f \in Frames /\ f.op = "flush"
  BY AttemptClient DEF Frame, Frames, Windows, PairingInv, TypeOK, DataTypeOK
<1>3. Pop \/ Continue(f)
  BY DEF ConnectionReturns
<1>4. CASE Pop
  BY <1>1, <1>4, Popped DEF GroupInv, GroupIsLeaving
<1>5. CASE Continue(f)
  <2>1. Elements(stack') = {f} /\ Pairwise(stack', Covers) /\ stack' # <<>> /\ Head(stack') = f
    BY <1>1, <1>2, <1>5, Continued
  <2>2. GroupFrameOk(f)'
    BY <1>2 DEF GroupFrameOk
  <2> QED
    BY <1>2, <2>1, <2>2 DEF GroupInv, GroupIsLeaving
<1> QED
  BY <1>3, <1>4, <1>5

LEMMA GroupsKept ==
  ASSUME PairingInv, GroupInv, [Next]_vars
  PROVE  GroupInv'
<1> USE DEF clientVars, attemptVars, serverVars
<1>1. ASSUME NEW c \in Clients,
             Connect(c) \/ Emit(c) \/ CancelAttempt(c)
      PROVE  GroupInv'
  BY <1>1, QuietGroups DEF Connect, Emit, CancelAttempt, Cancel, Discard
<1>2. ASSUME NEW c \in Clients, Disconnect(c) PROVE GroupInv'
  <2>1. socket[c] \in Attempts
    BY <1>2, PairingAssumption DEF Disconnect, PairingInv, ConnectedOwnsAttempt, TypeOK, DataTypeOK
  <2> QED
    BY <1>2, <2>1, WindowFrame, WindowOps, QuietGroups DEF Disconnect, MarkDisconnected
<1>3. ASSUME NEW a \in Attempts, ResolveAuth(a) \/ CallNext(a) \/ RefuseNext(a)
      PROVE  GroupInv'
  BY <1>3, QuietGroups DEF ResolveAuth, CallNext, RefuseNext, Reject, Attach, Discard
<1>4. ASSUME NEW a \in Attempts, ServerDisconnect(a) PROVE GroupInv'
  BY <1>4, WindowFrame, WindowOps, QuietGroups DEF ServerDisconnect, BeginTeardown
<1>5. ASSUME NEW a \in Attempts, DisconnectGroup(a) PROVE GroupInv'
  BY <1>5, GroupDisconnects
<1>6. ASSUME Close PROVE GroupInv'
  BY <1>6, QuietGroups DEF Close, CloseFromServer
<1>7. ASSUME NEW a \in Attempts, RunPair(a) \/ RunRefuse(a) \/ RunConnectError(a)
      PROVE  GroupInv'
  <2>1. UNCHANGED <<stack, socket, online>> /\ stack = <<>> /\ torn \subseteq torn'
    BY <1>7 DEF RunPair, RunRefuse, RunConnectError, Due, Reject, Attach, Discard
  <2> QED
    BY <2>1, QuietGroups
<1>8. ASSUME NEW a \in Attempts, RunClientDisconnect(a) PROVE GroupInv'
  <2>1. UNCHANGED <<stack, socket, torn>> /\ stack = <<>> /\ online' \subseteq online
    BY <1>8 DEF RunClientDisconnect, Due, MarkDisconnected
  <2> QED
    BY <2>1, QuietGroups
<1>9. ASSUME NEW a \in Attempts, RunAccept(a) PROVE GroupInv'
  <2>1. UNCHANGED <<socket, online, torn>> /\ stack = <<>>
    BY <1>9 DEF RunAccept, Due, Reject, Discard
  <2>2. UNCHANGED stack \/ Push(Window("connection", a)) \/ Push(Window("repeated", a))
    BY <1>9 DEF RunAccept
  <2> QED
    BY <2>1, <2>2, WindowFrame, WindowOps, QuietGroups
<1>10. ASSUME NEW a \in Attempts, RunTeardown(a) PROVE GroupInv'
  <2>1. UNCHANGED <<socket, online, torn>> /\ stack = <<>> /\ Push(Window("disconnecting", a))
    BY <1>10 DEF RunTeardown, Due
  <2> QED
    BY <2>1, WindowFrame, WindowOps, QuietGroups
<1>11. ASSUME NEW a \in Attempts, ConnectionReturns(a) PROVE GroupInv'
  BY <1>11, ConnectionCompletes
<1>12. ASSUME NEW a \in Attempts, FlushReturns(a) PROVE GroupInv'
  <2>1. UNCHANGED <<socket, online, torn>> /\ stack # <<>> /\ Head(stack).op = "flush"
    BY <1>12 DEF FlushReturns, Top
  <2>2. Head(stack) \in Frames
    BY <2>1, BelowHead DEF PairingInv, TypeOK, GroupInv
  <2>3. CASE Pop
    BY <2>1, <2>3, QuietGroups
  <2>4. CASE Head(stack).left > 1 /\ Continue(Frame("flush", a, {}, Head(stack).left - 1))
    <3> DEFINE f == Frame("flush", a, {}, Head(stack).left - 1)
    <3>1. f \in Frames /\ f.op = "flush"
      BY <2>2, <2>4 DEF Frame, Frames, Windows
    <3> HIDE DEF f
    <3>2. Continue(f)
      BY <2>4 DEF f
    <3> QED
      BY <2>1, <3>1, <3>2, WindowOps, QuietGroups
  <2> QED
    BY <1>12, <2>3, <2>4 DEF FlushReturns
<1>13. ASSUME NEW a \in Attempts, RepeatedReturns(a) \/ LeavingReturns(a) \/ DisconnectReturns(a)
       PROVE  GroupInv'
  <2>1. UNCHANGED <<socket, online>> /\ stack # <<>> /\ Pop /\ torn \subseteq torn'
    BY <1>13 DEF RepeatedReturns, LeavingReturns, DisconnectReturns, Top
  <2> QED
    BY <2>1, QuietGroups
<1>14. ASSUME NEW a \in Attempts, DisconnectingReturns(a) PROVE GroupInv'
  <2>1. UNCHANGED <<socket, online, torn>> /\ stack # <<>>
    BY <1>14 DEF DisconnectingReturns, Top
  <2>2. \/ Head(stack).op = "disconnecting" /\ Continue(Window("disconnect", a))
        \/ Continue(Window("syncDisconnect", a))
    BY <1>14 DEF DisconnectingReturns, Top
  <2> QED
    BY <2>1, <2>2, WindowFrame, WindowOps, QuietGroups
<1>15. ASSUME NEW a \in Attempts, NEW c \in Clients, DisconnectMember(a, c) PROVE GroupInv'
  BY <1>15, MemberLeaves
<1>16. ASSUME NEW a \in Attempts, CancelGroup(a) PROVE GroupInv'
  BY <1>16, GroupIsCancelled
<1>17. ASSUME NEW a \in Attempts, DisconnectInitiator(a) PROVE GroupInv'
  <2>1. UNCHANGED <<socket, online>> /\ stack # <<>> /\ torn \subseteq torn'
    BY <1>17 DEF DisconnectInitiator, BeginTeardown, Top
  <2>2. Pop \/ Continue(Window("syncDisconnecting", a))
    BY <1>17 DEF DisconnectInitiator
  <2> QED
    BY <2>1, <2>2, WindowFrame, WindowOps, QuietGroups
<1>18. ASSUME UNCHANGED vars PROVE GroupInv'
  <2>1. UNCHANGED <<stack, online, socket, torn, attempt, state, active, attached>>
    BY <1>18 DEF vars
  <2> QED
    BY <2>1 DEF GroupInv, GroupFrameOk, GroupIsLeaving, Owns
<1> QED
  BY <1>1, <1>2, <1>3, <1>4, <1>5, <1>6, <1>7, <1>8, <1>9, <1>10, <1>11, <1>12, <1>13,
     <1>14, <1>15, <1>16, <1>17, <1>18 DEF Next, AppCall, Microtask, CallbackReturns, GroupStep

\* `disconnect(true)` takes the snapshot of its group once and calls listeners while it
\* works through it (manager.ts): whatever they do, the initiator leaves last, with every
\* other client of the group gone.
THEOREM GroupLeavesTogether == Spec => []GroupIsLeaving
<1>1. Init => GroupInv
  BY NoFrames DEF Init, GroupInv, GroupIsLeaving
<1>2. PairingInv /\ GroupInv /\ [Next]_vars => GroupInv'
  BY GroupsKept
<1>3. GroupInv => GroupIsLeaving
  BY DEF GroupInv
<1> QED
  BY <1>1, <1>2, <1>3, PairingInvariant, PTL DEF Spec

-----------------------------------------------------------------------------
(* Client, Manager and server agree: the invariant.                        *)

\* The application calls `next` once for each attempt, and disconnects a server Socket
\* only between its `connection` and the end of its membership.
Disciplined == MaxNext = 1 /\ ~EarlyDisconnect /\ ~StaleDisconnect

Newer(b, a) == Client(b) = Client(a) /\ b[2] > a[2]
Live(a) == attempt[Client(a)] = a
Queued(op, a) == [op |-> op, of |-> a] \in Elements(microtasks)
Held(op, a) == \E f \in Elements(stack) : f.op = op /\ f.of = a

\* Which task may stand before which.  An attempt has one task of a kind, and one of the
\* two in which its middleware ends; and the end of a connection precedes the acceptance
\* of a later one.
Completions == {"accept", "refuse"}
Leaves == {"clientLeave", "clientClose"}
MayPrecede(s, t) ==
  /\ s.of = t.of => /\ s.op = t.op => s.op \in Leaves
                    /\ ~(s.op \in Completions /\ t.op \in Completions)
  /\ s.op = "accept" /\ t.op \in {"teardown", "clientLeave"} => ~Newer(s.of, t.of)
Precedes == {p \in Tasks \X Tasks : MayPrecede(p[1], p[2])}

\* A Socket is told once that it is disconnecting.
Teardowns == {"syncDisconnecting", "disconnecting"}
Apart == {p \in Frames \X Frames :
            p[1].op \in Teardowns /\ p[2].op \in Teardowns => p[1].of # p[2].of}

\* No attempt that the client began after a has come to the server, or was accepted there.
Latest(a) == \A b \in Attempts : Newer(b, a) => b \notin attached /\ b \notin authing
OnlyHeard(a) == \A b \in Attempts : Newer(b, a) => told[b] = "nothing"

TaskOk(t) ==
  /\ t.op = "pair" => t.of \notin attached /\ t.of \notin authing /\ state[t.of] # "unused"
  /\ t.op \in Completions => nexts[t.of] >= 1 /\ told[t.of] = "nothing"
  /\ t.op = "connectError" => state[t.of] = "rejected" /\ heard[t.of] = "nothing"
  /\ t.op = "teardown" => /\ t.of \in torn /\ told[t.of] = "connection"
                          /\ Live(t.of) => t.of \in closing
  /\ t.op \in Leaves => t.of \in torn /\ t.of \in cleaned /\ OnlyHeard(t.of)
  /\ t.op = "clientClose" => closed

\* What the server's callers know of a Socket while they call the application.
Callers == {"leaving", "syncDisconnecting", "syncDisconnect", "group", "initiator"}
FrameOk(f) ==
  /\ f.op # "repeated"
  /\ f.op \in Callers => Latest(f.of) /\ told[f.of] # "nothing"
  /\ f.op = "leaving" => ~Live(f.of) /\ socket[Client(f.of)] = f.of
  /\ f.op \in Teardowns => f.of \in torn /\ told[f.of] = "disconnecting"
  /\ f.op \in {"syncDisconnect", "disconnect"} =>
       f.of \in torn /\ f.of \in cleaned /\ told[f.of] = "disconnect"
  /\ f.op \in {"disconnecting", "disconnect"} /\ Live(f.of) => f.of \in closing
  /\ f.op = "connection" => told[f.of] # "nothing" /\ state[f.of] # "connected"
  /\ f.op = "flush" /\ state[f.of] = "connected" => heard[f.of] = "nothing"

\* An attempt that its client refers to is the last that it began.
NumbersOk ==
  /\ \A c \in Clients : attempt[c] # None => attempt[c][2] = begun[c]
  /\ \A a \in Attempts : state[a] = "unused" => a \notin attached /\ a \notin authing

\* What the application was told of an attempt, against what the server did with it.
AttemptOk(a) ==
  /\ told[a] # "nothing" => a \in attached /\ nexts[a] >= 1 /\ (a \in roster \/ a \in cleaned)
  /\ told[a] = "nothing" => a \notin roster /\ a \notin torn /\ (a \in cleaned => ~Live(a))
  /\ a \in cleaned => a \in attached
  /\ state[a] = "connected" => told[a] # "nothing"
  /\ told[a] \in {"disconnecting", "disconnect"} => a \in torn
  /\ a \in attached /\ a \notin torn /\ a \notin cleaned => a \in active
HeardOk(a) ==
  /\ state[a] \in {"unused", "pending"} => heard[a] = "nothing"
  /\ state[a] = "connected" => heard[a] \in {"nothing", "connect"}

\* What ends the membership of a Socket whose teardown has begun, and what ends the
\* connection of a client that is on a Socket without membership.
Ending(a) == \/ Queued("teardown", a)
             \/ Held("syncDisconnecting", a) \/ Held("disconnecting", a)
Telling(a) == \/ Held("syncDisconnect", a) \/ Held("disconnect", a)
              \/ Queued("clientLeave", a) \/ Queued("clientClose", a)

\* A Socket of the roster is in its id-room and is the last one accepted; its teardown is
\* under way or has not begun.
RosterOk(a) ==
  a \in roster =>
    /\ a \notin cleaned /\ a \in srvConnected /\ a \in idRoom /\ OnlyHeard(a)
    /\ a \in torn => Ending(a)
    /\ a \notin torn => (Live(a) \/ Held("leaving", a)) /\ ~closed

\* A client that is on a Socket without membership is about to learn of it.
LiveOk(a) ==
  Live(a) => /\ a \in cleaned => Telling(a)
             /\ state[a] = "pending" /\ told[a] # "nothing" => Held("connection", a)

ClosingOk == \A a \in closing : closed /\ OnlyHeard(a)

AttemptsOk == \A a \in Attempts : AttemptOk(a) /\ HeardOk(a)
MembersOk == \A a \in Attempts : RosterOk(a) /\ LiveOk(a)
QueueOk == Pairwise(microtasks, Precedes) /\ \A t \in Elements(microtasks) : TaskOk(t)
StackOk == Pairwise(stack, Apart) /\ \A f \in Elements(stack) : FrameOk(f)

RosterInv == NumbersOk /\ ClosingOk /\ AttemptsOk /\ MembersOk /\ QueueOk /\ StackOk

\* What every step of a disciplined application starts from.
Known == Disciplined /\ PairingInv /\ GroupInv /\ RosterInv

-----------------------------------------------------------------------------
(* Attempts of one client.                                                 *)

LEMMA NewerFacts ==
  ASSUME NEW a \in Attempts, NEW b \in Attempts, Client(a) = Client(b)
  PROVE  a = b \/ Newer(a, b) \/ Newer(b, a)
<1>1. /\ a = <<a[1], a[2]>> /\ b = <<b[1], b[2]>> /\ a[2] \in Int /\ b[2] \in Int
      /\ a[1] = b[1]
  BY Bounds DEF Attempts, Client
<1> QED
  BY <1>1 DEF Newer

LEMMA LiveFacts ==
  ASSUME PairingInv, NEW a \in Attempts
  PROVE  /\ Live(a) => /\ state[a] \in {"pending", "connected"}
                       /\ state[a] = "connected" => Established(a)
                       /\ state[a] = "pending" => Pending(a)
         /\ state[a] = "connected" => Live(a) /\ Established(a)
         /\ Pending(a) <=> Live(a) /\ state[a] = "pending"
         /\ Established(a) => Live(a) /\ state[a] = "connected"
         /\ Live(a) /\ Client(a) \in online => Established(a)
<1>1. /\ Client(a) \in Clients /\ a # None
      /\ state[a] = "connected" => Established(a)
      /\ Client(a) \in online => /\ state[attempt[Client(a)]] = "connected"
                                 /\ attempt[Client(a)] # None
                                 /\ socket[Client(a)] = attempt[Client(a)]
  BY AttemptClient, PairingAssumption DEF PairingInv, ConnectedOwnsAttempt
<1>2. Live(a) => state[a] \in {"pending", "connected"}
  BY <1>1 DEF Live, PairingInv, AttemptsKept
<1> QED
  BY <1>1, <1>2 DEF Live, Pending, Established

\* The attempt that the client refers to is the last that came to the server.
LEMMA LiveIsLatest ==
  ASSUME PairingInv, NumbersOk, NEW a \in Attempts, Live(a)
  PROVE  Latest(a)
<1> SUFFICES ASSUME NEW b \in Attempts, Newer(b, a)
             PROVE  b \notin attached /\ b \notin authing
  BY DEF Latest
<1>1. Client(a) \in Clients /\ Client(b) = Client(a) /\ b[2] > a[2] /\ a # None
  BY AttemptClient, PairingAssumption DEF Newer
<1>2. a[2] = begun[Client(b)]
  BY <1>1 DEF Live, NumbersOk
<1>3. state[b] = "unused"
  BY <1>1, <1>2 DEF PairingInv, AttemptsKept
<1> QED
  BY <1>3 DEF NumbersOk

LEMMA LatestOnlyHeard ==
  ASSUME AttemptsOk, NEW a \in Attempts, Latest(a)
  PROVE  OnlyHeard(a)
BY DEF AttemptsOk, AttemptOk, Latest, OnlyHeard

-----------------------------------------------------------------------------
(* Queue and stack.                                                        *)

LEMMA TaskElements ==
  ASSUME NEW op \in TaskOps, NEW a \in Attempts
  PROVE  /\ Task(op, a) \in Seq(Tasks) /\ Elements(Task(op, a)) = {[op |-> op, of |-> a]}
         /\ Pairwise(Task(op, a), Precedes)
         /\ <<>> \in Seq(Tasks) /\ Elements(<<>>) = {} /\ Pairwise(<<>>, Precedes)
<1> PICK t : t = [op |-> op, of |-> a]
  OBVIOUS
<1>1. t \in Tasks /\ Task(op, a) = <<t>>
  BY DEF Tasks, Task
<1>2. <<t>> \in Seq(Tasks) /\ DOMAIN <<t>> = {1} /\ <<t>>[1] = t
  BY <1>1
<1>3. Elements(<<t>>) = {t} /\ Pairwise(<<t>>, Precedes)
  BY <1>2 DEF Elements, Pairwise
<1>4. <<>> \in Seq(Tasks) /\ Elements(<<>>) = {} /\ Pairwise(<<>>, Precedes)
  BY DEF Elements, Pairwise
<1> QED
  BY <1>1, <1>3, <1>4

LEMMA Deferred ==
  ASSUME Known, NEW q \in Seq(Tasks), Pairwise(q, Precedes), Defer(q),
         \A t \in Elements(microtasks), u \in Elements(q) : MayPrecede(t, u)
  PROVE  /\ Elements(microtasks') = Elements(microtasks) \cup Elements(q)
         /\ Pairwise(microtasks', Precedes)
<1>1. microtasks \in Seq(Tasks) /\ Pairwise(microtasks, Precedes)
  BY DEF Known, PairingInv, TypeOK, RosterInv, QueueOk
<1>2. ASSUME NEW r \in Seq(Tasks), NEW t \in Elements(r) PROVE t \in Tasks
  BY <1>2 DEF Elements
<1>3. \A t \in Elements(microtasks), u \in Elements(q) : <<t, u>> \in Precedes
  BY <1>1, <1>2 DEF Precedes
<1>4. Elements(microtasks \o q) = Elements(microtasks) \cup Elements(q)
  BY <1>1, ConcatElements
<1>5. Pairwise(microtasks \o q, Precedes)
  BY <1>1, <1>3, PairwiseConcat
<1> QED
  BY <1>4, <1>5 DEF Defer

\* Tail(microtasks) is what waits behind the task that runs.
LEMMA Consumed ==
  ASSUME Known, NEW q \in Seq(Tasks), Pairwise(q, Precedes), microtasks # <<>>, Consume(q),
         \A t \in Elements(Tail(microtasks)), u \in Elements(q) : MayPrecede(t, u)
  PROVE  /\ Elements(microtasks) = {Head(microtasks)} \cup Elements(Tail(microtasks))
         /\ Elements(microtasks') = Elements(Tail(microtasks)) \cup Elements(q)
         /\ Pairwise(microtasks', Precedes)
<1>1. /\ microtasks \in Seq(Tasks) /\ Pairwise(microtasks, Precedes)
      /\ Tail(microtasks) \in Seq(Tasks)
  BY TailFacts DEF Known, PairingInv, TypeOK, RosterInv, QueueOk
<1>2. ASSUME NEW r \in Seq(Tasks), NEW t \in Elements(r) PROVE t \in Tasks
  BY <1>2 DEF Elements
<1>3. \A t \in Elements(Tail(microtasks)), u \in Elements(q) : <<t, u>> \in Precedes
  BY <1>1, <1>2 DEF Precedes
<1>4. Pairwise(Tail(microtasks), Precedes)
  BY <1>1, PairwiseTail
<1>5. Elements(microtasks) = {Head(microtasks)} \cup Elements(Tail(microtasks))
  BY <1>1, TailElements
<1> PICK rest : rest = Tail(microtasks)
  OBVIOUS
<1>6. Elements(rest \o q) = Elements(rest) \cup Elements(q) /\ Pairwise(rest \o q, Precedes)
  <2>1. rest \in Seq(Tasks) /\ q \in Seq(Tasks)
    BY <1>1
  <2>2. Pairwise(rest, Precedes) /\ \A t \in Elements(rest), u \in Elements(q) : <<t, u>> \in Precedes
    BY <1>3, <1>4
  <2>3. Elements(rest \o q) = Elements(rest) \cup Elements(q)
    BY <2>1, ConcatElements
  <2>4. Pairwise(rest \o q, Precedes)
    BY <2>1, <2>2, PairwiseConcat
  <2> QED
    BY <2>3, <2>4
<1> QED
  BY <1>5, <1>6 DEF Consume

\* The task that runs and those behind it.
LEMMA DueFacts ==
  ASSUME Known, NEW op \in TaskOps, NEW a \in Attempts, Due(op, a)
  PROVE  /\ stack = <<>> /\ Elements(stack) = {} /\ microtasks # <<>>
         /\ Head(microtasks) = [op |-> op, of |-> a]
         /\ Head(microtasks).op = op /\ Head(microtasks).of = a
         /\ \A t \in Elements(microtasks) : t \in Tasks
         /\ Elements(microtasks) = {Head(microtasks)} \cup Elements(Tail(microtasks))
         /\ Queued(op, a) /\ TaskOk([op |-> op, of |-> a])
         /\ \A t \in Elements(Tail(microtasks)) :
              t \in Tasks /\ TaskOk(t) /\ MayPrecede([op |-> op, of |-> a], t)
<1>1. /\ stack = <<>> /\ microtasks # <<>> /\ Head(microtasks) = [op |-> op, of |-> a]
      /\ microtasks \in Seq(Tasks) /\ Pairwise(microtasks, Precedes)
  BY DEF Due, Known, PairingInv, TypeOK, RosterInv, QueueOk
<1>2. Elements(microtasks) = {Head(microtasks)} \cup Elements(Tail(microtasks))
  BY <1>1, TailElements
<1>3. \A t \in Elements(microtasks) : TaskOk(t)
  BY DEF Known, RosterInv, QueueOk
<1>4. \A t \in Elements(Tail(microtasks)) : <<Head(microtasks), t>> \in Precedes
  BY <1>1, PairwiseTail
<1>5. \A t \in Elements(Tail(microtasks)) :
        t \in Tasks /\ MayPrecede([op |-> op, of |-> a], t)
  BY <1>1, <1>4 DEF Precedes
<1>6. \A t \in Elements(microtasks) : t \in Tasks
  BY <1>1 DEF Elements
<1>7. Head(microtasks).op = op /\ Head(microtasks).of = a
  BY <1>1
<1>8. Queued(op, a) /\ TaskOk([op |-> op, of |-> a])
  BY <1>1, <1>2, <1>3 DEF Queued
<1> QED
  BY <1>1, <1>2, <1>3, <1>5, <1>6, <1>7, <1>8, NoFrames

\* The frames of the stack, and those below its head.
LEMMA StackFacts ==
  ASSUME Known
  PROVE  /\ stack \in Seq(Frames) /\ Pairwise(stack, Covers) /\ Pairwise(stack, Apart)
         /\ \A f \in Elements(stack) : f \in Frames /\ FrameOk(f)
         /\ stack # <<>> => /\ Elements(stack) = {Head(stack)} \cup Elements(Tail(stack))
                            /\ Pairwise(Tail(stack), Apart)
                            /\ \A f \in Elements(Tail(stack)) : <<Head(stack), f>> \in Apart
<1>1. stack \in Seq(Frames) /\ Pairwise(stack, Covers) /\ Pairwise(stack, Apart)
  BY DEF Known, PairingInv, TypeOK, GroupInv, RosterInv, StackOk
<1>2. \A f \in Elements(stack) : f \in Frames /\ FrameOk(f)
  BY <1>1 DEF Known, RosterInv, StackOk, Elements
<1>3. stack # <<>> => /\ Elements(stack) = {Head(stack)} \cup Elements(Tail(stack))
                      /\ Pairwise(Tail(stack), Apart)
                      /\ \A f \in Elements(Tail(stack)) : <<Head(stack), f>> \in Apart
  BY <1>1, TailElements, PairwiseTail
<1> QED
  BY <1>1, <1>2, <1>3

\* What a frame on top must satisfy.
LEMMA FramePushed ==
  ASSUME Known, NEW f \in Frames, Push(f),
         f.op \in Teardowns => f.of \notin torn \/ stack = <<>>
  PROVE  Elements(stack') = {f} \cup Elements(stack) /\ Pairwise(stack', Apart)
<1>1. \A g \in Elements(stack) : <<f, g>> \in Apart
  BY StackFacts, NoFrames DEF Apart, FrameOk
<1> QED
  BY <1>1, StackFacts, PushElements, PairwisePush DEF Push

LEMMA FrameReplaced ==
  ASSUME Known, NEW f \in Frames, stack # <<>>, Continue(f),
         f.op \in Teardowns => f.of \notin torn
  PROVE  /\ Elements(stack) = {Head(stack)} \cup Elements(Tail(stack))
         /\ Elements(stack') = {f} \cup Elements(Tail(stack)) /\ Pairwise(stack', Apart)
<1>1. /\ stack \in Seq(Frames) /\ Tail(stack) \in Seq(Frames)
      /\ Pairwise(Tail(stack), Apart)
      /\ Elements(stack) = {Head(stack)} \cup Elements(Tail(stack))
  BY StackFacts, TailFacts
<1>2. \A g \in Elements(Tail(stack)) : <<f, g>> \in Apart
  BY <1>1, StackFacts DEF Apart, FrameOk
<1> QED
  BY <1>1, <1>2, PushElements, PairwisePush DEF Continue

LEMMA FramePopped ==
  ASSUME Known, stack # <<>>, Pop
  PROVE  /\ Elements(stack) = {Head(stack)} \cup Elements(stack') /\ Pairwise(stack', Apart)
BY StackFacts DEF Pop

-----------------------------------------------------------------------------
(* What a step does to the attempts, apart from queue and stack.           *)

\* What is queued and held stays so, where the members of the roster and the clients
\* still depend on it.
SignsKept ==
  \A x \in Attempts :
    /\ x \in roster' /\ x \in torn /\ Ending(x) => Ending(x)'
    /\ x \notin torn' /\ Held("leaving", x) => Held("leaving", x)'
    /\ Live(x)' /\ Telling(x) => Telling(x)'
    /\ Live(x)' /\ state'[x] = "pending" /\ Held("connection", x) => Held("connection", x)'

\* The parts of the invariant that SignsKept leaves.
DataKept ==
  /\ NumbersOk' /\ ClosingOk' /\ AttemptsOk'
  /\ SignsKept => MembersOk'
TasksKept == \A t \in Tasks : TaskOk(t) => TaskOk(t)'
FramesKept == \A f \in Frames : FrameOk(f) => FrameOk(f)'

SignTasks == {"teardown", "clientLeave", "clientClose"}
SignFrames == {"leaving", "syncDisconnecting", "disconnecting", "syncDisconnect", "disconnect",
               "connection"}

LEMMA SignsStay ==
  ASSUME \A t \in Elements(microtasks) : t.op \in SignTasks => t \in Elements(microtasks'),
         \A f \in Elements(stack) : f.op \in SignFrames => f \in Elements(stack')
  PROVE  SignsKept
<1>1. ASSUME NEW x, NEW op \in SignTasks, Queued(op, x) PROVE Queued(op, x)'
  <2> PICK t : t = [op |-> op, of |-> x]
    OBVIOUS
  <2>1. t \in Elements(microtasks) /\ t.op = op
    BY <1>1 DEF Queued
  <2>2. t \in Elements(microtasks')
    BY <2>1
  <2> QED
    BY <2>2 DEF Queued
<1>2. ASSUME NEW x, NEW op \in SignFrames, Held(op, x) PROVE Held(op, x)'
  BY <1>2 DEF Held
<1> HIDE DEF Queued, Held
<1>3. /\ \A op \in {"teardown", "clientLeave", "clientClose"} : op \in SignTasks
      /\ \A op \in {"leaving", "syncDisconnecting", "disconnecting", "syncDisconnect",
                    "disconnect", "connection"} : op \in SignFrames
  BY DEF SignTasks, SignFrames
<1>4. \A x \in Attempts : (Ending(x) => Ending(x)') /\ (Telling(x) => Telling(x)')
  BY <1>1, <1>2, <1>3 DEF Ending, Telling
<1> QED
  BY <1>2, <1>3, <1>4 DEF SignsKept

\* The queue and the stack of the next state, part by part.
LEMMA QueueFromParts ==
  ASSUME Known, TasksKept, UNCHANGED microtasks
  PROVE  QueueOk'
<1>1. \A t \in Elements(microtasks) : t \in Tasks /\ TaskOk(t)
  BY DEF Known, PairingInv, TypeOK, RosterInv, QueueOk, Elements
<1> QED
  BY <1>1 DEF TasksKept, QueueOk, Known, RosterInv

LEMMA StackFromParts ==
  ASSUME Known, FramesKept, UNCHANGED stack
  PROVE  StackOk'
BY StackFacts DEF FramesKept, StackOk, Known, RosterInv

LEMMA QueueGrows ==
  ASSUME Known, TasksKept, NEW op \in TaskOps, NEW a \in Attempts, Defer(Task(op, a)),
         TaskOk([op |-> op, of |-> a])',
         \A t \in Elements(microtasks) : MayPrecede(t, [op |-> op, of |-> a])
  PROVE  /\ QueueOk' /\ Elements(microtasks) \subseteq Elements(microtasks')
         /\ Queued(op, a)'
<1>0. PICK u : u = [op |-> op, of |-> a]
  OBVIOUS
<1>1. /\ Task(op, a) \in Seq(Tasks) /\ Elements(Task(op, a)) = {u}
      /\ Pairwise(Task(op, a), Precedes)
  BY <1>0, TaskElements
<1>2. TaskOk(u)' /\ \A t \in Elements(microtasks) : MayPrecede(t, u)
  BY <1>0
<1>3. /\ Elements(microtasks') = Elements(microtasks) \cup {u}
      /\ Pairwise(microtasks', Precedes)
  BY <1>1, <1>2, Deferred
<1>4. \A t \in Elements(microtasks) : t \in Tasks /\ TaskOk(t)
  BY DEF Known, PairingInv, TypeOK, RosterInv, QueueOk, Elements
<1>5. QueueOk' /\ Elements(microtasks) \subseteq Elements(microtasks')
  BY <1>2, <1>3, <1>4 DEF TasksKept, QueueOk
<1> QED
  BY <1>0, <1>3, <1>5 DEF Queued

LEMMA QueueIdles ==
  ASSUME Known, TasksKept, Defer(<<>>)
  PROVE  QueueOk' /\ Elements(microtasks') = Elements(microtasks)
<1>1. microtasks' = microtasks
  BY DEF Defer, Known, PairingInv, TypeOK
<1> QED
  BY <1>1, QueueFromParts

LEMMA QueueRuns ==
  ASSUME Known, microtasks # <<>>, Consume(<<>>),
         \A t \in Elements(Tail(microtasks)) : TaskOk(t)'
  PROVE  /\ QueueOk' /\ Elements(microtasks) = {Head(microtasks)} \cup Elements(microtasks')
<1>1. <<>> \in Seq(Tasks) /\ Elements(<<>>) = {} /\ Pairwise(<<>>, Precedes)
  BY DEF Elements, Pairwise
<1>2. /\ Elements(microtasks) = {Head(microtasks)} \cup Elements(Tail(microtasks))
      /\ Elements(microtasks') = Elements(Tail(microtasks)) /\ Pairwise(microtasks', Precedes)
  BY <1>1, Consumed
<1> QED
  BY <1>2 DEF QueueOk

LEMMA QueueRunsOn ==
  ASSUME Known, microtasks # <<>>, NEW op \in TaskOps, NEW a \in Attempts,
         Consume(Task(op, a)), TaskOk([op |-> op, of |-> a])',
         \A t \in Elements(Tail(microtasks)) : TaskOk(t)' /\ MayPrecede(t, [op |-> op, of |-> a])
  PROVE  /\ QueueOk'
         /\ \A t \in Elements(microtasks) : t # Head(microtasks) => t \in Elements(microtasks')
<1>0. PICK u : u = [op |-> op, of |-> a]
  OBVIOUS
<1>1. /\ Task(op, a) \in Seq(Tasks) /\ Elements(Task(op, a)) = {u}
      /\ Pairwise(Task(op, a), Precedes)
  BY <1>0, TaskElements
<1>2. TaskOk(u)' /\ \A t \in Elements(Tail(microtasks)) : MayPrecede(t, u)
  BY <1>0
<1>3. /\ Elements(microtasks) = {Head(microtasks)} \cup Elements(Tail(microtasks))
      /\ Elements(microtasks') = Elements(Tail(microtasks)) \cup {u}
      /\ Pairwise(microtasks', Precedes)
  BY <1>1, <1>2, Consumed
<1> QED
  BY <1>2, <1>3 DEF QueueOk

LEMMA StackPushes ==
  ASSUME Known, NEW f \in Frames, Push(f), f.op \in Teardowns => f.of \notin torn \/ stack = <<>>,
         FrameOk(f)', \A g \in Elements(stack) : FrameOk(g)'
  PROVE  StackOk' /\ Elements(stack') = {f} \cup Elements(stack)
BY FramePushed DEF StackOk

LEMMA StackContinues ==
  ASSUME Known, NEW f \in Frames, stack # <<>>, Continue(f),
         f.op \in Teardowns => f.of \notin torn,
         FrameOk(f)', \A g \in Elements(Tail(stack)) : FrameOk(g)'
  PROVE  /\ StackOk' /\ Elements(stack) = {Head(stack)} \cup Elements(Tail(stack))
         /\ Elements(stack') = {f} \cup Elements(Tail(stack))
BY FrameReplaced DEF StackOk

LEMMA StackPops ==
  ASSUME Known, stack # <<>>, Pop, \A g \in Elements(Tail(stack)) : FrameOk(g)'
  PROVE  StackOk' /\ Elements(stack) = {Head(stack)} \cup Elements(stack')
BY FramePopped DEF StackOk, Pop

\* The frame that returns, and those below it.
LEMMA TopFacts ==
  ASSUME Known, NEW op \in Windows \cup Loops, NEW a \in Attempts, Top(op, a)
  PROVE  /\ stack # <<>> /\ Head(stack) \in Frames /\ FrameOk(Head(stack))
         /\ Head(stack).op = op /\ Head(stack).of = a
         /\ Elements(stack) = {Head(stack)} \cup Elements(Tail(stack))
         /\ \A g \in Elements(Tail(stack)) : g \in Frames /\ FrameOk(g)
         /\ op \in Teardowns => \A g \in Elements(Tail(stack)) : g.op \in Teardowns => g.of # a
         /\ op \in Bottoms => Elements(Tail(stack)) = {}
<1>1. stack # <<>> /\ Head(stack).op = op /\ Head(stack).of = a
  BY DEF Top
<1>2. /\ Elements(stack) = {Head(stack)} \cup Elements(Tail(stack))
      /\ \A f \in Elements(stack) : f \in Frames /\ FrameOk(f)
      /\ \A g \in Elements(Tail(stack)) : <<Head(stack), g>> \in Apart
      /\ stack \in Seq(Frames) /\ Pairwise(stack, Covers)
  BY <1>1, StackFacts
<1>3. op \in Bottoms => Elements(Tail(stack)) = {}
  BY <1>1, <1>2, BelowHead
<1>4. op \in Teardowns => \A g \in Elements(Tail(stack)) : g.op \in Teardowns => g.of # a
  BY <1>1, <1>2 DEF Apart
<1> QED
  BY <1>1, <1>2, <1>3, <1>4

\* The attempts of the roster and those that were announced came to the server.
LEMMA AttemptFacts ==
  ASSUME Known, NEW a \in Attempts
  PROVE  AttemptOk(a) /\ HeardOk(a) /\ RosterOk(a) /\ LiveOk(a)
BY DEF Known, RosterInv, AttemptsOk, MembersOk

LEMMA TaskFacts ==
  ASSUME Known, NEW t \in Elements(microtasks)
  PROVE  t \in Tasks /\ t.op \in TaskOps /\ t.of \in Attempts /\ TaskOk(t)
         /\ (t.op \in Completions => t.of \in attached)
<1>1. t \in KnownTasks
  BY DEF Known, PairingInv, CallsAreKnown, Elements
<1> QED
  BY <1>1 DEF KnownTasks, Tasks, Completions, Known, RosterInv, QueueOk

\* Steps that only call middleware, or the application.
DataSame == UNCHANGED <<begun, attempt, socket, state, authing, attached, active, srvConnected,
                        cleaned, torn, closing, roster, idRoom, closed, told, heard>>

LEMMA Quiet ==
  ASSUME Known, DataSame, \A x \in Attempts : nexts[x] >= 1 => nexts'[x] >= 1
  PROVE  DataKept /\ TasksKept /\ FramesKept
<1>1. \A x : /\ Live(x)' <=> Live(x)
             /\ OnlyHeard(x)' <=> OnlyHeard(x)
             /\ Latest(x)' <=> Latest(x)
  BY DEF DataSame, Live, OnlyHeard, Latest
<1>2. NumbersOk' /\ ClosingOk'
  BY <1>1 DEF DataSame, Known, RosterInv, NumbersOk, ClosingOk
<1>3. AttemptsOk'
  <2> SUFFICES ASSUME NEW x \in Attempts PROVE AttemptOk(x)' /\ HeardOk(x)'
    BY DEF AttemptsOk
  <2> QED
    BY <1>1, AttemptFacts DEF DataSame, AttemptOk, HeardOk
<1>4. SignsKept => MembersOk'
  <2> SUFFICES ASSUME SignsKept, NEW x \in Attempts PROVE RosterOk(x)' /\ LiveOk(x)'
    BY DEF MembersOk
  <2> QED
    BY <1>1, AttemptFacts DEF DataSame, RosterOk, LiveOk, SignsKept
<1>5. TasksKept
  BY <1>1 DEF DataSame, TasksKept, Tasks, TaskOk
<1>6. FramesKept
  BY <1>1 DEF DataSame, FramesKept, FrameOk
<1> QED
  BY <1>2, <1>3, <1>4, <1>5, <1>6 DEF DataKept

\* The attempts in M end before they were connected, and the Sockets in S lose their
\* membership: cleanupConnectionAttempt.
Dropped(M, S) ==
  /\ M \in SUBSET Attempts /\ S \in SUBSET attached /\ M \cap attached \subseteq S
  /\ Discard(S)
  /\ UNCHANGED <<begun, socket, authing, attached, nexts, closed, told, heard>>
  /\ \A x \in M : state[x] = "pending" /\ state'[x] \in {"cancelled", "rejected"}
  /\ \A x \in Attempts \ M : state'[x] = state[x]
  /\ \A c \in Clients : attempt'[c] \in {attempt[c], None}
  /\ \A x \in Attempts : Live(x)' <=> Live(x) /\ x \notin M
  /\ \A x \in S : ~Live(x)'

LEMMA DroppedData ==
  ASSUME Known, NEW M, NEW S, Dropped(M, S)
  PROVE  DataKept /\ TasksKept /\ FramesKept
<1>1. /\ M \in SUBSET Attempts /\ S \in SUBSET attached /\ M \cap attached \subseteq S
      /\ active' = active \ S /\ cleaned' = cleaned \cup S
      /\ roster' = roster \ (S \ cleaned) /\ idRoom' = idRoom \ (S \ cleaned)
      /\ UNCHANGED <<begun, socket, authing, attached, nexts, srvConnected, torn, closing,
                     closed, told, heard>>
  BY DEF Dropped, Discard, CleanMembership
<1>2. /\ \A x \in M : state[x] = "pending" /\ state'[x] \in {"cancelled", "rejected"}
      /\ \A x \in Attempts \ M : state'[x] = state[x]
      /\ \A x \in Attempts : Live(x)' <=> Live(x) /\ x \notin M
      /\ \A x \in S : ~Live(x)'
  BY DEF Dropped
<1>3. \A x : /\ OnlyHeard(x)' <=> OnlyHeard(x)
             /\ Latest(x)' <=> Latest(x)
  BY <1>1 DEF OnlyHeard, Latest
<1>4. NumbersOk'
  <2>1. \A c \in Clients : attempt'[c] \in {attempt[c], None}
    BY DEF Dropped
  <2>2. \A c \in Clients : attempt'[c] # None => attempt'[c][2] = begun'[c]
    BY <1>1, <2>1 DEF Known, RosterInv, NumbersOk
  <2>3. \A x \in Attempts : state'[x] = "unused" => x \notin attached' /\ x \notin authing'
    BY <1>1, <1>2 DEF Known, RosterInv, NumbersOk
  <2> QED
    BY <2>2, <2>3 DEF NumbersOk
<1>5. ClosingOk'
  BY <1>1, <1>3 DEF Known, RosterInv, ClosingOk
<1>6. AttemptsOk'
  <2> SUFFICES ASSUME NEW x \in Attempts PROVE AttemptOk(x)' /\ HeardOk(x)'
    BY DEF AttemptsOk
  <2>1. AttemptOk(x)'
    BY <1>1, <1>2, AttemptFacts DEF AttemptOk
  <2>2. HeardOk(x)'
    BY <1>1, <1>2, AttemptFacts DEF HeardOk
  <2> QED
    BY <2>1, <2>2
<1>7. ASSUME SignsKept PROVE MembersOk'
  <2> SUFFICES ASSUME NEW x \in Attempts PROVE RosterOk(x)' /\ LiveOk(x)'
    BY DEF MembersOk
  <2>1. ASSUME x \in roster' PROVE RosterOk(x)'
    <3>1. x \in roster /\ RosterOk(x) /\ AttemptOk(x)
      BY <1>1, <2>1, AttemptFacts
    <3>2. x \notin cleaned /\ x \notin S /\ x \in attached
      BY <1>1, <2>1, <3>1 DEF RosterOk, AttemptOk
    <3>3. x \notin M
      BY <1>1, <3>2
    <3> QED
      BY <1>1, <1>2, <1>3, <1>7, <2>1, <3>1, <3>2, <3>3 DEF RosterOk, SignsKept
  <2>2. ASSUME Live(x)' PROVE LiveOk(x)'
    <3>1. Live(x) /\ x \notin M /\ x \notin S /\ LiveOk(x)
      BY <1>2, <2>2, AttemptFacts
    <3> QED
      BY <1>1, <1>2, <1>7, <2>2, <3>1 DEF LiveOk, SignsKept
  <2> QED
    BY <2>1, <2>2 DEF RosterOk, LiveOk
<1>8. TasksKept
  <2> SUFFICES ASSUME NEW t \in Tasks, TaskOk(t) PROVE TaskOk(t)'
    BY DEF TasksKept
  <2>1. t.of \in Attempts
    BY DEF Tasks
  <2>2. state[t.of] = "rejected" => t.of \notin M
    BY <1>2
  <2> QED
    BY <1>1, <1>2, <1>3, <2>1, <2>2 DEF TaskOk
<1>9. FramesKept
  <2> SUFFICES ASSUME NEW f \in Frames, FrameOk(f) PROVE FrameOk(f)'
    BY DEF FramesKept
  <2>1. f.of \in Attempts
    BY DEF Frames
  <2>2. /\ Live(f.of)' => Live(f.of)
        /\ state'[f.of] = "connected" => state[f.of] = "connected"
    BY <1>2, <2>1
  <2> QED
    BY <1>1, <1>3, <2>2 DEF FrameOk
<1> QED
  BY <1>4, <1>5, <1>6, <1>7, <1>8, <1>9 DEF DataKept

LEMMA Assembled ==
  ASSUME DataKept, SignsKept, QueueOk', StackOk'
  PROVE  RosterInv'
BY DEF DataKept, RosterInv

\* A task of one of these kinds only waits once.
LEMMA OnceQueued ==
  ASSUME Known, NEW t \in Elements(microtasks), NEW op \in TaskOps, NEW a \in Attempts,
         op \notin Leaves,
         op \in Completions => nexts[a] = 0,
         op \notin Completions => ~TaskOk([op |-> op, of |-> a]),
         op = "teardown" => Latest(a)
  PROVE  MayPrecede(t, [op |-> op, of |-> a])
<1>1. t \in Tasks /\ TaskOk(t) /\ (t.op \in Completions => t.of \in attached)
  BY TaskFacts
<1>2. t.op = "accept" /\ op = "teardown" => ~Newer(t.of, a)
  BY <1>1 DEF Latest, Tasks, Completions
<1>3. t.of = a => t.op # op
  <2> SUFFICES ASSUME t.of = a, t.op = op PROVE FALSE
    OBVIOUS
  <2>1. t = [op |-> op, of |-> a]
    BY <1>1 DEF Tasks
  <2>2. CASE op \in Completions
    BY <1>1, <2>2 DEF TaskOk
  <2>3. CASE op \notin Completions
    BY <1>1, <2>1, <2>3
  <2> QED
    BY <2>2, <2>3
<1>4. t.of = a => ~(t.op \in Completions /\ op \in Completions)
  BY <1>1 DEF TaskOk
<1> QED
  BY <1>2, <1>3, <1>4 DEF MayPrecede, Leaves

LEMMA EmitAgrees ==
  ASSUME Known, NEW c \in Clients, Emit(c)
  PROVE  RosterInv'
<1>1. DataSame /\ UNCHANGED <<nexts, microtasks, stack>>
  BY DEF Emit, DataSame, attemptVars, serverVars, rosterVars
<1>2. DataKept /\ TasksKept /\ FramesKept
  BY <1>1, Quiet
<1>3. QueueOk' /\ StackOk'
  BY <1>1, <1>2, QueueFromParts, StackFromParts
<1>4. SignsKept
  BY <1>1, SignsStay
<1> QED
  BY <1>2, <1>3, <1>4, Assembled

LEMMA StutterAgrees ==
  ASSUME Known, UNCHANGED vars
  PROVE  RosterInv'
<1>1. DataSame /\ UNCHANGED <<nexts, microtasks, stack>>
  BY DEF vars, DataSame, clientVars, attemptVars, serverVars, rosterVars
<1>2. DataKept /\ TasksKept /\ FramesKept
  BY <1>1, Quiet
<1>3. QueueOk' /\ StackOk'
  BY <1>1, <1>2, QueueFromParts, StackFromParts
<1>4. SignsKept
  BY <1>1, SignsStay
<1> QED
  BY <1>2, <1>3, <1>4, Assembled

LEMMA NextAgrees ==
  ASSUME Known, NEW a \in Attempts, CallNext(a) \/ RefuseNext(a)
  PROVE  RosterInv'
<1>1. DataSame /\ UNCHANGED stack
  BY DEF CallNext, RefuseNext, DataSame, clientVars, serverVars, rosterVars
<1>2. nexts \in [Attempts -> 0..1] /\ MaxNext = 1 /\ index[a] >= 1
  BY DEF Known, PairingInv, TypeOK, DataTypeOK, Disciplined, CallNext, RefuseNext
<1>3. \A x \in Attempts : nexts[x] >= 1 => nexts'[x] >= 1
  BY <1>2 DEF CallNext, RefuseNext
<1>4. DataKept /\ TasksKept /\ FramesKept
  BY <1>1, <1>3, Quiet
<1>5. StackOk'
  BY <1>1, <1>4, StackFromParts
<1>6. CASE UNCHANGED microtasks
  BY <1>1, <1>4, <1>5, <1>6, QueueFromParts, SignsStay, Assembled
<1>7. ASSUME NEW op \in Completions, Defer(Task(op, a)), nexts[a] < 1, nexts'[a] >= 1
      PROVE  RosterInv'
  <2> PICK t : t = [op |-> op, of |-> a]
    OBVIOUS
  <2>1. nexts[a] = 0 /\ told[a] = "nothing"
    BY <1>2, <1>7, AttemptFacts DEF AttemptOk
  <2>2. op \in TaskOps /\ op \notin Leaves /\ t.op = op /\ t.of = a
    BY <1>7 DEF Completions, TaskOps, Leaves
  <2>3. TaskOk(t)'
    BY <1>1, <1>7, <2>1, <2>2 DEF TaskOk, DataSame, Completions, Leaves
  <2>4. \A u \in Elements(microtasks) : MayPrecede(u, [op |-> op, of |-> a])
    BY <1>7, <2>1, <2>2, OnceQueued DEF Completions
  <2>5. QueueOk' /\ Elements(microtasks) \subseteq Elements(microtasks')
    BY <1>4, <1>7, <2>2, <2>3, <2>4, QueueGrows
  <2>6. SignsKept
    BY <1>1, <2>5, SignsStay
  <2> QED
    BY <1>4, <1>5, <2>5, <2>6, Assembled
<1>8. UNCHANGED microtasks \/ \E op \in Completions : /\ Defer(Task(op, a))
                                                     /\ nexts[a] < 1 /\ nexts'[a] >= 1
  BY <1>2 DEF CallNext, RefuseNext, Completions
<1> QED
  BY <1>6, <1>7, <1>8

\* The application disconnects a Socket that the server still counts as connected.
LEMMA HandleFacts ==
  ASSUME Known, NEW a \in Handles
  PROVE  /\ told[a] # "nothing" /\ a \in roster
         /\ a \notin torn => Latest(a) /\ told[a] = "connection"
<1>1. a \in Attempts /\ told[a] # "nothing" /\ a \notin cleaned
  BY DEF Handles, Known, Disciplined, PairingInv, TypeOK, DataTypeOK
<1>2. AttemptOk(a) /\ RosterOk(a)
  BY <1>1, AttemptFacts
<1>3. a \in roster
  BY <1>1, <1>2 DEF AttemptOk
<1>4. ASSUME a \notin torn PROVE Latest(a)
  <2>1. Live(a) \/ Held("leaving", a)
    BY <1>2, <1>3, <1>4 DEF RosterOk
  <2>2. CASE Live(a)
    BY <1>1, <2>2, LiveIsLatest DEF Known, RosterInv
  <2>3. CASE Held("leaving", a)
    BY <2>3, StackFacts DEF Held, FrameOk, Callers
  <2> QED
    BY <2>1, <2>2, <2>3
<1>5. a \notin torn => told[a] = "connection"
  BY <1>1, <1>2 DEF AttemptOk, Known, PairingInv, TypeOK, DataTypeOK
<1> QED
  BY <1>1, <1>3, <1>4, <1>5

LEMMA GroupDisconnectAgrees ==
  ASSUME Known, NEW a \in Attempts, DisconnectGroup(a)
  PROVE  RosterInv'
<1> PICK f : f = Frame("group", a, Group(a) \cap connectedClients, 0)
  OBVIOUS
<1>1. DataSame /\ UNCHANGED <<nexts, microtasks>> /\ Push(f)
  BY DEF DisconnectGroup, DataSame, clientVars, attemptVars, serverVars, rosterVars
<1>2. DataKept /\ TasksKept /\ FramesKept
  BY <1>1, Quiet
<1>3. f \in Frames /\ f.op = "group" /\ f.of = a
  BY DEF Frame, Frames, Loops, Group
<1>4. a \in Handles /\ told[a] # "nothing"
  BY HandleFacts DEF DisconnectGroup
<1>5. Live(a)
  BY LiveFacts DEF DisconnectGroup, Owns, Live, Known, PairingInv, ConnectedOwnsAttempt
<1>6. Latest(a)
  BY <1>5, LiveIsLatest DEF Known, RosterInv
<1>7. FrameOk(f)'
  BY <1>1, <1>3, <1>4, <1>6 DEF FrameOk, DataSame, Latest, Callers, Teardowns
<1>8. \A g \in Elements(stack) : FrameOk(g)'
  BY <1>2, StackFacts DEF FramesKept
<1>9. StackOk' /\ Elements(stack') = {f} \cup Elements(stack)
  BY <1>1, <1>3, <1>7, <1>8, StackPushes DEF Teardowns
<1>10. QueueOk' /\ SignsKept
  BY <1>1, <1>2, <1>9, QueueFromParts, SignsStay
<1> QED
  BY <1>2, <1>9, <1>10, Assembled

-----------------------------------------------------------------------------
(* Attempts that end before they were connected.                           *)

LEMMA DroppedAgrees ==
  ASSUME Known, NEW M, NEW S, Dropped(M, S), QueueOk', StackOk', SignsKept
  PROVE  RosterInv'
BY DroppedData, Assembled

\* rejectConnectionAttempt, and the task it leaves.
LEMMA RejectDrops ==
  ASSUME Known, NEW a \in Attempts, Pending(a), Reject(a)
  PROVE  /\ Dropped({a}, {a} \cap attached)
         /\ TaskOk([op |-> "connectError", of |-> a])'
         /\ \A t \in Elements(microtasks) : MayPrecede(t, [op |-> "connectError", of |-> a])
<1>1. /\ state' = [state EXCEPT ![a] = "rejected"] /\ Discard({a} \cap attached)
      /\ attempt' = [attempt EXCEPT ![Client(a)] = None]
      /\ UNCHANGED <<begun, socket, authing, attached, nexts, closed, told, heard>>
  BY DEF Reject
<1>2. /\ state \in [Attempts -> States] /\ attempt \in [Clients -> Attempts \cup {None}]
      /\ Client(a) \in Clients /\ None \notin Attempts
      /\ state[a] = "pending" /\ attempt[Client(a)] = a
  BY AttemptClient, PairingAssumption DEF Known, PairingInv, TypeOK, DataTypeOK, Pending
<1>3. state'[a] = "rejected" /\ \A x \in Attempts \ {a} : state'[x] = state[x]
  BY <1>1, <1>2
<1>4. attempt'[Client(a)] = None /\ \A c \in Clients : c # Client(a) => attempt'[c] = attempt[c]
  BY <1>1, <1>2
<1>5. \A x \in Attempts : Live(x)' <=> Live(x) /\ x # a
  <2> SUFFICES ASSUME NEW x \in Attempts PROVE Live(x)' <=> Live(x) /\ x # a
    OBVIOUS
  <2>1. Client(x) \in Clients /\ x # None
    BY <1>2, AttemptClient
  <2> QED
    BY <1>2, <1>4, <2>1 DEF Live
<1>6. Dropped({a}, {a} \cap attached)
  <2>1. \A c \in Clients : attempt'[c] \in {attempt[c], None}
    BY <1>4
  <2> QED
    BY <1>1, <1>2, <1>3, <1>5, <2>1 DEF Dropped
<1>7. HeardOk(a) /\ heard[a] = "nothing"
  BY <1>2, AttemptFacts DEF HeardOk
<1>8. TaskOk([op |-> "connectError", of |-> a])'
  BY <1>1, <1>3, <1>7 DEF TaskOk, Completions, Leaves
<1>9. \A t \in Elements(microtasks) : MayPrecede(t, [op |-> "connectError", of |-> a])
  <2>1. ~TaskOk([op |-> "connectError", of |-> a])
    BY <1>2 DEF TaskOk
  <2> QED
    BY <2>1, OnceQueued DEF TaskOps, Leaves, Completions
<1> QED
  BY <1>6, <1>8, <1>9

\* A pending attempt is rejected by the callback of `auth` ...
LEMMA RejectNowAgrees ==
  ASSUME Known, NEW a \in Attempts, Pending(a), Reject(a), Defer(Task("connectError", a)),
         UNCHANGED stack
  PROVE  RosterInv'
<1>1. /\ Dropped({a}, {a} \cap attached)
      /\ TaskOk([op |-> "connectError", of |-> a])'
      /\ \A t \in Elements(microtasks) : MayPrecede(t, [op |-> "connectError", of |-> a])
  BY RejectDrops
<1>2. TasksKept /\ FramesKept
  BY <1>1, DroppedData
<1>3. QueueOk' /\ Elements(microtasks) \subseteq Elements(microtasks')
  BY <1>1, <1>2, QueueGrows DEF TaskOps
<1>4. StackOk' /\ SignsKept
  BY <1>2, <1>3, StackFromParts, SignsStay
<1> QED
  BY <1>1, <1>3, <1>4, DroppedAgrees

\* ... or by the task that looks at it.
LEMMA RejectTaskAgrees ==
  ASSUME Known, NEW a \in Attempts, NEW op \in {"pair", "accept", "refuse"}, Due(op, a),
         Pending(a), Reject(a), Consume(Task("connectError", a)), UNCHANGED stack
  PROVE  RosterInv'
<1>1. /\ Dropped({a}, {a} \cap attached)
      /\ TaskOk([op |-> "connectError", of |-> a])'
      /\ \A t \in Elements(microtasks) : MayPrecede(t, [op |-> "connectError", of |-> a])
  BY RejectDrops
<1>2. TasksKept /\ FramesKept
  BY <1>1, DroppedData
<1>3. op \in TaskOps /\ op \notin SignTasks
  BY DEF TaskOps, SignTasks
<1>4. /\ microtasks # <<>> /\ Head(microtasks).op = op
      /\ Elements(microtasks) = {Head(microtasks)} \cup Elements(Tail(microtasks))
      /\ \A t \in Elements(Tail(microtasks)) : t \in Tasks /\ TaskOk(t)
  BY <1>3, DueFacts
<1>5. \A t \in Elements(Tail(microtasks)) :
        TaskOk(t)' /\ MayPrecede(t, [op |-> "connectError", of |-> a])
  BY <1>1, <1>2, <1>4 DEF TasksKept
<1>6. /\ QueueOk'
      /\ \A t \in Elements(microtasks) : t # Head(microtasks) => t \in Elements(microtasks')
  BY <1>1, <1>4, <1>5, QueueRunsOn DEF TaskOps
<1>7. StackOk' /\ SignsKept
  BY <1>2, <1>3, <1>4, <1>6, StackFromParts, SignsStay
<1> QED
  BY <1>1, <1>6, <1>7, DroppedAgrees

LEMMA CancelDrops ==
  ASSUME Known, NEW C \in SUBSET Clients, Cancel(C),
         \A c \in C : attempt[c] # None /\ state[attempt[c]] = "pending",
         UNCHANGED <<begun, socket, authing, attached, nexts, closed, told, heard>>
  PROVE  \E M, S : Dropped(M, S)
<1> PICK M : M = {attempt[c] : c \in C}
  OBVIOUS
<1>1. /\ state' = [x \in Attempts |-> IF x \in M THEN "cancelled" ELSE state[x]]
      /\ Discard(M \cap attached)
      /\ attempt' = [c \in Clients |-> IF c \in C THEN None ELSE attempt[c]]
  BY DEF Cancel
<1>2. /\ attempt \in [Clients -> Attempts \cup {None}] /\ None \notin Attempts
      /\ \A c \in Clients : attempt[c] # None => Client(attempt[c]) = c
  BY PairingAssumption DEF Known, PairingInv, TypeOK, DataTypeOK, AttemptsKept
<1>3. M \in SUBSET Attempts /\ \A x \in M : state[x] = "pending"
  BY <1>2
<1>4. \A x \in Attempts : Live(x)' <=> Live(x) /\ x \notin M
  <2> SUFFICES ASSUME NEW x \in Attempts PROVE Live(x)' <=> Live(x) /\ x \notin M
    OBVIOUS
  <2>1. Client(x) \in Clients /\ x # None
    BY <1>2, AttemptClient
  <2>2. x \in M => Client(x) \in C
    BY <1>2
  <2>3. attempt[Client(x)] = x /\ Client(x) \in C => x \in M
    OBVIOUS
  <2>4. attempt'[Client(x)] = IF Client(x) \in C THEN None ELSE attempt[Client(x)]
    BY <1>1, <2>1
  <2> QED
    BY <2>1, <2>2, <2>3, <2>4 DEF Live
<1>5. /\ \A x \in M : state'[x] = "cancelled"
      /\ \A x \in Attempts \ M : state'[x] = state[x]
      /\ \A c \in Clients : attempt'[c] \in {attempt[c], None}
  BY <1>1, <1>3
<1>6. Dropped(M, M \cap attached)
  BY <1>1, <1>3, <1>4, <1>5 DEF Dropped
<1> QED
  BY <1>6

LEMMA CancelAttemptAgrees ==
  ASSUME Known, NEW c \in Clients, CancelAttempt(c)
  PROVE  RosterInv'
<1>1. /\ Cancel({c}) /\ attempt[c] # None /\ state[attempt[c]] = "pending"
      /\ UNCHANGED <<begun, socket, authing, attached, nexts, closed, told, heard>>
      /\ UNCHANGED <<microtasks, stack>>
  BY DEF CancelAttempt
<1>2. PICK M, S : Dropped(M, S)
  BY <1>1, CancelDrops
<1>3. TasksKept /\ FramesKept
  BY <1>2, DroppedData
<1>4. QueueOk' /\ StackOk' /\ SignsKept
  BY <1>1, <1>3, QueueFromParts, StackFromParts, SignsStay
<1> QED
  BY <1>2, <1>4, DroppedAgrees

LEMMA CancelGroupAgrees ==
  ASSUME Known, NEW a \in Attempts, CancelGroup(a)
  PROVE  RosterInv'
<1>0. PICK C : C = {c \in Group(a) \cap pendingClients : ~Owns(c, a)}
  OBVIOUS
<1> PICK f : f = Window("initiator", a)
  OBVIOUS
<1>1. /\ Cancel(C) /\ Top("group", a) /\ Continue(f)
      /\ UNCHANGED <<begun, socket, authing, attached, nexts, closed, told, heard>>
      /\ UNCHANGED microtasks
  BY <1>0 DEF CancelGroup
<1>2. C \in SUBSET Clients /\ \A c \in C : attempt[c] # None /\ state[attempt[c]] = "pending"
  BY <1>0 DEF Known, PairingInv, ManagerKnowsGroup
<1>3. PICK M, S : Dropped(M, S)
  BY <1>1, <1>2, CancelDrops
<1>4. TasksKept /\ FramesKept
  BY <1>3, DroppedData
<1>5. /\ stack # <<>> /\ Head(stack) \in Frames /\ FrameOk(Head(stack))
      /\ Head(stack).op = "group" /\ Head(stack).of = a
      /\ \A g \in Elements(Tail(stack)) : g \in Frames /\ FrameOk(g)
  BY <1>1, TopFacts DEF Loops
<1>6. f \in Frames /\ f.op = "initiator" /\ f.of = a
  BY DEF Window, Frame, Frames, Loops
<1>7. FrameOk(f)'
  <2>1. FrameOk(f)
    BY <1>5, <1>6 DEF FrameOk, Callers, Teardowns
  <2> QED
    BY <1>4, <1>6, <2>1 DEF FramesKept
<1>8. \A g \in Elements(Tail(stack)) : FrameOk(g)'
  BY <1>4, <1>5 DEF FramesKept
<1>9. /\ StackOk' /\ Elements(stack) = {Head(stack)} \cup Elements(Tail(stack))
      /\ Elements(stack') = {f} \cup Elements(Tail(stack))
  BY <1>1, <1>5, <1>6, <1>7, <1>8, StackContinues DEF Teardowns
<1>10. QueueOk' /\ SignsKept
  BY <1>1, <1>4, <1>5, <1>9, QueueFromParts, SignsStay DEF SignFrames
<1> QED
  BY <1>3, <1>9, <1>10, DroppedAgrees

\* A completion of an attempt that is over, or of one whose Namespace has closed.
LEMMA CompletionFacts ==
  ASSUME Known, NEW op \in Completions, NEW a \in Attempts, Due(op, a)
  PROVE  /\ stack = <<>> /\ Elements(stack) = {} /\ microtasks # <<>>
         /\ Head(microtasks).op = op
         /\ Elements(microtasks) = {Head(microtasks)} \cup Elements(Tail(microtasks))
         /\ a \in attached /\ nexts[a] >= 1 /\ told[a] = "nothing" /\ ~Established(a)
         /\ a \notin roster /\ a \notin torn
         /\ \A t \in Elements(Tail(microtasks)) :
              t \in Tasks /\ TaskOk(t) /\ MayPrecede([op |-> op, of |-> a], t)
<1>1. op \in TaskOps
  BY DEF Completions, TaskOps
<1>2. /\ stack = <<>> /\ Elements(stack) = {} /\ microtasks # <<>>
      /\ Head(microtasks).op = op /\ Head(microtasks) = [op |-> op, of |-> a]
      /\ Elements(microtasks) = {Head(microtasks)} \cup Elements(Tail(microtasks))
      /\ TaskOk([op |-> op, of |-> a])
      /\ \A t \in Elements(Tail(microtasks)) :
           t \in Tasks /\ TaskOk(t) /\ MayPrecede([op |-> op, of |-> a], t)
  BY <1>1, DueFacts
<1>3. nexts[a] >= 1 /\ told[a] = "nothing"
  BY <1>2 DEF TaskOk
<1>4. a \in attached
  BY <1>2, TaskFacts
<1>5. a \notin roster /\ a \notin torn /\ state[a] # "connected"
  BY <1>3, AttemptFacts DEF AttemptOk
<1>6. ~Established(a)
  BY <1>5 DEF Established
<1> QED
  BY <1>2, <1>3, <1>4, <1>5, <1>6

LEMMA StaleCompletionAgrees ==
  ASSUME Known, NEW a \in Attempts, RunAccept(a), ~Pending(a)
  PROVE  RosterInv'
<1>0. "accept" \in Completions /\ Due("accept", a)
  BY DEF RunAccept, Completions
<1>1. /\ Due("accept", a)
      /\ a \in attached /\ ~Established(a) /\ microtasks # <<>>
      /\ Elements(stack) = {} /\ Head(microtasks).op = "accept"
      /\ \A t \in Elements(Tail(microtasks)) : t \in Tasks /\ TaskOk(t)
  BY <1>0, CompletionFacts
<1>2. state[a] # "connected" /\ ~Live(a)
  BY <1>1, LiveFacts DEF Known
<1>3. /\ Discard({a}) /\ Consume(<<>>) /\ UNCHANGED stack
      /\ UNCHANGED <<clientVars, attemptVars, closed, told, heard>>
  BY <1>1, <1>2 DEF RunAccept
<1>4. Dropped({}, {a})
  BY <1>1, <1>2, <1>3 DEF Dropped, clientVars, attemptVars, Live
<1>5. TasksKept /\ FramesKept
  BY <1>4, DroppedData
<1>6. \A t \in Elements(Tail(microtasks)) : TaskOk(t)'
  BY <1>1, <1>5 DEF TasksKept
<1>7. QueueOk' /\ Elements(microtasks) = {Head(microtasks)} \cup Elements(microtasks')
  BY <1>1, <1>3, <1>6, QueueRuns
<1>8. StackOk' /\ SignsKept
  BY <1>1, <1>3, <1>5, <1>7, StackFromParts, SignsStay DEF SignTasks
<1> QED
  BY <1>4, <1>7, <1>8, DroppedAgrees

LEMMA RefuseAgrees ==
  ASSUME Known, NEW a \in Attempts, RunRefuse(a)
  PROVE  RosterInv'
<1>0. "refuse" \in Completions /\ Due("refuse", a)
  BY DEF RunRefuse, Completions
<1>1. /\ Due("refuse", a) /\ ~Established(a) /\ microtasks # <<>>
      /\ Head(microtasks).op = "refuse"
      /\ \A t \in Elements(Tail(microtasks)) : t \in Tasks /\ TaskOk(t)
  BY <1>0, CompletionFacts
<1>2. CASE Pending(a)
  BY <1>1, <1>2, RejectTaskAgrees DEF RunRefuse
<1>3. CASE ~Pending(a)
  <2>1. DataSame /\ UNCHANGED <<nexts, stack>> /\ Consume(<<>>)
    BY <1>1, <1>3 DEF RunRefuse, DataSame, clientVars, attemptVars, serverVars, rosterVars
  <2>2. DataKept /\ TasksKept /\ FramesKept
    BY <2>1, Quiet
  <2>3. \A t \in Elements(Tail(microtasks)) : TaskOk(t)'
    BY <1>1, <2>2 DEF TasksKept
  <2>4. QueueOk' /\ Elements(microtasks) = {Head(microtasks)} \cup Elements(microtasks')
    BY <1>1, <2>1, <2>3, QueueRuns
  <2>5. StackOk' /\ SignsKept
    BY <1>1, <2>1, <2>2, <2>4, StackFromParts, SignsStay DEF SignTasks
  <2> QED
    BY <2>2, <2>4, <2>5, Assembled
<1> QED
  BY <1>2, <1>3

-----------------------------------------------------------------------------
(* Attempts that begin.                                                    *)

LEMMA ConnectAgrees ==
  ASSUME Known, NEW c \in Clients, Connect(c)
  PROVE  RosterInv'
<1>0. PICK a : a = <<c, begun[c] + 1>>
  OBVIOUS
<1>1. /\ c \notin online /\ begun[c] < MaxAttempts
      /\ attempt[c] # None => state[attempt[c]] # "pending"
      /\ begun' = [begun EXCEPT ![c] = @ + 1]
      /\ attempt' = [attempt EXCEPT ![c] = a]
      /\ state' = [state EXCEPT ![a] = "pending"]
      /\ Defer(Task("pair", a))
      /\ UNCHANGED <<socket, authing, attached, nexts, stack, told, heard, active, srvConnected,
                     cleaned, torn, closing, roster, idRoom, closed>>
  BY <1>0 DEF Connect, serverVars, rosterVars
<1>2. /\ begun \in [Clients -> 0..MaxAttempts] /\ MaxAttempts \in Nat
      /\ attempt \in [Clients -> Attempts \cup {None}] /\ state \in [Attempts -> States]
  BY Bounds DEF Known, PairingInv, TypeOK, DataTypeOK
<1>3. a \in Attempts /\ Client(a) = c /\ a[2] = begun[c] + 1
  BY <1>0, <1>1, <1>2 DEF Attempts, Client
<1>4. state[a] = "unused"
  <2>1. a[2] > begun[Client(a)]
    BY <1>2, <1>3
  <2> QED
    BY <1>3, <2>1 DEF Known, PairingInv, AttemptsKept
<1>5. a \notin attached /\ a \notin authing /\ a \notin cleaned /\ told[a] = "nothing"
      /\ heard[a] = "nothing"
  BY <1>3, <1>4, AttemptFacts DEF Known, RosterInv, NumbersOk, AttemptOk, HeardOk
<1>6. attempt[c] = None
  <2> SUFFICES ASSUME attempt[c] # None PROVE FALSE
    OBVIOUS
  <2>1. state[attempt[c]] = "connected" /\ Client(attempt[c]) = c /\ attempt[c] \in Attempts
    BY <1>1, <1>2 DEF Known, PairingInv, AttemptsKept
  <2> QED
    BY <1>1, <2>1, LiveFacts DEF Known, Established
<1>7. /\ state'[a] = "pending" /\ \A x \in Attempts : x # a => state'[x] = state[x]
      /\ attempt'[c] = a /\ \A d \in Clients : d # c => attempt'[d] = attempt[d]
      /\ begun'[c] = begun[c] + 1 /\ \A d \in Clients : d # c => begun'[d] = begun[d]
  BY <1>1, <1>2, <1>3
<1>8. \A x \in Attempts : Live(x)' <=> Live(x) \/ x = a
  <2> SUFFICES ASSUME NEW x \in Attempts PROVE Live(x)' <=> Live(x) \/ x = a
    OBVIOUS
  <2>1. Client(x) \in Clients /\ x # None
    BY AttemptClient, PairingAssumption
  <2> QED
    BY <1>3, <1>6, <1>7, <2>1 DEF Live
<1>9. \A x : (OnlyHeard(x)' <=> OnlyHeard(x)) /\ (Latest(x)' <=> Latest(x))
  BY <1>1 DEF OnlyHeard, Latest
<1>10. NumbersOk'
  <2>1. \A d \in Clients : attempt'[d] # None => attempt'[d][2] = begun'[d]
    <3> SUFFICES ASSUME NEW d \in Clients, attempt'[d] # None PROVE attempt'[d][2] = begun'[d]
      OBVIOUS
    <3>1. CASE d = c
      BY <1>3, <1>7, <3>1
    <3>2. CASE d # c
      BY <1>7, <3>2 DEF Known, RosterInv, NumbersOk
    <3> QED
      BY <3>1, <3>2
  <2>2. \A x \in Attempts : state'[x] = "unused" => x \notin attached' /\ x \notin authing'
    BY <1>1, <1>7 DEF Known, RosterInv, NumbersOk
  <2> QED
    BY <2>1, <2>2 DEF NumbersOk
<1>11. ClosingOk'
  BY <1>1, <1>9 DEF Known, RosterInv, ClosingOk
<1>12. AttemptsOk'
  <2> SUFFICES ASSUME NEW x \in Attempts PROVE AttemptOk(x)' /\ HeardOk(x)'
    BY DEF AttemptsOk
  <2>1. AttemptOk(x)'
    BY <1>1, <1>5, <1>7, <1>8, AttemptFacts DEF AttemptOk
  <2>2. HeardOk(x)'
    BY <1>1, <1>5, <1>7, AttemptFacts DEF HeardOk
  <2> QED
    BY <2>1, <2>2
<1>13. TasksKept
  <2> SUFFICES ASSUME NEW t \in Tasks, TaskOk(t) PROVE TaskOk(t)'
    BY DEF TasksKept
  <2>1. t.of \in Attempts
    BY DEF Tasks
  <2>2. t.of = a => t.op \notin {"pair", "connectError"}
    BY <1>4 DEF TaskOk
  <2>3. t.of # a => state'[t.of] = state[t.of] /\ (Live(t.of)' <=> Live(t.of))
    BY <1>7, <1>8, <2>1
  <2>4. t.of = a => t.op # "teardown"
    BY <1>5 DEF TaskOk
  <2> QED
    BY <1>1, <1>9, <2>2, <2>3, <2>4 DEF TaskOk
<1>14. FramesKept
  <2> SUFFICES ASSUME NEW f \in Frames, FrameOk(f) PROVE FrameOk(f)'
    BY DEF FramesKept
  <2>1. f.of \in Attempts
    BY DEF Frames
  <2>2. f.of = a => state'[f.of] = "pending" /\ told[f.of] = "nothing"
    BY <1>5, <1>7
  <2>3. f.of # a => state'[f.of] = state[f.of] /\ (Live(f.of)' <=> Live(f.of))
    BY <1>7, <1>8, <2>1
  <2> QED
    BY <1>1, <1>9, <2>2, <2>3 DEF FrameOk, Callers, Teardowns
<1>15. TaskOk([op |-> "pair", of |-> a])'
  BY <1>1, <1>5, <1>7 DEF TaskOk, Completions, Leaves
<1>16. \A t \in Elements(microtasks) : MayPrecede(t, [op |-> "pair", of |-> a])
  <2>1. ~TaskOk([op |-> "pair", of |-> a])
    BY <1>4 DEF TaskOk
  <2> QED
    BY <1>3, <2>1, OnceQueued DEF TaskOps, Leaves, Completions
<1>17. QueueOk' /\ Elements(microtasks) \subseteq Elements(microtasks')
  BY <1>1, <1>3, <1>13, <1>15, <1>16, QueueGrows DEF TaskOps
<1>18. StackOk' /\ SignsKept
  BY <1>1, <1>14, <1>17, StackFromParts, SignsStay
<1>19. MembersOk'
  <2> SUFFICES ASSUME NEW x \in Attempts PROVE RosterOk(x)' /\ LiveOk(x)'
    BY DEF MembersOk
  <2>1. RosterOk(x)'
    BY <1>1, <1>8, <1>9, <1>18, AttemptFacts DEF RosterOk, SignsKept
  <2>2. CASE x = a
    BY <1>1, <1>5, <2>1, <2>2 DEF LiveOk
  <2>3. CASE x # a
    BY <1>1, <1>7, <1>8, <1>18, <2>1, <2>3, AttemptFacts DEF LiveOk, SignsKept
  <2> QED
    BY <2>1, <2>2, <2>3
<1> QED
  BY <1>10, <1>11, <1>12, <1>17, <1>18, <1>19 DEF RosterInv

\* A Socket is constructed for a pending attempt.  The one that the client refers to is
\* not newer than an attempt whose Socket the application holds.
LEMMA AttachData ==
  ASSUME Known, NEW a \in Attempts, Pending(a), ~closed, a \notin attached, Attach(a)
  PROVE  /\ DataKept
         /\ \A t \in Tasks : TaskOk(t) /\ ~(t.op = "pair" /\ t.of = a) => TaskOk(t)'
         /\ a \in authing \/ stack = <<>> => \A f \in Elements(stack) : FrameOk(f)'
         /\ told[a] = "nothing" /\ nexts'[a] \in {nexts[a], 1} /\ UNCHANGED told
<1>1. /\ attached' = attached \cup {a} /\ active' = active \cup {a}
      /\ UNCHANGED <<begun, attempt, socket, state, authing, srvConnected, cleaned, torn,
                     closing, roster, idRoom, closed, told, heard>>
      /\ nexts' = nexts \/ nexts' = [nexts EXCEPT ![a] = 1]
  BY DEF Attach, clientVars, rosterVars
<1>2. nexts \in [Attempts -> 0..MaxNext] /\ MaxNext \in Nat
  BY Bounds DEF Known, PairingInv, TypeOK, DataTypeOK
<1>3. \A x \in Attempts : (nexts[x] >= 1 => nexts'[x] >= 1) /\ (x # a => nexts'[x] = nexts[x])
  BY <1>1, <1>2
<1>4. state[a] = "pending" /\ Live(a) /\ told[a] = "nothing" /\ a \notin roster /\ a \notin torn
  BY AttemptFacts, LiveFacts DEF AttemptOk, Known
<1>5. \A x : /\ Live(x)' <=> Live(x)
             /\ OnlyHeard(x)' <=> OnlyHeard(x)
  BY <1>1 DEF Live, OnlyHeard
<1>6. NumbersOk' /\ ClosingOk'
  BY <1>1, <1>4, <1>5 DEF Known, RosterInv, NumbersOk, ClosingOk
<1>7. AttemptsOk'
  <2> SUFFICES ASSUME NEW x \in Attempts PROVE AttemptOk(x)' /\ HeardOk(x)'
    BY DEF AttemptsOk
  <2>1. AttemptOk(x) /\ HeardOk(x)
    BY AttemptFacts
  <2> QED
    BY <1>1, <1>3, <1>5, <2>1 DEF AttemptOk, HeardOk
<1>8. SignsKept => MembersOk'
  <2> SUFFICES ASSUME SignsKept, NEW x \in Attempts PROVE RosterOk(x)' /\ LiveOk(x)'
    BY DEF MembersOk
  <2> QED
    BY <1>1, <1>5, AttemptFacts DEF RosterOk, LiveOk, SignsKept
<1>9. \A t \in Tasks : TaskOk(t) /\ ~(t.op = "pair" /\ t.of = a) => TaskOk(t)'
  <2> SUFFICES ASSUME NEW t \in Tasks, TaskOk(t), ~(t.op = "pair" /\ t.of = a)
               PROVE  TaskOk(t)'
    OBVIOUS
  <2>1. t.of \in Attempts
    BY DEF Tasks
  <2> QED
    BY <1>1, <1>3, <1>5, <2>1 DEF TaskOk
<1>10. ASSUME a \in authing \/ stack = <<>>
       PROVE  \A f \in Elements(stack) : FrameOk(f)'
  <2> SUFFICES ASSUME a \in authing, NEW f \in Elements(stack) PROVE FrameOk(f)'
    BY <1>10, NoFrames
  <2>0. FrameOk(f) /\ f.of \in Attempts
    BY StackFacts DEF Frames
  <2>1. Latest(f.of) => Latest(f.of)'
    <3> SUFFICES ASSUME Latest(f.of), NEW b \in Attempts, Newer(b, f.of)
                 PROVE  b \notin attached' /\ b \notin authing'
      BY DEF Latest
    <3>1. b \notin attached /\ b \notin authing
      BY DEF Latest
    <3> QED
      BY <1>1, <3>1
  <2> QED
    BY <1>1, <1>5, <2>0, <2>1 DEF FrameOk
<1>11. nexts'[a] \in {nexts[a], 1} /\ UNCHANGED told
  BY <1>1, <1>2
<1> QED
  BY <1>4, <1>11, <1>6, <1>7, <1>8, <1>9, <1>10 DEF DataKept

\* The acceptance of a chain without middleware.
LEMMA AdmittedTask ==
  ASSUME Known, NEW a \in Attempts, a \notin attached, told[a] = "nothing"
  PROVE  \A t \in Elements(microtasks) : MayPrecede(t, [op |-> "accept", of |-> a])
<1> SUFFICES ASSUME NEW t \in Elements(microtasks)
             PROVE  MayPrecede(t, [op |-> "accept", of |-> a])
  OBVIOUS
<1>1. t.op \in Completions => t.of # a
  BY TaskFacts
<1> QED
  BY <1>1 DEF MayPrecede, Completions, Leaves

LEMMA ResolveAuthAgrees ==
  ASSUME Known, NEW a \in Attempts, ResolveAuth(a)
  PROVE  RosterInv'
<1>1. a \in authing /\ Pending(a) /\ UNCHANGED stack
  BY DEF ResolveAuth
<1>2. CASE Reject(a) /\ Defer(Task("connectError", a))
  BY <1>1, <1>2, RejectNowAgrees
<1>3. CASE ~closed /\ a \notin attached /\ Attach(a) /\ Defer(Admitted(a))
  <2>1. /\ DataKept /\ \A t \in Tasks : TaskOk(t) /\ ~(t.op = "pair" /\ t.of = a) => TaskOk(t)'
        /\ \A f \in Elements(stack) : FrameOk(f)'
        /\ told[a] = "nothing" /\ nexts'[a] \in {nexts[a], 1} /\ UNCHANGED told
    BY <1>1, <1>3, AttachData
  <2>2. \A t \in Elements(microtasks) : t \in Tasks /\ TaskOk(t) /\ ~(t.op = "pair" /\ t.of = a)
    BY <1>1, TaskFacts DEF TaskOk
  <2>3. \A t \in Elements(microtasks) : TaskOk(t)'
    BY <2>1, <2>2
  <2>4. StackOk'
    BY <1>1, <2>1, StackFacts DEF StackOk
  <2>5. QueueOk' /\ Elements(microtasks) \subseteq Elements(microtasks')
    <3>1. CASE Middlewares = 0
      <4> PICK t : t = [op |-> "accept", of |-> a]
        OBVIOUS
      <4>1. nexts'[a] = 1
        <5>1. nexts' = [nexts EXCEPT ![a] = 1]
          BY <1>3, <3>1 DEF Attach
        <5> QED
          BY <5>1 DEF Known, PairingInv, TypeOK, DataTypeOK
      <4>2. TaskOk(t)'
        BY <2>1, <4>1 DEF TaskOk, Completions, Leaves
      <4>3. Task("accept", a) \in Seq(Tasks) /\ Elements(Task("accept", a)) = {t}
            /\ Pairwise(Task("accept", a), Precedes) /\ Defer(Task("accept", a))
        BY <1>3, <3>1, TaskElements DEF TaskOps, Admitted
      <4>4. \A u \in Elements(microtasks) : MayPrecede(u, t)
        BY <1>3, <2>1, AdmittedTask
      <4>5. /\ Elements(microtasks') = Elements(microtasks) \cup {t}
            /\ Pairwise(microtasks', Precedes)
        BY <4>3, <4>4, Deferred
      <4> QED
        BY <2>3, <4>2, <4>5 DEF QueueOk
    <3>2. CASE Middlewares # 0
      <4>1. microtasks' = microtasks
        BY <1>3, <3>2 DEF Admitted, Defer, Known, PairingInv, TypeOK
      <4> QED
        BY <2>3, <4>1 DEF QueueOk, Known, RosterInv
    <3> QED
      BY <3>1, <3>2
  <2>6. SignsKept
    BY <1>1, <2>5, SignsStay
  <2> QED
    BY <2>1, <2>4, <2>5, <2>6, Assembled
<1> QED
  BY <1>2, <1>3 DEF ResolveAuth

\* The task that pairs an attempt runs once.
LEMMA PairTask ==
  ASSUME Known, NEW a \in Attempts, Due("pair", a)
  PROVE  /\ stack = <<>> /\ microtasks # <<>> /\ Head(microtasks).op = "pair"
         /\ a \notin attached /\ a \notin authing
         /\ Elements(microtasks) = {Head(microtasks)} \cup Elements(Tail(microtasks))
         /\ \A t \in Elements(Tail(microtasks)) :
              t \in Tasks /\ TaskOk(t) /\ ~(t.op = "pair" /\ t.of = a)
<1> PICK op : op = "pair"
  OBVIOUS
<1>1. op \in TaskOps /\ op \notin Leaves /\ Due(op, a)
  BY DEF TaskOps, Leaves
<1>2. /\ stack = <<>> /\ microtasks # <<>> /\ Head(microtasks).op = op
      /\ TaskOk([op |-> op, of |-> a])
      /\ Elements(microtasks) = {Head(microtasks)} \cup Elements(Tail(microtasks))
      /\ \A t \in Elements(Tail(microtasks)) :
           t \in Tasks /\ TaskOk(t) /\ MayPrecede([op |-> op, of |-> a], t)
  BY <1>1, DueFacts
<1>3. a \notin attached /\ a \notin authing
  BY <1>2 DEF TaskOk
<1>4. \A t \in Elements(Tail(microtasks)) : ~(t.op = op /\ t.of = a)
  BY <1>1, <1>2 DEF MayPrecede
<1> QED
  BY <1>2, <1>3, <1>4

LEMMA AskingAgrees ==
  ASSUME Known, NEW a \in Attempts, Due("pair", a), Pending(a), authing' = authing \cup {a},
         UNCHANGED <<begun, attempt, socket, state, attached, active, srvConnected, cleaned,
                     torn, closing, roster, idRoom, closed, told, heard>>,
         UNCHANGED <<nexts, stack>>, Consume(<<>>)
  PROVE  RosterInv'
<1>1. UNCHANGED <<begun, attempt, socket, state, attached, active, srvConnected, cleaned,
                  torn, closing, roster, idRoom, closed, told, heard, nexts>>
  OBVIOUS
<1>2. /\ stack = <<>> /\ microtasks # <<>> /\ Head(microtasks).op = "pair"
      /\ \A t \in Elements(Tail(microtasks)) :
           t \in Tasks /\ TaskOk(t) /\ ~(t.op = "pair" /\ t.of = a)
  BY PairTask
<1>3. \A x : (Live(x)' <=> Live(x)) /\ (OnlyHeard(x)' <=> OnlyHeard(x))
  BY <1>1 DEF Live, OnlyHeard
<1>4. NumbersOk' /\ ClosingOk'
  BY <1>1, <1>3 DEF Known, RosterInv, NumbersOk, ClosingOk, Pending
<1>5. AttemptsOk'
  <2> SUFFICES ASSUME NEW x \in Attempts PROVE AttemptOk(x)' /\ HeardOk(x)'
    BY DEF AttemptsOk
  <2> QED
    BY <1>1, <1>3, AttemptFacts DEF AttemptOk, HeardOk
<1>6. SignsKept => MembersOk'
  <2> SUFFICES ASSUME SignsKept, NEW x \in Attempts PROVE RosterOk(x)' /\ LiveOk(x)'
    BY DEF MembersOk
  <2> QED
    BY <1>1, <1>3, AttemptFacts DEF RosterOk, LiveOk, SignsKept
<1>7. \A t \in Elements(Tail(microtasks)) : TaskOk(t)'
  BY <1>1, <1>2, <1>3 DEF TaskOk
<1>8. QueueOk' /\ Elements(microtasks) = {Head(microtasks)} \cup Elements(microtasks')
  BY <1>2, <1>7, QueueRuns
<1>9. StackOk'
  BY <1>2, NoFrames DEF StackOk, Known, RosterInv
<1>10. SignsKept
  BY <1>2, <1>8, SignsStay DEF SignTasks
<1> QED
  BY <1>4, <1>5, <1>6, <1>8, <1>9, <1>10, Assembled DEF DataKept

LEMMA PairAgrees ==
  ASSUME Known, NEW a \in Attempts, RunPair(a)
  PROVE  RosterInv'
<1>1. Due("pair", a) /\ UNCHANGED stack
  BY DEF RunPair
<1>2. /\ stack = <<>> /\ microtasks # <<>> /\ Head(microtasks).op = "pair"
      /\ a \notin attached /\ a \notin authing
      /\ Elements(microtasks) = {Head(microtasks)} \cup Elements(Tail(microtasks))
      /\ \A t \in Elements(Tail(microtasks)) :
           t \in Tasks /\ TaskOk(t) /\ ~(t.op = "pair" /\ t.of = a)
  BY <1>1, PairTask
<1>3. CASE ~Pending(a)
  <2>1. DataSame /\ UNCHANGED <<nexts, stack>> /\ Consume(<<>>)
    BY <1>3 DEF RunPair, DataSame, clientVars, attemptVars, serverVars, rosterVars
  <2>2. DataKept /\ TasksKept /\ FramesKept
    BY <2>1, Quiet
  <2>3. \A t \in Elements(Tail(microtasks)) : TaskOk(t)'
    BY <1>2, <2>2 DEF TasksKept
  <2>4. QueueOk' /\ Elements(microtasks) = {Head(microtasks)} \cup Elements(microtasks')
    BY <1>2, <2>1, <2>3, QueueRuns
  <2>5. StackOk' /\ SignsKept
    BY <1>2, <2>1, <2>2, <2>4, StackFromParts, SignsStay DEF SignTasks
  <2> QED
    BY <2>2, <2>4, <2>5, Assembled
<1>4. CASE Pending(a) /\ closed
  BY <1>1, <1>4, RejectTaskAgrees DEF RunPair
<1>5. CASE Pending(a) /\ ~closed /\ CallbackAuth
  <2>1. /\ authing' = authing \cup {a} /\ UNCHANGED nexts /\ Consume(<<>>)
        /\ UNCHANGED <<begun, attempt, socket, state, attached, active, srvConnected,
                       cleaned, torn, closing, roster, idRoom, closed, told, heard>>
    BY <1>5 DEF RunPair, clientVars, serverVars, rosterVars
  <2> QED
    BY <1>1, <1>5, <2>1, AskingAgrees
<1>6. CASE Pending(a) /\ ~closed /\ ~CallbackAuth
  <2>0. Attach(a) /\ Consume(Admitted(a))
    BY <1>6 DEF RunPair
  <2>1. /\ DataKept /\ \A t \in Tasks : TaskOk(t) /\ ~(t.op = "pair" /\ t.of = a) => TaskOk(t)'
        /\ \A f \in Elements(stack) : FrameOk(f)'
        /\ told[a] = "nothing" /\ nexts'[a] \in {nexts[a], 1} /\ UNCHANGED told
    BY <1>2, <1>6, <2>0, AttachData
  <2>2. \A t \in Elements(Tail(microtasks)) : TaskOk(t)'
    BY <1>2, <2>1
  <2>3. StackOk'
    BY <1>1, <1>2, NoFrames DEF StackOk, Known, RosterInv
  <2>4. /\ QueueOk'
        /\ \A t \in Elements(microtasks) : t # Head(microtasks) => t \in Elements(microtasks')
    <3>1. CASE Middlewares = 0
      <4>0. PICK t : t = [op |-> "accept", of |-> a]
        OBVIOUS
      <4>1. nexts'[a] = 1
        <5>1. nexts' = [nexts EXCEPT ![a] = 1]
          BY <2>0, <3>1 DEF Attach
        <5> QED
          BY <5>1 DEF Known, PairingInv, TypeOK, DataTypeOK
      <4>2. TaskOk(t)'
        BY <2>1, <4>0, <4>1 DEF TaskOk, Completions, Leaves
      <4>3. \A u \in Elements(Tail(microtasks)) : TaskOk(u)' /\ MayPrecede(u, t)
        BY <1>2, <2>1, <2>2, <4>0, AdmittedTask
      <4>4. "accept" \in TaskOps /\ Consume(Task("accept", a))
        BY <2>0, <3>1 DEF TaskOps, Admitted
      <4> QED
        BY <1>2, <4>0, <4>2, <4>3, <4>4, QueueRunsOn
    <3>2. CASE Middlewares # 0
      <4>1. Consume(<<>>)
        BY <2>0, <3>2 DEF Admitted
      <4> QED
        BY <1>2, <2>2, <4>1, QueueRuns
    <3> QED
      BY <3>1, <3>2
  <2>5. SignsKept
    BY <1>1, <1>2, <2>4, SignsStay DEF SignTasks
  <2> QED
    BY <2>1, <2>3, <2>4, <2>5, Assembled
<1> QED
  BY <1>3, <1>4, <1>5, <1>6
-----------------------------------------------------------------------------
(* A Socket is accepted, and what it was told afterwards.                  *)

\* A Socket joins the roster after every other Socket of its client has left it: the
\* teardown of the old connection was queued before the acceptance of the new one.
LEMMA OthersHaveLeft ==
  ASSUME Known, NEW a \in Attempts, Due("accept", a), Pending(a), ~closed
  PROVE  /\ \A x \in roster : ~Newer(a, x)
         /\ \A t \in Elements(Tail(microtasks)) :
              t \in Tasks /\ TaskOk(t) /\ t.op \in Leaves => ~Newer(a, t.of)
<1>0. "accept" \in Completions
  BY DEF Completions
<1>1. /\ stack = <<>> /\ Elements(stack) = {} /\ Head(microtasks).op = "accept"
      /\ Elements(microtasks) = {Head(microtasks)} \cup Elements(Tail(microtasks))
      /\ \A t \in Elements(Tail(microtasks)) : MayPrecede([op |-> "accept", of |-> a], t)
  BY <1>0, CompletionFacts
<1>2. \A t \in Elements(Tail(microtasks)) :
        t.op \in {"teardown", "clientLeave"} => ~Newer(a, t.of)
  BY <1>1 DEF MayPrecede
<1>3. \A t \in Elements(Tail(microtasks)) :
        t \in Tasks /\ TaskOk(t) /\ t.op \in Leaves => ~Newer(a, t.of)
  BY <1>2 DEF TaskOk, Leaves
<1>4. ASSUME NEW x \in roster, Newer(a, x) PROVE FALSE
  <2>1. x \in Attempts /\ RosterOk(x) /\ Client(x) = Client(a) /\ a[2] > x[2]
    BY <1>4, AttemptFacts DEF Newer, Known, PairingInv, TypeOK, DataTypeOK
  <2>2. x # a
    BY <2>1, Bounds DEF Attempts
  <2>3. ~Live(x)
    BY <2>1, <2>2 DEF Live, Pending
  <2>4. \A op : ~Held(op, x)
    BY <1>1 DEF Held
  <2>5. Queued("teardown", x)
    BY <2>1, <2>3, <2>4 DEF RosterOk, Ending
  <2>6. PICK t \in Elements(microtasks) : t.op = "teardown" /\ t.of = x
    BY <2>5 DEF Queued
  <2>7. t \in Elements(Tail(microtasks))
    BY <1>1, <2>6
  <2> QED
    BY <1>2, <1>4, <2>6, <2>7
<1> QED
  BY <1>3, <1>4

LEMMA RegisterAgrees ==
  ASSUME Known, NEW a \in Attempts, Due("accept", a), Pending(a), ~closed, Register(a),
         Push(Window("connection", a)), Consume(<<>>),
         UNCHANGED <<clientVars, attemptVars, active, cleaned, torn, closing, closed, heard>>
  PROVE  RosterInv'
<1>0. "accept" \in Completions
  BY DEF Completions
<1>1. /\ stack = <<>> /\ Elements(stack) = {} /\ microtasks # <<>>
      /\ Head(microtasks).op = "accept"
      /\ Elements(microtasks) = {Head(microtasks)} \cup Elements(Tail(microtasks))
      /\ a \in attached /\ nexts[a] >= 1 /\ told[a] = "nothing"
      /\ a \notin roster /\ a \notin torn
      /\ \A t \in Elements(Tail(microtasks)) :
           t \in Tasks /\ TaskOk(t) /\ MayPrecede([op |-> "accept", of |-> a], t)
  BY <1>0, CompletionFacts
<1>2. /\ Live(a) /\ state[a] = "pending" /\ a \notin cleaned /\ closing = {}
      /\ \A b \in Attempts : Newer(b, a) => told[b] = "nothing"
  <2>1. Live(a) /\ state[a] = "pending"
    BY DEF Pending, Live
  <2>2. OnlyHeard(a)
    BY <2>1, LiveIsLatest, LatestOnlyHeard DEF Known, RosterInv
  <2> QED
    BY <1>1, <2>1, <2>2, AttemptFacts DEF AttemptOk, OnlyHeard, Known, RosterInv, ClosingOk
<1>3. /\ \A x \in roster : ~Newer(a, x)
      /\ \A t \in Elements(Tail(microtasks)) : t.op \in Leaves => ~Newer(a, t.of)
  BY <1>1, OthersHaveLeft
<1>4. /\ roster' = roster \cup {a} /\ idRoom' = idRoom \cup {a}
      /\ srvConnected' = srvConnected \cup {a}
      /\ told'[a] = "connection" /\ \A x \in Attempts : x # a => told'[x] = told[x]
      /\ UNCHANGED <<begun, attempt, socket, state, authing, attached, nexts, active, cleaned,
                     torn, closing, closed, heard>>
  BY <1>2 DEF Register, clientVars, attemptVars, Known, PairingInv, TypeOK, DataTypeOK
<1>5. \A x : Live(x)' <=> Live(x)
  BY <1>4 DEF Live
<1>6. \A x : OnlyHeard(x) /\ ~Newer(a, x) => OnlyHeard(x)'
  BY <1>4 DEF OnlyHeard
<1>7. NumbersOk' /\ ClosingOk'
  BY <1>2, <1>4 DEF Known, RosterInv, NumbersOk, ClosingOk
<1>8. AttemptsOk'
  <2> SUFFICES ASSUME NEW x \in Attempts PROVE AttemptOk(x)' /\ HeardOk(x)'
    BY DEF AttemptsOk
  <2>1. CASE x = a
    BY <1>1, <1>2, <1>4, <2>1, AttemptFacts DEF AttemptOk, HeardOk
  <2>2. CASE x # a
    BY <1>4, <1>5, <2>2, AttemptFacts DEF AttemptOk, HeardOk
  <2> QED
    BY <2>1, <2>2
<1>9. \A t \in Elements(Tail(microtasks)) : TaskOk(t)'
  <2> SUFFICES ASSUME NEW t \in Elements(Tail(microtasks)) PROVE TaskOk(t)'
    OBVIOUS
  <2>1. t \in Tasks /\ TaskOk(t) /\ t.of \in Attempts
    BY <1>1 DEF Tasks
  <2>2. t.of = a => t.op \notin Completions
    BY <1>1 DEF MayPrecede, Completions
  <2>3. t.of = a => t.op # "teardown" /\ t.op \notin Leaves
    BY <1>1, <2>1 DEF TaskOk
  <2>4. t.op \in Leaves => OnlyHeard(t.of)'
    BY <1>3, <1>6, <2>1 DEF TaskOk
  <2> QED
    BY <1>4, <1>5, <2>1, <2>2, <2>3, <2>4 DEF TaskOk
<1>10. QueueOk' /\ Elements(microtasks) = {Head(microtasks)} \cup Elements(microtasks')
  BY <1>1, <1>9, QueueRuns
<1>11. PICK f : f = Window("connection", a)
  OBVIOUS
<1>12. f \in Frames /\ f.op = "connection" /\ f.of = a /\ Push(f)
  BY <1>11, WindowFrame, WindowOps
<1>13. FrameOk(f)'
  BY <1>2, <1>4, <1>12 DEF FrameOk, Callers, Teardowns
<1>14. StackOk' /\ Elements(stack') = {f} \cup Elements(stack)
  BY <1>1, <1>12, <1>13, StackPushes
<1>15. SignsKept
  BY <1>1, <1>10, <1>14, SignsStay DEF SignTasks
<1>16. MembersOk'
  <2> SUFFICES ASSUME NEW x \in Attempts PROVE RosterOk(x)' /\ LiveOk(x)'
    BY DEF MembersOk
  <2>1. CASE x = a
    <3>1. RosterOk(x)'
      <4>1. ~Newer(a, a)
        BY Bounds DEF Attempts, Newer
      <4>2. OnlyHeard(a)'
        BY <1>2, <1>4, <4>1 DEF OnlyHeard
      <4> QED
        BY <1>1, <1>2, <1>4, <1>5, <2>1, <4>2 DEF RosterOk
    <3>2. Held("connection", a)'
      BY <1>12, <1>14 DEF Held
    <3>3. LiveOk(x)'
      BY <1>2, <1>4, <2>1, <3>2 DEF LiveOk
    <3> QED
      BY <3>1, <3>3
  <2>2. CASE x # a
    <3>1. RosterOk(x)'
      BY <1>3, <1>4, <1>5, <1>6, <1>15, <2>2, AttemptFacts DEF RosterOk, SignsKept
    <3>2. LiveOk(x)'
      BY <1>4, <1>5, <1>15, <2>2, AttemptFacts DEF LiveOk, SignsKept
    <3> QED
      BY <3>1, <3>2
  <2> QED
    BY <2>1, <2>2
<1> QED
  BY <1>7, <1>8, <1>10, <1>14, <1>16 DEF RosterInv

LEMMA AcceptAgrees ==
  ASSUME Known, NEW a \in Attempts, RunAccept(a)
  PROVE  RosterInv'
<1>0. "accept" \in Completions /\ Due("accept", a)
  BY DEF RunAccept, Completions
<1>1. ~Established(a)
  BY <1>0, CompletionFacts
<1>2. CASE ~Pending(a)
  BY <1>2, StaleCompletionAgrees
<1>3. CASE Pending(a) /\ closed
  BY <1>0, <1>1, <1>3, RejectTaskAgrees DEF RunAccept
<1>4. CASE Pending(a) /\ ~closed
  BY <1>0, <1>1, <1>4, RegisterAgrees DEF RunAccept
<1> QED
  BY <1>2, <1>3, <1>4

LEMMA ConnectErrorAgrees ==
  ASSUME Known, NEW a \in Attempts, RunConnectError(a)
  PROVE  RosterInv'
<1>0. PICK op : op = "connectError"
  OBVIOUS
<1>1. op \in TaskOps /\ op \notin Leaves /\ op \notin SignTasks /\ Due(op, a)
  BY <1>0 DEF RunConnectError, TaskOps, Leaves, SignTasks
<1>2. /\ stack = <<>> /\ microtasks # <<>> /\ Head(microtasks).op = op
      /\ TaskOk([op |-> op, of |-> a])
      /\ \A t \in Elements(Tail(microtasks)) :
           t \in Tasks /\ TaskOk(t) /\ MayPrecede([op |-> op, of |-> a], t)
  BY <1>1, DueFacts
<1>3. state[a] = "rejected"
  BY <1>0, <1>2 DEF TaskOk
<1>4. /\ \A x \in Attempts : x # a => heard'[x] = heard[x]
      /\ Consume(<<>>)
      /\ UNCHANGED <<begun, attempt, socket, state, authing, attached, nexts, active,
                     srvConnected, cleaned, torn, closing, roster, idRoom, closed, told, stack>>
  BY DEF RunConnectError, clientVars, attemptVars, serverVars, rosterVars, Known, PairingInv,
         TypeOK, DataTypeOK
<1>5. \A x : /\ Live(x)' <=> Live(x)
             /\ OnlyHeard(x)' <=> OnlyHeard(x)
  BY <1>4 DEF Live, OnlyHeard
<1>6. NumbersOk' /\ ClosingOk'
  BY <1>4, <1>5 DEF Known, RosterInv, NumbersOk, ClosingOk
<1>7. AttemptsOk'
  <2> SUFFICES ASSUME NEW x \in Attempts PROVE AttemptOk(x)' /\ HeardOk(x)'
    BY DEF AttemptsOk
  <2> QED
    BY <1>3, <1>4, <1>5, AttemptFacts DEF AttemptOk, HeardOk
<1>8. SignsKept => MembersOk'
  <2> SUFFICES ASSUME SignsKept, NEW x \in Attempts PROVE RosterOk(x)' /\ LiveOk(x)'
    BY DEF MembersOk
  <2> QED
    BY <1>4, <1>5, AttemptFacts DEF RosterOk, LiveOk, SignsKept
<1>9. \A t \in Elements(Tail(microtasks)) : TaskOk(t)'
  <2> SUFFICES ASSUME NEW t \in Elements(Tail(microtasks)) PROVE TaskOk(t)'
    OBVIOUS
  <2>1. t.of \in Attempts /\ TaskOk(t) /\ (t.op = op => t.of # a)
    BY <1>1, <1>2 DEF Tasks, MayPrecede
  <2> QED
    BY <1>0, <1>4, <1>5, <2>1 DEF TaskOk
<1>10. QueueOk' /\ Elements(microtasks) = {Head(microtasks)} \cup Elements(microtasks')
  BY <1>2, <1>4, <1>9, QueueRuns
<1>11. StackOk'
  BY <1>2, <1>4, NoFrames DEF StackOk, Known, RosterInv
<1>12. SignsKept
  BY <1>1, <1>2, <1>4, <1>10, SignsStay
<1> QED
  BY <1>6, <1>7, <1>8, <1>10, <1>11, <1>12, Assembled DEF DataKept

\* A Socket is told that it is disconnecting.
LEMMA ToldDisconnecting ==
  ASSUME Known, NEW a \in Attempts, told[a] = "connection", torn' = torn \cup {a},
         active' = active \ {a}, told' = [told EXCEPT ![a] = "disconnecting"],
         UNCHANGED <<begun, attempt, socket, state, authing, attached, nexts, srvConnected,
                     cleaned, closing, roster, idRoom, closed, heard>>
  PROVE  /\ NumbersOk' /\ ClosingOk' /\ AttemptsOk' /\ told'[a] = "disconnecting"
         /\ \A x \in Attempts : /\ Live(x)' <=> Live(x)
                                /\ Latest(x)' <=> Latest(x)
         /\ SignsKept /\ (a \in roster => Ending(a)') => MembersOk'
         /\ \A t \in Tasks : TaskOk(t) /\ ~(t.op = "teardown" /\ t.of = a) => TaskOk(t)'
         /\ \A f \in Frames : FrameOk(f) /\ ~(f.op \in Teardowns /\ f.of = a) => FrameOk(f)'
<1>1. told'[a] = "disconnecting" /\ \A x \in Attempts : x # a => told'[x] = told[x]
  BY DEF Known, PairingInv, TypeOK, DataTypeOK
<1>2. \A x \in Attempts : told'[x] = "nothing" <=> told[x] = "nothing"
  BY <1>1
<1>3. \A x : /\ Live(x)' <=> Live(x)
             /\ OnlyHeard(x)' <=> OnlyHeard(x)
             /\ Latest(x)' <=> Latest(x)
  BY <1>2 DEF Live, OnlyHeard, Latest
<1>4. NumbersOk' /\ ClosingOk'
  BY <1>3 DEF Known, RosterInv, NumbersOk, ClosingOk
<1>5. AttemptsOk'
  <2> SUFFICES ASSUME NEW x \in Attempts PROVE AttemptOk(x)' /\ HeardOk(x)'
    BY DEF AttemptsOk
  <2>1. AttemptOk(x) /\ HeardOk(x)
    BY AttemptFacts
  <2>2. CASE x = a
    BY <1>1, <1>3, <2>1, <2>2 DEF AttemptOk, HeardOk
  <2>3. CASE x # a
    BY <1>1, <1>3, <2>1, <2>3 DEF AttemptOk, HeardOk
  <2> QED
    BY <2>2, <2>3
<1>6. ASSUME SignsKept, a \in roster => Ending(a)' PROVE MembersOk'
  <2> SUFFICES ASSUME NEW x \in Attempts PROVE RosterOk(x)' /\ LiveOk(x)'
    BY DEF MembersOk
  <2>1. RosterOk(x) /\ LiveOk(x)
    BY AttemptFacts
  <2>2. LiveOk(x)'
    BY <1>2, <1>3, <1>6, <2>1 DEF LiveOk, SignsKept
  <2>3. RosterOk(x)'
    BY <1>3, <1>6, <2>1 DEF RosterOk, SignsKept
  <2> QED
    BY <2>2, <2>3
<1>7. ASSUME NEW t \in Tasks, TaskOk(t), ~(t.op = "teardown" /\ t.of = a) PROVE TaskOk(t)'
  <2>1. t.of \in Attempts
    BY DEF Tasks
  <2>2. t.op = "teardown" => told'[t.of] = told[t.of]
    BY <1>1, <1>7, <2>1
  <2> QED
    BY <1>2, <1>3, <1>7, <2>1, <2>2 DEF TaskOk
<1>8. ASSUME NEW f \in Frames, FrameOk(f), ~(f.op \in Teardowns /\ f.of = a) PROVE FrameOk(f)'
  <2>1. f.of \in Attempts
    BY DEF Frames
  <2>2. f.op \in Teardowns \/ told[f.of] = "disconnect" => told'[f.of] = told[f.of]
    BY <1>1, <1>8, <2>1
  <2> QED
    BY <1>2, <1>3, <1>8, <2>1, <2>2 DEF FrameOk
<1> QED
  BY <1>1, <1>3, <1>4, <1>5, <1>6, <1>7, <1>8

LEMMA TeardownAgrees ==
  ASSUME Known, NEW a \in Attempts, RunTeardown(a)
  PROVE  RosterInv'
<1>0. PICK op : op = "teardown"
  OBVIOUS
<1>1. op \in TaskOps /\ op \notin Leaves /\ Due(op, a)
  BY <1>0 DEF RunTeardown, TaskOps, Leaves
<1>2. /\ stack = <<>> /\ Elements(stack) = {} /\ microtasks # <<>>
      /\ Head(microtasks).op = op /\ Head(microtasks).of = a
      /\ TaskOk([op |-> op, of |-> a])
      /\ \A t \in Elements(Tail(microtasks)) :
           t \in Tasks /\ TaskOk(t) /\ MayPrecede([op |-> op, of |-> a], t)
  BY <1>1, DueFacts
<1>3. a \in torn /\ told[a] = "connection" /\ (Live(a) => a \in closing)
  BY <1>0, <1>2 DEF TaskOk
<1>4. PICK f : f = Window("disconnecting", a)
  OBVIOUS
<1>5. /\ active' = active \ {a} /\ told' = [told EXCEPT ![a] = "disconnecting"]
      /\ Push(f) /\ Consume(<<>>) /\ torn' = torn \cup {a}
      /\ UNCHANGED <<begun, attempt, socket, state, authing, attached, nexts, srvConnected, torn,
                     cleaned, closing, roster, idRoom, closed, heard>>
  BY <1>3, <1>4 DEF RunTeardown, clientVars, attemptVars, rosterVars
<1>6. /\ NumbersOk' /\ ClosingOk' /\ AttemptsOk' /\ told'[a] = "disconnecting"
      /\ \A x \in Attempts : Live(x)' <=> Live(x)
      /\ SignsKept /\ (a \in roster => Ending(a)') => MembersOk'
      /\ \A t \in Tasks : TaskOk(t) /\ ~(t.op = "teardown" /\ t.of = a) => TaskOk(t)'
  BY <1>3, <1>5, ToldDisconnecting
<1>7. \A t \in Elements(Tail(microtasks)) : TaskOk(t)'
  BY <1>0, <1>1, <1>2, <1>6 DEF MayPrecede
<1>8. QueueOk' /\ Elements(microtasks) = {Head(microtasks)} \cup Elements(microtasks')
  BY <1>2, <1>5, <1>7, QueueRuns
<1>9. f \in Frames /\ f.op = "disconnecting" /\ f.of = a
  BY <1>4, WindowFrame, WindowOps
<1>10. FrameOk(f)'
  BY <1>3, <1>5, <1>6, <1>9 DEF FrameOk, Callers, Teardowns
<1>11. StackOk' /\ Elements(stack') = {f} \cup Elements(stack)
  BY <1>2, <1>5, <1>9, <1>10, StackPushes
<1>12. Ending(a)'
  BY <1>9, <1>11 DEF Ending, Held
<1>13. SignsKept
  <2>1. ASSUME NEW x \in Attempts, Queued("teardown", x), x # a PROVE Queued("teardown", x)'
    <3> PICK t : t = [op |-> "teardown", of |-> x]
      OBVIOUS
    <3>1. t \in Elements(microtasks) /\ t.of = x
      BY <2>1 DEF Queued
    <3>2. t \in Elements(microtasks')
      BY <1>2, <1>8, <2>1, <3>1
    <3> QED
      BY <3>2 DEF Queued
  <2>2. ASSUME NEW x \in Attempts, NEW k \in Leaves, Queued(k, x) PROVE Queued(k, x)'
    <3> PICK t : t = [op |-> k, of |-> x]
      OBVIOUS
    <3>1. t \in Elements(microtasks) /\ t.op = k
      BY <2>2 DEF Queued
    <3>2. t \in Elements(microtasks')
      BY <1>1, <1>2, <1>8, <2>2, <3>1
    <3> QED
      BY <3>2 DEF Queued
  <2>3. \A x, k : ~Held(k, x)
    BY <1>2 DEF Held
  <2>4. \A x \in Attempts : Ending(x) => Ending(x)'
    BY <1>12, <2>1, <2>3 DEF Ending
  <2>5. \A x \in Attempts : Telling(x) => Telling(x)'
    BY <2>2, <2>3 DEF Telling, Leaves
  <2> QED
    BY <2>3, <2>4, <2>5 DEF SignsKept
<1> QED
  BY <1>6, <1>8, <1>11, <1>12, <1>13 DEF RosterInv

\* A server-side disconnect starts.
LEMMA BeginTeardownAgrees ==
  ASSUME Known, NEW a \in Attempts, a \notin torn, told[a] # "nothing", Latest(a),
         BeginTeardown(a),
         UNCHANGED <<clientVars, attemptVars, srvConnected, cleaned, closing, rosterVars,
                     closed, heard, microtasks>>
  PROVE  /\ \A g \in Elements(stack) : FrameOk(g)'
         /\ \A g \in Frames : FrameOk(g) /\ g.op \notin Teardowns => FrameOk(g)'
         /\ FrameOk(Window("syncDisconnecting", a))'
         /\ (Window("syncDisconnecting", a) \in Elements(stack') /\ StackOk' /\ SignsKept)
            => RosterInv'
<1>1. told[a] = "connection"
  BY AttemptFacts DEF AttemptOk, Known, PairingInv, TypeOK, DataTypeOK
<1>2. /\ torn' = torn \cup {a} /\ active' = active \ {a}
      /\ told' = [told EXCEPT ![a] = "disconnecting"]
      /\ UNCHANGED <<begun, attempt, socket, state, authing, attached, nexts, srvConnected,
                     cleaned, closing, roster, idRoom, closed, heard>>
  BY DEF BeginTeardown, clientVars, attemptVars, rosterVars
<1>3. /\ NumbersOk' /\ ClosingOk' /\ AttemptsOk' /\ told'[a] = "disconnecting"
      /\ \A x \in Attempts : /\ Live(x)' <=> Live(x)
                             /\ Latest(x)' <=> Latest(x)
      /\ SignsKept /\ (a \in roster => Ending(a)') => MembersOk'
      /\ \A t \in Tasks : TaskOk(t) /\ ~(t.op = "teardown" /\ t.of = a) => TaskOk(t)'
      /\ \A f \in Frames : FrameOk(f) /\ ~(f.op \in Teardowns /\ f.of = a) => FrameOk(f)'
  BY <1>1, <1>2, ToldDisconnecting
<1>4. \A t \in Elements(microtasks) : TaskOk(t)'
  <2>1. \A t \in Elements(microtasks) : ~(t.op = "teardown" /\ t.of = a)
    BY TaskFacts DEF TaskOk
  <2> QED
    BY <1>3, <2>1, TaskFacts
<1>5. QueueOk'
  BY <1>4 DEF QueueOk, Known, RosterInv
<1>6. \A g \in Elements(stack) : FrameOk(g)'
  <2>1. \A g \in Elements(stack) : ~(g.op \in Teardowns /\ g.of = a)
    BY StackFacts DEF FrameOk
  <2> QED
    BY <1>3, <2>1, StackFacts
<1>7. PICK f : f = Window("syncDisconnecting", a)
  OBVIOUS
<1>8. f \in Frames /\ f.op = "syncDisconnecting" /\ f.of = a
  BY <1>7, WindowFrame, WindowOps
<1>9. FrameOk(f)'
  BY <1>2, <1>3, <1>8 DEF FrameOk, Callers, Teardowns
<1>10. f \in Elements(stack') => Ending(a)'
  BY <1>8 DEF Ending, Held
<1> QED
  BY <1>3, <1>5, <1>6, <1>7, <1>9, <1>10 DEF RosterInv

LEMMA ServerDisconnectAgrees ==
  ASSUME Known, NEW a \in Attempts, ServerDisconnect(a)
  PROVE  RosterInv'
<1>1. a \in Handles /\ a \notin torn /\ BeginTeardown(a)
      /\ UNCHANGED <<clientVars, attemptVars, srvConnected, cleaned, closing, rosterVars,
                     closed, heard, microtasks>>
  BY DEF ServerDisconnect
<1>2. told[a] # "nothing" /\ Latest(a)
  BY <1>1, HandleFacts
<1>3. PICK f : f = Window("syncDisconnecting", a)
  OBVIOUS
<1>4. f \in Frames /\ f.op = "syncDisconnecting" /\ f.of = a /\ Push(f)
  BY <1>3, WindowFrame, WindowOps DEF ServerDisconnect
<1>5. /\ \A g \in Elements(stack) : FrameOk(g)'
      /\ FrameOk(f)'
      /\ f \in Elements(stack') /\ StackOk' /\ SignsKept => RosterInv'
  BY <1>1, <1>2, <1>3, BeginTeardownAgrees
<1>6. StackOk' /\ Elements(stack') = {f} \cup Elements(stack)
  BY <1>1, <1>4, <1>5, StackPushes
<1>7. SignsKept
  BY <1>1, <1>6, SignsStay
<1> QED
  BY <1>5, <1>6, <1>7

LEMMA InitiatorAgrees ==
  ASSUME Known, NEW a \in Attempts, DisconnectInitiator(a)
  PROVE  RosterInv'
<1>1. Top("initiator", a) /\ "initiator" \in Loops
  BY DEF DisconnectInitiator, Loops
<1>2. /\ stack # <<>> /\ Head(stack) \in Frames /\ FrameOk(Head(stack))
      /\ Head(stack).op = "initiator" /\ Head(stack).of = a
      /\ Elements(stack) = {Head(stack)} \cup Elements(Tail(stack))
      /\ \A g \in Elements(Tail(stack)) : g \in Frames /\ FrameOk(g)
  BY <1>1, TopFacts
<1>3. Latest(a) /\ told[a] # "nothing"
  BY <1>2 DEF FrameOk, Callers
<1>4. CASE a \in torn
  <2>1. DataSame /\ UNCHANGED <<nexts, microtasks>> /\ Pop
    BY <1>4 DEF DisconnectInitiator, DataSame, clientVars, attemptVars, rosterVars
  <2>2. DataKept /\ TasksKept /\ FramesKept
    BY <2>1, Quiet
  <2>3. \A g \in Elements(Tail(stack)) : FrameOk(g)'
    BY <1>2, <2>2 DEF FramesKept
  <2>4. StackOk' /\ Elements(stack) = {Head(stack)} \cup Elements(stack')
    BY <1>2, <2>1, <2>3, StackPops
  <2>5. QueueOk' /\ SignsKept
    BY <1>2, <2>1, <2>2, <2>4, QueueFromParts, SignsStay DEF SignFrames
  <2> QED
    BY <2>2, <2>4, <2>5, Assembled
<1>5. CASE a \notin torn
  <2>0. PICK f : f = Window("syncDisconnecting", a)
    OBVIOUS
  <2>1. /\ BeginTeardown(a) /\ Continue(f)
        /\ UNCHANGED <<clientVars, attemptVars, srvConnected, cleaned, closing, rosterVars,
                       closed, heard, microtasks>>
    BY <1>5, <2>0 DEF DisconnectInitiator
  <2>2. /\ \A g \in Elements(stack) : FrameOk(g)'
        /\ FrameOk(f)'
        /\ f \in Elements(stack') /\ StackOk' /\ SignsKept => RosterInv'
    BY <1>3, <1>5, <2>0, <2>1, BeginTeardownAgrees
  <2>3. f \in Frames /\ f.op = "syncDisconnecting" /\ f.of = a
    BY <2>0, WindowFrame, WindowOps
  <2>4. StackOk' /\ Elements(stack') = {f} \cup Elements(Tail(stack))
    BY <1>2, <1>5, <2>1, <2>2, <2>3, StackContinues
  <2>5. SignsKept
    BY <1>2, <2>1, <2>4, SignsStay DEF SignFrames
  <2> QED
    BY <2>2, <2>4, <2>5
<1> QED
  BY <1>4, <1>5

LEMMA MemberAgrees ==
  ASSUME Known, NEW a \in Attempts, NEW c \in Clients, DisconnectMember(a, c)
  PROVE  RosterInv'
<1>0. PICK rest : rest = [Head(stack) EXCEPT !.todo = @ \ {c}]
  OBVIOUS
<1>1. Top("group", a) /\ "group" \in Loops
  BY DEF DisconnectMember, Loops
<1>2. /\ stack # <<>> /\ Head(stack) \in Frames /\ FrameOk(Head(stack))
      /\ Head(stack).op = "group" /\ Head(stack).of = a
      /\ Elements(stack) = {Head(stack)} \cup Elements(Tail(stack))
      /\ \A g \in Elements(Tail(stack)) : g \in Frames /\ FrameOk(g)
  BY <1>1, TopFacts
<1>3. rest \in Frames /\ rest.op = "group" /\ rest.of = a
  BY <1>0, <1>2 DEF Frames
<1>4. Latest(a) /\ told[a] # "nothing" /\ FrameOk(rest)
  BY <1>2, <1>3 DEF FrameOk, Callers, Teardowns
<1>5. CASE ~(c \in online /\ socket[c] \notin torn)
  <2>1. DataSame /\ UNCHANGED <<nexts, microtasks>> /\ Continue(rest)
    BY <1>0, <1>5 DEF DisconnectMember, DataSame, clientVars, attemptVars, rosterVars
  <2>2. DataKept /\ TasksKept /\ FramesKept
    BY <2>1, Quiet
  <2>3. FrameOk(rest)' /\ \A g \in Elements(Tail(stack)) : FrameOk(g)'
    BY <1>2, <1>3, <1>4, <2>2 DEF FramesKept
  <2>4. StackOk' /\ Elements(stack') = {rest} \cup Elements(Tail(stack))
    BY <1>2, <1>3, <2>1, <2>3, StackContinues DEF Teardowns
  <2>5. QueueOk' /\ SignsKept
    BY <1>2, <2>1, <2>2, <2>4, QueueFromParts, SignsStay DEF SignFrames
  <2> QED
    BY <2>2, <2>4, <2>5, Assembled
<1>6. CASE c \in online /\ socket[c] \notin torn
  <2>0. PICK b : b = socket[c]
    OBVIOUS
  <2>1. b \in Attempts /\ b \notin torn /\ state[b] = "connected"
    BY <1>6, <2>0, PairingAssumption
       DEF Known, PairingInv, ConnectedOwnsAttempt, TypeOK, DataTypeOK
  <2>2. Live(b) /\ told[b] # "nothing"
    BY <2>1, LiveFacts, AttemptFacts DEF Known, AttemptOk
  <2>3. Latest(b)
    BY <2>1, <2>2, LiveIsLatest DEF Known, RosterInv
  <2>4. PICK f : f = Window("syncDisconnecting", b)
    OBVIOUS
  <2>5. f \in Frames /\ f.op = "syncDisconnecting" /\ f.of = b
    BY <2>1, <2>4, WindowFrame, WindowOps
  <2>6. /\ BeginTeardown(b) /\ stack' = <<f, rest>> \o Tail(stack)
        /\ UNCHANGED <<clientVars, attemptVars, srvConnected, cleaned, closing, rosterVars,
                       closed, heard, microtasks>>
    BY <1>0, <1>6, <2>0, <2>4 DEF DisconnectMember
  <2>7. /\ \A g \in Elements(stack) : FrameOk(g)'
        /\ \A g \in Frames : FrameOk(g) /\ g.op \notin Teardowns => FrameOk(g)'
        /\ FrameOk(f)'
        /\ f \in Elements(stack') /\ StackOk' /\ SignsKept => RosterInv'
    BY <2>1, <2>2, <2>3, <2>4, <2>6, BeginTeardownAgrees
  <2>8. FrameOk(rest)'
    BY <1>3, <1>4, <2>7 DEF Teardowns
  <2>9. PICK below : below = <<rest>> \o Tail(stack)
    OBVIOUS
  <2>10. /\ below \in Seq(Frames) /\ Elements(below) = {rest} \cup Elements(Tail(stack))
         /\ Pairwise(below, Apart) /\ stack' = <<f>> \o below
    <3>1. Tail(stack) \in Seq(Frames) /\ Pairwise(Tail(stack), Apart)
      BY <1>2, StackFacts, TailFacts
    <3>2. \A g \in Elements(Tail(stack)) : <<rest, g>> \in Apart
      BY <1>2, <1>3 DEF Apart, Teardowns
    <3>3. Pairwise(below, Apart)
      BY <1>3, <2>9, <3>1, <3>2, PairwisePush
    <3>4. Elements(below) = {rest} \cup Elements(Tail(stack))
      BY <1>3, <2>9, <3>1, PushElements
    <3>5. below \in Seq(Frames)
      BY <1>3, <2>9, <3>1, PushHead
    <3>6. stack' = <<f>> \o below
      BY <1>3, <2>5, <2>6, <2>9, <3>1, PushTwo
    <3> QED
      BY <3>3, <3>4, <3>5, <3>6
  <2>11. \A g \in Elements(below) : <<f, g>> \in Apart
    <3>1. \A g \in Elements(below) :
            g \in Frames /\ (g.op \in Teardowns => g.of \in torn)
      BY <1>2, <1>3, <2>10 DEF FrameOk, Teardowns
    <3> QED
      BY <2>1, <2>5, <3>1 DEF Apart
  <2>12. Pairwise(stack', Apart) /\ Elements(stack') = {f} \cup Elements(below)
    BY <2>5, <2>10, <2>11, PairwisePush, PushElements
  <2>13. StackOk'
    BY <1>2, <2>7, <2>8, <2>10, <2>12 DEF StackOk
  <2>14. SignsKept
    BY <1>2, <2>6, <2>10, <2>12, SignsStay DEF SignFrames
  <2> QED
    BY <2>7, <2>12, <2>13, <2>14
<1> QED
  BY <1>5, <1>6
-----------------------------------------------------------------------------
(* A client leaves a connection.                                           *)

\* markDisconnected: the attempt is over, and so is what depended on it.
LEMMA MarkedData ==
  ASSUME Known, NEW c \in Clients, NEW a, a = attempt[c], c \in online, MarkDisconnected(c),
         UNCHANGED <<begun, socket, authing, attached, nexts, serverVars, rosterVars, closed, told>>
  PROVE  /\ a \in Attempts /\ socket[c] = a /\ Client(a) = c
         /\ Live(a) /\ told[a] # "nothing"
         /\ NumbersOk' /\ ClosingOk' /\ AttemptsOk' /\ TasksKept /\ FramesKept /\ ~Live(a)'
         /\ SignsKept /\ (a \notin roster \/ a \in torn \/ Held("leaving", a)') => MembersOk'
<1>1. /\ a \in Attempts /\ socket[c] = a /\ Client(a) = c /\ state[a] = "connected"
  BY PairingAssumption
     DEF Known, PairingInv, ConnectedOwnsAttempt, AttemptsKept, TypeOK, DataTypeOK
<1>2. Live(a) /\ told[a] # "nothing" /\ None \notin Attempts
  BY <1>1, AttemptFacts, PairingAssumption DEF Live, AttemptOk
<1>3. /\ state'[a] = "cancelled" /\ \A x \in Attempts : x # a => state'[x] = state[x]
      /\ heard'[a] = "disconnect" /\ \A x \in Attempts : x # a => heard'[x] = heard[x]
      /\ attempt'[c] = None /\ \A d \in Clients : d # c => attempt'[d] = attempt[d]
      /\ UNCHANGED <<begun, socket, authing, attached, nexts, active, srvConnected, cleaned, torn,
                     closing, roster, idRoom, closed, told>>
  BY <1>1 DEF MarkDisconnected, serverVars, rosterVars, Known, PairingInv, TypeOK, DataTypeOK
<1>4. \A x \in Attempts : Live(x)' <=> Live(x) /\ x # a
  <2> SUFFICES ASSUME NEW x \in Attempts PROVE Live(x)' <=> Live(x) /\ x # a
    OBVIOUS
  <2>1. Client(x) \in Clients /\ x # None
    BY <1>2, AttemptClient
  <2> QED
    BY <1>1, <1>3, <2>1 DEF Live
<1>5. \A x : (OnlyHeard(x)' <=> OnlyHeard(x)) /\ (Latest(x)' <=> Latest(x))
  BY <1>3 DEF OnlyHeard, Latest
<1>6. NumbersOk' /\ ClosingOk'
  <2>1. \A d \in Clients : attempt'[d] # None => attempt'[d][2] = begun'[d]
    BY <1>3 DEF Known, RosterInv, NumbersOk
  <2>2. \A x \in Attempts : state'[x] = "unused" => x \notin attached' /\ x \notin authing'
    BY <1>3 DEF Known, RosterInv, NumbersOk
  <2>3. ClosingOk'
    BY <1>3, <1>5 DEF Known, RosterInv, ClosingOk
  <2> QED
    BY <2>1, <2>2, <2>3 DEF NumbersOk
<1>7. AttemptsOk'
  <2> SUFFICES ASSUME NEW x \in Attempts PROVE AttemptOk(x)' /\ HeardOk(x)'
    BY DEF AttemptsOk
  <2>1. AttemptOk(x)'
    BY <1>3, <1>4, AttemptFacts DEF AttemptOk
  <2>2. HeardOk(x)'
    BY <1>3, AttemptFacts DEF HeardOk
  <2> QED
    BY <2>1, <2>2
<1>8. ASSUME SignsKept, a \notin roster \/ a \in torn \/ Held("leaving", a)' PROVE MembersOk'
  <2> SUFFICES ASSUME NEW x \in Attempts PROVE RosterOk(x)' /\ LiveOk(x)'
    BY DEF MembersOk
  <2>1. RosterOk(x) /\ LiveOk(x)
    BY AttemptFacts
  <2>2. RosterOk(x)'
    BY <1>3, <1>4, <1>5, <1>8, <2>1 DEF RosterOk, SignsKept
  <2>3. LiveOk(x)'
    BY <1>3, <1>4, <1>8, <2>1 DEF LiveOk, SignsKept
  <2> QED
    BY <2>2, <2>3
<1>9. TasksKept
  <2> SUFFICES ASSUME NEW t \in Tasks, TaskOk(t) PROVE TaskOk(t)'
    BY DEF TasksKept
  <2>1. t.of \in Attempts
    BY DEF Tasks
  <2> QED
    BY <1>1, <1>3, <1>4, <1>5, <2>1 DEF TaskOk
<1>10. FramesKept
  <2> SUFFICES ASSUME NEW f \in Frames, FrameOk(f) PROVE FrameOk(f)'
    BY DEF FramesKept
  <2>1. f.of \in Attempts
    BY DEF Frames
  <2>2. state'[f.of] = "connected" => state[f.of] = "connected" /\ heard'[f.of] = heard[f.of]
    BY <1>3, <2>1
  <2> QED
    BY <1>3, <1>4, <1>5, <2>1, <2>2 DEF FrameOk
<1> QED
  BY <1>1, <1>2, <1>4, <1>6, <1>7, <1>8, <1>9, <1>10

LEMMA DisconnectAgrees ==
  ASSUME Known, NEW c \in Clients, Disconnect(c)
  PROVE  RosterInv'
<1>0. PICK a : a = attempt[c]
  OBVIOUS
<1>1. /\ c \in online /\ MarkDisconnected(c) /\ Push(Window("leaving", socket[c]))
      /\ UNCHANGED <<begun, socket, authing, attached, nexts, serverVars, rosterVars, closed, told>>
      /\ UNCHANGED microtasks
  BY DEF Disconnect
<1>2. /\ a \in Attempts /\ socket[c] = a /\ Client(a) = c /\ Live(a) /\ told[a] # "nothing"
      /\ NumbersOk' /\ ClosingOk' /\ AttemptsOk' /\ TasksKept /\ FramesKept /\ ~Live(a)'
      /\ SignsKept /\ Held("leaving", a)' => MembersOk'
  BY <1>0, <1>1, MarkedData
<1>3. PICK f : f = Window("leaving", a)
  OBVIOUS
<1>4. f \in Frames /\ f.op = "leaving" /\ f.of = a /\ Push(f)
  BY <1>1, <1>2, <1>3, WindowFrame, WindowOps
<1>5. FrameOk(f)'
  <2>1. Latest(a)
    BY <1>2, LiveIsLatest DEF Known, RosterInv
  <2>2. Latest(a)' /\ told'[a] # "nothing" /\ socket'[c] = a
    BY <1>1, <1>2, <2>1 DEF Latest
  <2> QED
    BY <1>2, <1>4, <2>2 DEF FrameOk, Callers, Teardowns
<1>6. \A g \in Elements(stack) : FrameOk(g)'
  BY <1>2, StackFacts DEF FramesKept
<1>7. StackOk' /\ Elements(stack') = {f} \cup Elements(stack)
  BY <1>4, <1>5, <1>6, StackPushes DEF Teardowns
<1>8. QueueOk' /\ SignsKept
  BY <1>1, <1>2, <1>7, QueueFromParts, SignsStay
<1>9. Held("leaving", a)'
  BY <1>4, <1>7 DEF Held
<1> QED
  BY <1>2, <1>7, <1>8, <1>9 DEF RosterInv

\* The task of a server-side disconnect finds the client on that Socket or offline.
LEMMA LeaveFacts ==
  ASSUME Known, NEW op \in Leaves, NEW a \in Attempts, Due(op, a)
  PROVE  /\ stack = <<>> /\ Elements(stack) = {} /\ microtasks # <<>>
         /\ Head(microtasks).op = op /\ Head(microtasks).of = a
         /\ Elements(microtasks) = {Head(microtasks)} \cup Elements(Tail(microtasks))
         /\ \A t \in Elements(Tail(microtasks)) : t \in Tasks /\ TaskOk(t)
         /\ a \in torn /\ a \in cleaned /\ a \notin roster
         /\ Client(a) \in online => attempt[Client(a)] = a /\ socket[Client(a)] = a
         /\ Client(a) \notin online => ~Live(a)
<1>1. op \in TaskOps
  BY DEF TaskOps, Leaves
<1>2. /\ stack = <<>> /\ Elements(stack) = {} /\ microtasks # <<>>
      /\ Head(microtasks).op = op /\ Head(microtasks).of = a
      /\ Elements(microtasks) = {Head(microtasks)} \cup Elements(Tail(microtasks))
      /\ TaskOk([op |-> op, of |-> a])
      /\ \A t \in Elements(Tail(microtasks)) : t \in Tasks /\ TaskOk(t)
  BY <1>1, DueFacts
<1>3. a \in torn /\ a \in cleaned /\ OnlyHeard(a)
  BY <1>2 DEF TaskOk
<1>4. a \notin roster /\ told[a] # "nothing" /\ a \in attached
  BY <1>3, AttemptFacts DEF RosterOk, AttemptOk
<1>5. ASSUME Client(a) \in online PROVE attempt[Client(a)] = a /\ socket[Client(a)] = a
  <2>0. PICK b : b = attempt[Client(a)]
    OBVIOUS
  <2>1. /\ b \in Attempts /\ Client(b) = Client(a) /\ state[b] = "connected"
        /\ socket[Client(a)] = b /\ Client(a) \in Clients
    BY <1>5, <2>0, AttemptClient, PairingAssumption
       DEF Known, PairingInv, ConnectedOwnsAttempt, AttemptsKept, TypeOK, DataTypeOK
  <2>2. Live(b) /\ told[b] # "nothing"
    BY <2>0, <2>1, AttemptFacts DEF Live, AttemptOk
  <2>3. ~Newer(b, a)
    BY <1>3, <2>1, <2>2 DEF OnlyHeard
  <2>4. ~Newer(a, b)
    BY <1>4, <2>1, <2>2, LiveIsLatest DEF Latest, Known, RosterInv
  <2>5. b = a
    BY <2>1, <2>3, <2>4, NewerFacts
  <2> QED
    BY <2>0, <2>1, <2>5
<1>6. ASSUME Client(a) \notin online, Live(a) PROVE FALSE
  <2>1. state[a] = "pending"
    BY <1>6, LiveFacts DEF Known, Established
  <2>2. Held("connection", a)
    BY <1>4, <1>6, <2>1, AttemptFacts DEF LiveOk
  <2> QED
    BY <1>2, <2>2 DEF Held
<1> QED
  BY <1>2, <1>3, <1>4, <1>5, <1>6

LEMMA ClientDisconnectAgrees ==
  ASSUME Known, NEW a \in Attempts, RunClientDisconnect(a)
  PROVE  RosterInv'
<1>0. PICK op \in Leaves : Due(op, a)
  BY DEF RunClientDisconnect, Leaves
<1>1. /\ stack = <<>> /\ Elements(stack) = {} /\ microtasks # <<>>
      /\ Head(microtasks).op = op /\ Head(microtasks).of = a
      /\ \A t \in Elements(Tail(microtasks)) : t \in Tasks /\ TaskOk(t)
      /\ a \in torn /\ a \in cleaned /\ a \notin roster
      /\ Client(a) \in online => attempt[Client(a)] = a /\ socket[Client(a)] = a
      /\ Client(a) \notin online => ~Live(a)
  BY <1>0, LeaveFacts
<1>2. Consume(<<>>) /\ UNCHANGED stack
  BY DEF RunClientDisconnect
<1>3. ASSUME TasksKept PROVE QueueOk' /\ (~Live(a)' => SignsKept)
  <2>1. \A t \in Elements(Tail(microtasks)) : TaskOk(t)'
    BY <1>1, <1>3 DEF TasksKept
  <2>2. QueueOk' /\ Elements(microtasks) = {Head(microtasks)} \cup Elements(microtasks')
    BY <1>1, <1>2, <2>1, QueueRuns
  <2>3. ASSUME NEW x \in Attempts, NEW k \in SignTasks, Queued(k, x), k = "teardown" \/ x # a
        PROVE  Queued(k, x)'
    <3>0. PICK t : t = [op |-> k, of |-> x]
      OBVIOUS
    <3>1. t \in Elements(microtasks) /\ t.op = k /\ t.of = x
      BY <2>3, <3>0 DEF Queued
    <3>2. t \in Elements(microtasks')
      BY <1>1, <2>2, <2>3, <3>1 DEF Leaves
    <3> QED
      BY <3>0, <3>2 DEF Queued
  <2>4. \A x, k : ~Held(k, x)
    BY <1>1 DEF Held
  <2>5. \A x \in Attempts : Ending(x) => Ending(x)'
    BY <2>3, <2>4 DEF Ending, SignTasks
  <2>6. \A x \in Attempts : Telling(x) /\ x # a => Telling(x)'
    BY <2>3, <2>4 DEF Telling, SignTasks
  <2>7. ~Live(a)' => SignsKept
    BY <2>4, <2>5, <2>6 DEF SignsKept
  <2> QED
    BY <2>2, <2>7
<1>4. CASE Client(a) \in online
  <2>1. /\ MarkDisconnected(Client(a))
        /\ UNCHANGED <<begun, socket, authing, attached, nexts, serverVars, rosterVars, closed, told>>
    BY <1>4 DEF RunClientDisconnect
  <2>2. Client(a) \in Clients /\ attempt[Client(a)] = a
    BY <1>1, <1>4, AttemptClient
  <2>3. /\ NumbersOk' /\ ClosingOk' /\ AttemptsOk' /\ TasksKept /\ FramesKept /\ ~Live(a)'
        /\ SignsKept => MembersOk'
    BY <1>1, <1>4, <2>1, <2>2, MarkedData
  <2>4. QueueOk' /\ SignsKept /\ StackOk'
    BY <1>2, <1>3, <2>3, StackFromParts
  <2> QED
    BY <2>3, <2>4 DEF RosterInv
<1>5. CASE Client(a) \notin online
  <2>1. DataSame /\ UNCHANGED nexts
    BY <1>5 DEF RunClientDisconnect, DataSame, serverVars, rosterVars
  <2>2. DataKept /\ TasksKept /\ FramesKept
    BY <2>1, Quiet
  <2>3. ~Live(a)'
    BY <1>1, <1>5, <2>1 DEF DataSame, Live
  <2>4. QueueOk' /\ SignsKept /\ StackOk'
    BY <1>2, <1>3, <2>2, <2>3, StackFromParts
  <2> QED
    BY <2>2, <2>4, Assembled
<1> QED
  BY <1>4, <1>5
-----------------------------------------------------------------------------
(* Callbacks that return.                                                  *)

\* What stays with a client whose `connection` callback returned.
LEMMA CompletedData ==
  ASSUME Known, NEW a \in Attempts, ConnectionReturns(a), Pending(a)
  PROVE  /\ NumbersOk' /\ ClosingOk' /\ AttemptsOk' /\ TasksKept
         /\ (\A op, x : ~Held(op, x) \/ op = "connection") => MembersOk'
         /\ state'[a] = "connected" /\ heard[a] = "nothing"
<1>1. Top("connection", a) /\ "connection" \in Windows
  BY DEF ConnectionReturns, Windows
<1>2. /\ Head(stack).op = "connection" /\ Head(stack).of = a /\ FrameOk(Head(stack))
      /\ state[a] = "pending" /\ Live(a)
  BY <1>1, TopFacts DEF Pending, Live
<1>3. told[a] # "nothing" /\ heard[a] = "nothing"
  BY <1>2, AttemptFacts DEF FrameOk, HeardOk
<1>4. /\ state'[a] = "connected" /\ \A x \in Attempts : x # a => state'[x] = state[x]
      /\ heard'[a] \in {"nothing", "connect"}
      /\ \A x \in Attempts : x # a => heard'[x] = heard[x]
      /\ UNCHANGED <<begun, attempt, authing, attached, nexts, active, srvConnected, cleaned, torn,
                     closing, roster, idRoom, closed, told, microtasks>>
  <2>1. /\ state' = [state EXCEPT ![a] = "connected"]
        /\ heard' = heard \/ heard' = [heard EXCEPT ![a] = "connect"]
        /\ UNCHANGED <<begun, attempt, authing, attached, nexts, active, srvConnected, cleaned,
                       torn, closing, roster, idRoom, closed, told, microtasks>>
    BY DEF ConnectionReturns, serverVars, rosterVars
  <2> QED
    BY <1>3, <2>1 DEF Known, PairingInv, TypeOK, DataTypeOK
<1>5. \A x : /\ Live(x)' <=> Live(x)
             /\ OnlyHeard(x)' <=> OnlyHeard(x)
             /\ \A op : Queued(op, x)' <=> Queued(op, x)
  BY <1>4 DEF Live, OnlyHeard, Queued
<1>6. NumbersOk' /\ ClosingOk'
  BY <1>4, <1>5 DEF Known, RosterInv, NumbersOk, ClosingOk
<1>7. AttemptsOk'
  <2> SUFFICES ASSUME NEW x \in Attempts PROVE AttemptOk(x)' /\ HeardOk(x)'
    BY DEF AttemptsOk
  <2>1. AttemptOk(x) /\ HeardOk(x)
    BY AttemptFacts
  <2>2. AttemptOk(x)'
    BY <1>3, <1>4, <1>5, <2>1 DEF AttemptOk
  <2>3. HeardOk(x)'
    BY <1>4, <2>1 DEF HeardOk
  <2> QED
    BY <2>2, <2>3
<1>8. ASSUME \A op, x : ~Held(op, x) \/ op = "connection" PROVE MembersOk'
  <2> SUFFICES ASSUME NEW x \in Attempts PROVE RosterOk(x)' /\ LiveOk(x)'
    BY DEF MembersOk
  <2>1. RosterOk(x) /\ LiveOk(x)
    BY AttemptFacts
  <2>2. Ending(x) => Ending(x)'
    BY <1>5, <1>8 DEF Ending
  <2>3. Telling(x) => Telling(x)'
    BY <1>5, <1>8 DEF Telling
  <2>4. RosterOk(x)'
    BY <1>4, <1>5, <1>8, <2>1, <2>2 DEF RosterOk
  <2>5. ASSUME Live(x), x # a, state[x] = "pending", told[x] # "nothing" PROVE FALSE
    <3>1. Held("connection", x)
      BY <2>1, <2>5 DEF LiveOk
    <3> QED
      BY <1>1, <2>5, <3>1, TopFacts DEF Held, Bottoms
  <2>6. LiveOk(x)'
    BY <1>4, <1>5, <2>1, <2>3, <2>5 DEF LiveOk
  <2> QED
    BY <2>4, <2>6
<1>9. TasksKept
  <2> SUFFICES ASSUME NEW t \in Tasks, TaskOk(t) PROVE TaskOk(t)'
    BY DEF TasksKept
  <2>1. t.of \in Attempts
    BY DEF Tasks
  <2>2. state[t.of] = "rejected" => t.of # a
    BY <1>2
  <2> QED
    BY <1>4, <1>5, <2>1, <2>2 DEF TaskOk
<1> QED
  BY <1>3, <1>4, <1>6, <1>7, <1>8, <1>9

LEMMA ConnectionReturnsAgrees ==
  ASSUME Known, NEW a \in Attempts, ConnectionReturns(a)
  PROVE  RosterInv'
<1>1. Top("connection", a) /\ "connection" \in Windows /\ "connection" \in Bottoms
  BY DEF ConnectionReturns, Windows, Bottoms
<1>2. /\ stack # <<>> /\ Head(stack) \in Frames /\ FrameOk(Head(stack))
      /\ Head(stack).op = "connection" /\ Head(stack).of = a
      /\ Elements(stack) = {Head(stack)} /\ Elements(Tail(stack)) = {}
  BY <1>1, TopFacts
<1>3. told[a] # "nothing" /\ state[a] # "connected"
  BY <1>2 DEF FrameOk
<1>4. \A op, x : ~Held(op, x) \/ op = "connection"
  BY <1>2 DEF Held
<1>5. CASE Pending(a)
  <2>1. /\ NumbersOk' /\ ClosingOk' /\ AttemptsOk' /\ TasksKept /\ MembersOk'
        /\ state'[a] = "connected" /\ heard[a] = "nothing" /\ UNCHANGED microtasks
    BY <1>4, <1>5, CompletedData DEF ConnectionReturns
  <2>2. QueueOk'
    BY <2>1, QueueFromParts
  <2>3. CASE Pop
    BY <1>2, <2>1, <2>2, <2>3, StackPops DEF RosterInv
  <2>4. CASE ~Pop
    <3> PICK f : f = Frame("flush", a, {}, buffered[Client(a)])
      OBVIOUS
    <3>1. Continue(f) /\ UNCHANGED heard
      BY <1>5, <2>4 DEF ConnectionReturns
    <3>2. f \in Frames /\ f.op = "flush" /\ f.of = a
      BY AttemptClient DEF Frame, Frames, Windows, Known, PairingInv, TypeOK, DataTypeOK
    <3>3. FrameOk(f)'
      BY <2>1, <3>1, <3>2 DEF FrameOk, Callers, Teardowns
    <3>4. StackOk'
      BY <1>2, <3>1, <3>2, <3>3, StackContinues DEF Teardowns
    <3> QED
      BY <2>1, <2>2, <3>4 DEF RosterInv
  <2> QED
    BY <2>3, <2>4
<1>6. CASE ~Pending(a)
  <2>1. /\ Discard({a}) /\ Pop /\ UNCHANGED microtasks
        /\ UNCHANGED <<begun, attempt, socket, state, authing, attached, nexts, closed, told, heard>>
    BY <1>3, <1>6 DEF ConnectionReturns, clientVars
  <2>2. ~Live(a) /\ a \in attached
    BY <1>3, <1>6, LiveFacts, AttemptFacts DEF Known, AttemptOk
  <2>3. Dropped({}, {a})
    BY <2>1, <2>2 DEF Dropped, Live
  <2>4. TasksKept
    BY <2>3, DroppedData
  <2>5. QueueOk' /\ StackOk'
    BY <1>2, <2>1, <2>4, QueueFromParts, StackPops
  <2>6. SignsKept
    <3>1. \A op, x : Queued(op, x)' <=> Queued(op, x)
      BY <2>1 DEF Queued
    <3>2. \A x : Held("connection", x) => x = a
      BY <1>2 DEF Held
    <3>3. ~Live(a)'
      BY <2>1, <2>2 DEF Live
    <3> QED
      BY <1>4, <3>1, <3>2, <3>3 DEF SignsKept, Ending, Telling
  <2> QED
    BY <2>3, <2>5, <2>6, DroppedAgrees
<1> QED
  BY <1>5, <1>6

LEMMA FlushAgrees ==
  ASSUME Known, NEW a \in Attempts, FlushReturns(a)
  PROVE  RosterInv'
<1>1. Top("flush", a) /\ "flush" \in Windows /\ "flush" \in Bottoms
  BY DEF FlushReturns, Windows, Bottoms
<1>2. /\ stack # <<>> /\ Head(stack) \in Frames /\ FrameOk(Head(stack))
      /\ Head(stack).op = "flush" /\ Head(stack).of = a
      /\ Elements(stack) = {Head(stack)} /\ Elements(Tail(stack)) = {}
  BY <1>1, TopFacts
<1>3. \A op, x : Held(op, x) => op = "flush"
  BY <1>2 DEF Held
<1>4. /\ UNCHANGED <<begun, attempt, socket, state, authing, attached, active, srvConnected,
                     cleaned, torn, closing, roster, idRoom, closed, told, microtasks, nexts>>
  BY DEF FlushReturns, attemptVars, serverVars, rosterVars
<1>5. \A op, x : Queued(op, x)' <=> Queued(op, x)
  BY <1>4 DEF Queued
<1>6. SignsKept
  BY <1>3, <1>5 DEF SignsKept, Ending, Telling
<1>7. CASE UNCHANGED heard
  <2>1. DataSame
    BY <1>4, <1>7 DEF DataSame
  <2>2. DataKept /\ TasksKept /\ FramesKept
    BY <1>4, <2>1, Quiet
  <2>3. QueueOk'
    BY <1>4, <2>2, QueueFromParts
  <2>4. CASE Pop
    BY <1>2, <1>6, <2>2, <2>3, <2>4, StackPops, Assembled
  <2>5. CASE ~Pop
    <3> PICK f : f = Frame("flush", a, {}, Head(stack).left - 1)
      OBVIOUS
    <3>1. Continue(f) /\ Head(stack).left > 1
      BY <2>5 DEF FlushReturns
    <3>2. f \in Frames /\ f.op = "flush" /\ f.of = a
      BY <1>2, <3>1 DEF Frame, Frames, Windows
    <3>3. FrameOk(f)'
      <4>1. FrameOk(f)
        BY <1>2, <3>2 DEF FrameOk, Callers, Teardowns
      <4> QED
        BY <2>2, <3>2, <4>1 DEF FramesKept
    <3>4. StackOk'
      BY <1>2, <3>1, <3>2, <3>3, StackContinues DEF Teardowns
    <3> QED
      BY <1>6, <2>2, <2>3, <3>4, Assembled
  <2> QED
    BY <2>4, <2>5
<1>8. CASE heard' # heard
  <2>1. Established(a) /\ Pop /\ heard' = [heard EXCEPT ![a] = "connect"]
    BY <1>8 DEF FlushReturns
  <2>2. /\ state[a] = "connected" /\ heard'[a] = "connect"
        /\ \A x \in Attempts : x # a => heard'[x] = heard[x]
    BY <2>1 DEF Established, Known, PairingInv, TypeOK, DataTypeOK
  <2>3. \A x : (Live(x)' <=> Live(x)) /\ (OnlyHeard(x)' <=> OnlyHeard(x))
    BY <1>4 DEF Live, OnlyHeard
  <2>4. NumbersOk' /\ ClosingOk'
    BY <1>4, <2>3 DEF Known, RosterInv, NumbersOk, ClosingOk
  <2>5. AttemptsOk'
    <3> SUFFICES ASSUME NEW x \in Attempts PROVE AttemptOk(x)' /\ HeardOk(x)'
      BY DEF AttemptsOk
    <3> QED
      BY <1>4, <2>2, <2>3, AttemptFacts DEF AttemptOk, HeardOk
  <2>6. MembersOk'
    <3> SUFFICES ASSUME NEW x \in Attempts PROVE RosterOk(x)' /\ LiveOk(x)'
      BY DEF MembersOk
    <3> QED
      BY <1>4, <1>6, <2>3, AttemptFacts DEF RosterOk, LiveOk, SignsKept
  <2>7. TasksKept
    <3> SUFFICES ASSUME NEW t \in Tasks, TaskOk(t) PROVE TaskOk(t)'
      BY DEF TasksKept
    <3>1. t.of \in Attempts
      BY DEF Tasks
    <3> QED
      BY <1>4, <2>2, <2>3, <3>1 DEF TaskOk
  <2>8. QueueOk' /\ StackOk'
    BY <1>2, <1>4, <2>1, <2>7, QueueFromParts, StackPops
  <2> QED
    BY <2>4, <2>5, <2>6, <2>8 DEF RosterInv
<1> QED
  BY <1>7, <1>8

\* handleDisconnect: the server Socket is torn down in a task of its own, after the
\* acceptance of older attempts and before that of newer ones.
LEMMA LeavingAgrees ==
  ASSUME Known, NEW a \in Attempts, LeavingReturns(a)
  PROVE  RosterInv'
<1>1. Top("leaving", a) /\ "leaving" \in Windows
  BY DEF LeavingReturns, Windows
<1>2. /\ stack # <<>> /\ FrameOk(Head(stack)) /\ Head(stack) \in Frames
      /\ Head(stack).op = "leaving" /\ Head(stack).of = a
      /\ Elements(stack) = {Head(stack)} \cup Elements(Tail(stack))
      /\ \A g \in Elements(Tail(stack)) : g \in Frames /\ FrameOk(g)
  BY <1>1, TopFacts
<1>3. Latest(a) /\ told[a] # "nothing" /\ ~Live(a) /\ socket[Client(a)] = a
  BY <1>2 DEF FrameOk, Callers
<1>4. /\ torn' = torn \cup {a} /\ Pop
      /\ Defer(IF a \in torn THEN <<>> ELSE Task("teardown", a))
      /\ UNCHANGED <<begun, attempt, socket, state, authing, attached, nexts, active, srvConnected,
                     cleaned, closing, roster, idRoom, closed, told, heard>>
  BY <1>3 DEF LeavingReturns, clientVars, attemptVars, rosterVars
<1>5. CASE a \in torn
  <2>1. DataSame /\ UNCHANGED nexts /\ Defer(<<>>)
    BY <1>4, <1>5 DEF DataSame
  <2>2. DataKept /\ TasksKept /\ FramesKept
    BY <2>1, Quiet
  <2>3. QueueOk' /\ Elements(microtasks') = Elements(microtasks)
    BY <2>1, <2>2, QueueIdles
  <2>4. \A g \in Elements(Tail(stack)) : FrameOk(g)'
    BY <1>2, <2>2 DEF FramesKept
  <2>5. StackOk' /\ Elements(stack) = {Head(stack)} \cup Elements(stack')
    BY <1>2, <1>4, <2>4, StackPops
  <2>6. SignsKept
    <3>1. \A op, x : Queued(op, x) => Queued(op, x)'
      BY <2>3 DEF Queued
    <3>2. \A op, x : Held(op, x) /\ (op # "leaving" \/ x # a) => Held(op, x)'
      BY <1>2, <2>5 DEF Held
    <3> QED
      BY <1>4, <1>5, <3>1, <3>2 DEF SignsKept, Ending, Telling
  <2> QED
    BY <2>2, <2>3, <2>5, <2>6, Assembled
<1>6. CASE a \notin torn
  <2>1. Defer(Task("teardown", a)) /\ told[a] = "connection"
    BY <1>3, <1>4, <1>6, AttemptFacts DEF AttemptOk, Known, PairingInv, TypeOK, DataTypeOK
  <2>2. \A x : /\ Live(x)' <=> Live(x)
               /\ OnlyHeard(x)' <=> OnlyHeard(x)
               /\ Latest(x)' <=> Latest(x)
    BY <1>4 DEF Live, OnlyHeard, Latest
  <2>3. NumbersOk' /\ ClosingOk'
    BY <1>4, <2>2 DEF Known, RosterInv, NumbersOk, ClosingOk
  <2>4. AttemptsOk'
    <3> SUFFICES ASSUME NEW x \in Attempts PROVE AttemptOk(x)' /\ HeardOk(x)'
      BY DEF AttemptsOk
    <3> QED
      BY <1>3, <1>4, <2>2, AttemptFacts DEF AttemptOk, HeardOk
  <2>5. TasksKept
    BY <1>4, <2>2 DEF TasksKept, TaskOk
  <2>6. FramesKept
    BY <1>4, <2>2 DEF FramesKept, FrameOk
  <2>7. TaskOk([op |-> "teardown", of |-> a])'
    BY <1>3, <1>4, <2>1, <2>2 DEF TaskOk, Completions, Leaves
  <2>8. \A t \in Elements(microtasks) : MayPrecede(t, [op |-> "teardown", of |-> a])
    <3>1. ~TaskOk([op |-> "teardown", of |-> a])
      BY <1>6 DEF TaskOk
    <3> QED
      BY <1>3, <3>1, OnceQueued DEF TaskOps, Leaves, Completions
  <2>9. QueueOk' /\ Elements(microtasks) \subseteq Elements(microtasks') /\ Queued("teardown", a)'
    BY <2>1, <2>5, <2>7, <2>8, QueueGrows DEF TaskOps
  <2>10. \A g \in Elements(Tail(stack)) : FrameOk(g)'
    BY <1>2, <2>6 DEF FramesKept
  <2>11. StackOk' /\ Elements(stack) = {Head(stack)} \cup Elements(stack')
    BY <1>2, <1>4, <2>10, StackPops
  <2>12. SignsKept
    <3>1. \A op, x : Queued(op, x) => Queued(op, x)'
      BY <2>9 DEF Queued
    <3>2. \A op, x : Held(op, x) /\ (op # "leaving" \/ x # a) => Held(op, x)'
      BY <1>2, <2>11 DEF Held
    <3> QED
      BY <1>4, <3>1, <3>2 DEF SignsKept, Ending, Telling
  <2>13. MembersOk'
    <3> SUFFICES ASSUME NEW x \in Attempts PROVE RosterOk(x)' /\ LiveOk(x)'
      BY DEF MembersOk
    <3>1. Ending(a)'
      BY <2>9 DEF Ending
    <3>2. RosterOk(x)'
      BY <1>4, <2>2, <2>12, <3>1, AttemptFacts DEF RosterOk, SignsKept
    <3>3. LiveOk(x)'
      BY <1>4, <2>2, <2>12, AttemptFacts DEF LiveOk, SignsKept
    <3> QED
      BY <3>2, <3>3
  <2> QED
    BY <2>3, <2>4, <2>9, <2>11, <2>13 DEF RosterInv
<1> QED
  BY <1>5, <1>6

\* After `disconnecting` the Socket loses its membership and is told the end of it.
LEMMA DisconnectingAgrees ==
  ASSUME Known, NEW a \in Attempts, DisconnectingReturns(a)
  PROVE  RosterInv'
<1>0. PICK op \in Teardowns : Top(op, a) /\ Continue(Window(IF op = "disconnecting"
                                                  THEN "disconnect" ELSE "syncDisconnect", a))
  BY DEF DisconnectingReturns, Teardowns
<1>1. op \in Windows
  BY DEF Teardowns, Windows
<1>2. /\ stack # <<>> /\ Head(stack) \in Frames /\ FrameOk(Head(stack))
      /\ Head(stack).op = op /\ Head(stack).of = a
      /\ Elements(stack) = {Head(stack)} \cup Elements(Tail(stack))
      /\ \A g \in Elements(Tail(stack)) : g \in Frames /\ FrameOk(g)
      /\ \A g \in Elements(Tail(stack)) : g.op \in Teardowns => g.of # a
  BY <1>0, <1>1, TopFacts
<1>3. /\ a \in torn /\ told[a] = "disconnecting"
      /\ op = "disconnecting" /\ Live(a) => a \in closing
      /\ op = "syncDisconnecting" => Latest(a)
  BY <1>2 DEF FrameOk, Callers
<1>4. PICK f : f = Window(IF op = "disconnecting" THEN "disconnect" ELSE "syncDisconnect", a)
  OBVIOUS
<1>5. /\ f \in Frames /\ f.of = a /\ Continue(f)
      /\ f.op = IF op = "disconnecting" THEN "disconnect" ELSE "syncDisconnect"
  BY <1>0, <1>4, WindowFrame, WindowOps
<1>6. /\ cleaned' = cleaned \cup {a} /\ roster' = roster \ ({a} \ cleaned)
      /\ idRoom' = idRoom \ ({a} \ cleaned) /\ srvConnected' = srvConnected \ {a}
      /\ told'[a] = "disconnect" /\ \A x \in Attempts : x # a => told'[x] = told[x]
      /\ UNCHANGED <<begun, attempt, socket, state, authing, attached, nexts, active, torn,
                     closing, closed, heard, microtasks>>
  BY DEF DisconnectingReturns, CleanMembership, clientVars, attemptVars, Known, PairingInv,
         TypeOK, DataTypeOK
<1>7. \A x \in Attempts : told'[x] = "nothing" <=> told[x] = "nothing"
  BY <1>3, <1>6
<1>8. \A x : /\ Live(x)' <=> Live(x)
             /\ OnlyHeard(x)' <=> OnlyHeard(x)
             /\ Latest(x)' <=> Latest(x)
             /\ \A k : Queued(k, x)' <=> Queued(k, x)
  BY <1>6, <1>7 DEF Live, OnlyHeard, Latest, Queued
<1>9. NumbersOk' /\ ClosingOk'
  BY <1>6, <1>8 DEF Known, RosterInv, NumbersOk, ClosingOk
<1>10. AttemptsOk'
  <2> SUFFICES ASSUME NEW x \in Attempts PROVE AttemptOk(x)' /\ HeardOk(x)'
    BY DEF AttemptsOk
  <2>1. AttemptOk(x) /\ HeardOk(x)
    BY AttemptFacts
  <2>2. CASE x = a
    BY <1>3, <1>6, <1>8, <2>1, <2>2 DEF AttemptOk, HeardOk
  <2>3. CASE x # a
    BY <1>6, <1>8, <2>1, <2>3 DEF AttemptOk, HeardOk
  <2> QED
    BY <2>2, <2>3
<1>11. TasksKept
  <2> SUFFICES ASSUME NEW t \in Tasks, TaskOk(t) PROVE TaskOk(t)'
    BY DEF TasksKept
  <2>1. t.of \in Attempts
    BY DEF Tasks
  <2>2. t.op = "teardown" => told'[t.of] = told[t.of]
    BY <1>3, <1>6, <2>1 DEF TaskOk
  <2> QED
    BY <1>6, <1>7, <1>8, <2>1, <2>2 DEF TaskOk
<1>12. QueueOk'
  BY <1>6, <1>11, QueueFromParts
<1>13. ASSUME NEW g \in Elements(Tail(stack)) PROVE FrameOk(g)'
  <2>1. g.of \in Attempts /\ FrameOk(g)
    BY <1>2 DEF Frames
  <2>2. g.op \in Teardowns \/ told[g.of] = "disconnect" => told'[g.of] = told[g.of]
    BY <1>2, <1>3, <1>6, <2>1
  <2> QED
    BY <1>6, <1>7, <1>8, <2>1, <2>2 DEF FrameOk
<1>14. FrameOk(f)'
  BY <1>3, <1>5, <1>6, <1>8 DEF FrameOk, Callers, Teardowns
<1>15. StackOk' /\ Elements(stack') = {f} \cup Elements(Tail(stack))
  BY <1>2, <1>5, <1>13, <1>14, StackContinues DEF Teardowns
<1>16. /\ \A k, x : Held(k, x) /\ (k \notin Teardowns \/ x # a) => Held(k, x)'
       /\ Held("disconnect", a)' \/ Held("syncDisconnect", a)'
  BY <1>2, <1>5, <1>15 DEF Held
<1>17. MembersOk'
  <2> SUFFICES ASSUME NEW x \in Attempts PROVE RosterOk(x)' /\ LiveOk(x)'
    BY DEF MembersOk
  <2>1. RosterOk(x) /\ LiveOk(x)
    BY AttemptFacts
  <2>2. x = a => x \notin roster'
    BY <1>6, <2>1 DEF RosterOk
  <2>3. x # a /\ Ending(x) => Ending(x)'
    BY <1>8, <1>16 DEF Ending
  <2>4. RosterOk(x)'
    <3>1. Held("leaving", x) => Held("leaving", x)'
      BY <1>16 DEF Teardowns
    <3> QED
      BY <1>6, <1>8, <2>1, <2>2, <2>3, <3>1 DEF RosterOk
  <2>5. (Telling(x) => Telling(x)') /\ (x = a => Telling(x)')
    BY <1>8, <1>16 DEF Telling, Teardowns
  <2>6. LiveOk(x)'
    <3>1. Held("connection", x) => Held("connection", x)'
      BY <1>16 DEF Teardowns
    <3> QED
      BY <1>6, <1>7, <1>8, <2>1, <2>5, <3>1 DEF LiveOk
  <2> QED
    BY <2>4, <2>6
<1> QED
  BY <1>9, <1>10, <1>12, <1>15, <1>17 DEF RosterInv

\* After `disconnect` the client's part is deferred, when the server began it.
LEMMA DisconnectReturnsAgrees ==
  ASSUME Known, NEW a \in Attempts, DisconnectReturns(a)
  PROVE  RosterInv'
<1>0. PICK op \in {"syncDisconnect", "disconnect"} :
        /\ Top(op, a)
        /\ \/ op = "syncDisconnect" /\ Defer(Task("clientLeave", a))
           \/ op = "disconnect" /\ Defer(IF a \in closing THEN Task("clientClose", a) ELSE <<>>)
  BY DEF DisconnectReturns
<1>1. op \in Windows
  BY DEF Windows
<1>2. /\ stack # <<>> /\ Head(stack) \in Frames /\ FrameOk(Head(stack))
      /\ Head(stack).op = op /\ Head(stack).of = a
      /\ Elements(stack) = {Head(stack)} \cup Elements(Tail(stack))
      /\ \A g \in Elements(Tail(stack)) : g \in Frames /\ FrameOk(g)
  BY <1>0, <1>1, TopFacts
<1>3. /\ a \in torn /\ a \in cleaned
      /\ op = "disconnect" /\ Live(a) => a \in closing
      /\ op = "syncDisconnect" => Latest(a)
  BY <1>2 DEF FrameOk, Callers
<1>4. DataSame /\ UNCHANGED nexts /\ Pop
  BY DEF DisconnectReturns, DataSame, clientVars, attemptVars, serverVars, rosterVars
<1>5. DataKept /\ TasksKept /\ FramesKept
  BY <1>4, Quiet
<1>6. \A g \in Elements(Tail(stack)) : FrameOk(g)'
  BY <1>2, <1>5 DEF FramesKept
<1>7. StackOk' /\ Elements(stack) = {Head(stack)} \cup Elements(stack')
  BY <1>2, <1>4, <1>6, StackPops
<1>8. \A k, x : Held(k, x) /\ (k # op \/ x # a) => Held(k, x)'
  BY <1>2, <1>7 DEF Held
<1>9. ASSUME \A k, x : Queued(k, x) => Queued(k, x)', Live(a) => Telling(a)' PROVE SignsKept
  <2>1. \A x : x # a /\ Telling(x) => Telling(x)'
    BY <1>8, <1>9 DEF Telling
  <2>2. \A x : Ending(x) => Ending(x)'
    BY <1>8, <1>9 DEF Ending
  <2>3. \A x : Live(x)' <=> Live(x)
    BY <1>4 DEF DataSame, Live
  <2> QED
    BY <1>8, <1>9, <2>1, <2>2, <2>3 DEF SignsKept
<1>10. ASSUME NEW k \in Leaves, Defer(Task(k, a)), TaskOk([op |-> k, of |-> a])',
              k = "clientLeave" => Latest(a)
       PROVE  RosterInv'
  <2>1. k \in TaskOps
    BY DEF Leaves, TaskOps
  <2>2. \A t \in Elements(microtasks) : MayPrecede(t, [op |-> k, of |-> a])
    <3> SUFFICES ASSUME NEW t \in Elements(microtasks)
                 PROVE  MayPrecede(t, [op |-> k, of |-> a])
      OBVIOUS
    <3>1. t.of \in Attempts /\ (t.op = "accept" => t.of \in attached)
      BY TaskFacts DEF Completions
    <3>2. t.op = "accept" /\ k = "clientLeave" => ~Newer(t.of, a)
      BY <1>10, <3>1 DEF Latest
    <3>3. k \notin Completions /\ k # "teardown"
      BY DEF Leaves, Completions
    <3> QED
      BY <3>2, <3>3 DEF MayPrecede
  <2>3. /\ QueueOk' /\ Elements(microtasks) \subseteq Elements(microtasks')
        /\ Queued(k, a)'
    BY <1>5, <1>10, <2>1, <2>2, QueueGrows
  <2>4. \A j, x : Queued(j, x) => Queued(j, x)'
    BY <2>3 DEF Queued
  <2>5. Telling(a)'
    BY <2>3 DEF Telling, Leaves
  <2>6. SignsKept
    BY <1>9, <2>4, <2>5
  <2> QED
    BY <1>5, <1>7, <2>3, <2>6, Assembled
<1>11. CASE op = "syncDisconnect"
  <2>1. OnlyHeard(a)
    BY <1>3, <1>11, LatestOnlyHeard DEF Known, RosterInv
  <2>2. TaskOk([op |-> "clientLeave", of |-> a])'
    BY <1>3, <1>4, <2>1 DEF TaskOk, Completions, Leaves, DataSame, OnlyHeard
  <2> QED
    BY <1>0, <1>3, <1>10, <1>11, <2>2 DEF Leaves
<1>12. CASE op = "disconnect" /\ a \in closing
  <2>1. OnlyHeard(a) /\ closed
    BY <1>12 DEF Known, RosterInv, ClosingOk
  <2>2. TaskOk([op |-> "clientClose", of |-> a])'
    BY <1>3, <1>4, <2>1 DEF TaskOk, Completions, Leaves, DataSame, OnlyHeard
  <2> QED
    BY <1>0, <1>10, <1>12, <2>2 DEF Leaves
<1>13. CASE op = "disconnect" /\ a \notin closing
  <2>1. QueueOk' /\ Elements(microtasks') = Elements(microtasks)
    BY <1>0, <1>5, <1>13, QueueIdles
  <2>2. \A j, x : Queued(j, x) => Queued(j, x)'
    BY <2>1 DEF Queued
  <2>3. SignsKept
    BY <1>3, <1>9, <1>13, <2>2
  <2> QED
    BY <1>5, <1>7, <2>1, <2>3, Assembled
<1> QED
  BY <1>11, <1>12, <1>13

\* No completion is repeated, since the application calls `next` once.
LEMMA NothingRepeated ==
  ASSUME Known, NEW a \in Attempts, RepeatedReturns(a)
  PROVE  FALSE
<1>1. Top("repeated", a) /\ "repeated" \in Windows
  BY DEF RepeatedReturns, Windows
<1> QED
  BY <1>1, TopFacts DEF FrameOk
-----------------------------------------------------------------------------
(* The server closes.                                                      *)

\* An ordering of a finite set lists all of it, each element once.
LEMMA OrderingFacts ==
  ASSUME NEW S \in SUBSET Attempts, NEW q \in Orderings(S)
  PROVE  /\ q \in Seq(S) /\ DOMAIN q = 1..Len(q)
         /\ \A x \in S : \E i \in DOMAIN q : q[i] = x
         /\ \A i, j \in DOMAIN q : q[i] = q[j] => i = j
<1>1. IsFiniteSet(S)
  BY AttemptsFinite, FS_Subset
<1>2. PICK n : n = Cardinality(S)
  OBVIOUS
<1>3. n \in Nat /\ q \in [1..n -> S] /\ \A i, j \in 1..n : q[i] = q[j] => i = j
  BY <1>1, <1>2, FS_CardinalityType DEF Orderings
<1>4. q \in Injection(1..n, S)
  BY <1>3 DEF Injection, IsInjective
<1>5. Cardinality(1..n) = n
  BY <1>3, FS_Interval
<1>6. q \in Surjection(1..n, S)
  BY <1>1, <1>2, <1>4, <1>5, FS_Injection
<1>7. \A x \in S : \E i \in 1..n : q[i] = x
  BY <1>6 DEF Surjection
<1>8. q \in Seq(S) /\ DOMAIN q = 1..n
  BY <1>3, FunctionIsSeq
<1>9. DOMAIN q = 1..Len(q)
  BY <1>8
<1> QED
  BY <1>3, <1>7, <1>8, <1>9

\* The tasks that closeFromServer defers.
LEMMA TeardownTasks ==
  ASSUME NEW S \in SUBSET Attempts, NEW q \in Orderings(S), NEW p,
         p = [i \in DOMAIN q |-> [op |-> "teardown", of |-> q[i]]]
  PROVE  /\ p \in Seq(Tasks) /\ Pairwise(p, Precedes)
         /\ \A t \in Elements(p) : t.op = "teardown" /\ t.of \in S
         /\ \A x \in S : [op |-> "teardown", of |-> x] \in Elements(p)
<1>1. /\ q \in Seq(S) /\ DOMAIN q = 1..Len(q) /\ Len(q) \in Nat
      /\ \A x \in S : \E i \in DOMAIN q : q[i] = x
      /\ \A i, j \in DOMAIN q : q[i] = q[j] => i = j
      /\ \A i \in DOMAIN q : q[i] \in S
  BY OrderingFacts
<1>2. DOMAIN p = DOMAIN q
  OBVIOUS
<1>3. \A i \in DOMAIN q : /\ p[i] = [op |-> "teardown", of |-> q[i]] /\ p[i] \in Tasks
                          /\ p[i].op = "teardown" /\ p[i].of = q[i]
  BY <1>1 DEF Tasks, TaskOps
<1>4. p \in Seq(Tasks)
  <2>1. p \in [1..Len(q) -> Tasks]
    BY <1>1, <1>3
  <2> QED
    BY <1>1, <2>1, FunctionIsSeq
<1>5. Pairwise(p, Precedes)
  <2> SUFFICES ASSUME NEW i \in DOMAIN p, NEW j \in DOMAIN p, i < j
               PROVE  <<p[i], p[j]>> \in Precedes
    BY DEF Pairwise
  <2>1. i \in DOMAIN q /\ j \in DOMAIN q /\ i # j
    BY <1>1, <1>2
  <2>2. p[i] \in Tasks /\ p[j] \in Tasks /\ p[i].of # p[j].of /\ p[i].op = "teardown"
    BY <1>1, <1>3, <2>1
  <2>3. MayPrecede(p[i], p[j])
    BY <2>2 DEF MayPrecede
  <2> QED
    BY <2>2, <2>3 DEF Precedes
<1>6. \A t \in Elements(p) : t.op = "teardown" /\ t.of \in S
  BY <1>1, <1>2, <1>3 DEF Elements
<1>7. \A x \in S : [op |-> "teardown", of |-> x] \in Elements(p)
  <2> SUFFICES ASSUME NEW x \in S PROVE [op |-> "teardown", of |-> x] \in Elements(p)
    OBVIOUS
  <2>1. PICK i \in DOMAIN q : q[i] = x
    BY <1>1
  <2>2. i \in DOMAIN p /\ p[i] = [op |-> "teardown", of |-> x]
    BY <1>2, <1>3, <2>1
  <2> QED
    BY <2>2 DEF Elements
<1> QED
  BY <1>4, <1>5, <1>6, <1>7

LEMMA CloseAgrees ==
  ASSUME Known, Close
  PROVE  RosterInv'
<1>0. PICK S : S = roster \ torn
  OBVIOUS
<1>1. /\ ~closed /\ closed' = TRUE /\ torn' = torn \cup S /\ closing' = closing \cup S
      /\ UNCHANGED <<begun, attempt, socket, state, authing, attached, nexts, active, srvConnected,
                     cleaned, roster, idRoom, told, heard, stack>>
  BY <1>0 DEF Close, CloseFromServer, clientVars, attemptVars, rosterVars
<1>2. PICK q \in Orderings(S) : Defer([i \in DOMAIN q |-> [op |-> "teardown", of |-> q[i]]])
  BY <1>0 DEF Close, CloseFromServer, TeardownAll
<1>3. PICK p : p = [i \in DOMAIN q |-> [op |-> "teardown", of |-> q[i]]]
  OBVIOUS
<1>4. /\ S \in SUBSET Attempts
      /\ p \in Seq(Tasks) /\ Pairwise(p, Precedes) /\ Defer(p)
      /\ \A t \in Elements(p) : t.op = "teardown" /\ t.of \in S
      /\ \A x \in S : [op |-> "teardown", of |-> x] \in Elements(p)
  <2>1. S \in SUBSET Attempts
    BY <1>0 DEF Known, PairingInv, TypeOK, DataTypeOK
  <2> QED
    BY <1>2, <1>3, <2>1, TeardownTasks
<1>5. ASSUME NEW x \in S PROVE Latest(x) /\ OnlyHeard(x) /\ told[x] = "connection" /\ x \notin torn
  <2>1. x \in Attempts /\ x \in roster /\ x \notin torn /\ RosterOk(x) /\ AttemptOk(x)
    BY <1>0, <1>4, AttemptFacts
  <2>2. OnlyHeard(x) /\ (Live(x) \/ Held("leaving", x))
    BY <2>1 DEF RosterOk
  <2>3. told[x] = "connection"
    BY <2>1 DEF AttemptOk, Known, PairingInv, TypeOK, DataTypeOK
  <2>4. CASE Live(x)
    BY <2>1, <2>2, <2>3, <2>4, LiveIsLatest DEF Known, RosterInv
  <2>5. CASE Held("leaving", x)
    BY <2>1, <2>2, <2>3, <2>5, StackFacts DEF Held, FrameOk, Callers
  <2> QED
    BY <2>2, <2>4, <2>5
<1>6. \A t \in Elements(microtasks), u \in Elements(p) : MayPrecede(t, u)
  <2> SUFFICES ASSUME NEW t \in Elements(microtasks), NEW u \in Elements(p)
               PROVE  MayPrecede(t, u)
    OBVIOUS
  <2>1. u.op = "teardown" /\ Latest(u.of) /\ u.of \notin torn
    BY <1>4, <1>5
  <2>2. TaskOk(t) /\ t.of \in Attempts /\ (t.op = "accept" => t.of \in attached)
    BY TaskFacts DEF Completions
  <2>3. t.op = "accept" => ~Newer(t.of, u.of)
    BY <2>1, <2>2 DEF Latest
  <2>4. t.op = "teardown" => t.of # u.of
    BY <2>1, <2>2 DEF TaskOk
  <2> QED
    BY <2>1, <2>3, <2>4 DEF MayPrecede, Completions
<1>7. /\ Elements(microtasks') = Elements(microtasks) \cup Elements(p)
      /\ Pairwise(microtasks', Precedes)
  BY <1>4, <1>6, Deferred
<1>8. \A x : /\ Live(x)' <=> Live(x)
             /\ OnlyHeard(x)' <=> OnlyHeard(x)
             /\ Latest(x)' <=> Latest(x)
  BY <1>1 DEF Live, OnlyHeard, Latest
<1>9. NumbersOk' /\ ClosingOk'
  BY <1>1, <1>5, <1>8 DEF Known, RosterInv, NumbersOk, ClosingOk
<1>10. AttemptsOk'
  <2> SUFFICES ASSUME NEW x \in Attempts PROVE AttemptOk(x)' /\ HeardOk(x)'
    BY DEF AttemptsOk
  <2>1. AttemptOk(x) /\ HeardOk(x)
    BY AttemptFacts
  <2>2. x \in S => told[x] # "nothing"
    BY <1>5
  <2> QED
    BY <1>1, <1>8, <2>1, <2>2 DEF AttemptOk, HeardOk
<1>11. \A t \in Elements(microtasks) : TaskOk(t)'
  <2> SUFFICES ASSUME NEW t \in Elements(microtasks) PROVE TaskOk(t)'
    OBVIOUS
  <2> QED
    BY <1>1, <1>8, TaskFacts DEF TaskOk
<1>12. \A t \in Elements(p) : TaskOk(t)'
  BY <1>1, <1>4, <1>5 DEF TaskOk, Completions, Leaves
<1>13. QueueOk'
  BY <1>7, <1>11, <1>12 DEF QueueOk
<1>14. StackOk'
  <2>1. FramesKept
    BY <1>1, <1>8 DEF FramesKept, FrameOk
  <2> QED
    BY <1>1, <2>1, StackFromParts
<1>15. SignsKept
  BY <1>1, <1>7, SignsStay
<1>16. MembersOk'
  <2> SUFFICES ASSUME NEW x \in Attempts PROVE RosterOk(x)' /\ LiveOk(x)'
    BY DEF MembersOk
  <2>1. x \in S => Ending(x)'
    BY <1>4, <1>7 DEF Ending, Queued
  <2>2. RosterOk(x)'
    BY <1>0, <1>1, <1>8, <1>15, <2>1, AttemptFacts DEF RosterOk, SignsKept
  <2>3. LiveOk(x)'
    BY <1>1, <1>8, <1>15, AttemptFacts DEF LiveOk, SignsKept
  <2> QED
    BY <2>2, <2>3
<1> QED
  BY <1>9, <1>10, <1>13, <1>14, <1>16 DEF RosterInv
-----------------------------------------------------------------------------
(* What the invariant says of every behaviour.                             *)

LEMMA AgreementKept ==
  ASSUME Known, [Next]_vars
  PROVE  RosterInv'
<1>1. ASSUME NEW c \in Clients, Connect(c) \/ Emit(c) \/ Disconnect(c) \/ CancelAttempt(c)
      PROVE  RosterInv'
  BY <1>1, ConnectAgrees, EmitAgrees, DisconnectAgrees, CancelAttemptAgrees
<1>2. ASSUME NEW a \in Attempts,
             \/ ResolveAuth(a) \/ CallNext(a) \/ RefuseNext(a)
             \/ ServerDisconnect(a) \/ DisconnectGroup(a)
      PROVE  RosterInv'
  BY <1>2, ResolveAuthAgrees, NextAgrees, ServerDisconnectAgrees, GroupDisconnectAgrees
<1>3. ASSUME NEW a \in Attempts,
             \/ RunPair(a) \/ RunAccept(a) \/ RunRefuse(a)
             \/ RunConnectError(a) \/ RunTeardown(a) \/ RunClientDisconnect(a)
      PROVE  RosterInv'
  BY <1>3, PairAgrees, AcceptAgrees, RefuseAgrees, ConnectErrorAgrees, TeardownAgrees,
     ClientDisconnectAgrees
<1>4. ASSUME NEW a \in Attempts,
             \/ ConnectionReturns(a) \/ FlushReturns(a) \/ RepeatedReturns(a)
             \/ LeavingReturns(a) \/ DisconnectingReturns(a) \/ DisconnectReturns(a)
      PROVE  RosterInv'
  BY <1>4, ConnectionReturnsAgrees, FlushAgrees, NothingRepeated, LeavingAgrees,
     DisconnectingAgrees, DisconnectReturnsAgrees
<1>5. ASSUME NEW a \in Attempts,
             \/ \E c \in Clients : DisconnectMember(a, c)
             \/ CancelGroup(a) \/ DisconnectInitiator(a)
      PROVE  RosterInv'
  BY <1>5, MemberAgrees, CancelGroupAgrees, InitiatorAgrees
<1>6. Close => RosterInv'
  BY CloseAgrees
<1>7. UNCHANGED vars => RosterInv'
  BY StutterAgrees
<1> QED
  BY <1>1, <1>2, <1>3, <1>4, <1>5, <1>6, <1>7
     DEF Next, AppCall, Microtask, CallbackReturns, GroupStep

LEMMA AgreementInit == Init => RosterInv
<1> SUFFICES ASSUME Init PROVE RosterInv
  OBVIOUS
<1>1. /\ begun = [c \in Clients |-> 0] /\ attempt = [c \in Clients |-> None]
      /\ state = [a \in Attempts |-> "unused"]
      /\ authing = {} /\ attached = {} /\ cleaned = {} /\ torn = {} /\ closing = {} /\ roster = {}
      /\ told = [a \in Attempts |-> "nothing"] /\ heard = [a \in Attempts |-> "nothing"]
      /\ microtasks = <<>> /\ stack = <<>>
  BY DEF Init
<1>2. /\ \A c \in Clients : attempt[c] = None
      /\ \A a \in Attempts : /\ state[a] = "unused" /\ told[a] = "nothing" /\ heard[a] = "nothing"
                             /\ ~Live(a)
  BY <1>1, AttemptClient, PairingAssumption DEF Live
<1>3. NumbersOk /\ ClosingOk
  BY <1>1, <1>2 DEF NumbersOk, ClosingOk
<1>4. AttemptsOk
  BY <1>1, <1>2 DEF AttemptsOk, AttemptOk, HeardOk
<1>5. MembersOk
  BY <1>1, <1>2 DEF MembersOk, RosterOk, LiveOk
<1>6. QueueOk /\ StackOk
  BY <1>1 DEF QueueOk, StackOk, Pairwise, Elements
<1> QED
  BY <1>3, <1>4, <1>5, <1>6 DEF RosterInv

\* A client has one Socket in the roster.
LEMMA OneSocket ==
  ASSUME Known PROVE OneSocketPerClient
<1> SUFFICES ASSUME NEW a \in roster, NEW b \in roster, Client(a) = Client(b) PROVE a = b
  BY DEF OneSocketPerClient
<1>1. a \in Attempts /\ b \in Attempts
  BY DEF Known, PairingInv, TypeOK, DataTypeOK
<1>2. OnlyHeard(a) /\ OnlyHeard(b) /\ told[a] # "nothing" /\ told[b] # "nothing"
  BY <1>1, AttemptFacts DEF RosterOk, AttemptOk
<1>3. ~Newer(a, b) /\ ~Newer(b, a)
  BY <1>1, <1>2 DEF OnlyHeard
<1> QED
  BY <1>1, <1>3, NewerFacts

LEMMA PairedRoster ==
  ASSUME Known PROVE RosterIsPaired
<1>1. \A a \in roster : a \in Attempts /\ RosterOk(a) /\ AttemptOk(a)
  BY AttemptFacts DEF Known, PairingInv, TypeOK, DataTypeOK
<1>2. roster \cap cleaned = {}
  BY <1>1 DEF RosterOk
<1>3. ASSUME NEW a \in roster \ torn
      PROVE  /\ a \in active /\ a \in srvConnected /\ a \in idRoom
             /\ \/ Established(a) \/ Pending(a)
                \/ \E i \in DOMAIN stack : stack[i].op = "leaving" /\ stack[i].of = a
  <2>1. /\ a \in Attempts /\ a \in srvConnected /\ a \in idRoom /\ a \notin cleaned
        /\ Live(a) \/ Held("leaving", a)
    BY <1>1 DEF RosterOk
  <2>2. a \in active
    BY <1>1, <2>1 DEF AttemptOk
  <2>3. Live(a) => Established(a) \/ Pending(a)
    BY <2>1, LiveFacts DEF Known
  <2>4. Held("leaving", a) => \E i \in DOMAIN stack : stack[i].op = "leaving" /\ stack[i].of = a
    BY DEF Held, Elements
  <2> QED
    BY <2>1, <2>2, <2>3, <2>4
<1> QED
  BY <1>2, <1>3 DEF RosterIsPaired

LEMMA QuietRoster ==
  ASSUME Known, stack = <<>>, microtasks = <<>>
  PROVE  /\ roster = {socket[c] : c \in online}
         /\ closed => online = {} /\ roster = {}
<1>1. \A op, x : ~Held(op, x) /\ ~Queued(op, x)
  BY DEF Held, Queued, Elements
<1>2. \A x : ~Ending(x) /\ ~Telling(x)
  BY <1>1 DEF Ending, Telling
<1>3. ASSUME NEW a \in roster PROVE Established(a) /\ ~closed
  <2>1. a \in Attempts /\ RosterOk(a) /\ AttemptOk(a) /\ LiveOk(a)
    BY AttemptFacts DEF Known, PairingInv, TypeOK, DataTypeOK
  <2>2. Live(a) /\ ~closed /\ told[a] # "nothing"
    BY <1>1, <1>2, <2>1 DEF RosterOk, AttemptOk
  <2>3. state[a] # "pending"
    BY <1>1, <2>1, <2>2 DEF LiveOk
  <2> QED
    BY <2>1, <2>2, <2>3, LiveFacts DEF Known
<1>4. ASSUME NEW c \in online PROVE socket[c] \in roster
  <2>1. PICK a : a = attempt[c]
    OBVIOUS
  <2>2. a \in Attempts /\ state[a] = "connected" /\ socket[c] = a
    BY <2>1, PairingAssumption DEF Known, PairingInv, ConnectedOwnsAttempt, TypeOK, DataTypeOK
  <2>3. Live(a) /\ AttemptOk(a) /\ LiveOk(a)
    BY <2>2, LiveFacts, AttemptFacts DEF Known
  <2> QED
    BY <1>2, <2>2, <2>3 DEF AttemptOk, LiveOk
<1>5. roster = {socket[c] : c \in online}
  BY <1>3, <1>4 DEF Established
<1>6. closed => roster = {}
  BY <1>3
<1> QED
  BY <1>4, <1>5, <1>6

LEMMA AgreementHolds ==
  ASSUME Known PROVE RosterAgreement
BY OneSocket, PairedRoster, QuietRoster
   DEF RosterAgreement, QuiescentAgreement, ClosedMeansEmpty

LEMMA KnownAlways == ASSUME Disciplined PROVE Spec => []Known
<1>1. Init => RosterInv
  BY AgreementInit
<1>2. PairingInv /\ GroupInv /\ RosterInv /\ [Next]_vars => RosterInv'
  BY AgreementKept DEF Known
<1>3. Init => GroupInv
  BY NoFrames DEF Init, GroupInv, GroupIsLeaving
<1>4. PairingInv /\ GroupInv /\ [Next]_vars => GroupInv'
  BY GroupsKept
<1>5. PairingInv /\ GroupInv /\ RosterInv => Known
  BY DEF Known
<1> QED
  BY <1>1, <1>2, <1>3, <1>4, <1>5, PairingInvariant, PTL DEF Spec

\* The Namespace's roster, the server Sockets and the clients agree on who is connected, in
\* all the respects of RosterAgreement (sockets.ts, namespaces.ts): whatever the application
\* calls from inside its callbacks, a Socket in the roster has a client that is on it or is
\* leaving it, a client has one Socket there, and when nothing is left to run the roster is
\* what the clients believe, and empty once the server has closed.
THEOREM RosterAgrees == ASSUME Disciplined PROVE Spec => []RosterAgreement
<1>1. Known => RosterAgreement
  BY AgreementHolds
<1> QED
  BY <1>1, KnownAlways, PTL

-----------------------------------------------------------------------------
(* What either side is told of a connection.                               *)

ToldSteps == {<<"nothing", "connection">>, <<"connection", "disconnecting">>,
              <<"disconnecting", "disconnect">>}
HeardSteps == {<<"nothing", "connect">>, <<"nothing", "connect_error">>,
               <<"connect", "disconnect">>, <<"nothing", "disconnect">>}
ToldInOrder == \A x \in Attempts : told'[x] # told[x] => <<told[x], told'[x]>> \in ToldSteps
HeardInOrder ==
  \A x \in Attempts : heard'[x] # heard[x] =>
    /\ <<heard[x], heard'[x]>> \in HeardSteps
    /\ heard'[x] = "connect" => told[x] # "nothing"

\* The steps that the events take.
LEMMA EventSteps ==
  /\ \A x : x = "nothing" => <<x, "connection">> \in ToldSteps
  /\ \A x : x = "connection" => <<x, "disconnecting">> \in ToldSteps
  /\ \A x : x = "disconnecting" => <<x, "disconnect">> \in ToldSteps
  /\ \A x : x = "nothing" => /\ <<x, "connect">> \in HeardSteps
                             /\ <<x, "connect_error">> \in HeardSteps
  /\ \A x : x \in {"nothing", "connect"} => <<x, "disconnect">> \in HeardSteps
BY DEF ToldSteps, HeardSteps

LEMMA TellsNext ==
  ASSUME Known, NEW a \in Attempts, NEW event, <<told[a], event>> \in ToldSteps,
         told' = [told EXCEPT ![a] = event]
  PROVE  ToldInOrder
BY DEF ToldInOrder, Known, PairingInv, TypeOK, DataTypeOK

LEMMA HearsNext ==
  ASSUME Known, NEW a \in Attempts, NEW event, <<heard[a], event>> \in HeardSteps,
         event = "connect" => told[a] # "nothing",
         heard' = [heard EXCEPT ![a] = event]
  PROVE  HeardInOrder
BY DEF HeardInOrder, Known, PairingInv, TypeOK, DataTypeOK

\* A Socket that was accepted and whose teardown has not begun was told of its connection.
LEMMA NotYetTorn ==
  ASSUME Known, NEW a \in Attempts, told[a] # "nothing", a \notin torn
  PROVE  told[a] = "connection"
BY AttemptFacts DEF AttemptOk, Known, PairingInv, TypeOK, DataTypeOK

\* The Socket of a connected client.
LEMMA OnlineFacts ==
  ASSUME Known, NEW c \in online
  PROVE  /\ socket[c] \in Attempts /\ attempt[c] = socket[c]
         /\ told[socket[c]] # "nothing" /\ heard[socket[c]] \in {"nothing", "connect"}
<1> PICK a : a = attempt[c]
  OBVIOUS
<1>1. c \in Clients /\ a \in Attempts /\ state[a] = "connected" /\ socket[c] = a
  BY PairingAssumption DEF Known, PairingInv, ConnectedOwnsAttempt, TypeOK, DataTypeOK
<1>2. AttemptOk(a) /\ HeardOk(a)
  BY <1>1, AttemptFacts
<1> QED
  BY <1>1, <1>2 DEF AttemptOk, HeardOk

LEMMA AcceptTells ==
  ASSUME Known, NEW a \in Attempts, RunAccept(a)
  PROVE  ToldInOrder /\ HeardInOrder
<1>1. Due("accept", a) /\ "accept" \in Completions
  BY DEF RunAccept, Completions
<1>2. told[a] = "nothing"
  BY <1>1, CompletionFacts
<1>3. UNCHANGED heard /\ (UNCHANGED told \/ told' = [told EXCEPT ![a] = "connection"])
  BY DEF RunAccept, Reject, Register
<1>4. CASE UNCHANGED told
  BY <1>3, <1>4 DEF ToldInOrder, HeardInOrder
<1>5. CASE told' = [told EXCEPT ![a] = "connection"]
  BY <1>2, <1>3, <1>5, EventSteps, TellsNext DEF HeardInOrder
<1> QED
  BY <1>3, <1>4, <1>5

LEMMA TeardownTells ==
  ASSUME Known, NEW a \in Attempts, RunTeardown(a) \/ DisconnectingReturns(a)
  PROVE  ToldInOrder /\ HeardInOrder
<1>1. HeardInOrder
  BY DEF RunTeardown, DisconnectingReturns, HeardInOrder
<1>2. CASE RunTeardown(a)
  <2>1. Due("teardown", a) /\ "teardown" \in TaskOps
    BY <1>2 DEF RunTeardown, TaskOps
  <2>2. TaskOk([op |-> "teardown", of |-> a])
    BY <2>1, DueFacts
  <2>3. told[a] = "connection"
    BY <2>2 DEF TaskOk
  <2> QED
    BY <1>1, <1>2, <2>3, EventSteps, TellsNext DEF RunTeardown
<1>3. CASE DisconnectingReturns(a)
  <2>1. PICK op \in Teardowns : Top(op, a)
    BY <1>3 DEF DisconnectingReturns, Teardowns
  <2>2. op \in Windows
    BY DEF Teardowns, Windows
  <2>3. told[a] = "disconnecting"
    BY <2>1, <2>2, TopFacts DEF FrameOk
  <2> QED
    BY <1>1, <1>3, <2>3, EventSteps, TellsNext DEF DisconnectingReturns
<1> QED
  BY <1>2, <1>3

\* A teardown that the server or the group begins.
LEMMA BeginningTells ==
  ASSUME Known, NEW a \in Attempts,
         \/ ServerDisconnect(a) \/ DisconnectInitiator(a)
         \/ \E c \in Clients : DisconnectMember(a, c)
  PROVE  ToldInOrder /\ HeardInOrder
<1>1. HeardInOrder
  BY DEF ServerDisconnect, DisconnectInitiator, DisconnectMember, HeardInOrder
<1>2. ASSUME NEW b \in Attempts, told[b] = "connection", BeginTeardown(b) PROVE ToldInOrder
  BY <1>2, EventSteps, TellsNext DEF BeginTeardown
<1>3. UNCHANGED told => ToldInOrder
  BY DEF ToldInOrder
<1>4. CASE ServerDisconnect(a)
  <2>1. a \in Handles /\ a \notin torn /\ BeginTeardown(a)
    BY <1>4 DEF ServerDisconnect
  <2> QED
    BY <1>1, <1>2, <2>1, HandleFacts
<1>5. CASE DisconnectInitiator(a)
  <2>1. Top("initiator", a) /\ "initiator" \in Loops /\ "initiator" \in Callers
    BY <1>5 DEF DisconnectInitiator, Loops, Callers
  <2>2. told[a] # "nothing"
    BY <2>1, TopFacts DEF FrameOk
  <2>3. UNCHANGED told \/ (a \notin torn /\ BeginTeardown(a))
    BY <1>5 DEF DisconnectInitiator
  <2> QED
    BY <1>1, <1>2, <1>3, <2>2, <2>3, NotYetTorn
<1>6. ASSUME NEW c \in Clients, DisconnectMember(a, c) PROVE ToldInOrder
  <2>1. \/ UNCHANGED told
        \/ c \in online /\ socket[c] \notin torn /\ BeginTeardown(socket[c])
    BY <1>6 DEF DisconnectMember
  <2> QED
    BY <1>2, <1>3, <2>1, OnlineFacts, NotYetTorn
<1> QED
  BY <1>1, <1>4, <1>5, <1>6

LEMMA ConnectionTells ==
  ASSUME Known, NEW a \in Attempts,
         \/ RunConnectError(a) \/ ConnectionReturns(a) \/ FlushReturns(a) \/ RepeatedReturns(a)
  PROVE  ToldInOrder /\ HeardInOrder
<1>0. ToldInOrder
  BY DEF RunConnectError, ConnectionReturns, FlushReturns, RepeatedReturns, ToldInOrder
<1>1. ~RepeatedReturns(a)
  BY NothingRepeated
<1>2. UNCHANGED heard => HeardInOrder
  BY DEF HeardInOrder
<1>3. CASE RunConnectError(a)
  <2>1. Due("connectError", a) /\ "connectError" \in TaskOps
    BY <1>3 DEF RunConnectError, TaskOps
  <2>2. heard[a] = "nothing"
    BY <2>1, DueFacts DEF TaskOk
  <2> QED
    BY <1>0, <1>3, <2>2, EventSteps, HearsNext DEF RunConnectError
<1>4. CASE ConnectionReturns(a)
  <2>1. Top("connection", a) /\ "connection" \in Windows
    BY <1>4 DEF ConnectionReturns, Windows
  <2>2. told[a] # "nothing"
    BY <2>1, TopFacts DEF FrameOk
  <2>3. UNCHANGED heard \/ (Pending(a) /\ heard' = [heard EXCEPT ![a] = "connect"])
    BY <1>4 DEF ConnectionReturns
  <2>4. Pending(a) => heard[a] = "nothing"
    BY <1>4, CompletedData
  <2> QED
    BY <1>0, <1>2, <2>2, <2>3, <2>4, EventSteps, HearsNext
<1>5. CASE FlushReturns(a)
  <2>1. Top("flush", a) /\ "flush" \in Windows
    BY <1>5 DEF FlushReturns, Windows
  <2>2. state[a] = "connected" => heard[a] = "nothing"
    BY <2>1, TopFacts DEF FrameOk
  <2>3. state[a] = "connected" => told[a] # "nothing"
    BY AttemptFacts DEF AttemptOk
  <2>4. UNCHANGED heard \/ (state[a] = "connected" /\ heard' = [heard EXCEPT ![a] = "connect"])
    BY <1>5 DEF FlushReturns, Established
  <2> QED
    BY <1>0, <1>2, <2>2, <2>3, <2>4, EventSteps, HearsNext
<1> QED
  BY <1>1, <1>3, <1>4, <1>5

LEMMA LeavingTells ==
  ASSUME Known,
         \/ \E c \in Clients : Disconnect(c)
         \/ \E a \in Attempts : RunClientDisconnect(a)
  PROVE  ToldInOrder /\ HeardInOrder
<1>1. ToldInOrder
  BY DEF Disconnect, RunClientDisconnect, ToldInOrder
<1>2. UNCHANGED heard \/ \E c \in online : MarkDisconnected(c)
  BY DEF Disconnect, RunClientDisconnect
<1>3. ASSUME NEW c \in online, MarkDisconnected(c) PROVE HeardInOrder
  <2> PICK a : a = socket[c]
    OBVIOUS
  <2>1. a \in Attempts /\ attempt[c] = a /\ heard[a] \in {"nothing", "connect"}
    BY OnlineFacts
  <2>2. heard' = [heard EXCEPT ![a] = "disconnect"]
    BY <1>3, <2>1 DEF MarkDisconnected
  <2> QED
    BY <2>1, <2>2, EventSteps, HearsNext
<1> QED
  BY <1>1, <1>2, <1>3 DEF HeardInOrder

LEMMA StepTells == ASSUME Known, Next PROVE ToldInOrder /\ HeardInOrder
<1>1. UNCHANGED <<told, heard>> => ToldInOrder /\ HeardInOrder
  BY DEF ToldInOrder, HeardInOrder
<1>2. ASSUME NEW c \in Clients, Connect(c) \/ Emit(c) \/ CancelAttempt(c)
      PROVE  UNCHANGED <<told, heard>>
  BY <1>2 DEF Connect, Emit, CancelAttempt
<1>3. ASSUME NEW a \in Attempts,
             \/ ResolveAuth(a) \/ CallNext(a) \/ RefuseNext(a) \/ DisconnectGroup(a)
             \/ RunPair(a) \/ RunRefuse(a) \/ LeavingReturns(a) \/ DisconnectReturns(a)
             \/ CancelGroup(a)
      PROVE  UNCHANGED <<told, heard>>
  BY <1>3 DEF ResolveAuth, CallNext, RefuseNext, DisconnectGroup, RunPair, RunRefuse,
              LeavingReturns, DisconnectReturns, CancelGroup, Reject, Attach
<1>4. Close => UNCHANGED <<told, heard>>
  BY DEF Close
<1>5. ASSUME NEW a \in Attempts,
             \/ RunAccept(a) \/ RunTeardown(a) \/ DisconnectingReturns(a)
             \/ ServerDisconnect(a) \/ DisconnectInitiator(a)
             \/ \E c \in Clients : DisconnectMember(a, c)
      PROVE  ToldInOrder /\ HeardInOrder
  BY <1>5, AcceptTells, TeardownTells, BeginningTells
<1>6. ASSUME NEW a \in Attempts,
             \/ RunConnectError(a) \/ ConnectionReturns(a) \/ FlushReturns(a)
             \/ RepeatedReturns(a) \/ RunClientDisconnect(a)
      PROVE  ToldInOrder /\ HeardInOrder
  BY <1>6, ConnectionTells, LeavingTells
<1>7. ASSUME NEW c \in Clients, Disconnect(c) PROVE ToldInOrder /\ HeardInOrder
  BY <1>7, LeavingTells
<1> QED
  BY <1>1, <1>2, <1>3, <1>4, <1>5, <1>6, <1>7
     DEF Next, AppCall, Microtask, CallbackReturns, GroupStep

\* Whatever a disciplined application calls from inside the events it is handed, it sees
\* those of each connection in order and once: `connection`, `disconnecting`, `disconnect`
\* on the server; `connect` or `connect_error`, and then `disconnect`, on the client, whose
\* `connect` never comes before the `connection` of its Socket (sockets.ts).
THEOREM EventsAreOrdered == ASSUME Disciplined PROVE Spec => EventOrder
<1>1. ASSUME Known, Next
      PROVE  /\ \A a \in Attempts : told'[a] # told[a] =>
                  <<told[a], told'[a]>> \in {<<"nothing", "connection">>,
                                             <<"connection", "disconnecting">>,
                                             <<"disconnecting", "disconnect">>}
             /\ \A a \in Attempts : heard'[a] # heard[a] =>
                  /\ <<heard[a], heard'[a]>> \in
                       {<<"nothing", "connect">>, <<"nothing", "connect_error">>,
                        <<"connect", "disconnect">>, <<"nothing", "disconnect">>}
                  /\ heard'[a] = "connect" => told[a] # "nothing"
  BY <1>1, StepTells DEF ToldInOrder, HeardInOrder, ToldSteps, HeardSteps
<1>2. Known /\ [Next]_vars =>
        /\ [\A a \in Attempts : told'[a] # told[a] =>
              <<told[a], told'[a]>> \in {<<"nothing", "connection">>,
                                         <<"connection", "disconnecting">>,
                                         <<"disconnecting", "disconnect">>}]_vars
        /\ [\A a \in Attempts : heard'[a] # heard[a] =>
              /\ <<heard[a], heard'[a]>> \in
                   {<<"nothing", "connect">>, <<"nothing", "connect_error">>,
                    <<"connect", "disconnect">>, <<"nothing", "disconnect">>}
              /\ heard'[a] = "connect" => told[a] # "nothing"]_vars
  BY <1>1
<1> QED
  BY <1>2, KnownAlways, PTL DEF Spec, EventOrder, ServerEventOrder, ClientEventOrder

=============================================================================
