---------------------- MODULE SharedWorkerBridgeProofs ----------------------
(***************************************************************************)
(* Proofs about SharedWorkerBridge, for any number of connections, emits    *)
(* and events: what page and host may assume of the messages in the port    *)
(* whatever fails, and under what the application spares them, that they    *)
(* agree, that acknowledgements arrive and that emits stay in order.        *)
(***************************************************************************)
EXTENDS SharedWorkerBridge, TLAPS

-----------------------------------------------------------------------------
(* Queues: what is in them, and what comes before what.                    *)

\* Every two elements of a sequence are related in their order.
Pairwise(q, R) == \A i, j \in DOMAIN q : i < j => <<q[i], q[j]>> \in R

LEMMA ConcatFacts ==
  ASSUME NEW S, NEW q \in Seq(S), NEW r \in Seq(S)
  PROVE  /\ DOMAIN q = 1..Len(q) /\ DOMAIN r = 1..Len(r) /\ Len(q) \in Nat /\ Len(r) \in Nat
         /\ q \o r \in Seq(S) /\ DOMAIN (q \o r) = 1..(Len(q) + Len(r))
         /\ \A i \in DOMAIN q : (q \o r)[i] = q[i]
         /\ \A i \in 1..Len(r) : (q \o r)[Len(q) + i] = r[i]
OBVIOUS

LEMMA ConcatPlaces ==
  ASSUME NEW S, NEW q \in Seq(S), NEW r \in Seq(S)
  PROVE  /\ \A i \in DOMAIN (q \o r) :
               \/ i \in DOMAIN q /\ (q \o r)[i] = q[i]
               \/ i > Len(q) /\ i - Len(q) \in DOMAIN r /\ (q \o r)[i] = r[i - Len(q)]
         /\ \A i \in DOMAIN q : i \in DOMAIN (q \o r) /\ (q \o r)[i] = q[i]
         /\ \A i \in DOMAIN r : Len(q) + i \in DOMAIN (q \o r) /\ (q \o r)[Len(q) + i] = r[i]
<1> DEFINE p == q \o r
<1>1. /\ DOMAIN q = 1..Len(q) /\ DOMAIN r = 1..Len(r) /\ Len(q) \in Nat /\ Len(r) \in Nat
      /\ DOMAIN p = 1..(Len(q) + Len(r))
      /\ \A i \in DOMAIN q : p[i] = q[i]
      /\ \A i \in 1..Len(r) : p[Len(q) + i] = r[i]
  BY ConcatFacts
<1> HIDE DEF p
<1>2. ASSUME NEW i \in DOMAIN p, i \notin DOMAIN q
      PROVE  i > Len(q) /\ i - Len(q) \in DOMAIN r /\ p[i] = r[i - Len(q)]
  <2>1. i \in Int /\ i > Len(q) /\ i - Len(q) \in 1..Len(r) /\ i = Len(q) + (i - Len(q))
    BY <1>1, <1>2
  <2> QED
    BY <1>1, <2>1
<1>3. /\ \A i \in DOMAIN q : i \in DOMAIN p
      /\ \A i \in DOMAIN r : Len(q) + i \in DOMAIN p /\ p[Len(q) + i] = r[i]
  BY <1>1
<1>4. \A i \in DOMAIN p :
        \/ i \in DOMAIN q /\ p[i] = q[i]
        \/ i > Len(q) /\ i - Len(q) \in DOMAIN r /\ p[i] = r[i - Len(q)]
  BY <1>1, <1>2
<1> QED
  BY <1>1, <1>3, <1>4 DEF p

LEMMA ConcatMembers ==
  ASSUME NEW S, NEW q \in Seq(S), NEW r \in Seq(S)
  PROVE  q \o r \in Seq(S) /\ Members(q \o r) = Members(q) \cup Members(r)
<1> DEFINE p == q \o r
<1>1. /\ \A i \in DOMAIN p : \/ i \in DOMAIN q /\ p[i] = q[i]
                             \/ i - Len(q) \in DOMAIN r /\ p[i] = r[i - Len(q)]
      /\ \A i \in DOMAIN q : i \in DOMAIN p /\ p[i] = q[i]
      /\ \A i \in DOMAIN r : Len(q) + i \in DOMAIN p /\ p[Len(q) + i] = r[i]
  BY ConcatPlaces
<1> HIDE DEF p
<1>2. Members(p) = Members(q) \cup Members(r)
  BY <1>1 DEF Members
<1> QED
  BY <1>2, ConcatFacts DEF p

LEMMA PairwiseConcat ==
  ASSUME NEW S, NEW R, NEW q \in Seq(S), NEW r \in Seq(S), Pairwise(q, R), Pairwise(r, R),
         \A x \in Members(q), y \in Members(r) : <<x, y>> \in R
  PROVE  Pairwise(q \o r, R)
<1> DEFINE p == q \o r
<1>1. /\ DOMAIN q = 1..Len(q) /\ DOMAIN r = 1..Len(r) /\ Len(q) \in Nat /\ Len(r) \in Nat
      /\ DOMAIN p = 1..(Len(q) + Len(r))
  BY ConcatFacts
<1>2. \A i \in DOMAIN p :
        \/ i \in DOMAIN q /\ p[i] = q[i]
        \/ i > Len(q) /\ i - Len(q) \in DOMAIN r /\ p[i] = r[i - Len(q)]
  BY ConcatPlaces
<1> HIDE DEF p
<1> SUFFICES ASSUME NEW i \in DOMAIN p, NEW j \in DOMAIN p, i < j
             PROVE  <<p[i], p[j]>> \in R
  BY DEF Pairwise, p
<1>3. CASE j \in DOMAIN q
  <2>1. i \in DOMAIN q /\ p[i] = q[i] /\ p[j] = q[j]
    BY <1>1, <1>2, <1>3
  <2> QED
    BY <1>3, <2>1 DEF Pairwise
<1>4. CASE j \notin DOMAIN q
  <2>1. j - Len(q) \in DOMAIN r /\ p[j] = r[j - Len(q)]
    BY <1>2, <1>4
  <2>2. CASE i \in DOMAIN q
    <3>1. p[i] = q[i]
      BY <1>1, <1>2, <2>2
    <3> QED
      BY <2>1, <2>2, <3>1 DEF Members
  <2>3. CASE i \notin DOMAIN q
    <3>1. i - Len(q) \in DOMAIN r /\ p[i] = r[i - Len(q)]
      BY <1>2, <2>3
    <3>2. i - Len(q) < j - Len(q)
      BY <1>1
    <3> QED
      BY <2>1, <3>1, <3>2 DEF Pairwise
  <2> QED
    BY <2>2, <2>3
<1> QED
  BY <1>3, <1>4

LEMMA OneMember ==
  ASSUME NEW S, NEW e \in S
  PROVE  <<e>> \in Seq(S) /\ Members(<<e>>) = {e} /\ Members(<<>>) = {}
BY DEF Members

LEMMA OnePairwise ==
  ASSUME NEW S, NEW R, NEW e \in S
  PROVE  Pairwise(<<e>>, R) /\ Pairwise(<<>>, R)
BY DEF Pairwise

\* A message is added at the end of a queue.
LEMMA AddMembers ==
  ASSUME NEW S, NEW q \in Seq(S), NEW e \in S
  PROVE  /\ q \o <<e>> \in Seq(S) /\ Members(q \o <<e>>) = Members(q) \cup {e}
         /\ Append(q, e) = q \o <<e>>
<1>1. Append(q, e) = q \o <<e>>
  OBVIOUS
<1>2. <<e>> \in Seq(S) /\ Members(<<e>>) = {e}
  BY OneMember
<1>3. q \o <<e>> \in Seq(S) /\ Members(q \o <<e>>) = Members(q) \cup Members(<<e>>)
  BY <1>2, ConcatMembers
<1> QED
  BY <1>1, <1>2, <1>3

LEMMA AddPairwise ==
  ASSUME NEW S, NEW R, NEW q \in Seq(S), NEW e \in S, Pairwise(q, R),
         \A x \in Members(q) : <<x, e>> \in R
  PROVE  Pairwise(q \o <<e>>, R)
<1>1. <<e>> \in Seq(S) /\ Members(<<e>>) = {e}
  BY OneMember
<1>2. Pairwise(<<e>>, R)
  BY OnePairwise
<1>3. \A x \in Members(q), y \in Members(<<e>>) : <<x, y>> \in R
  BY <1>1
<1> QED
  BY <1>1, <1>2, <1>3, PairwiseConcat

\* A call is put on a stack.
LEMMA PushMembers ==
  ASSUME NEW S, NEW q \in Seq(S), NEW e \in S
  PROVE  <<e>> \o q \in Seq(S) /\ Members(<<e>> \o q) = {e} \cup Members(q)
<1> DEFINE first == <<e>>
<1>1. first \in Seq(S) /\ Members(first) = {e}
  BY OneMember
<1> HIDE DEF first
<1>2. first \o q \in Seq(S) /\ Members(first \o q) = Members(first) \cup Members(q)
  BY <1>1, ConcatMembers
<1> QED
  BY <1>1, <1>2 DEF first

\* The first message of a queue is taken.
LEMMA TakeMembers ==
  ASSUME NEW S, NEW q \in Seq(S), q # <<>>
  PROVE  /\ Tail(q) \in Seq(S) /\ Head(q) \in S
         /\ Members(q) = {Head(q)} \cup Members(Tail(q))
<1> DEFINE first == <<Head(q)>>
           rest == Tail(q)
<1>1. first \o rest = q /\ rest \in Seq(S) /\ Head(q) \in S
  OBVIOUS
<1>2. first \in Seq(S) /\ Members(first) = {Head(q)}
  BY <1>1, OneMember
<1> HIDE DEF first, rest
<1>3. Members(first \o rest) = Members(first) \cup Members(rest)
  BY <1>1, <1>2, ConcatMembers
<1> QED
  BY <1>1, <1>2, <1>3 DEF rest

LEMMA TakePairwise ==
  ASSUME NEW S, NEW R, NEW q \in Seq(S), q # <<>>, Pairwise(q, R)
  PROVE  /\ Pairwise(Tail(q), R)
         /\ \A x \in Members(Tail(q)) : <<Head(q), x>> \in R
<1> DEFINE p == Tail(q)
<1>1. /\ Head(q) = q[1] /\ DOMAIN p = 1..Len(p) /\ Len(p) \in Nat
      /\ DOMAIN q = 1..Len(q) /\ 1 \in DOMAIN q
      /\ \A i \in DOMAIN p : i + 1 \in DOMAIN q /\ p[i] = q[i + 1]
  OBVIOUS
<1> HIDE DEF p
<1>2. ASSUME NEW i \in DOMAIN p, NEW j \in DOMAIN p, i < j
      PROVE  <<p[i], p[j]>> \in R
  <2>1. i + 1 \in DOMAIN q /\ j + 1 \in DOMAIN q /\ i + 1 < j + 1
    BY <1>1, <1>2
  <2> QED
    BY <1>1, <2>1 DEF Pairwise
<1>3. ASSUME NEW i \in DOMAIN p PROVE <<Head(q), p[i]>> \in R
  <2>1. i + 1 \in DOMAIN q /\ 1 < i + 1
    BY <1>1
  <2> QED
    BY <1>1, <2>1 DEF Pairwise
<1> QED
  BY <1>2, <1>3 DEF Pairwise, Members, p

LEMMA MembersBelong ==
  ASSUME NEW S, NEW q \in Seq(S)
  PROVE  Members(q) \subseteq S
BY DEF Members

-----------------------------------------------------------------------------
(* The messages.                                                           *)

LEMMA Bounds ==
  /\ MaxConnects \in Nat /\ MaxEmits \in Nat /\ MaxEvents \in Nat /\ MaxConnects >= 1
  /\ Generations = 1..MaxConnects /\ Requests = 1..MaxConnects
  /\ Emits = 1..MaxEmits /\ Events = 1..MaxEvents
BY BridgeAssumption DEF Generations, Requests, Emits, Events

LEMMA PageMessageTypes ==
  /\ \A r \in Requests : [type |-> "connect", request |-> r] \in PageMessages
  /\ \A g \in Generations, e \in Emits, a \in BOOLEAN :
       [type |-> "event", generation |-> g, id |-> e, ack |-> a] \in PageMessages
  /\ \A g \in Generations, n \in Events :
       [type |-> "ack", generation |-> g, id |-> n] \in PageMessages
  /\ \A g \in Generations, r \in Requests :
       [type |-> "disconnect", generation |-> g, request |-> r] \in PageMessages
BY DEF PageMessages

LEMMA HostMessageTypes ==
  /\ \A t \in {"connected", "connectError", "disconnected", "unreadable"},
        g \in Generations, r \in Requests :
       [type |-> t, generation |-> g, request |-> r] \in HostMessages
  /\ \A g \in Generations, n \in Events, a \in BOOLEAN :
       [type |-> "event", generation |-> g, id |-> n, ack |-> a] \in HostMessages
  /\ \A g \in Generations, e \in Emits :
       [type |-> "ack", generation |-> g, id |-> e] \in HostMessages
BY DEF HostMessages

LEMMA PageMessageFields ==
  ASSUME NEW m \in PageMessages
  PROVE  /\ m.type \in {"connect", "event", "ack", "disconnect"}
         /\ m.type \in {"connect", "disconnect"} => m.request \in Requests
         /\ m.type # "connect" => m.generation \in Generations
         /\ m.type = "event" => m.id \in Emits /\ m.ack \in BOOLEAN
         /\ m.type = "ack" => m.id \in Events
BY DEF PageMessages

LEMMA HostMessageFields ==
  ASSUME NEW m \in HostMessages
  PROVE  /\ m.type \in {"connected", "connectError", "disconnected", "unreadable", "event", "ack"}
         /\ m.generation \in Generations
         /\ m.type \notin {"event", "ack"} => m.request \in Requests
         /\ m.type = "event" => m.id \in Events /\ m.ack \in BOOLEAN
         /\ m.type = "ack" => m.id \in Emits
BY DEF HostMessages

LEMMA EmissionTypes ==
  /\ \A n \in Emits, k \in Kinds : [id |-> n, kind |-> k] \in Emissions
  /\ \A e \in Emissions : e.id \in Emits /\ e.kind \in Kinds
BY DEF Emissions

LEMMA CallTypes ==
  /\ \A o \in {"connect", "flush", "flushError"}, g \in 0..MaxConnects, q \in Seq(Emissions) :
       [op |-> o, generation |-> g, rest |-> q] \in Calls
  /\ \A f \in Calls : /\ f.op \in {"connect", "flush", "flushError"}
                      /\ f.generation \in 0..MaxConnects /\ f.rest \in Seq(Emissions)
BY DEF Calls

-----------------------------------------------------------------------------
(* What every state satisfies, whatever the application does wrong.        *)

\* The host numbers the requests it takes in their order.
NumbersOk ==
  /\ nextGeneration <= requestSequence
  /\ active \in {0, nextGeneration}
  /\ \A g \in 1..nextGeneration : requestOf[g] \in 1..requestSequence
  /\ \A g, h \in 1..nextGeneration : g < h => requestOf[g] < requestOf[h]

\* A connect that the host has not taken is newer than all it has; anything else is of a
\* generation that the host has handed out.
ToHostOk(m) ==
  /\ m.type = "connect" =>
       /\ m.request \in (nextGeneration + 1)..requestSequence
       /\ \A g \in 1..nextGeneration : requestOf[g] < m.request
  /\ m.type # "connect" => m.generation \in 1..nextGeneration
  /\ m.type = "disconnect" => requestOf[m.generation] = m.request
InTurn == {p \in PageMessages \X PageMessages :
             p[1].type = "connect" /\ p[2].type = "connect" => p[1].request < p[2].request}
ToHostInv ==
  /\ \A m \in Members(toHost) : ToHostOk(m)
  /\ Pairwise(toHost, InTurn)

\* A generation of which the page is told that it is over is not active.
Ends == {"disconnected", "connectError"}
Reports == {"connected", "disconnected", "connectError"}
ToPageOk(m) ==
  /\ m.generation \in 1..nextGeneration
  /\ m.type \in Reports => requestOf[m.generation] = m.request
  /\ m.type \in Ends => active = 0 \/ m.generation < active
Silent == {p \in HostMessages \X HostMessages :
             p[1].type \in Ends => p[2].generation > p[1].generation}
ToPageInv ==
  /\ \A m \in Members(toPage) : ToPageOk(m)
  /\ Pairwise(toPage, Silent)

\* What the page believes.  It is in one stage of a connection, knows which request the
\* connection answers, and holds acknowledgements for it only.
PageOk ==
  /\ generation <= nextGeneration
  /\ connected \/ disconnecting => generation # 0 /\ requestOf[generation] = requestId
  /\ ~(connected /\ connecting)
  /\ ~(connected /\ disconnecting)
  /\ ~(connecting /\ disconnecting)
  /\ \A f \in Members(calls) : f.op = "connect" => ~connected /\ ~disconnecting
  /\ clientAcks # {} \/ answerable # {} => connected
  /\ observingPageHide <=> connected \/ (connecting /\ ~disconnectAfterConnect)
HostOk == references # {} \/ serverAcks # {} => active # 0

PortInv == TypeOK /\ NumbersOk /\ ToHostInv /\ ToPageInv /\ PageOk /\ HostOk

\* The generation of a page that is connected or leaving, and the active one.
LEMMA PageGeneration ==
  ASSUME PortInv, connected \/ disconnecting
  PROVE  /\ generation \in Generations /\ requestId \in Requests
         /\ generation \in 1..nextGeneration /\ requestOf[generation] = requestId
<1>1. generation \in 1..nextGeneration /\ generation \in Generations
  BY Bounds DEF PortInv, TypeOK, PageOk
<1>2. requestOf[generation] \in 1..requestSequence
  BY <1>1 DEF PortInv, NumbersOk
<1> QED
  BY <1>1, <1>2, Bounds DEF PortInv, TypeOK, PageOk

LEMMA HostGeneration ==
  ASSUME PortInv, active # 0
  PROVE  /\ active \in Generations /\ active = nextGeneration /\ active \in 1..nextGeneration
         /\ requestOf[active] \in Requests
<1>1. active \in Generations /\ active = nextGeneration /\ active \in 1..nextGeneration
  BY Bounds DEF PortInv, TypeOK, NumbersOk
<1>2. requestOf[active] \in 1..requestSequence
  BY <1>1 DEF PortInv, NumbersOk
<1> QED
  BY <1>1, <1>2, Bounds DEF PortInv, TypeOK

\* The messages at the heads of the port.
LEMMA HostHead ==
  ASSUME PortInv, toHost # <<>>
  PROVE  /\ Head(toHost) \in PageMessages /\ ToHostOk(Head(toHost))
         /\ Tail(toHost) \in Seq(PageMessages)
         /\ Members(toHost) = {Head(toHost)} \cup Members(Tail(toHost))
         /\ Pairwise(Tail(toHost), InTurn)
         /\ \A x \in Members(Tail(toHost)) : <<Head(toHost), x>> \in InTurn
<1>1. toHost \in Seq(PageMessages)
  BY DEF PortInv, TypeOK
<1>2. Pairwise(toHost, InTurn) /\ \A m \in Members(toHost) : ToHostOk(m)
  BY DEF PortInv, ToHostInv
<1>3. /\ Tail(toHost) \in Seq(PageMessages) /\ Head(toHost) \in PageMessages
      /\ Members(toHost) = {Head(toHost)} \cup Members(Tail(toHost))
  BY <1>1, TakeMembers
<1>4. /\ Pairwise(Tail(toHost), InTurn)
      /\ \A x \in Members(Tail(toHost)) : <<Head(toHost), x>> \in InTurn
  BY <1>1, <1>2, TakePairwise
<1> QED
  BY <1>2, <1>3, <1>4

LEMMA PageHead ==
  ASSUME PortInv, toPage # <<>>
  PROVE  /\ Head(toPage) \in HostMessages /\ ToPageOk(Head(toPage))
         /\ Tail(toPage) \in Seq(HostMessages)
         /\ Members(toPage) = {Head(toPage)} \cup Members(Tail(toPage))
         /\ Pairwise(Tail(toPage), Silent)
         /\ \A x \in Members(Tail(toPage)) : <<Head(toPage), x>> \in Silent
<1>1. toPage \in Seq(HostMessages)
  BY DEF PortInv, TypeOK
<1>2. Pairwise(toPage, Silent) /\ \A m \in Members(toPage) : ToPageOk(m)
  BY DEF PortInv, ToPageInv
<1>3. /\ Tail(toPage) \in Seq(HostMessages) /\ Head(toPage) \in HostMessages
      /\ Members(toPage) = {Head(toPage)} \cup Members(Tail(toPage))
  BY <1>1, TakeMembers
<1>4. /\ Pairwise(Tail(toPage), Silent)
      /\ \A x \in Members(Tail(toPage)) : <<Head(toPage), x>> \in Silent
  BY <1>1, <1>2, TakePairwise
<1> QED
  BY <1>2, <1>3, <1>4

-----------------------------------------------------------------------------
(* The messages to the host.                                               *)

\* The page posts a message of a generation that it knows, or the next connect.
LEMMA PostKeeps ==
  ASSUME PortInv, NEW m \in PageMessages, toHost' = toHost \o <<m>>, ToHostOk(m)',
         UNCHANGED <<nextGeneration, requestOf>>,
         requestSequence' \in {requestSequence, requestSequence + 1},
         m.type = "connect" => m.request = requestSequence + 1
  PROVE  toHost' \in Seq(PageMessages) /\ ToHostInv'
<1>1. toHost \in Seq(PageMessages) /\ Members(toHost) \subseteq PageMessages
  BY MembersBelong DEF PortInv, TypeOK
<1>2. toHost' \in Seq(PageMessages) /\ Members(toHost') = Members(toHost) \cup {m}
  BY <1>1, AddMembers
<1>3. requestSequence \in Nat /\ nextGeneration \in Nat
  BY Bounds DEF PortInv, TypeOK
<1>4. ASSUME NEW x \in Members(toHost)
      PROVE  ToHostOk(x)' /\ <<x, m>> \in InTurn
  <2>1. ToHostOk(x) /\ x \in PageMessages
    BY <1>1, <1>4 DEF PortInv, ToHostInv
  <2>2. ToHostOk(x)'
    BY <2>1, <1>3 DEF ToHostOk
  <2>3. x.type = "connect" /\ m.type = "connect" => x.request < m.request
    BY <2>1, <1>3 DEF ToHostOk
  <2> QED
    BY <2>1, <2>2, <2>3 DEF InTurn
<1>5. Pairwise(toHost', InTurn)
  <2>1. Pairwise(toHost, InTurn)
    BY DEF PortInv, ToHostInv
  <2> QED
    BY <1>1, <1>4, <2>1, AddPairwise
<1> QED
  BY <1>2, <1>4, <1>5 DEF ToHostInv

LEMMA TakeKeeps ==
  ASSUME PortInv, toHost # <<>>, toHost' = Tail(toHost),
         UNCHANGED <<nextGeneration, requestOf, requestSequence>>
  PROVE  toHost' \in Seq(PageMessages) /\ ToHostInv'
BY HostHead DEF PortInv, ToHostInv, ToHostOk

LEMMA SameToHost ==
  ASSUME PortInv, UNCHANGED <<toHost, nextGeneration, requestOf>>,
         requestSequence' \in {requestSequence, requestSequence + 1}
  PROVE  toHost' \in Seq(PageMessages) /\ ToHostInv'
<1>1. requestSequence \in Nat /\ nextGeneration \in Nat
  BY Bounds DEF PortInv, TypeOK
<1>2. \A x \in Members(toHost) : ToHostOk(x) => ToHostOk(x)'
  BY <1>1 DEF ToHostOk
<1> QED
  BY <1>2 DEF PortInv, ToHostInv, TypeOK

\* The connect at the head of the queue is taken: the next generation is its.
LEMMA ConnectKeeps ==
  ASSUME PortInv, HostConnect
  PROVE  /\ toHost' \in Seq(PageMessages) /\ ToHostInv' /\ NumbersOk'
         /\ NextGeneration \in Generations /\ Head(toHost).request \in Requests
         /\ requestOf' \in [Generations -> Requests \cup {0}]
         /\ nextGeneration' = nextGeneration + 1 /\ active' \in {0, nextGeneration + 1}
         /\ requestOf'[nextGeneration + 1] = Head(toHost).request
         /\ \A g \in 1..nextGeneration : requestOf'[g] = requestOf[g]
<1> DEFINE m == Head(toHost)
           n == nextGeneration
<1>1. /\ toHost # <<>> /\ m.type = "connect" /\ toHost' = Tail(toHost)
      /\ nextGeneration' = n + 1 /\ requestOf' = [requestOf EXCEPT ![n + 1] = m.request]
      /\ active' \in {0, n + 1} /\ UNCHANGED requestSequence
  BY DEF HostConnect, HostTakes, NextGeneration, pageVars, requestVars
<1>2. /\ m \in PageMessages /\ ToHostOk(m) /\ Tail(toHost) \in Seq(PageMessages)
      /\ Members(toHost) = {m} \cup Members(Tail(toHost))
      /\ Pairwise(Tail(toHost), InTurn)
      /\ \A x \in Members(Tail(toHost)) : <<m, x>> \in InTurn
  BY <1>1, HostHead
<1>3. /\ n \in Nat /\ requestSequence \in 1..MaxConnects /\ MaxConnects \in Nat
      /\ requestOf \in [Generations -> Requests \cup {0}]
      /\ n <= requestSequence /\ active \in {0, n}
      /\ \A g \in 1..n : requestOf[g] \in 1..requestSequence
      /\ \A g, h \in 1..n : g < h => requestOf[g] < requestOf[h]
  BY Bounds DEF PortInv, TypeOK, NumbersOk
<1>4. /\ m.request \in (n + 1)..requestSequence
      /\ \A g \in 1..n : requestOf[g] < m.request
  BY <1>1, <1>2 DEF ToHostOk
<1>5. n + 1 \in Generations /\ m.request \in Requests /\ 1..n \subseteq Generations
  BY <1>3, <1>4, Bounds
<1>6. /\ requestOf'[n + 1] = m.request
      /\ \A g \in 1..n : requestOf'[g] = requestOf[g]
      /\ requestOf' \in [Generations -> Requests \cup {0}]
  BY <1>1, <1>3, <1>5
<1> HIDE DEF m, n
<1>7. NumbersOk'
  <2>1. \A g \in 1..(n + 1) : g \in 1..n \/ g = n + 1
    BY <1>3
  <2>2. \A g \in 1..(n + 1) : requestOf'[g] \in 1..requestSequence
    BY <1>3, <1>4, <1>6, <2>1
  <2>3. ASSUME NEW g \in 1..(n + 1), NEW h \in 1..(n + 1), g < h
        PROVE  requestOf'[g] < requestOf'[h]
    BY <1>3, <1>4, <1>6, <2>1, <2>3
  <2>4. n + 1 <= requestSequence
    BY <1>3, <1>4
  <2> QED
    BY <1>1, <2>2, <2>3, <2>4 DEF NumbersOk
<1>8. ASSUME NEW x \in Members(Tail(toHost))
      PROVE  ToHostOk(x)'
  <2>1. ToHostOk(x) /\ <<m, x>> \in InTurn
    BY <1>2, <1>8 DEF PortInv, ToHostInv
  <2>2. x.type = "connect" =>
          /\ x.request \in (n + 1)..requestSequence /\ m.request < x.request
          /\ \A g \in 1..n : requestOf[g] < x.request
    BY <1>1, <2>1 DEF ToHostOk, InTurn, n
  <2>3. x.type # "connect" => x.generation \in 1..n
    BY <2>1 DEF ToHostOk, n
  <2>4. x.type = "disconnect" => requestOf[x.generation] = x.request
    BY <2>1 DEF ToHostOk
  <2>5. x.type = "connect" =>
          /\ x.request \in (n + 2)..requestSequence
          /\ \A g \in 1..(n + 1) : requestOf'[g] < x.request
    BY <1>3, <1>4, <1>6, <2>2
  <2>6. x.type # "connect" => x.generation \in 1..(n + 1)
    BY <1>3, <2>3
  <2> QED
    BY <1>1, <1>3, <1>6, <2>3, <2>4, <2>5, <2>6 DEF ToHostOk
<1> QED
  BY <1>1, <1>2, <1>3, <1>5, <1>6, <1>7, <1>8 DEF ToHostInv, NextGeneration, m, n

-----------------------------------------------------------------------------
(* The messages to the page.                                               *)

\* The host replies with a message of the active generation.
LEMMA ReplyKeeps ==
  ASSUME PortInv, active # 0, NEW m \in HostMessages, toPage' = toPage \o <<m>>,
         m.generation = active, UNCHANGED <<nextGeneration, requestOf>>,
         active' \in {0, active}, m.type \in Ends => active' = 0,
         m.type \in Reports => m.request = requestOf[active]
  PROVE  toPage' \in Seq(HostMessages) /\ ToPageInv'
<1>1. toPage \in Seq(HostMessages) /\ Members(toPage) \subseteq HostMessages
  BY MembersBelong DEF PortInv, TypeOK
<1>2. toPage' \in Seq(HostMessages) /\ Members(toPage') = Members(toPage) \cup {m}
  BY <1>1, AddMembers
<1>3. active \in 1..nextGeneration /\ active \in Nat /\ nextGeneration \in Nat
  BY HostGeneration, Bounds
<1>4. ASSUME NEW x \in Members(toPage)
      PROVE  ToPageOk(x)' /\ <<x, m>> \in Silent
  <2>1. ToPageOk(x) /\ x \in HostMessages
    BY <1>1, <1>4 DEF PortInv, ToPageInv
  <2>2. ToPageOk(x)'
    BY <2>1, <1>3 DEF ToPageOk
  <2>3. x.type \in Ends => m.generation > x.generation
    BY <2>1, <1>3 DEF ToPageOk
  <2> QED
    BY <2>1, <2>2, <2>3 DEF Silent
<1>5. Pairwise(toPage', Silent)
  <2>1. Pairwise(toPage, Silent)
    BY DEF PortInv, ToPageInv
  <2> QED
    BY <1>1, <1>4, <2>1, AddPairwise
<1>6. ToPageOk(m)'
  BY <1>3 DEF ToPageOk
<1> QED
  BY <1>2, <1>4, <1>5, <1>6 DEF ToPageInv

\* No reply: a message is taken, or none.
LEMMA NoReplyKeeps ==
  ASSUME PortInv, UNCHANGED <<nextGeneration, requestOf>>, active' \in {0, active},
         toPage' = toPage \/ (toPage # <<>> /\ toPage' = Tail(toPage))
  PROVE  toPage' \in Seq(HostMessages) /\ ToPageInv'
<1>1. \A x : ToPageOk(x) => ToPageOk(x)'
  BY DEF ToPageOk
<1>2. CASE toPage' = toPage
  BY <1>1, <1>2 DEF PortInv, TypeOK, ToPageInv
<1>3. CASE toPage # <<>> /\ toPage' = Tail(toPage)
  BY <1>1, <1>3, PageHead DEF PortInv, ToPageInv
<1> QED
  BY <1>2, <1>3

\* What the host replies to a connect: that the active connection is over, and that the
\* next one failed, if it did.
LEMMA ConnectReplies ==
  ASSUME PortInv, HostConnect, NEW failure,
         failure = [type |-> "connectError", generation |-> nextGeneration + 1,
                    request |-> Head(toHost).request]
  PROVE  \E news \in Seq(HostMessages) :
           /\ toPage' = toPage \o news /\ Pairwise(news, Silent)
           /\ Members(news) \subseteq {Disconnected(active), failure}
           /\ Disconnected(active) \in Members(news) <=> active # 0
           /\ failure \in Members(news) <=> active' = 0
           /\ \A p \in Members(news) : p \in HostMessages
<1>1. /\ failure \in HostMessages /\ nextGeneration + 1 # 0
      /\ active # 0 => Disconnected(active) \in HostMessages
      /\ active # 0 => <<Disconnected(active), failure>> \in Silent
      /\ failure.type = "connectError" /\ Disconnected(active).type = "disconnected"
  <2>1. nextGeneration + 1 \in Generations /\ Head(toHost).request \in Requests
    BY ConnectKeeps DEF NextGeneration
  <2>2. failure \in HostMessages
    BY <2>1, HostMessageTypes
  <2>3. nextGeneration \in Nat /\ active \in Nat
    BY Bounds DEF PortInv, TypeOK
  <2>4. ASSUME active # 0
        PROVE  /\ Disconnected(active) \in HostMessages
               /\ <<Disconnected(active), failure>> \in Silent
    <3>1. active \in Generations /\ active = nextGeneration /\ requestOf[active] \in Requests
      BY <2>4, HostGeneration
    <3>2. Disconnected(active) \in HostMessages /\ Disconnected(active).generation = active
      BY <3>1, HostMessageTypes DEF Disconnected
    <3> QED
      BY <2>2, <2>3, <3>1, <3>2 DEF Silent
  <2> QED
    BY <2>2, <2>3, <2>4 DEF Disconnected
<1>2. PICK replaced : replaced = IF active = 0 THEN <<>> ELSE <<Disconnected(active)>>
  OBVIOUS
<1>3. \/ active' # 0 /\ toPage' = toPage \o replaced
      \/ active' = 0 /\ toPage' = toPage \o (replaced \o <<failure>>)
  <2>1. nextGeneration + 1 # 0
    BY <1>1
  <2> QED
    BY <1>2, <2>1 DEF HostConnect, Reply, NextGeneration
<1>4. /\ replaced \in Seq(HostMessages) /\ Pairwise(replaced, Silent)
      /\ Members(replaced) = IF active = 0 THEN {} ELSE {Disconnected(active)}
  <2>1. CASE active = 0
    BY <1>2, <2>1 DEF Members, Pairwise
  <2>2. CASE active # 0
    BY <1>1, <1>2, <2>2, OneMember, OnePairwise
  <2> QED
    BY <2>1, <2>2
<1>5. Disconnected(active) # failure
  BY <1>1
<1>6. CASE active' # 0 /\ toPage' = toPage \o replaced
  <2>1. \A p \in Members(replaced) : p \in HostMessages
    BY <1>1, <1>4
  <2>2. /\ Members(replaced) \subseteq {Disconnected(active), failure}
        /\ Disconnected(active) \in Members(replaced) <=> active # 0
        /\ failure \in Members(replaced) <=> active' = 0
    BY <1>4, <1>5, <1>6
  <2> QED
    BY <1>4, <1>6, <2>1, <2>2
<1>7. CASE active' = 0 /\ toPage' = toPage \o (replaced \o <<failure>>)
  <2>1. \A x \in Members(replaced) : <<x, failure>> \in Silent
    BY <1>1, <1>4
  <2>2. PICK news : news = replaced \o <<failure>>
    OBVIOUS
  <2>3. /\ news \in Seq(HostMessages) /\ Pairwise(news, Silent)
        /\ Members(news) = Members(replaced) \cup {failure}
    <3>1. failure \in HostMessages
      BY <1>1
    <3>2. /\ replaced \o <<failure>> \in Seq(HostMessages)
          /\ Members(replaced \o <<failure>>) = Members(replaced) \cup {failure}
      BY <1>4, <3>1, AddMembers
    <3>3. Pairwise(replaced \o <<failure>>, Silent)
      BY <1>4, <2>1, <3>1, AddPairwise
    <3> QED
      BY <2>2, <3>2, <3>3
  <2>4. \A p \in Members(news) : p \in HostMessages
    BY <1>1, <1>4, <2>3
  <2>5. /\ Members(news) \subseteq {Disconnected(active), failure}
        /\ Disconnected(active) \in Members(news) <=> active # 0
        /\ failure \in Members(news) <=> active' = 0
    BY <1>4, <1>5, <1>7, <2>3
  <2> QED
    BY <1>7, <2>2, <2>3, <2>4, <2>5
<1> QED
  BY <1>3, <1>6, <1>7

LEMMA ConnectRepliesKeep ==
  ASSUME PortInv, HostConnect
  PROVE  toPage' \in Seq(HostMessages) /\ ToPageInv'
<1>1. PICK failure : failure = [type |-> "connectError", generation |-> nextGeneration + 1,
                                request |-> Head(toHost).request]
  OBVIOUS
<1>2. PICK news \in Seq(HostMessages) :
           /\ toPage' = toPage \o news /\ Pairwise(news, Silent)
           /\ Members(news) \subseteq {Disconnected(active), failure}
           /\ Disconnected(active) \in Members(news) <=> active # 0
           /\ failure \in Members(news) <=> active' = 0
           /\ \A p \in Members(news) : p \in HostMessages
  BY <1>1, ConnectReplies
<1>3. /\ nextGeneration' = nextGeneration + 1 /\ active' \in {0, nextGeneration + 1}
      /\ requestOf'[nextGeneration + 1] = Head(toHost).request
      /\ \A g \in 1..nextGeneration : requestOf'[g] = requestOf[g]
  BY ConnectKeeps
<1>4. /\ toPage \in Seq(HostMessages) /\ Members(toPage) \subseteq HostMessages
      /\ nextGeneration \in Nat /\ active \in {0, nextGeneration}
      /\ Pairwise(toPage, Silent)
  BY MembersBelong, Bounds DEF PortInv, TypeOK, NumbersOk, ToPageInv
<1>5. toPage' \in Seq(HostMessages) /\ Members(toPage') = Members(toPage) \cup Members(news)
  BY <1>2, <1>4, ConcatMembers
<1>6. ASSUME NEW x \in Members(toPage)
      PROVE  ToPageOk(x)' /\ ToPageOk(x) /\ x \in HostMessages
  <2>1. ToPageOk(x) /\ x \in HostMessages
    BY <1>4, <1>6 DEF PortInv, ToPageInv
  <2>2. x.generation \in 1..nextGeneration /\ (x.type \in Reports => requestOf[x.generation] = x.request)
    BY <2>1 DEF ToPageOk
  <2> QED
    BY <1>3, <1>4, <2>1, <2>2 DEF ToPageOk
<1>7. ASSUME NEW y \in Members(news)
      PROVE  /\ ToPageOk(y)' /\ y \in HostMessages
             /\ \A x \in Members(toPage) : <<x, y>> \in Silent
  <2>1. y \in HostMessages /\ y \in {Disconnected(active), failure}
    BY <1>2, <1>7
  <2>2. CASE y = failure
    <3>1. active' = 0 /\ y.generation = nextGeneration + 1 /\ y.request = Head(toHost).request
      BY <1>1, <1>2, <1>7, <2>2
    <3>2. ToPageOk(y)'
      BY <1>3, <1>4, <3>1 DEF ToPageOk
    <3>3. \A x \in Members(toPage) : x.generation < y.generation
      BY <1>4, <1>6, <3>1 DEF ToPageOk
    <3> QED
      BY <1>6, <2>1, <3>2, <3>3 DEF Silent
  <2>3. CASE y = Disconnected(active) /\ active # 0
    <3>1. y.generation = active /\ y.request = requestOf[active] /\ active \in 1..nextGeneration
      BY <2>3, HostGeneration DEF Disconnected
    <3>2. ToPageOk(y)'
      BY <1>3, <1>4, <3>1 DEF ToPageOk
    <3>3. \A x \in Members(toPage) : x.type \in Ends => x.generation < y.generation
      BY <1>4, <1>6, <3>1, <2>3 DEF ToPageOk
    <3> QED
      BY <1>6, <2>1, <3>2, <3>3 DEF Silent
  <2> QED
    BY <1>2, <1>7, <2>1, <2>2, <2>3
<1>8. Pairwise(toPage', Silent)
  BY <1>2, <1>4, <1>7, PairwiseConcat
<1> QED
  BY <1>5, <1>6, <1>7, <1>8 DEF ToPageInv


-----------------------------------------------------------------------------
(* Every step keeps it.                                                    *)

\* What the page does leaves the numbers of the host alone, and what the host does the
\* beliefs of the page.
LEMMA HostRests ==
  ASSUME PortInv, UNCHANGED hostVars,
         requestSequence' \in {requestSequence, requestSequence + 1}
  PROVE  NumbersOk' /\ HostOk'
<1>1. requestSequence \in Nat /\ nextGeneration \in Nat
  BY Bounds DEF PortInv, TypeOK
<1>2. \A g \in 1..nextGeneration : requestOf[g] \in 1..requestSequence'
  BY <1>1 DEF PortInv, NumbersOk
<1> QED
  BY <1>1, <1>2 DEF PortInv, NumbersOk, HostOk, hostVars

LEMMA PageRests ==
  ASSUME PortInv, UNCHANGED pageVars,
         UNCHANGED <<nextGeneration, requestOf>> \/ HostConnect
  PROVE  PageOk'
<1>1. /\ nextGeneration \in Nat /\ generation \in Nat /\ nextGeneration <= nextGeneration'
      /\ \A g \in 1..nextGeneration : requestOf'[g] = requestOf[g]
  BY ConnectKeeps, Bounds DEF PortInv, TypeOK
<1>2. connected \/ disconnecting => requestOf'[generation] = requestId
  BY <1>1, PageGeneration
<1>3. UNCHANGED <<requestId, connecting, disconnectAfterConnect, observingPageHide, generation,
                  connected, disconnecting, clientAcks, answerable, calls>>
  BY DEF pageVars, requestVars, linkVars
<1>4. generation' <= nextGeneration' /\ nextGeneration' \in Nat
  <2>1. generation <= nextGeneration
    BY DEF PortInv, PageOk
  <2>2. nextGeneration' \in Nat
    BY <1>1, ConnectKeeps
  <2> QED
    BY <1>1, <1>3, <2>1, <2>2
<1> QED
  BY <1>2, <1>3, <1>4 DEF PortInv, PageOk

LEMMA ConnectStep ==
  ASSUME PortInv, Connect
  PROVE  PortInv'
<1>m. PICK m : m = [type |-> "connect", request |-> requestSequence + 1]
  OBVIOUS
<1>f. PICK f : f = [op |-> "connect", generation |-> 0, rest |-> <<>>]
  OBVIOUS
<1>1. requestSequence + 1 \in Requests /\ requestSequence \in Nat /\ nextGeneration \in Nat
  BY Bounds DEF PortInv, TypeOK, Connect
<1>2. m \in PageMessages /\ ToHostOk(m)'
  <2>1. \A g \in 1..nextGeneration : requestOf[g] \in 1..requestSequence
    BY DEF PortInv, NumbersOk
  <2>2. nextGeneration <= requestSequence
    BY DEF PortInv, NumbersOk
  <2> QED
    BY <1>m, <1>1, <2>1, <2>2, PageMessageTypes DEF ToHostOk, Connect, hostVars
<1>3. f \in Calls /\ f.op = "connect"
  <2>1. <<>> \in Seq(Emissions) /\ 0 \in 0..MaxConnects
    BY Bounds
  <2> QED
    BY <1>f, <2>1, CallTypes
<1>4. /\ requestSequence' = requestSequence + 1 /\ UNCHANGED <<hostVars, toPage>>
      /\ \/ toHost' = toHost \o <<m>> /\ UNCHANGED calls
         \/ UNCHANGED toHost /\ calls' = <<f>> \o calls
  BY <1>m, <1>f DEF Connect, Post
<1>5. toHost' \in Seq(PageMessages) /\ ToHostInv'
  <2>1. CASE toHost' = toHost \o <<m>>
    <3>1. m.type = "connect" => m.request = requestSequence + 1
      BY <1>m
    <3> QED
      BY <1>2, <1>4, <2>1, <3>1, PostKeeps DEF hostVars
  <2>2. CASE UNCHANGED toHost
    BY <1>4, <2>2, SameToHost DEF hostVars
  <2> QED
    BY <1>4, <2>1, <2>2
<1>6. NumbersOk' /\ HostOk'
  BY <1>4, HostRests
<1>7. toPage' \in Seq(HostMessages) /\ ToPageInv'
  BY <1>4, NoReplyKeeps DEF hostVars
<1>8. calls' \in Seq(Calls)
  <2>1. calls \in Seq(Calls) /\ <<f>> \in Seq(Calls)
    BY <1>3 DEF PortInv, TypeOK
  <2>2. <<f>> \o calls \in Seq(Calls)
    BY <2>1
  <2> QED
    BY <1>4, <2>1, <2>2
<1>9. TypeOK'
  BY <1>1, <1>4, <1>5, <1>7, <1>8 DEF PortInv, TypeOK, Connect, ReleaseGeneration,
     ReleaseAcknowledgements, hostVars
<1>10. PageOk'
  <2>1. /\ generation' = 0 /\ ~connected' /\ ~disconnecting' /\ connecting'
        /\ ~disconnectAfterConnect' /\ observingPageHide'
        /\ clientAcks' = {} /\ answerable' = {}
    BY DEF Connect, ReleaseGeneration, ReleaseAcknowledgements
  <2> QED
    BY <1>1, <1>4, <2>1 DEF PageOk, hostVars
<1> QED
  BY <1>5, <1>6, <1>7, <1>9, <1>10 DEF PortInv

LEMMA CallsPopped ==
  ASSUME PortInv, calls # <<>>
  PROVE  /\ Head(calls) \in Calls /\ Tail(calls) \in Seq(Calls)
         /\ Members(calls) = {Head(calls)} \cup Members(Tail(calls))
BY TakeMembers DEF PortInv, TypeOK

LEMMA ConnectFailedStep ==
  ASSUME PortInv, ConnectFailed
  PROVE  PortInv'
<1>1. /\ calls # <<>> /\ Head(calls).op = "connect" /\ calls' = Tail(calls)
      /\ connecting' = FALSE /\ requestId' = 0 /\ observingPageHide' = FALSE
      /\ UNCHANGED <<requestSequence, disconnectAfterConnect, linkVars, outgoingBuffer, emitted,
                     toHost, toPage, hostVars>>
  BY DEF ConnectFailed
<1>2. /\ Head(calls) \in Calls /\ Tail(calls) \in Seq(Calls)
      /\ Members(calls) = {Head(calls)} \cup Members(Tail(calls))
  BY <1>1, CallsPopped
<1>3. toHost' \in Seq(PageMessages) /\ ToHostInv'
  BY <1>1, SameToHost DEF hostVars
<1>4. toPage' \in Seq(HostMessages) /\ ToPageInv'
  BY <1>1, NoReplyKeeps DEF hostVars
<1>5. NumbersOk' /\ HostOk'
  BY <1>1, HostRests
<1>6. TypeOK'
  BY <1>1, <1>2 DEF PortInv, TypeOK, linkVars, hostVars
<1>7. PageOk'
  <2>1. ~connected /\ ~disconnecting
    BY <1>1, <1>2 DEF PortInv, PageOk
  <2> QED
    BY <1>1, <1>2, <2>1 DEF PortInv, PageOk, linkVars, hostVars
<1> QED
  BY <1>3, <1>4, <1>5, <1>6, <1>7 DEF PortInv

\* The page leaves a generation that it knows.
LEMMA LeaveKeeps ==
  ASSUME PortInv, NEW g \in 1..nextGeneration, Leave(g), requestOf[g] = requestId,
         UNCHANGED <<nextGeneration, requestOf, requestSequence>>
  PROVE  toHost' \in Seq(PageMessages) /\ ToHostInv'
<1>m. PICK m : m = [type |-> "disconnect", generation |-> g, request |-> requestId]
  OBVIOUS
<1>1. g \in Generations /\ requestId \in Requests
  <2>1. g \in Generations /\ requestOf[g] \in 1..requestSequence
    BY Bounds DEF PortInv, TypeOK, NumbersOk
  <2> QED
    BY <2>1, Bounds DEF PortInv, TypeOK
<1>2. m \in PageMessages /\ m.type = "disconnect" /\ m.generation = g /\ m.request = requestId
  BY <1>m, <1>1, PageMessageTypes
<1>3. toHost' = toHost \o <<m>>
  BY <1>m DEF Leave, Post
<1>4. ToHostOk(m)'
  BY <1>2 DEF ToHostOk
<1> QED
  BY <1>2, <1>3, <1>4, PostKeeps

LEMMA DisconnectStep ==
  ASSUME PortInv, Disconnect
  PROVE  PortInv'
<1>1. UNCHANGED <<requestSequence, requestId, connecting, outgoingBuffer, emitted, calls,
                  toPage, hostVars>>
  BY DEF Disconnect
<1>2. \/ connected /\ Leave(generation) /\ UNCHANGED <<disconnectAfterConnect, generation>>
      \/ /\ ~connected /\ connecting /\ disconnectAfterConnect' = TRUE
         /\ observingPageHide' = FALSE /\ UNCHANGED <<linkVars, toHost>>
  BY DEF Disconnect
<1>3. toHost' \in Seq(PageMessages) /\ ToHostInv'
  <2>1. CASE connected /\ Leave(generation)
    BY <1>1, <2>1, PageGeneration, LeaveKeeps DEF hostVars
  <2>2. CASE UNCHANGED toHost
    BY <1>1, <2>2, SameToHost DEF hostVars
  <2> QED
    BY <1>2, <2>1, <2>2
<1>4. toPage' \in Seq(HostMessages) /\ ToPageInv'
  BY <1>1, NoReplyKeeps DEF hostVars
<1>5. NumbersOk' /\ HostOk'
  BY <1>1, HostRests
<1>6. TypeOK'
  BY <1>1, <1>2, <1>3 DEF PortInv, TypeOK, linkVars, hostVars, Leave, ReleaseAcknowledgements
<1>7. PageOk'
  <2>1. CASE connected /\ Leave(generation) /\ UNCHANGED <<disconnectAfterConnect, generation>>
    BY <1>1, <2>1 DEF PortInv, PageOk, hostVars, Leave, ReleaseAcknowledgements
  <2>2. CASE /\ ~connected /\ connecting /\ disconnectAfterConnect' = TRUE
             /\ observingPageHide' = FALSE /\ UNCHANGED <<linkVars, toHost>>
    BY <1>1, <2>2 DEF PortInv, PageOk, hostVars, linkVars
  <2> QED
    BY <1>2, <2>1, <2>2
<1> QED
  BY <1>3, <1>4, <1>5, <1>6, <1>7 DEF PortInv

\* A page that is connected posts an event or an acknowledgement of its generation.
LEMMA OwnMessageKeeps ==
  ASSUME PortInv, connected, NEW m \in PageMessages, toHost' = toHost \o <<m>>,
         m.type \in {"event", "ack"}, m.generation = generation,
         UNCHANGED <<nextGeneration, requestOf, requestSequence>>
  PROVE  toHost' \in Seq(PageMessages) /\ ToHostInv'
<1>1. generation \in 1..nextGeneration
  BY PageGeneration
<1>2. ToHostOk(m)'
  BY <1>1 DEF ToHostOk
<1> QED
  BY <1>2, PostKeeps

LEMMA EmissionPosted ==
  ASSUME PortInv, connected, NEW e \in Emissions, PostEmission(e, generation),
         UNCHANGED <<nextGeneration, requestOf, requestSequence>>
  PROVE  toHost' \in Seq(PageMessages) /\ ToHostInv' /\ clientAcks' \subseteq Emits
<1>m. PICK m : m = [type |-> "event", generation |-> generation, id |-> e.id,
                    ack |-> (e.kind = "ack")]
  OBVIOUS
<1>1. generation \in Generations /\ e.id \in Emits
  BY PageGeneration, EmissionTypes
<1>2. m \in PageMessages /\ m.type = "event" /\ m.generation = generation
  BY <1>m, <1>1, PageMessageTypes
<1>3. toHost' = toHost \o <<m>>
  BY <1>m DEF PostEmission, Post
<1>4. clientAcks' \subseteq Emits
  BY <1>1 DEF PostEmission, PortInv, TypeOK
<1> QED
  BY <1>2, <1>3, <1>4, OwnMessageKeeps

LEMMA EmitStep ==
  ASSUME PortInv, NEW kind, Emit(kind)
  PROVE  PortInv'
<1>e. PICK e : e = [id |-> emitted + 1, kind |-> kind]
  OBVIOUS
<1>1. /\ UNCHANGED <<requestVars, generation, connected, disconnecting, answerable, calls,
                     toPage, hostVars>>
      /\ emitted < MaxEmits /\ emitted' = emitted + 1 /\ kind \in Kinds
      /\ \/ Buffer(e) /\ UNCHANGED <<toHost, clientAcks>>
         \/ /\ connected /\ ~disconnecting /\ UNCHANGED outgoingBuffer
            /\ UNCHANGED <<toHost, clientAcks>> \/ PostEmission(e, generation)
  BY <1>e DEF Emit
<1>2. emitted + 1 \in Emits /\ e \in Emissions
  <2>1. emitted + 1 \in Emits
    BY <1>1, Bounds DEF PortInv, TypeOK
  <2> QED
    BY <1>e, <1>1, <2>1, EmissionTypes
<1>3. /\ toHost' \in Seq(PageMessages) /\ ToHostInv' /\ clientAcks' \subseteq Emits
      /\ outgoingBuffer' \in Seq(Emissions)
  <2>1. CASE Buffer(e) /\ UNCHANGED <<toHost, clientAcks>>
    <3>1. outgoingBuffer' \in Seq(Emissions)
      BY <1>2, <2>1 DEF Buffer, PortInv, TypeOK
    <3>2. toHost' \in Seq(PageMessages) /\ ToHostInv'
      BY <1>1, <2>1, SameToHost DEF hostVars, requestVars
    <3> QED
      BY <2>1, <3>1, <3>2 DEF PortInv, TypeOK
  <2>2. CASE connected /\ UNCHANGED <<outgoingBuffer, toHost, clientAcks>>
    <3>1. toHost' \in Seq(PageMessages) /\ ToHostInv'
      BY <1>1, <2>2, SameToHost DEF hostVars, requestVars
    <3> QED
      BY <2>2, <3>1 DEF PortInv, TypeOK
  <2>3. CASE connected /\ UNCHANGED outgoingBuffer /\ PostEmission(e, generation)
    <3>1. toHost' \in Seq(PageMessages) /\ ToHostInv' /\ clientAcks' \subseteq Emits
      BY <1>1, <1>2, <2>3, EmissionPosted DEF hostVars, requestVars
    <3> QED
      BY <2>3, <3>1 DEF PortInv, TypeOK
  <2> QED
    BY <1>1, <2>1, <2>2, <2>3
<1>4. toPage' \in Seq(HostMessages) /\ ToPageInv'
  BY <1>1, NoReplyKeeps DEF hostVars
<1>5. NumbersOk' /\ HostOk'
  BY <1>1, HostRests DEF requestVars
<1>6. TypeOK'
  BY <1>1, <1>2, <1>3, Bounds DEF PortInv, TypeOK, requestVars, hostVars
<1>7. PageOk'
  <2>1. clientAcks' = clientAcks \/ connected
    BY <1>1
  <2> QED
    BY <1>1, <2>1 DEF PortInv, PageOk, requestVars, hostVars
<1> QED
  BY <1>3, <1>4, <1>5, <1>6, <1>7 DEF PortInv

LEMMA AnswerStep ==
  ASSUME PortInv, NEW n \in Events, Answer(n)
  PROVE  PortInv'
<1>m. PICK m : m = [type |-> "ack", generation |-> generation, id |-> n]
  OBVIOUS
<1>1. /\ UNCHANGED <<requestVars, generation, connected, disconnecting, clientAcks,
                     outgoingBuffer, emitted, calls, toPage, hostVars>>
      /\ n \in answerable /\ answerable' = answerable \ {n}
      /\ toHost' = toHost \/ (connected /\ toHost' = toHost \o <<m>>)
  BY <1>m DEF Answer, Post
<1>2. toHost' \in Seq(PageMessages) /\ ToHostInv'
  <2>1. CASE toHost' = toHost
    BY <1>1, <2>1, SameToHost DEF hostVars, requestVars
  <2>2. CASE connected /\ toHost' = toHost \o <<m>>
    <3>1. m \in PageMessages /\ m.type = "ack" /\ m.generation = generation
      BY <1>m, <2>2, PageGeneration, PageMessageTypes
    <3> QED
      BY <1>1, <2>2, <3>1, OwnMessageKeeps DEF hostVars, requestVars
  <2> QED
    BY <1>1, <2>1, <2>2
<1>4. toPage' \in Seq(HostMessages) /\ ToPageInv'
  BY <1>1, NoReplyKeeps DEF hostVars
<1>5. NumbersOk' /\ HostOk'
  BY <1>1, HostRests DEF requestVars
<1>6. TypeOK'
  BY <1>1, <1>2 DEF PortInv, TypeOK, requestVars, hostVars
<1>7. PageOk'
  BY <1>1 DEF PortInv, PageOk, requestVars, hostVars
<1> QED
  BY <1>2, <1>4, <1>5, <1>6, <1>7 DEF PortInv

\* One round of a flush: it has ended, gives up, or posts its first emission.
LEMMA FlushRounds ==
  ASSUME PortInv, Flush, NEW f, f = Head(calls)
  PROVE  /\ calls # <<>> /\ f \in Calls /\ f.op \in {"flush", "flushError"}
         /\ \/ /\ f.rest = <<>> /\ calls' = Tail(calls)
               /\ UNCHANGED <<outgoingBuffer, toHost, clientAcks>>
            \/ /\ f.rest # <<>> /\ (~connected \/ generation # f.generation \/ disconnecting)
               /\ outgoingBuffer' = f.rest \o outgoingBuffer
               /\ calls' = Tail(calls) /\ UNCHANGED <<toHost, clientAcks>>
            \/ /\ f.rest # <<>> /\ Head(f.rest) \in Emissions
               /\ connected /\ generation = f.generation /\ ~disconnecting
               /\ IF Head(f.rest).kind = "unclonable"
                  THEN UNCHANGED <<toHost, clientAcks>>
                  ELSE PostEmission(Head(f.rest), generation)
               /\ \E r \in Calls : /\ calls' = <<r>> \o Tail(calls)
                                   /\ r.generation = f.generation /\ r.rest = Tail(f.rest)
                                   /\ r.op = IF Head(f.rest).kind = "unclonable"
                                             THEN "flushError" ELSE "flush"
               /\ UNCHANGED outgoingBuffer
<1>1. calls # <<>> /\ f \in Calls /\ f.op \in {"flush", "flushError"} /\ f.rest \in Seq(Emissions)
  BY CallsPopped, CallTypes DEF Flush
<1>2. CASE f.rest = <<>> /\ calls' = Tail(calls) /\ UNCHANGED <<outgoingBuffer, toHost, clientAcks>>
  BY <1>1, <1>2
<1>3. CASE /\ f.rest # <<>> /\ (~connected \/ generation # f.generation \/ disconnecting)
           /\ outgoingBuffer' = f.rest \o outgoingBuffer
           /\ calls' = Tail(calls) /\ UNCHANGED <<toHost, clientAcks>>
  BY <1>1, <1>3
<1>4. CASE /\ f.rest # <<>> /\ connected /\ generation = f.generation /\ ~disconnecting
           /\ IF Head(f.rest).kind = "unclonable" THEN UNCHANGED <<toHost, clientAcks>>
                                       ELSE PostEmission(Head(f.rest), generation)
           /\ calls' = <<[f EXCEPT !.rest = Tail(@),
                                   !.op = IF Head(f.rest).kind = "unclonable" THEN "flushError"
                                                                   ELSE "flush"]>> \o Tail(calls)
           /\ UNCHANGED outgoingBuffer
  <2>1. Head(f.rest) \in Emissions
    BY <1>1, <1>4
  <2>2. PICK o \in {"connect", "flush", "flushError"} :
           o = IF Head(f.rest).kind = "unclonable" THEN "flushError" ELSE "flush"
    OBVIOUS
  <2>3. PICK r : r = [f EXCEPT !.rest = Tail(@), !.op = o]
    OBVIOUS
  <2>4. r \in Calls /\ r.op = o /\ r.generation = f.generation /\ r.rest = Tail(f.rest)
    <3>1. Tail(f.rest) \in Seq(Emissions) /\ DOMAIN f = {"op", "generation", "rest"}
      BY <1>1, <1>4 DEF Calls
    <3>2. r \in Calls
      BY <1>1, <2>3, <3>1 DEF Calls
    <3> QED
      BY <2>3, <3>1, <3>2
  <2>5. calls' = <<r>> \o Tail(calls)
    BY <1>4, <2>2, <2>3
  <2>6. \E z \in Calls : /\ calls' = <<z>> \o Tail(calls)
                         /\ z.generation = f.generation /\ z.rest = Tail(f.rest)
                         /\ z.op = IF Head(f.rest).kind = "unclonable"
                                   THEN "flushError" ELSE "flush"
    BY <2>2, <2>4, <2>5
  <2> QED
    BY <1>1, <1>4, <2>1, <2>6
<1> QED
  BY <1>2, <1>3, <1>4 DEF Flush

LEMMA FlushStep ==
  ASSUME PortInv, Flush
  PROVE  PortInv'
<1>f. PICK f : f = Head(calls)
  OBVIOUS
<1>1. UNCHANGED <<requestVars, generation, connected, disconnecting, answerable, emitted,
                  toPage, hostVars>>
  BY DEF Flush
<1>2. /\ calls # <<>> /\ f \in Calls /\ f.op \in {"flush", "flushError"}
      /\ f.rest \in Seq(Emissions) /\ Tail(calls) \in Seq(Calls)
      /\ Members(calls) = {f} \cup Members(Tail(calls))
  BY <1>f, FlushRounds, CallsPopped, CallTypes
<1>3. /\ toHost' \in Seq(PageMessages) /\ ToHostInv' /\ clientAcks' \subseteq Emits
      /\ outgoingBuffer' \in Seq(Emissions) /\ calls' \in Seq(Calls)
      /\ \A c \in Members(calls') : c.op = "connect" => c \in Members(calls)
      /\ clientAcks' = clientAcks \/ connected
  <2>1. CASE calls' = Tail(calls) /\ UNCHANGED <<toHost, clientAcks>>
             /\ outgoingBuffer' \in {outgoingBuffer, f.rest \o outgoingBuffer}
    <3>1. outgoingBuffer' \in Seq(Emissions) /\ clientAcks' \subseteq Emits
      <4>1. outgoingBuffer \in Seq(Emissions) /\ clientAcks \subseteq Emits
        BY DEF PortInv, TypeOK
      <4>2. f.rest \o outgoingBuffer \in Seq(Emissions)
        BY <1>2, <4>1
      <4> QED
        BY <2>1, <4>1, <4>2
    <3>2. toHost' \in Seq(PageMessages) /\ ToHostInv'
      BY <1>1, <2>1, SameToHost DEF hostVars, requestVars
    <3> QED
      BY <1>2, <2>1, <3>1, <3>2
  <2>2. ASSUME NEW e \in Emissions, NEW r \in Calls, connected,
               UNCHANGED <<toHost, clientAcks>> \/ PostEmission(e, generation),
               calls' = <<r>> \o Tail(calls), r.op # "connect", UNCHANGED outgoingBuffer
        PROVE  /\ toHost' \in Seq(PageMessages) /\ ToHostInv' /\ clientAcks' \subseteq Emits
               /\ outgoingBuffer' \in Seq(Emissions) /\ calls' \in Seq(Calls)
               /\ \A c \in Members(calls') : c.op = "connect" => c \in Members(calls)
    <3>1. outgoingBuffer' \in Seq(Emissions)
      BY <2>2 DEF PortInv, TypeOK
    <3>2. toHost' \in Seq(PageMessages) /\ ToHostInv' /\ clientAcks' \subseteq Emits
      <4>1. CASE UNCHANGED <<toHost, clientAcks>>
        <5>1. toHost' \in Seq(PageMessages) /\ ToHostInv'
          BY <1>1, <4>1, SameToHost DEF hostVars, requestVars
        <5> QED
          BY <4>1, <5>1 DEF PortInv, TypeOK
      <4>2. CASE PostEmission(e, generation)
        BY <1>1, <2>2, <4>2, EmissionPosted DEF hostVars, requestVars
      <4> QED
        BY <2>2, <4>1, <4>2
    <3>3. calls' \in Seq(Calls) /\ Members(calls') = {r} \cup Members(Tail(calls))
      <4>1. /\ <<r>> \o Tail(calls) \in Seq(Calls)
            /\ Members(<<r>> \o Tail(calls)) = {r} \cup Members(Tail(calls))
        BY <1>2, PushMembers
      <4> QED
        BY <2>2, <4>1
    <3> QED
      BY <1>2, <2>2, <3>1, <3>2, <3>3
  <2>3. \/ /\ calls' = Tail(calls) /\ UNCHANGED <<toHost, clientAcks>>
           /\ outgoingBuffer' \in {outgoingBuffer, f.rest \o outgoingBuffer}
        \/ \E e \in Emissions, r \in Calls :
             /\ connected /\ calls' = <<r>> \o Tail(calls) /\ r.op # "connect"
             /\ UNCHANGED <<toHost, clientAcks>> \/ PostEmission(e, generation)
             /\ UNCHANGED outgoingBuffer
    BY <1>f, FlushRounds
  <2> QED
    BY <2>1, <2>2, <2>3
<1>4. toPage' \in Seq(HostMessages) /\ ToPageInv'
  BY <1>1, NoReplyKeeps DEF hostVars
<1>5. NumbersOk' /\ HostOk'
  BY <1>1, HostRests DEF requestVars
<1>6. TypeOK'
  BY <1>1, <1>3 DEF PortInv, TypeOK, requestVars, hostVars
<1>7. PageOk'
  BY <1>1, <1>3 DEF PortInv, PageOk, requestVars, hostVars
<1> QED
  BY <1>3, <1>4, <1>5, <1>6, <1>7 DEF PortInv

\* The page takes a message: the port and the host keep what they promise.
LEMMA PageTakesKeeps ==
  ASSUME PortInv, NEW type, PageTakes(type), UNCHANGED requestSequence, NEW m, m = Head(toPage)
  PROVE  /\ m \in HostMessages /\ m.type = type /\ ToPageOk(m) /\ m.generation \in Generations
         /\ toPage' \in Seq(HostMessages) /\ ToPageInv' /\ NumbersOk' /\ HostOk'
         /\ toPage # <<>> /\ calls = <<>> /\ UNCHANGED hostVars
<1>1. calls = <<>> /\ toPage # <<>> /\ m.type = type /\ toPage' = Tail(toPage) /\ UNCHANGED hostVars
  BY DEF PageTakes
<1>2. m \in HostMessages /\ ToPageOk(m)
  BY <1>1, PageHead
<1>3. toPage' \in Seq(HostMessages) /\ ToPageInv'
  BY <1>1, NoReplyKeeps DEF hostVars
<1>4. NumbersOk' /\ HostOk'
  BY <1>1, HostRests
<1>5. m.generation \in Generations
  BY <1>2, HostMessageFields
<1> QED
  BY <1>1, <1>2, <1>3, <1>4, <1>5

LEMMA ReceiveConnectedStep ==
  ASSUME PortInv, ReceiveConnected
  PROVE  PortInv'
<1>m. PICK m : m = Head(toPage)
  OBVIOUS
<1>1. UNCHANGED <<requestSequence, requestId, emitted>>
  BY DEF ReceiveConnected
<1>2. /\ m \in HostMessages /\ m.type = "connected" /\ ToPageOk(m) /\ m.generation \in Generations
      /\ toPage' \in Seq(HostMessages) /\ ToPageInv' /\ NumbersOk' /\ HostOk'
      /\ UNCHANGED hostVars
  BY <1>m, <1>1, PageTakesKeeps DEF ReceiveConnected
<1>3. \/ /\ ~Awaited(m)
         /\ UNCHANGED <<connecting, disconnectAfterConnect, observingPageHide, linkVars,
                        outgoingBuffer, calls, toHost>>
      \/ /\ Awaited(m) /\ generation' = m.generation /\ connecting' = FALSE
         /\ disconnectAfterConnect' = FALSE /\ disconnectAfterConnect
         /\ Leave(m.generation) /\ UNCHANGED <<outgoingBuffer, calls>>
      \/ /\ Awaited(m) /\ generation' = m.generation /\ connecting' = FALSE
         /\ disconnectAfterConnect' = FALSE /\ ~disconnectAfterConnect /\ connected' = TRUE
         /\ calls' = <<[op |-> "flush", generation |-> m.generation, rest |-> outgoingBuffer]>>
         /\ outgoingBuffer' = <<>>
         /\ UNCHANGED <<disconnecting, clientAcks, answerable, observingPageHide, toHost>>
  BY <1>m DEF ReceiveConnected
<1>4. /\ m.generation \in 1..nextGeneration /\ requestOf[m.generation] = m.request
      /\ nextGeneration \in Nat /\ m.generation \in Nat /\ m.generation # 0
  BY <1>2, Bounds DEF ToPageOk, Reports, PortInv, TypeOK
<1>5. CASE /\ ~Awaited(m)
           /\ UNCHANGED <<connecting, disconnectAfterConnect, observingPageHide, linkVars,
                          outgoingBuffer, calls, toHost>>
  <2>1. toHost' \in Seq(PageMessages) /\ ToHostInv'
    BY <1>1, <1>2, <1>5, SameToHost DEF hostVars
  <2>2. TypeOK'
    BY <1>1, <1>2, <1>5 DEF PortInv, TypeOK, linkVars, hostVars
  <2>3. PageOk'
    BY <1>1, <1>2, <1>5 DEF PortInv, PageOk, linkVars, hostVars
  <2> QED
    BY <1>2, <2>1, <2>2, <2>3 DEF PortInv
<1>6. CASE /\ Awaited(m) /\ generation' = m.generation /\ connecting' = FALSE
           /\ disconnectAfterConnect' = FALSE /\ disconnectAfterConnect
           /\ Leave(m.generation) /\ UNCHANGED <<outgoingBuffer, calls>>
  <2>1. toHost' \in Seq(PageMessages) /\ ToHostInv'
    BY <1>1, <1>2, <1>4, <1>6, LeaveKeeps DEF Awaited, hostVars
  <2>2. TypeOK'
    BY <1>1, <1>2, <1>6, <2>1 DEF PortInv, TypeOK, hostVars, Leave, ReleaseAcknowledgements
  <2>3. /\ ~connected' /\ ~connecting' /\ disconnecting' /\ ~observingPageHide'
        /\ clientAcks' = {} /\ answerable' = {}
        /\ \A c \in Members(calls') : c.op # "connect"
    <3>1. calls' = <<>>
      BY <1>6 DEF ReceiveConnected, PageTakes
    <3> QED
      BY <1>6, <3>1 DEF Leave, ReleaseAcknowledgements, Members
  <2>4. PageOk'
    BY <1>1, <1>2, <1>4, <1>6, <2>3 DEF PageOk, Awaited, hostVars
  <2> QED
    BY <1>2, <2>1, <2>2, <2>4 DEF PortInv
<1>7. CASE /\ Awaited(m) /\ generation' = m.generation /\ connecting' = FALSE
           /\ disconnectAfterConnect' = FALSE /\ ~disconnectAfterConnect /\ connected' = TRUE
           /\ calls' = <<[op |-> "flush", generation |-> m.generation, rest |-> outgoingBuffer]>>
           /\ outgoingBuffer' = <<>>
           /\ UNCHANGED <<disconnecting, clientAcks, answerable, observingPageHide, toHost>>
  <2>1. toHost' \in Seq(PageMessages) /\ ToHostInv'
    BY <1>1, <1>2, <1>7, SameToHost DEF hostVars
  <2>f. PICK f : f = [op |-> "flush", generation |-> m.generation, rest |-> outgoingBuffer]
    OBVIOUS
  <2>2. f \in Calls /\ f.op = "flush"
    <3>1. outgoingBuffer \in Seq(Emissions) /\ m.generation \in 0..MaxConnects
      BY <1>2, Bounds DEF PortInv, TypeOK
    <3> QED
      BY <2>f, <3>1, CallTypes
  <2>3. calls' \in Seq(Calls) /\ Members(calls') = {f}
    BY <1>7, <2>f, <2>2, OneMember
  <2>4. TypeOK'
    <3>1. outgoingBuffer' \in Seq(Emissions) /\ TRUE \in BOOLEAN /\ FALSE \in BOOLEAN
      BY <1>7
    <3> QED
      BY <1>1, <1>2, <1>7, <2>1, <2>3, <3>1 DEF PortInv, TypeOK, hostVars
  <2>5. connecting /\ ~disconnecting /\ observingPageHide
    BY <1>7 DEF Awaited, PortInv, PageOk
  <2>6. PageOk'
    BY <1>1, <1>2, <1>4, <1>7, <2>2, <2>3, <2>5 DEF PageOk, Awaited, hostVars
  <2> QED
    BY <1>2, <2>1, <2>4, <2>6 DEF PortInv
<1> QED
  BY <1>3, <1>5, <1>6, <1>7

LEMMA ReceiveConnectErrorStep ==
  ASSUME PortInv, ReceiveConnectError
  PROVE  PortInv'
<1>m. PICK m : m = Head(toPage)
  OBVIOUS
<1>1. /\ generation' = IF Awaited(m) THEN 0 ELSE generation
      /\ connected' = (connected /\ ~Awaited(m))
      /\ observingPageHide' = (observingPageHide /\ ~Awaited(m))
      /\ connecting' = (connecting /\ ~Awaited(m))
      /\ UNCHANGED <<requestSequence, requestId, disconnectAfterConnect, disconnecting,
                     clientAcks, answerable, outgoingBuffer, emitted, calls, toHost>>
  BY <1>m DEF ReceiveConnectError
<1>2. /\ toPage' \in Seq(HostMessages) /\ ToPageInv' /\ NumbersOk' /\ HostOk'
      /\ UNCHANGED hostVars
  BY <1>m, <1>1, PageTakesKeeps DEF ReceiveConnectError
<1>3. toHost' \in Seq(PageMessages) /\ ToHostInv'
  BY <1>1, <1>2, SameToHost DEF hostVars
<1>4. TypeOK'
  BY <1>1, <1>2 DEF PortInv, TypeOK, hostVars
<1>5. Awaited(m) => connecting
  BY DEF Awaited
<1>6. nextGeneration \in Nat
  BY DEF PortInv, TypeOK
<1>7. PageOk'
  <2>1. CASE Awaited(m)
    <3>1. ~connected /\ ~disconnecting /\ clientAcks = {} /\ answerable = {}
      BY <1>5, <2>1 DEF PortInv, PageOk
    <3>2. /\ ~connected' /\ ~connecting' /\ ~observingPageHide' /\ generation' = 0
          /\ ~disconnecting' /\ clientAcks' = {} /\ answerable' = {}
          /\ nextGeneration' = nextGeneration
      BY <1>1, <1>2, <2>1, <3>1 DEF hostVars
    <3> QED
      BY <1>6, <3>2 DEF PageOk
  <2>2. CASE ~Awaited(m)
    <3>1. UNCHANGED <<generation, connected, observingPageHide, connecting>>
      BY <1>1, <2>2 DEF PortInv, TypeOK
    <3> QED
      BY <1>1, <1>2, <3>1 DEF PortInv, PageOk, hostVars
  <2> QED
    BY <2>1, <2>2
<1> QED
  BY <1>2, <1>3, <1>4, <1>7 DEF PortInv

LEMMA ReceiveEventStep ==
  ASSUME PortInv, ReceiveEvent
  PROVE  PortInv'
<1>m. PICK m : m = Head(toPage)
  OBVIOUS
<1>1. /\ answerable' = IF m.ack /\ m.generation = generation /\ connected /\ ~disconnecting
                       THEN answerable \cup {m.id} ELSE answerable
      /\ UNCHANGED <<requestVars, generation, connected, disconnecting, clientAcks,
                     outgoingBuffer, emitted, calls, toHost>>
  BY <1>m DEF ReceiveEvent
<1>2. /\ m \in HostMessages /\ m.type = "event"
      /\ toPage' \in Seq(HostMessages) /\ ToPageInv' /\ NumbersOk' /\ HostOk'
      /\ UNCHANGED hostVars
  BY <1>m, <1>1, PageTakesKeeps DEF ReceiveEvent, requestVars
<1>3. toHost' \in Seq(PageMessages) /\ ToHostInv'
  BY <1>1, <1>2, SameToHost DEF hostVars, requestVars
<1>4. m.id \in Events
  BY <1>2, HostMessageFields
<1>5. TypeOK'
  BY <1>1, <1>2, <1>4 DEF PortInv, TypeOK, hostVars, requestVars
<1>6. PageOk'
  BY <1>1, <1>2 DEF PortInv, PageOk, hostVars, requestVars
<1> QED
  BY <1>2, <1>3, <1>5, <1>6 DEF PortInv

LEMMA ReceiveAcknowledgementStep ==
  ASSUME PortInv, ReceiveAcknowledgement
  PROVE  PortInv'
<1>m. PICK m : m = Head(toPage)
  OBVIOUS
<1>1. /\ clientAcks' = IF m.generation = generation /\ connected /\ ~disconnecting
                       THEN clientAcks \ {m.id} ELSE clientAcks
      /\ UNCHANGED <<requestVars, generation, connected, disconnecting, answerable,
                     outgoingBuffer, emitted, calls, toHost>>
  BY <1>m DEF ReceiveAcknowledgement
<1>2. /\ toPage' \in Seq(HostMessages) /\ ToPageInv' /\ NumbersOk' /\ HostOk'
      /\ UNCHANGED hostVars
  BY <1>m, <1>1, PageTakesKeeps DEF ReceiveAcknowledgement, requestVars
<1>3. toHost' \in Seq(PageMessages) /\ ToHostInv'
  BY <1>1, <1>2, SameToHost DEF hostVars, requestVars
<1>4. TypeOK'
  BY <1>1, <1>2 DEF PortInv, TypeOK, hostVars, requestVars
<1>5. PageOk'
  BY <1>1, <1>2 DEF PortInv, PageOk, hostVars, requestVars
<1> QED
  BY <1>2, <1>3, <1>4, <1>5 DEF PortInv

LEMMA ReceiveDisconnectedStep ==
  ASSUME PortInv, ReceiveDisconnected
  PROVE  PortInv'
<1>m. PICK m : m = Head(toPage)
  OBVIOUS
<1>1. /\ \/ /\ connecting' = FALSE /\ disconnecting' = FALSE /\ observingPageHide' = FALSE
            /\ connected' = FALSE /\ generation' = 0 /\ clientAcks' = {} /\ answerable' = {}
         \/ UNCHANGED <<connecting, observingPageHide, generation, connected, disconnecting,
                        clientAcks, answerable>>
      /\ UNCHANGED <<requestSequence, requestId, disconnectAfterConnect, outgoingBuffer,
                     emitted, calls, toHost>>
  BY DEF ReceiveDisconnected, ReleaseGeneration, ReleaseAcknowledgements, linkVars
<1>2. /\ toPage' \in Seq(HostMessages) /\ ToPageInv' /\ NumbersOk' /\ HostOk'
      /\ UNCHANGED hostVars
  BY <1>m, <1>1, PageTakesKeeps DEF ReceiveDisconnected
<1>3. toHost' \in Seq(PageMessages) /\ ToHostInv'
  BY <1>1, <1>2, SameToHost DEF hostVars
<1>4. TypeOK'
  BY <1>1, <1>2 DEF PortInv, TypeOK, hostVars
<1>5. nextGeneration \in Nat
  BY DEF PortInv, TypeOK
<1>6. PageOk'
  BY <1>1, <1>2, <1>5 DEF PortInv, PageOk, hostVars
<1> QED
  BY <1>2, <1>3, <1>4, <1>6 DEF PortInv

LEMMA ReceiveUnreadableStep ==
  ASSUME PortInv, ReceiveUnreadable
  PROVE  PortInv'
<1>1. UNCHANGED <<requestVars, linkVars, outgoingBuffer, emitted, calls, toHost>>
  BY DEF ReceiveUnreadable
<1>2. /\ toPage' \in Seq(HostMessages) /\ ToPageInv' /\ NumbersOk' /\ HostOk'
      /\ UNCHANGED hostVars
  BY <1>1, PageTakesKeeps DEF ReceiveUnreadable, requestVars
<1>3. toHost' \in Seq(PageMessages) /\ ToHostInv'
  BY <1>1, <1>2, SameToHost DEF hostVars, requestVars
<1>4. TypeOK'
  BY <1>1, <1>2 DEF PortInv, TypeOK, hostVars, requestVars, linkVars
<1>5. PageOk'
  BY <1>1, <1>2 DEF PortInv, PageOk, hostVars, requestVars, linkVars
<1> QED
  BY <1>2, <1>3, <1>4, <1>5 DEF PortInv

\* What finish() leaves behind, in whatever state the Socket is.
LEMMA FinishKeeps ==
  ASSUME PortInv, NEW g \in Generations, NEW state \in {"none", "pending", "connected", "gone"},
         Finish(g, state), UNCHANGED <<nextGeneration, requestOf, requestSequence>>
  PROVE  /\ NumbersOk' /\ HostOk' /\ active' = 0 /\ serverAcks' = {} /\ references' = {}
         /\ sockets' \in [Generations -> {"none", "pending", "connected", "gone"}]
BY DEF PortInv, TypeOK, NumbersOk, HostOk, Finish

LEMMA DisconnectedTypes ==
  ASSUME PortInv, active # 0
  PROVE  /\ Disconnected(active) \in HostMessages /\ Disconnected(active).type = "disconnected"
         /\ Disconnected(active).generation = active
         /\ Disconnected(active).request = requestOf[active]
BY HostGeneration, HostMessageTypes DEF Disconnected

\* The texts of generation g: they report what they should, or cannot be read.
LEMMA TextsTypes ==
  ASSUME PortInv, active # 0, NEW type \in {"connectError", "disconnected"},
         NEW m \in Texts(type, active)
  PROVE  /\ m \in HostMessages /\ m.type \in {type, "unreadable"} /\ m.generation = active
         /\ m.request = requestOf[active]
         /\ "blank" \notin Faults => m.type = type
<1>1. PICK t \in {type} \cup (IF "blank" \in Faults THEN {"unreadable"} ELSE {}) :
        m = [type |-> t, generation |-> active, request |-> requestOf[active]]
  BY DEF Texts
<1>2. active \in Generations /\ requestOf[active] \in Requests
  BY HostGeneration
<1> QED
  BY <1>1, <1>2, HostMessageTypes

LEMMA HostConnectStep ==
  ASSUME PortInv, HostConnect
  PROVE  PortInv'
<1>1. /\ UNCHANGED <<pageVars, hostClosed, sent, received>>
      /\ serverAcks' = {} /\ references' = {}
      /\ \/ sockets' = [Replaced EXCEPT ![NextGeneration] = "pending"]
         \/ sockets' = Replaced
  BY DEF HostConnect, HostTakes
<1>2. /\ toHost' \in Seq(PageMessages) /\ ToHostInv' /\ NumbersOk'
      /\ NextGeneration \in Generations
      /\ requestOf' \in [Generations -> Requests \cup {0}]
      /\ nextGeneration' = nextGeneration + 1 /\ active' \in {0, nextGeneration + 1}
  BY ConnectKeeps
<1>3. toPage' \in Seq(HostMessages) /\ ToPageInv'
  BY ConnectRepliesKeep
<1>4. PageOk'
  BY <1>1, PageRests
<1>5. HostOk'
  BY <1>1 DEF HostOk
<1>6. sockets' \in [Generations -> {"none", "pending", "connected", "gone"}]
  <2>1. Replaced \in [Generations -> {"none", "pending", "connected", "gone"}]
    BY HostGeneration DEF Replaced, PortInv, TypeOK
  <2> QED
    BY <1>1, <1>2, <2>1
<1>7. nextGeneration' \in 0..MaxConnects /\ active' \in Generations \cup {0}
  BY <1>2, Bounds DEF NextGeneration
<1>8. TypeOK'
  BY <1>1, <1>2, <1>3, <1>6, <1>7 DEF PortInv, TypeOK, pageVars, requestVars, linkVars
<1> QED
  BY <1>2, <1>3, <1>4, <1>5, <1>8 DEF PortInv

\* The host takes a message that is no connect.
LEMMA HostTakesKeeps ==
  ASSUME PortInv, NEW type, HostTakes(type), UNCHANGED <<nextGeneration, requestOf>>,
         NEW m, m = Head(toHost)
  PROVE  /\ m \in PageMessages /\ m.type = type /\ ToHostOk(m) /\ toHost # <<>>
         /\ toHost' \in Seq(PageMessages) /\ ToHostInv' /\ PageOk'
         /\ UNCHANGED <<pageVars, hostClosed>>
<1>1. /\ toHost # <<>> /\ m.type = type /\ toHost' = Tail(toHost)
      /\ UNCHANGED <<pageVars, hostClosed>>
  BY DEF HostTakes
<1>2. m \in PageMessages /\ ToHostOk(m)
  BY <1>1, HostHead
<1>3. toHost' \in Seq(PageMessages) /\ ToHostInv'
  BY <1>1, TakeKeeps DEF pageVars, requestVars
<1>4. PageOk'
  BY <1>1, PageRests
<1> QED
  BY <1>1, <1>2, <1>3, <1>4

LEMMA HostEventStep ==
  ASSUME PortInv, HostEvent
  PROVE  PortInv'
<1>m. PICK m : m = Head(toHost)
  OBVIOUS
<1>1. /\ HostTakes("event")
      /\ received' = IF IsActive(m) THEN m.id ELSE received
      /\ references' = IF IsActive(m) /\ m.ack THEN references \cup {m.id} ELSE references
      /\ UNCHANGED <<active, nextGeneration, requestOf, sockets, sent, serverAcks, toPage>>
  BY <1>m DEF HostEvent
<1>2. /\ m \in PageMessages /\ m.type = "event"
      /\ toHost' \in Seq(PageMessages) /\ ToHostInv' /\ PageOk'
      /\ UNCHANGED <<pageVars, hostClosed>>
  BY <1>m, <1>1, HostTakesKeeps
<1>3. m.id \in Emits
  BY <1>2, PageMessageFields
<1>4. toPage' \in Seq(HostMessages) /\ ToPageInv'
  BY <1>1, NoReplyKeeps
<1>5. NumbersOk'
  BY <1>1, <1>2 DEF PortInv, NumbersOk, pageVars, requestVars
<1>6. HostOk'
  BY <1>1 DEF PortInv, HostOk, IsActive
<1>7. received' \in 0..MaxEmits /\ references' \subseteq Emits
  <2>1. received \in 0..MaxEmits /\ references \subseteq Emits
    BY DEF PortInv, TypeOK
  <2>2. m.id \in 0..MaxEmits
    BY <1>3, Bounds
  <2> QED
    BY <1>1, <1>3, <2>1, <2>2
<1>8. TypeOK'
  BY <1>1, <1>2, <1>7 DEF PortInv, TypeOK, pageVars, requestVars, linkVars
<1> QED
  BY <1>2, <1>4, <1>5, <1>6, <1>8 DEF PortInv

LEMMA HostAcknowledgementStep ==
  ASSUME PortInv, HostAcknowledgement
  PROVE  PortInv'
<1>m. PICK m : m = Head(toHost)
  OBVIOUS
<1>1. /\ HostTakes("ack")
      /\ serverAcks' = IF IsActive(m) THEN serverAcks \ {m.id} ELSE serverAcks
      /\ UNCHANGED <<active, nextGeneration, requestOf, sockets, sent, references, received,
                     toPage>>
  BY <1>m DEF HostAcknowledgement
<1>2. /\ toHost' \in Seq(PageMessages) /\ ToHostInv' /\ PageOk'
      /\ UNCHANGED <<pageVars, hostClosed>>
  BY <1>m, <1>1, HostTakesKeeps
<1>4. toPage' \in Seq(HostMessages) /\ ToPageInv'
  BY <1>1, NoReplyKeeps
<1>5. NumbersOk'
  BY <1>1, <1>2 DEF PortInv, NumbersOk, pageVars, requestVars
<1>6. HostOk'
  BY <1>1 DEF PortInv, HostOk
<1>7. TypeOK'
  BY <1>1, <1>2 DEF PortInv, TypeOK, pageVars, requestVars, linkVars
<1> QED
  BY <1>2, <1>4, <1>5, <1>6, <1>7 DEF PortInv

LEMMA HostDisconnectStep ==
  ASSUME PortInv, HostDisconnect
  PROVE  PortInv'
<1>m. PICK m : m = Head(toHost)
  OBVIOUS
<1>1. /\ HostTakes("disconnect") /\ UNCHANGED <<nextGeneration, requestOf, sent, received>>
      /\ \/ active # 0 /\ Finish(active, "gone") /\ Reply(<<Disconnected(active)>>)
         \/ UNCHANGED <<active, sockets, serverAcks, references, toPage>>
  BY DEF HostDisconnect, IsActive
<1>2. /\ toHost' \in Seq(PageMessages) /\ ToHostInv' /\ PageOk'
      /\ UNCHANGED <<pageVars, hostClosed>>
  BY <1>m, <1>1, HostTakesKeeps
<1>3. CASE active # 0 /\ Finish(active, "gone") /\ Reply(<<Disconnected(active)>>)
  <2>1. /\ NumbersOk' /\ HostOk' /\ active' = 0 /\ serverAcks' = {} /\ references' = {}
        /\ sockets' \in [Generations -> {"none", "pending", "connected", "gone"}]
    BY <1>1, <1>2, <1>3, HostGeneration, FinishKeeps DEF pageVars, requestVars
  <2>2. toPage' \in Seq(HostMessages) /\ ToPageInv'
    BY <1>1, <1>3, <2>1, DisconnectedTypes, ReplyKeeps DEF Reply
  <2>3. TypeOK'
    BY <1>1, <1>2, <2>1, <2>2 DEF PortInv, TypeOK, pageVars, requestVars, linkVars
  <2> QED
    BY <1>2, <2>1, <2>2, <2>3 DEF PortInv
<1>4. CASE UNCHANGED <<active, sockets, serverAcks, references, toPage>>
  <2>1. toPage' \in Seq(HostMessages) /\ ToPageInv'
    BY <1>1, <1>4, NoReplyKeeps
  <2>2. NumbersOk'
    BY <1>1, <1>2, <1>4 DEF PortInv, NumbersOk, pageVars, requestVars
  <2>3. HostOk'
    BY <1>4 DEF PortInv, HostOk
  <2>4. TypeOK'
    BY <1>1, <1>2, <1>4 DEF PortInv, TypeOK, pageVars, requestVars, linkVars
  <2> QED
    BY <1>2, <2>1, <2>2, <2>3, <2>4 DEF PortInv
<1> QED
  BY <1>1, <1>3, <1>4

LEMMA HostIgnoresStep ==
  ASSUME PortInv, HostIgnores
  PROVE  PortInv'
<1>1. toHost # <<>> /\ toHost' = Tail(toHost) /\ UNCHANGED <<pageVars, toPage, hostVars>>
  BY DEF HostIgnores
<1>2. toHost' \in Seq(PageMessages) /\ ToHostInv'
  BY <1>1, TakeKeeps DEF pageVars, requestVars, hostVars
<1>3. toPage' \in Seq(HostMessages) /\ ToPageInv'
  BY <1>1, NoReplyKeeps DEF hostVars
<1>4. NumbersOk' /\ HostOk'
  BY <1>1, HostRests DEF pageVars, requestVars
<1>5. PageOk'
  BY <1>1, PageRests DEF hostVars
<1>6. TypeOK'
  BY <1>1, <1>2 DEF PortInv, TypeOK, pageVars, requestVars, linkVars, hostVars
<1> QED
  BY <1>2, <1>3, <1>4, <1>5, <1>6 DEF PortInv

\* A step of the worker that takes nothing from the port.
LEMMA WorkerKeeps ==
  ASSUME PortInv, UNCHANGED <<pageVars, toHost, nextGeneration, requestOf>>
  PROVE  /\ toHost' \in Seq(PageMessages) /\ ToHostInv' /\ PageOk'
         /\ UNCHANGED <<requestVars, linkVars, outgoingBuffer, emitted, calls>>
<1>1. UNCHANGED <<requestVars, linkVars, outgoingBuffer, emitted, calls>>
  BY DEF pageVars
<1>2. toHost' \in Seq(PageMessages) /\ ToHostInv'
  BY <1>1, SameToHost DEF requestVars
<1> QED
  BY <1>1, <1>2, PageRests

LEMMA ServerAcceptsStep ==
  ASSUME PortInv, NEW g \in Generations, ServerAccepts(g)
  PROVE  PortInv'
<1>m. PICK m : m = [type |-> "connected", generation |-> g, request |-> requestOf[g]]
  OBVIOUS
<1>1. /\ g = active /\ sockets' = [sockets EXCEPT ![g] = "connected"] /\ toPage' = toPage \o <<m>>
      /\ UNCHANGED <<pageVars, toHost, active, nextGeneration, requestOf, sent, serverAcks,
                     references, hostClosed, received>>
  BY <1>m DEF ServerAccepts, Reply
<1>2. active # 0 /\ requestOf[active] \in Requests
  BY <1>1, Bounds, HostGeneration
<1>3. /\ m \in HostMessages /\ m.type = "connected" /\ m.generation = active
      /\ m.request = requestOf[active]
  BY <1>m, <1>1, <1>2, HostMessageTypes
<1>4. toPage' \in Seq(HostMessages) /\ ToPageInv'
  BY <1>1, <1>2, <1>3, ReplyKeeps DEF Ends
<1>5. /\ toHost' \in Seq(PageMessages) /\ ToHostInv' /\ PageOk'
      /\ UNCHANGED <<requestVars, linkVars, outgoingBuffer, emitted, calls>>
  BY <1>1, WorkerKeeps
<1>6. NumbersOk' /\ HostOk'
  BY <1>1, <1>5 DEF PortInv, NumbersOk, HostOk, requestVars
<1>7. TypeOK'
  BY <1>1, <1>4, <1>5 DEF PortInv, TypeOK, requestVars, linkVars
<1> QED
  BY <1>4, <1>5, <1>6, <1>7 DEF PortInv

LEMMA ServerRefusesStep ==
  ASSUME PortInv, NEW g \in Generations, ServerRefuses(g)
  PROVE  PortInv'
<1>1. /\ g = active
      /\ Finish(g, "gone") \/ Finish(g, "connected")
      /\ UNCHANGED <<pageVars, toHost, nextGeneration, requestOf, sent, hostClosed, received>>
  BY DEF ServerRefuses
<1>2. active # 0
  BY <1>1, Bounds
<1>m. PICK m \in Texts("connectError", active) : toPage' = toPage \o <<m>>
  BY <1>1 DEF ServerRefuses, Reply
<1>3. /\ m \in HostMessages /\ m.generation = active /\ m.request = requestOf[active]
  BY <1>m, <1>2, TextsTypes
<1>5. /\ toHost' \in Seq(PageMessages) /\ ToHostInv' /\ PageOk'
      /\ UNCHANGED <<requestVars, linkVars, outgoingBuffer, emitted, calls>>
  BY <1>1, WorkerKeeps
<1>6. /\ NumbersOk' /\ HostOk' /\ active' = 0 /\ serverAcks' = {} /\ references' = {}
      /\ sockets' \in [Generations -> {"none", "pending", "connected", "gone"}]
  BY <1>1, <1>5, FinishKeeps DEF requestVars
<1>4. toPage' \in Seq(HostMessages) /\ ToPageInv'
  BY <1>m, <1>1, <1>2, <1>3, <1>6, ReplyKeeps
<1>7. TypeOK'
  BY <1>1, <1>4, <1>5, <1>6 DEF PortInv, TypeOK, requestVars, linkVars
<1> QED
  BY <1>4, <1>5, <1>6, <1>7 DEF PortInv

LEMMA ServerDisconnectsStep ==
  ASSUME PortInv, NEW g \in Generations, ServerDisconnects(g)
  PROVE  PortInv'
<1>1. /\ UNCHANGED <<pageVars, toHost, nextGeneration, requestOf, sent, hostClosed, received>>
      /\ \/ g = active /\ Finish(g, "gone") /\ toPage' = toPage \o <<Disconnected(active)>>
         \/ /\ sockets' = [sockets EXCEPT ![g] = "gone"]
            /\ UNCHANGED <<active, serverAcks, references, toPage>>
  BY DEF ServerDisconnects, Reply
<1>2. /\ toHost' \in Seq(PageMessages) /\ ToHostInv' /\ PageOk'
      /\ UNCHANGED <<requestVars, linkVars, outgoingBuffer, emitted, calls>>
  BY <1>1, WorkerKeeps
<1>3. CASE g = active /\ Finish(g, "gone") /\ toPage' = toPage \o <<Disconnected(active)>>
  <2>1. active # 0
    BY <1>3, Bounds
  <2>2. /\ NumbersOk' /\ HostOk' /\ active' = 0 /\ serverAcks' = {} /\ references' = {}
        /\ sockets' \in [Generations -> {"none", "pending", "connected", "gone"}]
    BY <1>1, <1>2, <1>3, FinishKeeps DEF requestVars
  <2>3. toPage' \in Seq(HostMessages) /\ ToPageInv'
    BY <1>1, <1>3, <2>1, <2>2, DisconnectedTypes, ReplyKeeps
  <2>4. TypeOK'
    BY <1>1, <1>2, <2>2, <2>3 DEF PortInv, TypeOK, requestVars, linkVars
  <2> QED
    BY <1>2, <2>2, <2>3, <2>4 DEF PortInv
<1>4. CASE /\ sockets' = [sockets EXCEPT ![g] = "gone"]
           /\ UNCHANGED <<active, serverAcks, references, toPage>>
  <2>1. toPage' \in Seq(HostMessages) /\ ToPageInv'
    BY <1>1, <1>4, NoReplyKeeps
  <2>2. NumbersOk' /\ HostOk'
    BY <1>1, <1>2, <1>4 DEF PortInv, NumbersOk, HostOk, requestVars
  <2>3. TypeOK'
    BY <1>1, <1>2, <1>4 DEF PortInv, TypeOK, requestVars, linkVars
  <2> QED
    BY <1>2, <2>1, <2>2, <2>3 DEF PortInv
<1> QED
  BY <1>1, <1>3, <1>4

LEMMA ServerEmitsStep ==
  ASSUME PortInv, NEW g \in Generations, NEW ack \in BOOLEAN, ServerEmits(g, ack)
  PROVE  PortInv'
<1>m. PICK m : m = [type |-> "event", generation |-> g, id |-> sent + 1, ack |-> ack]
  OBVIOUS
<1>u. PICK u : u = [type |-> "unreadable", generation |-> g, request |-> requestOf[g]]
  OBVIOUS
<1>1. /\ g = active /\ sent < MaxEvents /\ sent' = sent + 1
      /\ UNCHANGED <<pageVars, toHost, active, nextGeneration, requestOf, sockets, references,
                     hostClosed, received>>
      /\ \/ /\ toPage' = toPage \o <<m>> \/ toPage' = toPage \o <<u>>
            /\ serverAcks' = IF ack THEN serverAcks \cup {sent + 1} ELSE serverAcks
         \/ UNCHANGED <<toPage, serverAcks>>
  BY <1>m, <1>u DEF ServerEmits, Reply
<1>2. active # 0 /\ sent + 1 \in Events /\ sent + 1 \in 0..MaxEvents
  BY <1>1, Bounds DEF PortInv, TypeOK
<1>3. m \in HostMessages /\ m.type = "event" /\ m.generation = active
  BY <1>m, <1>1, <1>2, HostMessageTypes
<1>8. u \in HostMessages /\ u.type = "unreadable" /\ u.generation = active /\ u.request = requestOf[active]
  <2>1. requestOf[active] \in Requests
    BY <1>2, HostGeneration
  <2> QED
    BY <1>u, <1>1, <2>1, HostMessageTypes
<1>4. toPage' \in Seq(HostMessages) /\ ToPageInv'
  <2>1. CASE toPage' = toPage \o <<m>>
    BY <1>1, <1>2, <1>3, <2>1, ReplyKeeps DEF Ends, Reports
  <2>3. CASE toPage' = toPage \o <<u>>
    BY <1>1, <1>2, <1>8, <2>3, ReplyKeeps DEF Ends, Reports
  <2>2. CASE UNCHANGED toPage
    BY <1>1, <2>2, NoReplyKeeps
  <2> QED
    BY <1>1, <2>1, <2>2, <2>3
<1>5. /\ toHost' \in Seq(PageMessages) /\ ToHostInv' /\ PageOk'
      /\ UNCHANGED <<requestVars, linkVars, outgoingBuffer, emitted, calls>>
  BY <1>1, WorkerKeeps
<1>6. NumbersOk' /\ HostOk'
  BY <1>1, <1>2, <1>5 DEF PortInv, NumbersOk, HostOk, requestVars
<1>7. TypeOK'
  BY <1>1, <1>2, <1>4, <1>5 DEF PortInv, TypeOK, requestVars, linkVars
<1> QED
  BY <1>4, <1>5, <1>6, <1>7 DEF PortInv

LEMMA ServerAnswersStep ==
  ASSUME PortInv, NEW e \in Emits, ServerAnswers(e)
  PROVE  PortInv'
<1>m. PICK m : m = [type |-> "ack", generation |-> active, id |-> e]
  OBVIOUS
<1>1. /\ e \in references /\ references' = references \ {e}
      /\ toPage' = toPage \o <<m>> \/ UNCHANGED toPage
      /\ UNCHANGED <<pageVars, toHost, active, nextGeneration, requestOf, sockets, sent,
                     serverAcks, hostClosed, received>>
  BY <1>m DEF ServerAnswers, Reply
<1>2. active # 0
  BY <1>1 DEF PortInv, HostOk
<1>3. m \in HostMessages /\ m.type = "ack" /\ m.generation = active
  BY <1>m, <1>2, HostGeneration, HostMessageTypes
<1>4. toPage' \in Seq(HostMessages) /\ ToPageInv'
  <2>1. CASE toPage' = toPage \o <<m>>
    BY <1>1, <1>2, <1>3, <2>1, ReplyKeeps DEF Ends, Reports
  <2>2. CASE UNCHANGED toPage
    BY <1>1, <2>2, NoReplyKeeps
  <2> QED
    BY <1>1, <2>1, <2>2
<1>5. /\ toHost' \in Seq(PageMessages) /\ ToHostInv' /\ PageOk'
      /\ UNCHANGED <<requestVars, linkVars, outgoingBuffer, emitted, calls>>
  BY <1>1, WorkerKeeps
<1>6. NumbersOk' /\ HostOk'
  BY <1>1, <1>2, <1>5 DEF PortInv, NumbersOk, HostOk, requestVars
<1>7. TypeOK'
  BY <1>1, <1>4, <1>5 DEF PortInv, TypeOK, requestVars, linkVars
<1> QED
  BY <1>4, <1>5, <1>6, <1>7 DEF PortInv

LEMMA HostCloseStep ==
  ASSUME PortInv, HostClose
  PROVE  PortInv'
<1>1. /\ hostClosed' = TRUE
      /\ UNCHANGED <<pageVars, toHost, nextGeneration, requestOf, sent, received>>
      /\ \/ UNCHANGED <<active, sockets, serverAcks, references, toPage>>
         \/ /\ active # 0 /\ Finish(active, "gone")
            /\ \E m \in Texts("disconnected", active) : toPage' = toPage \o <<m>>
  BY DEF HostClose, Reply
<1>2. /\ toHost' \in Seq(PageMessages) /\ ToHostInv' /\ PageOk'
      /\ UNCHANGED <<requestVars, linkVars, outgoingBuffer, emitted, calls>>
  BY <1>1, WorkerKeeps
<1>3. CASE UNCHANGED <<active, sockets, serverAcks, references, toPage>>
  <2>1. toPage' \in Seq(HostMessages) /\ ToPageInv'
    BY <1>1, <1>3, NoReplyKeeps
  <2>2. NumbersOk' /\ HostOk'
    BY <1>1, <1>2, <1>3 DEF PortInv, NumbersOk, HostOk, requestVars
  <2>3. TypeOK'
    BY <1>1, <1>2, <1>3 DEF PortInv, TypeOK, requestVars, linkVars
  <2> QED
    BY <1>2, <2>1, <2>2, <2>3 DEF PortInv
<1>4. CASE /\ active # 0 /\ Finish(active, "gone")
           /\ \E m \in Texts("disconnected", active) : toPage' = toPage \o <<m>>
  <2>m. PICK m \in Texts("disconnected", active) : toPage' = toPage \o <<m>>
    BY <1>4
  <2>1. m \in HostMessages /\ m.generation = active /\ m.request = requestOf[active]
    BY <1>4, <2>m, TextsTypes
  <2>2. /\ NumbersOk' /\ HostOk' /\ active' = 0 /\ serverAcks' = {} /\ references' = {}
        /\ sockets' \in [Generations -> {"none", "pending", "connected", "gone"}]
    BY <1>1, <1>2, <1>4, HostGeneration, FinishKeeps DEF requestVars
  <2>3. toPage' \in Seq(HostMessages) /\ ToPageInv'
    BY <1>1, <1>4, <2>m, <2>1, <2>2, ReplyKeeps
  <2>4. TypeOK'
    BY <1>1, <1>2, <2>2, <2>3 DEF PortInv, TypeOK, requestVars, linkVars
  <2> QED
    BY <1>2, <2>2, <2>3, <2>4 DEF PortInv
<1> QED
  BY <1>1, <1>3, <1>4

-----------------------------------------------------------------------------
(* Whatever goes wrong, the two sides understand each other.               *)

LEMMA PortInit == Init => PortInv
<1> SUFFICES ASSUME Init PROVE PortInv
  OBVIOUS
<1>m. PICK m : m = [type |-> "connect", request |-> 1]
  OBVIOUS
<1>1. m \in PageMessages /\ m.type = "connect" /\ m.request = 1
  BY <1>m, Bounds, PageMessageTypes
<1>2. toHost = <<m>> \/ toHost = <<>>
  BY <1>m DEF Init
<1>3. /\ toHost \in Seq(PageMessages) /\ Members(toHost) \subseteq {m}
      /\ Pairwise(toHost, InTurn)
  <2>1. /\ <<m>> \in Seq(PageMessages) /\ Members(<<m>>) = {m} /\ Pairwise(<<m>>, InTurn)
        /\ Members(<<>>) = {}
    BY <1>1, OneMember, OnePairwise
  <2>2. <<>> \in Seq(PageMessages) /\ Pairwise(<<>>, InTurn)
    BY DEF Pairwise
  <2> QED
    BY <1>2, <2>1, <2>2
<1>4. /\ toPage \in Seq(HostMessages) /\ Members(toPage) = {} /\ Pairwise(toPage, Silent)
      /\ calls \in Seq(Calls) /\ Members(calls) = {} /\ outgoingBuffer \in Seq(Emissions)
  BY DEF Init, Members, Pairwise
<1>5. /\ requestSequence = 1 /\ requestId \in {0, 1} /\ nextGeneration = 0 /\ active = 0
      /\ generation = 0 /\ ~connected /\ ~disconnecting /\ ~disconnectAfterConnect
      /\ \/ connecting = TRUE /\ observingPageHide = TRUE
         \/ connecting = FALSE /\ observingPageHide = FALSE
      /\ clientAcks = {} /\ answerable = {} /\ serverAcks = {} /\ references = {}
  BY DEF Init
<1>6. TypeOK
  <2>1. /\ 1 \in Requests /\ 0 \in 0..MaxEmits /\ 0 \in 0..MaxConnects /\ 0 \in 0..MaxEvents
    BY Bounds
  <2>2. /\ requestSequence \in Requests /\ requestId \in Requests \cup {0}
        /\ {connected, connecting, disconnecting, disconnectAfterConnect,
            observingPageHide, hostClosed} \subseteq BOOLEAN
    BY <1>5, <2>1 DEF Init
  <2>3. /\ requestOf \in [Generations -> Requests \cup {0}]
        /\ sockets \in [Generations -> {"none", "pending", "connected", "gone"}]
    BY DEF Init
  <2> QED
    BY <1>3, <1>4, <1>5, <2>1, <2>2, <2>3 DEF Init, TypeOK
<1>7. NumbersOk
  BY <1>5 DEF NumbersOk
<1>8. ToHostInv
  BY <1>1, <1>3, <1>5 DEF ToHostInv, ToHostOk
<1>9. ToPageInv
  BY <1>4 DEF ToPageInv
<1>10. PageOk /\ HostOk
  BY <1>4, <1>5 DEF PageOk, HostOk
<1> QED
  BY <1>6, <1>7, <1>8, <1>9, <1>10 DEF PortInv

LEMMA PortStutters == PortInv /\ UNCHANGED vars => PortInv'
BY DEF PortInv, TypeOK, NumbersOk, ToHostInv, ToHostOk, ToPageInv, ToPageOk, PageOk, HostOk,
       vars, pageVars, requestVars, linkVars, hostVars

LEMMA PortStep == PortInv /\ [Next]_vars => PortInv'
<1> SUFFICES ASSUME PortInv, [Next]_vars PROVE PortInv'
  OBVIOUS
<1>1. CASE Application
  BY <1>1, ConnectStep, DisconnectStep, EmitStep, AnswerStep, HostCloseStep,
     ServerDisconnectsStep, ServerEmitsStep, ServerAnswersStep DEF Application
<1>2. CASE Page
  BY <1>2, ConnectFailedStep, FlushStep DEF Page
<1>3. CASE PageReceives
  BY <1>3, ReceiveConnectedStep, ReceiveConnectErrorStep, ReceiveEventStep,
     ReceiveAcknowledgementStep, ReceiveDisconnectedStep, ReceiveUnreadableStep DEF PageReceives
<1>4. CASE HostReceives
  BY <1>4, HostConnectStep, HostEventStep, HostAcknowledgementStep, HostDisconnectStep,
     HostIgnoresStep DEF HostReceives
<1>5. CASE ServerSettles
  BY <1>5, ServerAcceptsStep, ServerRefusesStep DEF ServerSettles
<1>6. CASE UNCHANGED vars
  BY <1>6, PortStutters
<1> QED
  BY <1>1, <1>2, <1>3, <1>4, <1>5, <1>6 DEF Next

\* The invariant of both sides and the port, for every choice of Faults: the numbers of requests
\* and generations that connect() of the page and of the host hand out, what each message in
\* the port says of them, and the stage of a connection that the page is in.
THEOREM PortIsSound == Spec => []PortInv
BY PortInit, PortStep, PTL DEF Spec

\* Whatever the application does wrong, the host never sees a message that it would have to
\* report as a broken protocol (handleMessage of shared-worker-host.ts).
THEOREM HostIsUnderstood == Spec => []HostUnderstands
<1>1. PortInv => HostUnderstands
  <2>1. nextGeneration \in Nat => \A m : ToHostOk(m) /\ m.type # "connect" =>
          /\ m.generation <= nextGeneration
          /\ m.type = "disconnect" => requestOf[m.generation] = m.request
    BY DEF ToHostOk
  <2> QED
    BY <2>1 DEF PortInv, TypeOK, ToHostInv, HostUnderstands
<1> QED
  BY <1>1, PortIsSound, PTL

\* Whatever the application does wrong, the worker sends nothing more of a generation once
\* it has reported that this generation is over.
THEOREM EndsAreFinal == Spec => []EndedGenerationIsSilent
<1>1. PortInv => EndedGenerationIsSilent
  BY DEF PortInv, ToPageInv, Pairwise, Silent, Ends, EndedGenerationIsSilent
<1> QED
  BY <1>1, PortIsSound, PTL

\* Whatever the application does wrong, the page has its pagehide listener exactly while
\* there is a connection to leave (observePageHide and stopObservingPageHide).
THEOREM PageListens == Spec => []ObservesWhileNeeded
<1>1. PortInv => ObservesWhileNeeded
  BY DEF PortInv, PageOk, ObservesWhileNeeded
<1> QED
  BY <1>1, PortIsSound, PTL

-----------------------------------------------------------------------------
(* What holds between page and host while no post and no text fails.       *)

\* The client Sockets of generations that are over are gone, and only one that was accepted
\* has acknowledgements.
SocketsOk ==
  /\ \A g \in Generations : g # active => sockets[g] \in {"none", "gone"}
  /\ active # 0 => sockets[active] \in {"pending", "connected"}
  /\ references # {} \/ serverAcks # {} => sockets[active] = "connected"

\* While a Socket waits to be accepted, the page has not heard of its generation.
Unheard(g) ==
  /\ generation # g
  /\ \A m \in Members(toPage) : m.generation # g
  /\ \A m \in Members(toHost) : m.type # "connect" => m.generation # g
PendingOk == active # 0 /\ sockets[active] = "pending" => Unheard(active)

\* The host has the connection of generation g; or the page will be told that it is over,
\* or the host that the page leaves it.
Accepted(g) == active = g /\ sockets[g] = "connected"
Told(g) == \E m \in Members(toPage) : m.type = "disconnected" /\ m.generation = g
Leaving(g) == \E m \in Members(toHost) : m.type = "disconnect" /\ m.generation = g

\* A connection is reported before anything else of it.
Announced == {p \in HostMessages \X HostMessages :
                p[2].type = "connected" => p[1].generation < p[2].generation}
AnnouncedOk ==
  /\ Pairwise(toPage, Announced)
  /\ \A m \in Members(toPage) :
       m.type = "connected" => Accepted(m.generation) \/ Told(m.generation)

\* A request is in the port, with the host, or answered.
Asking == \E m \in Members(toHost) : m.type = "connect" /\ m.request = requestId
Waiting == active # 0 /\ sockets[active] = "pending" /\ requestOf[active] = requestId
Answered == \E m \in Members(toPage) :
              m.type \in {"connected", "connectError"} /\ m.request = requestId

\* In every stage of the page, the host is where the page believes it to be, or the message
\* that says otherwise is on its way.
StageOk ==
  /\ connected => Accepted(generation) \/ Told(generation)
  /\ disconnecting => (Accepted(generation) /\ Leaving(generation)) \/ Told(generation)
  /\ connecting => hostClosed \/ Asking \/ Waiting \/ Answered
  /\ ~connecting => \A m \in Members(toHost) : m.type # "connect"
  /\ ~connecting /\ ~connected /\ ~disconnecting => active = 0

RequestOk ==
  /\ requestId = requestSequence
  /\ hostClosed => active = 0
  /\ \A f \in Members(calls) : f.op # "connect"

LinkInv == SocketsOk /\ PendingOk /\ AnnouncedOk /\ StageOk /\ RequestOk

\* Of the requests that the host has taken, the one that the page waits for is the last.
LEMMA LastRequest ==
  ASSUME PortInv, requestId = requestSequence, NEW g \in 1..nextGeneration,
         requestOf[g] = requestId
  PROVE  /\ active \in {0, g}
         /\ \A m \in Members(toHost) : m.type # "connect"
         /\ \A m \in Members(toPage) : m.generation <= g
<1>1. /\ nextGeneration \in Nat /\ requestSequence \in Nat /\ active \in {0, nextGeneration}
      /\ \A h \in 1..nextGeneration : requestOf[h] \in 1..requestSequence
      /\ \A h, k \in 1..nextGeneration : h < k => requestOf[h] < requestOf[k]
  BY Bounds DEF PortInv, TypeOK, NumbersOk
<1>2. \A h \in 1..nextGeneration : h <= g
  BY <1>1
<1>3. active \in {0, g}
  BY <1>1, <1>2
<1>4. ASSUME NEW m \in Members(toHost) PROVE m.type # "connect"
  BY <1>1, <1>4 DEF PortInv, ToHostInv, ToHostOk
<1>5. ASSUME NEW m \in Members(toPage) PROVE m.generation <= g
  BY <1>2, <1>5 DEF PortInv, ToPageInv, ToPageOk
<1> QED
  BY <1>3, <1>4, <1>5

\* The page posts an event or an acknowledgement, or nothing.
LEMMA PageActs ==
  ASSUME PortInv, LinkInv,
         UNCHANGED <<toPage, hostVars, requestId, requestSequence, generation, connected,
                     disconnecting, connecting>>,
         \A f \in Members(calls') : f.op # "connect",
         Members(toHost) \subseteq Members(toHost'),
         \A m \in Members(toHost') \ Members(toHost) :
           m.type \in {"event", "ack"} /\ m.generation = generation
  PROVE  LinkInv'
<1>1. SocketsOk' /\ RequestOk'
  BY DEF LinkInv, SocketsOk, RequestOk, hostVars
<1>2. PendingOk'
  BY DEF LinkInv, PendingOk, Unheard, hostVars
<1>3. AnnouncedOk'
  BY DEF LinkInv, AnnouncedOk, Accepted, Told, hostVars
<1>4. StageOk'
  <2>1. \A g : (Accepted(g) => Accepted(g)') /\ (Told(g) => Told(g)') /\ (Leaving(g) => Leaving(g)')
    BY DEF Accepted, Told, Leaving, hostVars
  <2>2. (Asking => Asking') /\ (Waiting => Waiting') /\ (Answered => Answered')
    BY DEF Asking, Waiting, Answered, hostVars
  <2> QED
    BY <2>1, <2>2 DEF LinkInv, StageOk, hostVars
<1> QED
  BY <1>1, <1>2, <1>3, <1>4 DEF LinkInv

\* The page takes a message: what the others promise stands.
LEMMA PageTook ==
  ASSUME PortInv, LinkInv, NEW type, PageTakes(type), NEW m, m = Head(toPage)
  PROVE  /\ m \in HostMessages /\ m.type = type /\ ToPageOk(m) /\ m \in Members(toPage)
         /\ Members(toPage) = {m} \cup Members(toPage')
         /\ UNCHANGED hostVars /\ calls = <<>> /\ SocketsOk' /\ AnnouncedOk'
         /\ \A g : Accepted(g)' <=> Accepted(g)
         /\ \A g : Told(g)' => Told(g)
         /\ \A g : Told(g) => Told(g)' \/ (m.type = "disconnected" /\ m.generation = g)
         /\ m.type = "connected" => \A x \in Members(toPage') : <<m, x>> \in Announced
<1>1. calls = <<>> /\ toPage # <<>> /\ m.type = type /\ toPage' = Tail(toPage) /\ UNCHANGED hostVars
  BY DEF PageTakes
<1>2. /\ m \in HostMessages /\ ToPageOk(m)
      /\ Members(toPage) = {m} \cup Members(toPage')
      /\ \A x \in Members(toPage') : <<m, x>> \in Silent
  BY <1>1, PageHead
<1>3. /\ Pairwise(toPage', Announced)
      /\ \A x \in Members(toPage') : <<m, x>> \in Announced
  <2>1. toPage \in Seq(HostMessages) /\ Pairwise(toPage, Announced)
    BY DEF PortInv, TypeOK, LinkInv, AnnouncedOk
  <2> QED
    BY <1>1, <2>1, TakePairwise
<1>4. SocketsOk'
  BY <1>1 DEF LinkInv, SocketsOk, hostVars
<1>5. /\ \A g : Accepted(g)' <=> Accepted(g)
      /\ \A g : Told(g)' => Told(g)
      /\ \A g : Told(g) => Told(g)' \/ (m.type = "disconnected" /\ m.generation = g)
  BY <1>1, <1>2 DEF Accepted, Told, hostVars
<1>6. AnnouncedOk'
  <2>1. ASSUME NEW x \in Members(toPage'), x.type = "connected"
        PROVE  (Accepted(x.generation) \/ Told(x.generation))'
    <3>1. Accepted(x.generation) \/ Told(x.generation)
      BY <1>2, <2>1 DEF LinkInv, AnnouncedOk
    <3>2. ~(m.type = "disconnected" /\ m.generation = x.generation)
      <4>1. x \in HostMessages /\ x.generation \in Generations
        BY <1>2, <2>1, HostMessageFields DEF Silent
      <4>2. m.type \in Ends => x.generation > m.generation
        BY <1>2, <2>1 DEF Silent
      <4>3. x.generation \in Nat
        BY <4>1, Bounds
      <4> QED
        BY <4>2, <4>3 DEF Ends
    <3> QED
      BY <1>5, <3>1, <3>2
  <2> QED
    BY <1>3, <2>1 DEF AnnouncedOk
<1> QED
  BY <1>1, <1>2, <1>3, <1>4, <1>5, <1>6

\* A message that changes nothing of what the page believes about its connection.
LEMMA PagePasses ==
  ASSUME PortInv, LinkInv, NEW type, PageTakes(type), NEW m, m = Head(toPage),
         UNCHANGED <<toHost, requestId, requestSequence, generation, connected, disconnecting,
                     connecting, calls>>,
         m.type \in {"connected", "connectError"} => ~Awaited(m),
         m.type = "disconnected" => ~(m.generation = generation /\ m.request = requestId)
  PROVE  LinkInv'
<1>1. /\ m \in HostMessages /\ m.type = type /\ ToPageOk(m) /\ m \in Members(toPage)
      /\ Members(toPage) = {m} \cup Members(toPage')
      /\ UNCHANGED hostVars /\ SocketsOk' /\ AnnouncedOk'
      /\ \A g : Accepted(g)' <=> Accepted(g)
      /\ \A g : Told(g) => Told(g)' \/ (m.type = "disconnected" /\ m.generation = g)
  BY PageTook
<1>2. PendingOk'
  BY <1>1 DEF LinkInv, PendingOk, Unheard, hostVars
<1>3. RequestOk'
  BY <1>1 DEF LinkInv, RequestOk, hostVars
<1>4. connected \/ disconnecting => (Told(generation) => Told(generation)')
  <2>1. m.type = "disconnected" => requestOf[m.generation] = m.request
    BY <1>1 DEF ToPageOk, Reports
  <2>2. connected \/ disconnecting => requestOf[generation] = requestId
    BY DEF PortInv, PageOk
  <2> QED
    BY <1>1, <2>1, <2>2
<1>5. connecting => (Answered => Answered')
  BY <1>1 DEF Answered, Awaited
<1>6. /\ \A g : Leaving(g)' <=> Leaving(g)
      /\ Asking' <=> Asking
      /\ Waiting' <=> Waiting
  BY <1>1 DEF Leaving, Asking, Waiting, hostVars
<1>7. StageOk'
  BY <1>1, <1>4, <1>5, <1>6 DEF LinkInv, StageOk, hostVars
<1> QED
  BY <1>1, <1>2, <1>3, <1>7 DEF LinkInv

LEMMA ReceiveConnectedLinks ==
  ASSUME PortInv, LinkInv, ReceiveConnected
  PROVE  LinkInv'
<1>m. PICK m : m = Head(toPage)
  OBVIOUS
<1>1. PageTakes("connected") /\ UNCHANGED <<requestSequence, requestId, emitted>>
  BY DEF ReceiveConnected
<1>2. CASE ~Awaited(m)
  <2>1. UNCHANGED <<toHost, generation, connected, disconnecting, connecting, calls>>
    BY <1>m, <1>2 DEF ReceiveConnected, linkVars
  <2>2. m.type = "connected"
    BY <1>m, <1>1 DEF PageTakes
  <2> QED
    BY <1>m, <1>1, <1>2, <2>1, <2>2, PagePasses
<1>3. CASE Awaited(m)
  <2>1. /\ m \in HostMessages /\ m.type = "connected" /\ ToPageOk(m) /\ m \in Members(toPage)
        /\ Members(toPage) = {m} \cup Members(toPage')
        /\ UNCHANGED hostVars /\ calls = <<>> /\ SocketsOk' /\ AnnouncedOk'
        /\ \A g : Accepted(g)' <=> Accepted(g)
        /\ \A g : Told(g) => Told(g)' \/ (m.type = "disconnected" /\ m.generation = g)
    BY <1>m, <1>1, PageTook
  <2>2. m.request = requestId /\ connecting /\ ~connected /\ ~disconnecting
    BY <1>3 DEF Awaited, PortInv, PageOk
  <2>3. m.generation \in 1..nextGeneration /\ requestOf[m.generation] = requestId
    BY <2>1, <2>2 DEF ToPageOk, Reports
  <2>4. /\ requestId = requestSequence
        /\ \A x \in Members(toHost) : x.type # "connect"
    BY <2>3, LastRequest DEF LinkInv, RequestOk
  <2>5. Accepted(m.generation)' \/ Told(m.generation)'
    BY <2>1 DEF LinkInv, AnnouncedOk
  <2>6. generation' = m.generation /\ connecting' = FALSE
    BY <1>m, <1>3 DEF ReceiveConnected
  <2>7. active # 0 /\ sockets[active] = "pending" => m.generation # active
    BY <2>1 DEF LinkInv, PendingOk, Unheard
  <2>8. CASE disconnectAfterConnect
    <3>d. PICK d : d = [type |-> "disconnect", generation |-> m.generation, request |-> requestId]
      OBVIOUS
    <3>1. /\ disconnecting' = TRUE /\ connected' = FALSE /\ toHost' = toHost \o <<d>>
          /\ UNCHANGED calls
      BY <1>m, <1>3, <2>8, <3>d DEF ReceiveConnected, Leave, Post
    <3>2. d \in PageMessages
      <4>1. m.generation \in Generations /\ m.request \in Requests
        BY <2>1, HostMessageFields
      <4> QED
        BY <2>2, <3>d, <4>1, PageMessageTypes
    <3>3. Members(toHost') = Members(toHost) \cup {d}
      BY <3>1, <3>2, AddMembers DEF PortInv, TypeOK
    <3>4. /\ Leaving(m.generation)'
          /\ \A x \in Members(toHost') : x.type # "connect"
      BY <2>4, <3>d, <3>3 DEF Leaving
    <3>5. StageOk'
      BY <2>5, <2>6, <3>1, <3>4 DEF StageOk
    <3>6. PendingOk'
      BY <2>1, <2>6, <2>7, <3>d, <3>3 DEF LinkInv, PendingOk, Unheard, hostVars
    <3>7. RequestOk'
      BY <1>1, <2>1, <3>1 DEF LinkInv, RequestOk, hostVars
    <3> QED
      BY <2>1, <3>5, <3>6, <3>7 DEF LinkInv
  <2>9. CASE ~disconnectAfterConnect
    <3>f. PICK f : f = [op |-> "flush", generation |-> m.generation, rest |-> outgoingBuffer]
      OBVIOUS
    <3>1. /\ connected' = TRUE /\ calls' = <<f>> /\ UNCHANGED <<disconnecting, toHost>>
      BY <1>m, <1>3, <2>9, <3>f DEF ReceiveConnected
    <3>2. \A c \in Members(calls') : c.op # "connect"
      BY <3>f, <3>1 DEF Members
    <3>5. StageOk'
      BY <2>2, <2>4, <2>5, <2>6, <3>1 DEF StageOk
    <3>6. PendingOk'
      BY <2>1, <2>6, <2>7, <3>1 DEF LinkInv, PendingOk, Unheard, hostVars
    <3>7. RequestOk'
      BY <1>1, <2>1, <3>2 DEF LinkInv, RequestOk, hostVars
    <3> QED
      BY <2>1, <3>5, <3>6, <3>7 DEF LinkInv
  <2> QED
    BY <2>8, <2>9
<1> QED
  BY <1>2, <1>3

\* The page is told that the connection of its request is over, or failed.
LEMMA PageEnds ==
  ASSUME PortInv, LinkInv, NEW type \in Ends, PageTakes(type), NEW m, m = Head(toPage),
         m.request = requestId, UNCHANGED <<toHost, requestId, requestSequence, calls>>,
         ~connected', ~disconnecting', ~connecting', generation' = 0
  PROVE  LinkInv'
<1>1. /\ m \in HostMessages /\ m.type = type /\ ToPageOk(m) /\ m \in Members(toPage)
      /\ Members(toPage) = {m} \cup Members(toPage')
      /\ UNCHANGED hostVars /\ SocketsOk' /\ AnnouncedOk'
  BY PageTook
<1>2. /\ m.generation \in 1..nextGeneration /\ requestOf[m.generation] = requestId
      /\ active = 0 \/ m.generation < active
  BY <1>1 DEF ToPageOk, Reports, Ends
<1>3. /\ active \in {0, m.generation}
      /\ \A x \in Members(toHost) : x.type # "connect"
  BY <1>2, LastRequest DEF LinkInv, RequestOk
<1>4. active = 0
  BY <1>2, <1>3
<1>5. StageOk'
  BY <1>1, <1>3, <1>4 DEF StageOk, hostVars
<1>6. PendingOk'
  BY <1>1, <1>4 DEF PendingOk, hostVars
<1>7. RequestOk'
  BY <1>1 DEF LinkInv, RequestOk, hostVars
<1> QED
  BY <1>1, <1>5, <1>6, <1>7 DEF LinkInv

LEMMA ReceiveConnectErrorLinks ==
  ASSUME PortInv, LinkInv, ReceiveConnectError
  PROVE  LinkInv'
<1>m. PICK m : m = Head(toPage)
  OBVIOUS
<1>1. /\ PageTakes("connectError")
      /\ generation' = IF Awaited(m) THEN 0 ELSE generation
      /\ connected' = (connected /\ ~Awaited(m))
      /\ connecting' = (connecting /\ ~Awaited(m))
      /\ UNCHANGED <<requestSequence, requestId, disconnecting, calls, toHost>>
  BY <1>m DEF ReceiveConnectError
<1>2. m.type = "connectError"
  BY <1>m, <1>1 DEF PageTakes
<1>3. CASE ~Awaited(m)
  <2>1. UNCHANGED <<generation, connected, connecting>>
    BY <1>1, <1>3 DEF PortInv, TypeOK
  <2> QED
    BY <1>m, <1>1, <1>2, <1>3, <2>1, PagePasses
<1>4. CASE Awaited(m)
  <2>1. m.request = requestId /\ ~disconnecting
    BY <1>4 DEF Awaited, PortInv, PageOk
  <2>2. ~connected' /\ ~connecting' /\ generation' = 0 /\ ~disconnecting'
    BY <1>1, <1>4, <2>1
  <2>3. "connectError" \in Ends
    BY DEF Ends
  <2> QED
    BY <1>m, <1>1, <2>1, <2>2, <2>3, PageEnds
<1> QED
  BY <1>3, <1>4

LEMMA ReceiveDisconnectedLinks ==
  ASSUME PortInv, LinkInv, ReceiveDisconnected
  PROVE  LinkInv'
<1>m. PICK m : m = Head(toPage)
  OBVIOUS
<1>1. /\ PageTakes("disconnected") /\ m.type = "disconnected"
      /\ \/ /\ m.generation = generation /\ m.request = requestId
            /\ ~connecting' /\ ~disconnecting' /\ ~connected' /\ generation' = 0
         \/ /\ ~(m.generation = generation /\ m.request = requestId)
            /\ UNCHANGED <<connecting, generation, connected, disconnecting>>
      /\ UNCHANGED <<requestSequence, requestId, calls, toHost>>
  BY <1>m DEF ReceiveDisconnected, PageTakes, ReleaseGeneration, linkVars
<1>2. "disconnected" \in Ends
  BY DEF Ends
<1> QED
  BY <1>m, <1>1, <1>2, PagePasses, PageEnds

LEMMA ReceivePassingLinks ==
  ASSUME PortInv, LinkInv, ReceiveEvent \/ ReceiveAcknowledgement \/ ReceiveUnreadable
  PROVE  LinkInv'
<1>m. PICK m : m = Head(toPage)
  OBVIOUS
<1>1. PICK type \in {"event", "ack", "unreadable"} : PageTakes(type)
  BY DEF ReceiveEvent, ReceiveAcknowledgement, ReceiveUnreadable
<1>2. m.type = type
  BY <1>m, <1>1 DEF PageTakes
<1>3. UNCHANGED <<toHost, requestId, requestSequence, generation, connected, disconnecting,
                  connecting, calls>>
  BY DEF ReceiveEvent, ReceiveAcknowledgement, ReceiveUnreadable, requestVars, linkVars
<1> QED
  BY <1>m, <1>1, <1>2, <1>3, PagePasses

LEMMA ConnectLinks ==
  ASSUME PortInv, LinkInv, Connect, "auth" \notin Faults
  PROVE  LinkInv'
<1>m. PICK m : m = [type |-> "connect", request |-> requestSequence + 1]
  OBVIOUS
<1>1. /\ requestSequence' = requestSequence + 1 /\ requestId' = requestSequence + 1
      /\ toHost' = toHost \o <<m>> /\ UNCHANGED <<calls, toPage, hostVars>>
      /\ connecting' /\ ~connected' /\ ~disconnecting' /\ generation' = 0
  BY <1>m DEF Connect, Post, ReleaseGeneration
<1>2. Members(toHost') = Members(toHost) \cup {m}
  <2>1. toHost \in Seq(PageMessages)
    BY DEF PortInv, TypeOK
  <2>2. m \in PageMessages
    BY <1>m, PageMessageTypes, Bounds DEF Connect, PortInv, TypeOK
  <2> QED
    BY <1>1, <2>1, <2>2, AddMembers
<1>3. SocketsOk' /\ AnnouncedOk' /\ RequestOk'
  BY <1>1 DEF LinkInv, SocketsOk, AnnouncedOk, Accepted, Told, RequestOk, hostVars
<1>4. PendingOk'
  BY <1>1, <1>2, <1>m DEF LinkInv, PendingOk, Unheard, hostVars
<1>5. StageOk'
  <2>1. Asking'
    BY <1>m, <1>1, <1>2 DEF Asking
  <2> QED
    BY <1>1, <2>1 DEF StageOk
<1> QED
  BY <1>3, <1>4, <1>5 DEF LinkInv

LEMMA ConnectFailedLinks ==
  ASSUME PortInv, LinkInv, ConnectFailed
  PROVE  LinkInv'
<1>1. Head(calls) \in Members(calls) /\ Head(calls).op = "connect"
  BY CallsPopped DEF ConnectFailed
<1> QED
  BY <1>1 DEF LinkInv, RequestOk

LEMMA DisconnectLinks ==
  ASSUME PortInv, LinkInv, Disconnect
  PROVE  LinkInv'
<1>1. UNCHANGED <<requestSequence, requestId, connecting, calls, toPage, hostVars>>
  BY DEF Disconnect
<1>2. CASE ~connected
  <2>1. UNCHANGED <<generation, connected, disconnecting, toHost>>
    BY <1>2 DEF Disconnect, linkVars
  <2>2. Members(toHost') = Members(toHost)
    BY <2>1
  <2>3. \A f \in Members(calls') : f.op # "connect"
    BY <1>1 DEF LinkInv, RequestOk
  <2> QED
    BY <1>1, <2>1, <2>2, <2>3, PageActs
<1>3. CASE connected
  <2>d. PICK d : d = [type |-> "disconnect", generation |-> generation, request |-> requestId]
    OBVIOUS
  <2>1. /\ disconnecting' = TRUE /\ connected' = FALSE /\ UNCHANGED generation
        /\ toHost' = toHost \o <<d>>
    BY <1>3, <2>d DEF Disconnect, Leave, Post
  <2>2. d \in PageMessages
    BY <1>3, <2>d, PageGeneration, PageMessageTypes
  <2>3. Members(toHost') = Members(toHost) \cup {d}
    BY <2>1, <2>2, AddMembers DEF PortInv, TypeOK
  <2>4. ~connecting /\ ~disconnecting
    BY <1>3 DEF PortInv, PageOk
  <2>5. SocketsOk' /\ AnnouncedOk' /\ RequestOk'
    BY <1>1 DEF LinkInv, SocketsOk, AnnouncedOk, Accepted, Told, RequestOk, hostVars
  <2>6. PendingOk'
    BY <1>1, <2>d, <2>1, <2>3 DEF LinkInv, PendingOk, Unheard, hostVars
  <2>7. StageOk'
    <3>1. (Accepted(generation) \/ Told(generation))' /\ Leaving(generation)'
      BY <1>1, <1>3, <2>d, <2>1, <2>3 DEF LinkInv, StageOk, Accepted, Told, Leaving, hostVars
    <3>2. \A x \in Members(toHost') : x.type # "connect"
      BY <2>d, <2>3, <2>4 DEF LinkInv, StageOk
    <3> QED
      BY <1>1, <2>1, <2>4, <3>1, <3>2 DEF StageOk
  <2> QED
    BY <2>5, <2>6, <2>7 DEF LinkInv
<1> QED
  BY <1>2, <1>3

\* What an emission adds to the port.
LEMMA EmissionAdds ==
  ASSUME PortInv, connected, NEW e \in Emissions, PostEmission(e, generation)
  PROVE  \E m \in PageMessages :
           /\ m = [type |-> "event", generation |-> generation, id |-> e.id, ack |-> (e.kind = "ack")]
           /\ toHost' = toHost \o <<m>> /\ Members(toHost') = Members(toHost) \cup {m}
<1>m. PICK m : m = [type |-> "event", generation |-> generation, id |-> e.id,
                    ack |-> (e.kind = "ack")]
  OBVIOUS
<1>1. generation \in Generations /\ e.id \in Emits
  BY PageGeneration, EmissionTypes
<1>2. m \in PageMessages
  BY <1>m, <1>1, PageMessageTypes
<1>3. toHost' = toHost \o <<m>>
  BY <1>m DEF PostEmission, Post
<1>4. Members(toHost') = Members(toHost) \cup {m}
  BY <1>2, <1>3, AddMembers DEF PortInv, TypeOK
<1> QED
  BY <1>m, <1>2, <1>3, <1>4

LEMMA EmissionLinks ==
  ASSUME PortInv, LinkInv, connected, NEW e \in Emissions, PostEmission(e, generation),
         UNCHANGED <<toPage, hostVars, requestId, requestSequence, generation, connected,
                     disconnecting, connecting>>,
         \A f \in Members(calls') : f.op # "connect"
  PROVE  LinkInv'
<1>1. PICK m \in PageMessages :
           /\ m = [type |-> "event", generation |-> generation, id |-> e.id, ack |-> (e.kind = "ack")]
           /\ toHost' = toHost \o <<m>> /\ Members(toHost') = Members(toHost) \cup {m}
  BY EmissionAdds
<1>2. /\ Members(toHost) \subseteq Members(toHost')
      /\ \A x \in Members(toHost') \ Members(toHost) :
           x.type \in {"event", "ack"} /\ x.generation = generation
  BY <1>1
<1> QED
  BY <1>1, <1>2, PageActs

LEMMA QuietLinks ==
  ASSUME PortInv, LinkInv,
         UNCHANGED <<toHost, toPage, hostVars, requestId, requestSequence, generation, connected,
                     disconnecting, connecting>>,
         \A f \in Members(calls') : f.op # "connect"
  PROVE  LinkInv'
<1>1. Members(toHost') = Members(toHost)
  OBVIOUS
<1> QED
  BY <1>1, PageActs

LEMMA EmitLinks ==
  ASSUME PortInv, LinkInv, NEW kind, Emit(kind)
  PROVE  LinkInv'
<1>e. PICK e : e = [id |-> emitted + 1, kind |-> kind]
  OBVIOUS
<1>1. /\ UNCHANGED <<requestVars, generation, connected, disconnecting, calls, toPage, hostVars>>
      /\ emitted < MaxEmits /\ kind \in Kinds
      /\ UNCHANGED toHost \/ (connected /\ PostEmission(e, generation))
  BY <1>e DEF Emit
<1>2. e \in Emissions
  <2>1. emitted + 1 \in Emits
    BY <1>1, Bounds DEF PortInv, TypeOK
  <2> QED
    BY <1>e, <1>1, <2>1, EmissionTypes
<1>3. \A f \in Members(calls') : f.op # "connect"
  BY <1>1 DEF LinkInv, RequestOk
<1>4. UNCHANGED <<requestId, requestSequence, connecting>>
  BY <1>1 DEF requestVars
<1> QED
  BY <1>1, <1>2, <1>3, <1>4, EmissionLinks, QuietLinks

LEMMA AnswerLinks ==
  ASSUME PortInv, LinkInv, NEW n \in Events, Answer(n)
  PROVE  LinkInv'
<1>m. PICK m : m = [type |-> "ack", generation |-> generation, id |-> n]
  OBVIOUS
<1>1. /\ UNCHANGED <<requestVars, generation, connected, disconnecting, calls, toPage, hostVars>>
      /\ UNCHANGED toHost \/ (connected /\ toHost' = toHost \o <<m>>)
  BY <1>m DEF Answer, Post
<1>2. UNCHANGED <<requestId, requestSequence, connecting>>
      /\ \A f \in Members(calls') : f.op # "connect"
  BY <1>1 DEF requestVars, LinkInv, RequestOk
<1>3. CASE connected /\ toHost' = toHost \o <<m>>
  <2>1. m \in PageMessages
    BY <1>m, <1>3, PageGeneration, PageMessageTypes
  <2>2. Members(toHost') = Members(toHost) \cup {m}
    BY <1>3, <2>1, AddMembers DEF PortInv, TypeOK
  <2>3. /\ Members(toHost) \subseteq Members(toHost')
        /\ \A x \in Members(toHost') \ Members(toHost) :
             x.type \in {"event", "ack"} /\ x.generation = generation
    BY <1>m, <2>2
  <2> QED
    BY <1>1, <1>2, <2>2, <2>3, PageActs
<1> QED
  BY <1>1, <1>2, <1>3, QuietLinks

LEMMA FlushLinks ==
  ASSUME PortInv, LinkInv, Flush
  PROVE  LinkInv'
<1>f. PICK f : f = Head(calls)
  OBVIOUS
<1>1. /\ UNCHANGED <<requestVars, generation, connected, disconnecting, toPage, hostVars>>
      /\ UNCHANGED <<requestId, requestSequence, connecting>>
  BY DEF Flush, requestVars
<1>2. /\ calls # <<>> /\ Tail(calls) \in Seq(Calls)
      /\ \A c \in Members(Tail(calls)) : c.op # "connect"
  BY CallsPopped DEF Flush, LinkInv, RequestOk
<1>3. \/ calls' = Tail(calls) /\ UNCHANGED toHost
      \/ \E e \in Emissions, r \in Calls :
           /\ connected /\ calls' = <<r>> \o Tail(calls) /\ r.op # "connect"
           /\ UNCHANGED toHost \/ PostEmission(e, generation)
  BY <1>f, FlushRounds
<1>4. \A c \in Members(calls') : c.op # "connect"
  <2>1. ASSUME NEW r \in Calls, calls' = <<r>> \o Tail(calls), r.op # "connect"
        PROVE  \A c \in Members(calls') : c.op # "connect"
    BY <1>2, <2>1, PushMembers
  <2> QED
    BY <1>2, <1>3, <2>1
<1>5. UNCHANGED toHost \/ (connected /\ \E e \in Emissions : PostEmission(e, generation))
  BY <1>3
<1> QED
  BY <1>1, <1>4, <1>5, EmissionLinks, QuietLinks

\* The host takes a message that changes nothing of its connection.
LEMMA HostPasses ==
  ASSUME PortInv, LinkInv, toHost # <<>>, toHost' = Tail(toHost), NEW m, m = Head(toHost),
         UNCHANGED <<pageVars, toPage, active, sockets, requestOf, nextGeneration, hostClosed>>,
         SocketsOk', m.type = "connect" => hostClosed,
         m.type = "disconnect" => hostClosed \/ active = 0 \/ m.generation # active
                                    \/ m.request # requestOf[active]
  PROVE  LinkInv'
<1>1. /\ m \in PageMessages /\ ToHostOk(m)
      /\ Members(toHost) = {m} \cup Members(toHost')
  BY HostHead
<1>2. UNCHANGED <<requestId, requestSequence, generation, connected, disconnecting, connecting,
                  calls>>
  BY DEF pageVars, requestVars, linkVars
<1>3. /\ \A g : Accepted(g)' <=> Accepted(g)
      /\ \A g : Told(g)' <=> Told(g)
      /\ Waiting' <=> Waiting
      /\ Answered' <=> Answered
  BY <1>2 DEF Accepted, Told, Waiting, Answered
<1>4. AnnouncedOk'
  BY <1>3 DEF LinkInv, AnnouncedOk
<1>5. PendingOk'
  BY <1>1, <1>2 DEF LinkInv, PendingOk, Unheard
<1>6. RequestOk'
  BY <1>2 DEF LinkInv, RequestOk
<1>7. Asking => hostClosed \/ Asking'
  BY <1>1, <1>2 DEF Asking
<1>8. disconnecting /\ Accepted(generation) /\ Leaving(generation) => Leaving(generation)'
  <2>1. SUFFICES ASSUME disconnecting, Accepted(generation), Leaving(generation)
                 PROVE  Leaving(generation)'
    OBVIOUS
  <2>2. generation # 0 /\ generation = active /\ ~hostClosed
    BY <2>1, PageGeneration, Bounds DEF Accepted, LinkInv, RequestOk
  <2>3. m.type = "disconnect" => m.request = requestOf[m.generation]
    BY <1>1 DEF ToHostOk
  <2>4. PICK x \in Members(toHost) : x.type = "disconnect" /\ x.generation = generation
    BY <2>1 DEF Leaving
  <2>5. x # m
    BY <2>2, <2>3, <2>4
  <2> QED
    BY <1>1, <1>2, <2>4, <2>5 DEF Leaving
<1>9. StageOk'
  BY <1>1, <1>2, <1>3, <1>7, <1>8 DEF LinkInv, StageOk
<1> QED
  BY <1>4, <1>5, <1>6, <1>9 DEF LinkInv

LEMMA HostEventLinks ==
  ASSUME PortInv, LinkInv, HostEvent
  PROVE  LinkInv'
<1>m. PICK m : m = Head(toHost)
  OBVIOUS
<1>1. /\ toHost # <<>> /\ toHost' = Tail(toHost) /\ m.type = "event"
      /\ references' = references \/ IsActive(m)
      /\ UNCHANGED <<pageVars, toPage, active, sockets, requestOf, nextGeneration, hostClosed,
                     serverAcks>>
  BY <1>m DEF HostEvent, HostTakes
<1>2. m \in Members(toHost)
  BY <1>m, <1>1, HostHead
<1>3. IsActive(m) => sockets[active] = "connected"
  BY <1>1, <1>2 DEF IsActive, LinkInv, SocketsOk, PendingOk, Unheard
<1>4. SocketsOk'
  BY <1>1, <1>3 DEF LinkInv, SocketsOk
<1> QED
  BY <1>m, <1>1, <1>4, HostPasses

LEMMA HostAcknowledgementLinks ==
  ASSUME PortInv, LinkInv, HostAcknowledgement
  PROVE  LinkInv'
<1>m. PICK m : m = Head(toHost)
  OBVIOUS
<1>1. /\ toHost # <<>> /\ toHost' = Tail(toHost) /\ m.type = "ack"
      /\ serverAcks' \subseteq serverAcks
      /\ UNCHANGED <<pageVars, toPage, active, sockets, requestOf, nextGeneration, hostClosed,
                     references>>
  BY <1>m DEF HostAcknowledgement, HostTakes
<1>2. SocketsOk'
  BY <1>1 DEF LinkInv, SocketsOk
<1> QED
  BY <1>m, <1>1, <1>2, HostPasses

LEMMA HostIgnoresLinks ==
  ASSUME PortInv, LinkInv, HostIgnores
  PROVE  LinkInv'
<1>m. PICK m : m = Head(toHost)
  OBVIOUS
<1>1. /\ toHost # <<>> /\ toHost' = Tail(toHost) /\ hostClosed
      /\ UNCHANGED <<pageVars, toPage, active, sockets, requestOf, nextGeneration, hostClosed>>
  BY DEF HostIgnores, hostVars
<1>2. SocketsOk'
  BY DEF LinkInv, SocketsOk, HostIgnores, hostVars
<1> QED
  BY <1>m, <1>1, <1>2, HostPasses

\* The active connection is over, and the page will be told so.
LEMMA FinishLinks ==
  ASSUME PortInv, LinkInv, active # 0, Finish(active, "gone"), NEW m \in HostMessages,
         toPage' = toPage \o <<m>>, m.generation = active, m.request = requestOf[active],
         m.type = "disconnected" \/ (m.type = "connectError" /\ sockets[active] = "pending"),
         UNCHANGED <<pageVars, requestOf, nextGeneration>>,
         Members(toHost') \subseteq Members(toHost), Asking => Asking',
         hostClosed => hostClosed', Waiting => hostClosed' \/ m.type = "connectError"
  PROVE  LinkInv'
<1>1. UNCHANGED <<requestId, requestSequence, generation, connected, disconnecting, connecting,
                  calls>>
  BY DEF pageVars, requestVars, linkVars
<1>2. /\ active' = 0 /\ serverAcks' = {} /\ references' = {}
      /\ sockets' = [sockets EXCEPT ![active] = "gone"] /\ active \in Generations
  BY HostGeneration DEF Finish
<1>3. toPage \in Seq(HostMessages) /\ Members(toPage') = Members(toPage) \cup {m}
  BY AddMembers DEF PortInv, TypeOK
<1>4. \A g : Told(g) \/ Accepted(g) => Told(g)'
  BY <1>3 DEF Told, Accepted
<1>5. SocketsOk'
  BY <1>2 DEF LinkInv, SocketsOk, PortInv, TypeOK
<1>6. PendingOk'
  BY <1>2 DEF PendingOk
<1>7. AnnouncedOk'
  <2>1. \A x \in Members(toPage) : x \in HostMessages /\ <<x, m>> \in Announced
    BY <1>3, MembersBelong DEF Announced
  <2>2. Pairwise(toPage', Announced)
    BY <1>3, <2>1, AddPairwise DEF LinkInv, AnnouncedOk
  <2> QED
    BY <1>3, <1>4, <2>2 DEF LinkInv, AnnouncedOk
<1>8. RequestOk'
  BY <1>1, <1>2 DEF LinkInv, RequestOk
<1>9. connecting => (hostClosed \/ Asking \/ Waiting \/ Answered)'
  <2>1. Answered => Answered'
    BY <1>1, <1>3 DEF Answered
  <2>2. Waiting /\ m.type = "connectError" => Answered'
    BY <1>1, <1>3 DEF Waiting, Answered
  <2> QED
    BY <2>1, <2>2 DEF LinkInv, StageOk
<1>10. StageOk'
  BY <1>1, <1>2, <1>4, <1>9 DEF LinkInv, StageOk
<1> QED
  BY <1>5, <1>6, <1>7, <1>8, <1>10 DEF LinkInv

LEMMA HostDisconnectLinks ==
  ASSUME PortInv, LinkInv, HostDisconnect
  PROVE  LinkInv'
<1>m. PICK m : m = Head(toHost)
  OBVIOUS
<1>1. /\ toHost # <<>> /\ toHost' = Tail(toHost) /\ m.type = "disconnect"
      /\ UNCHANGED <<pageVars, hostClosed, nextGeneration, requestOf>>
  BY <1>m DEF HostDisconnect, HostTakes
<1>2. m \in Members(toHost) /\ Members(toHost) = {m} \cup Members(toHost')
  BY <1>m, <1>1, HostHead
<1>3. CASE IsActive(m) /\ m.request = requestOf[active]
  <2>1. active # 0 /\ m.generation = active
    BY <1>3 DEF IsActive
  <2>2. Finish(active, "gone") /\ toPage' = toPage \o <<Disconnected(active)>>
    BY <1>m, <1>3 DEF HostDisconnect, Reply
  <2>3. ~Waiting
    BY <1>1, <1>2, <2>1 DEF Waiting, LinkInv, PendingOk, Unheard
  <2>4. Asking => Asking'
    BY <1>1, <1>2 DEF Asking, pageVars, requestVars
  <2> QED
    BY <1>1, <1>2, <2>1, <2>2, <2>3, <2>4, DisconnectedTypes, FinishLinks
<1>4. CASE ~(IsActive(m) /\ m.request = requestOf[active])
  <2>1. UNCHANGED <<active, sockets, serverAcks, references, toPage>>
    BY <1>m, <1>4 DEF HostDisconnect
  <2>2. SocketsOk'
    BY <2>1 DEF LinkInv, SocketsOk
  <2> QED
    BY <1>m, <1>1, <1>4, <2>1, <2>2, HostPasses DEF IsActive
<1> QED
  BY <1>3, <1>4

LEMMA HostCloseLinks ==
  ASSUME PortInv, LinkInv, HostClose, "blank" \notin Faults
  PROVE  LinkInv'
<1>1. hostClosed' /\ UNCHANGED <<pageVars, toHost, nextGeneration, requestOf>>
  BY DEF HostClose
<1>2. UNCHANGED <<requestId, requestSequence, generation, connected, disconnecting, connecting,
                  calls>>
  BY <1>1 DEF pageVars, requestVars, linkVars
<1>3. CASE active # 0
  <2>1. PICK m \in Texts("disconnected", active) : toPage' = toPage \o <<m>>
    BY <1>3 DEF HostClose, Reply
  <2>2. /\ m \in HostMessages /\ m.generation = active /\ m.request = requestOf[active]
        /\ m.type = "disconnected"
    BY <1>3, <2>1, TextsTypes
  <2>3. Finish(active, "gone")
    BY <1>3 DEF HostClose
  <2>4. Asking => Asking'
    BY <1>1, <1>2 DEF Asking
  <2> QED
    BY <1>1, <1>3, <2>1, <2>2, <2>3, <2>4, FinishLinks
<1>4. CASE active = 0
  <2>1. UNCHANGED <<active, sockets, serverAcks, references, toPage>>
    BY <1>4 DEF HostClose
  <2>2. SocketsOk' /\ PendingOk' /\ RequestOk'
    BY <1>2, <1>4, <2>1 DEF LinkInv, SocketsOk, PendingOk, RequestOk
  <2>3. \A g : (Accepted(g)' <=> Accepted(g)) /\ (Told(g)' <=> Told(g)) /\ (Leaving(g)' <=> Leaving(g))
    BY <1>1, <2>1 DEF Accepted, Told, Leaving
  <2>4. AnnouncedOk'
    BY <2>1, <2>3 DEF LinkInv, AnnouncedOk
  <2>5. StageOk'
    BY <1>1, <1>2, <2>1, <2>3 DEF LinkInv, StageOk
  <2> QED
    BY <2>2, <2>4, <2>5 DEF LinkInv
<1> QED
  BY <1>3, <1>4

LEMMA ServerRefusesLinks ==
  ASSUME PortInv, LinkInv, NEW g \in Generations, ServerRefuses(g),
         "blank" \notin Faults, "refusal" \notin Faults
  PROVE  LinkInv'
<1>1. /\ g = active /\ active # 0 /\ sockets[active] = "pending" /\ Finish(active, "gone")
      /\ UNCHANGED <<pageVars, toHost, nextGeneration, requestOf, hostClosed>>
  BY Bounds DEF ServerRefuses
<1>2. PICK m \in Texts("connectError", active) : toPage' = toPage \o <<m>>
  BY <1>1 DEF ServerRefuses, Reply
<1>3. /\ m \in HostMessages /\ m.generation = active /\ m.request = requestOf[active]
      /\ m.type = "connectError"
  BY <1>1, <1>2, TextsTypes
<1>4. Asking => Asking'
  BY <1>1 DEF Asking, pageVars, requestVars
<1> QED
  BY <1>1, <1>2, <1>3, <1>4, FinishLinks

LEMMA ServerDisconnectsLinks ==
  ASSUME PortInv, LinkInv, NEW g \in Generations, ServerDisconnects(g)
  PROVE  LinkInv'
<1>1. g = active /\ active # 0 /\ sockets[active] = "connected"
  BY Bounds DEF ServerDisconnects, LinkInv, SocketsOk
<1>2. /\ Finish(active, "gone") /\ toPage' = toPage \o <<Disconnected(active)>>
      /\ UNCHANGED <<pageVars, toHost, nextGeneration, requestOf, hostClosed>>
  BY <1>1 DEF ServerDisconnects, Reply
<1>3. ~Waiting
  BY <1>1 DEF Waiting
<1>4. Asking => Asking'
  BY <1>2 DEF Asking, pageVars, requestVars
<1> QED
  BY <1>1, <1>2, <1>3, <1>4, DisconnectedTypes, FinishLinks

\* The host replies with a message of its connection: that it is there, or what comes of it.
LEMMA ReplyLinks ==
  ASSUME PortInv, LinkInv, active # 0, NEW m \in HostMessages, toPage' = toPage \o <<m>>,
         m.generation = active, UNCHANGED <<pageVars, toHost, active, requestOf, hostClosed>>,
         sockets' = [sockets EXCEPT ![active] = "connected"],
         \/ m.type = "connected" /\ m.request = requestOf[active] /\ sockets[active] = "pending"
         \/ m.type \in {"event", "ack", "unreadable"} /\ sockets[active] = "connected"
  PROVE  PendingOk' /\ AnnouncedOk' /\ StageOk' /\ RequestOk'
<1>1. UNCHANGED <<requestId, requestSequence, generation, connected, disconnecting, connecting,
                  calls>>
  BY DEF pageVars, requestVars, linkVars
<1>2. toPage \in Seq(HostMessages) /\ Members(toPage') = Members(toPage) \cup {m}
  BY AddMembers DEF PortInv, TypeOK
<1>3. sockets'[active] = "connected"
  BY HostGeneration DEF PortInv, TypeOK
<1>4. /\ \A g : Told(g) => Told(g)'
      /\ \A g : Accepted(g) => Accepted(g)'
      /\ \A g : Leaving(g) => Leaving(g)'
      /\ Accepted(active)'
  BY <1>2, <1>3 DEF Told, Accepted, Leaving
<1>5. PendingOk'
  BY <1>3 DEF PendingOk
<1>6. AnnouncedOk'
  <2>1. ASSUME NEW x \in Members(toPage), m.type = "connected"
        PROVE  x.generation < m.generation
    <3>1. x.generation # active
      BY <2>1 DEF LinkInv, PendingOk, Unheard
    <3>2. x.generation \in 1..nextGeneration /\ active = nextGeneration /\ nextGeneration \in Nat
      BY <2>1, HostGeneration, Bounds DEF PortInv, ToPageInv, ToPageOk, TypeOK
    <3> QED
      BY <3>1, <3>2
  <2>2. \A x \in Members(toPage) : x \in HostMessages /\ <<x, m>> \in Announced
    BY <1>2, <2>1, MembersBelong DEF Announced
  <2>3. Pairwise(toPage', Announced)
    BY <1>2, <2>2, AddPairwise DEF LinkInv, AnnouncedOk
  <2> QED
    BY <1>2, <1>4, <2>3 DEF LinkInv, AnnouncedOk
<1>7. RequestOk'
  BY <1>1 DEF LinkInv, RequestOk
<1>8. StageOk'
  <2>1. (Answered => Answered') /\ (Asking => Asking')
    BY <1>1, <1>2 DEF Answered, Asking
  <2>2. Waiting => Answered'
    BY <1>1, <1>2 DEF Waiting, Answered
  <2> QED
    BY <1>1, <1>4, <2>1, <2>2 DEF LinkInv, StageOk
<1> QED
  BY <1>5, <1>6, <1>7, <1>8

LEMMA ServerAcceptsLinks ==
  ASSUME PortInv, LinkInv, NEW g \in Generations, ServerAccepts(g), "refusal" \notin Faults
  PROVE  LinkInv'
<1>m. PICK m : m = [type |-> "connected", generation |-> g, request |-> requestOf[g]]
  OBVIOUS
<1>1. /\ g = active /\ active # 0 /\ sockets[active] = "pending"
      /\ sockets' = [sockets EXCEPT ![active] = "connected"] /\ toPage' = toPage \o <<m>>
      /\ UNCHANGED <<pageVars, toHost, active, requestOf, serverAcks, references, hostClosed>>
  BY <1>m, Bounds DEF ServerAccepts, Reply
<1>2. m \in HostMessages /\ m.type = "connected" /\ m.generation = active /\ m.request = requestOf[active]
  BY <1>m, <1>1, HostGeneration, HostMessageTypes
<1>3. PendingOk' /\ AnnouncedOk' /\ StageOk' /\ RequestOk'
  BY <1>1, <1>2, ReplyLinks
<1>4. SocketsOk'
  BY <1>1 DEF LinkInv, SocketsOk, PortInv, TypeOK
<1> QED
  BY <1>3, <1>4 DEF LinkInv

\* The worker sends nothing.
LEMMA WorkerQuietLinks ==
  ASSUME PortInv, LinkInv,
         UNCHANGED <<pageVars, toHost, toPage, active, sockets, requestOf, hostClosed>>
  PROVE  PendingOk' /\ AnnouncedOk' /\ StageOk' /\ RequestOk'
BY DEF LinkInv, PendingOk, Unheard, AnnouncedOk, StageOk, RequestOk, Accepted, Told, Leaving,
       Asking, Waiting, Answered, pageVars, requestVars, linkVars

LEMMA ServerEmitsLinks ==
  ASSUME PortInv, LinkInv, NEW g \in Generations, NEW ack \in BOOLEAN, ServerEmits(g, ack)
  PROVE  LinkInv'
<1>m. PICK m : m = [type |-> "event", generation |-> g, id |-> sent + 1, ack |-> ack]
  OBVIOUS
<1>u. PICK u : u = [type |-> "unreadable", generation |-> g, request |-> requestOf[g]]
  OBVIOUS
<1>1. /\ g = active /\ active # 0 /\ sockets[active] = "connected" /\ sent < MaxEvents
      /\ toPage' = toPage \o <<m>> \/ toPage' = toPage \o <<u>> \/ UNCHANGED toPage
      /\ UNCHANGED <<pageVars, toHost, active, requestOf, sockets, references, hostClosed>>
  BY <1>m, <1>u, Bounds DEF ServerEmits, Reply
<1>2. m \in HostMessages /\ m.type = "event" /\ m.generation = active
  <2>1. sent + 1 \in Events
    BY <1>1, Bounds DEF PortInv, TypeOK
  <2> QED
    BY <1>m, <1>1, <2>1, HostMessageTypes
<1>6. u \in HostMessages /\ u.type = "unreadable" /\ u.generation = active
  <2>1. requestOf[active] \in Requests
    BY <1>1, HostGeneration
  <2> QED
    BY <1>u, <1>1, <2>1, HostMessageTypes
<1>3. sockets' = [sockets EXCEPT ![active] = "connected"]
  BY <1>1, HostGeneration DEF PortInv, TypeOK
<1>4. PendingOk' /\ AnnouncedOk' /\ StageOk' /\ RequestOk'
  <2>1. CASE toPage' = toPage \o <<m>>
    BY <1>1, <1>2, <1>3, <2>1, ReplyLinks
  <2>2. CASE toPage' = toPage \o <<u>>
    BY <1>1, <1>6, <1>3, <2>2, ReplyLinks
  <2>3. CASE UNCHANGED toPage
    BY <1>1, <1>2, <1>3, <2>3, ReplyLinks, WorkerQuietLinks
  <2> QED
    BY <1>1, <2>1, <2>2, <2>3
<1>5. SocketsOk'
  BY <1>1 DEF LinkInv, SocketsOk
<1> QED
  BY <1>4, <1>5 DEF LinkInv

LEMMA ServerAnswersLinks ==
  ASSUME PortInv, LinkInv, NEW e \in Emits, ServerAnswers(e)
  PROVE  LinkInv'
<1>m. PICK m : m = [type |-> "ack", generation |-> active, id |-> e]
  OBVIOUS
<1>1. /\ e \in references /\ references' \subseteq references
      /\ toPage' = toPage \o <<m>> \/ UNCHANGED toPage
      /\ UNCHANGED <<pageVars, toHost, active, requestOf, sockets, serverAcks, hostClosed>>
  BY <1>m DEF ServerAnswers, Reply
<1>2. active # 0 /\ sockets[active] = "connected"
  BY <1>1 DEF PortInv, HostOk, LinkInv, SocketsOk
<1>3. m \in HostMessages /\ m.type = "ack" /\ m.generation = active
  BY <1>m, <1>2, HostGeneration, HostMessageTypes
<1>4. sockets' = [sockets EXCEPT ![active] = "connected"]
  BY <1>1, <1>2, HostGeneration DEF PortInv, TypeOK
<1>5. PendingOk' /\ AnnouncedOk' /\ StageOk' /\ RequestOk'
  BY <1>1, <1>2, <1>3, <1>4, ReplyLinks, WorkerQuietLinks
<1>6. SocketsOk'
  BY <1>1 DEF LinkInv, SocketsOk
<1> QED
  BY <1>5, <1>6 DEF LinkInv

\* The host takes a connect: the one it had is over, the next one waits or has failed.
LEMMA HostConnectLinks ==
  ASSUME PortInv, LinkInv, HostConnect
  PROVE  LinkInv'
<1>m. PICK m : m = Head(toHost)
  OBVIOUS
<1>n. PICK n : n = nextGeneration + 1
  OBVIOUS
<1>1. /\ toHost # <<>> /\ toHost' = Tail(toHost) /\ m.type = "connect" /\ ~hostClosed
      /\ UNCHANGED <<pageVars, hostClosed>> /\ serverAcks' = {} /\ references' = {}
      /\ \/ active' = n /\ sockets' = [Replaced EXCEPT ![n] = "pending"]
         \/ active' = 0 /\ sockets' = Replaced
  BY <1>m, <1>n DEF HostConnect, HostTakes, NextGeneration
<1>2. UNCHANGED <<requestId, requestSequence, generation, connected, disconnecting, connecting,
                  calls>>
  BY <1>1 DEF pageVars, requestVars, linkVars
<1>3. /\ n \in Generations /\ requestOf'[n] = m.request /\ n # 0 /\ n \notin 1..nextGeneration
      /\ \A g \in 1..nextGeneration : requestOf'[g] = requestOf[g]
      /\ active \in {0, nextGeneration} /\ nextGeneration \in Nat /\ active # n
  <2>1. active \in {0, nextGeneration} /\ nextGeneration \in Nat
    BY Bounds DEF PortInv, TypeOK, NumbersOk
  <2>2. /\ n \in Generations /\ requestOf'[n] = m.request
        /\ \A g \in 1..nextGeneration : requestOf'[g] = requestOf[g]
    BY <1>m, <1>n, ConnectKeeps DEF NextGeneration
  <2>3. n # 0 /\ n \notin 1..nextGeneration /\ active # n
    BY <1>n, <2>1
  <2> QED
    BY <2>1, <2>2, <2>3
<1>4. /\ m \in Members(toHost) /\ ToHostOk(m)
      /\ Members(toHost) = {m} \cup Members(toHost')
  BY <1>m, <1>1, HostHead
<1>5. connecting
  BY <1>1, <1>4 DEF LinkInv, StageOk
<1>f. PICK failure : failure = [type |-> "connectError", generation |-> nextGeneration + 1,
                                request |-> Head(toHost).request]
  OBVIOUS
<1>6. PICK news \in Seq(HostMessages) :
           /\ toPage' = toPage \o news /\ Pairwise(news, Silent)
           /\ Members(news) \subseteq {Disconnected(active), failure}
           /\ Disconnected(active) \in Members(news) <=> active # 0
           /\ failure \in Members(news) <=> active' = 0
           /\ \A p \in Members(news) : p \in HostMessages
  BY <1>f, ConnectReplies
<1>7. /\ toPage \in Seq(HostMessages) /\ Members(toPage') = Members(toPage) \cup Members(news)
  BY <1>6, ConcatMembers DEF PortInv, TypeOK
<1>8. /\ Disconnected(active).type = "disconnected" /\ Disconnected(active).generation = active
      /\ failure.type = "connectError" /\ failure.generation = n /\ failure.request = m.request
  BY <1>m, <1>n, <1>f DEF Disconnected
<1>9. \A g : Told(g) => Told(g)'
  BY <1>7 DEF Told
<1>10. \A g \in Generations : Accepted(g) => Told(g)'
  <2>1. ASSUME NEW g \in Generations, Accepted(g)
        PROVE  Disconnected(active) \in Members(toPage') /\ active = g
    BY <1>6, <1>7, <2>1, Bounds DEF Accepted
  <2> QED
    BY <1>8, <2>1 DEF Told
<1>11. SocketsOk'
  <2>1. /\ Replaced \in [Generations -> {"none", "pending", "connected", "gone"}]
        /\ \A g \in Generations : Replaced[g] \in {"none", "gone"}
    <3>1. /\ sockets \in [Generations -> {"none", "pending", "connected", "gone"}]
          /\ \A g \in Generations : g # active => sockets[g] \in {"none", "gone"}
      BY DEF LinkInv, SocketsOk, PortInv, TypeOK
    <3>2. CASE active = 0
      BY <3>1, <3>2, Bounds DEF Replaced
    <3>3. CASE active # 0
      <4>1. Replaced = [sockets EXCEPT ![active] = "gone"] /\ active \in Generations
        BY <3>3, HostGeneration DEF Replaced
      <4> QED
        BY <3>1, <4>1
    <3> QED
      BY <3>2, <3>3
  <2> QED
    BY <1>1, <1>3, <2>1 DEF SocketsOk
<1>12. PendingOk'
  <2>1. generation # n
    BY <1>3, <1>n DEF PortInv, PageOk, TypeOK
  <2>2. \A x \in Members(toPage) : x.generation # n
    BY <1>3 DEF PortInv, ToPageInv, ToPageOk
  <2>3. \A x \in Members(toHost') : x.type # "connect" => x.generation # n
    BY <1>3, <1>4 DEF PortInv, ToHostInv, ToHostOk
  <2>4. active' = n => \A x \in Members(toPage') : x.generation # n
    BY <1>3, <1>6, <1>7, <1>8, <2>2
  <2> QED
    BY <1>1, <1>2, <2>1, <2>3, <2>4 DEF PendingOk, Unheard
<1>13. AnnouncedOk'
  <2>1. \A y \in Members(news) : y \in HostMessages /\ y.type # "connected"
    BY <1>6, <1>8
  <2>2. Members(toPage) \subseteq HostMessages /\ Members(news) \subseteq HostMessages
    BY <1>6, <1>7, MembersBelong
  <2>3. \A x \in HostMessages, y \in Members(news) : <<x, y>> \in Announced
    BY <2>1 DEF Announced
  <2>4. Pairwise(news, Announced)
    BY <2>2, <2>3 DEF Pairwise, Members
  <2>5. Pairwise(toPage', Announced)
    BY <1>6, <1>7, <2>2, <2>3, <2>4, PairwiseConcat DEF LinkInv, AnnouncedOk
  <2>6. ASSUME NEW x \in Members(toPage'), x.type = "connected"
        PROVE  Told(x.generation)'
    <3>1. x \in Members(toPage) /\ x.generation \in Generations
      BY <1>7, <2>1, <2>2, <2>6, HostMessageFields
    <3> QED
      BY <1>9, <1>10, <2>6, <3>1 DEF LinkInv, AnnouncedOk
  <2> QED
    BY <2>5, <2>6 DEF AnnouncedOk
<1>14. RequestOk'
  BY <1>1, <1>2 DEF LinkInv, RequestOk
<1>15. (Asking \/ Waiting \/ Answered)'
  <2>1. Answered => Answered'
    BY <1>2, <1>7 DEF Answered
  <2>2. ~Waiting
    <3>1. requestOf[active] # requestSequence \/ active = 0
      BY <1>3, <1>4, <1>1, HostGeneration DEF ToHostOk, PortInv, NumbersOk, TypeOK
    <3> QED
      BY <3>1 DEF Waiting, LinkInv, RequestOk
  <2>3. CASE m.request = requestId /\ active' = n
    <3>1. sockets'[n] = "pending"
      BY <1>1, <1>3, <2>3 DEF Replaced, PortInv, TypeOK
    <3> QED
      BY <1>2, <1>3, <2>3, <3>1 DEF Waiting
  <2>4. CASE m.request = requestId /\ active' = 0
    <3>1. failure \in Members(toPage')
      BY <1>6, <1>7, <2>4
    <3> QED
      BY <1>2, <1>8, <2>4, <3>1 DEF Answered
  <2>5. CASE m.request # requestId
    <3>1. Asking => Asking'
      BY <1>2, <1>4, <2>5 DEF Asking
    <3> QED
      BY <1>1, <1>5, <2>1, <2>2, <3>1 DEF LinkInv, StageOk
  <2> QED
    BY <1>1, <2>3, <2>4, <2>5
<1>16. StageOk'
  <2>1. ~connected /\ ~disconnecting
    BY <1>5 DEF PortInv, PageOk
  <2> QED
    BY <1>2, <1>5, <1>15, <2>1 DEF StageOk
<1> QED
  BY <1>11, <1>12, <1>13, <1>14, <1>16 DEF LinkInv

-----------------------------------------------------------------------------
(* When nothing is under way, the two sides agree.                         *)

LEMMA LinkInit ==
  ASSUME Init, "auth" \notin Faults
  PROVE  LinkInv
<1>m. PICK m : m = [type |-> "connect", request |-> 1]
  OBVIOUS
<1>1. /\ requestSequence = 1 /\ requestId = 1 /\ toHost = <<m>> /\ toPage = <<>> /\ calls = <<>>
      /\ connecting = TRUE /\ ~connected /\ ~disconnecting /\ active = 0
      /\ references = {} /\ serverAcks = {} /\ hostClosed = FALSE
      /\ sockets = [g \in Generations |-> "none"]
  BY <1>m DEF Init
<1>2. Members(toHost) = {m} /\ Members(toPage) = {} /\ Members(calls) = {}
      /\ Pairwise(toPage, Announced)
  BY <1>1 DEF Members, Pairwise
<1>3. SocketsOk /\ PendingOk /\ RequestOk
  BY <1>1, <1>2 DEF SocketsOk, PendingOk, RequestOk
<1>4. AnnouncedOk
  BY <1>2 DEF AnnouncedOk
<1>5. StageOk
  <2>1. Asking
    BY <1>m, <1>1, <1>2 DEF Asking
  <2> QED
    BY <1>1, <2>1 DEF StageOk
<1> QED
  BY <1>3, <1>4, <1>5 DEF LinkInv

LEMMA LinkStutters == LinkInv /\ UNCHANGED vars => LinkInv'
BY DEF LinkInv, SocketsOk, PendingOk, Unheard, AnnouncedOk, StageOk, RequestOk, Accepted, Told,
       Leaving, Asking, Waiting, Answered, vars, pageVars, requestVars, linkVars, hostVars

LEMMA LinkStep ==
  ASSUME Faults \subseteq {"values", "names"}, PortInv, LinkInv, [Next]_vars
  PROVE  LinkInv'
<1>a. "auth" \notin Faults /\ "refusal" \notin Faults /\ "blank" \notin Faults
  OBVIOUS
<1>1. CASE Application
  BY <1>a, <1>1, ConnectLinks, DisconnectLinks, EmitLinks, AnswerLinks, HostCloseLinks,
     ServerDisconnectsLinks, ServerEmitsLinks, ServerAnswersLinks DEF Application
<1>2. CASE Page
  BY <1>2, ConnectFailedLinks, FlushLinks DEF Page
<1>3. CASE PageReceives
  BY <1>3, ReceiveConnectedLinks, ReceiveConnectErrorLinks, ReceiveDisconnectedLinks,
     ReceivePassingLinks DEF PageReceives
<1>4. CASE HostReceives
  BY <1>4, HostConnectLinks, HostEventLinks, HostAcknowledgementLinks, HostDisconnectLinks,
     HostIgnoresLinks DEF HostReceives
<1>5. CASE ServerSettles
  BY <1>a, <1>5, ServerAcceptsLinks, ServerRefusesLinks DEF ServerSettles
<1>6. CASE UNCHANGED vars
  BY <1>6, LinkStutters
<1> QED
  BY <1>1, <1>2, <1>3, <1>4, <1>5, <1>6 DEF Next

LEMMA LinksAgree ==
  ASSUME PortInv, LinkInv
  PROVE  BridgeInv
<1>1. NoOrphanSocket
  BY DEF LinkInv, SocketsOk, NoOrphanSocket
<1>2. ASSUME Settled
      PROVE  /\ ~disconnecting
             /\ connected => Accepted(generation) /\ generation # 0 /\ requestOf[generation] = requestId
             /\ connecting => Waiting
             /\ ~connecting /\ ~connected => active = 0
             /\ active # 0 => sockets[active] \in {"pending", "connected"}
             /\ ~(connected /\ connecting)
  <2>1. Members(toHost) = {} /\ Members(toPage) = {}
    BY <1>2 DEF Settled, Members
  <2>2. \A g : ~Told(g) /\ ~Leaving(g)
    BY <2>1 DEF Told, Leaving
  <2>3. ~Asking /\ ~Answered /\ ~hostClosed
    BY <1>2, <2>1 DEF Asking, Answered, Settled
  <2> QED
    BY <2>2, <2>3 DEF LinkInv, StageOk, SocketsOk, PortInv, PageOk
<1>3. BridgeAgreement
  <2>1. ASSUME Settled
        PROVE  /\ ~disconnecting
               /\ connected <=> (active # 0 /\ sockets[active] = "connected")
               /\ connecting <=> (active # 0 /\ sockets[active] = "pending")
               /\ connected => generation = active
               /\ active # 0 <=> (connected \/ connecting)
               /\ active # 0 => requestOf[active] = requestId
    BY <1>2, <2>1 DEF Accepted, Waiting
  <2> QED
    BY <2>1 DEF BridgeAgreement
<1> QED
  BY <1>1, <1>3 DEF BridgeInv, PortInv

\* If every auth can be posted, no text is blank and no accepted connection is refused, then page
\* and host agree whenever nothing is under way, and the worker keeps no Socket that no page
\* can reach (connect, handleMessage and finish of shared-worker-host.ts with receiveConnected
\* and receiveDisconnected of shared-worker-client.ts).  Values that cannot be cloned and event
\* names that the page refuses are allowed.
THEOREM BothSidesAgree ==
  ASSUME Faults \subseteq {"values", "names"}
  PROVE  Spec => []BridgeInv
<1>1. Init => LinkInv
  BY LinkInit
<1>2. PortInv /\ LinkInv /\ [Next]_vars => LinkInv'
  BY LinkStep
<1>3. PortInv /\ LinkInv => BridgeInv
  BY LinksAgree
<1> QED
  BY <1>1, <1>2, <1>3, PortIsSound, PTL DEF Spec

-----------------------------------------------------------------------------
(* Where an acknowledgement is while it is pending.                        *)

\* The page's: with the server, in its event, in its answer, or about to be given up.
EventOut(e) == \E m \in Members(toHost) :
                 m.type = "event" /\ m.id = e /\ m.ack /\ m.generation = generation
AnswerIn(e) == \E m \in Members(toPage) :
                 m.type = "ack" /\ m.id = e /\ m.generation = generation
PageCarries(e) == e \in references \/ EventOut(e) \/ AnswerIn(e) \/ Told(generation)
PageCarryOk == \A e \in clientAcks : PageCarries(e)

\* The worker's: with the page, in its event, in its answer, or about to be given up.
EventIn(n) == \E m \in Members(toPage) :
                m.type = "event" /\ m.id = n /\ m.ack /\ m.generation = active
AnswerOut(n) == \E m \in Members(toHost) :
                  m.type = "ack" /\ m.id = n /\ m.generation = active
Connecting == \E m \in Members(toHost) : m.type = "connect"
HostCarries(n) == n \in answerable \/ EventIn(n) \/ AnswerOut(n) \/ Connecting \/ Leaving(active)
HostCarryOk == \A n \in serverAcks : HostCarries(n)

BothInv == PortInv /\ LinkInv
CarryInv == PageCarryOk /\ HostCarryOk

\* A connected page and a host with a connection have the same one.
LEMMA SameConnection ==
  ASSUME BothInv, connected, active # 0
  PROVE  generation = active
<1>1. generation \in 1..nextGeneration /\ requestOf[generation] = requestId
  BY PageGeneration DEF BothInv
<1>2. requestId = requestSequence
  BY DEF BothInv, LinkInv, RequestOk
<1>3. active \in {0, generation}
  BY <1>1, <1>2, LastRequest DEF BothInv
<1> QED
  BY <1>3

\* A page that waits for acknowledgements is connected.
LEMMA PageWaits ==
  ASSUME BothInv, clientAcks # {}
  PROVE  /\ connected /\ ~connecting /\ ~disconnecting /\ generation # 0
         /\ Accepted(generation) \/ Told(generation)
         /\ active = 0 => Told(generation)
         /\ active # 0 => generation = active
<1>1. connected /\ ~connecting /\ ~disconnecting /\ generation # 0
  BY DEF BothInv, PortInv, PageOk
<1>2. Accepted(generation) \/ Told(generation)
  BY <1>1 DEF BothInv, LinkInv, StageOk
<1> QED
  BY <1>1, <1>2, SameConnection DEF Accepted

\* A worker that waits for acknowledgements has a connection that was accepted.
LEMMA HostWaits ==
  ASSUME BothInv, serverAcks # {}
  PROVE  active # 0 /\ sockets[active] = "connected" /\ ~hostClosed
BY DEF BothInv, PortInv, HostOk, LinkInv, SocketsOk, RequestOk

\* Nothing is taken, and nothing new is waited for.
LEMMA CarryGrows ==
  ASSUME CarryInv, UNCHANGED <<generation, active>>,
         Members(toHost) \subseteq Members(toHost'), Members(toPage) \subseteq Members(toPage')
  PROVE  /\ \A e : PageCarries(e) /\ e \notin references \ references' => PageCarries(e)'
         /\ \A n : HostCarries(n) /\ n \notin answerable \ answerable' => HostCarries(n)'
<1>1. /\ \A e : EventOut(e) => EventOut(e)'
      /\ \A e : AnswerIn(e) => AnswerIn(e)'
      /\ Told(generation) => Told(generation)'
  BY DEF EventOut, AnswerIn, Told
<1>2. /\ \A n : EventIn(n) => EventIn(n)'
      /\ \A n : AnswerOut(n) => AnswerOut(n)'
      /\ Connecting => Connecting'
      /\ Leaving(active) => Leaving(active)'
  BY DEF EventIn, AnswerOut, Connecting, Leaving
<1> QED
  BY <1>1, <1>2 DEF PageCarries, HostCarries

\* The worker has lost its connection: nothing is waited for there, and the page is told.
LEMMA CarryEnds ==
  ASSUME BothInv', serverAcks' = {}, active' = 0 \/ sockets'[active'] # "connected"
  PROVE  CarryInv'
<1>1. clientAcks' # {} => Told(generation)'
  <2>1. clientAcks' # {} => connected'
    BY DEF BothInv, PortInv, PageOk
  <2>2. connected' => generation' # 0 /\ (Accepted(generation)' \/ Told(generation)')
    BY DEF BothInv, PortInv, PageOk, LinkInv, StageOk
  <2> QED
    BY <2>1, <2>2 DEF Accepted
<1> QED
  BY <1>1 DEF CarryInv, PageCarryOk, HostCarryOk, PageCarries

LEMMA ConnectCarries ==
  ASSUME Faults = {}, BothInv, BothInv', CarryInv, Connect
  PROVE  CarryInv'
<1>m. PICK m : m = [type |-> "connect", request |-> requestSequence + 1]
  OBVIOUS
<1>1. clientAcks' = {} /\ toHost' = toHost \o <<m>>
  BY <1>m DEF Connect, Post, ReleaseGeneration, ReleaseAcknowledgements
<1>2. m \in Members(toHost')
  <2>1. toHost \in Seq(PageMessages) /\ requestSequence + 1 \in Requests
    BY Bounds DEF BothInv, PortInv, TypeOK, Connect
  <2>2. m \in PageMessages
    BY <1>m, <2>1, PageMessageTypes
  <2> QED
    BY <1>1, <2>1, <2>2, AddMembers
<1>3. Connecting'
  BY <1>m, <1>2 DEF Connecting
<1> QED
  BY <1>1, <1>3 DEF CarryInv, PageCarryOk, HostCarryOk, HostCarries

LEMMA DisconnectCarries ==
  ASSUME BothInv, BothInv', CarryInv, Disconnect
  PROVE  CarryInv'
<1>1. UNCHANGED <<toPage, hostVars>> /\ UNCHANGED <<active, serverAcks, references>>
  BY DEF Disconnect, hostVars
<1>2. CASE ~connected
  <2>1. UNCHANGED <<toHost, generation, clientAcks, answerable>>
    BY <1>2 DEF Disconnect, linkVars
  <2> QED
    BY <1>1, <2>1, CarryGrows DEF CarryInv, PageCarryOk, HostCarryOk
<1>3. CASE connected
  <2>d. PICK d : d = [type |-> "disconnect", generation |-> generation, request |-> requestId]
    OBVIOUS
  <2>1. clientAcks' = {} /\ toHost' = toHost \o <<d>>
    BY <1>3, <2>d DEF Disconnect, Leave, Post, ReleaseAcknowledgements
  <2>2. d \in PageMessages
    BY <1>3, <2>d, PageGeneration, PageMessageTypes DEF BothInv
  <2>3. d \in Members(toHost')
    BY <2>1, <2>2, AddMembers DEF BothInv, PortInv, TypeOK
  <2>4. serverAcks' # {} => Leaving(active)'
    BY <1>1, <1>3, <2>d, <2>3, SameConnection, HostWaits DEF Leaving
  <2> QED
    BY <2>1, <2>4 DEF CarryInv, PageCarryOk, HostCarryOk, HostCarries
<1> QED
  BY <1>2, <1>3

LEMMA EmissionCarries ==
  ASSUME BothInv, CarryInv, connected, NEW e \in Emissions, PostEmission(e, generation),
         UNCHANGED <<toPage, hostVars, generation, answerable>>
  PROVE  CarryInv'
<1>1. PICK m \in PageMessages :
           /\ m = [type |-> "event", generation |-> generation, id |-> e.id, ack |-> (e.kind = "ack")]
           /\ toHost' = toHost \o <<m>> /\ Members(toHost') = Members(toHost) \cup {m}
  BY EmissionAdds DEF BothInv
<1>2. UNCHANGED <<active, serverAcks, references>>
  BY DEF hostVars
<1>3. \A x \in clientAcks' : x \in clientAcks \/ (x = e.id /\ e.kind = "ack")
  BY DEF PostEmission
<1>4. e.kind = "ack" => EventOut(e.id)'
  <2>1. m.type = "event" /\ m.id = e.id /\ m.generation = generation /\ m.ack = (e.kind = "ack")
    BY <1>1, Zenon
  <2>2. m \in Members(toHost')
    BY <1>1
  <2>3. e.kind = "ack" => m.ack
    BY <2>1, Zenon
  <2> QED
    BY <2>1, <2>2, <2>3 DEF EventOut
<1>5. /\ \A x : PageCarries(x) => PageCarries(x)'
      /\ \A n : HostCarries(n) => HostCarries(n)'
  BY <1>1, <1>2, CarryGrows
<1> QED
  BY <1>2, <1>3, <1>4, <1>5 DEF CarryInv, PageCarryOk, HostCarryOk, PageCarries

LEMMA QuietCarries ==
  ASSUME CarryInv, UNCHANGED <<toHost, toPage, hostVars, generation, clientAcks, answerable>>
  PROVE  CarryInv'
<1>1. UNCHANGED <<active, serverAcks, references>>
  BY DEF hostVars
<1> QED
  BY <1>1, CarryGrows DEF CarryInv, PageCarryOk, HostCarryOk

LEMMA EmitCarries ==
  ASSUME BothInv, CarryInv, NEW kind, Emit(kind)
  PROVE  CarryInv'
<1>e. PICK e : e = [id |-> emitted + 1, kind |-> kind]
  OBVIOUS
<1>1. /\ UNCHANGED <<toPage, hostVars, generation, answerable>>
      /\ emitted < MaxEmits /\ kind \in Kinds
      /\ UNCHANGED <<toHost, clientAcks>> \/ (connected /\ PostEmission(e, generation))
  BY <1>e DEF Emit
<1>2. e \in Emissions
  <2>1. emitted + 1 \in Emits
    BY <1>1, Bounds DEF BothInv, PortInv, TypeOK
  <2> QED
    BY <1>e, <1>1, <2>1, EmissionTypes
<1> QED
  BY <1>1, <1>2, EmissionCarries, QuietCarries

LEMMA FlushCarries ==
  ASSUME BothInv, CarryInv, Flush
  PROVE  CarryInv'
<1>f. PICK f : f = Head(calls)
  OBVIOUS
<1>1. UNCHANGED <<toPage, hostVars, generation, answerable>>
  BY DEF Flush
<1>2. UNCHANGED <<toHost, clientAcks>>
      \/ (connected /\ \E e \in Emissions : PostEmission(e, generation))
  BY <1>f, FlushRounds DEF BothInv
<1> QED
  BY <1>1, <1>2, EmissionCarries, QuietCarries

LEMMA AnswerCarries ==
  ASSUME Faults = {}, BothInv, CarryInv, NEW n \in Events, Answer(n)
  PROVE  CarryInv'
<1>m. PICK m : m = [type |-> "ack", generation |-> generation, id |-> n]
  OBVIOUS
<1>1. n \in answerable /\ answerable' = answerable \ {n}
      /\ UNCHANGED <<toPage, hostVars, generation, clientAcks>>
  BY DEF Answer
<1>2. connected /\ ~disconnecting
  BY <1>1 DEF BothInv, PortInv, PageOk
<1>3. toHost' = toHost \o <<m>>
  BY <1>m, <1>2 DEF Answer, Post
<1>4. m \in PageMessages
  BY <1>m, <1>2, PageGeneration, PageMessageTypes DEF BothInv
<1>5. Members(toHost') = Members(toHost) \cup {m}
  BY <1>3, <1>4, AddMembers DEF BothInv, PortInv, TypeOK
<1>6. UNCHANGED <<active, serverAcks, references>>
  BY <1>1 DEF hostVars
<1>7. active # 0 => AnswerOut(n)'
  BY <1>m, <1>2, <1>5, <1>6, SameConnection DEF AnswerOut
<1>8. /\ \A e : PageCarries(e) => PageCarries(e)'
      /\ \A x : HostCarries(x) /\ x # n => HostCarries(x)'
  BY <1>1, <1>5, <1>6, CarryGrows
<1> QED
  BY <1>1, <1>6, <1>7, <1>8, HostWaits DEF CarryInv, PageCarryOk, HostCarryOk, HostCarries

\* The page takes a message that is no acknowledgement of its connection, nor its end.
LEMMA PassingCarries ==
  ASSUME BothInv, CarryInv, NEW type, PageTakes(type), NEW m, m = Head(toPage),
         UNCHANGED <<toHost, generation>>, clientAcks' \subseteq clientAcks,
         m.type = "ack" /\ m.generation = generation => m.id \notin clientAcks',
         m.type = "disconnected" => m.generation # generation
  PROVE  PageCarryOk'
<1>1. /\ Members(toPage) = {m} \cup Members(toPage') /\ UNCHANGED references
      /\ \A g : Told(g) => Told(g)' \/ (m.type = "disconnected" /\ m.generation = g)
  BY PageTook DEF BothInv, hostVars
<1>2. ASSUME NEW e \in clientAcks'
      PROVE  PageCarries(e)'
  <2>1. PageCarries(e)
    BY <1>2 DEF CarryInv, PageCarryOk
  <2>2. (EventOut(e) => EventOut(e)') /\ (Told(generation) => Told(generation)')
    BY <1>1 DEF EventOut
  <2>3. AnswerIn(e) => AnswerIn(e)'
    BY <1>1, <1>2 DEF AnswerIn
  <2> QED
    BY <1>1, <2>1, <2>2, <2>3 DEF PageCarries
<1> QED
  BY <1>2 DEF PageCarryOk

\* The page takes a message that is no event of the active generation.
LEMMA NoEventCarries ==
  ASSUME BothInv, CarryInv, NEW type, PageTakes(type), type # "event",
         Members(toHost) \subseteq Members(toHost'), UNCHANGED answerable
  PROVE  HostCarryOk'
<1>m. PICK m : m = Head(toPage)
  OBVIOUS
<1>1. /\ Members(toPage) = {m} \cup Members(toPage') /\ m.type = type
      /\ UNCHANGED <<active, serverAcks>>
  BY <1>m, PageTook DEF BothInv, hostVars
<1>2. ASSUME NEW n \in serverAcks
      PROVE  HostCarries(n)'
  <2>1. HostCarries(n)
    BY <1>2 DEF CarryInv, HostCarryOk
  <2>2. /\ EventIn(n) => EventIn(n)'
        /\ AnswerOut(n) => AnswerOut(n)'
        /\ Connecting => Connecting'
        /\ Leaving(active) => Leaving(active)'
    BY <1>1 DEF EventIn, AnswerOut, Connecting, Leaving
  <2> QED
    BY <2>1, <2>2 DEF HostCarries
<1> QED
  BY <1>1, <1>2 DEF HostCarryOk

LEMMA ReceiveConnectedCarries ==
  ASSUME BothInv, CarryInv, ReceiveConnected
  PROVE  CarryInv'
<1>m. PICK m : m = Head(toPage)
  OBVIOUS
<1>1. PageTakes("connected") /\ m.type = "connected"
  BY <1>m DEF ReceiveConnected, PageTakes
<1>2. CASE ~Awaited(m)
  <2>1. UNCHANGED <<toHost, generation, clientAcks, answerable>>
    BY <1>m, <1>2 DEF ReceiveConnected, linkVars
  <2> QED
    BY <1>m, <1>1, <2>1, PassingCarries, NoEventCarries DEF CarryInv
<1>3. CASE Awaited(m)
  <2>1. clientAcks = {} /\ m.request = requestId
    BY <1>3, PageWaits DEF Awaited
  <2>2. clientAcks' = {}
    BY <1>m, <1>3, <2>1 DEF ReceiveConnected, Leave, ReleaseAcknowledgements
  <2>3. CASE ~disconnectAfterConnect
    <3>1. UNCHANGED <<toHost, answerable>>
      BY <1>m, <1>3, <2>3 DEF ReceiveConnected
    <3> QED
      BY <1>1, <2>2, <3>1, NoEventCarries DEF CarryInv, PageCarryOk
  <2>4. CASE disconnectAfterConnect
    <3>d. PICK d : d = [type |-> "disconnect", generation |-> m.generation, request |-> requestId]
      OBVIOUS
    <3>1. toHost' = toHost \o <<d>>
      BY <1>m, <1>3, <2>4, <3>d DEF ReceiveConnected, Leave, Post
    <3>2. m \in HostMessages /\ ToPageOk(m) /\ UNCHANGED <<active, serverAcks>>
      BY <1>m, <1>1, PageTook DEF BothInv, hostVars
    <3>3. d \in PageMessages
      BY <2>1, <3>d, <3>2, <1>1, HostMessageFields, PageMessageTypes
    <3>4. d \in Members(toHost')
      BY <3>1, <3>3, AddMembers DEF BothInv, PortInv, TypeOK
    <3>5. active \in {0, m.generation}
      <4>1. m.generation \in 1..nextGeneration /\ requestOf[m.generation] = requestId
        BY <1>1, <2>1, <3>2 DEF ToPageOk, Reports
      <4>2. requestId = requestSequence
        BY DEF BothInv, LinkInv, RequestOk
      <4> QED
        BY <4>1, <4>2, LastRequest DEF BothInv
    <3>6. serverAcks' # {} => Leaving(active)'
      BY <3>d, <3>2, <3>4, <3>5, HostWaits DEF Leaving
    <3> QED
      BY <2>2, <3>6 DEF CarryInv, PageCarryOk, HostCarryOk, HostCarries
  <2> QED
    BY <2>3, <2>4
<1> QED
  BY <1>2, <1>3

LEMMA ReceiveConnectErrorCarries ==
  ASSUME BothInv, CarryInv, ReceiveConnectError
  PROVE  CarryInv'
<1>m. PICK m : m = Head(toPage)
  OBVIOUS
<1>1. /\ PageTakes("connectError") /\ m.type = "connectError"
      /\ UNCHANGED <<toHost, clientAcks, answerable>>
      /\ generation' = IF Awaited(m) THEN 0 ELSE generation
  BY <1>m DEF ReceiveConnectError, PageTakes
<1>2. HostCarryOk'
  BY <1>1, NoEventCarries
<1>3. Awaited(m) => clientAcks = {}
  BY PageWaits DEF Awaited
<1>4. ~Awaited(m) => PageCarryOk'
  BY <1>m, <1>1, PassingCarries
<1> QED
  BY <1>1, <1>2, <1>3, <1>4 DEF CarryInv, PageCarryOk

LEMMA ReceiveUnreadableCarries ==
  ASSUME BothInv, CarryInv, ReceiveUnreadable
  PROVE  CarryInv'
<1>m. PICK m : m = Head(toPage)
  OBVIOUS
<1>1. /\ PageTakes("unreadable") /\ m.type = "unreadable"
      /\ UNCHANGED <<toHost, generation, clientAcks, answerable>>
  BY <1>m DEF ReceiveUnreadable, PageTakes, linkVars
<1> QED
  BY <1>m, <1>1, NoEventCarries, PassingCarries DEF CarryInv

LEMMA ReceiveAcknowledgementCarries ==
  ASSUME BothInv, CarryInv, ReceiveAcknowledgement
  PROVE  CarryInv'
<1>m. PICK m : m = Head(toPage)
  OBVIOUS
<1>1. /\ PageTakes("ack") /\ m.type = "ack"
      /\ UNCHANGED <<toHost, generation, answerable>>
      /\ clientAcks' = IF m.generation = generation /\ connected /\ ~disconnecting
                       THEN clientAcks \ {m.id} ELSE clientAcks
  BY <1>m DEF ReceiveAcknowledgement, PageTakes
<1>2. HostCarryOk'
  BY <1>1, NoEventCarries
<1>3. clientAcks # {} => connected /\ ~disconnecting
  BY PageWaits
<1>4. clientAcks' \subseteq clientAcks /\ (m.generation = generation => m.id \notin clientAcks')
  BY <1>1, <1>3
<1>5. PageCarryOk'
  BY <1>m, <1>1, <1>4, PassingCarries
<1> QED
  BY <1>2, <1>5 DEF CarryInv

LEMMA ReceiveDisconnectedCarries ==
  ASSUME BothInv, BothInv', CarryInv, ReceiveDisconnected
  PROVE  CarryInv'
<1>m. PICK m : m = Head(toPage)
  OBVIOUS
<1>1. PageTakes("disconnected") /\ m.type = "disconnected" /\ UNCHANGED toHost
  BY <1>m DEF ReceiveDisconnected, PageTakes
<1>2. CASE m.generation = generation /\ m.request = requestId
  <2>1. ~connecting' /\ ~connected' /\ ~disconnecting' /\ clientAcks' = {}
    BY <1>m, <1>2 DEF ReceiveDisconnected, ReleaseGeneration, ReleaseAcknowledgements
  <2>2. active' = 0
    BY <2>1 DEF BothInv, LinkInv, StageOk
  <2>3. serverAcks' = {}
    BY <2>2 DEF BothInv, PortInv, HostOk
  <2> QED
    BY <2>1, <2>3 DEF CarryInv, PageCarryOk, HostCarryOk
<1>3. CASE ~(m.generation = generation /\ m.request = requestId)
  <2>1. UNCHANGED <<generation, clientAcks, answerable>>
    BY <1>m, <1>3 DEF ReceiveDisconnected, linkVars
  <2>2. HostCarryOk'
    BY <1>1, <2>1, NoEventCarries
  <2>3. CASE clientAcks = {}
    BY <2>1, <2>2, <2>3 DEF CarryInv, PageCarryOk
  <2>4. CASE clientAcks # {}
    <3>1. requestOf[generation] = requestId
      BY <2>4, PageWaits DEF BothInv, PortInv, PageOk
    <3>2. requestOf[m.generation] = m.request
      BY <1>m, <1>1, PageTook DEF ToPageOk, Reports, BothInv
    <3>3. m.generation # generation
      BY <1>3, <3>1, <3>2
    <3>4. PageCarryOk'
      BY <1>m, <1>1, <2>1, <3>3, PassingCarries
    <3> QED
      BY <2>2, <3>4 DEF CarryInv
  <2> QED
    BY <2>3, <2>4
<1> QED
  BY <1>2, <1>3

\* An event of the active generation is not lost on the page: the page is connected to it, has
\* left it, or is asking for another.
LEMMA EventFinds ==
  ASSUME BothInv, NEW type, type = "event", PageTakes(type), NEW m, m = Head(toPage),
         serverAcks # {}, m.generation = active
  PROVE  \/ m.generation = generation /\ connected /\ ~disconnecting
         \/ Connecting \/ Leaving(active)
<1>1. active # 0 /\ sockets[active] = "connected" /\ ~hostClosed /\ active \in 1..nextGeneration
  BY HostWaits, HostGeneration DEF BothInv
<1>2. CASE connected
  BY <1>1, <1>2, SameConnection DEF BothInv, PortInv, PageOk
<1>3. CASE disconnecting
  <2>1. generation \in 1..nextGeneration /\ requestOf[generation] = requestId
    BY <1>3, PageGeneration DEF BothInv
  <2>2. active = generation
    <3>1. requestId = requestSequence
      BY DEF BothInv, LinkInv, RequestOk
    <3>2. active \in {0, generation}
      BY <2>1, <3>1, LastRequest DEF BothInv
    <3> QED
      BY <1>1, <3>2
  <2>3. ~Told(generation)
    <3>1. ASSUME NEW x \in Members(toPage), x.type = "disconnected", x.generation = active
          PROVE  FALSE
      <4>1. active = 0 \/ x.generation < active
        BY <3>1 DEF BothInv, PortInv, ToPageInv, ToPageOk, Ends
      <4>2. active \in Nat
        BY Bounds DEF BothInv, PortInv, TypeOK
      <4> QED
        BY <1>1, <3>1, <4>1, <4>2
    <3> QED
      BY <2>2, <3>1 DEF Told
  <2> QED
    BY <1>3, <2>2, <2>3 DEF BothInv, LinkInv, StageOk
<1>4. CASE connecting
  <2>1. ~Waiting
    BY <1>1 DEF Waiting
  <2>2. ~Answered
    <3>1. ASSUME NEW x \in Members(toPage), x.type \in {"connected", "connectError"},
                 x.request = requestId
          PROVE  FALSE
      <4>1. /\ x.generation \in 1..nextGeneration /\ requestOf[x.generation] = requestId
            /\ x.type = "connectError" => x.generation < active
        BY <1>1, <3>1 DEF BothInv, PortInv, ToPageInv, ToPageOk, Reports, Ends
      <4>2. x.generation = active
        <5>1. requestId = requestSequence
          BY DEF BothInv, LinkInv, RequestOk
        <5>2. active \in {0, x.generation}
          BY <4>1, <5>1, LastRequest DEF BothInv
        <5> QED
          BY <1>1, <5>2
      <4>3. active \in Nat
        BY Bounds DEF BothInv, PortInv, TypeOK
      <4>4. x.type = "connected" /\ x # m
        BY <3>1, <4>1, <4>2, <4>3 DEF PageTakes
      <4>5. x \in Members(Tail(toPage))
        BY <4>4, <3>1, PageHead DEF PageTakes, BothInv
      <4>6. <<m, x>> \in Announced
        <5>1. toPage \in Seq(HostMessages) /\ Pairwise(toPage, Announced) /\ toPage # <<>>
          BY DEF BothInv, PortInv, TypeOK, LinkInv, AnnouncedOk, PageTakes
        <5> QED
          BY <4>5, <5>1, TakePairwise
      <4> QED
        BY <4>2, <4>3, <4>4, <4>6 DEF Announced
    <3> QED
      BY <3>1 DEF Answered
  <2>3. Asking
    BY <1>1, <1>4, <2>1, <2>2 DEF BothInv, LinkInv, StageOk
  <2> QED
    BY <2>3 DEF Asking, Connecting
<1> QED
  BY <1>1, <1>2, <1>3, <1>4 DEF BothInv, LinkInv, StageOk

LEMMA ReceiveEventCarries ==
  ASSUME BothInv, CarryInv, ReceiveEvent
  PROVE  CarryInv'
<1>m. PICK m : m = Head(toPage)
  OBVIOUS
<1>t. PICK type : type = "event"
  OBVIOUS
<1>1. /\ PageTakes(type) /\ m.type = "event" /\ UNCHANGED <<toHost, generation, clientAcks>>
      /\ answerable' = IF m.ack /\ m.generation = generation /\ connected /\ ~disconnecting
                       THEN answerable \cup {m.id} ELSE answerable
  BY <1>m, <1>t DEF ReceiveEvent, PageTakes
<1>2. PageCarryOk'
  BY <1>m, <1>1, PassingCarries
<1>3. Members(toPage) = {m} \cup Members(toPage') /\ UNCHANGED <<active, serverAcks>>
  BY <1>m, <1>1, PageTook DEF BothInv, hostVars
<1>4. ASSUME NEW n \in serverAcks
      PROVE  HostCarries(n)'
  <2>1. HostCarries(n)
    BY <1>4 DEF CarryInv, HostCarryOk
  <2>2. /\ AnswerOut(n) => AnswerOut(n)'
        /\ Connecting => Connecting'
        /\ Leaving(active) => Leaving(active)'
        /\ n \in answerable => n \in answerable'
    BY <1>1, <1>3 DEF AnswerOut, Connecting, Leaving
  <2>3. EventIn(n) => EventIn(n)' \/ (m.id = n /\ m.ack /\ m.generation = active)
    BY <1>3 DEF EventIn
  <2>4. CASE m.id = n /\ m.ack /\ m.generation = active
    <3>1. \/ m.generation = generation /\ connected /\ ~disconnecting
          \/ Connecting \/ Leaving(active)
      BY <1>m, <1>t, <1>1, <1>4, <2>4, EventFinds
    <3> QED
      BY <1>1, <2>2, <2>4, <3>1 DEF HostCarries
  <2> QED
    BY <2>1, <2>2, <2>3, <2>4 DEF HostCarries
<1> QED
  BY <1>2, <1>3, <1>4 DEF CarryInv, HostCarryOk


\* The active connection of the host is over, or replaced by one that waits.
LEMMA HostConnectCarries ==
  ASSUME BothInv, BothInv', CarryInv, HostConnect
  PROVE  CarryInv'
<1>1. CASE active' = 0
  BY <1>1, CarryEnds DEF HostConnect
<1>2. CASE active' # 0
  <2>n. PICK n : n = nextGeneration + 1
    OBVIOUS
  <2>m. PICK m : m = Head(toHost)
    OBVIOUS
  <2>1. /\ active' = n /\ sockets' = [Replaced EXCEPT ![n] = "pending"] /\ serverAcks' = {}
    BY <1>2, <2>n DEF HostConnect, NextGeneration
  <2>2. n \in Generations
    BY <1>2, <2>1, Bounds DEF BothInv, PortInv, TypeOK
  <2>3. sockets'[n] = "pending"
    BY <2>1, <2>2, HostGeneration DEF Replaced, BothInv, PortInv, TypeOK
  <2> QED
    BY <2>1, <2>3, CarryEnds
<1> QED
  BY <1>1, <1>2

\* The host takes a message that is no acknowledgement of its connection, nor the end of it;
\* a page that waits for the answer to an emit it carries is answered, or told of the end.
LEMMA HostPassingCarries ==
  ASSUME BothInv, CarryInv, toHost # <<>>, toHost' = Tail(toHost), NEW m, m = Head(toHost),
         UNCHANGED <<pageVars, toPage, active>>, serverAcks' \subseteq serverAcks,
         references \subseteq references',
         m.type = "connect" => serverAcks' = {},
         m.type = "disconnect" => serverAcks' = {} \/ m.generation # active,
         m.type = "ack" /\ m.generation = active => m.id \notin serverAcks',
         m.type = "event" /\ m.ack /\ IsActive(m) => m.id \in references'
  PROVE  CarryInv'
<1>1. Members(toHost) = {m} \cup Members(toHost')
  BY HostHead DEF BothInv
<1>2. UNCHANGED <<generation, clientAcks, answerable>>
  BY DEF pageVars, linkVars
<1>3. ASSUME NEW e \in clientAcks'
      PROVE  PageCarries(e)'
  <2>1. PageCarries(e) /\ e \in clientAcks
    BY <1>2, <1>3 DEF CarryInv, PageCarryOk
  <2>2. (AnswerIn(e) => AnswerIn(e)') /\ (Told(generation) => Told(generation)')
    BY <1>2 DEF AnswerIn, Told
  <2>3. EventOut(e) => \/ EventOut(e)'
                       \/ m.type = "event" /\ m.id = e /\ m.ack /\ m.generation = generation
    BY <1>1, <1>2 DEF EventOut
  <2>4. CASE m.type = "event" /\ m.id = e /\ m.ack /\ m.generation = generation
    <3>1. Told(generation) \/ IsActive(m)
      BY <2>1, <2>4, PageWaits DEF IsActive
    <3> QED
      BY <2>2, <2>4, <3>1 DEF PageCarries
  <2> QED
    BY <2>1, <2>2, <2>3, <2>4 DEF PageCarries
<1>4. ASSUME NEW n \in serverAcks'
      PROVE  HostCarries(n)'
  <2>1. HostCarries(n)
    BY <1>4 DEF CarryInv, HostCarryOk
  <2>2. EventIn(n) => EventIn(n)'
    BY DEF EventIn
  <2>3. Connecting => Connecting'
    BY <1>1, <1>4 DEF Connecting
  <2>4. Leaving(active) => Leaving(active)'
    BY <1>1, <1>4 DEF Leaving
  <2>5. AnswerOut(n) => AnswerOut(n)'
    BY <1>1, <1>4 DEF AnswerOut
  <2> QED
    BY <1>2, <2>1, <2>2, <2>3, <2>4, <2>5 DEF HostCarries
<1> QED
  BY <1>3, <1>4 DEF CarryInv, PageCarryOk, HostCarryOk

LEMMA HostEventCarries ==
  ASSUME BothInv, CarryInv, HostEvent
  PROVE  CarryInv'
<1>m. PICK m : m = Head(toHost)
  OBVIOUS
<1>1. /\ toHost # <<>> /\ toHost' = Tail(toHost) /\ m.type = "event"
      /\ UNCHANGED <<pageVars, toPage, active, serverAcks>>
      /\ references' = IF IsActive(m) /\ m.ack THEN references \cup {m.id} ELSE references
  BY <1>m DEF HostEvent, HostTakes
<1> QED
  BY <1>m, <1>1, HostPassingCarries

LEMMA HostAcknowledgementCarries ==
  ASSUME BothInv, CarryInv, HostAcknowledgement
  PROVE  CarryInv'
<1>m. PICK m : m = Head(toHost)
  OBVIOUS
<1>1. /\ toHost # <<>> /\ toHost' = Tail(toHost) /\ m.type = "ack"
      /\ UNCHANGED <<pageVars, toPage, active, references>>
      /\ serverAcks' = IF IsActive(m) THEN serverAcks \ {m.id} ELSE serverAcks
  BY <1>m DEF HostAcknowledgement, HostTakes
<1>2. m.generation = active => m.id \notin serverAcks'
  BY <1>1, HostWaits DEF IsActive
<1> QED
  BY <1>m, <1>1, <1>2, HostPassingCarries

LEMMA HostDisconnectCarries ==
  ASSUME BothInv, BothInv', CarryInv, HostDisconnect
  PROVE  CarryInv'
<1>m. PICK m : m = Head(toHost)
  OBVIOUS
<1>1. CASE IsActive(m) /\ m.request = requestOf[active]
  <2>1. active' = 0 /\ serverAcks' = {}
    BY <1>m, <1>1 DEF HostDisconnect, Finish
  <2> QED
    BY <2>1, CarryEnds
<1>2. CASE ~(IsActive(m) /\ m.request = requestOf[active])
  <2>1. /\ toHost # <<>> /\ toHost' = Tail(toHost) /\ m.type = "disconnect"
        /\ UNCHANGED <<pageVars, active, sockets, serverAcks, references, toPage>>
    BY <1>m, <1>2 DEF HostDisconnect, HostTakes
  <2>2. requestOf[m.generation] = m.request
    BY <1>m, <2>1, HostHead DEF BothInv, ToHostOk
  <2>3. serverAcks = {} \/ m.generation # active
    BY <1>2, <2>2, HostWaits DEF IsActive
  <2> QED
    BY <1>m, <2>1, <2>3, HostPassingCarries
<1> QED
  BY <1>1, <1>2

LEMMA HostIgnoresCarries ==
  ASSUME BothInv, BothInv', CarryInv, HostIgnores
  PROVE  CarryInv'
<1>1. active' = 0 /\ serverAcks' = {}
  BY HostWaits DEF HostIgnores, hostVars, BothInv, LinkInv, RequestOk
<1> QED
  BY <1>1, CarryEnds

LEMMA HostCloseCarries ==
  ASSUME BothInv, BothInv', CarryInv, HostClose
  PROVE  CarryInv'
<1>1. active' = 0 /\ serverAcks' = {}
  BY HostWaits DEF HostClose, Finish
<1> QED
  BY <1>1, CarryEnds

LEMMA ServerRefusesCarries ==
  ASSUME BothInv', CarryInv, NEW g \in Generations, ServerRefuses(g)
  PROVE  CarryInv'
BY CarryEnds DEF ServerRefuses, Finish

LEMMA ServerDisconnectsCarries ==
  ASSUME BothInv, BothInv', CarryInv, NEW g \in Generations, ServerDisconnects(g)
  PROVE  CarryInv'
<1>1. g = active
  BY DEF ServerDisconnects, BothInv, LinkInv, SocketsOk
<1> QED
  BY <1>1, CarryEnds DEF ServerDisconnects, Finish

\* The worker sends a message of its connection.
LEMMA SendingCarries ==
  ASSUME BothInv, CarryInv, NEW m \in HostMessages, toPage' = toPage \o <<m>>,
         UNCHANGED <<pageVars, toHost, active>>
  PROVE  /\ Members(toPage') = Members(toPage) \cup {m}
         /\ UNCHANGED <<generation, clientAcks, answerable>>
         /\ \A e : PageCarries(e) /\ e \notin references \ references' => PageCarries(e)'
         /\ \A n : HostCarries(n) => HostCarries(n)'
<1>1. Members(toPage') = Members(toPage) \cup {m}
  BY AddMembers DEF BothInv, PortInv, TypeOK
<1>2. UNCHANGED <<generation, clientAcks, answerable>>
  BY DEF pageVars, linkVars
<1> QED
  BY <1>1, <1>2, CarryGrows

LEMMA ServerAcceptsCarries ==
  ASSUME BothInv, CarryInv, NEW g \in Generations, ServerAccepts(g)
  PROVE  CarryInv'
<1>m. PICK m : m = [type |-> "connected", generation |-> g, request |-> requestOf[g]]
  OBVIOUS
<1>1. /\ g = active /\ active # 0 /\ toPage' = toPage \o <<m>>
      /\ UNCHANGED <<pageVars, toHost, active, serverAcks, references>>
  BY <1>m, Bounds DEF ServerAccepts, Reply
<1>2. m \in HostMessages
  BY <1>m, <1>1, HostGeneration, HostMessageTypes DEF BothInv
<1> QED
  BY <1>1, <1>2, SendingCarries DEF CarryInv, PageCarryOk, HostCarryOk

LEMMA ServerEmitsCarries ==
  ASSUME Faults = {}, BothInv, CarryInv, NEW g \in Generations, NEW ack \in BOOLEAN,
         ServerEmits(g, ack)
  PROVE  CarryInv'
<1>n. PICK n : n = sent + 1
  OBVIOUS
<1>m. PICK m : m = [type |-> "event", generation |-> g, id |-> n, ack |-> ack]
  OBVIOUS
<1>1. /\ g = active /\ active # 0 /\ sent < MaxEvents /\ toPage' = toPage \o <<m>>
      /\ UNCHANGED <<pageVars, toHost, active, references>>
      /\ serverAcks' = IF ack THEN serverAcks \cup {n} ELSE serverAcks
  BY <1>n, <1>m, Bounds DEF ServerEmits, Reply
<1>2. m \in HostMessages
  <2>1. n \in Events
    BY <1>n, <1>1, Bounds DEF BothInv, PortInv, TypeOK
  <2> QED
    BY <1>m, <2>1, HostMessageTypes
<1>3. /\ m \in Members(toPage') /\ UNCHANGED <<clientAcks, answerable>>
      /\ \A e : PageCarries(e) => PageCarries(e)'
      /\ \A x : HostCarries(x) => HostCarries(x)'
  BY <1>1, <1>2, SendingCarries
<1>4. ack => EventIn(n)'
  BY <1>m, <1>1, <1>3 DEF EventIn
<1> QED
  BY <1>1, <1>3, <1>4 DEF CarryInv, PageCarryOk, HostCarryOk, HostCarries

LEMMA ServerAnswersCarries ==
  ASSUME Faults = {}, BothInv, CarryInv, NEW e \in Emits, ServerAnswers(e)
  PROVE  CarryInv'
<1>m. PICK m : m = [type |-> "ack", generation |-> active, id |-> e]
  OBVIOUS
<1>1. /\ e \in references /\ references' = references \ {e} /\ toPage' = toPage \o <<m>>
      /\ UNCHANGED <<pageVars, toHost, active, serverAcks>>
  BY <1>m DEF ServerAnswers, Reply
<1>2. active # 0
  BY <1>1 DEF BothInv, PortInv, HostOk
<1>3. m \in HostMessages
  BY <1>m, <1>2, HostGeneration, HostMessageTypes DEF BothInv
<1>4. /\ m \in Members(toPage') /\ UNCHANGED <<generation, clientAcks, answerable>>
      /\ \A x : PageCarries(x) /\ x # e => PageCarries(x)'
      /\ \A n : HostCarries(n) => HostCarries(n)'
  BY <1>1, <1>3, SendingCarries
<1>5. e \in clientAcks => AnswerIn(e)'
  BY <1>m, <1>2, <1>4, PageWaits DEF AnswerIn
<1> QED
  BY <1>1, <1>4, <1>5 DEF CarryInv, PageCarryOk, HostCarryOk, PageCarries

LEMMA CarryInit ==
  ASSUME Init
  PROVE  CarryInv
BY DEF Init, CarryInv, PageCarryOk, HostCarryOk

LEMMA CarryStep ==
  ASSUME Faults = {}, BothInv, BothInv', CarryInv, [Next]_vars
  PROVE  CarryInv'
<1>1. CASE Application
  BY <1>1, ConnectCarries, DisconnectCarries, EmitCarries, AnswerCarries, HostCloseCarries,
     ServerDisconnectsCarries, ServerEmitsCarries, ServerAnswersCarries DEF Application
<1>2. CASE Page
  <2>1. ~ConnectFailed
    <3>1. ASSUME ConnectFailed
          PROVE  FALSE
      <4>1. calls \in Seq(Calls) /\ calls # <<>> /\ Head(calls).op = "connect"
        BY <3>1 DEF ConnectFailed, BothInv, PortInv, TypeOK
      <4>2. Head(calls) \in Members(calls)
        BY <4>1, TakeMembers
      <4> QED
        BY <4>1, <4>2 DEF BothInv, LinkInv, RequestOk
    <3> QED
      BY <3>1
  <2> QED
    BY <1>2, <2>1, FlushCarries DEF Page
<1>3. CASE PageReceives
  BY <1>3, ReceiveConnectedCarries, ReceiveConnectErrorCarries, ReceiveEventCarries,
     ReceiveAcknowledgementCarries, ReceiveDisconnectedCarries, ReceiveUnreadableCarries
     DEF PageReceives
<1>4. CASE HostReceives
  BY <1>4, HostConnectCarries, HostEventCarries, HostAcknowledgementCarries,
     HostDisconnectCarries, HostIgnoresCarries DEF HostReceives
<1>5. CASE ServerSettles
  BY <1>5, ServerAcceptsCarries, ServerRefusesCarries DEF ServerSettles
<1>6. CASE UNCHANGED vars
  BY <1>6, QuietCarries DEF vars, pageVars, linkVars
<1> QED
  BY <1>1, <1>2, <1>3, <1>4, <1>5, <1>6 DEF Next

\* If nothing fails, an acknowledgement that either side waits for can still come, or the end
\* of the connection that gives it up is on its way: postEmission and forwardServerEvent
\* register a callback, and only its answer or releaseAcknowledgements and finish remove it.
THEOREM AcksArrive ==
  ASSUME Faults = {}
  PROVE  Spec => []AcksAreCarried
<1>1. Init => LinkInv /\ CarryInv
  BY LinkInit, CarryInit
<1>2. PortInv /\ PortInv' /\ LinkInv /\ CarryInv /\ [Next]_vars => LinkInv' /\ CarryInv'
  <2>1. ASSUME PortInv, PortInv', LinkInv, CarryInv, [Next]_vars
        PROVE  LinkInv' /\ CarryInv'
    <3>1. LinkInv'
      BY <2>1, LinkStep
    <3>2. BothInv /\ BothInv'
      BY <2>1, <3>1 DEF BothInv
    <3> QED
      BY <2>1, <3>1, <3>2, CarryStep
  <2> QED
    BY <2>1
<1>3. CarryInv => AcksAreCarried
  <2>1. ASSUME CarryInv
        PROVE  PageAckIsCarried
    BY <2>1 DEF CarryInv, PageCarryOk, PageCarries, EventOut, AnswerIn, Told, PageAckIsCarried
  <2>2. ASSUME CarryInv
        PROVE  HostAckIsCarried
    BY <2>2 DEF CarryInv, HostCarryOk, HostCarries, EventIn, AnswerOut, Connecting, Leaving,
       HostAckIsCarried
  <2> QED
    BY <2>1, <2>2 DEF AcksAreCarried
<1> QED
  BY <1>1, <1>2, <1>3, PortIsSound, PTL DEF Spec

-----------------------------------------------------------------------------
(* The order of the emits.                                                 *)

Rising == {p \in Emissions \X Emissions : p[1].id < p[2].id}
EventsRise == {p \in PageMessages \X PageMessages :
                 p[1].type = "event" /\ p[2].type = "event" => p[1].id < p[2].id}

\* Events are in the port in the order of their emits, and later than all that were received.
InPort ==
  /\ received <= emitted
  /\ \A m \in Members(toHost) : m.type = "event" => m.id \in (received + 1)..emitted
  /\ Pairwise(toHost, EventsRise)

\* What waits to be posted is later than all that was.
Later(e) ==
  /\ e.id \in (received + 1)..emitted
  /\ \A m \in Members(toHost) : m.type = "event" => m.id < e.id
AfterPosted(q) == Pairwise(q, Rising) /\ \A e \in Members(q) : Later(e)

\* At most one flush is under way, of the connection that the page has; while it is connected,
\* nothing else waits.
AtRest == \A f \in Members(calls) : f.op = "connect"
Flushes(f) ==
  /\ calls = <<f>> /\ f.op = "flush" /\ AfterPosted(f.rest)
  /\ connected /\ ~disconnecting /\ generation = f.generation
EmitInv ==
  /\ InPort /\ AfterPosted(outgoingBuffer)
  /\ connected => outgoingBuffer = <<>>
  /\ AtRest \/ \E f \in Calls : Flushes(f)

LEMMA EmitBounds ==
  ASSUME PortInv
  PROVE  received \in Nat /\ emitted \in Nat
BY Bounds DEF PortInv, TypeOK

\* The application runs, so no flush is under way.
LEMMA NoFlush ==
  ASSUME PortInv, EmitInv, InPage
  PROVE  AtRest
<1>1. ASSUME NEW f \in Calls, Flushes(f)
      PROVE  FALSE
  <2>1. calls # <<>> /\ Head(calls) = f
    BY <1>1 DEF Flushes
  <2> QED
    BY <1>1, <2>1 DEF Flushes, InPage
<1> QED
  BY <1>1 DEF EmitInv

\* The page posts nothing, or no event.
LEMMA OrderKept ==
  ASSUME PortInv, EmitInv, UNCHANGED <<received, emitted>>,
         toHost' = toHost \/ \E m \in PageMessages : m.type # "event" /\ toHost' = toHost \o <<m>>
  PROVE  InPort' /\ \A q : AfterPosted(q) => AfterPosted(q)'
<1>1. CASE toHost' = toHost
  BY <1>1 DEF EmitInv, InPort, AfterPosted, Later
<1>2. ASSUME NEW m \in PageMessages, m.type # "event", toHost' = toHost \o <<m>>
      PROVE  InPort' /\ \A q : AfterPosted(q) => AfterPosted(q)'
  <2>1. toHost \in Seq(PageMessages) /\ Members(toHost) \subseteq PageMessages
    BY MembersBelong DEF PortInv, TypeOK
  <2>2. Members(toHost') = Members(toHost) \cup {m}
    BY <1>2, <2>1, AddMembers
  <2>3. \A x \in Members(toHost) : <<x, m>> \in EventsRise
    BY <1>2, <2>1 DEF EventsRise
  <2>4. Pairwise(toHost', EventsRise)
    BY <1>2, <2>1, <2>3, AddPairwise DEF EmitInv, InPort
  <2> QED
    BY <1>2, <2>2, <2>4 DEF EmitInv, InPort, AfterPosted, Later
<1> QED
  BY <1>1, <1>2

\* The page posts an event that is later than all before it.
LEMMA OrderPosted ==
  ASSUME PortInv, EmitInv, connected, NEW e \in Emissions, PostEmission(e, generation),
         UNCHANGED received, emitted' \in {emitted, emitted + 1}, e.id \in (received + 1)..emitted',
         \A m \in Members(toHost) : m.type = "event" => m.id < e.id
  PROVE  InPort' /\ \A x : Later(x) /\ e.id < x.id => Later(x)'
<1>1. PICK m \in PageMessages :
           /\ m = [type |-> "event", generation |-> generation, id |-> e.id, ack |-> (e.kind = "ack")]
           /\ toHost' = toHost \o <<m>> /\ Members(toHost') = Members(toHost) \cup {m}
  BY EmissionAdds
<1>2. m.type = "event" /\ m.id = e.id
  BY <1>1
<1>3. toHost \in Seq(PageMessages) /\ Members(toHost) \subseteq PageMessages
  BY MembersBelong DEF PortInv, TypeOK
<1>4. \A x \in Members(toHost) : <<x, m>> \in EventsRise
  BY <1>2, <1>3 DEF EventsRise
<1>5. Pairwise(toHost', EventsRise)
  BY <1>1, <1>3, <1>4, AddPairwise DEF EmitInv, InPort
<1>6. /\ received <= emitted'
      /\ \A x \in Members(toHost') : x.type = "event" => x.id \in (received + 1)..emitted'
  BY <1>1, <1>2, EmitBounds DEF EmitInv, InPort
<1>7. \A x : Later(x) /\ e.id < x.id => Later(x)'
  BY <1>1, <1>2, EmitBounds DEF Later
<1> QED
  BY <1>5, <1>6, <1>7 DEF InPort

\* The page acts without a flush, and emits nothing.
LEMMA PageKeepsOrder ==
  ASSUME PortInv, EmitInv, UNCHANGED <<received, emitted, outgoingBuffer>>, AtRest',
         connected' => connected,
         toHost' = toHost \/ \E m \in PageMessages : m.type # "event" /\ toHost' = toHost \o <<m>>
  PROVE  EmitInv'
<1>1. InPort' /\ (AfterPosted(outgoingBuffer) => AfterPosted(outgoingBuffer)')
  BY OrderKept
<1> QED
  BY <1>1 DEF EmitInv

LEMMA ConnectOrder ==
  ASSUME PortInv, EmitInv, Connect
  PROVE  EmitInv'
<1>m. PICK m : m = [type |-> "connect", request |-> requestSequence + 1]
  OBVIOUS
<1>c. PICK c : c = [op |-> "connect", generation |-> 0, rest |-> <<>>]
  OBVIOUS
<1>1. /\ AtRest /\ ~connected' /\ UNCHANGED <<received, emitted, outgoingBuffer>>
      /\ \/ toHost' = toHost \o <<m>> /\ UNCHANGED calls
         \/ toHost' = toHost /\ calls' = <<c>> \o calls
  BY <1>m, <1>c, NoFlush DEF Connect, ReleaseGeneration, Post, hostVars
<1>2. m \in PageMessages /\ m.type = "connect"
  <2>1. requestSequence + 1 \in Requests
    BY Bounds DEF PortInv, TypeOK, Connect
  <2> QED
    BY <1>m, <2>1, PageMessageTypes
<1>3. AtRest'
  <2>1. <<>> \in Seq(Emissions) /\ 0 \in 0..MaxConnects
    BY Bounds
  <2>2. c \in Calls /\ c.op = "connect"
    BY <1>c, <2>1, CallTypes
  <2>3. calls \in Seq(Calls)
    BY DEF PortInv, TypeOK
  <2>4. Members(<<c>> \o calls) = {c} \cup Members(calls)
    BY <2>2, <2>3, PushMembers
  <2> QED
    BY <1>1, <2>2, <2>4 DEF AtRest
<1> QED
  BY <1>1, <1>2, <1>3, PageKeepsOrder

LEMMA ConnectFailedOrder ==
  ASSUME PortInv, EmitInv, ConnectFailed
  PROVE  EmitInv'
<1>1. /\ InPage /\ calls # <<>> /\ calls' = Tail(calls)
      /\ UNCHANGED <<received, emitted, outgoingBuffer, toHost, connected>>
  BY DEF ConnectFailed, InPage, linkVars, hostVars
<1>2. AtRest'
  BY <1>1, NoFlush, CallsPopped DEF AtRest
<1> QED
  BY <1>1, <1>2, PageKeepsOrder

LEMMA DisconnectOrder ==
  ASSUME PortInv, EmitInv, Disconnect
  PROVE  EmitInv'
<1>d. PICK d : d = [type |-> "disconnect", generation |-> generation, request |-> requestId]
  OBVIOUS
<1>1. /\ InPage /\ UNCHANGED <<received, emitted, outgoingBuffer, calls>>
      /\ \/ connected /\ ~connected' /\ toHost' = toHost \o <<d>>
         \/ (connected' => connected) /\ toHost' = toHost
  BY <1>d DEF Disconnect, Leave, Post, linkVars, hostVars
<1>2. AtRest'
  BY <1>1, NoFlush DEF AtRest
<1>3. connected => d \in PageMessages /\ d.type = "disconnect"
  BY <1>d, PageGeneration, PageMessageTypes
<1> QED
  BY <1>1, <1>2, <1>3, PageKeepsOrder

LEMMA AnswerOrder ==
  ASSUME PortInv, EmitInv, NEW n \in Events, Answer(n)
  PROVE  EmitInv'
<1>m. PICK m : m = [type |-> "ack", generation |-> generation, id |-> n]
  OBVIOUS
<1>1. /\ InPage /\ UNCHANGED <<received, emitted, outgoingBuffer, calls, connected>>
      /\ toHost' = toHost \/ (connected /\ toHost' = toHost \o <<m>>)
  BY <1>m DEF Answer, Post, hostVars
<1>2. AtRest'
  BY <1>1, NoFlush DEF AtRest
<1>3. connected => m \in PageMessages /\ m.type = "ack"
  BY <1>m, PageGeneration, PageMessageTypes
<1> QED
  BY <1>1, <1>2, <1>3, PageKeepsOrder

LEMMA EmitOrder ==
  ASSUME "values" \notin Faults, PortInv, EmitInv, NEW kind, Emit(kind)
  PROVE  EmitInv'
<1>e. PICK e : e = [id |-> emitted + 1, kind |-> kind]
  OBVIOUS
<1>1. /\ InPage /\ emitted < MaxEmits /\ emitted' = emitted + 1 /\ kind \in Kinds
      /\ UNCHANGED <<received, connected, calls>>
      /\ \/ (~connected \/ disconnecting) /\ Buffer(e) /\ UNCHANGED toHost
         \/ connected /\ PostEmission(e, generation) /\ UNCHANGED outgoingBuffer
  BY <1>e DEF Emit, Kinds, hostVars
<1>2. e \in Emissions /\ e.id = emitted + 1
  <2>1. emitted + 1 \in Emits
    BY <1>1, Bounds DEF PortInv, TypeOK
  <2> QED
    BY <1>e, <1>1, <2>1, EmissionTypes
<1>3. AtRest'
  BY <1>1, NoFlush DEF AtRest
<1>4. received \in Nat /\ emitted \in Nat
  BY EmitBounds
<1>5. \A m \in Members(toHost) : m.type = "event" => m.id < e.id
  BY <1>2, <1>4 DEF EmitInv, InPort
<1>6. CASE (~connected \/ disconnecting) /\ Buffer(e) /\ UNCHANGED toHost
  <2>1. ~connected'
    BY <1>1, <1>6 DEF PortInv, PageOk
  <2>2. InPort'
    BY <1>1, <1>4, <1>6 DEF EmitInv, InPort
  <2>3. /\ outgoingBuffer \in Seq(Emissions) /\ outgoingBuffer' = outgoingBuffer \o <<e>>
        /\ Members(outgoingBuffer') = Members(outgoingBuffer) \cup {e}
        /\ Members(outgoingBuffer) \subseteq Emissions
    BY <1>2, <1>6, AddMembers, MembersBelong DEF Buffer, PortInv, TypeOK
  <2>4. \A x \in Members(outgoingBuffer) : Later(x)' /\ <<x, e>> \in Rising
    BY <1>1, <1>2, <1>4, <1>6, <2>3 DEF EmitInv, AfterPosted, Later, Rising
  <2>5. Pairwise(outgoingBuffer', Rising)
    BY <1>2, <2>3, <2>4, AddPairwise DEF EmitInv, AfterPosted
  <2>6. Later(e)'
    <3>1. e.id \in (received + 1)..(emitted + 1)
      BY <1>2, <1>4 DEF EmitInv, InPort
    <3> QED
      BY <1>1, <1>2, <1>4, <1>5, <1>6, <3>1 DEF Later
  <2> QED
    BY <1>3, <2>1, <2>2, <2>3, <2>4, <2>5, <2>6 DEF EmitInv, AfterPosted
<1>7. CASE connected /\ PostEmission(e, generation) /\ UNCHANGED outgoingBuffer
  <2>1. InPort'
    <3>1. e.id \in (received + 1)..emitted'
      BY <1>1, <1>2, <1>4 DEF EmitInv, InPort
    <3> QED
      BY <1>1, <1>2, <1>5, <1>7, <3>1, OrderPosted
  <2>2. outgoingBuffer' = <<>>
    BY <1>7 DEF EmitInv
  <2>3. AfterPosted(outgoingBuffer)'
    BY <2>2 DEF AfterPosted, Pairwise, Members
  <2> QED
    BY <1>3, <2>1, <2>2, <2>3 DEF EmitInv
<1> QED
  BY <1>1, <1>6, <1>7

\* A flush posts the first emission that it has left.
LEMMA FlushOrder ==
  ASSUME "values" \notin Faults, PortInv, EmitInv, Flush
  PROVE  EmitInv'
<1>f. PICK f : f = Head(calls)
  OBVIOUS
<1>1. /\ calls # <<>> /\ f \in Calls /\ f.op \in {"flush", "flushError"}
      /\ f.rest \in Seq(Emissions) /\ f \in Members(calls)
      /\ UNCHANGED <<received, emitted, connected, disconnecting, generation>>
  BY <1>f, FlushRounds, CallsPopped, CallTypes DEF Flush, hostVars
<1>2. calls = <<f>> /\ Tail(calls) = <<>> /\ Flushes(f)
  <2>1. PICK g \in Calls : Flushes(g)
    BY <1>1 DEF EmitInv, AtRest
  <2>2. calls = <<g>>
    BY <2>1 DEF Flushes
  <2>3. Head(calls) = g /\ Tail(calls) = <<>>
    BY <2>2
  <2> QED
    BY <1>f, <2>1, <2>2, <2>3
<1>3. connected /\ ~disconnecting /\ generation = f.generation /\ AfterPosted(f.rest)
      /\ outgoingBuffer = <<>>
  BY <1>2 DEF Flushes, EmitInv
<1>4. CASE calls' = Tail(calls) /\ UNCHANGED <<outgoingBuffer, toHost>>
  <2>1. AtRest'
    BY <1>2, <1>4 DEF AtRest, Members
  <2> QED
    BY <1>1, <1>4, <2>1, PageKeepsOrder
<1>5. ASSUME f.rest # <<>>, NEW r \in Calls, calls' = <<r>> \o Tail(calls),
             r.generation = f.generation, r.rest = Tail(f.rest), r.op = "flush",
             PostEmission(Head(f.rest), generation), UNCHANGED outgoingBuffer
      PROVE  EmitInv'
  <2>e. PICK e : e = Head(f.rest)
    OBVIOUS
  <2>1. /\ e \in Emissions /\ Members(f.rest) = {e} \cup Members(Tail(f.rest))
        /\ Tail(f.rest) \in Seq(Emissions)
    BY <2>e, <1>1, <1>5, TakeMembers
  <2>2. /\ Pairwise(Tail(f.rest), Rising)
        /\ \A x \in Members(Tail(f.rest)) : <<e, x>> \in Rising
    BY <2>e, <1>1, <1>3, <1>5, TakePairwise DEF AfterPosted
  <2>3. Later(e) /\ \A x \in Members(Tail(f.rest)) : Later(x) /\ e.id < x.id
    BY <1>3, <2>1, <2>2 DEF AfterPosted, Rising
  <2>4. InPort' /\ \A x : Later(x) /\ e.id < x.id => Later(x)'
    <3>1. PostEmission(e, generation)
      BY <2>e, <1>5
    <3>2. e.id \in (received + 1)..emitted' /\ \A m \in Members(toHost) : m.type = "event" => m.id < e.id
      BY <1>1, <2>3 DEF Later
    <3> QED
      BY <1>1, <1>3, <2>1, <3>1, <3>2, OrderPosted
  <2>5. AfterPosted(r.rest)'
    <3>p. PICK q : q = Tail(f.rest)
      OBVIOUS
    <3>1. Pairwise(q, Rising) /\ \A x \in Members(q) : Later(x)'
      BY <3>p, <2>2, <2>3, <2>4
    <3>2. r.rest = q
      BY <3>p, <1>5
    <3> QED
      BY <3>1, <3>2 DEF AfterPosted
  <2>6. Flushes(r)'
    <3>1. calls' = <<r>>
      BY <1>2, <1>5
    <3> QED
      BY <1>1, <1>3, <1>5, <2>5, <3>1 DEF Flushes
  <2>7. AfterPosted(outgoingBuffer)' /\ outgoingBuffer' = <<>>
    BY <1>3, <1>5 DEF AfterPosted, Pairwise, Members
  <2> QED
    BY <2>4, <2>6, <2>7 DEF EmitInv
<1>6. \A e \in Emissions : e.kind # "unclonable"
  BY EmissionTypes DEF Kinds
<1> QED
  BY <1>f, <1>1, <1>3, <1>4, <1>5, <1>6, FlushRounds

\* The page takes a message, and posts nothing but that it leaves; it flushes its buffer when
\* the connection has come.
LEMMA ReceiveConnectedOrder ==
  ASSUME PortInv, EmitInv, ReceiveConnected
  PROVE  EmitInv'
<1>m. PICK m : m = Head(toPage)
  OBVIOUS
<1>1. /\ calls = <<>> /\ toPage # <<>> /\ UNCHANGED <<received, emitted>> /\ m.type = "connected"
  BY <1>m DEF ReceiveConnected, PageTakes, hostVars
<1>2. AtRest
  BY <1>1 DEF AtRest, Members
<1>3. m \in HostMessages /\ ToPageOk(m)
  BY <1>m, <1>1, PageHead
<1>4. CASE ~Awaited(m)
  <2>1. UNCHANGED <<connected, outgoingBuffer, calls, toHost>>
    BY <1>m, <1>4 DEF ReceiveConnected, linkVars
  <2>2. AtRest'
    BY <1>2, <2>1 DEF AtRest
  <2> QED
    BY <1>1, <2>1, <2>2, PageKeepsOrder
<1>5. CASE Awaited(m) /\ disconnectAfterConnect
  <2>d. PICK d : d = [type |-> "disconnect", generation |-> m.generation, request |-> requestId]
    OBVIOUS
  <2>1. toHost' = toHost \o <<d>> /\ ~connected' /\ UNCHANGED <<outgoingBuffer, calls>>
    BY <1>m, <1>5, <2>d DEF ReceiveConnected, Leave, Post
  <2>2. d \in PageMessages /\ d.type = "disconnect"
    <3>1. m.generation \in Generations /\ m.request \in Requests /\ m.request = requestId
      BY <1>1, <1>3, <1>5, HostMessageFields DEF Awaited
    <3> QED
      BY <2>d, <3>1, PageMessageTypes
  <2>3. AtRest'
    BY <1>2, <2>1 DEF AtRest
  <2> QED
    BY <1>1, <2>1, <2>2, <2>3, PageKeepsOrder
<1>6. CASE Awaited(m) /\ ~disconnectAfterConnect
  <2>f. PICK f : f = [op |-> "flush", generation |-> m.generation, rest |-> outgoingBuffer]
    OBVIOUS
  <2>1. /\ calls' = <<f>> /\ outgoingBuffer' = <<>> /\ connected' /\ generation' = m.generation
        /\ UNCHANGED <<toHost, disconnecting>>
    BY <1>m, <1>6, <2>f DEF ReceiveConnected
  <2>2. f \in Calls /\ f.op = "flush" /\ f.generation = m.generation /\ f.rest = outgoingBuffer
    <3>1. m.generation \in 0..MaxConnects /\ outgoingBuffer \in Seq(Emissions)
      BY <1>3, HostMessageFields, Bounds DEF PortInv, TypeOK
    <3> QED
      BY <2>f, <3>1, CallTypes
  <2>3. ~disconnecting
    BY <1>6 DEF Awaited, PortInv, PageOk
  <2>4. InPort' /\ \A q : AfterPosted(q) => AfterPosted(q)'
    BY <1>1, <2>1, OrderKept
  <2>5. AfterPosted(f.rest)'
    <3>q. PICK q : q = outgoingBuffer
      OBVIOUS
    <3>1. AfterPosted(q) /\ f.rest = q
      BY <3>q, <2>2 DEF EmitInv
    <3>2. AfterPosted(q)'
      BY <2>4, <3>1
    <3> QED
      BY <3>1, <3>2
  <2>6. Flushes(f)'
    BY <2>1, <2>2, <2>3, <2>5 DEF Flushes
  <2>7. AfterPosted(outgoingBuffer)'
    BY <2>1 DEF AfterPosted, Pairwise, Members
  <2> QED
    BY <2>1, <2>2, <2>4, <2>6, <2>7 DEF EmitInv
<1> QED
  BY <1>4, <1>5, <1>6

LEMMA ReceivesOrder ==
  ASSUME PortInv, EmitInv,
         ReceiveConnectError \/ ReceiveEvent \/ ReceiveAcknowledgement \/ ReceiveDisconnected
           \/ ReceiveUnreadable
  PROVE  EmitInv'
<1>1. calls = <<>> /\ UNCHANGED <<received, emitted, outgoingBuffer, calls, toHost>>
  BY DEF ReceiveConnectError, ReceiveEvent, ReceiveAcknowledgement, ReceiveDisconnected,
         ReceiveUnreadable, PageTakes, hostVars
<1>2. AtRest'
  BY <1>1 DEF AtRest, Members
<1>3. connected' => connected
  BY DEF ReceiveConnectError, ReceiveEvent, ReceiveAcknowledgement, ReceiveDisconnected,
         ReceiveUnreadable, linkVars, ReleaseGeneration
<1> QED
  BY <1>1, <1>2, <1>3, PageKeepsOrder

\* Nothing of what this is about is touched.
LEMMA OthersKeepOrder ==
  ASSUME EmitInv, UNCHANGED <<pageVars, toHost, received>>
  PROVE  EmitInv'
<1>1. UNCHANGED <<generation, connected, disconnecting, outgoingBuffer, emitted, calls>>
  BY DEF pageVars, linkVars
<1>2. InPort' /\ AfterPosted(outgoingBuffer)' /\ (connected => outgoingBuffer = <<>>)'
  BY <1>1 DEF EmitInv, InPort, AfterPosted, Later
<1>3. \A f \in Calls : Flushes(f) => Flushes(f)'
  BY <1>1 DEF Flushes, AfterPosted, Later
<1>4. AtRest => AtRest'
  BY <1>1 DEF AtRest
<1> QED
  BY <1>2, <1>3, <1>4 DEF EmitInv

\* The host takes the first message; if that is an event, it may receive it.
LEMMA HostKeepsOrder ==
  ASSUME PortInv, EmitInv, toHost # <<>>, toHost' = Tail(toHost), UNCHANGED pageVars,
         NEW m, m = Head(toHost), received' = received \/ (m.type = "event" /\ received' = m.id)
  PROVE  EmitInv' /\ (received' # received => received' > received)
<1>1. UNCHANGED <<generation, connected, disconnecting, outgoingBuffer, emitted, calls>>
  BY DEF pageVars, linkVars
<1>2. /\ Members(toHost) = {m} \cup Members(toHost') /\ received \in Nat /\ emitted \in Nat
      /\ m \in PageMessages
  BY HostHead, EmitBounds
<1>3. /\ Pairwise(toHost', EventsRise)
      /\ \A x \in Members(toHost') : <<m, x>> \in EventsRise
  BY TakePairwise DEF PortInv, TypeOK, EmitInv, InPort
<1>4. received' # received => m.type = "event" /\ received' = m.id /\ m.id \in (received + 1)..emitted
  BY <1>2 DEF EmitInv, InPort
<1>5. InPort'
  <2>1. \A x \in Members(toHost') : x.type = "event" => x.id \in (received + 1)..emitted
    BY <1>2 DEF EmitInv, InPort
  <2>2. \A x \in Members(toHost') : m.type = "event" /\ x.type = "event" => m.id < x.id
    BY <1>3 DEF EventsRise
  <2>3. received' <= emitted
    BY <1>2, <1>4 DEF EmitInv, InPort
  <2>4. \A x \in Members(toHost') : x.type = "event" => x.id \in (received' + 1)..emitted
    BY <1>2, <1>4, <2>1, <2>2
  <2> QED
    BY <1>1, <1>3, <2>3, <2>4 DEF InPort
<1>6. \A e : Later(e) => Later(e)'
  <2>1. ASSUME NEW e, Later(e)
        PROVE  Later(e)'
    <3>1. m.type = "event" => m.id < e.id
      BY <1>2, <2>1 DEF Later
    <3>2. e.id \in (received + 1)..emitted /\ \A x \in Members(toHost') : x.type = "event" => x.id < e.id
      BY <1>2, <2>1 DEF Later
    <3>3. e.id \in (received' + 1)..emitted
      BY <1>2, <1>4, <3>1, <3>2
    <3> QED
      BY <1>1, <3>2, <3>3 DEF Later
  <2> QED
    BY <2>1
<1>7. \A q : AfterPosted(q) => AfterPosted(q)'
  BY <1>6 DEF AfterPosted
<1>8. EmitInv'
  <2>1. AfterPosted(outgoingBuffer)' /\ (connected => outgoingBuffer = <<>>)'
    BY <1>1, <1>7 DEF EmitInv
  <2>2. \A f \in Calls : Flushes(f) => Flushes(f)'
    BY <1>1, <1>7 DEF Flushes
  <2>3. AtRest => AtRest'
    BY <1>1 DEF AtRest
  <2> QED
    BY <1>5, <2>1, <2>2, <2>3 DEF EmitInv
<1> QED
  BY <1>2, <1>4, <1>8

LEMMA HostReceivesOrder ==
  ASSUME PortInv, EmitInv, HostReceives
  PROVE  EmitInv' /\ (received' # received => received' > received)
<1>m. PICK m : m = Head(toHost)
  OBVIOUS
<1>1. /\ toHost # <<>> /\ toHost' = Tail(toHost) /\ UNCHANGED pageVars
      /\ received' = received \/ (m.type = "event" /\ received' = m.id)
  BY <1>m DEF HostReceives, HostConnect, HostEvent, HostAcknowledgement, HostDisconnect,
              HostIgnores, HostTakes, hostVars
<1> QED
  BY <1>m, <1>1, HostKeepsOrder

LEMMA EmitInit ==
  ASSUME Init
  PROVE  EmitInv
<1>m. PICK m : m = [type |-> "connect", request |-> 1]
  OBVIOUS
<1>1. /\ toHost = <<m>> \/ toHost = <<>>
      /\ calls = <<>> /\ outgoingBuffer = <<>> /\ received = 0 /\ emitted = 0
  BY <1>m DEF Init
<1>2. \A x \in Members(toHost) : x.type # "event"
  BY <1>m, <1>1 DEF Members
<1>3. Pairwise(toHost, EventsRise)
  BY <1>1 DEF Pairwise
<1>4. InPort
  BY <1>1, <1>2, <1>3 DEF InPort
<1>5. AfterPosted(outgoingBuffer) /\ AtRest
  BY <1>1 DEF AfterPosted, AtRest, Pairwise, Members
<1> QED
  BY <1>1, <1>4, <1>5 DEF EmitInv

LEMMA EmitStepsInOrder ==
  ASSUME "values" \notin Faults, PortInv, EmitInv, [Next]_vars
  PROVE  EmitInv' /\ (received' # received => received' > received)
<1>1. CASE HostReceives
  BY <1>1, HostReceivesOrder
<1>2. CASE UNCHANGED <<pageVars, toHost, received>>
  BY <1>2, OthersKeepOrder
<1>3. CASE Connect \/ Disconnect
  <2>1. received' = received
    BY <1>3 DEF Connect, Disconnect, hostVars
  <2> QED
    BY <1>3, <2>1, ConnectOrder, DisconnectOrder
<1>4. CASE (\E kind \in Kinds : Emit(kind)) \/ (\E n \in Events : Answer(n))
  <2>1. received' = received
    BY <1>4 DEF Emit, Answer, hostVars
  <2> QED
    BY <1>4, <2>1, EmitOrder, AnswerOrder
<1>5. CASE Page
  <2>1. received' = received
    BY <1>5 DEF Page, ConnectFailed, Flush, hostVars
  <2> QED
    BY <1>5, <2>1, ConnectFailedOrder, FlushOrder DEF Page
<1>6. CASE PageReceives
  <2>1. received' = received
    BY <1>6 DEF PageReceives, ReceiveConnected, ReceiveConnectError, ReceiveEvent,
                ReceiveAcknowledgement, ReceiveDisconnected, ReceiveUnreadable, PageTakes, hostVars
  <2> QED
    BY <1>6, <2>1, ReceiveConnectedOrder, ReceivesOrder DEF PageReceives
<1>7. CASE Application \/ ServerSettles
  <2>1. CASE HostClose
    BY <2>1, <1>2 DEF HostClose
  <2>2. CASE \E g \in Generations : ServerDisconnects(g)
    BY <2>2, <1>2 DEF ServerDisconnects
  <2>3. CASE \E g \in Generations, ack \in BOOLEAN : ServerEmits(g, ack)
    BY <2>3, <1>2 DEF ServerEmits
  <2>4. CASE \E e \in Emits : ServerAnswers(e)
    BY <2>4, <1>2 DEF ServerAnswers
  <2>5. CASE \E g \in Generations : ServerAccepts(g) \/ ServerRefuses(g)
    BY <2>5, <1>2 DEF ServerAccepts, ServerRefuses
  <2> QED
    BY <1>3, <1>4, <1>7, <2>1, <2>2, <2>3, <2>4, <2>5 DEF Application, ServerSettles
<1> QED
  BY <1>1, <1>2, <1>5, <1>6, <1>7 DEF Next, vars, hostVars

\* The server receives the emits of the page in their order and at most once, over every
\* reconnection and however the connections end, if what is emitted can be cloned: emit and
\* flushOutgoing of shared-worker-client.ts post or buffer, and what is buffered goes first.
THEOREM EmitsStayInOrder ==
  ASSUME "values" \notin Faults
  PROVE  Spec => EmitsInOrder
<1>1. Init => EmitInv
  BY EmitInit
<1>2. PortInv /\ EmitInv /\ [Next]_vars => EmitInv'
  BY EmitStepsInOrder
<1>3. PortInv /\ EmitInv /\ [Next]_vars => [received' # received => received' > received]_vars
  BY EmitStepsInOrder
<1> QED
  BY <1>1, <1>2, <1>3, PortIsSound, PTL DEF Spec, EmitsInOrder

=============================================================================
