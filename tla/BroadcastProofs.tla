-------------------------- MODULE BroadcastProofs --------------------------
(***************************************************************************)
(* What Broadcast keeps for any Sockets, rooms, operators and bounds: the   *)
(* three room views agree, and a collection of acknowledgements succeeds    *)
(* with the answers of all its recipients and then stays as it is.          *)
(***************************************************************************)
EXTENDS Broadcast, FiniteSetTheorems, TLAPS

-----------------------------------------------------------------------------
(* The stack and the queue as sequences.                                   *)

LEMMA PushFacts ==
  ASSUME NEW S, NEW q \in Seq(S), NEW e \in S
  PROVE  LET p == <<e>> \o q
         IN /\ p \in Seq(S) /\ Len(p) = Len(q) + 1 /\ p # <<>>
            /\ Head(p) = e /\ p[1] = e
            /\ \A i \in 1..Len(q) : p[i + 1] = q[i]
            /\ \A i \in 2..Len(p) : i - 1 \in 1..Len(q) /\ p[i] = q[i - 1]
OBVIOUS

LEMMA TailFacts ==
  ASSUME NEW S, NEW q \in Seq(S), q # <<>>
  PROVE  /\ Head(q) = q[1] /\ q[1] \in S
         /\ Tail(q) \in Seq(S) /\ Len(Tail(q)) = Len(q) - 1
         /\ \A i \in 1..Len(Tail(q)) : i + 1 \in 1..Len(q) /\ Tail(q)[i] = q[i + 1]
OBVIOUS

LEMMA AppendFacts ==
  ASSUME NEW S, NEW q \in Seq(S), NEW e \in S
  PROVE  /\ Append(q, e) \in Seq(S) /\ Len(Append(q, e)) = Len(q) + 1
         /\ \A i \in 1..Len(q) : Append(q, e)[i] = q[i]
         /\ Append(q, e)[Len(q) + 1] = e
OBVIOUS

\* The set of what is in a sequence.
Elements(q) == {q[i] : i \in DOMAIN q}

LEMMA PushElements ==
  ASSUME NEW S, NEW q \in Seq(S), NEW e \in S
  PROVE  Elements(<<e>> \o q) = {e} \cup Elements(q)
<1> DEFINE p == <<e>> \o q
<1>1. /\ DOMAIN p = 1..(Len(q) + 1) /\ DOMAIN q = 1..Len(q) /\ Len(q) \in Nat /\ p[1] = e
      /\ \A i \in 1..Len(q) : p[i + 1] = q[i]
      /\ \A i \in DOMAIN p : i = 1 \/ (i - 1 \in 1..Len(q) /\ p[i] = q[i - 1])
  BY PushFacts
<1> HIDE DEF p
<1>2. \A i \in DOMAIN q : i + 1 \in DOMAIN p /\ 1 \in DOMAIN p
  BY <1>1
<1>3. 1 \in DOMAIN p
  BY <1>1
<1> QED
  BY <1>1, <1>2, <1>3 DEF Elements, p

LEMMA TailElements ==
  ASSUME NEW S, NEW q \in Seq(S), q # <<>>
  PROVE  Elements(q) = {Head(q)} \cup Elements(Tail(q))
<1>1. <<Head(q)>> \o Tail(q) = q /\ Tail(q) \in Seq(S) /\ Head(q) \in S
  OBVIOUS
<1> QED
  BY <1>1, PushElements

LEMMA AppendElements ==
  ASSUME NEW S, NEW q \in Seq(S), NEW e \in S
  PROVE  Elements(Append(q, e)) = Elements(q) \cup {e}
<1> DEFINE p == Append(q, e)
<1>1. /\ DOMAIN p = 1..(Len(q) + 1) /\ DOMAIN q = 1..Len(q) /\ Len(q) \in Nat
      /\ p[Len(q) + 1] = e /\ \A i \in DOMAIN q : p[i] = q[i]
  BY AppendFacts
<1>2. /\ \A i \in DOMAIN p : i = Len(q) + 1 \/ i \in DOMAIN q
      /\ Len(q) + 1 \in DOMAIN p /\ \A i \in DOMAIN q : i \in DOMAIN p
  BY <1>1
<1> HIDE DEF p
<1> QED
  BY <1>1, <1>2 DEF Elements, p

-----------------------------------------------------------------------------
(* Types.                                                                  *)

\* The Socket a frame or a task is about.
LEMMA FrameTypes ==
  ASSUME NEW f \in Frames
  PROVE  /\ f.op \in {"connection", "leaving", "disconnecting", "disconnect"} => f.of \in Sids
         /\ f.op = "cast" => f.of \in Casts /\ f.to \in Sids /\ f.rest \subseteq Sids
         /\ f.op = "bulk" => f.chosen \subseteq Sids /\ f.rest \subseteq Sids
         /\ f.op = "disconnecting" => [f EXCEPT !.op = "disconnect"] \in Frames
         /\ \A rest \in SUBSET Sids : f.op = "bulk" => [f EXCEPT !.rest = rest] \in Frames
BY DEF Frames

LEMMA TaskTypes ==
  ASSUME NEW t \in Tasks
  PROVE  /\ t.op \in {"teardown", "leave"} => t.of \in Sids
         /\ t.op \in {"deliver", "answer", "empty"} => t.of \in Casts
         /\ t.op = "deliver" => t.to \in Sids /\ t.kept \in BOOLEAN
         /\ t.op = "answer" => t.from \in Sids
BY DEF Tasks

LEMMA TopFrame ==
  ASSUME TypeOK, stack # <<>>
  PROVE  Frame \in Frames /\ Tail(stack) \in Seq(Frames)
BY TailFacts DEF TypeOK, Frame

LEMMA FirstTask ==
  ASSUME TypeOK, microtasks # <<>>
  PROVE  Task \in Tasks /\ Tail(microtasks) \in Seq(Tasks)
BY TailFacts DEF TypeOK, Task

LEMMA DeferTypes ==
  ASSUME TypeOK, NEW t \in Tasks, Defer(t)
  PROVE  microtasks' \in Seq(Tasks)
BY AppendFacts DEF TypeOK, Defer

LEMMA ObserveTypes ==
  ASSUME TypeOK, NEW c \in Casts, NEW rest \in SUBSET Sids, NEW below \in Seq(Frames),
         Observe(c, rest, below)
  PROVE  stack' \in Seq(Frames)
<1>1. ASSUME NEW s \in rest
      PROVE  [op |-> "cast", of |-> c, to |-> s, was |-> client[s] = "online",
              rest |-> rest \ {s}] \in Frames
  BY DEF Frames
<1>2. CASE rest = {} /\ stack' = below
  BY <1>2
<1>3. ASSUME NEW s \in rest,
             stack' = <<[op |-> "cast", of |-> c, to |-> s, was |-> client[s] = "online",
                         rest |-> rest \ {s}]>> \o below
      PROVE  stack' \in Seq(Frames)
  BY <1>1, <1>3, PushFacts
<1> QED
  BY <1>2, <1>3 DEF Observe

LEMMA TeardownTypes ==
  ASSUME TypeOK, NEW s \in Sids, NEW below \in Seq(Frames), Teardown(s, below)
  PROVE  stack' \in Seq(Frames) /\ torn' \subseteq Sids /\ acks' \subseteq Sids
<1>1. [op |-> "disconnecting", of |-> s, sync |-> TRUE] \in Frames
  BY DEF Frames
<1> QED
  BY <1>1, PushFacts DEF Teardown, TypeOK

\* What a broadcast says of its packet and its answers.
LEMMA CastTypes ==
  ASSUME TypeOK, NEW c \in DOMAIN casts
  PROVE  /\ c \in Casts /\ casts[c] \in Messages
         /\ \A m \in Messages : LET p == [casts EXCEPT ![c] = m]
                              IN p \in Seq(Messages) /\ Len(p) = Len(casts)
<1>1. casts \in Seq(Messages) /\ Len(casts) <= MaxCasts /\ Len(casts) \in Nat
  BY DEF TypeOK
<1>2. c \in 1..Len(casts)
  BY <1>1
<1> QED
  BY <1>1, <1>2, BroadcastAssumption DEF Casts

-----------------------------------------------------------------------------
(* The room views.                                                         *)

LEMMA AddKeepsViews ==
  ASSUME RoomsInv, NEW s \in Sids, NEW r \in Rooms, s \notin cleaned, Add(s, r),
         UNCHANGED <<dropped, cleaned>>
  PROVE  RoomViewsAgree'
<1>1. \A q \in Sids, x \in Rooms :
        q \in members'[x] <=> q \in members[x] \/ (q = s /\ x = r)
  BY DEF RoomsInv, TypeOK, Add
<1>2. \A q \in Sids : roomsOf'[q] = IF q = s THEN roomsOf[q] \cup {r} ELSE roomsOf[q]
  BY DEF RoomsInv, TypeOK, Add
<1>3. \A q \in Sids : index'[q] = IF q = s THEN index[q] \cup {r} ELSE index[q]
  BY DEF RoomsInv, TypeOK, Add
<1>4. known' = known \cup {s} /\ cleaned \subseteq Sids
  BY DEF RoomsInv, TypeOK, Add
<1>5. ASSUME NEW q \in Sids
      PROVE  roomsOf'[q] = {x \in Rooms : q \in members'[x]} /\ index'[q] = roomsOf'[q]
  <2>1. roomsOf[q] = {x \in Rooms : q \in members[x]} /\ index[q] = roomsOf[q]
    BY DEF RoomsInv, RoomViewsAgree
  <2>2. CASE q = s
    BY <1>1, <1>2, <1>3, <2>1, <2>2
  <2>3. CASE q # s
    BY <1>1, <1>2, <1>3, <2>1, <2>3
  <2> QED
    BY <2>2, <2>3
<1>6. cleaned' \cap known' = {} /\ dropped' \subseteq known'
  BY <1>4 DEF RoomsInv, RoomViewsAgree
<1>7. \A q \in cleaned' : roomsOf'[q] = {}
  BY <1>2, <1>4 DEF RoomsInv, RoomViewsAgree
<1> QED
  BY <1>5, <1>6, <1>7 DEF RoomViewsAgree

\* A change of membership keeps the views together.
LEMMA MembershipStep ==
  ASSUME RoomsInv, NEW s \in Sids,
         \/ \E r \in SharedRooms \cup {s} : Join(s, r) \/ Leave(s, r)
         \/ SetDropped(s)
  PROVE  RoomsInv'
<1>1. changes' \in 0..MaxChanges
  BY BroadcastAssumption DEF Join, Leave, SetDropped, Change, RoomsInv, TypeOK
<1>2. ASSUME NEW r \in SharedRooms \cup {s}, Join(s, r) PROVE RoomsInv'
  <2>1. r \in Rooms /\ s \notin cleaned
    BY <1>2 DEF Rooms, Join, AcceptsRoomJoins
  <2>2. TypeOK'
    BY <1>1, <1>2, <2>1 DEF Join, Add, RoomsInv, TypeOK, socketVars, runVars
  <2>3. RoomViewsAgree'
    BY <1>2, <2>1, AddKeepsViews DEF Join
  <2> QED
    BY <2>2, <2>3 DEF RoomsInv
<1>3. ASSUME NEW r \in SharedRooms \cup {s}, Leave(s, r) PROVE RoomsInv'
  <2>1. r \in Rooms
    BY DEF Rooms
  <2>2. TypeOK'
    BY <1>1, <1>3, <2>1 DEF Leave, RoomsInv, TypeOK, socketVars, runVars
  <2>3. RoomViewsAgree'
    BY <1>3, <2>1 DEF Leave, RoomsInv, TypeOK, RoomViewsAgree
  <2> QED
    BY <2>2, <2>3 DEF RoomsInv
<1>4. CASE SetDropped(s)
  <2>1. TypeOK'
    BY <1>1, <1>4 DEF SetDropped, RoomsInv, TypeOK, socketVars, runVars
  <2>2. RoomViewsAgree'
    BY <1>4 DEF SetDropped, RoomsInv, TypeOK, RoomViewsAgree
  <2> QED
    BY <2>1, <2>2 DEF RoomsInv
<1> QED
  BY <1>2, <1>3, <1>4

LEMMA CleanupKeepsViews ==
  ASSUME RoomsInv, NEW s \in Sids, CleanupMembership(s)
  PROVE  /\ roster' \subseteq Sids /\ roomsOf' \in [Sids -> SUBSET Rooms]
         /\ members' \in [Rooms -> SUBSET Sids]
         /\ known' \subseteq Sids /\ index' \in [Sids -> SUBSET Rooms]
         /\ dropped' \cup cleaned' \subseteq Sids
         /\ RoomViewsAgree'
<1>1. CASE s \in cleaned /\ UNCHANGED roomVars
  BY <1>1 DEF RoomsInv, TypeOK, RoomViewsAgree, roomVars
<1>2. CASE s \notin cleaned
  <2>1. roster' \subseteq Sids /\ roomsOf' \in [Sids -> SUBSET Rooms]
        /\ known' \subseteq Sids /\ index' \in [Sids -> SUBSET Rooms]
        /\ dropped' \cup cleaned' \subseteq Sids
    BY <1>2 DEF RoomsInv, TypeOK, CleanupMembership
  <2>6. members' \in [Rooms -> SUBSET Sids]
    <3>1. \A r \in Rooms :
            (IF r \in roomsOf[s] THEN members[r] \ {s} ELSE members[r]) \in SUBSET Sids
      BY DEF RoomsInv, TypeOK
    <3> QED
      BY <1>2, <3>1 DEF CleanupMembership
  <2>2. \A q \in Sids, r \in Rooms : q \in members'[r] <=> q # s /\ q \in members[r]
    BY <1>2 DEF RoomsInv, TypeOK, RoomViewsAgree, CleanupMembership
  <2>3. \A q \in Sids : roomsOf'[q] = IF q = s THEN {} ELSE roomsOf[q]
    BY <1>2 DEF RoomsInv, TypeOK, CleanupMembership
  <2>4. \A q \in Sids : index'[q] = IF q = s THEN {} ELSE index[q]
    BY <1>2 DEF RoomsInv, TypeOK, CleanupMembership
  <2>5. cleaned' = cleaned \cup {s} /\ known' = known \ {s} /\ dropped' = dropped \ {s}
    BY <1>2 DEF CleanupMembership
  <2>7. cleaned' \cap known' = {} /\ dropped' \subseteq known'
    BY <2>5 DEF RoomsInv, RoomViewsAgree
  <2>8. ASSUME NEW q \in Sids
        PROVE  /\ roomsOf'[q] = {r \in Rooms : q \in members'[r]} /\ index'[q] = roomsOf'[q]
               /\ q \in cleaned' => roomsOf'[q] = {}
    <3>1. /\ roomsOf[q] = {r \in Rooms : q \in members[r]} /\ index[q] = roomsOf[q]
          /\ q \in cleaned => roomsOf[q] = {}
      BY DEF RoomsInv, RoomViewsAgree
    <3>2. CASE q = s
      BY <2>2, <2>3, <2>4, <3>2
    <3>3. CASE q # s
      BY <2>2, <2>3, <2>4, <2>5, <3>1, <3>3
    <3> QED
      BY <3>2, <3>3
  <2>9. RoomViewsAgree'
    BY <2>1, <2>7, <2>8 DEF RoomViewsAgree
  <2> QED
    BY <2>1, <2>6, <2>9
<1> QED
  BY <1>1, <1>2 DEF CleanupMembership

\* Steps that leave the rooms alone.
LEMMA ViewsKept == ASSUME RoomViewsAgree, UNCHANGED roomVars PROVE RoomViewsAgree'
BY DEF RoomViewsAgree, roomVars

LEMMA ConnectionStep ==
  ASSUME RoomsInv, NEW s \in Sids,
         \/ Register(s) \/ Abandon(s) \/ ClientDisconnect(s) \/ ServerDisconnect(s)
  PROVE  RoomsInv'
<1> USE DEF RoomsInv
<1>1. CASE Register(s)
  <2>1. [op |-> "connection", of |-> s] \in Frames
    BY DEF Frames
  <2>2. stack' \in Seq(Frames)
    BY <1>1, <2>1 DEF Register
  <2>3. TypeOK'
    BY <1>1, <2>2 DEF Register, Add, TypeOK, socketVars, Rooms
  <2>4. RoomViewsAgree'
    <3>1. CASE s \notin cleaned
      BY <1>1, <3>1, AddKeepsViews DEF Register, AcceptsRoomJoins, Rooms
    <3>2. CASE s \in cleaned
      BY <1>1, <3>2 DEF Register, RoomViewsAgree, AcceptsRoomJoins
    <3> QED
      BY <3>1, <3>2
  <2> QED
    BY <2>3, <2>4
<1>2. CASE Abandon(s)
  <2>1. TypeOK' /\ RoomViewsAgree'
    BY <1>2, CleanupKeepsViews DEF Abandon, TypeOK, runVars
  <2> QED
    BY <2>1
<1>3. CASE ClientDisconnect(s)
  <2>1. [op |-> "leaving", of |-> s] \in Frames
    BY DEF Frames
  <2>2. stack' \in Seq(Frames)
    BY <1>3, <2>1, PushFacts DEF ClientDisconnect, TypeOK
  <2> QED
    BY <1>3, <2>2, ViewsKept DEF ClientDisconnect, TypeOK, roomVars
<1>4. CASE ServerDisconnect(s)
  <2>1. stack' \in Seq(Frames) /\ torn' \subseteq Sids /\ acks' \subseteq Sids
    BY <1>4, TeardownTypes DEF ServerDisconnect, TypeOK
  <2> QED
    BY <1>4, <2>1, ViewsKept DEF ServerDisconnect, TypeOK, roomVars
<1> QED
  BY <1>1, <1>2, <1>3, <1>4

LEMMA CallbackStep ==
  ASSUME RoomsInv,
         ConnectionReturns \/ LeavingReturns \/ DisconnectingReturns \/ DisconnectReturns
  PROVE  RoomsInv'
<1> USE DEF RoomsInv, Returning
<1>1. Frame \in Frames /\ Tail(stack) \in Seq(Frames) /\ Frame.of \in Sids
  BY TopFrame, FrameTypes
     DEF ConnectionReturns, LeavingReturns, DisconnectingReturns, DisconnectReturns, Frame
<1>2. CASE ConnectionReturns
  BY <1>1, <1>2, ViewsKept DEF ConnectionReturns, TypeOK, roomVars
<1>3. CASE LeavingReturns
  <2>1. [op |-> "teardown", of |-> Frame.of] \in Tasks
    BY <1>1 DEF Tasks
  <2>2. microtasks' \in Seq(Tasks)
    BY <1>3, <2>1, DeferTypes DEF LeavingReturns, TypeOK
  <2> QED
    BY <1>1, <1>3, <2>2, ViewsKept DEF LeavingReturns, TypeOK, roomVars
<1>4. CASE DisconnectingReturns
  <2>1. [Frame EXCEPT !.op = "disconnect"] \in Frames
    BY <1>1, <1>4, FrameTypes DEF DisconnectingReturns, Frame
  <2>2. stack' \in Seq(Frames)
    BY <1>1, <1>4, <2>1, PushFacts DEF DisconnectingReturns
  <2> QED
    BY <1>1, <1>4, <2>2, CleanupKeepsViews DEF DisconnectingReturns, TypeOK, socketVars
<1>5. CASE DisconnectReturns
  <2>1. [op |-> "leave", of |-> Frame.of] \in Tasks
    BY <1>1 DEF Tasks
  <2>2. microtasks' \in Seq(Tasks)
    BY <1>5, <2>1, DeferTypes DEF DisconnectReturns, TypeOK
  <2> QED
    BY <1>1, <1>5, <2>2, ViewsKept DEF DisconnectReturns, TypeOK, roomVars, socketVars
<1> QED
  BY <1>2, <1>3, <1>4, <1>5

LEMMA PlaceTypes ==
  ASSUME TypeOK, NEW c \in DOMAIN casts, NEW s \in Sids, NEW place \in Places,
         Move(c, s, place)
  PROVE  casts' \in Seq(Messages) /\ Len(casts') = Len(casts)
<1>1. [casts[c] EXCEPT !.place[s] = place] \in Messages
  BY CastTypes DEF Messages
<1>2. casts' = [casts EXCEPT ![c] = [casts[c] EXCEPT !.place[s] = place]]
  BY DEF Move
<1> QED
  BY <1>1, <1>2, CastTypes

LEMMA EmitStep ==
  ASSUME RoomsInv, NEW o \in Operators, NEW volatile \in BOOLEAN, NEW ack \in BOOLEAN,
         Emit(o, volatile, ack)
  PROVE  RoomsInv'
<1> DEFINE c == Len(casts) + 1
           chosen == Recipients(o, volatile)
           message == [ack |-> ack,
                       place |-> [s \in Sids |-> IF s \in chosen THEN "routed" ELSE "unrouted"],
                       responses |-> <<>>, result |-> "none"]
<1>1. c \in Casts /\ casts \in Seq(Messages)
  BY BroadcastAssumption DEF Emit, Casts, RoomsInv, TypeOK
<1>2. message \in Messages
  BY DEF Messages, Places
<1>3. casts' = Append(casts, message)
  BY DEF Emit
<1>4. casts' \in Seq(Messages) /\ Len(casts') <= MaxCasts
  BY <1>1, <1>2, <1>3, AppendFacts DEF Emit
<1>5. microtasks' \in Seq(Tasks)
  <2>1. [op |-> "empty", of |-> c] \in Tasks
    BY <1>1 DEF Tasks
  <2> QED
    BY <2>1, DeferTypes DEF Emit, AnswerEmpty, RoomsInv, TypeOK
<1>6. stack' \in Seq(Frames)
  <2>1. chosen \subseteq Sids
    BY DEF Recipients, SocketsIn, RoomsInv, TypeOK
  <2> QED
    BY <1>1, <2>1, ObserveTypes DEF Emit, RoomsInv, TypeOK
<1> QED
  BY <1>4, <1>5, <1>6, ViewsKept DEF Emit, RoomsInv, TypeOK, roomVars, socketVars

LEMMA CollectTypes ==
  ASSUME TypeOK, NEW c \in DOMAIN casts, NEW s \in Sids, Collect(c, s)
  PROVE  casts' \in Seq(Messages) /\ Len(casts') = Len(casts)
<1> DEFINE responses == Append(casts[c].responses, s)
           done == Len(responses) = Cardinality(Chosen(c))
           late == [casts[c] EXCEPT !.place[s] = "answered"]
           more == [casts[c] EXCEPT !.place[s] = "answered", !.responses = responses,
                                    !.result = IF done THEN "ok" ELSE "none"]
<1>1. casts[c] \in Messages
  BY CastTypes
<1>2. responses \in Seq(Sids)
  BY <1>1, AppendFacts DEF Messages
<1>3. late \in Messages /\ more \in Messages
  BY <1>1, <1>2 DEF Messages, Places
<1>4. casts' = IF casts[c].result # "none" THEN [casts EXCEPT ![c] = late]
               ELSE [casts EXCEPT ![c] = more]
  BY DEF Collect
<1> QED
  BY <1>3, <1>4, CastTypes

LEMMA ResultTypes ==
  ASSUME TypeOK, NEW c \in DOMAIN casts, NEW result \in {"ok", "timeout"},
         casts' = [casts EXCEPT ![c].result = result]
  PROVE  casts' \in Seq(Messages) /\ Len(casts') = Len(casts)
<1>1. [casts[c] EXCEPT !.result = result] \in Messages
  BY CastTypes DEF Messages
<1> QED
  BY <1>1, CastTypes

-----------------------------------------------------------------------------
(* What is under way, for the packets as `sent` has them.                  *)

\* A loop that waits for observers has not sent to those it has left.
CastOk(f, sent) ==
  f.op = "cast" => /\ f.of \in DOMAIN sent
                   /\ f.to \notin f.rest
                   /\ \A s \in f.rest \cup {f.to} : sent[f.of].place[s] = "routed"

\* Only one loop sends a broadcast.
FramesOk(q, sent) ==
  \A i \in DOMAIN q :
    /\ CastOk(q[i], sent)
    /\ \A j \in DOMAIN q : q[i].op = "cast" /\ q[j].op = "cast" /\ q[i].of = q[j].of => i = j

\* A packet and an answer under way are where the broadcast says they are.
TaskOk(t, sent) ==
  /\ t.op \in {"deliver", "answer", "empty"} => t.of \in DOMAIN sent
  /\ t.op = "deliver" => sent[t.of].place[t.to] = "queued"
  /\ t.op = "answer" => sent[t.of].place[t.from] = "spent"
  /\ t.op = "empty" => \A s \in Sids : sent[t.of].place[s] = "unrouted"

SameMessage(t, u) ==
  /\ t.op = u.op /\ t.of = u.of
  /\ \/ t.op = "deliver" /\ t.to = u.to
     \/ t.op = "answer" /\ t.from = u.from

\* Nothing is under way twice.
TasksOk(q, sent) ==
  \A i \in DOMAIN q :
    /\ TaskOk(q[i], sent)
    /\ \A j \in DOMAIN q : SameMessage(q[i], q[j]) => i = j

\* The responses are answers, each once; success is having all of them, and a
\* collection without recipients does not time out.
AnswersOk(m) ==
  /\ \A i \in DOMAIN m.responses : m.place[m.responses[i]] = "answered"
  /\ \A i, j \in DOMAIN m.responses : m.responses[i] = m.responses[j] => i = j
  /\ m.result = "ok" =>
       \A s \in Sids : m.place[s] # "unrouted" => \E i \in DOMAIN m.responses : m.responses[i] = s
  /\ m.result = "timeout" => \E s \in Sids : m.place[s] # "unrouted"

BroadcastInv ==
  /\ RoomsInv
  /\ FramesOk(stack, casts)
  /\ TasksOk(microtasks, casts)
  /\ \A c \in DOMAIN casts : AnswersOk(casts[c])

-----------------------------------------------------------------------------
(* Changes of what is under way.                                           *)

LEMMA FramesTail ==
  ASSUME NEW sent, NEW q \in Seq(Frames), q # <<>>, FramesOk(q, sent)
  PROVE  /\ FramesOk(Tail(q), sent) /\ CastOk(Head(q), sent)
         /\ \A i \in DOMAIN Tail(q) :
              q[1].op = "cast" /\ Tail(q)[i].op = "cast" => Tail(q)[i].of # q[1].of
<1>1. DOMAIN Tail(q) = 1..Len(Tail(q)) /\ 1 \in DOMAIN q /\ Head(q) = q[1]
  BY TailFacts
<1>2. \A i \in DOMAIN Tail(q) : i + 1 \in DOMAIN q /\ Tail(q)[i] = q[i + 1] /\ i \in Nat /\ i # 0
  BY TailFacts
<1> QED
  BY <1>1, <1>2 DEF FramesOk

LEMMA FramesPush ==
  ASSUME NEW sent, NEW q \in Seq(Frames), NEW f \in Frames, FramesOk(q, sent),
         CastOk(f, sent),
         \A i \in DOMAIN q : f.op = "cast" /\ q[i].op = "cast" => q[i].of # f.of
  PROVE  FramesOk(<<f>> \o q, sent)
<1> DEFINE p == <<f>> \o q
<1>1. DOMAIN p = 1..Len(p) /\ DOMAIN q = 1..Len(q) /\ p[1] = f
  BY PushFacts
<1>2. \A i \in DOMAIN p : i = 1 \/ (i - 1 \in DOMAIN q /\ p[i] = q[i - 1] /\ i \in Int)
  BY <1>1, PushFacts
<1> HIDE DEF p
<1>3. ASSUME NEW i \in DOMAIN p PROVE CastOk(p[i], sent)
  BY <1>1, <1>2 DEF FramesOk
<1>4. ASSUME NEW i \in DOMAIN p, NEW j \in DOMAIN p,
             p[i].op = "cast", p[j].op = "cast", p[i].of = p[j].of
      PROVE  i = j
  <2>1. CASE i = 1 \/ j = 1
    BY <1>1, <1>2, <1>4, <2>1
  <2>2. CASE i # 1 /\ j # 1
    <3>1. i - 1 = j - 1
      BY <1>2, <1>4, <2>2 DEF FramesOk
    <3> QED
      BY <1>2, <2>2, <3>1
  <2> QED
    BY <2>1, <2>2
<1> QED
  BY <1>3, <1>4 DEF FramesOk, p

LEMMA FramesFollow ==
  ASSUME NEW sent, NEW now, NEW q, FramesOk(q, sent),
         \A i \in DOMAIN q : CastOk(q[i], sent) => CastOk(q[i], now)
  PROVE  FramesOk(q, now)
BY DEF FramesOk

LEMMA TasksTail ==
  ASSUME NEW sent, NEW q \in Seq(Tasks), q # <<>>, TasksOk(q, sent)
  PROVE  /\ TasksOk(Tail(q), sent) /\ TaskOk(Head(q), sent)
         /\ \A i \in DOMAIN Tail(q) : ~SameMessage(Tail(q)[i], q[1])
<1>1. DOMAIN Tail(q) = 1..Len(Tail(q)) /\ 1 \in DOMAIN q /\ Head(q) = q[1]
  BY TailFacts
<1>2. \A i \in DOMAIN Tail(q) : i + 1 \in DOMAIN q /\ Tail(q)[i] = q[i + 1] /\ i \in Nat /\ i # 0
  BY TailFacts
<1> QED
  BY <1>1, <1>2 DEF TasksOk

LEMMA TasksAppend ==
  ASSUME NEW sent, NEW q \in Seq(Tasks), NEW t \in Tasks, TasksOk(q, sent),
         TaskOk(t, sent), \A i \in DOMAIN q : ~SameMessage(q[i], t)
  PROVE  TasksOk(Append(q, t), sent)
<1> DEFINE p == Append(q, t)
<1>1. /\ DOMAIN q = 1..Len(q) /\ p[Len(q) + 1] = t
      /\ \A i \in DOMAIN p : i = Len(q) + 1 \/ (i \in DOMAIN q /\ p[i] = q[i])
  BY AppendFacts
<1> HIDE DEF p
<1>2. \A i \in DOMAIN q : ~SameMessage(t, q[i])
  BY DEF SameMessage
<1>3. ASSUME NEW i \in DOMAIN p PROVE TaskOk(p[i], sent)
  BY <1>1 DEF TasksOk
<1>4. ASSUME NEW i \in DOMAIN p, NEW j \in DOMAIN p, SameMessage(p[i], p[j])
      PROVE  i = j
  BY <1>1, <1>2, <1>4 DEF TasksOk
<1> QED
  BY <1>3, <1>4 DEF TasksOk, p

LEMMA TasksFollow ==
  ASSUME NEW sent, NEW now, NEW q, TasksOk(q, sent),
         \A i \in DOMAIN q : TaskOk(q[i], sent) => TaskOk(q[i], now)
  PROVE  TasksOk(q, now)
BY DEF TasksOk

-----------------------------------------------------------------------------
(* Steps that send and answer nothing.                                     *)

LEMMA QuietFrames ==
  ASSUME BroadcastInv, UNCHANGED casts, NEW below,
         below = stack \/ (stack # <<>> /\ below = Tail(stack)),
         stack' = below \/ \E f \in Frames : f.op # "cast" /\ stack' = <<f>> \o below
  PROVE  FramesOk(stack', casts')
<1>1. stack \in Seq(Frames) /\ FramesOk(stack, casts)
  BY DEF BroadcastInv, RoomsInv, TypeOK
<1>2. below \in Seq(Frames) /\ FramesOk(below, casts)
  BY <1>1, FramesTail, TailFacts
<1>3. ASSUME NEW f \in Frames, f.op # "cast" PROVE FramesOk(<<f>> \o below, casts)
  BY <1>2, <1>3, FramesPush DEF CastOk
<1> QED
  BY <1>2, <1>3

LEMMA QuietTasks ==
  ASSUME BroadcastInv, UNCHANGED casts,
         \/ UNCHANGED microtasks
         \/ microtasks # <<>> /\ microtasks' = Tail(microtasks)
         \/ \E t \in Tasks : t.op \in {"teardown", "leave"} /\ Defer(t)
  PROVE  TasksOk(microtasks', casts')
<1>1. microtasks \in Seq(Tasks) /\ TasksOk(microtasks, casts)
  BY DEF BroadcastInv, RoomsInv, TypeOK
<1>2. ASSUME NEW t \in Tasks, t.op \in {"teardown", "leave"}, Defer(t)
      PROVE  TasksOk(microtasks', casts')
  <2>1. \A i \in DOMAIN microtasks : ~SameMessage(microtasks[i], t)
    BY <1>2 DEF SameMessage
  <2>2. TaskOk(t, casts)
    BY <1>2 DEF TaskOk
  <2> QED
    BY <1>1, <1>2, <2>1, <2>2, TasksAppend DEF Defer
<1> QED
  BY <1>1, <1>2, TasksTail

\* What is left to show of a step that only changes rooms, Sockets and what runs next.
LEMMA QuietStep ==
  ASSUME BroadcastInv, RoomsInv', UNCHANGED casts,
         FramesOk(stack', casts'), TasksOk(microtasks', casts')
  PROVE  BroadcastInv'
BY DEF BroadcastInv

LEMMA QuietApplication ==
  ASSUME BroadcastInv, NEW s \in Sids,
         \/ \E r \in SharedRooms \cup {s} : Join(s, r) \/ Leave(s, r)
         \/ SetDropped(s) \/ Abandon(s) \/ ClientDisconnect(s) \/ ServerDisconnect(s)
         \/ Register(s)
  PROVE  BroadcastInv'
<1>1. RoomsInv'
  BY MembershipStep, ConnectionStep DEF BroadcastInv
<1>2. UNCHANGED <<casts, microtasks>>
  BY DEF Join, Leave, SetDropped, Abandon, ClientDisconnect, ServerDisconnect, Register, runVars
<1>3. /\ [op |-> "leaving", of |-> s] \in Frames
      /\ [op |-> "connection", of |-> s] \in Frames
      /\ [op |-> "disconnecting", of |-> s, sync |-> TRUE] \in Frames
  BY DEF Frames
<1>4. \/ stack' = stack
      \/ \E f \in Frames : f.op # "cast" /\ stack' = <<f>> \o stack
  <2>1. CASE ClientDisconnect(s)
    BY <1>3, <2>1 DEF ClientDisconnect
  <2>2. CASE ServerDisconnect(s)
    BY <1>3, <2>2 DEF ServerDisconnect, Teardown
  <2>3. CASE Register(s)
    <3>1. stack = <<>> /\ stack' = <<[op |-> "connection", of |-> s]>>
      BY <2>3 DEF Register
    <3>2. stack' = <<[op |-> "connection", of |-> s]>> \o stack
      BY <3>1
    <3> QED
      BY <1>3, <3>2
  <2>4. CASE UNCHANGED stack
    BY <2>4
  <2> QED
    BY <2>1, <2>2, <2>3, <2>4 DEF Join, Leave, SetDropped, Abandon, runVars
<1> QED
  BY <1>1, <1>2, <1>4, QuietFrames, QuietTasks, QuietStep

LEMMA QuietCallback ==
  ASSUME BroadcastInv,
         ConnectionReturns \/ LeavingReturns \/ DisconnectingReturns \/ DisconnectReturns
  PROVE  BroadcastInv'
<1>1. RoomsInv' /\ TypeOK
  BY CallbackStep DEF BroadcastInv, RoomsInv
<1>2. stack # <<>> /\ UNCHANGED casts
  BY DEF ConnectionReturns, LeavingReturns, DisconnectingReturns, DisconnectReturns, Returning
<1>3. Frame \in Frames /\ Frame.of \in Sids
  BY <1>1, <1>2, TopFrame, FrameTypes
     DEF ConnectionReturns, LeavingReturns, DisconnectingReturns, DisconnectReturns, Returning, Frame
<1>4. FramesOk(stack', casts')
  <2>1. CASE DisconnectingReturns
    <3>1. [Frame EXCEPT !.op = "disconnect"] \in Frames
      BY <1>3, <2>1, FrameTypes DEF DisconnectingReturns, Returning, Frame
    <3>2. [Frame EXCEPT !.op = "disconnect"].op # "cast"
      BY <1>3 DEF Frames
    <3> QED
      BY <1>2, <2>1, <3>1, <3>2, QuietFrames DEF DisconnectingReturns
  <2>2. CASE stack' = Tail(stack)
    BY <1>2, <2>2, QuietFrames
  <2> QED
    BY <2>1, <2>2 DEF ConnectionReturns, LeavingReturns, DisconnectReturns
<1>5. TasksOk(microtasks', casts')
  <2>1. /\ [op |-> "teardown", of |-> Frame.of] \in Tasks
        /\ [op |-> "leave", of |-> Frame.of] \in Tasks
    BY <1>3 DEF Tasks
  <2> QED
    BY <1>2, <2>1, QuietTasks
       DEF ConnectionReturns, LeavingReturns, DisconnectingReturns, DisconnectReturns
<1> QED
  BY <1>1, <1>2, <1>4, <1>5, QuietStep

LEMMA QuietMicrotask ==
  ASSUME BroadcastInv, RunTeardown \/ RunLeave
  PROVE  BroadcastInv'
<1>1. /\ microtasks # <<>> /\ microtasks' = Tail(microtasks)
      /\ UNCHANGED <<roomVars, casts, changes>> /\ Task.op \in {"teardown", "leave"}
  BY DEF RunTeardown, RunLeave, Due, Task
<1>2. TypeOK /\ RoomsInv
  BY DEF BroadcastInv, RoomsInv
<1>3. Task.of \in Sids /\ microtasks' \in Seq(Tasks)
  BY <1>1, <1>2, FirstTask, TaskTypes DEF Task
<1>4. [op |-> "disconnecting", of |-> Task.of, sync |-> FALSE] \in Frames
  BY <1>3 DEF Frames
<1>5. FramesOk(stack', casts') /\ stack' \in Seq(Frames)
  <2>1. CASE RunLeave
    BY <1>1, <1>2, <2>1, QuietFrames DEF RunLeave, TypeOK
  <2>2. CASE RunTeardown
    <3>1. stack = <<>> /\ stack' = <<[op |-> "disconnecting", of |-> Task.of, sync |-> FALSE]>>
      BY <2>2 DEF RunTeardown, Due
    <3>2. stack' = <<[op |-> "disconnecting", of |-> Task.of, sync |-> FALSE]>> \o stack
      BY <3>1
    <3> QED
      BY <1>1, <1>2, <1>4, <3>2, PushFacts, QuietFrames DEF TypeOK
  <2> QED
    BY <2>1, <2>2
<1>6. RoomsInv'
  <2>1. client' \in [Sids -> {"pending", "online", "left", "abandoned"}]
        /\ torn' \subseteq Sids /\ acks' \subseteq Sids
    BY <1>2, <1>3 DEF RunLeave, RunTeardown, TypeOK
  <2> QED
    BY <1>1, <1>2, <1>3, <1>5, <2>1, ViewsKept DEF RoomsInv, TypeOK, roomVars
<1> QED
  BY <1>1, <1>5, <1>6, QuietTasks, QuietStep

LEMMA BulkStep ==
  ASSUME BroadcastInv,
         (\E o \in Operators : DisconnectSockets(o)) \/ BulkNext \/ BulkReturns
  PROVE  BroadcastInv'
<1>1. /\ UNCHANGED <<roomVars, client, casts, changes, microtasks>>
      /\ TypeOK /\ RoomsInv
  BY DEF DisconnectSockets, BulkNext, BulkReturns, socketVars, BroadcastInv, RoomsInv
<1>2. /\ stack' \in Seq(Frames) /\ torn' \subseteq Sids /\ acks' \subseteq Sids
      /\ FramesOk(stack', casts')
  <2>1. ASSUME NEW o \in Operators, DisconnectSockets(o)
        PROVE  /\ stack' \in Seq(Frames) /\ torn' \subseteq Sids /\ acks' \subseteq Sids
               /\ FramesOk(stack', casts')
    <3> DEFINE f == [op |-> "bulk", chosen |-> ManagementSockets(o), rest |-> ManagementSockets(o)]
    <3>1. f \in Frames
      BY <1>1 DEF ManagementSockets, TypeOK, Frames
    <3>2. stack' = <<f>> \o stack /\ UNCHANGED socketVars
      BY <2>1 DEF DisconnectSockets
    <3> QED
      BY <1>1, <3>1, <3>2, PushFacts, QuietFrames DEF TypeOK, socketVars
  <2>2. CASE BulkReturns
    BY <1>1, <2>2, TopFrame, QuietFrames DEF BulkReturns, Returning, TypeOK, socketVars
  <2>3. CASE BulkNext
    <3>1. PICK s \in Frame.rest :
            LET below == <<[Frame EXCEPT !.rest = @ \ {s}]>> \o Tail(stack)
            IN \/ Teardown(s, below)
               \/ s \in torn /\ stack' = below /\ UNCHANGED <<torn, acks>>
      BY <2>3 DEF BulkNext
    <3> DEFINE f == [Frame EXCEPT !.rest = Frame.rest \ {s}]
               below == <<f>> \o Tail(stack)
               top == [op |-> "disconnecting", of |-> s, sync |-> TRUE]
    <3>2. stack # <<>> /\ Frame.op = "bulk" /\ Frame \in Frames /\ Tail(stack) \in Seq(Frames)
      BY <1>1, <2>3, TopFrame DEF BulkNext, Returning, Frame
    <3>3. f \in Frames /\ f.op = "bulk" /\ s \in Sids /\ top \in Frames
      BY <3>2, FrameTypes DEF Frames
    <3>4. below \in Seq(Frames) /\ FramesOk(below, casts)
      <4>1. FramesOk(Tail(stack), casts)
        BY <1>1, <3>2, FramesTail DEF BroadcastInv, TypeOK
      <4> QED
        BY <3>2, <3>3, <4>1, PushFacts, FramesPush DEF CastOk
    <3> HIDE DEF below, f
    <3>5. CASE Teardown(s, below)
      <4>1. stack' = <<top>> \o below
        BY <3>5 DEF Teardown
      <4>2. FramesOk(<<top>> \o below, casts)
        BY <3>3, <3>4, FramesPush DEF CastOk
      <4> QED
        BY <1>1, <3>3, <3>4, <3>5, <4>1, <4>2, TeardownTypes
    <3>6. CASE stack' = below /\ UNCHANGED <<torn, acks>>
      BY <1>1, <3>4, <3>6 DEF TypeOK
    <3> QED
      BY <3>1, <3>5, <3>6 DEF below, f
  <2> QED
    BY <2>1, <2>2, <2>3
<1>3. RoomsInv'
  BY <1>1, <1>2, ViewsKept DEF RoomsInv, TypeOK, roomVars
<1> QED
  BY <1>1, <1>2, <1>3, QuietTasks, QuietStep

-----------------------------------------------------------------------------
(* Steps that send and answer.                                             *)

\* One packet, or its answer, gets from one place to another.
Moved(c, s, from, to) ==
  /\ DOMAIN casts' = DOMAIN casts
  /\ casts[c].place[s] = from /\ casts'[c].place[s] = to
  /\ \A d \in DOMAIN casts, q \in Sids :
       d # c \/ q # s => casts'[d].place[q] = casts[d].place[q]

LEMMA MoveFacts ==
  ASSUME TypeOK, NEW c \in DOMAIN casts, NEW s \in Sids, NEW place, Move(c, s, place)
  PROVE  /\ Moved(c, s, casts[c].place[s], place)
         /\ \A d \in DOMAIN casts : /\ casts'[d].responses = casts[d].responses
                                  /\ casts'[d].result = casts[d].result
                                  /\ casts'[d].ack = casts[d].ack
<1>1. \A d \in DOMAIN casts : casts[d] \in Messages
  BY CastTypes
<1> QED
  BY <1>1 DEF Move, Moved, Messages

LEMMA FrameFollows ==
  ASSUME NEW c \in DOMAIN casts, NEW s \in Sids, NEW from, NEW to, Moved(c, s, from, to),
         NEW f \in Frames, CastOk(f, casts), from # "routed" \/ f.op # "cast" \/ f.of # c
  PROVE  CastOk(f, casts')
<1>1. f.op = "cast" => f.to \in Sids /\ f.rest \subseteq Sids
  BY FrameTypes
<1> QED
  BY <1>1 DEF Moved, CastOk

LEMMA TaskFollows ==
  ASSUME NEW c \in DOMAIN casts, NEW s \in Sids, NEW from, NEW to, Moved(c, s, from, to),
         NEW t \in Tasks, TaskOk(t, casts), from # "unrouted",
         t.op = "deliver" /\ t.of = c /\ t.to = s => from # "queued",
         t.op = "answer" /\ t.of = c /\ t.from = s => from # "spent"
  PROVE  TaskOk(t, casts')
<1>1. t.op = "deliver" => t.to \in Sids
  BY TaskTypes
<1>2. t.op = "answer" => t.from \in Sids
  BY TaskTypes
<1> QED
  BY <1>1, <1>2 DEF Moved, TaskOk

LEMMA AnswersFollow ==
  ASSUME TypeOK, NEW c \in DOMAIN casts, NEW s \in Sids, NEW from, NEW to,
         Moved(c, s, from, to), from \notin {"unrouted", "answered"}, to # "unrouted",
         NEW d \in DOMAIN casts, AnswersOk(casts[d]),
         casts'[d].responses = casts[d].responses, casts'[d].result = casts[d].result
  PROVE  AnswersOk(casts'[d])
<1>1. /\ casts[d].responses \in Seq(Sids)
      /\ \A i \in DOMAIN casts[d].responses : casts[d].responses[i] \in Sids
  BY CastTypes DEF Messages
<1>2. \A q \in Sids : casts'[d].place[q] # "unrouted" <=> casts[d].place[q] # "unrouted"
  BY DEF Moved
<1>3. \A q \in Sids : casts[d].place[q] = "answered" => casts'[d].place[q] = "answered"
  BY DEF Moved
<1> QED
  BY <1>1, <1>2, <1>3 DEF AnswersOk

\* An operator is used: the loop is at its first recipient, or over.
LEMMA EmitInv ==
  ASSUME BroadcastInv, NEW o \in Operators, NEW volatile \in BOOLEAN, NEW ack \in BOOLEAN,
         Emit(o, volatile, ack)
  PROVE  BroadcastInv'
<1> DEFINE c == Len(casts) + 1
           chosen == Recipients(o, volatile)
           message == [ack |-> ack,
                       place |-> [s \in Sids |-> IF s \in chosen THEN "routed" ELSE "unrouted"],
                       responses |-> <<>>, result |-> "none"]
<1>1. RoomsInv' /\ TypeOK /\ TypeOK'
  BY EmitStep DEF BroadcastInv, RoomsInv
<1>2. casts \in Seq(Messages) /\ message \in Messages /\ casts' = Append(casts, message)
  BY <1>1 DEF Emit, TypeOK, Messages, Places
<1>3. /\ \A d \in DOMAIN casts : d \in DOMAIN casts' /\ d # c /\ casts'[d] = casts[d]
      /\ c \in DOMAIN casts' /\ casts'[c] = message
      /\ \A d \in DOMAIN casts' : d = c \/ d \in DOMAIN casts
  BY <1>2, AppendFacts
<1>4. chosen \subseteq Sids /\ c \in Casts
  BY <1>1, <1>3, BroadcastAssumption DEF Recipients, SocketsIn, TypeOK, Emit, Casts
<1> HIDE DEF c
<1>5. FramesOk(stack', casts')
  <2>1. stack \in Seq(Frames) /\ FramesOk(stack, casts)
    BY <1>1 DEF BroadcastInv, TypeOK
  <2>2. FramesOk(stack, casts')
    BY <1>3, <2>1, FramesFollow DEF CastOk
  <2>3. \A i \in DOMAIN stack : stack[i].op = "cast" => stack[i].of # c
    BY <1>3, <2>1 DEF FramesOk, CastOk
  <2>4. ASSUME NEW s \in chosen,
               stack' = <<[op |-> "cast", of |-> c, to |-> s, was |-> client[s] = "online",
                           rest |-> chosen \ {s}]>> \o stack
        PROVE  FramesOk(stack', casts')
    <3> DEFINE f == [op |-> "cast", of |-> c, to |-> s, was |-> client[s] = "online",
                     rest |-> chosen \ {s}]
    <3>1. f \in Frames
      BY <1>4 DEF Frames
    <3>2. CastOk(f, casts')
      BY <1>3, <1>4 DEF CastOk
    <3> QED
      BY <2>1, <2>2, <2>3, <2>4, <3>1, <3>2, FramesPush
  <2> QED
    BY <2>2, <2>4 DEF Emit, Observe, c
<1>6. TasksOk(microtasks', casts')
  <2>1. microtasks \in Seq(Tasks) /\ TasksOk(microtasks, casts)
    BY <1>1 DEF BroadcastInv, TypeOK
  <2>2. TasksOk(microtasks, casts')
    BY <1>3, <2>1, TasksFollow DEF TaskOk
  <2>3. CASE chosen = {} /\ Defer([op |-> "empty", of |-> c])
    <3> DEFINE t == [op |-> "empty", of |-> c]
    <3>1. t \in Tasks
      BY <1>4 DEF Tasks
    <3>2. TaskOk(t, casts') /\ \A i \in DOMAIN microtasks : ~SameMessage(microtasks[i], t)
      BY <1>3, <2>3 DEF TaskOk, SameMessage
    <3> QED
      BY <2>1, <2>2, <2>3, <3>1, <3>2, TasksAppend DEF Defer
  <2> QED
    BY <2>2, <2>3 DEF Emit, AnswerEmpty, c
<1>7. \A d \in DOMAIN casts' : AnswersOk(casts'[d])
  BY <1>3 DEF AnswersOk, BroadcastInv
<1> QED
  BY <1>1, <1>5, <1>6, <1>7 DEF BroadcastInv

\* The packet is sent to one recipient, and the observers of the next are called.
LEMMA CastInv == ASSUME BroadcastInv, CastReturns PROVE BroadcastInv'
<1> DEFINE c == Frame.of
           s == Frame.to
           t == [op |-> "deliver", of |-> c, to |-> s, kept |-> Frame.was /\ client[s] # "online"]
<1>1. /\ TypeOK /\ RoomsInv /\ stack # <<>> /\ Frame.op = "cast"
      /\ UNCHANGED <<roomVars, socketVars, changes>>
  BY DEF CastReturns, Returning, Frame, BroadcastInv, RoomsInv
<1>2. /\ Frame \in Frames /\ Tail(stack) \in Seq(Frames) /\ Frame = stack[1]
      /\ c \in Casts /\ s \in Sids /\ Frame.rest \subseteq Sids
  BY <1>1, TopFrame, FrameTypes, TailFacts DEF Frame, TypeOK
<1>3. /\ FramesOk(Tail(stack), casts) /\ CastOk(Frame, casts)
      /\ \A i \in DOMAIN Tail(stack) : Tail(stack)[i].op = "cast" => Tail(stack)[i].of # c
  BY <1>1, <1>2, FramesTail DEF BroadcastInv, TypeOK, Frame
<1>4. /\ c \in DOMAIN casts /\ s \notin Frame.rest /\ casts[c].place[s] = "routed"
      /\ \A q \in Frame.rest : casts[c].place[q] = "routed"
  BY <1>1, <1>3 DEF CastOk
<1>5. CASE stack' = Tail(stack) /\ UNCHANGED <<casts, microtasks>>
  <2>1. RoomsInv'
    BY <1>1, <1>2, <1>5, ViewsKept DEF RoomsInv, TypeOK, roomVars, socketVars
  <2> QED
    BY <1>1, <1>5, <2>1, QuietFrames, QuietTasks, QuietStep
<1>6. CASE /\ Move(c, s, "queued") /\ Defer(t) /\ Observe(c, Frame.rest, Tail(stack))
  <2>1. /\ Moved(c, s, "routed", "queued")
        /\ \A d \in DOMAIN casts : /\ casts'[d].responses = casts[d].responses
                                 /\ casts'[d].result = casts[d].result
    BY <1>1, <1>2, <1>4, <1>6, MoveFacts
  <2>2. t \in Tasks
    <3>1. (Frame.was /\ client[s] # "online") \in BOOLEAN
      OBVIOUS
    <3> QED
      BY <1>2, <3>1 DEF Tasks
  <2>3. RoomsInv'
    <3>1. casts' \in Seq(Messages) /\ Len(casts') = Len(casts)
      BY <1>1, <1>2, <1>4, <1>6, PlaceTypes DEF Places
    <3>2. stack' \in Seq(Frames) /\ microtasks' \in Seq(Tasks)
      BY <1>1, <1>2, <1>6, <2>2, ObserveTypes, DeferTypes
    <3> QED
      BY <1>1, <3>1, <3>2, ViewsKept DEF RoomsInv, TypeOK, roomVars, socketVars
  <2>4. FramesOk(stack', casts')
    <3>1. FramesOk(Tail(stack), casts')
      <4>1. \A i \in DOMAIN Tail(stack) : Tail(stack)[i] \in Frames
        BY <1>2
      <4> QED
        BY <1>2, <1>3, <1>4, <2>1, <4>1, FrameFollows, FramesFollow
    <3>2. ASSUME NEW q \in Frame.rest,
                 stack' = <<[op |-> "cast", of |-> c, to |-> q, was |-> client[q] = "online",
                             rest |-> Frame.rest \ {q}]>> \o Tail(stack)
          PROVE  FramesOk(stack', casts')
      <4> DEFINE f == [op |-> "cast", of |-> c, to |-> q, was |-> client[q] = "online",
                       rest |-> Frame.rest \ {q}]
      <4>1. f \in Frames
        BY <1>2 DEF Frames
      <4>2. CastOk(f, casts')
        BY <1>2, <1>4, <2>1 DEF CastOk, Moved
      <4> QED
        BY <1>2, <1>3, <3>1, <3>2, <4>1, <4>2, FramesPush
    <3> QED
      BY <1>6, <3>1, <3>2 DEF Observe
  <2>5. TasksOk(microtasks', casts')
    <3>1. microtasks \in Seq(Tasks) /\ TasksOk(microtasks, casts)
      BY <1>1 DEF BroadcastInv, TypeOK
    <3>2. TasksOk(microtasks, casts')
      <4>1. \A i \in DOMAIN microtasks : microtasks[i] \in Tasks
        BY <3>1
      <4> QED
        BY <1>2, <1>4, <2>1, <3>1, <4>1, TaskFollows, TasksFollow
    <3>3. TaskOk(t, casts')
      BY <1>4, <2>1 DEF TaskOk, Moved
    <3>4. \A i \in DOMAIN microtasks : ~SameMessage(microtasks[i], t)
      BY <1>4, <3>1 DEF SameMessage, TasksOk, TaskOk
    <3> QED
      BY <1>6, <2>2, <3>1, <3>2, <3>3, <3>4, TasksAppend DEF Defer
  <2>6. \A d \in DOMAIN casts' : AnswersOk(casts'[d])
    BY <1>1, <1>2, <1>4, <2>1, AnswersFollow DEF BroadcastInv, Moved
  <2> QED
    BY <2>3, <2>4, <2>5, <2>6 DEF BroadcastInv
<1> QED
  BY <1>5, <1>6 DEF CastReturns

\* A task of a broadcast runs: no other is about the same message, and no loop has it
\* before itself.
LEMMA TakenFacts ==
  ASSUME BroadcastInv, microtasks # <<>>, microtasks' = Tail(microtasks), UNCHANGED stack,
         Task.op \in {"deliver", "answer"},
         NEW s \in Sids, s = IF Task.op = "deliver" THEN Task.to ELSE Task.from,
         NEW from, from = IF Task.op = "deliver" THEN "queued" ELSE "spent",
         NEW to, Moved(Task.of, s, from, to)
  PROVE  FramesOk(stack', casts') /\ TasksOk(microtasks', casts')
<1>1. /\ TypeOK /\ microtasks \in Seq(Tasks) /\ TasksOk(microtasks, casts)
      /\ stack \in Seq(Frames) /\ FramesOk(stack, casts)
  BY DEF BroadcastInv, RoomsInv, TypeOK
<1>2. /\ TasksOk(Tail(microtasks), casts) /\ TaskOk(Task, casts) /\ Task = microtasks[1]
      /\ \A i \in DOMAIN Tail(microtasks) : ~SameMessage(Tail(microtasks)[i], Task)
      /\ \A i \in DOMAIN Tail(microtasks) : Tail(microtasks)[i] \in Tasks
  <2>1. Task = microtasks[1] /\ Tail(microtasks) \in Seq(Tasks)
    BY <1>1, TailFacts DEF Task
  <2>2. \A i \in DOMAIN Tail(microtasks) : Tail(microtasks)[i] \in Tasks
    BY <2>1
  <2> QED
    BY <1>1, <2>1, <2>2, TasksTail DEF Task
<1>3. Task.of \in DOMAIN casts /\ from \notin {"routed", "unrouted"}
  BY <1>2 DEF TaskOk
<1>4. FramesOk(stack, casts')
  <2>1. \A i \in DOMAIN stack : stack[i] \in Frames
    BY <1>1
  <2> QED
    BY <1>1, <1>3, <2>1, FrameFollows, FramesFollow
<1>5. TasksOk(Tail(microtasks), casts')
  <2>1. ASSUME NEW i \in DOMAIN Tail(microtasks), TaskOk(Tail(microtasks)[i], casts)
        PROVE  TaskOk(Tail(microtasks)[i], casts')
    <3> DEFINE u == Tail(microtasks)[i]
    <3>1. ~SameMessage(u, Task) /\ u \in Tasks
      BY <1>2
    <3>2. u.op = "deliver" /\ u.of = Task.of /\ u.to = s => from # "queued"
      BY <3>1 DEF SameMessage
    <3>3. u.op = "answer" /\ u.of = Task.of /\ u.from = s => from # "spent"
      BY <3>1 DEF SameMessage
    <3> QED
      BY <1>3, <2>1, <3>1, <3>2, <3>3, TaskFollows
  <2> QED
    BY <1>2, <2>1, TasksFollow
<1> QED
  BY <1>4, <1>5

LEMMA DeliverInv == ASSUME BroadcastInv, RunDeliver PROVE BroadcastInv'
<1>1. /\ TypeOK /\ RoomsInv /\ microtasks # <<>> /\ Task.op = "deliver"
      /\ microtasks' = Tail(microtasks)
      /\ UNCHANGED <<roomVars, socketVars, changes, stack>>
  BY DEF RunDeliver, Due, Task, BroadcastInv, RoomsInv
<1>2. /\ Task \in Tasks /\ Task.to \in Sids /\ microtasks' \in Seq(Tasks)
  BY <1>1, FirstTask, TaskTypes
<1>3. Task.of \in DOMAIN casts /\ casts[Task.of].place[Task.to] = "queued"
  BY <1>1, TasksTail DEF TaskOk, Task, BroadcastInv, TypeOK
<1>4. PICK to \in {"lost", "held", "heard"} : Move(Task.of, Task.to, to)
  BY DEF RunDeliver
<1>5. /\ Moved(Task.of, Task.to, "queued", to)
      /\ \A d \in DOMAIN casts : /\ casts'[d].responses = casts[d].responses
                               /\ casts'[d].result = casts[d].result
  BY <1>1, <1>2, <1>3, <1>4, MoveFacts
<1>6. casts' \in Seq(Messages) /\ Len(casts') = Len(casts)
  BY <1>1, <1>2, <1>3, <1>4, PlaceTypes DEF Places
<1>7. RoomsInv'
  BY <1>1, <1>2, <1>6, ViewsKept DEF RoomsInv, TypeOK, roomVars, socketVars
<1>8. FramesOk(stack', casts') /\ TasksOk(microtasks', casts')
  BY <1>1, <1>2, <1>5, TakenFacts
<1>9. \A d \in DOMAIN casts' : AnswersOk(casts'[d])
  BY <1>1, <1>2, <1>3, <1>5, AnswersFollow DEF BroadcastInv, Moved
<1> QED
  BY <1>7, <1>8, <1>9 DEF BroadcastInv

\* Until it is answered, a packet is with the client, and nothing of it is under way.
LEMMA AnswerInv ==
  ASSUME BroadcastInv, NEW c \in DOMAIN casts, NEW s \in Sids, Answer(c, s)
  PROVE  BroadcastInv'
<1> DEFINE t == [op |-> "answer", of |-> c, from |-> s]
<1>1. /\ TypeOK /\ RoomsInv /\ Defer(t)
      /\ UNCHANGED <<roomVars, socketVars, changes, stack>>
  BY DEF Answer, BroadcastInv, RoomsInv
<1>2. /\ Moved(c, s, "held", "spent") /\ casts[c].place[s] = "held"
      /\ \A d \in DOMAIN casts : /\ casts'[d].responses = casts[d].responses
                               /\ casts'[d].result = casts[d].result
  BY <1>1, MoveFacts DEF Answer
<1>3. casts' \in Seq(Messages) /\ Len(casts') = Len(casts)
  BY <1>1, PlaceTypes DEF Answer, Places
<1>4. t \in Tasks
  BY <1>1, CastTypes DEF Tasks
<1>5. RoomsInv'
  <2>1. microtasks' \in Seq(Tasks)
    BY <1>1, <1>4, DeferTypes
  <2> QED
    BY <1>1, <1>3, <2>1, ViewsKept DEF RoomsInv, TypeOK, roomVars, socketVars
<1>6. FramesOk(stack', casts')
  <2>1. stack \in Seq(Frames) /\ FramesOk(stack, casts)
    BY <1>1 DEF BroadcastInv, TypeOK
  <2>2. \A i \in DOMAIN stack : stack[i] \in Frames
    BY <2>1
  <2> QED
    BY <1>1, <1>2, <2>1, <2>2, FrameFollows, FramesFollow
<1>7. TasksOk(microtasks', casts')
  <2>1. microtasks \in Seq(Tasks) /\ TasksOk(microtasks, casts)
    BY <1>1 DEF BroadcastInv, TypeOK
  <2>2. \A i \in DOMAIN microtasks : microtasks[i] \in Tasks
    BY <2>1
  <2>3. TasksOk(microtasks, casts')
    BY <1>2, <2>1, <2>2, TaskFollows, TasksFollow
  <2>4. TaskOk(t, casts')
    BY <1>2 DEF TaskOk, Moved
  <2>5. \A i \in DOMAIN microtasks : ~SameMessage(microtasks[i], t)
    BY <1>2, <2>1 DEF SameMessage, TasksOk, TaskOk
  <2> QED
    BY <1>1, <1>4, <2>1, <2>3, <2>4, <2>5, TasksAppend DEF Defer
<1>8. \A d \in DOMAIN casts' : AnswersOk(casts'[d])
  BY <1>1, <1>2, AnswersFollow DEF BroadcastInv, Moved
<1> QED
  BY <1>5, <1>6, <1>7, <1>8 DEF BroadcastInv

\* A sequence without repetition is as long as the set of its elements.
LEMMA CountOnce ==
  ASSUME NEW S, NEW q \in Seq(S), \A i, j \in DOMAIN q : q[i] = q[j] => i = j
  PROVE  LET elements == {q[i] : i \in DOMAIN q}
         IN IsFiniteSet(elements) /\ Cardinality(elements) = Len(q)
<1> DEFINE elements == {q[i] : i \in DOMAIN q}
<1>1. Len(q) \in Nat /\ DOMAIN q = 1..Len(q)
  OBVIOUS
<1>2. q \in [1..Len(q) -> elements]
  BY <1>1
<1>3. q \in Bijection(1..Len(q), elements)
  BY <1>1, <1>2 DEF Bijection, Injection, Surjection, IsInjective
<1>4. ExistsBijection(1..Len(q), elements)
  BY <1>3 DEF ExistsBijection
<1> HIDE DEF elements
<1>5. IsFiniteSet(1..Len(q)) /\ Cardinality(1..Len(q)) = Len(q)
  BY <1>1, FS_Interval
<1>6. IsFiniteSet(elements) /\ Cardinality(elements) = Len(q)
  BY <1>4, <1>5, FS_Bijection
<1> QED
  BY <1>6 DEF elements

\* The answer that is counted is a new one, and if it makes as many as there are
\* recipients, it makes all of them.
LEMMA CountedAnswer ==
  ASSUME TypeOK, NEW c \in DOMAIN casts, NEW s \in Sids, AnswersOk(casts[c]),
         casts[c].place[s] = "spent", casts[c].result = "none", Collect(c, s)
  PROVE  AnswersOk(casts'[c])
<1> DEFINE m == casts[c]
           n == casts'[c]
           responses == Append(m.responses, s)
           done == Len(responses) = Cardinality(Chosen(c))
<1>1. m \in Messages /\ m.responses \in Seq(Sids) /\ responses \in Seq(Sids)
  BY CastTypes, AppendFacts DEF Messages
<1>2. /\ n.responses = responses
      /\ n.result = IF done THEN "ok" ELSE "none"
      /\ \A q \in Sids : n.place[q] = IF q = s THEN "answered" ELSE m.place[q]
  BY <1>1 DEF Collect, Messages
<1>3. /\ DOMAIN responses = 1..(Len(m.responses) + 1) /\ DOMAIN m.responses = 1..Len(m.responses)
      /\ Len(m.responses) \in Nat /\ responses[Len(m.responses) + 1] = s
      /\ \A i \in DOMAIN m.responses : responses[i] = m.responses[i] /\ m.responses[i] \in Sids
  BY <1>1, AppendFacts
<1>4. \A i \in DOMAIN m.responses : m.responses[i] # s /\ m.place[m.responses[i]] = "answered"
  BY DEF AnswersOk
<1> HIDE DEF n, responses
<1>5. \A i \in DOMAIN responses : responses[i] \in Sids /\ n.place[responses[i]] = "answered"
  BY <1>2, <1>3, <1>4
<1>6. \A i, j \in DOMAIN responses : responses[i] = responses[j] => i = j
  BY <1>3, <1>4 DEF AnswersOk
<1>7. ASSUME done PROVE \A q \in Sids : n.place[q] # "unrouted" => \E i \in DOMAIN responses : responses[i] = q
  <2> DEFINE elements == {responses[i] : i \in DOMAIN responses}
  <2>1. IsFiniteSet(elements) /\ Cardinality(elements) = Len(responses)
    BY <1>1, <1>6, CountOnce
  <2>2. elements \subseteq Chosen(c)
    <3>1. \A i \in DOMAIN responses : responses[i] \in Sids /\ m.place[responses[i]] # "unrouted"
      BY <1>2, <1>3, <1>4, <1>5
    <3> QED
      BY <3>1 DEF Chosen
  <2>3. IsFiniteSet(Chosen(c))
    BY BroadcastAssumption, FS_Subset DEF Chosen
  <2>4. elements = Chosen(c)
    BY <1>7, <2>1, <2>2, <2>3, FS_Subset
  <2>5. ASSUME NEW q \in Sids, n.place[q] # "unrouted" PROVE q \in Chosen(c)
    BY <1>2, <2>5 DEF Chosen
  <2> QED
    BY <2>4, <2>5
<1> QED
  BY <1>2, <1>5, <1>6, <1>7 DEF AnswersOk, n

LEMMA CollectInv == ASSUME BroadcastInv, RunAnswer PROVE BroadcastInv'
<1> DEFINE c == Task.of
           s == Task.from
<1>1. /\ TypeOK /\ RoomsInv /\ microtasks # <<>> /\ Task.op = "answer"
      /\ microtasks' = Tail(microtasks) /\ Collect(c, s)
      /\ UNCHANGED <<roomVars, socketVars, changes, stack>>
  BY DEF RunAnswer, Due, Task, BroadcastInv, RoomsInv
<1>2. /\ Task \in Tasks /\ s \in Sids /\ microtasks' \in Seq(Tasks)
  BY <1>1, FirstTask, TaskTypes
<1>3. c \in DOMAIN casts /\ casts[c].place[s] = "spent"
  BY <1>1, TasksTail DEF TaskOk, Task, BroadcastInv, TypeOK
<1>4. /\ Moved(c, s, "spent", "answered")
      /\ \A d \in DOMAIN casts : d # c \/ casts[c].result # "none" =>
           casts'[d].responses = casts[d].responses /\ casts'[d].result = casts[d].result
  <2>1. \A d \in DOMAIN casts : casts[d] \in Messages
    BY <1>1, CastTypes
  <2> QED
    BY <1>1, <1>2, <1>3, <2>1 DEF Collect, Moved, Messages
<1>5. casts' \in Seq(Messages) /\ Len(casts') = Len(casts)
  BY <1>1, <1>2, <1>3, CollectTypes
<1>6. RoomsInv'
  BY <1>1, <1>2, <1>5, ViewsKept DEF RoomsInv, TypeOK, roomVars, socketVars
<1>7. FramesOk(stack', casts') /\ TasksOk(microtasks', casts')
  BY <1>1, <1>2, <1>4, TakenFacts
<1>8. ASSUME NEW d \in DOMAIN casts PROVE AnswersOk(casts'[d])
  <2>1. AnswersOk(casts[d])
    BY DEF BroadcastInv
  <2>2. CASE d = c /\ casts[c].result = "none"
    BY <1>1, <1>2, <1>3, <2>1, <2>2, CountedAnswer
  <2>3. CASE d # c \/ casts[c].result # "none"
    BY <1>1, <1>2, <1>3, <1>4, <2>1, <2>3, AnswersFollow
  <2> QED
    BY <2>2, <2>3
<1> QED
  BY <1>4, <1>6, <1>7, <1>8 DEF BroadcastInv, Moved

\* A collection ends without a packet having moved.
LEMMA EndFacts ==
  ASSUME BroadcastInv, NEW c \in DOMAIN casts, NEW result \in {"ok", "timeout"},
         casts' = [casts EXCEPT ![c].result = result],
         result = "ok" => \A s \in Sids : casts[c].place[s] = "unrouted",
         result = "timeout" => \E s \in Sids : casts[c].place[s] # "unrouted"
  PROVE  /\ casts' \in Seq(Messages) /\ Len(casts') = Len(casts)
         /\ FramesOk(stack, casts')
         /\ \A q : TasksOk(q, casts) => TasksOk(q, casts')
         /\ \A d \in DOMAIN casts' : AnswersOk(casts'[d])
<1>1. \A d \in DOMAIN casts : casts[d] \in Messages /\ AnswersOk(casts[d])
  BY CastTypes DEF BroadcastInv, RoomsInv
<1>2. /\ DOMAIN casts' = DOMAIN casts
      /\ \A d \in DOMAIN casts : /\ casts'[d].place = casts[d].place
                               /\ casts'[d].responses = casts[d].responses
                               /\ casts'[d].result = IF d = c THEN result ELSE casts[d].result
  BY <1>1 DEF Messages
<1>3. casts' \in Seq(Messages) /\ Len(casts') = Len(casts)
  BY ResultTypes DEF BroadcastInv, RoomsInv
<1>4. FramesOk(stack, casts')
  <2>1. \A f : CastOk(f, casts) => CastOk(f, casts')
    BY <1>2 DEF CastOk
  <2> QED
    BY <2>1, FramesFollow DEF BroadcastInv
<1>5. ASSUME NEW q, TasksOk(q, casts) PROVE TasksOk(q, casts')
  <2>1. \A t : TaskOk(t, casts) => TaskOk(t, casts')
    BY <1>2 DEF TaskOk
  <2> QED
    BY <1>5, <2>1, TasksFollow
<1>6. \A d \in DOMAIN casts' : AnswersOk(casts'[d])
  BY <1>1, <1>2 DEF AnswersOk
<1> QED
  BY <1>3, <1>4, <1>5, <1>6

LEMMA EndInv ==
  ASSUME BroadcastInv, RunEmpty \/ \E c \in DOMAIN casts : Timeout(c)
  PROVE  BroadcastInv'
<1>1. TypeOK /\ RoomsInv
  BY DEF BroadcastInv, RoomsInv
<1>2. CASE RunEmpty
  <2>1. /\ microtasks # <<>> /\ Task.op = "empty" /\ microtasks' = Tail(microtasks)
        /\ casts' = [casts EXCEPT ![Task.of].result = "ok"]
        /\ UNCHANGED <<roomVars, socketVars, changes, stack>>
    BY <1>2 DEF RunEmpty, Due, Task
  <2>2. /\ microtasks' \in Seq(Tasks) /\ TasksOk(microtasks', casts) /\ TaskOk(Task, casts)
    BY <1>1, <2>1, FirstTask, TasksTail DEF Task, BroadcastInv, TypeOK
  <2>3. Task.of \in DOMAIN casts /\ \A s \in Sids : casts[Task.of].place[s] = "unrouted"
    BY <2>1, <2>2 DEF TaskOk
  <2>4. /\ casts' \in Seq(Messages) /\ Len(casts') = Len(casts)
        /\ FramesOk(stack', casts') /\ TasksOk(microtasks', casts')
        /\ \A d \in DOMAIN casts' : AnswersOk(casts'[d])
    BY <2>1, <2>2, <2>3, EndFacts
  <2>5. RoomsInv'
    BY <1>1, <2>1, <2>2, <2>4, ViewsKept DEF RoomsInv, TypeOK, roomVars, socketVars
  <2> QED
    BY <2>4, <2>5 DEF BroadcastInv
<1>3. ASSUME NEW c \in DOMAIN casts, Timeout(c) PROVE BroadcastInv'
  <2>1. /\ casts' = [casts EXCEPT ![c].result = "timeout"]
        /\ \E s \in Sids : casts[c].place[s] # "unrouted"
        /\ UNCHANGED <<roomVars, socketVars, changes, microtasks, stack>>
    BY <1>3 DEF Timeout, Chosen, runVars
  <2>2. /\ casts' \in Seq(Messages) /\ Len(casts') = Len(casts)
        /\ FramesOk(stack', casts') /\ TasksOk(microtasks', casts')
        /\ \A d \in DOMAIN casts' : AnswersOk(casts'[d])
    BY <2>1, EndFacts DEF BroadcastInv
  <2>3. RoomsInv'
    BY <1>1, <2>1, <2>2, ViewsKept DEF RoomsInv, TypeOK, roomVars, socketVars
  <2> QED
    BY <2>2, <2>3 DEF BroadcastInv
<1> QED
  BY <1>2, <1>3

-----------------------------------------------------------------------------
(* Bulk disconnects.                                                       *)

\* A bulk disconnect has begun, or found begun, the teardown of those it has left; a
\* teardown that has begun is over, or runs, or waits.
BulkInv ==
  /\ \A f \in Elements(stack) :
       f.op = "bulk" => \A s \in f.chosen : s \in f.rest \/ s \in torn
  /\ \A s \in torn :
       \/ s \in cleaned
       \/ \E f \in Elements(stack) : f.op = "disconnecting" /\ f.of = s
       \/ \E t \in Elements(microtasks) : t.op = "teardown" /\ t.of = s

\* Steps that begin no teardown and end none.
LEMMA BulkKept ==
  ASSUME BulkInv, torn' = torn, cleaned \subseteq cleaned',
         \A f \in Elements(stack) : f.op = "disconnecting" => f \in Elements(stack'),
         \A f \in Elements(stack') :
           f.op = "bulk" => f \in Elements(stack) \/ f.chosen \subseteq f.rest,
         \A t \in Elements(microtasks) : t.op = "teardown" => t \in Elements(microtasks')
  PROVE  BulkInv'
<1>1. \A f \in Elements(stack') :
        f.op = "bulk" => \A s \in f.chosen : s \in f.rest \/ s \in torn'
  BY DEF BulkInv
<1>2. ASSUME NEW s \in torn'
      PROVE  \/ s \in cleaned'
             \/ \E f \in Elements(stack') : f.op = "disconnecting" /\ f.of = s
             \/ \E t \in Elements(microtasks') : t.op = "teardown" /\ t.of = s
  BY <1>2 DEF BulkInv
<1> QED
  BY <1>1, <1>2 DEF BulkInv

\* What the next tasks leave of those before.
LEMMA TasksElements ==
  ASSUME TypeOK,
         \/ UNCHANGED microtasks
         \/ microtasks # <<>> /\ Task.op # "teardown" /\ microtasks' = Tail(microtasks)
         \/ \E t \in Tasks : Defer(t)
  PROVE  \A t \in Elements(microtasks) : t.op = "teardown" => t \in Elements(microtasks')
<1>1. microtasks \in Seq(Tasks)
  BY DEF TypeOK
<1>2. CASE microtasks # <<>> /\ Task.op # "teardown" /\ microtasks' = Tail(microtasks)
  BY <1>1, <1>2, TailElements DEF Task
<1>3. CASE \E t \in Tasks : Defer(t)
  BY <1>1, <1>3, AppendElements DEF Defer
<1> QED
  BY <1>2, <1>3

\* What the next frames leave of those before, and add to them.
LEMMA FramesElements ==
  ASSUME TypeOK, NEW below,
         below = stack \/ (stack # <<>> /\ Frame.op # "disconnecting" /\ below = Tail(stack)),
         \/ stack' = below
         \/ \E f \in Frames : /\ f.op = "bulk" => f.chosen \subseteq f.rest
                             /\ stack' = <<f>> \o below
  PROVE  /\ \A f \in Elements(stack) : f.op = "disconnecting" => f \in Elements(stack')
         /\ \A f \in Elements(stack') :
              f.op = "bulk" => f \in Elements(stack) \/ f.chosen \subseteq f.rest
<1>1. stack \in Seq(Frames)
  BY DEF TypeOK
<1>2. /\ below \in Seq(Frames) /\ Elements(below) \subseteq Elements(stack)
      /\ \A f \in Elements(stack) : f.op = "disconnecting" => f \in Elements(below)
  <2>1. CASE stack # <<>> /\ Frame.op # "disconnecting" /\ below = Tail(stack)
    BY <1>1, <2>1, TailElements, TailFacts DEF Frame
  <2> QED
    BY <1>1, <2>1
<1>3. ASSUME NEW f \in Frames PROVE Elements(<<f>> \o below) = {f} \cup Elements(below)
  BY <1>2, PushElements
<1> QED
  BY <1>2, <1>3

\* A teardown begins, with whatever its caller left on the stack.
LEMMA BulkTeardown ==
  ASSUME TypeOK, BulkInv, UNCHANGED <<cleaned, microtasks>>, NEW s \in Sids,
         NEW below \in Seq(Frames), Teardown(s, below),
         \A f \in Elements(stack) : f.op = "disconnecting" => f \in Elements(below),
         \A f \in Elements(below) :
           f.op = "bulk" => \A q \in f.chosen : q \in f.rest \/ q \in torn \cup {s}
  PROVE  BulkInv'
<1> DEFINE top == [op |-> "disconnecting", of |-> s, sync |-> TRUE]
<1>1. top \in Frames /\ stack' = <<top>> \o below /\ torn' = torn \cup {s}
  BY DEF Teardown, Frames
<1>2. Elements(stack') = {top} \cup Elements(below)
  BY <1>1, PushElements
<1>3. top.op = "disconnecting" /\ top.of = s
  OBVIOUS
<1> HIDE DEF top
<1>4. \A f \in Elements(stack') :
        f.op = "bulk" => \A q \in f.chosen : q \in f.rest \/ q \in torn'
  BY <1>1, <1>2, <1>3
<1>5. ASSUME NEW q \in torn'
      PROVE  \/ q \in cleaned'
             \/ \E f \in Elements(stack') : f.op = "disconnecting" /\ f.of = q
             \/ \E t \in Elements(microtasks') : t.op = "teardown" /\ t.of = q
  <2>1. CASE q = s
    BY <1>2, <1>3, <2>1
  <2>2. CASE q \in torn
    BY <1>2, <2>2 DEF BulkInv
  <2> QED
    BY <1>1, <2>1, <2>2
<1> QED
  BY <1>4, <1>5 DEF BulkInv

\* Every other step of the application.
LEMMA BulkApplication ==
  ASSUME TypeOK, BulkInv, Application PROVE BulkInv'
<1>1. ASSUME NEW s \in Sids, ServerDisconnect(s) PROVE BulkInv'
  <2>1. /\ Teardown(s, stack) /\ UNCHANGED <<cleaned, microtasks>> /\ stack \in Seq(Frames)
    BY <1>1 DEF ServerDisconnect, roomVars, TypeOK
  <2> QED
    BY <2>1, BulkTeardown DEF BulkInv
<1>2. ASSUME NEW s \in Sids,
             \/ \E r \in SharedRooms \cup {s} : Join(s, r) \/ Leave(s, r)
             \/ SetDropped(s) \/ Abandon(s)
      PROVE  BulkInv'
  <2>1. /\ UNCHANGED <<torn, stack, microtasks>> /\ cleaned \subseteq cleaned'
    BY <1>2 DEF Join, Leave, SetDropped, Abandon, CleanupMembership, socketVars, runVars, roomVars
  <2> QED
    BY <2>1 DEF BulkInv
<1>3. ASSUME NEW s \in Sids, ClientDisconnect(s) PROVE BulkInv'
  <2>1. [op |-> "leaving", of |-> s] \in Frames
    BY DEF Frames
  <2>2. /\ UNCHANGED <<torn, cleaned, microtasks>>
        /\ stack' = <<[op |-> "leaving", of |-> s]>> \o stack
    BY <1>3 DEF ClientDisconnect, roomVars
  <2> QED
    BY <2>1, <2>2, FramesElements, TasksElements, BulkKept
<1>4. ASSUME NEW o \in Operators, DisconnectSockets(o) PROVE BulkInv'
  <2> DEFINE f == [op |-> "bulk", chosen |-> ManagementSockets(o), rest |-> ManagementSockets(o)]
  <2>1. f \in Frames /\ f.chosen \subseteq f.rest
    BY DEF ManagementSockets, TypeOK, Frames
  <2>2. UNCHANGED <<torn, cleaned, microtasks>> /\ stack' = <<f>> \o stack
    BY <1>4 DEF DisconnectSockets, roomVars, socketVars
  <2> QED
    BY <2>1, <2>2, FramesElements, TasksElements, BulkKept
<1>5. ASSUME NEW o \in Operators, NEW volatile \in BOOLEAN, NEW ack \in BOOLEAN,
             Emit(o, volatile, ack)
      PROVE  BulkInv'
  <2> DEFINE c == Len(casts) + 1
  <2>1. c \in Casts /\ Recipients(o, volatile) \subseteq Sids
    BY <1>5, BroadcastAssumption DEF Emit, Casts, Recipients, SocketsIn, TypeOK
  <2>2. UNCHANGED <<torn, cleaned>>
    BY <1>5 DEF Emit, roomVars, socketVars
  <2>3. \/ stack' = stack
        \/ \E f \in Frames : f.op # "bulk" /\ stack' = <<f>> \o stack
    <3>1. \A s \in Recipients(o, volatile) :
            [op |-> "cast", of |-> c, to |-> s, was |-> client[s] = "online",
             rest |-> Recipients(o, volatile) \ {s}] \in Frames
      BY <2>1 DEF Frames
    <3> QED
      BY <1>5, <3>1 DEF Emit, Observe
  <2>4. UNCHANGED microtasks \/ \E t \in Tasks : Defer(t)
    <3>1. [op |-> "empty", of |-> c] \in Tasks
      BY <2>1 DEF Tasks
    <3> QED
      BY <1>5, <3>1 DEF Emit, AnswerEmpty
  <2> QED
    BY <2>2, <2>3, <2>4, FramesElements, TasksElements, BulkKept
<1>6. ASSUME NEW c \in DOMAIN casts, NEW s \in Sids, Answer(c, s) PROVE BulkInv'
  <2>1. [op |-> "answer", of |-> c, from |-> s] \in Tasks
    BY CastTypes DEF Tasks
  <2>2. /\ UNCHANGED <<torn, cleaned, stack>> /\ \E t \in Tasks : Defer(t)
    BY <1>6, <2>1 DEF Answer, roomVars, socketVars
  <2> QED
    BY <2>2, FramesElements, TasksElements, BulkKept
<1> QED
  BY <1>1, <1>2, <1>3, <1>4, <1>5, <1>6 DEF Application

LEMMA BulkCallback ==
  ASSUME TypeOK, BulkInv, CallbackReturns PROVE BulkInv'
<1>1. /\ stack # <<>> /\ Frame \in Frames /\ Tail(stack) \in Seq(Frames)
      /\ stack \in Seq(Frames) /\ Elements(stack) = {Frame} \cup Elements(Tail(stack))
  <2>1. stack # <<>>
    BY DEF CallbackReturns, ConnectionReturns, LeavingReturns, DisconnectingReturns,
           DisconnectReturns, CastReturns, Returning
  <2> QED
    BY <2>1, TopFrame, TailElements DEF TypeOK, Frame
<1>2. CASE ConnectionReturns
  <2>1. /\ stack' = Tail(stack) /\ Frame.op = "connection"
        /\ UNCHANGED <<torn, cleaned, microtasks>>
    BY <1>2 DEF ConnectionReturns, Returning, Frame, roomVars
  <2> QED
    BY <1>1, <2>1, FramesElements, TasksElements, BulkKept
<1>3. CASE LeavingReturns
  <2> DEFINE t == [op |-> "teardown", of |-> Frame.of]
  <2>1. /\ stack' = Tail(stack) /\ Frame.op = "leaving" /\ Frame.of \in Sids
        /\ cleaned' = cleaned /\ torn' = torn \cup {Frame.of}
    BY <1>1, <1>3, FrameTypes DEF LeavingReturns, Returning, Frame, roomVars
  <2>2. CASE Frame.of \in torn
    <3>1. torn' = torn /\ UNCHANGED microtasks
      BY <1>3, <2>1, <2>2 DEF LeavingReturns
    <3> QED
      BY <1>1, <2>1, <3>1, FramesElements, TasksElements, BulkKept
  <2>3. CASE Frame.of \notin torn
    <3>1. t \in Tasks /\ Defer(t) /\ microtasks \in Seq(Tasks)
      BY <1>3, <2>1, <2>3 DEF LeavingReturns, Tasks, TypeOK
    <3>2. Elements(microtasks') = Elements(microtasks) \cup {t}
      BY <3>1, AppendElements DEF Defer
    <3>3. /\ \A f \in Elements(stack) : f.op = "disconnecting" => f \in Elements(stack')
          /\ Elements(stack') \subseteq Elements(stack)
      BY <1>1, <2>1
    <3>4. t.op = "teardown" /\ t.of = Frame.of
      OBVIOUS
    <3> HIDE DEF t
    <3>5. \A f \in Elements(stack') :
            f.op = "bulk" => \A s \in f.chosen : s \in f.rest \/ s \in torn'
      BY <2>1, <3>3 DEF BulkInv
    <3>6. ASSUME NEW s \in torn'
          PROVE  \/ s \in cleaned'
                 \/ \E f \in Elements(stack') : f.op = "disconnecting" /\ f.of = s
                 \/ \E u \in Elements(microtasks') : u.op = "teardown" /\ u.of = s
      <4>1. CASE s \in torn
        BY <2>1, <3>2, <3>3, <4>1 DEF BulkInv
      <4>2. CASE s = Frame.of
        BY <3>2, <3>4, <4>2
      <4> QED
        BY <2>1, <4>1, <4>2
    <3> QED
      BY <3>5, <3>6 DEF BulkInv
  <2> QED
    BY <2>2, <2>3
<1>4. CASE DisconnectingReturns
  <2> DEFINE f == [Frame EXCEPT !.op = "disconnect"]
  <2>1. /\ Frame.op = "disconnecting" /\ Frame.of \in Sids
        /\ f \in Frames /\ f.op = "disconnect" /\ stack' = <<f>> \o Tail(stack)
        /\ UNCHANGED <<torn, microtasks>> /\ cleaned' = cleaned \cup {Frame.of}
    <3>1. Frame.op = "disconnecting" /\ Frame.of \in Sids
      BY <1>1, <1>4, FrameTypes DEF DisconnectingReturns, Returning, Frame
    <3>2. f \in Frames /\ f.op = "disconnect"
      BY <1>1, <3>1, FrameTypes DEF Frames
    <3>3. cleaned' = cleaned \cup {Frame.of}
      BY <1>4, <3>1 DEF DisconnectingReturns, CleanupMembership, roomVars
    <3> QED
      BY <1>4, <3>1, <3>2, <3>3 DEF DisconnectingReturns, socketVars
  <2>2. Elements(stack') = {f} \cup Elements(Tail(stack))
    BY <1>1, <2>1, PushElements
  <2> HIDE DEF f
  <2>3. \A g \in Elements(stack') :
          g.op = "bulk" => \A s \in g.chosen : s \in g.rest \/ s \in torn'
    BY <1>1, <2>1, <2>2 DEF BulkInv
  <2>4. ASSUME NEW s \in torn'
        PROVE  \/ s \in cleaned'
               \/ \E g \in Elements(stack') : g.op = "disconnecting" /\ g.of = s
               \/ \E t \in Elements(microtasks') : t.op = "teardown" /\ t.of = s
    BY <1>1, <2>1, <2>2, <2>4 DEF BulkInv
  <2> QED
    BY <2>3, <2>4 DEF BulkInv
<1>5. CASE DisconnectReturns
  <2>1. /\ stack' = Tail(stack) /\ Frame.op = "disconnect" /\ Frame.of \in Sids
        /\ UNCHANGED <<torn, cleaned>>
    BY <1>1, <1>5, FrameTypes DEF DisconnectReturns, Returning, Frame, roomVars, socketVars
  <2>2. UNCHANGED microtasks \/ \E t \in Tasks : Defer(t)
    <3>1. [op |-> "leave", of |-> Frame.of] \in Tasks
      BY <2>1 DEF Tasks
    <3> QED
      BY <1>5, <3>1 DEF DisconnectReturns
  <2> QED
    BY <1>1, <2>1, <2>2, FramesElements, TasksElements, BulkKept
<1>6. CASE CastReturns
  <2>1. /\ Frame.op = "cast" /\ Frame.of \in Casts /\ Frame.to \in Sids
        /\ Frame.rest \subseteq Sids /\ UNCHANGED <<torn, cleaned>>
    BY <1>1, <1>6, FrameTypes DEF CastReturns, Returning, Frame, roomVars, socketVars
  <2>2. \/ stack' = Tail(stack)
        \/ \E f \in Frames : f.op # "bulk" /\ stack' = <<f>> \o Tail(stack)
    <3>1. \A s \in Frame.rest :
            [op |-> "cast", of |-> Frame.of, to |-> s, was |-> client[s] = "online",
             rest |-> Frame.rest \ {s}] \in Frames
      BY <2>1 DEF Frames
    <3> QED
      BY <1>6, <3>1 DEF CastReturns, Observe
  <2>3. UNCHANGED microtasks \/ \E t \in Tasks : Defer(t)
    <3>1. [op |-> "deliver", of |-> Frame.of, to |-> Frame.to,
           kept |-> Frame.was /\ client[Frame.to] # "online"] \in Tasks
      <4>1. (Frame.was /\ client[Frame.to] # "online") \in BOOLEAN
        OBVIOUS
      <4> QED
        BY <2>1, <4>1 DEF Tasks
    <3> QED
      BY <1>6, <3>1 DEF CastReturns
  <2> QED
    BY <1>1, <2>1, <2>2, <2>3, FramesElements, TasksElements, BulkKept
<1> QED
  BY <1>2, <1>3, <1>4, <1>5, <1>6 DEF CallbackReturns

LEMMA BulkLoop ==
  ASSUME TypeOK, BulkInv, BulkNext \/ BulkReturns PROVE BulkInv'
<1>1. /\ stack # <<>> /\ Frame \in Frames /\ Tail(stack) \in Seq(Frames)
      /\ Frame.op = "bulk" /\ Frame.chosen \subseteq Sids /\ Frame.rest \subseteq Sids
      /\ Elements(stack) = {Frame} \cup Elements(Tail(stack))
      /\ UNCHANGED <<cleaned, microtasks>>
  <2>1. stack # <<>> /\ Frame.op = "bulk" /\ UNCHANGED <<cleaned, microtasks>>
    BY DEF BulkNext, BulkReturns, Returning, Frame, roomVars
  <2> QED
    BY <2>1, TopFrame, FrameTypes, TailElements DEF TypeOK, Frame
<1>2. CASE BulkReturns
  <2>1. stack' = Tail(stack) /\ UNCHANGED torn
    BY <1>2 DEF BulkReturns, socketVars
  <2> QED
    BY <1>1, <2>1, FramesElements, TasksElements, BulkKept
<1>3. CASE BulkNext
  <2>1. PICK s \in Frame.rest :
          LET below == <<[Frame EXCEPT !.rest = @ \ {s}]>> \o Tail(stack)
          IN \/ Teardown(s, below)
             \/ s \in torn /\ stack' = below /\ UNCHANGED <<torn, acks>>
    BY <1>3 DEF BulkNext
  <2> DEFINE f == [Frame EXCEPT !.rest = Frame.rest \ {s}]
             below == <<f>> \o Tail(stack)
  <2>2. /\ f \in Frames /\ f.op = "bulk" /\ f.chosen = Frame.chosen
        /\ f.rest = Frame.rest \ {s} /\ s \in Sids
    BY <1>1, FrameTypes DEF Frames
  <2>3. below \in Seq(Frames) /\ Elements(below) = {f} \cup Elements(Tail(stack))
    BY <1>1, <2>2, PushFacts, PushElements
  <2>4. Teardown(s, below) \/ (s \in torn /\ stack' = below /\ UNCHANGED torn)
    BY <2>1
  <2> HIDE DEF f, below
  <2>5. /\ \A g \in Elements(stack) : g.op = "disconnecting" => g \in Elements(below)
        /\ \A g \in Elements(below) :
             g.op = "bulk" => \A q \in g.chosen : q \in g.rest \/ q \in torn \cup {s}
    BY <1>1, <2>2, <2>3 DEF BulkInv
  <2>6. CASE Teardown(s, below)
    BY <1>1, <2>2, <2>3, <2>5, <2>6, BulkTeardown
  <2>7. CASE s \in torn /\ stack' = below /\ UNCHANGED torn
    BY <1>1, <2>5, <2>7 DEF BulkInv
  <2> QED
    BY <2>4, <2>6, <2>7
<1> QED
  BY <1>2, <1>3

LEMMA BulkMicrotask ==
  ASSUME TypeOK, BulkInv, Microtask \/ \E c \in DOMAIN casts : Timeout(c) PROVE BulkInv'
<1>1. ASSUME NEW s \in Sids, Register(s) PROVE BulkInv'
  <2> DEFINE f == [op |-> "connection", of |-> s]
  <2>1. /\ f \in Frames /\ stack' = <<f>> \o stack /\ UNCHANGED <<torn, cleaned, microtasks>>
    BY <1>1 DEF Register, Frames, socketVars
  <2> QED
    BY <2>1, FramesElements, TasksElements, BulkKept
<1>2. CASE RunTeardown
  <2> DEFINE f == [op |-> "disconnecting", of |-> Task.of, sync |-> FALSE]
  <2>1. /\ stack = <<>> /\ microtasks # <<>> /\ Task.op = "teardown"
        /\ stack' = <<f>> /\ microtasks' = Tail(microtasks) /\ UNCHANGED <<torn, cleaned>>
    BY <1>2 DEF RunTeardown, Due, Task, roomVars
  <2>2. Elements(microtasks) = {Task} \cup Elements(microtasks')
    BY <2>1, TailElements DEF TypeOK, Task
  <2>3. Elements(stack') = {f} /\ f.op = "disconnecting" /\ f.of = Task.of
    <3>1. DOMAIN <<f>> = {1} /\ <<f>>[1] = f
      OBVIOUS
    <3>2. Elements(<<f>>) = {f}
      BY <3>1, Zenon DEF Elements
    <3> QED
      BY <2>1, <3>2
  <2>4. Elements(stack) = {}
    BY <2>1 DEF Elements
  <2> HIDE DEF f
  <2>5. ASSUME NEW s \in torn'
        PROVE  \/ s \in cleaned'
               \/ \E g \in Elements(stack') : g.op = "disconnecting" /\ g.of = s
               \/ \E t \in Elements(microtasks') : t.op = "teardown" /\ t.of = s
    BY <2>1, <2>2, <2>3, <2>4, <2>5 DEF BulkInv
  <2> QED
    BY <2>3, <2>5 DEF BulkInv
<1>3. CASE RunLeave \/ RunDeliver \/ RunAnswer \/ RunEmpty
  <2>1. /\ UNCHANGED <<torn, cleaned, stack>> /\ microtasks # <<>> /\ Task.op # "teardown"
        /\ microtasks' = Tail(microtasks)
    BY <1>3 DEF RunLeave, RunDeliver, RunAnswer, RunEmpty, Due, Task, roomVars, socketVars
  <2> QED
    BY <2>1, FramesElements, TasksElements, BulkKept
<1>4. CASE \E c \in DOMAIN casts : Timeout(c)
  BY <1>4 DEF Timeout, BulkInv, roomVars, socketVars, runVars
<1> QED
  BY <1>1, <1>2, <1>3, <1>4 DEF Microtask

-----------------------------------------------------------------------------
(* The theorems.                                                           *)

LEMMA BroadcastInit == Init => BroadcastInv
BY BroadcastAssumption
   DEF Init, BroadcastInv, RoomsInv, TypeOK, RoomViewsAgree, FramesOk, TasksOk, Frames, Tasks

LEMMA BroadcastNext == BroadcastInv /\ [Next]_vars => BroadcastInv'
<1> SUFFICES ASSUME BroadcastInv, [Next]_vars PROVE BroadcastInv'
  OBVIOUS
<1>1. CASE Application
  BY <1>1, QuietApplication, EmitInv, BulkStep, AnswerInv DEF Application
<1>2. CASE CallbackReturns
  BY <1>2, QuietCallback, CastInv DEF CallbackReturns
<1>3. CASE BulkDisconnect
  BY <1>3, BulkStep DEF BulkDisconnect
<1>4. CASE Microtask
  BY <1>4, QuietApplication, QuietMicrotask, DeliverInv, CollectInv, EndInv DEF Microtask
<1>5. CASE \E c \in DOMAIN casts : Timeout(c)
  BY <1>5, EndInv
<1>6. CASE UNCHANGED vars
  <2>1. RoomsInv'
    BY <1>6 DEF vars, roomVars, socketVars, runVars, BroadcastInv, RoomsInv, TypeOK, RoomViewsAgree
  <2> QED
    BY <1>6, <2>1 DEF vars, runVars, BroadcastInv
<1> QED
  BY <1>1, <1>2, <1>3, <1>4, <1>5, <1>6 DEF Next

LEMMA BroadcastInvariant == Spec => []BroadcastInv
<1>1. Init => BroadcastInv
  BY BroadcastInit
<1>2. BroadcastInv /\ [Next]_vars => BroadcastInv'
  BY BroadcastNext
<1> QED
  BY <1>1, <1>2, PTL DEF Spec

\* The rooms of a Socket, the Sockets of a room and the index of the adapter agree in
\* every state, whatever listeners and observers join, leave, drop and disconnect.
THEOREM RoomViewsStayTogether == Spec => []RoomsInv
<1>1. BroadcastInv => RoomsInv
  BY DEF BroadcastInv
<1> QED
  BY <1>1, BroadcastInvariant, PTL

\* A collection that succeeds has one answer of each recipient of the broadcast, and of
\* nobody else.
THEOREM SuccessIsEveryAnswer == Spec => []AllHaveAnswered
<1>1. ASSUME BroadcastInv PROVE AllHaveAnswered
  <2> SUFFICES ASSUME NEW c \in DOMAIN casts
               PROVE  LET responses == casts[c].responses
                          from == {responses[i] : i \in DOMAIN responses}
                      IN /\ Cardinality(from) = Len(responses)
                         /\ from \subseteq Chosen(c)
                         /\ casts[c].result = "ok" => from = Chosen(c)
    BY DEF AllHaveAnswered
  <2> DEFINE responses == casts[c].responses
  <2>1. AnswersOk(casts[c]) /\ casts[c] \in Messages
    BY <1>1, CastTypes DEF BroadcastInv, RoomsInv
  <2>2. responses \in Seq(Sids) /\ \A i \in DOMAIN responses : responses[i] \in Sids
    BY <2>1 DEF Messages
  <2>3. Cardinality({responses[i] : i \in DOMAIN responses}) = Len(responses)
    BY <2>1, <2>2, CountOnce DEF AnswersOk
  <2>4. \A i \in DOMAIN responses : responses[i] \in Chosen(c)
    BY <2>1, <2>2 DEF AnswersOk, Chosen
  <2>5. casts[c].result = "ok" => \A s \in Chosen(c) : \E i \in DOMAIN responses : responses[i] = s
    BY <2>1 DEF AnswersOk, Chosen
  <2> QED
    BY <2>3, <2>4, <2>5
<1> QED
  BY <1>1, BroadcastInvariant, PTL

\* A collection that has called back never calls back otherwise, and keeps the responses
\* it has shown: neither a late answer nor a late timer changes them.
THEOREM ResultsAreFinal == Spec => CollectsOnce
<1> DEFINE Final == \A c \in DOMAIN casts : casts[c].result # "none" =>
                      casts'[c].result = casts[c].result /\ casts'[c].responses = casts[c].responses
<1>1. ASSUME BroadcastInv, [Next]_vars PROVE [Final]_vars
  <2> SUFFICES ASSUME NEW c \in DOMAIN casts, casts[c].result # "none"
               PROVE  /\ casts'[c].result = casts[c].result
                      /\ casts'[c].responses = casts[c].responses
    OBVIOUS
  <2>1. TypeOK /\ \A d \in DOMAIN casts : casts[d] \in Messages
    BY <1>1, CastTypes DEF BroadcastInv, RoomsInv
  <2>2. CASE UNCHANGED casts
    BY <2>2
  <2>3. ASSUME NEW o \in Operators, NEW volatile \in BOOLEAN, NEW ack \in BOOLEAN,
               Emit(o, volatile, ack)
        PROVE  casts'[c] = casts[c]
    BY <2>1, <2>3 DEF Emit, TypeOK
  <2>4. ASSUME NEW d \in DOMAIN casts, NEW s, NEW place, Move(d, s, place)
        PROVE  casts'[c].result = casts[c].result /\ casts'[c].responses = casts[c].responses
    BY <2>1, <2>4 DEF Move, Messages
  <2>5. CASE RunDeliver
    <3>1. Task.of \in DOMAIN casts
      BY <1>1, <2>1, <2>5, TasksTail DEF RunDeliver, Due, TaskOk, Task, BroadcastInv, TypeOK
    <3> QED
      BY <2>4, <2>5, <3>1 DEF RunDeliver
  <2>6. CASE CastReturns
    <3>1. Frame.of \in DOMAIN casts
      BY <1>1, <2>1, <2>6, FramesTail DEF CastReturns, Returning, CastOk, Frame, BroadcastInv, TypeOK
    <3> QED
      BY <2>2, <2>4, <2>6, <3>1 DEF CastReturns
  <2>7. CASE RunAnswer
    BY <2>1, <2>7 DEF RunAnswer, Collect, Messages
  <2>8. CASE RunEmpty
    <3>1. TaskOk(Task, casts) /\ Task.op = "empty"
      BY <1>1, <2>1, <2>8, TasksTail DEF RunEmpty, Due, Task, BroadcastInv, TypeOK
    <3>2. Task.of = c => casts[c].result = "ok"
      BY <1>1, <2>1, <3>1 DEF TaskOk, AnswersOk, BroadcastInv, Messages
    <3> QED
      BY <2>1, <2>8, <3>2 DEF RunEmpty, Messages
  <2>9. ASSUME NEW d \in DOMAIN casts, Timeout(d)
        PROVE  casts'[c] = casts[c]
    BY <2>9 DEF Timeout
  <2> QED
    BY <1>1, <2>2, <2>3, <2>4, <2>5, <2>6, <2>7, <2>8, <2>9
       DEF Next, Application, CallbackReturns, BulkDisconnect, Microtask, Join, Leave, SetDropped,
           Abandon, ClientDisconnect, ServerDisconnect, DisconnectSockets, Answer,
           ConnectionReturns, LeavingReturns, DisconnectingReturns, DisconnectReturns,
           BulkNext, BulkReturns, Register, RunTeardown, RunLeave, vars
<1> QED
  BY <1>1, BroadcastInvariant, PTL DEF Spec, CollectsOnce

\* A bulk disconnect returns when each Socket it chose has left the roster, or is in its
\* disconnecting event further down the stack, or has its teardown among the microtasks.
THEOREM DisconnectSocketsMissesNobody == Spec => []BulkReachesAll
<1>1. Init => BulkInv
  BY DEF Init, BulkInv, Elements
<1>2. ASSUME TypeOK, BulkInv, [Next]_vars PROVE BulkInv'
  <2>1. CASE UNCHANGED vars
    BY <1>2, <2>1 DEF vars, roomVars, socketVars, runVars, BulkInv
  <2> QED
    BY <1>2, <2>1, BulkApplication, BulkCallback, BulkLoop, BulkMicrotask DEF Next, BulkDisconnect
<1>3. ASSUME TypeOK, BulkInv PROVE BulkReachesAll
  <2> SUFFICES ASSUME Returning("bulk"), Frame.rest = {},
                      NEW s \in (Frame.chosen \cap roster) \ cleaned
               PROVE  \/ \E i \in DOMAIN stack : stack[i].op = "disconnecting" /\ stack[i].of = s
                      \/ \E i \in DOMAIN microtasks :
                           microtasks[i].op = "teardown" /\ microtasks[i].of = s
    BY DEF BulkReachesAll
  <2>1. Frame \in Elements(stack) /\ Frame.op = "bulk"
    BY <1>3, TailElements DEF Returning, Frame, TypeOK
  <2>2. s \in torn
    BY <1>3, <2>1 DEF BulkInv
  <2> QED
    BY <1>3, <2>2 DEF BulkInv, Elements
<1>4. BroadcastInv => TypeOK
  BY DEF BroadcastInv, RoomsInv
<1> QED
  BY <1>1, <1>2, <1>3, <1>4, BroadcastInvariant, PTL DEF Spec

=============================================================================
