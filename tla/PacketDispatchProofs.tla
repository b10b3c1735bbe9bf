------------------------ MODULE PacketDispatchProofs ------------------------
(***************************************************************************)
(* For any number of packets, middleware, listeners and calls of `next`:    *)
(* PacketDispatch implements PacketPipeline, a once() listener runs once,   *)
(* at rest both sides agree, and the registries hold what was registered.   *)
(***************************************************************************)
EXTENDS PacketDispatch, SequenceTheorems, FiniteSetTheorems, TLAPS

-----------------------------------------------------------------------------
(* The stack and the queue as sequences.                                   *)

LEMMA PushFacts ==
  ASSUME NEW S, NEW q \in Seq(S), NEW e \in S
  PROVE  LET p == <<e>> \o q
         IN /\ p \in Seq(S) /\ Len(p) = Len(q) + 1 /\ p # <<>>
            /\ Head(p) = e /\ p[1] = e
            /\ \A i \in 1..Len(q) : p[i + 1] = q[i]
            /\ \A i \in 2..Len(p) : i - 1 \in 1..Len(q) /\ p[i] = q[i - 1]
OBVIOUS

LEMMA TailFacts ==
  ASSUME NEW S, NEW q \in Seq(S), q # <<>>
  PROVE  /\ Head(q) = q[1] /\ q[1] \in S
         /\ Tail(q) \in Seq(S) /\ Len(Tail(q)) = Len(q) - 1
         /\ \A i \in 1..Len(Tail(q)) : i + 1 \in 1..Len(q) /\ Tail(q)[i] = q[i + 1]
OBVIOUS

LEMMA AppendFacts ==
  ASSUME NEW S, NEW q \in Seq(S), NEW e \in S
  PROVE  /\ Append(q, e) \in Seq(S) /\ Len(Append(q, e)) = Len(q) + 1
         /\ \A i \in 1..Len(q) : Append(q, e)[i] = q[i]
         /\ Append(q, e)[Len(q) + 1] = e
OBVIOUS

\* The set of what is in a sequence.
Elements(q) == {q[i] : i \in DOMAIN q}

LEMMA PushElements ==
  ASSUME NEW S, NEW q \in Seq(S), NEW e \in S
  PROVE  Elements(<<e>> \o q) = {e} \cup Elements(q)
<1> DEFINE p == <<e>> \o q
<1>1. /\ DOMAIN p = 1..(Len(q) + 1) /\ DOMAIN q = 1..Len(q) /\ Len(q) \in Nat /\ p[1] = e
      /\ \A i \in 1..Len(q) : p[i + 1] = q[i]
      /\ \A i \in DOMAIN p : i = 1 \/ (i - 1 \in 1..Len(q) /\ p[i] = q[i - 1])
  BY PushFacts
<1> HIDE DEF p
<1>2. \A i \in DOMAIN q : i + 1 \in DOMAIN p /\ 1 \in DOMAIN p
  BY <1>1
<1>3. 1 \in DOMAIN p
  BY <1>1
<1> QED
  BY <1>1, <1>2, <1>3 DEF Elements, p

LEMMA TailElements ==
  ASSUME NEW S, NEW q \in Seq(S), q # <<>>
  PROVE  Elements(q) = {Head(q)} \cup Elements(Tail(q))
<1>1. <<Head(q)>> \o Tail(q) = q /\ Tail(q) \in Seq(S) /\ Head(q) \in S
  OBVIOUS
<1> QED
  BY <1>1, PushElements

LEMMA AppendElements ==
  ASSUME NEW S, NEW q \in Seq(S), NEW e \in S
  PROVE  Elements(Append(q, e)) = Elements(q) \cup {e}
<1> DEFINE p == Append(q, e)
<1>1. /\ DOMAIN p = 1..(Len(q) + 1) /\ DOMAIN q = 1..Len(q) /\ Len(q) \in Nat
      /\ p[Len(q) + 1] = e /\ \A i \in DOMAIN q : p[i] = q[i]
  BY AppendFacts
<1>2. /\ \A i \in DOMAIN p : i = Len(q) + 1 \/ i \in DOMAIN q
      /\ Len(q) + 1 \in DOMAIN p /\ \A i \in DOMAIN q : i \in DOMAIN p
  BY <1>1
<1> HIDE DEF p
<1> QED
  BY <1>1, <1>2 DEF Elements, p

-----------------------------------------------------------------------------
(* The invariant.                                                          *)

IsStack(q) == \E S : q \in Seq(S)

DataOk ==
  /\ clientOn \in BOOLEAN /\ active \in BOOLEAN /\ clientDrain \in BOOLEAN
  /\ ended \in BOOLEAN /\ broken \in BOOLEAN
  /\ torn \in {"no", "client", "drain", "server", "close"}
  /\ sent \in 0..MaxPackets /\ taken \in 0..sent
  /\ microtasks \in Seq(Tasks) /\ IsStack(stack)
  /\ passed \in [Packets -> Nat] /\ named \in [Packets -> Nat]

\* How the guard of the deliveries follows the teardown.
PhaseOk ==
  /\ torn = "no" => active /\ ~clientDrain
  /\ active => torn \in {"no", "drain"} /\ ~clientDrain
  /\ clientDrain => torn = "drain"
  /\ torn \in {"client", "drain"} => ~clientOn
  /\ ended => torn # "no"

\* A loop knows the packet it is for; the direct dispatch is of the packet just taken.
FramesOk ==
  \A f \in Elements(stack) :
    /\ f.op \in {"any", "anyDirect"} => f.of \in Packets /\ f.of <= taken
    /\ f.op = "anyDirect" => f.of = taken
    /\ f.op = "left" => ~clientOn
    /\ f.op \in Lifecycle => torn # "no"

HeldOk == \A h \in held : h[1] \in Packets /\ h[1] <= taken

\* A teardown waits once, and behind what it lets through; the peer is told by a server.
TeardownOk ==
  \A i \in DOMAIN microtasks :
    /\ microtasks[i].op = "teardown" =>
         /\ torn \in {"client", "drain", "close"}
         /\ torn = "drain" => active
         /\ \A j \in DOMAIN microtasks : microtasks[j].op = "teardown" => i = j
         /\ torn = "drain" => \A j \in DOMAIN microtasks : microtasks[j].op = "deliver" => j < i
    /\ microtasks[i].op = "peer" => torn \in {"server", "close"}

\* As long as they are taken, the packets sent and not yet taken wait in their order.
OrderOk ==
  active =>
    /\ \A i \in DOMAIN microtasks :
         microtasks[i].op = "deliver" =>
           /\ taken < microtasks[i].of /\ microtasks[i].of <= sent
           /\ \A j \in DOMAIN microtasks :
                i < j /\ microtasks[j].op = "deliver" => microtasks[i].of < microtasks[j].of
    /\ \A p \in Packets :
         taken < p /\ p <= sent => \E i \in DOMAIN microtasks : microtasks[i] = [op |-> "deliver", of |-> p]

\* The named dispatches of a packet that wait.
Waiting(q, p) == {i \in DOMAIN q : q[i].op = "named" /\ q[i].of = p}

\* A chain that passed is dispatched, waits, or has been cut off.
CountOk ==
  \A p \in Packets :
    /\ named[p] + Cardinality(Waiting(microtasks, p)) <= passed[p]
    /\ torn = "no" => named[p] + Cardinality(Waiting(microtasks, p)) = passed[p]

\* Whoever ended the connection, what remains to be done for it is under way.
EndOk ==
  /\ ~clientOn => \/ torn # "no" \/ broken
                  \/ \E f \in Elements(stack) : f.op = "left"
  /\ torn # "no" => \/ ended \/ broken
                    \/ \E f \in Elements(stack) : f.op \in Lifecycle
                    \/ \E t \in Elements(microtasks) : t.op = "teardown"
  /\ ended /\ torn \in {"server", "close"} =>
       \/ ~clientOn
       \/ \E t \in Elements(microtasks) : t.op = "peer"

OnceOk == ran \subseteq fired /\ ranAgain = {}

PacketInv ==
  /\ DataOk /\ PhaseOk /\ FramesOk /\ HeldOk /\ TeardownOk /\ OrderOk /\ CountOk /\ EndOk /\ OnceOk

-----------------------------------------------------------------------------
(* The stack and the microtasks.                                           *)

LEMMA StackPush ==
  ASSUME NEW q, IsStack(q), NEW f
  PROVE  IsStack(<<f>> \o q) /\ Elements(<<f>> \o q) = {f} \cup Elements(q)
<1>1. PICK S : q \in Seq(S)
  BY DEF IsStack
<1>2. q \in Seq(S \cup {f}) /\ f \in S \cup {f}
  BY <1>1
<1>3. (<<f>> \o q) \in Seq(S \cup {f})
  BY <1>2, PushFacts
<1> QED
  BY <1>2, <1>3, PushElements DEF IsStack

LEMMA StackPop ==
  ASSUME NEW q, IsStack(q), q # <<>>
  PROVE  IsStack(Tail(q)) /\ Elements(q) = {Head(q)} \cup Elements(Tail(q))
<1>1. PICK S : q \in Seq(S)
  BY DEF IsStack
<1> QED
  BY <1>1, TailFacts, TailElements DEF IsStack

\* The number of what waits for a packet.
LEMMA WaitingIsFinite ==
  ASSUME NEW q \in Seq(Tasks), NEW p
  PROVE  IsFiniteSet(Waiting(q, p)) /\ Cardinality(Waiting(q, p)) \in Nat
<1>1. IsFiniteSet(1..Len(q))
  BY FS_Interval
<1>2. Waiting(q, p) \subseteq 1..Len(q)
  BY DEF Waiting
<1> QED
  BY <1>1, <1>2, FS_Subset, FS_CardinalityType

LEMMA WaitingAppend ==
  ASSUME NEW q \in Seq(Tasks), NEW t \in Tasks, NEW p
  PROVE  Cardinality(Waiting(Append(q, t), p)) =
           Cardinality(Waiting(q, p)) + IF t.op = "named" /\ t.of = p THEN 1 ELSE 0
<1> DEFINE a == Append(q, t)
           n == Len(q) + 1
<1>1. /\ DOMAIN a = 1..n /\ DOMAIN q = 1..Len(q) /\ Len(q) \in Nat /\ a[n] = t
      /\ \A i \in 1..Len(q) : a[i] = q[i]
  BY AppendFacts
<1>2. \A i : i \in DOMAIN a <=> i \in DOMAIN q \/ i = n
  BY <1>1
<1>3. n \notin DOMAIN q
  BY <1>1
<1> HIDE DEF a, n
<1>4. CASE t.op = "named" /\ t.of = p
  <2>1. Waiting(a, p) = Waiting(q, p) \cup {n} /\ n \notin Waiting(q, p)
    BY <1>1, <1>2, <1>3, <1>4 DEF Waiting
  <2> QED
    BY <1>4, <2>1, WaitingIsFinite, FS_AddElement DEF a
<1>5. CASE ~(t.op = "named" /\ t.of = p)
  <2>1. Waiting(a, p) = Waiting(q, p)
    BY <1>1, <1>2, <1>3, <1>5 DEF Waiting
  <2> QED
    BY <1>5, <2>1, WaitingIsFinite DEF a
<1> QED
  BY <1>4, <1>5

LEMMA WaitingTail ==
  ASSUME NEW q \in Seq(Tasks), q # <<>>, NEW p
  PROVE  Cardinality(Waiting(q, p)) =
           Cardinality(Waiting(Tail(q), p)) + IF q[1].op = "named" /\ q[1].of = p THEN 1 ELSE 0
<1> DEFINE rest == Waiting(q, p) \ {1}
           f == [i \in Waiting(Tail(q), p) |-> i + 1]
<1>1. /\ DOMAIN q = 1..Len(q) /\ DOMAIN Tail(q) = 1..Len(Tail(q)) /\ Len(q) \in Nat
      /\ Tail(q) \in Seq(Tasks) /\ Len(q) = Len(Tail(q)) + 1 /\ 1 \in DOMAIN q
      /\ \A i \in DOMAIN Tail(q) : i + 1 \in DOMAIN q /\ i + 1 # 1 /\ Tail(q)[i] = q[i + 1]
  BY TailFacts
<1>2. \A i \in DOMAIN q : i # 1 => i - 1 \in DOMAIN Tail(q) /\ (i - 1) + 1 = i
  BY <1>1
<1>3. f \in [Waiting(Tail(q), p) -> rest]
  BY <1>1 DEF Waiting
<1>4. \A i, j \in Waiting(Tail(q), p) : f[i] = f[j] => i = j
  BY <1>1 DEF Waiting
<1>5. ASSUME NEW i \in rest PROVE \E j \in Waiting(Tail(q), p) : f[j] = i
  <2>1. i - 1 \in Waiting(Tail(q), p) /\ (i - 1) + 1 = i
    BY <1>1, <1>2 DEF Waiting
  <2> QED
    BY <2>1
<1>6. f \in Bijection(Waiting(Tail(q), p), rest)
  BY <1>3, <1>4, <1>5 DEF Bijection, Injection, Surjection, IsInjective
<1> HIDE DEF f
<1>7. Cardinality(rest) = Cardinality(Waiting(Tail(q), p))
  <2>1. IsFiniteSet(Waiting(Tail(q), p))
    BY <1>1, WaitingIsFinite
  <2>2. ExistsBijection(Waiting(Tail(q), p), rest)
    BY <1>6 DEF ExistsBijection
  <2> QED
    BY <2>1, <2>2, FS_Bijection
<1>8. Cardinality(rest) = IF 1 \in Waiting(q, p) THEN Cardinality(Waiting(q, p)) - 1
                          ELSE Cardinality(Waiting(q, p))
  BY WaitingIsFinite, FS_RemoveElement
<1>9. 1 \in Waiting(q, p) <=> q[1].op = "named" /\ q[1].of = p
  BY <1>1 DEF Waiting
<1>10. Cardinality(Waiting(q, p)) \in Nat /\ Cardinality(Waiting(Tail(q), p)) \in Nat
  BY <1>1, WaitingIsFinite
<1> QED
  BY <1>7, <1>8, <1>9, <1>10

\* A task is taken from the front, or put at the end.
LEMMA Consumed ==
  ASSUME DataOk, microtasks # <<>>, Consume
  PROVE  /\ microtasks' \in Seq(Tasks) /\ Head(microtasks) = microtasks[1]
         /\ microtasks[1] \in Tasks /\ 1 \in DOMAIN microtasks
         /\ DOMAIN microtasks \subseteq Nat /\ DOMAIN microtasks' \subseteq Nat
         /\ \A i \in DOMAIN microtasks' :
              i + 1 \in DOMAIN microtasks /\ i + 1 # 1 /\ microtasks'[i] = microtasks[i + 1]
         /\ \A i \in DOMAIN microtasks :
              i = 1 \/ (i - 1 \in DOMAIN microtasks' /\ microtasks'[i - 1] = microtasks[i])
         /\ Elements(microtasks) = {microtasks[1]} \cup Elements(microtasks')
         /\ \A p \in Packets :
              Cardinality(Waiting(microtasks, p)) =
                Cardinality(Waiting(microtasks', p))
                  + IF microtasks[1].op = "named" /\ microtasks[1].of = p THEN 1 ELSE 0
<1>1. microtasks \in Seq(Tasks) /\ microtasks' = Tail(microtasks)
  BY DEF DataOk, Consume
<1>2. microtasks' \in Seq(Tasks) /\ Head(microtasks) = microtasks[1] /\ microtasks[1] \in Tasks
  BY <1>1, TailFacts
<1>3. Elements(microtasks) = {microtasks[1]} \cup Elements(microtasks')
  BY <1>1, <1>2, TailElements
<1>4. \A p \in Packets :
        Cardinality(Waiting(microtasks, p)) =
          Cardinality(Waiting(microtasks', p))
            + IF microtasks[1].op = "named" /\ microtasks[1].of = p THEN 1 ELSE 0
  BY <1>1, WaitingTail
<1>5. /\ 1 \in DOMAIN microtasks
      /\ DOMAIN microtasks \subseteq Nat /\ DOMAIN microtasks' \subseteq Nat
      /\ \A i \in DOMAIN microtasks' :
           i + 1 \in DOMAIN microtasks /\ i + 1 # 1 /\ microtasks'[i] = microtasks[i + 1]
      /\ \A i \in DOMAIN microtasks :
           i = 1 \/ (i - 1 \in DOMAIN microtasks' /\ microtasks'[i - 1] = microtasks[i])
  BY <1>1, TailFacts
<1> QED
  BY <1>2, <1>3, <1>4, <1>5

LEMMA Deferred ==
  ASSUME DataOk, NEW op, NEW n, [op |-> op, of |-> n] \in Tasks, Defer(op, n)
  PROVE  LET last == Len(microtasks) + 1
             t == [op |-> op, of |-> n]
         IN /\ microtasks' \in Seq(Tasks)
            /\ DOMAIN microtasks' \subseteq Nat /\ DOMAIN microtasks \subseteq Nat
            /\ last \in DOMAIN microtasks' /\ last \notin DOMAIN microtasks
            /\ microtasks'[last] = t
            /\ \A i \in DOMAIN microtasks : /\ i \in DOMAIN microtasks' /\ i < last
                                           /\ microtasks'[i] = microtasks[i]
            /\ \A i \in DOMAIN microtasks' : i \in DOMAIN microtasks \/ i = last
            /\ Elements(microtasks') = Elements(microtasks) \cup {t}
            /\ \A p \in Packets :
                 Cardinality(Waiting(microtasks', p)) =
                   Cardinality(Waiting(microtasks, p)) + IF op = "named" /\ n = p THEN 1 ELSE 0
<1> DEFINE t == [op |-> op, of |-> n]
<1>1. microtasks \in Seq(Tasks) /\ microtasks' = Append(microtasks, t) /\ t \in Tasks
  BY DEF DataOk, Defer
<1>2. t.op = op /\ t.of = n
  OBVIOUS
<1>3. Elements(microtasks') = Elements(microtasks) \cup {t}
  BY <1>1, AppendElements
<1>4. \A p \in Packets :
        Cardinality(Waiting(microtasks', p)) =
          Cardinality(Waiting(microtasks, p)) + IF op = "named" /\ n = p THEN 1 ELSE 0
  BY <1>1, <1>2, WaitingAppend
<1>5. /\ microtasks' \in Seq(Tasks)
      /\ Len(microtasks) + 1 \in DOMAIN microtasks' /\ Len(microtasks) + 1 \notin DOMAIN microtasks
      /\ microtasks'[Len(microtasks) + 1] = t
      /\ DOMAIN microtasks' \subseteq Nat /\ DOMAIN microtasks \subseteq Nat
  BY <1>1, AppendFacts
<1>6. /\ \A i \in DOMAIN microtasks : /\ i \in DOMAIN microtasks' /\ i < Len(microtasks) + 1
                                     /\ microtasks'[i] = microtasks[i]
      /\ \A i \in DOMAIN microtasks' : i \in DOMAIN microtasks \/ i = Len(microtasks) + 1
  BY <1>1, AppendFacts
<1> QED
  BY <1>3, <1>4, <1>5, <1>6

-----------------------------------------------------------------------------
(* Steps that only change what runs.                                       *)

\* The stack may lose loops, but its lifecycle frames only by breaking them.
LEMMA QuietStep ==
  ASSUME PacketInv,
         UNCHANGED <<clientVars, microtasks, teardownVars, taken, passed, named>>,
         broken' \in BOOLEAN, broken => broken',
         IsStack(stack'), HeldOk', OnceOk',
         \A f \in Elements(stack') :
           \/ f.op \notin {"any", "anyDirect", "left"} \cup Lifecycle
           \/ \E g \in Elements(stack) : g.op = f.op /\ g.of = f.of,
         \A f \in Elements(stack) :
           f.op \in {"left"} \cup Lifecycle => f \in Elements(stack') \/ broken'
  PROVE  PacketInv'
<1> USE DEF PacketInv, clientVars, teardownVars
<1>1. DataOk' /\ PhaseOk'
  BY DEF DataOk, PhaseOk
<1>2. FramesOk'
  BY DEF FramesOk
<1>3. TeardownOk' /\ OrderOk' /\ CountOk'
  BY DEF TeardownOk, OrderOk, CountOk
<1>4. EndOk'
  BY DEF EndOk
<1> QED
  BY <1>1, <1>2, <1>3, <1>4

LEMMA RegisterStep ==
  ASSUME PacketInv,
         \/ \E r \in Registries : (\E once, front \in BOOLEAN : On(r, once, front)) \/ Off(r)
         \/ Observe \/ Use
  PROVE  PacketInv'
<1>1. /\ UNCHANGED <<clientVars, microtasks, teardownVars, historyVars>>
      /\ UNCHANGED <<stack, held, fired>>
  BY DEF On, Off, Observe, Use, chainVars
<1>2. HeldOk' /\ OnceOk' /\ UNCHANGED <<taken, passed, named, broken>> /\ IsStack(stack')
  BY <1>1 DEF PacketInv, DataOk, HeldOk, OnceOk, historyVars
<1> QED
  BY <1>1, <1>2, QuietStep DEF PacketInv, DataOk

LEMMA ListenerStep ==
  ASSUME PacketInv, CallListener PROVE PacketInv'
<1>1. /\ UNCHANGED <<clientVars, microtasks, teardownVars, chainVars, taken, passed, named, broken>>
      /\ stack # <<>> /\ IsStack(stack) /\ Head(stack).op \in Loops
  BY DEF CallListener, Top, PacketInv, DataOk
<1> DEFINE e == Head(Head(stack).left)
           again == [Rest EXCEPT !.busy = TRUE]
<1>2. /\ OnceOk'
      /\ \/ stack' = Tail(stack)
         \/ \E f : f.op = Head(stack).op /\ f.of = Head(stack).of /\ stack' = <<f>> \o Tail(stack)
  <2>1. /\ Rest.op = Head(stack).op /\ Rest.of = Head(stack).of
        /\ again.op = Head(stack).op /\ again.of = Head(stack).of
    BY DEF Rest
  <2>2. CASE e = Ordinary
    BY <2>1, <2>2 DEF CallListener, Become, PacketInv, OnceOk
  <2>3. CASE e # Ordinary
    <3>1. CallOnce(e)
      BY <2>3 DEF CallListener
    <3>2. CASE UNCHANGED <<fired, ran, ranAgain>> /\ (Pop \/ Become(Rest))
      BY <2>1, <3>2 DEF Pop, Become, PacketInv, OnceOk
    <3>3. CASE e \notin fired /\ Runs(e) /\ fired' = fired \cup {e}
      BY <2>1, <3>3 DEF Runs, Become, PacketInv, OnceOk
    <3> QED
      BY <3>1, <3>2, <3>3 DEF CallOnce
  <2> QED
    BY <2>2, <2>3
<1>3. /\ IsStack(stack')
      /\ \A f \in Elements(stack') : \E g \in Elements(stack) : g.op = f.op /\ g.of = f.of
      /\ \A f \in Elements(stack) :
           f.op \in {"left"} \cup Lifecycle => f \in Elements(stack')
  <2>1. IsStack(Tail(stack)) /\ Elements(stack) = {Head(stack)} \cup Elements(Tail(stack))
    BY <1>1, StackPop
  <2>2. Head(stack).op \notin {"left"} \cup Lifecycle
    BY <1>1 DEF Loops, Lifecycle
  <2>3. ASSUME NEW f PROVE IsStack(<<f>> \o Tail(stack))
                           /\ Elements(<<f>> \o Tail(stack)) = {f} \cup Elements(Tail(stack))
    BY <2>1, StackPush
  <2> QED
    BY <1>2, <2>1, <2>2, <2>3
<1>4. HeldOk'
  BY <1>1 DEF PacketInv, HeldOk, chainVars
<1> QED
  BY <1>1, <1>2, <1>3, <1>4, QuietStep DEF PacketInv, DataOk

LEMMA ReturnStep ==
  ASSUME PacketInv, Return \/ Throw PROVE PacketInv'
<1>1. /\ UNCHANGED <<clientVars, microtasks, teardownVars, chainVars, taken, passed, named>>
      /\ stack # <<>> /\ IsStack(stack) /\ stack' = Tail(stack) /\ OnceOk'
  BY DEF Return, Throw, Done, Top, Pop, PacketInv, DataOk, OnceOk, emitterVars, historyVars
<1>2. /\ broken' \in BOOLEAN /\ (broken => broken')
      /\ Head(stack).op \in {"left"} \cup Lifecycle => broken'
  <2>1. CASE Return
    BY <2>1 DEF Return, Done, Top, Lifecycle, PacketInv, DataOk, historyVars
  <2>2. CASE Throw
    BY <2>2 DEF Throw, PacketInv, DataOk
  <2> QED
    BY <2>1, <2>2
<1>3. IsStack(stack') /\ Elements(stack) = {Head(stack)} \cup Elements(stack')
  BY <1>1, StackPop
<1>4. HeldOk'
  BY <1>1 DEF PacketInv, HeldOk, chainVars
<1>5. \A f \in Elements(stack') :
        \/ f.op \notin {"any", "anyDirect", "left"} \cup Lifecycle
        \/ \E g \in Elements(stack) : g.op = f.op /\ g.of = f.of
  BY <1>3
<1>6. \A f \in Elements(stack) :
        f.op \in {"left"} \cup Lifecycle => f \in Elements(stack') \/ broken'
  BY <1>2, <1>3
<1>7. UNCHANGED <<clientVars, microtasks, teardownVars, taken, passed, named>>
  BY <1>1
<1>8. OnceOk' /\ IsStack(stack')
  BY <1>1, <1>3
<1>9. broken' \in BOOLEAN /\ (broken => broken')
  BY <1>2
<1> QED
  BY <1>4, <1>5, <1>6, <1>7, <1>8, <1>9, QuietStep

-----------------------------------------------------------------------------
(* What the parts of the invariant make of a task more or less.            *)

LEMMA OrderAppend ==
  ASSUME DataOk, OrderOk, active' => active, UNCHANGED <<sent, taken>>,
         NEW op, NEW n, [op |-> op, of |-> n] \in Tasks, op # "deliver", Defer(op, n)
  PROVE  OrderOk'
<1> DEFINE last == Len(microtasks) + 1
<1>1. /\ microtasks'[last].op = op
      /\ \A i \in DOMAIN microtasks : i \in DOMAIN microtasks' /\ microtasks'[i] = microtasks[i]
      /\ \A i \in DOMAIN microtasks' : i \in DOMAIN microtasks \/ i = last
  BY Deferred
<1> HIDE DEF last
<1>2. \A i \in DOMAIN microtasks' :
        microtasks'[i].op = "deliver" => i \in DOMAIN microtasks /\ microtasks'[i] = microtasks[i]
  BY <1>1
<1> QED
  BY <1>1, <1>2 DEF OrderOk

LEMMA OrderConsumed ==
  ASSUME DataOk, OrderOk, active' => active, UNCHANGED <<sent, taken>>,
         microtasks # <<>>, microtasks[1].op # "deliver", Consume
  PROVE  OrderOk'
<1>1. /\ \A i \in DOMAIN microtasks' :
           i + 1 \in DOMAIN microtasks /\ microtasks'[i] = microtasks[i + 1] /\ i \in Nat
      /\ \A i \in DOMAIN microtasks :
           i = 1 \/ (i - 1 \in DOMAIN microtasks' /\ microtasks'[i - 1] = microtasks[i])
  BY Consumed
<1>2. ASSUME active', NEW i \in DOMAIN microtasks', microtasks'[i].op = "deliver"
      PROVE  /\ taken' < microtasks'[i].of /\ microtasks'[i].of <= sent'
             /\ \A j \in DOMAIN microtasks' :
                  i < j /\ microtasks'[j].op = "deliver" => microtasks'[i].of < microtasks'[j].of
  <2>1. \A j \in DOMAIN microtasks' : i < j => i + 1 < j + 1
    BY <1>1
  <2> QED
    BY <1>1, <1>2, <2>1 DEF OrderOk
<1>3. ASSUME active', NEW p \in Packets, taken' < p, p <= sent'
      PROVE  \E i \in DOMAIN microtasks' : microtasks'[i] = [op |-> "deliver", of |-> p]
  <2>1. PICK i \in DOMAIN microtasks : microtasks[i] = [op |-> "deliver", of |-> p]
    BY <1>3 DEF OrderOk
  <2>2. i # 1
    BY <2>1
  <2> QED
    BY <1>1, <2>1, <2>2
<1> QED
  BY <1>2, <1>3 DEF OrderOk

LEMMA TeardownAppend ==
  ASSUME DataOk, TeardownOk, UNCHANGED <<active, torn>>, NEW op, NEW n,
         [op |-> op, of |-> n] \in Tasks, Defer(op, n), op # "teardown",
         op = "deliver" => torn # "drain", op = "peer" => torn \in {"server", "close"}
  PROVE  TeardownOk'
<1> DEFINE last == Len(microtasks) + 1
<1>1. /\ microtasks'[last].op = op
      /\ \A i \in DOMAIN microtasks : i \in DOMAIN microtasks' /\ microtasks'[i] = microtasks[i]
      /\ \A i \in DOMAIN microtasks' : i \in DOMAIN microtasks \/ i = last
  BY Deferred
<1> HIDE DEF last
<1> QED
  BY <1>1 DEF TeardownOk

LEMMA TeardownConsumed ==
  ASSUME DataOk, TeardownOk, UNCHANGED <<active, torn>>, microtasks # <<>>, Consume
  PROVE  TeardownOk'
<1>1. \A i \in DOMAIN microtasks' :
        i + 1 \in DOMAIN microtasks /\ microtasks'[i] = microtasks[i + 1] /\ i \in Nat
  BY Consumed
<1>2. \A i, j \in DOMAIN microtasks' : (i + 1 = j + 1 => i = j) /\ (j + 1 < i + 1 => j < i)
  BY <1>1
<1> QED
  BY <1>1, <1>2 DEF TeardownOk

LEMMA CountAppend ==
  ASSUME DataOk, CountOk, torn' = "no" => torn = "no", UNCHANGED <<passed, named>>, NEW op, NEW n,
         [op |-> op, of |-> n] \in Tasks, Defer(op, n), op # "named"
  PROVE  CountOk'
<1>1. \A p \in Packets : Cardinality(Waiting(microtasks', p)) = Cardinality(Waiting(microtasks, p))
  <2>1. \A p \in Packets : Cardinality(Waiting(microtasks, p)) \in Nat
    BY WaitingIsFinite DEF DataOk
  <2> QED
    BY <2>1, Deferred
<1> QED
  BY <1>1 DEF CountOk

LEMMA CountConsumed ==
  ASSUME DataOk, CountOk, torn' = "no" => torn = "no", UNCHANGED <<passed, named>>,
         microtasks # <<>>, microtasks[1].op # "named", Consume
  PROVE  CountOk'
<1>1. \A p \in Packets : Cardinality(Waiting(microtasks', p)) = Cardinality(Waiting(microtasks, p))
  <2>1. \A p \in Packets : Cardinality(Waiting(microtasks', p)) \in Nat
    BY Consumed, WaitingIsFinite
  <2> QED
    BY <2>1, Consumed
<1> QED
  BY <1>1 DEF CountOk

-----------------------------------------------------------------------------
(* Packets.                                                                *)

LEMMA EmitStep == ASSUME PacketInv, ClientEmit PROVE PacketInv'
<1> DEFINE n == sent + 1
<1>1. /\ clientOn /\ sent < MaxPackets /\ sent' = n /\ Defer("deliver", n)
      /\ UNCHANGED <<clientOn, teardownVars, stack, held, fired, historyVars>>
      /\ DataOk /\ MaxPackets \in Nat
  BY PacketDispatchAssumption DEF ClientEmit, emitterVars, chainVars, PacketInv
<1> USE DEF teardownVars, historyVars
<1>2. [op |-> "deliver", of |-> n] \in Tasks /\ n \in Packets
  BY <1>1 DEF DataOk, Tasks, Packets
<1>3. DataOk'
  BY <1>1, <1>2, Deferred DEF DataOk
<1>4. PhaseOk' /\ FramesOk' /\ HeldOk' /\ OnceOk'
  BY <1>1 DEF PacketInv, PhaseOk, FramesOk, HeldOk, OnceOk
<1>5. TeardownOk'
  BY <1>1, <1>2, TeardownAppend DEF PacketInv, PhaseOk
<1>6. CountOk'
  BY <1>1, <1>2, CountAppend DEF PacketInv
<1>7. EndOk'
  <2>1. Elements(microtasks) \subseteq Elements(microtasks')
    BY <1>1, <1>2, Deferred
  <2> QED
    BY <1>1, <2>1 DEF PacketInv, EndOk
<1>8. OrderOk'
  <2> DEFINE last == Len(microtasks) + 1
  <2>1. /\ last \in DOMAIN microtasks' /\ microtasks'[last] = [op |-> "deliver", of |-> n]
        /\ \A i \in DOMAIN microtasks : /\ i \in DOMAIN microtasks' /\ i < last
                                       /\ microtasks'[i] = microtasks[i] /\ i \in Nat
        /\ \A i \in DOMAIN microtasks' : i \in DOMAIN microtasks \/ i = last
    BY <1>1, <1>2, Deferred
  <2>2. last \in Nat
    BY <1>1 DEF DataOk
  <2> HIDE DEF last
  <2>3. ASSUME active, NEW i \in DOMAIN microtasks, microtasks[i].op = "deliver"
        PROVE  taken < microtasks[i].of /\ microtasks[i].of <= sent /\ microtasks[i].of \in Packets
    <3>1. microtasks[i] \in Tasks
      BY <1>1 DEF DataOk
    <3> QED
      BY <2>3, <3>1 DEF PacketInv, OrderOk, Tasks
  <2>4. ASSUME active, NEW i \in DOMAIN microtasks', microtasks'[i].op = "deliver"
        PROVE  /\ taken < microtasks'[i].of /\ microtasks'[i].of <= n
               /\ \A j \in DOMAIN microtasks' :
                    i < j /\ microtasks'[j].op = "deliver" => microtasks'[i].of < microtasks'[j].of
    <3>1. CASE i = last
      <4>1. \A j \in DOMAIN microtasks' : ~(i < j)
        BY <2>1, <2>2, <3>1
      <4> QED
        BY <1>1, <2>1, <3>1, <4>1 DEF DataOk
    <3>2. CASE i \in DOMAIN microtasks
      <4>1. /\ microtasks'[i] = microtasks[i] /\ microtasks[i].of \in Packets
            /\ taken < microtasks[i].of /\ microtasks[i].of <= sent
        BY <2>1, <2>3, <2>4, <3>2
      <4>2. microtasks[i].of <= n /\ microtasks[i].of < n
        <5> DEFINE k == microtasks[i].of
        <5>1. k \in Nat /\ sent \in Nat /\ k <= sent
          BY <1>1, <4>1 DEF DataOk, Packets
        <5> HIDE DEF k
        <5>2. k <= n /\ k < n
          BY <5>1
        <5> QED
          BY <5>2 DEF k
      <4>3. ASSUME NEW j \in DOMAIN microtasks', i < j, microtasks'[j].op = "deliver"
            PROVE  microtasks[i].of < microtasks'[j].of
        BY <2>1, <2>4, <3>2, <4>1, <4>2, <4>3 DEF PacketInv, OrderOk
      <4> QED
        BY <4>1, <4>2, <4>3
    <3> QED
      BY <2>1, <3>1, <3>2
  <2>5. ASSUME active, NEW p \in Packets, taken < p, p <= n
        PROVE  \E i \in DOMAIN microtasks' : microtasks'[i] = [op |-> "deliver", of |-> p]
    <3>1. CASE p = n
      BY <2>1, <3>1
    <3>2. CASE p # n
      <4>1. p <= sent
        BY <1>1, <2>5, <3>2 DEF DataOk, Packets
      <4> QED
        BY <2>1, <2>5, <4>1 DEF PacketInv, OrderOk
    <3> QED
      BY <3>1, <3>2
  <2> QED
    BY <1>1, <2>4, <2>5 DEF OrderOk
<1> QED
  BY <1>3, <1>4, <1>5, <1>6, <1>7, <1>8 DEF PacketInv

\* A packet that is taken is the next one.
LEMMA TakenInOrder ==
  ASSUME PacketInv, NEW p \in Packets, Due("deliver", p), active
  PROVE  p = taken + 1 /\ p <= sent
<1>1. /\ microtasks # <<>> /\ microtasks \in Seq(Tasks) /\ DataOk
      /\ Head(microtasks) = [op |-> "deliver", of |-> p]
  BY DEF Due, PacketInv, DataOk
<1>2. /\ 1 \in DOMAIN microtasks /\ microtasks[1] = [op |-> "deliver", of |-> p]
      /\ \A i \in DOMAIN microtasks : i = 1 \/ 1 < i
  BY <1>1
<1>3. taken < p /\ p <= sent /\ p \in Nat /\ taken \in Nat /\ sent \in Nat
  BY <1>1, <1>2 DEF PacketInv, OrderOk, DataOk, Packets
<1>4. taken + 1 \in Packets /\ taken < taken + 1 /\ taken + 1 <= sent
  BY <1>1, <1>3, PacketDispatchAssumption DEF Packets, DataOk
<1>5. PICK i \in DOMAIN microtasks : microtasks[i] = [op |-> "deliver", of |-> taken + 1]
  BY <1>4 DEF PacketInv, OrderOk
<1>6. i = 1 \/ p < taken + 1
  BY <1>2, <1>5 DEF PacketInv, OrderOk
<1> QED
  BY <1>2, <1>3, <1>5, <1>6

LEMMA DeliverStep ==
  ASSUME PacketInv, NEW p \in Packets, RunDeliver(p) PROVE PacketInv'
<1>1. /\ Due("deliver", p) /\ Consume /\ stack = <<>> /\ microtasks # <<>>
      /\ UNCHANGED <<clientVars, teardownVars, held, fired, passed, named, ran, ranAgain, broken>>
      /\ DataOk
  BY DEF RunDeliver, Due, emitterVars, chainVars, PacketInv
<1> USE DEF clientVars, teardownVars
<1>2. /\ microtasks[1] = [op |-> "deliver", of |-> p] /\ 1 \in DOMAIN microtasks
      /\ microtasks' \in Seq(Tasks)
      /\ Elements(microtasks) = {microtasks[1]} \cup Elements(microtasks')
      /\ \A i \in DOMAIN microtasks' :
           i + 1 \in DOMAIN microtasks /\ microtasks'[i] = microtasks[i + 1] /\ i \in Nat /\ i # 0
      /\ \A i \in DOMAIN microtasks :
           i = 1 \/ (i - 1 \in DOMAIN microtasks' /\ microtasks'[i - 1] = microtasks[i])
  <2>1. 0 \notin DOMAIN microtasks'
    BY <1>1, Consumed
  <2> QED
    BY <1>1, <2>1, Consumed DEF Due
<1>3. Elements(stack) = {} /\ IsStack(stack)
  BY <1>1 DEF Elements, DataOk
<1>4. /\ IsStack(stack') /\ taken' \in 0..sent /\ taken <= taken'
      /\ active => taken' = taken + 1 /\ taken' = p
      /\ \A f \in Elements(stack') : f.op \in {"any", "anyDirect"} /\ f.of = p /\ taken' = p
  <2>1. CASE active
    <3> DEFINE f == Loop(IF middleware = 0 THEN "anyDirect" ELSE "any", p)
    <3>1. stack' = <<f>> \o stack /\ taken' = p
      BY <1>1, <2>1 DEF RunDeliver, Push
    <3>2. f.op \in {"any", "anyDirect"} /\ f.of = p
      BY DEF Loop
    <3> HIDE DEF f
    <3>3. IsStack(stack') /\ Elements(stack') = {f}
      BY <1>3, <3>1, StackPush
    <3>4. p = taken + 1 /\ p <= sent
      BY <1>1, <2>1, TakenInOrder
    <3> QED
      BY <1>1, <3>1, <3>2, <3>3, <3>4 DEF DataOk
  <2>2. CASE ~active
    BY <1>1, <1>3, <2>2 DEF RunDeliver, DataOk
  <2> QED
    BY <2>1, <2>2
<1>5. DataOk'
  BY <1>1, <1>2, <1>4 DEF DataOk
<1>6. PhaseOk' /\ FramesOk' /\ OnceOk'
  <2>1. FramesOk'
    <3>1. \A f \in Elements(stack') :
            f.op \notin {"left", "disconnecting", "disconnect"} /\ f.of \in Packets /\ f.of = taken'
      BY <1>4
    <3> QED
      BY <3>1, <1>5 DEF FramesOk, Lifecycle, DataOk
  <2> QED
    BY <1>1, <2>1 DEF PacketInv, PhaseOk, OnceOk
<1>7. HeldOk'
  BY <1>1, <1>4, <1>5 DEF PacketInv, HeldOk, DataOk, Packets
<1>8. TeardownOk' /\ CountOk'
  BY <1>1, <1>2, TeardownConsumed, CountConsumed DEF PacketInv
<1>9. EndOk'
  BY <1>1, <1>2, <1>3 DEF PacketInv, EndOk
<1>10. OrderOk'
  <2> SUFFICES ASSUME active PROVE OrderOk'
    BY <1>1 DEF OrderOk
  <2>1. taken' = taken + 1 /\ taken' = p /\ taken \in Nat
    BY <1>1, <1>4 DEF DataOk
  <2>2. ASSUME NEW i \in DOMAIN microtasks', microtasks'[i].op = "deliver"
        PROVE  /\ taken' < microtasks'[i].of /\ microtasks'[i].of <= sent'
               /\ \A j \in DOMAIN microtasks' :
                    i < j /\ microtasks'[j].op = "deliver" => microtasks'[i].of < microtasks'[j].of
    <3>1. 1 < i + 1 /\ \A j \in DOMAIN microtasks' : i < j => i + 1 < j + 1
      BY <1>2
    <3>2. microtasks[1].of < microtasks[i + 1].of /\ microtasks[1].of = p
      BY <1>2, <2>2, <3>1 DEF PacketInv, OrderOk
    <3> QED
      BY <1>1, <1>2, <2>1, <2>2, <3>1, <3>2 DEF PacketInv, OrderOk
  <2>3. ASSUME NEW q \in Packets, taken' < q, q <= sent'
        PROVE  \E i \in DOMAIN microtasks' : microtasks'[i] = [op |-> "deliver", of |-> q]
    <3>1. taken < q /\ q <= sent /\ q # p
      BY <1>1, <2>1, <2>3 DEF Packets
    <3>2. PICK i \in DOMAIN microtasks : microtasks[i] = [op |-> "deliver", of |-> q]
      BY <3>1 DEF PacketInv, OrderOk
    <3>3. i # 1
      BY <1>2, <3>1, <3>2
    <3> QED
      BY <1>2, <3>2, <3>3
  <2> QED
    BY <1>1, <2>2, <2>3 DEF OrderOk
<1> QED
  BY <1>5, <1>6, <1>7, <1>8, <1>9, <1>10 DEF PacketInv

\* The next middleware is called, or the chain has passed and its packet is named later.
LEMMA ChainStep ==
  ASSUME PacketInv, NEW p \in Packets, p <= taken, NEW i, NEW length, NEW below,
         IsStack(below), Elements(below) \subseteq Elements(stack),
         \A f \in Elements(stack) : f.op \in {"left"} \cup Lifecycle => f \in Elements(below),
         RunChain(p, i, length, below),
         UNCHANGED <<clientVars, teardownVars, fired, taken, named, ran, ranAgain, broken>>
  PROVE  PacketInv'
<1> USE DEF clientVars, teardownVars
<1>1. DataOk /\ OnceOk'
  BY DEF PacketInv, OnceOk
<1>2. CASE i <= length
  <2> DEFINE f == Call("middleware", p)
  <2>1. /\ stack' = <<f>> \o below /\ held' = held \cup {<<p, i>>}
        /\ UNCHANGED <<microtasks, passed>>
    BY <1>2 DEF RunChain
  <2>2. f.op = "middleware"
    BY DEF Call
  <2> HIDE DEF f
  <2>3. IsStack(stack') /\ Elements(stack') = {f} \cup Elements(below)
    BY <2>1, StackPush
  <2>4. HeldOk'
    BY <2>1 DEF PacketInv, HeldOk
  <2>5. \A g \in Elements(stack') :
          \/ g.op \notin {"any", "anyDirect", "left"} \cup Lifecycle
          \/ \E h \in Elements(stack) : h.op = g.op /\ h.of = g.of
    BY <2>2, <2>3 DEF Lifecycle
  <2>6. \A g \in Elements(stack) :
          g.op \in {"left"} \cup Lifecycle => g \in Elements(stack') \/ broken'
    BY <2>3
  <2>7. UNCHANGED <<clientVars, microtasks, teardownVars, taken, passed, named>>
        /\ broken' \in BOOLEAN /\ (broken => broken')
    BY <1>1, <2>1 DEF DataOk
  <2> QED
    BY <1>1, <2>3, <2>4, <2>5, <2>6, <2>7, QuietStep
<1>3. CASE ~(i <= length)
  <2>1. /\ stack' = below /\ Defer("named", p) /\ UNCHANGED held
        /\ passed' = [passed EXCEPT ![p] = @ + 1]
    BY <1>3 DEF RunChain
  <2>2. [op |-> "named", of |-> p] \in Tasks
    BY DEF Tasks
  <2>3. DataOk'
    BY <1>1, <2>1, <2>2, Deferred DEF DataOk
  <2>4. PhaseOk' /\ HeldOk' /\ FramesOk'
    BY <2>1 DEF PacketInv, PhaseOk, HeldOk, FramesOk
  <2>5. TeardownOk' /\ OrderOk'
    BY <1>1, <2>1, <2>2, TeardownAppend, OrderAppend DEF PacketInv
  <2>6. EndOk'
    <3>1. Elements(microtasks) \subseteq Elements(microtasks')
      BY <1>1, <2>1, <2>2, Deferred
    <3> QED
      BY <2>1, <3>1 DEF PacketInv, EndOk
  <2>7. CountOk'
    <3>1. \A q \in Packets :
            /\ Cardinality(Waiting(microtasks', q)) =
                 Cardinality(Waiting(microtasks, q)) + IF p = q THEN 1 ELSE 0
            /\ passed'[q] = passed[q] + IF p = q THEN 1 ELSE 0
            /\ Cardinality(Waiting(microtasks, q)) \in Nat /\ passed[q] \in Nat /\ named[q] \in Nat
      <4>1. \A q \in Packets : Cardinality(Waiting(microtasks, q)) \in Nat
        BY <1>1, WaitingIsFinite DEF DataOk
      <4>2. \A q \in Packets :
              Cardinality(Waiting(microtasks', q)) =
                Cardinality(Waiting(microtasks, q)) + IF p = q THEN 1 ELSE 0
        BY <1>1, <2>1, <2>2, Deferred
      <4>3. \A q \in Packets : /\ passed'[q] = passed[q] + IF p = q THEN 1 ELSE 0
                               /\ passed[q] \in Nat /\ named[q] \in Nat
        BY <1>1, <2>1 DEF DataOk
      <4> QED
        BY <4>1, <4>2, <4>3
    <3> QED
      BY <3>1 DEF PacketInv, CountOk
  <2> QED
    BY <1>1, <2>3, <2>4, <2>5, <2>6, <2>7 DEF PacketInv
<1> QED
  BY <1>2, <1>3

LEMMA CatchAllStep == ASSUME PacketInv, EndCatchAll PROVE PacketInv'
<1> DEFINE p == Head(stack).of
<1>1. /\ stack # <<>> /\ Head(stack).op = "any" /\ IsStack(stack)
      /\ RunChain(p, 1, middleware, Tail(stack))
      /\ UNCHANGED <<clientVars, teardownVars, fired, taken, named, ran, ranAgain, broken>>
  BY DEF EndCatchAll, Done, Top, PacketInv, DataOk, emitterVars
<1>2. IsStack(Tail(stack)) /\ Elements(stack) = {Head(stack)} \cup Elements(Tail(stack))
  BY <1>1, StackPop
<1>3. p \in Packets /\ p <= taken
  BY <1>1, <1>2 DEF PacketInv, FramesOk
<1>4. \A f \in Elements(stack) : f.op \in {"left"} \cup Lifecycle => f \in Elements(Tail(stack))
  BY <1>1, <1>2 DEF Lifecycle
<1> QED
  BY <1>1, <1>2, <1>3, <1>4, ChainStep

LEMMA CallNextStep ==
  ASSUME PacketInv, NEW p \in Packets, NEW i \in 1..MaxMiddleware, NEW ok \in BOOLEAN,
         CallNext(p, i, ok)
  PROVE  PacketInv'
<1>1. /\ p <= taken /\ IsStack(stack)
      /\ UNCHANGED <<clientVars, teardownVars, fired, taken, named, ran, ranAgain, broken>>
  BY DEF CallNext, PacketInv, HeldOk, DataOk, emitterVars
<1>2. CASE ok
  BY <1>1, <1>2, ChainStep DEF CallNext
<1>3. CASE ~ok
  <2> DEFINE f == Loop("error", p)
  <2>1. stack' = <<f>> \o stack /\ UNCHANGED <<held, microtasks, passed>>
    BY <1>3 DEF CallNext, Push
  <2>2. f.op = "error"
    BY DEF Loop
  <2> HIDE DEF f
  <2>3. IsStack(stack') /\ Elements(stack') = {f} \cup Elements(stack)
    BY <1>1, <2>1, StackPush
  <2>4. HeldOk' /\ OnceOk'
    BY <1>1, <2>1 DEF PacketInv, HeldOk, OnceOk
  <2>5. \A g \in Elements(stack') :
          \/ g.op \notin {"any", "anyDirect", "left"} \cup Lifecycle
          \/ \E h \in Elements(stack) : h.op = g.op /\ h.of = g.of
    BY <2>2, <2>3 DEF Lifecycle
  <2>6. \A g \in Elements(stack) :
          g.op \in {"left"} \cup Lifecycle => g \in Elements(stack') \/ broken'
    BY <2>3
  <2>7. /\ UNCHANGED <<clientVars, microtasks, teardownVars, taken, passed, named>>
        /\ broken' \in BOOLEAN /\ (broken => broken')
    BY <1>1, <2>1 DEF PacketInv, DataOk
  <2> QED
    BY <2>3, <2>4, <2>5, <2>6, <2>7, QuietStep
<1> QED
  BY <1>2, <1>3

LEMMA CatchAllDirectStep == ASSUME PacketInv, EndCatchAllDirect PROVE PacketInv'
<1> DEFINE p == Head(stack).of
           f == Loop("packet", p)
<1> USE DEF clientVars, teardownVars
<1>1. /\ stack # <<>> /\ Head(stack).op = "anyDirect" /\ IsStack(stack) /\ DataOk
      /\ stack' = <<f>> \o Tail(stack)
      /\ passed' = [passed EXCEPT ![p] = @ + 1] /\ named' = [named EXCEPT ![p] = @ + 1]
      /\ UNCHANGED <<clientVars, microtasks, teardownVars, held, fired, taken, ran, ranAgain, broken>>
  BY DEF EndCatchAllDirect, Done, Top, Become, PacketInv, DataOk, emitterVars, chainVars
<1>2. f.op = "packet"
  BY DEF Loop
<1> HIDE DEF f
<1>3. /\ IsStack(stack') /\ Elements(stack') = {f} \cup Elements(Tail(stack))
      /\ Elements(stack) = {Head(stack)} \cup Elements(Tail(stack))
  BY <1>1, StackPop, StackPush
<1>4. p \in Packets
  BY <1>1, <1>3 DEF PacketInv, FramesOk
<1>5. DataOk'
  BY <1>1, <1>3, <1>4 DEF DataOk
<1>6. PhaseOk' /\ HeldOk' /\ TeardownOk' /\ OrderOk' /\ OnceOk'
  BY <1>1 DEF PacketInv, PhaseOk, HeldOk, TeardownOk, OrderOk, OnceOk
<1>7. FramesOk'
  BY <1>1, <1>2, <1>3 DEF PacketInv, FramesOk, Lifecycle
<1>8. EndOk'
  <2>1. \A g \in Elements(stack) : g.op \in {"left"} \cup Lifecycle => g \in Elements(stack')
    BY <1>1, <1>3 DEF Lifecycle
  <2> QED
    BY <1>1, <2>1 DEF PacketInv, EndOk
<1>9. CountOk'
  <2>1. \A q \in Packets :
          /\ passed'[q] = passed[q] + IF p = q THEN 1 ELSE 0
          /\ named'[q] = named[q] + IF p = q THEN 1 ELSE 0
          /\ passed[q] \in Nat /\ named[q] \in Nat
    BY <1>1, <1>4 DEF DataOk
  <2>2. ASSUME NEW q \in Packets
        PROVE  /\ named'[q] + Cardinality(Waiting(microtasks', q)) <= passed'[q]
               /\ torn' = "no" => named'[q] + Cardinality(Waiting(microtasks', q)) = passed'[q]
    <3>1. Waiting(microtasks', q) = Waiting(microtasks, q)
      BY <1>1
    <3>2. Cardinality(Waiting(microtasks, q)) \in Nat
      BY <1>1, WaitingIsFinite DEF DataOk
    <3> DEFINE n == Cardinality(Waiting(microtasks, q))
    <3>3. named[q] + n <= passed[q] /\ (torn = "no" => named[q] + n = passed[q])
      BY DEF PacketInv, CountOk
    <3>4. Cardinality(Waiting(microtasks', q)) = n
      BY <3>1
    <3> HIDE DEF n
    <3>5. \/ passed'[q] = passed[q] /\ named'[q] = named[q]
          \/ passed'[q] = passed[q] + 1 /\ named'[q] = named[q] + 1
      BY <2>1
    <3> QED
      BY <1>1, <2>1, <3>2, <3>3, <3>4, <3>5 DEF n
  <2> QED
    BY <2>2 DEF CountOk
<1> QED
  BY <1>5, <1>6, <1>7, <1>8, <1>9 DEF PacketInv

LEMMA NamedStep ==
  ASSUME PacketInv, NEW p \in Packets, RunNamed(p) PROVE PacketInv'
<1> USE DEF clientVars, teardownVars
<1>1. /\ Consume /\ stack = <<>> /\ microtasks # <<>> /\ DataOk
      /\ Head(microtasks) = [op |-> "named", of |-> p]
      /\ UNCHANGED <<clientVars, teardownVars, held, fired, taken, passed, ran, ranAgain, broken>>
  BY DEF RunNamed, Due, PacketInv, emitterVars, chainVars
<1>2. /\ microtasks' \in Seq(Tasks) /\ microtasks[1] = [op |-> "named", of |-> p]
      /\ Elements(microtasks) = {microtasks[1]} \cup Elements(microtasks')
      /\ \A q \in Packets : Cardinality(Waiting(microtasks, q)) =
                             Cardinality(Waiting(microtasks', q)) + IF q = p THEN 1 ELSE 0
  <2>1. /\ microtasks' \in Seq(Tasks) /\ microtasks[1] = [op |-> "named", of |-> p]
        /\ Elements(microtasks) = {microtasks[1]} \cup Elements(microtasks')
    BY <1>1, Consumed
  <2>2. microtasks[1].op = "named" /\ microtasks[1].of = p
    BY <2>1
  <2>3. ASSUME NEW q \in Packets
        PROVE  Cardinality(Waiting(microtasks, q)) =
                 Cardinality(Waiting(microtasks', q)) + IF q = p THEN 1 ELSE 0
    BY <1>1, <2>2, Consumed
  <2> QED
    BY <2>1, <2>3
<1>3. Elements(stack) = {} /\ IsStack(stack)
  BY <1>1 DEF Elements, DataOk
<1>4. /\ IsStack(stack') /\ \A f \in Elements(stack') : f.op = "packet"
      /\ named' = [named EXCEPT ![p] = @ + 1] \/ (named' = named /\ torn # "no")
  <2>1. CASE active \/ clientDrain
    <3> DEFINE f == Loop("packet", p)
    <3>1. stack' = <<f>> \o stack /\ named' = [named EXCEPT ![p] = @ + 1]
      BY <2>1 DEF RunNamed, Push
    <3>2. f.op = "packet"
      BY DEF Loop
    <3> HIDE DEF f
    <3> QED
      BY <1>3, <3>1, <3>2, StackPush
  <2>2. CASE ~(active \/ clientDrain)
    BY <1>1, <1>3, <2>2 DEF RunNamed, PacketInv, PhaseOk, DataOk
  <2> QED
    BY <2>1, <2>2
<1>5. DataOk'
  BY <1>1, <1>2, <1>4 DEF DataOk
<1>6. PhaseOk' /\ HeldOk' /\ OnceOk'
  BY <1>1 DEF PacketInv, PhaseOk, HeldOk, OnceOk
<1>7. FramesOk'
  BY <1>4 DEF FramesOk, Lifecycle
<1>8. TeardownOk' /\ OrderOk'
  BY <1>1, <1>2, TeardownConsumed, OrderConsumed DEF PacketInv
<1>9. EndOk'
  BY <1>1, <1>2, <1>3 DEF PacketInv, EndOk
<1>10. CountOk'
  <2>1. \A q \in Packets : Cardinality(Waiting(microtasks', q)) \in Nat
    BY <1>2, WaitingIsFinite
  <2>2. \A q \in Packets : /\ passed[q] \in Nat /\ named[q] \in Nat /\ passed'[q] = passed[q]
                           /\ \/ named'[q] = named[q] + IF q = p THEN 1 ELSE 0
                              \/ named'[q] = named[q] /\ torn' # "no"
    BY <1>1, <1>4 DEF DataOk
  <2> QED
    BY <1>1, <1>2, <2>1, <2>2 DEF PacketInv, CountOk
<1> QED
  BY <1>5, <1>6, <1>7, <1>8, <1>9, <1>10 DEF PacketInv

-----------------------------------------------------------------------------
(* The end of the connection.                                              *)

\* The first teardown waits behind everything else.
LEMMA TeardownStep ==
  ASSUME PacketInv, NEW why \in {"client", "drain", "close"}, Teardown(why),
         why # "close" => ~clientOn,
         UNCHANGED <<clientVars, ended, held, fired, historyVars>>,
         IsStack(stack'), Elements(stack') \subseteq Elements(stack),
         \A f \in Elements(stack) : f.op \in Lifecycle => f \in Elements(stack')
  PROVE  PacketInv'
<1> USE DEF clientVars, historyVars
<1>1. DataOk
  BY DEF PacketInv
<1>2. HeldOk' /\ OnceOk'
  BY DEF PacketInv, HeldOk, OnceOk
<1>3. CASE torn # "no"
  <2>1. UNCHANGED <<torn, active, clientDrain, microtasks>>
    BY <1>3 DEF Teardown
  <2>2. DataOk' /\ PhaseOk' /\ FramesOk' /\ TeardownOk' /\ OrderOk' /\ CountOk'
    BY <2>1 DEF PacketInv, DataOk, PhaseOk, FramesOk, TeardownOk, OrderOk, CountOk
  <2>3. EndOk'
    BY <1>3, <2>1 DEF PacketInv, EndOk
  <2> QED
    BY <1>2, <2>2, <2>3 DEF PacketInv
<1>4. CASE torn = "no"
  <2>1. /\ torn' = why /\ active' = (why = "drain") /\ clientDrain' = FALSE
        /\ Defer("teardown", 0) /\ active
    BY <1>4 DEF Teardown, PacketInv, PhaseOk
  <2>2. [op |-> "teardown", of |-> 0] \in Tasks
    BY DEF Tasks
  <2> DEFINE last == Len(microtasks) + 1
  <2>3. /\ last \in DOMAIN microtasks' /\ microtasks'[last] = [op |-> "teardown", of |-> 0]
        /\ \A i \in DOMAIN microtasks : i < last /\ microtasks'[i] = microtasks[i]
        /\ \A i \in DOMAIN microtasks' : i \in DOMAIN microtasks \/ i = last
        /\ Elements(microtasks') = Elements(microtasks) \cup {[op |-> "teardown", of |-> 0]}
        /\ microtasks' \in Seq(Tasks)
    BY <1>1, <2>1, <2>2, Deferred
  <2> HIDE DEF last
  <2>4. DataOk'
    BY <1>1, <2>1, <2>3 DEF DataOk
  <2>5. PhaseOk' /\ FramesOk'
    BY <1>4, <2>1 DEF PacketInv, PhaseOk, FramesOk, DataOk
  <2>6. TeardownOk'
    <3>1. \A i \in DOMAIN microtasks : microtasks[i].op \notin {"teardown", "peer"}
      BY <1>4 DEF PacketInv, TeardownOk
    <3>2. \A i \in DOMAIN microtasks' : microtasks'[i].op \in {"teardown", "peer"} => i = last
      BY <2>3, <3>1
    <3>3. \A j \in DOMAIN microtasks' : microtasks'[j].op = "deliver" => j < last
      BY <2>3
    <3>4. why \in {"client", "drain", "close"} /\ (torn' = "drain" => active')
      BY <2>1
    <3> SUFFICES ASSUME NEW i \in DOMAIN microtasks', microtasks'[i].op \in {"teardown", "peer"}
                 PROVE  /\ i = last /\ microtasks'[i].op = "teardown"
                        /\ \A j \in DOMAIN microtasks' : microtasks'[j].op = "teardown" => i = j
      BY <2>1, <3>3, <3>4 DEF TeardownOk
    <3> QED
      BY <2>3, <3>2
  <2>7. OrderOk' /\ CountOk'
    BY <1>1, <1>4, <2>1, <2>2, OrderAppend, CountAppend DEF PacketInv
  <2>8. EndOk'
    BY <1>4, <2>1, <2>3 DEF PacketInv, PhaseOk, EndOk
  <2> QED
    BY <1>2, <2>4, <2>5, <2>6, <2>7, <2>8 DEF PacketInv
<1> QED
  BY <1>3, <1>4

LEMMA DisconnectedStep ==
  ASSUME PacketInv, HandleDisconnect \/ ServerClose PROVE PacketInv'
<1>1. CASE HandleDisconnect
  <2> DEFINE why == IF Dispatching THEN "drain" ELSE "client"
  <2>1. /\ stack # <<>> /\ Head(stack).op = "left" /\ IsStack(stack) /\ stack' = Tail(stack)
        /\ Teardown(why) /\ UNCHANGED <<clientVars, ended, held, fired, historyVars>>
    BY <1>1 DEF HandleDisconnect, Top, Pop, PacketInv, DataOk, emitterVars, chainVars
  <2>2. why \in {"client", "drain", "close"} /\ why # "close"
    OBVIOUS
  <2>3. IsStack(stack') /\ Elements(stack) = {Head(stack)} \cup Elements(stack')
    BY <2>1, StackPop
  <2>4. ~clientOn
    BY <2>1, <2>3 DEF PacketInv, FramesOk
  <2>5. Elements(stack') \subseteq Elements(stack)
        /\ \A f \in Elements(stack) : f.op \in Lifecycle => f \in Elements(stack')
    BY <2>1, <2>3 DEF Lifecycle
  <2> QED
    BY <2>1, <2>2, <2>3, <2>4, <2>5, TeardownStep
<1>2. CASE ServerClose
  <2>1. /\ Teardown("close") /\ UNCHANGED <<clientVars, ended, held, fired, historyVars, stack>>
        /\ IsStack(stack) /\ IsStack(stack')
    BY <1>2 DEF ServerClose, PacketInv, DataOk, emitterVars, chainVars
  <2> QED
    BY <2>1, TeardownStep
<1> QED
  BY <1>1, <1>2

LEMMA LeaveStep == ASSUME PacketInv, ClientDisconnect PROVE PacketInv'
<1> DEFINE f == Call("left", 0)
<1> USE DEF teardownVars, historyVars
<1>1. /\ clientOn' = FALSE /\ stack' = <<f>> \o stack /\ IsStack(stack) /\ DataOk
      /\ UNCHANGED <<sent, microtasks, teardownVars, held, fired, historyVars>>
  BY DEF ClientDisconnect, Push, PacketInv, DataOk, emitterVars, chainVars
<1>2. f.op = "left"
  BY DEF Call
<1> HIDE DEF f
<1>3. IsStack(stack') /\ Elements(stack') = {f} \cup Elements(stack)
  BY <1>1, StackPush
<1>4. DataOk' /\ PhaseOk' /\ HeldOk' /\ OnceOk'
  BY <1>1, <1>3 DEF PacketInv, DataOk, PhaseOk, HeldOk, OnceOk
<1>5. TeardownOk' /\ OrderOk' /\ CountOk'
  BY <1>1 DEF PacketInv, TeardownOk, OrderOk, CountOk
<1>6. FramesOk'
  BY <1>1, <1>2, <1>3 DEF PacketInv, FramesOk, Lifecycle
<1>7. EndOk'
  BY <1>1, <1>2, <1>3 DEF PacketInv, EndOk
<1> QED
  BY <1>4, <1>5, <1>6, <1>7 DEF PacketInv

LEMMA ServerStep == ASSUME PacketInv, ServerDisconnect PROVE PacketInv'
<1> DEFINE f == Call("disconnecting", 0)
<1> USE DEF clientVars, historyVars
<1>1. /\ torn = "no" /\ torn' = "server" /\ active' = FALSE /\ clientDrain' = FALSE
      /\ stack' = <<f>> \o stack /\ IsStack(stack) /\ DataOk /\ ~ended
      /\ UNCHANGED <<clientVars, microtasks, ended, held, fired, historyVars>>
  BY DEF ServerDisconnect, Push, PacketInv, PhaseOk, DataOk, emitterVars, chainVars
<1>2. f.op = "disconnecting"
  BY DEF Call
<1> HIDE DEF f
<1>3. IsStack(stack') /\ Elements(stack') = {f} \cup Elements(stack)
  BY <1>1, StackPush
<1>4. DataOk' /\ PhaseOk' /\ HeldOk' /\ OnceOk'
  BY <1>1, <1>3 DEF PacketInv, DataOk, PhaseOk, HeldOk, OnceOk
<1>5. TeardownOk' /\ OrderOk' /\ CountOk'
  BY <1>1 DEF PacketInv, TeardownOk, OrderOk, CountOk
<1>6. FramesOk'
  BY <1>1, <1>2, <1>3 DEF PacketInv, FramesOk
<1>7. EndOk'
  BY <1>1, <1>2, <1>3 DEF PacketInv, EndOk, Lifecycle
<1> QED
  BY <1>4, <1>5, <1>6, <1>7 DEF PacketInv

\* When the deferred teardown runs, a queue it has waited behind is empty of deliveries.
LEMMA RunTeardownStep == ASSUME PacketInv, RunTeardown PROVE PacketInv'
<1> DEFINE f == Call("disconnecting", 0)
<1> USE DEF clientVars, historyVars
<1>1. /\ Consume /\ microtasks # <<>> /\ Head(microtasks) = [op |-> "teardown", of |-> 0]
      /\ active' = FALSE /\ clientDrain' = (torn = "drain")
      /\ stack' = <<f>> \o stack /\ IsStack(stack) /\ DataOk
      /\ UNCHANGED <<clientVars, torn, ended, held, fired, historyVars>>
  BY DEF RunTeardown, Due, Push, PacketInv, DataOk, emitterVars, chainVars
<1>2. f.op = "disconnecting"
  BY DEF Call
<1> HIDE DEF f
<1>3. IsStack(stack') /\ Elements(stack') = {f} \cup Elements(stack)
  BY <1>1, StackPush
<1>4. /\ microtasks' \in Seq(Tasks) /\ microtasks[1].op = "teardown" /\ 1 \in DOMAIN microtasks
      /\ Elements(microtasks) = {microtasks[1]} \cup Elements(microtasks')
      /\ \A i \in DOMAIN microtasks' :
           i + 1 \in DOMAIN microtasks /\ i + 1 # 1 /\ microtasks'[i] = microtasks[i + 1]
  BY <1>1, Consumed
<1>5. torn \in {"client", "drain", "close"}
  BY <1>4 DEF PacketInv, TeardownOk
<1>6. DataOk' /\ PhaseOk' /\ HeldOk' /\ OnceOk'
  BY <1>1, <1>3, <1>4, <1>5 DEF PacketInv, DataOk, PhaseOk, HeldOk, OnceOk
<1>7. TeardownOk'
  <2>1. \A i \in DOMAIN microtasks' : microtasks'[i].op # "teardown"
    BY <1>4 DEF PacketInv, TeardownOk
  <2> QED
    BY <1>1, <1>4, <2>1 DEF PacketInv, TeardownOk
<1>8. OrderOk' /\ CountOk'
  BY <1>1, <1>4, CountConsumed DEF PacketInv, OrderOk
<1>9. FramesOk'
  BY <1>1, <1>2, <1>3, <1>5 DEF PacketInv, FramesOk
<1>10. EndOk'
  BY <1>1, <1>2, <1>3, <1>4, <1>5 DEF PacketInv, EndOk, Lifecycle
<1> QED
  BY <1>6, <1>7, <1>8, <1>9, <1>10 DEF PacketInv

LEMMA EndStep == ASSUME PacketInv, EndDisconnecting \/ EndDisconnect PROVE PacketInv'
<1> USE DEF clientVars, historyVars
<1>1. /\ stack # <<>> /\ Head(stack).op \in Lifecycle /\ IsStack(stack) /\ DataOk
      /\ UNCHANGED <<clientVars, active, clientDrain, torn, held, fired, historyVars>>
  BY DEF EndDisconnecting, EndDisconnect, Top, Lifecycle, PacketInv, DataOk, emitterVars, chainVars
<1>2. IsStack(Tail(stack)) /\ Elements(stack) = {Head(stack)} \cup Elements(Tail(stack))
  BY <1>1, StackPop
<1>3. torn # "no"
  BY <1>1, <1>2 DEF PacketInv, FramesOk
<1>4. HeldOk' /\ OnceOk'
  BY <1>1 DEF PacketInv, HeldOk, OnceOk
<1>5. CASE EndDisconnecting
  <2> DEFINE f == Call("disconnect", 0)
  <2>1. stack' = <<f>> \o Tail(stack) /\ UNCHANGED <<microtasks, ended>>
        /\ Head(stack).op = "disconnecting"
    BY <1>5 DEF EndDisconnecting, Become, Top
  <2>2. f.op = "disconnect"
    BY DEF Call
  <2> HIDE DEF f
  <2>3. IsStack(stack') /\ Elements(stack') = {f} \cup Elements(Tail(stack))
    BY <1>2, <2>1, StackPush
  <2>4. DataOk' /\ PhaseOk' /\ TeardownOk' /\ OrderOk' /\ CountOk'
    BY <1>1, <2>1, <2>3 DEF PacketInv, DataOk, PhaseOk, TeardownOk, OrderOk, CountOk
  <2>5. FramesOk'
    BY <1>1, <1>2, <1>3, <2>2, <2>3 DEF PacketInv, FramesOk
  <2>6. EndOk'
    BY <1>1, <1>3, <2>1, <2>2, <2>3 DEF PacketInv, EndOk, Lifecycle
  <2> QED
    BY <1>4, <2>4, <2>5, <2>6 DEF PacketInv
<1>6. CASE EndDisconnect
  <2>1. stack' = Tail(stack) /\ ended' = TRUE
    BY <1>6 DEF EndDisconnect, Pop
  <2>2. [op |-> "peer", of |-> 0] \in Tasks
    BY DEF Tasks
  <2>3. FramesOk' /\ PhaseOk'
    BY <1>1, <1>2, <1>3, <2>1 DEF PacketInv, FramesOk, PhaseOk
  <2>4. CASE torn \in {"server", "close"} /\ Defer("peer", 0)
    <3>1. microtasks' \in Seq(Tasks)
          /\ Elements(microtasks') = Elements(microtasks) \cup {[op |-> "peer", of |-> 0]}
      BY <1>1, <2>2, <2>4, Deferred
    <3>2. DataOk'
      BY <1>1, <1>2, <2>1, <3>1 DEF DataOk
    <3>3. TeardownOk' /\ OrderOk' /\ CountOk'
      BY <1>1, <2>2, <2>4, TeardownAppend, OrderAppend, CountAppend DEF PacketInv
    <3>4. \E t \in Elements(microtasks') : t.op = "peer"
      <4> DEFINE t == [op |-> "peer", of |-> 0]
      <4>1. t \in Elements(microtasks') /\ t.op = "peer"
        BY <3>1
      <4> HIDE DEF t
      <4> QED
        BY <4>1
    <3>5. torn' # "no" /\ (~clientOn' => torn' # "no")
      BY <1>1, <1>3
    <3>6. EndOk'
      BY <2>1, <3>4, <3>5 DEF EndOk
    <3> QED
      BY <1>4, <2>3, <3>2, <3>3, <3>6 DEF PacketInv
  <2>5. CASE torn \notin {"server", "close"} /\ UNCHANGED microtasks
    <3>1. DataOk' /\ TeardownOk' /\ OrderOk' /\ CountOk' /\ EndOk'
      BY <1>1, <1>2, <1>3, <2>1, <2>5
         DEF PacketInv, DataOk, TeardownOk, OrderOk, CountOk, EndOk
    <3> QED
      BY <1>4, <2>3, <3>1 DEF PacketInv
  <2> QED
    BY <1>6, <2>4, <2>5 DEF EndDisconnect
<1> QED
  BY <1>5, <1>6

LEMMA PeerStep == ASSUME PacketInv, RunPeer PROVE PacketInv'
<1> USE DEF teardownVars, historyVars
<1>1. /\ Consume /\ microtasks # <<>> /\ Head(microtasks) = [op |-> "peer", of |-> 0]
      /\ clientOn' = FALSE /\ DataOk
      /\ UNCHANGED <<sent, teardownVars, held, fired, stack, historyVars>>
  BY DEF RunPeer, Due, PacketInv, emitterVars, chainVars
<1>2. /\ microtasks' \in Seq(Tasks) /\ microtasks[1].op = "peer" /\ 1 \in DOMAIN microtasks
      /\ Elements(microtasks) = {microtasks[1]} \cup Elements(microtasks')
  BY <1>1, Consumed
<1>3. torn \in {"server", "close"}
  BY <1>2 DEF PacketInv, TeardownOk
<1>4. DataOk' /\ PhaseOk' /\ HeldOk' /\ OnceOk' /\ FramesOk'
  BY <1>1, <1>2 DEF PacketInv, DataOk, PhaseOk, HeldOk, OnceOk, FramesOk
<1>5. TeardownOk' /\ OrderOk' /\ CountOk'
  BY <1>1, <1>2, TeardownConsumed, OrderConsumed, CountConsumed DEF PacketInv
<1>6. EndOk'
  BY <1>1, <1>2, <1>3 DEF PacketInv, EndOk
<1> QED
  BY <1>4, <1>5, <1>6 DEF PacketInv

-----------------------------------------------------------------------------
(* The invariant holds.                                                    *)

LEMMA PacketInit == Init => PacketInv
<1> SUFFICES ASSUME Init PROVE PacketInv
  OBVIOUS
<1>1. /\ stack = <<>> /\ microtasks = <<>> /\ held = {} /\ fired = {} /\ ran = {} /\ ranAgain = {}
      /\ clientOn = TRUE /\ active = TRUE /\ clientDrain = FALSE /\ torn = "no" /\ ended = FALSE
      /\ broken = FALSE /\ sent = 0 /\ taken = 0 /\ MaxPackets \in Nat
      /\ passed = [p \in Packets |-> 0] /\ named = [p \in Packets |-> 0]
  BY PacketDispatchAssumption DEF Init
<1>2. DOMAIN microtasks = {} /\ Elements(stack) = {} /\ Elements(microtasks) = {}
  BY <1>1 DEF Elements
<1>3. IsStack(stack) /\ microtasks \in Seq(Tasks)
  BY <1>1 DEF IsStack
<1>4. \A p : Waiting(microtasks, p) = {} /\ Cardinality(Waiting(microtasks, p)) = 0
  BY <1>2, FS_EmptySet DEF Waiting
<1>5. DataOk
  <2>1. passed \in [Packets -> Nat] /\ named \in [Packets -> Nat]
    BY <1>1
  <2>2. sent \in 0..MaxPackets /\ taken \in 0..sent
    BY <1>1
  <2> QED
    BY <1>1, <1>3, <2>1, <2>2 DEF DataOk
<1>6. PhaseOk /\ FramesOk /\ HeldOk /\ TeardownOk /\ EndOk /\ OnceOk
  BY <1>1, <1>2 DEF PhaseOk, FramesOk, HeldOk, TeardownOk, EndOk, OnceOk
<1>7. OrderOk
  BY <1>1, <1>2 DEF OrderOk, Packets
<1>8. CountOk
  BY <1>1, <1>4 DEF CountOk
<1> QED
  BY <1>5, <1>6, <1>7, <1>8 DEF PacketInv

LEMMA PacketNext == PacketInv /\ [Next]_vars => PacketInv'
<1> SUFFICES ASSUME PacketInv, [Next]_vars PROVE PacketInv'
  OBVIOUS
<1>1. CASE AppCall
  BY <1>1, RegisterStep, EmitStep, LeaveStep, ServerStep, DisconnectedStep, CallNextStep DEF AppCall
<1>2. CASE Internal
  BY <1>2, DeliverStep, NamedStep, ListenerStep, CatchAllStep, CatchAllDirectStep, ReturnStep,
     DisconnectedStep, RunTeardownStep, EndStep, PeerStep DEF Internal
<1>3. CASE Throw
  BY <1>3, ReturnStep
<1>4. CASE UNCHANGED vars
  <2>1. /\ UNCHANGED <<clientVars, microtasks, teardownVars, taken, passed, named, broken>>
        /\ UNCHANGED <<stack, held, fired, ran, ranAgain>>
    BY <1>4 DEF vars, emitterVars, chainVars, historyVars
  <2>2. HeldOk' /\ OnceOk' /\ IsStack(stack') /\ broken' \in BOOLEAN
    BY <2>1 DEF PacketInv, DataOk, HeldOk, OnceOk
  <2> QED
    BY <2>1, <2>2, QuietStep
<1> QED
  BY <1>1, <1>2, <1>3, <1>4 DEF Next

LEMMA PacketInvariant == Spec => []PacketInv
<1> QED
  BY PacketInit, PacketNext, PTL DEF Spec

\* A listener registered with once() runs at most once: whatever snapshots of the
\* listeners it is in, whoever throws, and although removing it may fail
\* (sockets.ts:466-483, emitters.ts).
THEOREM OnceListenersRunOnce == Spec => []OnceRunsOnce
<1>1. PacketInv => OnceRunsOnce
  BY DEF PacketInv, OnceOk, OnceRunsOnce
<1> QED
  BY <1>1, PacketInvariant, PTL

\* When nothing is left to run, both sides have ended or neither has, unless a listener
\* of a lifecycle event threw, and every chain that passed was dispatched
\* (sockets.ts teardown and the named dispatch of run()).
THEOREM RestIsAgreement == Spec => []AtRestBothSidesAgree
<1>1. ASSUME PacketInv, stack = <<>>, microtasks = <<>>
      PROVE  /\ ~clientOn \/ torn # "no" => (~clientOn /\ ended) \/ broken
             /\ torn = "no" => named = passed
  <2>1. Elements(stack) = {} /\ Elements(microtasks) = {} /\ DOMAIN microtasks = {}
    BY <1>1 DEF Elements
  <2>2. ~clientOn \/ torn # "no" => (~clientOn /\ ended) \/ broken
    BY <1>1, <2>1 DEF PacketInv, EndOk, PhaseOk, DataOk
  <2>3. ASSUME torn = "no" PROVE named = passed
    <3>1. \A p : Cardinality(Waiting(microtasks, p)) = 0
      BY <2>1, FS_EmptySet DEF Waiting
    <3>2. named \in [Packets -> Nat] /\ passed \in [Packets -> Nat]
      BY <1>1 DEF PacketInv, DataOk
    <3>3. \A p \in Packets : named[p] = passed[p]
      BY <1>1, <2>3, <3>1, <3>2 DEF PacketInv, CountOk
    <3> QED
      BY <3>2, <3>3
  <2> QED
    BY <2>2, <2>3
<1>2. PacketInv => AtRestBothSidesAgree
  BY <1>1 DEF AtRestBothSidesAgree
<1> QED
  BY <1>2, PacketInvariant, PTL

-----------------------------------------------------------------------------
(* What is in the registries, and in the snapshots that the loops took.    *)

FramesUpTo(n) ==
  [op : Loops \cup Lifecycle \cup {"middleware", "left"}, of : 0..MaxPackets,
   left : Seq(0..n), busy : BOOLEAN]

\* An entry is an ordinary listener or a wrapper that was made.
RegistryOk ==
  /\ changes \in 0..MaxChanges /\ wrappers \in 0..(changes + 1)
  /\ listeners \in [Registries -> Seq(0..wrappers)]
  /\ fired \subseteq 1..wrappers /\ ran \subseteq 1..wrappers
  /\ observed \in BOOLEAN /\ connected \in BOOLEAN

StackOk == stack \in Seq(FramesUpTo(wrappers))

ChainOk ==
  /\ middleware \in 0..MaxMiddleware /\ chain \in [Packets -> 0..MaxMiddleware]
  /\ held \subseteq Packets \X (1..MaxMiddleware) /\ nexts \in 0..MaxNext

RegistryInv == RegistryOk /\ StackOk /\ ChainOk

LEMMA StackTyped ==
  ASSUME RegistryInv
  PROVE  /\ \A f \in FramesUpTo(wrappers) : (<<f>> \o stack) \in Seq(FramesUpTo(wrappers))
         /\ stack # <<>> =>
              /\ Head(stack) \in FramesUpTo(wrappers) /\ Tail(stack) \in Seq(FramesUpTo(wrappers))
              /\ \A f \in FramesUpTo(wrappers) :
                   (<<f>> \o Tail(stack)) \in Seq(FramesUpTo(wrappers))
<1>1. stack \in Seq(FramesUpTo(wrappers))
  BY DEF RegistryInv, StackOk
<1>2. \A f \in FramesUpTo(wrappers) : (<<f>> \o stack) \in Seq(FramesUpTo(wrappers))
  BY <1>1, PushFacts
<1>3. ASSUME stack # <<>>
      PROVE  Head(stack) \in FramesUpTo(wrappers) /\ Tail(stack) \in Seq(FramesUpTo(wrappers))
  BY <1>1, <1>3, TailFacts
<1>4. ASSUME stack # <<>>, NEW f \in FramesUpTo(wrappers)
      PROVE  (<<f>> \o Tail(stack)) \in Seq(FramesUpTo(wrappers))
  BY <1>3, <1>4, PushFacts
<1> QED
  BY <1>2, <1>3, <1>4

\* The frames the steps push: a loop over a snapshot of a registry, or a call.
LEMMA FramesTyped ==
  ASSUME RegistryInv, NEW p \in 0..MaxPackets
  PROVE  /\ \A op \in Loops : Loop(op, p) \in FramesUpTo(wrappers)
         /\ \A op \in Lifecycle \cup {"middleware", "left"} : Call(op, p) \in FramesUpTo(wrappers)
<1>1. ASSUME NEW op \in Loops PROVE Loop(op, p) \in FramesUpTo(wrappers)
  <2> DEFINE r == IF op = "anyDirect" THEN "any" ELSE op
  <2>1. r \in Registries
    BY DEF Loops, Registries
  <2>2. listeners[r] \in Seq(0..wrappers)
    BY <2>1 DEF RegistryInv, RegistryOk
  <2> QED
    BY <2>2 DEF Loop, FramesUpTo
<1>2. <<>> \in Seq(0..wrappers)
  OBVIOUS
<1>3. ASSUME NEW op \in Lifecycle \cup {"middleware", "left"}
      PROVE  Call(op, p) \in FramesUpTo(wrappers)
  BY <1>2 DEF Call, FramesUpTo
<1> QED
  BY <1>1, <1>3

LEMMA MoreEntries ==
  ASSUME NEW n \in Nat, NEW m \in Nat, n <= m
  PROVE  Seq(0..n) \subseteq Seq(0..m) /\ Seq(FramesUpTo(n)) \subseteq Seq(FramesUpTo(m))
<1>1. 0..n \subseteq 0..m
  OBVIOUS
<1>2. Seq(0..n) \subseteq Seq(0..m)
  BY <1>1
<1>3. FramesUpTo(n) \subseteq FramesUpTo(m)
  BY <1>2 DEF FramesUpTo
<1> QED
  BY <1>2, <1>3

\* A step that neither registers nor runs a listener.
LEMMA RegistryQuiet ==
  ASSUME RegistryInv, UNCHANGED <<emitterVars, ran>>, connected' \in BOOLEAN,
         stack' \in Seq(FramesUpTo(wrappers)), ChainOk'
  PROVE  RegistryInv'
<1>1. RegistryOk' /\ StackOk'
  BY DEF RegistryInv, RegistryOk, StackOk, emitterVars
<1> QED
  BY <1>1 DEF RegistryInv

LEMMA RegistryInit == Init => RegistryInv
<1> SUFFICES ASSUME Init PROVE RegistryInv
  OBVIOUS
<1>1. PICK any \in {<<>>, <<Ordinary>>}, packet \in {<<>>, <<Ordinary>>, <<1>>} :
        /\ listeners = [any |-> any, packet |-> packet, error |-> <<Ordinary>>]
        /\ wrappers = IF packet = <<1>> THEN 1 ELSE 0
  BY DEF Init
<1>2. changes = 0 /\ 0 \in 0..MaxChanges /\ wrappers \in 0..(changes + 1)
  BY <1>1, PacketDispatchAssumption DEF Init
<1>3. any \in Seq(0..wrappers) /\ <<Ordinary>> \in Seq(0..wrappers)
  <2>1. Ordinary \in 0..wrappers
    BY <1>2 DEF Ordinary
  <2>2. <<>> \in Seq(0..wrappers) /\ <<Ordinary>> \in Seq(0..wrappers)
    BY <2>1
  <2> QED
    BY <2>2
<1>4. packet \in Seq(0..wrappers)
  <2>1. CASE packet = <<1>>
    <3>1. wrappers = 1
      BY <1>1, <2>1
    <3> QED
      BY <2>1, <3>1
  <2>2. CASE packet # <<1>>
    <3>1. packet = <<>> \/ packet = <<Ordinary>>
      BY <2>2
    <3>2. <<>> \in Seq(0..wrappers)
      OBVIOUS
    <3> QED
      BY <1>3, <3>1, <3>2
  <2> QED
    BY <2>1, <2>2
<1>5. listeners \in [Registries -> Seq(0..wrappers)]
  <2>1. DOMAIN listeners = Registries /\ listeners = [r \in Registries |-> listeners[r]]
    BY <1>1 DEF Registries
  <2>2. listeners["any"] = any /\ listeners["packet"] = packet /\ listeners["error"] = <<Ordinary>>
    BY <1>1
  <2>3. \A r \in Registries : listeners[r] \in Seq(0..wrappers)
    BY <1>3, <1>4, <2>2 DEF Registries
  <2> QED
    BY <2>1, <2>3
<1>6. RegistryOk
  BY <1>2, <1>5 DEF Init, RegistryOk
<1>7. StackOk
  BY DEF Init, StackOk
<1>8. ChainOk
  BY PacketDispatchAssumption DEF Init, ChainOk
<1> QED
  BY <1>6, <1>7, <1>8 DEF RegistryInv

LEMMA RegistryOn ==
  ASSUME RegistryInv, NEW r \in Registries, NEW once \in BOOLEAN, NEW front \in BOOLEAN,
         On(r, once, front)
  PROVE  RegistryInv'
<1> DEFINE e == IF once THEN wrappers + 1 ELSE Ordinary
           new == IF front THEN <<e>> \o listeners[r] ELSE Append(listeners[r], e)
<1>1. /\ changes \in Nat /\ changes < MaxChanges /\ changes' = changes + 1 /\ MaxChanges \in Nat
      /\ wrappers' = IF once THEN wrappers + 1 ELSE wrappers
      /\ listeners' = [listeners EXCEPT ![r] = new]
      /\ UNCHANGED <<connected, observed, fired, chainVars, stack, ran>>
  BY PacketDispatchAssumption
     DEF On, Change, RegistryInv, RegistryOk, teardownVars, historyVars
<1>2. changes' \in 0..MaxChanges
  BY <1>1
<1>3. wrappers \in Nat /\ wrappers' \in Nat /\ wrappers <= wrappers' /\ wrappers' <= changes' + 1
  BY <1>1 DEF RegistryInv, RegistryOk
<1>4. Seq(0..wrappers) \subseteq Seq(0..wrappers')
      /\ Seq(FramesUpTo(wrappers)) \subseteq Seq(FramesUpTo(wrappers'))
  BY <1>3, MoreEntries
<1>5. listeners \in [Registries -> Seq(0..wrappers')]
  BY <1>4 DEF RegistryInv, RegistryOk
<1>6. e \in 0..wrappers' /\ listeners[r] \in Seq(0..wrappers')
  BY <1>1, <1>3, <1>5 DEF Ordinary
<1>7. new \in Seq(0..wrappers')
  BY <1>6, PushFacts, AppendFacts
<1>8. listeners' \in [Registries -> Seq(0..wrappers')]
  BY <1>1, <1>5, <1>7
<1>9. fired' \subseteq 1..wrappers' /\ ran' \subseteq 1..wrappers'
  BY <1>1, <1>3 DEF RegistryInv, RegistryOk
<1>10. RegistryOk'
  BY <1>1, <1>2, <1>3, <1>8, <1>9 DEF RegistryInv, RegistryOk
<1>11. StackOk' /\ ChainOk'
  BY <1>1, <1>4 DEF RegistryInv, StackOk, ChainOk, chainVars
<1> QED
  BY <1>10, <1>11 DEF RegistryInv

LEMMA PartTyped ==
  ASSUME NEW S, NEW q \in Seq(S), NEW m \in 1..(Len(q) + 1), NEW n \in 0..Len(q)
  PROVE  SubSeq(q, m, n) \in Seq(S)
<1>1. CASE m <= n
  BY <1>1, SubSeqProperties
<1>2. CASE m > n
  BY <1>2, SubSeqProperties
<1> QED
  BY <1>1, <1>2

\* Off, Observe and Use change the registries or the middleware, and make no wrapper.
LEMMA RegistryChange ==
  ASSUME RegistryInv, (\E r \in Registries : Off(r)) \/ Observe \/ Use
  PROVE  RegistryInv'
<1>1. /\ changes' \in 0..MaxChanges /\ wrappers \in 0..(changes' + 1)
      /\ UNCHANGED <<wrappers, connected, fired, stack, ran, chain, held, nexts>>
  BY PacketDispatchAssumption
     DEF Off, Observe, Use, Change, RegistryInv, RegistryOk, teardownVars, historyVars, chainVars
<1>2. listeners' \in [Registries -> Seq(0..wrappers)]
  <2>1. listeners \in [Registries -> Seq(0..wrappers)]
    BY DEF RegistryInv, RegistryOk
  <2>2. ASSUME NEW r \in Registries, Off(r) PROVE listeners' \in [Registries -> Seq(0..wrappers)]
    <3> DEFINE new == IF r = "any" THEN Tail(listeners[r])
                      ELSE SubSeq(listeners[r], 1, Len(listeners[r]) - 1)
    <3>1. listeners[r] \in Seq(0..wrappers) /\ listeners[r] # <<>>
          /\ listeners' = [listeners EXCEPT ![r] = new]
      BY <2>1, <2>2 DEF Off
    <3>2. Tail(listeners[r]) \in Seq(0..wrappers)
      BY <3>1, TailFacts
    <3>3. SubSeq(listeners[r], 1, Len(listeners[r]) - 1) \in Seq(0..wrappers)
      <4>1. ASSUME NEW q \in Seq(0..wrappers), q # <<>>
            PROVE  SubSeq(q, 1, Len(q) - 1) \in Seq(0..wrappers)
        <5>1. 1 \in 1..(Len(q) + 1) /\ Len(q) - 1 \in 0..Len(q)
          BY <4>1
        <5> QED
          BY <5>1, PartTyped
      <4> QED
        BY <3>1, <4>1
    <3>4. new \in Seq(0..wrappers)
      BY <3>2, <3>3
    <3> QED
      BY <2>1, <3>1, <3>4
  <2> QED
    BY <2>1, <2>2 DEF Observe, Use
<1>3. observed' \in BOOLEAN /\ middleware' \in 0..MaxMiddleware
  <2>1. middleware' = middleware \/ (middleware < MaxMiddleware /\ middleware' = middleware + 1)
    BY DEF Off, Observe, Use, chainVars
  <2>2. middleware' \in 0..MaxMiddleware
    BY <2>1, PacketDispatchAssumption DEF RegistryInv, ChainOk
  <2>3. observed' \in BOOLEAN
    BY DEF Off, Observe, Use, RegistryInv, RegistryOk
  <2> QED
    BY <2>2, <2>3
<1>4. RegistryOk'
  BY <1>1, <1>2, <1>3 DEF RegistryInv, RegistryOk
<1>5. StackOk' /\ ChainOk'
  BY <1>1, <1>3 DEF RegistryInv, StackOk, ChainOk
<1> QED
  BY <1>4, <1>5 DEF RegistryInv

\* Taking a wrapper out leaves registries.
LEMMA WithoutTyped ==
  ASSUME RegistryInv, NEW e
  PROVE  Without(e) \in [Registries -> Seq(0..wrappers)]
<1>1. ASSUME NEW q \in Seq(0..wrappers), NEW i \in DOMAIN q
      PROVE  (SubSeq(q, 1, i - 1) \o SubSeq(q, i + 1, Len(q))) \in Seq(0..wrappers)
  <2>1. /\ 1 \in 1..(Len(q) + 1) /\ i - 1 \in 0..Len(q)
        /\ i + 1 \in 1..(Len(q) + 1) /\ Len(q) \in 0..Len(q)
    OBVIOUS
  <2>2. /\ SubSeq(q, 1, i - 1) \in Seq(0..wrappers)
        /\ SubSeq(q, i + 1, Len(q)) \in Seq(0..wrappers)
    BY <2>1, PartTyped
  <2> QED
    BY <2>2
<1>2. ASSUME NEW r \in Registries PROVE Without(e)[r] \in Seq(0..wrappers)
  <2> DEFINE q == listeners[r]
             i == CHOOSE i \in DOMAIN q : q[i] = e
  <2>1. q \in Seq(0..wrappers)
    BY DEF RegistryInv, RegistryOk
  <2>2. Without(e)[r] = IF \E j \in DOMAIN q : q[j] = e
                        THEN SubSeq(q, 1, i - 1) \o SubSeq(q, i + 1, Len(q)) ELSE q
    BY DEF Without
  <2>3. CASE \E j \in DOMAIN q : q[j] = e
    <3>1. i \in DOMAIN q
      BY <2>3
    <3> HIDE DEF i
    <3> QED
      BY <1>1, <2>1, <2>2, <2>3, <3>1
  <2>4. CASE ~\E j \in DOMAIN q : q[j] = e
    BY <2>1, <2>2, <2>4
  <2> QED
    BY <2>3, <2>4
<1>3. DOMAIN Without(e) = Registries /\ Without(e) = [r \in Registries |-> Without(e)[r]]
  BY DEF Without
<1> QED
  BY <1>2, <1>3

LEMMA RegistryListener == ASSUME RegistryInv, CallListener PROVE RegistryInv'
<1> DEFINE f == Head(stack)
           e == Head(f.left)
           again == [Rest EXCEPT !.busy = TRUE]
<1>1. /\ stack # <<>> /\ f.left # <<>>
      /\ UNCHANGED <<connected, wrappers, changes, observed, chainVars>>
  BY DEF CallListener, Top, teardownVars
<1>2. f \in FramesUpTo(wrappers) /\ Tail(stack) \in Seq(FramesUpTo(wrappers))
      /\ \A g \in FramesUpTo(wrappers) : (<<g>> \o Tail(stack)) \in Seq(FramesUpTo(wrappers))
  BY <1>1, StackTyped
<1>3. f.left \in Seq(0..wrappers)
  BY <1>2 DEF FramesUpTo
<1>4. e \in 0..wrappers /\ Tail(f.left) \in Seq(0..wrappers)
  BY <1>1, <1>3, TailFacts
<1>5. Rest \in FramesUpTo(wrappers) /\ again \in FramesUpTo(wrappers)
  BY <1>2, <1>4 DEF Rest, FramesUpTo
<1> HIDE DEF f, e, again
<1>6. /\ listeners' = listeners \/ listeners' = Without(e)
      /\ UNCHANGED <<fired, ran>>
         \/ (e # Ordinary /\ fired' = fired \cup {e} /\ ran' = ran \cup {e})
      /\ Pop \/ Become(Rest) \/ Become(again)
  BY DEF CallListener, CallOnce, Runs, e, f, again
<1>7. listeners' \in [Registries -> Seq(0..wrappers)]
  BY <1>6, WithoutTyped DEF RegistryInv, RegistryOk
<1>8. fired' \subseteq 1..wrappers /\ ran' \subseteq 1..wrappers
  <2>1. e # Ordinary => e \in 1..wrappers
    BY <1>4 DEF Ordinary
  <2> QED
    BY <1>6, <2>1 DEF RegistryInv, RegistryOk
<1>9. RegistryOk'
  BY <1>1, <1>7, <1>8 DEF RegistryInv, RegistryOk
<1>10. StackOk'
  BY <1>1, <1>2, <1>5, <1>6 DEF StackOk, Pop, Become
<1>11. ChainOk'
  BY <1>1 DEF RegistryInv, ChainOk, chainVars
<1> QED
  BY <1>9, <1>10, <1>11 DEF RegistryInv

\* A step of a chain calls a middleware, which holds its `next`, or ends the chain.
LEMMA RegistryChain ==
  ASSUME RegistryInv, NEW p \in Packets, NEW i \in 1..(MaxMiddleware + 1),
         NEW length \in 0..MaxMiddleware, NEW below \in Seq(FramesUpTo(wrappers)),
         RunChain(p, i, length, below)
  PROVE  stack' \in Seq(FramesUpTo(wrappers)) /\ held' \subseteq Packets \X (1..MaxMiddleware)
<1>1. p \in 0..MaxPackets /\ MaxMiddleware \in Nat
  BY PacketDispatchAssumption DEF Packets
<1>2. Call("middleware", p) \in FramesUpTo(wrappers)
  BY <1>1, FramesTyped
<1>3. (<<Call("middleware", p)>> \o below) \in Seq(FramesUpTo(wrappers))
  BY <1>2, PushFacts
<1>4. i <= length => i \in 1..MaxMiddleware
  BY <1>1
<1>5. CASE i <= length
  <2>1. /\ stack' = <<Call("middleware", p)>> \o below /\ held' = held \cup {<<p, i>>}
        /\ held \subseteq Packets \X (1..MaxMiddleware)
    BY <1>5 DEF RunChain, RegistryInv, ChainOk
  <2>2. <<p, i>> \in Packets \X (1..MaxMiddleware)
    BY <1>4, <1>5
  <2> QED
    BY <1>3, <2>1, <2>2
<1>6. CASE ~(i <= length)
  BY <1>6 DEF RunChain, RegistryInv, ChainOk
<1> QED
  BY <1>5, <1>6

LEMMA RegistryPackets ==
  ASSUME PacketInv, RegistryInv,
         \/ \E p \in Packets : RunDeliver(p) \/ RunNamed(p)
         \/ EndCatchAll \/ EndCatchAllDirect
         \/ \E p \in Packets, i \in 1..MaxMiddleware, ok \in BOOLEAN : CallNext(p, i, ok)
  PROVE  RegistryInv'
<1> DEFINE Frames0 == FramesUpTo(wrappers)
<1>1. stack \in Seq(Frames0) /\ connected \in BOOLEAN /\ ChainOk
  BY DEF RegistryInv, StackOk, RegistryOk
<1>2. MaxPackets \in Nat /\ MaxMiddleware \in Nat /\ MaxNext \in Nat
  BY PacketDispatchAssumption
<1>3. ASSUME NEW p \in Packets, NEW op \in Loops
      PROVE  /\ (<<Loop(op, p)>> \o stack) \in Seq(Frames0)
             /\ stack # <<>> => (<<Loop(op, p)>> \o Tail(stack)) \in Seq(Frames0)
  <2>1. p \in 0..MaxPackets
    BY <1>2 DEF Packets
  <2> QED
    BY <2>1, FramesTyped, StackTyped
<1>4. {"any", "anyDirect", "packet", "error"} \subseteq Loops
  BY DEF Loops
<1> HIDE DEF Frames0
<1>5. ASSUME NEW p \in Packets, RunDeliver(p) \/ RunNamed(p) PROVE RegistryInv'
  <2>1. /\ UNCHANGED <<emitterVars, connected, chainVars, ran>>
        /\ stack' = stack \/ \E op \in Loops : stack' = <<Loop(op, p)>> \o stack
    BY <1>4, <1>5 DEF RunDeliver, RunNamed, Push, teardownVars
  <2>2. stack' \in Seq(Frames0)
    BY <1>1, <1>3, <2>1
  <2>3. ChainOk'
    BY <1>1, <2>1 DEF ChainOk, chainVars
  <2> QED
    BY <1>1, <2>1, <2>2, <2>3, RegistryQuiet DEF Frames0
<1>6. ASSUME EndCatchAll PROVE RegistryInv'
  <2> DEFINE p == Head(stack).of
  <2>1. /\ stack # <<>> /\ Head(stack).op = "any"
        /\ chain' = [chain EXCEPT ![p] = middleware] /\ RunChain(p, 1, middleware, Tail(stack))
        /\ UNCHANGED <<emitterVars, connected, middleware, nexts, ran>>
    BY <1>6 DEF EndCatchAll, Done, Top, teardownVars
  <2>2. p \in Packets
    BY <2>1, StackPop DEF PacketInv, DataOk, FramesOk
  <2>3. Tail(stack) \in Seq(Frames0)
    BY <2>1, StackTyped DEF Frames0
  <2>4. middleware \in 0..MaxMiddleware /\ 1 \in 1..(MaxMiddleware + 1)
    BY <1>1, <1>2 DEF ChainOk
  <2> HIDE DEF p
  <2>5. stack' \in Seq(Frames0) /\ held' \subseteq Packets \X (1..MaxMiddleware)
    BY <2>1, <2>2, <2>3, <2>4, RegistryChain DEF Frames0
  <2>6. ChainOk'
    BY <1>1, <2>1, <2>4, <2>5 DEF ChainOk
  <2> QED
    BY <1>1, <2>1, <2>5, <2>6, RegistryQuiet DEF Frames0
<1>7. ASSUME EndCatchAllDirect PROVE RegistryInv'
  <2> DEFINE p == Head(stack).of
  <2>1. /\ stack # <<>> /\ Head(stack).op = "anyDirect"
        /\ stack' = <<Loop("packet", p)>> \o Tail(stack)
        /\ UNCHANGED <<emitterVars, connected, chainVars, ran>>
    BY <1>7 DEF EndCatchAllDirect, Done, Top, Become, teardownVars
  <2>2. p \in Packets
    BY <2>1, StackPop DEF PacketInv, DataOk, FramesOk
  <2> HIDE DEF p
  <2>3. stack' \in Seq(Frames0) /\ ChainOk'
    BY <1>1, <1>3, <1>4, <2>1, <2>2 DEF ChainOk, chainVars
  <2> QED
    BY <1>1, <2>1, <2>3, RegistryQuiet DEF Frames0
<1>8. ASSUME NEW p \in Packets, NEW i \in 1..MaxMiddleware, NEW ok \in BOOLEAN, CallNext(p, i, ok)
      PROVE  RegistryInv'
  <2>1. /\ nexts < MaxNext /\ nexts' = nexts + 1
        /\ UNCHANGED <<emitterVars, connected, middleware, chain, ran>>
        /\ \/ RunChain(p, i + 1, chain[p], stack)
           \/ stack' = <<Loop("error", p)>> \o stack /\ held' = held
    BY <1>8 DEF CallNext, Push, teardownVars
  <2>2. i + 1 \in 1..(MaxMiddleware + 1) /\ chain[p] \in 0..MaxMiddleware /\ nexts' \in 0..MaxNext
    BY <1>1, <1>2, <2>1 DEF ChainOk
  <2>3. stack' \in Seq(Frames0) /\ held' \subseteq Packets \X (1..MaxMiddleware)
    <3>1. CASE RunChain(p, i + 1, chain[p], stack)
      BY <1>1, <2>2, <3>1, RegistryChain DEF Frames0
    <3>2. CASE stack' = <<Loop("error", p)>> \o stack /\ held' = held
      BY <1>1, <1>3, <1>4, <3>2 DEF ChainOk
    <3> QED
      BY <2>1, <3>1, <3>2
  <2>4. ChainOk'
    BY <1>1, <2>1, <2>2, <2>3 DEF ChainOk
  <2> QED
    BY <1>1, <2>1, <2>3, <2>4, RegistryQuiet DEF Frames0
<1> QED
  BY <1>5, <1>6, <1>7, <1>8

\* The rest pushes a call, pops a frame or leaves the stack alone.
LEMMA RegistryCalls ==
  ASSUME RegistryInv,
         \/ ClientEmit \/ ClientDisconnect \/ ServerDisconnect \/ ServerClose
         \/ Return \/ HandleDisconnect \/ RunTeardown \/ EndDisconnecting \/ EndDisconnect \/ RunPeer
         \/ Throw \/ UNCHANGED vars
  PROVE  RegistryInv'
<1>1. UNCHANGED <<emitterVars, chainVars, ran>> /\ connected' \in {connected, FALSE}
  BY DEF ClientEmit, ClientDisconnect, ServerDisconnect, ServerClose, Return, HandleDisconnect,
         RunTeardown, EndDisconnecting, EndDisconnect, RunPeer, Throw, vars, teardownVars, historyVars
<1>2. \/ stack' = stack
      \/ stack # <<>> /\ stack' = Tail(stack)
      \/ \E op \in Lifecycle \cup {"left"} :
           stack' = <<Call(op, 0)>> \o stack \/ (stack # <<>> /\ stack' = <<Call(op, 0)>> \o Tail(stack))
  <2>1. "disconnect" \in Lifecycle /\ "disconnecting" \in Lifecycle
    BY DEF Lifecycle
  <2> QED
    BY <2>1 DEF ClientEmit, ClientDisconnect, ServerDisconnect, ServerClose, Return, HandleDisconnect,
         RunTeardown, EndDisconnecting, EndDisconnect, RunPeer, Throw, vars,
         Push, Pop, Become, Done, Top
<1>3. 0 \in 0..MaxPackets
  BY PacketDispatchAssumption
<1>4. stack' \in Seq(FramesUpTo(wrappers))
  BY <1>2, <1>3, FramesTyped, StackTyped DEF RegistryInv, StackOk
<1>5. ChainOk' /\ connected' \in BOOLEAN
  BY <1>1 DEF RegistryInv, RegistryOk, ChainOk, chainVars
<1> QED
  BY <1>1, <1>4, <1>5, RegistryQuiet

LEMMA RegistryNext == PacketInv /\ RegistryInv /\ [Next]_vars => RegistryInv'
<1> SUFFICES ASSUME PacketInv, RegistryInv, [Next]_vars PROVE RegistryInv'
  OBVIOUS
<1>1. CASE AppCall
  BY <1>1, RegistryOn, RegistryChange, RegistryPackets, RegistryCalls DEF AppCall
<1>2. CASE Internal
  BY <1>2, RegistryListener, RegistryPackets, RegistryCalls DEF Internal
<1>3. CASE Throw \/ UNCHANGED vars
  BY <1>3, RegistryCalls
<1> QED
  BY <1>1, <1>2, <1>3 DEF Next

\* Whatever is registered and removed, at whatever moment and by whatever listener, the
\* registries and the snapshots that loops took of them hold listeners that were
\* registered, and none of the once() wrappers among them runs a second time
\* (emitters.ts, sockets.ts:466-483).
THEOREM RegistriesAreSound == Spec => []DispatchInv
<1>1. ASSUME PacketInv, RegistryInv PROVE DispatchInv
  <2>1. 0..wrappers \subseteq Entries /\ wrappers \in 0..(MaxChanges + 1)
    BY <1>1, PacketDispatchAssumption DEF RegistryInv, RegistryOk, Entries, Ordinary
  <2>2. Seq(0..wrappers) \subseteq Seq(Entries)
    BY <2>1
  <2>3. listeners \in [Registries -> Seq(Entries)]
    BY <1>1, <2>2 DEF RegistryInv, RegistryOk
  <2>4. stack \in Seq(Frames)
    <3>1. FramesUpTo(wrappers) \subseteq Frames
      BY <2>2 DEF FramesUpTo, Frames
    <3> QED
      BY <1>1, <3>1 DEF RegistryInv, StackOk
  <2>5. taken \in 0..MaxPackets /\ ranAgain = {} /\ ranAgain \subseteq ran
    BY <1>1, PacketDispatchAssumption DEF PacketInv, DataOk, OnceOk
  <2> QED
    BY <1>1, <2>1, <2>3, <2>4, <2>5
       DEF DispatchInv, TypeOK, OnceRunsOnce, PacketInv, DataOk, RegistryInv, RegistryOk, ChainOk
<1> QED
  BY <1>1, PacketInvariant, RegistryInit, RegistryNext, PTL DEF Spec

-----------------------------------------------------------------------------
(* Every step is one of the pipeline, or none.                             *)

Mapped == <<sent, taken, passed, named, active, torn, clientDrain>>

LEMMA MappedStutter == UNCHANGED Mapped => UNCHANGED Pipeline!pipelineVars
  BY DEF Mapped, Pipeline!pipelineVars

LEMMA MappedEmit == PacketInv /\ ClientEmit => [Pipeline!Next]_(Pipeline!pipelineVars)
<1> SUFFICES ASSUME PacketInv, ClientEmit PROVE Pipeline!Send
  BY DEF Pipeline!Next
<1>1. /\ clientOn /\ sent < MaxPackets /\ sent' = sent + 1 /\ sent \in Nat /\ MaxPackets \in Nat
      /\ UNCHANGED <<taken, passed, named, active, torn, clientDrain>>
  BY PacketDispatchAssumption DEF ClientEmit, teardownVars, historyVars, PacketInv, DataOk
<1>2. torn # "drain" /\ ~clientDrain
  BY <1>1 DEF PacketInv, PhaseOk
<1> QED
  BY <1>1, <1>2 DEF Pipeline!Send, Packets

LEMMA MappedDeliver ==
  ASSUME PacketInv, NEW p \in Packets, RunDeliver(p)
  PROVE  [Pipeline!Next]_(Pipeline!pipelineVars)
<1>1. UNCHANGED <<sent, passed, named, active, torn, clientDrain>> /\ Due("deliver", p)
  BY DEF RunDeliver, clientVars, teardownVars
<1>2. CASE active
  <2>1. taken' = taken + 1 /\ taken < sent
    BY <1>1, <1>2, TakenInOrder DEF RunDeliver, PacketInv, DataOk
  <2>2. Pipeline!Take
    BY <1>1, <1>2, <2>1 DEF Pipeline!Take
  <2> QED
    BY <2>2 DEF Pipeline!Next
<1>3. CASE ~active
  BY <1>1, <1>3, MappedStutter DEF RunDeliver, Mapped
<1> QED
  BY <1>2, <1>3

LEMMA MappedChain ==
  ASSUME NEW p \in Packets, p <= taken, NEW i, NEW length, NEW below, RunChain(p, i, length, below),
         UNCHANGED <<sent, taken, named, active, torn, clientDrain>>
  PROVE  [Pipeline!Next]_(Pipeline!pipelineVars)
<1>1. CASE i <= length
  BY <1>1, MappedStutter DEF RunChain, Mapped
<1>2. CASE ~(i <= length)
  <2>1. Pipeline!Pass(p)
    BY <1>2 DEF RunChain, Pipeline!Pass
  <2> QED
    BY <2>1 DEF Pipeline!Next
<1> QED
  BY <1>1, <1>2

LEMMA MappedCatchAll == PacketInv /\ EndCatchAll => [Pipeline!Next]_(Pipeline!pipelineVars)
<1> SUFFICES ASSUME PacketInv, EndCatchAll PROVE [Pipeline!Next]_(Pipeline!pipelineVars)
  OBVIOUS
<1> DEFINE p == Head(stack).of
<1>1. /\ stack # <<>> /\ Head(stack).op = "any" /\ IsStack(stack)
      /\ RunChain(p, 1, middleware, Tail(stack))
      /\ UNCHANGED <<sent, taken, named, active, torn, clientDrain>>
  BY DEF EndCatchAll, Done, Top, clientVars, teardownVars, PacketInv, DataOk
<1>2. p \in Packets /\ p <= taken
  BY <1>1, StackPop DEF PacketInv, FramesOk
<1> HIDE DEF p
<1> QED
  BY <1>1, <1>2, MappedChain

LEMMA MappedCallNext ==
  ASSUME PacketInv, NEW p \in Packets, NEW i \in 1..MaxMiddleware, NEW ok \in BOOLEAN,
         CallNext(p, i, ok)
  PROVE  [Pipeline!Next]_(Pipeline!pipelineVars)
<1>1. UNCHANGED <<sent, taken, named, active, torn, clientDrain>> /\ <<p, i>> \in held
  BY DEF CallNext, clientVars, teardownVars
<1>2. p <= taken
  BY <1>1 DEF PacketInv, HeldOk
<1>3. CASE ok
  <2>1. RunChain(p, i + 1, chain[p], stack)
    BY <1>3 DEF CallNext
  <2> QED
    BY <1>1, <1>2, <2>1, MappedChain
<1>4. CASE ~ok
  BY <1>1, <1>4, MappedStutter DEF CallNext, Mapped
<1> QED
  BY <1>3, <1>4

LEMMA MappedDirect == PacketInv /\ EndCatchAllDirect => [Pipeline!Next]_(Pipeline!pipelineVars)
<1> SUFFICES ASSUME PacketInv, EndCatchAllDirect PROVE [Pipeline!Next]_(Pipeline!pipelineVars)
  OBVIOUS
<1> DEFINE p == Head(stack).of
<1>1. /\ stack # <<>> /\ Head(stack).op = "anyDirect" /\ IsStack(stack)
      /\ passed' = [passed EXCEPT ![p] = @ + 1] /\ named' = [named EXCEPT ![p] = @ + 1]
      /\ UNCHANGED <<sent, taken, active, torn, clientDrain>>
  BY DEF EndCatchAllDirect, Done, Top, clientVars, teardownVars, PacketInv, DataOk
<1>2. p \in Packets /\ p = taken
  BY <1>1, StackPop DEF PacketInv, FramesOk
<1> HIDE DEF p
<1>3. Pipeline!PassDirectly(p)
  BY <1>1, <1>2 DEF Pipeline!PassDirectly
<1> QED
  BY <1>2, <1>3 DEF Pipeline!Next

\* A named dispatch that is due has a chain that passed and was not dispatched yet.
LEMMA MappedNamed ==
  ASSUME PacketInv, NEW p \in Packets, RunNamed(p)
  PROVE  [Pipeline!Next]_(Pipeline!pipelineVars)
<1>1. /\ UNCHANGED <<sent, taken, passed, active, torn, clientDrain>> /\ DataOk
      /\ microtasks # <<>> /\ Head(microtasks) = [op |-> "named", of |-> p] /\ Consume
  BY DEF RunNamed, Due, clientVars, teardownVars, PacketInv
<1>2. CASE active \/ clientDrain
  <2>1. named' = [named EXCEPT ![p] = @ + 1]
    BY <1>2 DEF RunNamed
  <2>2. /\ microtasks' \in Seq(Tasks)
        /\ Cardinality(Waiting(microtasks, p)) = Cardinality(Waiting(microtasks', p)) + 1
    <3>1. microtasks[1].op = "named" /\ microtasks[1].of = p
      BY <1>1, Consumed
    <3> QED
      BY <1>1, <3>1, Consumed
  <2>3. named[p] < passed[p]
    <3>1. Cardinality(Waiting(microtasks', p)) \in Nat /\ named[p] \in Nat /\ passed[p] \in Nat
      BY <1>1, <2>2, WaitingIsFinite DEF DataOk
    <3> QED
      BY <2>2, <3>1 DEF PacketInv, CountOk
  <2>4. Pipeline!Dispatch(p)
    BY <1>1, <1>2, <2>1, <2>3 DEF Pipeline!Dispatch
  <2> QED
    BY <2>4 DEF Pipeline!Next
<1>3. CASE ~(active \/ clientDrain)
  BY <1>1, <1>3, MappedStutter DEF RunNamed, Mapped
<1> QED
  BY <1>2, <1>3

LEMMA MappedTeardown ==
  ASSUME PacketInv, HandleDisconnect \/ ServerClose \/ ServerDisconnect
  PROVE  [Pipeline!Next]_(Pipeline!pipelineVars)
<1>1. UNCHANGED <<sent, taken, passed, named>>
  BY DEF HandleDisconnect, ServerClose, ServerDisconnect, clientVars, historyVars
<1>2. \/ torn # "no" /\ UNCHANGED <<torn, active, clientDrain>>
      \/ torn = "no" /\ active' = (torn' = "drain") /\ clientDrain' = FALSE
  BY DEF HandleDisconnect, ServerClose, ServerDisconnect, Teardown
<1>3. CASE torn # "no" /\ UNCHANGED <<torn, active, clientDrain>>
  BY <1>1, <1>3, MappedStutter DEF Mapped
<1>4. CASE torn = "no" /\ active' = (torn' = "drain") /\ clientDrain' = FALSE
  <2>1. active
    BY <1>4 DEF PacketInv, PhaseOk
  <2>2. CASE torn' = "drain"
    <3>1. Pipeline!Drain
      BY <1>1, <1>4, <2>1, <2>2 DEF Pipeline!Drain
    <3> QED
      BY <3>1 DEF Pipeline!Next
  <2>3. CASE torn' # "drain"
    <3>1. Pipeline!Close
      BY <1>1, <1>4, <2>1, <2>3 DEF Pipeline!Close
    <3> QED
      BY <3>1 DEF Pipeline!Next
  <2> QED
    BY <2>2, <2>3
<1> QED
  BY <1>2, <1>3, <1>4

\* The teardown of a client that left during a dispatch finds everything taken.
LEMMA MappedRunTeardown == PacketInv /\ RunTeardown => [Pipeline!Next]_(Pipeline!pipelineVars)
<1> SUFFICES ASSUME PacketInv, RunTeardown PROVE [Pipeline!Next]_(Pipeline!pipelineVars)
  OBVIOUS
<1>1. /\ UNCHANGED <<sent, taken, passed, named, torn>> /\ DataOk
      /\ active' = FALSE /\ clientDrain' = (torn = "drain")
      /\ microtasks # <<>> /\ Head(microtasks) = [op |-> "teardown", of |-> 0]
      /\ microtasks \in Seq(Tasks)
  BY DEF RunTeardown, Due, clientVars, historyVars, PacketInv, DataOk
<1>2. /\ 1 \in DOMAIN microtasks /\ microtasks[1] = [op |-> "teardown", of |-> 0]
      /\ \A i \in DOMAIN microtasks : ~(i < 1)
  BY <1>1
<1>3. microtasks[1].op = "teardown"
  BY <1>2
<1>4. CASE torn = "drain"
  <2>1. active /\ \A i \in DOMAIN microtasks : microtasks[i].op # "deliver"
    BY <1>2, <1>3, <1>4 DEF PacketInv, TeardownOk
  <2>2. taken = sent
    <3> SUFFICES ASSUME taken # sent PROVE FALSE
      OBVIOUS
    <3>1. sent \in Packets /\ taken < sent /\ sent <= sent
      BY <1>1, PacketDispatchAssumption DEF DataOk, Packets
    <3>2. PICK i \in DOMAIN microtasks : microtasks[i] = [op |-> "deliver", of |-> sent]
      BY <2>1, <3>1 DEF PacketInv, OrderOk
    <3> QED
      BY <2>1, <3>2
  <2>3. Pipeline!Drained
    BY <1>1, <1>4, <2>1, <2>2 DEF Pipeline!Drained
  <2> QED
    BY <2>3 DEF Pipeline!Next
<1>5. CASE torn # "drain"
  <2>1. ~active
    BY <1>2, <1>3, <1>5 DEF PacketInv, TeardownOk, PhaseOk
  <2>2. ~clientDrain
    BY <1>5 DEF PacketInv, PhaseOk
  <2> QED
    BY <1>1, <1>5, <2>1, <2>2 DEF Pipeline!pipelineVars
<1> QED
  BY <1>4, <1>5

LEMMA MappedNext == PacketInv /\ [Next]_vars => [Pipeline!Next]_(Pipeline!pipelineVars)
<1> SUFFICES ASSUME PacketInv, [Next]_vars PROVE [Pipeline!Next]_(Pipeline!pipelineVars)
  OBVIOUS
<1>1. CASE AppCall
  <2>1. CASE \/ \E r \in Registries : (\E once, front \in BOOLEAN : On(r, once, front)) \/ Off(r)
             \/ Observe \/ Use \/ ClientDisconnect
    <3>1. UNCHANGED Mapped
      BY <2>1 DEF On, Off, Observe, Use, ClientDisconnect, Mapped, clientVars, teardownVars, historyVars
    <3> QED
      BY <3>1, MappedStutter
  <2> QED
    BY <1>1, <2>1, MappedEmit, MappedTeardown, MappedCallNext DEF AppCall
<1>2. CASE Internal
  <2>1. CASE \/ CallListener \/ Return \/ EndDisconnecting \/ EndDisconnect \/ RunPeer
    <3>1. UNCHANGED Mapped
      BY <2>1 DEF CallListener, Return, EndDisconnecting, EndDisconnect, RunPeer, Mapped, clientVars,
                  teardownVars, historyVars
    <3> QED
      BY <3>1, MappedStutter
  <2> QED
    BY <1>2, <2>1, MappedDeliver, MappedNamed, MappedCatchAll, MappedDirect, MappedTeardown,
       MappedRunTeardown DEF Internal
<1>3. CASE Throw \/ UNCHANGED vars
  <2>1. UNCHANGED Mapped
    BY <1>3 DEF Throw, vars, Mapped, clientVars, teardownVars, historyVars
  <2> QED
    BY <2>1, MappedStutter
<1> QED
  BY <1>1, <1>2, <1>3 DEF Next

LEMMA MappedInit == Init => Pipeline!Init
  BY DEF Init, Pipeline!Init

\* The detailed dispatch keeps the promise of PacketPipeline: packets are taken in order,
\* none is passed over, each reaches its named listeners at most once per completed chain,
\* and a client that leaves from inside a dispatch has everything it sent taken first
\* (sockets.ts dispatch, run() and teardown()).
THEOREM ImplementsPipeline == Spec => PipelineSpec
<1> QED
  BY PacketInvariant, MappedInit, MappedNext, PTL DEF Spec, PipelineSpec, Pipeline!Spec

=============================================================================
