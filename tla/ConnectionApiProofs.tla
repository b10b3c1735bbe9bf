------------------------ MODULE ConnectionApiProofs ------------------------
(***************************************************************************)
(* That the Server keeps the promise of ConnectionQueue, for any number of *)
(* names, attempts, observers, parents and adapters, as long as the        *)
(* application does not close it while a nextConnection() is announcing a  *)
(* Namespace.  The argument: what is under way (a task, a callback, a      *)
(* frame) belongs to a registered name; an admitted attempt stays pending  *)
(* only while its `connection` handlers run; and an observer that is on    *)
(* the stack is in no queue.                                               *)
(***************************************************************************)
EXTENDS ConnectionApi, SequenceTheorems, WellFoundedInduction, TLAPS

OnStack(f) == \E i \in DOMAIN stack : stack[i] = f
Queued(t) == \E i \in DOMAIN microtasks : microtasks[i] = t

\* What is under way is of registered names, and of attempts that have their Socket.
KnownNames ==
  /\ Root \in registered
  /\ \A a \in attached : NameOf[a] \in registered
  /\ \A t : Queued(t) => /\ t.op = "pair" => NameOf[t.of] \in registered
                         /\ t.op \in {"accept", "refuse"} => t.of \in attached
  /\ \A c \in held \cup called : /\ c.op = "auth" => NameOf[c.of] \in registered
                                 /\ c.op = "next" => c.of \in attached
  /\ \A f : OnStack(f) => f.at \in registered

\* Each name has its observers in one queue, and those on the stack are in none.
QueueShape ==
  /\ \A n \in Names : IF n \in registered THEN dynamicWaiters[n] = <<>>
                      ELSE ready[n] = <<>> /\ waiters[n] = <<>>
  /\ \A n \in Names : \A i \in DOMAIN waiters[n] : result[waiters[n][i]] # "new"
  /\ \A n \in Names : \A i \in DOMAIN dynamicWaiters[n] : result[dynamicWaiters[n][i]] # "new"

\* An observer on the stack was called, and is not in a queue yet.
ObserversEntered ==
  \A f : OnStack(f) /\ f.op = "observe" => result[f.of] = "new" /\ ~closed
ObservesOnce ==
  \A i, j \in DOMAIN stack :
    stack[i].op = "observe" /\ stack[j].op = "observe" /\ stack[i].of = stack[j].of => i = j

AdmittedOnce ==
  \A a \in admitted :
    /\ state[a] # "unused"
    /\ state[a] = "pending" => OnStack(Frame("handler", a, NameOf[a]))

\* The adapters that the factory of one adapter() has returned so far are of different
\* Namespaces.
OfDifferent(b) ==
  /\ DOMAIN b.got \subseteq registered
  /\ \A n \in DOMAIN b.got : b.got[n] \in b.used
  /\ \A m, n \in DOMAIN b.got : b.got[m] = b.got[n] => m = n
BuildingShape ==
  /\ ~custom => \A n \in Names : adapterOf[n] = BuiltIn
  /\ \A i \in DOMAIN building : OfDifferent(building[i])

\* While adapter() runs, and before the first connect(), nothing is on its way in.
NothingUnderWay ==
  attached = {} /\ held = {} /\ called = {} /\ \A f : OnStack(f) => f.op # "admit"
Admission ==
  /\ ~admissionStarted => NothingUnderWay /\ microtasks = <<>>
  /\ \A f : OnStack(f) /\ f.op = "register" => NothingUnderWay

ParentShape ==
  /\ Len(parents) <= MaxParents
  /\ \A c \in held \cup called : c.op = "match" => c.at \in 1..Len(parents)

IInv ==
  /\ TypeOK /\ ClosedIsFinal /\ AdaptersAreIsolated
  /\ KnownNames /\ QueueShape /\ ObserversEntered /\ ObservesOnce /\ AdmittedOnce
  /\ BuildingShape /\ Admission /\ ParentShape

-----------------------------------------------------------------------------
(* The stack and the microtasks.                                           *)

LEMMA TailFacts ==
  ASSUME NEW S, NEW q \in Seq(S), q # <<>>
  PROVE  /\ Tail(q) \in Seq(S) /\ Head(q) \in S
         /\ 1 \in DOMAIN q /\ Head(q) = q[1]
         /\ \A i \in DOMAIN Tail(q) : i + 1 \in DOMAIN q /\ Tail(q)[i] = q[i + 1]
<1>1. /\ Tail(q) \in Seq(S) /\ Head(q) \in S /\ Len(Tail(q)) = Len(q) - 1
      /\ \A i \in 1..Len(Tail(q)) : Tail(q)[i] = q[i + 1]
  BY HeadTailProperties
<1>2. Len(q) \in Nat \ {0} /\ DOMAIN q = 1..Len(q) /\ DOMAIN Tail(q) = 1..Len(Tail(q))
  BY <1>1, LenProperties, EmptySeq
<1> QED
  BY <1>1, <1>2

LEMMA ConsFacts ==
  ASSUME NEW S, NEW q \in Seq(S), NEW x \in S
  PROVE  /\ <<x>> \o q \in Seq(S)
         /\ \A i \in DOMAIN (<<x>> \o q) :
              \/ (<<x>> \o q)[i] = x
              \/ i - 1 \in DOMAIN q /\ (<<x>> \o q)[i] = q[i - 1]
<1>1. /\ <<x>> \in Seq(S) /\ Len(<<x>>) = 1 /\ Len(q) \in Nat /\ DOMAIN q = 1..Len(q)
      /\ <<x>>[1] = x
  BY LenProperties
<1>2. /\ <<x>> \o q \in Seq(S) /\ Len(<<x>> \o q) = Len(q) + 1
      /\ \A i \in 1..(Len(q) + 1) : (<<x>> \o q)[i] = IF i <= 1 THEN <<x>>[i] ELSE q[i - 1]
  BY <1>1, ConcatProperties
<1>3. DOMAIN (<<x>> \o q) = 1..(Len(q) + 1)
  BY <1>1, <1>2, LenProperties
<1> QED
  BY <1>1, <1>2, <1>3

LEMMA ConsIs ==
  ASSUME NEW S, NEW q \in Seq(S), NEW x \in S, NEW r, r = <<x>> \o q
  PROVE  /\ r \in Seq(S)
         /\ \A i \in DOMAIN r : r[i] = x \/ (i - 1 \in DOMAIN q /\ r[i] = q[i - 1])
BY ConsFacts

LEMMA PushOn ==
  ASSUME stack \in Seq(Frames), NEW f \in Frames, stack' = <<f>> \o stack
  PROVE  /\ stack' \in Seq(Frames)
         /\ \A g : OnStack(g)' <=> g = f \/ OnStack(g)
         /\ ObservesOnce /\ (f.op = "observe" => \A g : OnStack(g) /\ g.op = "observe" => g.of # f.of)
              => ObservesOnce'
<1>1. /\ <<f>> \in Seq(Frames) /\ Len(<<f>>) = 1 /\ Len(stack) \in Nat /\ DOMAIN stack = 1..Len(stack)
      /\ <<f>>[1] = f
  BY LenProperties
<1>2. /\ stack' \in Seq(Frames) /\ Len(stack') = Len(stack) + 1
      /\ \A i \in 1..(Len(stack) + 1) : stack'[i] = IF i <= 1 THEN <<f>>[i] ELSE stack[i - 1]
  BY <1>1, ConcatProperties
<1>3. DOMAIN stack' = 1..(Len(stack) + 1)
  BY <1>1, <1>2, LenProperties
<1>4. stack'[1] = f /\ \A i \in DOMAIN stack : i + 1 \in DOMAIN stack' /\ stack'[i + 1] = stack[i]
  BY <1>1, <1>2, <1>3
<1>5. \A i \in DOMAIN stack' : i = 1 \/ (i - 1 \in DOMAIN stack /\ stack'[i] = stack[i - 1])
  BY <1>1, <1>2, <1>3
<1>6. \A g : OnStack(g)' <=> g = f \/ OnStack(g)
  <2>1. ASSUME NEW g, OnStack(g)' PROVE g = f \/ OnStack(g)
    <3>1. PICK i \in DOMAIN stack' : stack'[i] = g
      BY <2>1 DEF OnStack
    <3> QED
      BY <1>4, <1>5, <3>1 DEF OnStack
  <2>2. OnStack(f)'
    <3>1. 1 \in DOMAIN stack'
      BY <1>1, <1>3
    <3> QED
      BY <1>4, <3>1 DEF OnStack
  <2>3. ASSUME NEW g, OnStack(g) PROVE OnStack(g)'
    BY <1>4, <2>3 DEF OnStack
  <2> QED
    BY <2>1, <2>2, <2>3
<1>7. ASSUME ObservesOnce, f.op = "observe" => \A g : OnStack(g) /\ g.op = "observe" => g.of # f.of
      PROVE  ObservesOnce'
  <2>1. \A i \in DOMAIN stack : stack[i].op = "observe" /\ f.op = "observe" => stack[i].of # f.of
    BY <1>7 DEF OnStack
  <2> SUFFICES ASSUME NEW i \in DOMAIN stack', NEW j \in DOMAIN stack',
                      stack'[i].op = "observe", stack'[j].op = "observe", stack'[i].of = stack'[j].of
               PROVE  i = j
    BY DEF ObservesOnce
  <2>2. CASE i = 1 \/ j = 1
    BY <1>4, <1>5, <2>1, <2>2
  <2>3. CASE i # 1 /\ j # 1
    <3>1. i - 1 = j - 1
      BY <1>5, <1>7, <2>3 DEF ObservesOnce
    <3> QED
      BY <1>3, <3>1
  <2> QED
    BY <2>2, <2>3
<1> QED
  BY <1>2, <1>6, <1>7

LEMMA PopOn ==
  ASSUME stack \in Seq(Frames), stack # <<>>, stack' = Tail(stack)
  PROVE  /\ stack' \in Seq(Frames) /\ Head(stack) \in Frames
         /\ OnStack(Head(stack))
         /\ \A g : OnStack(g)' => OnStack(g)
         /\ \A g : OnStack(g) /\ g # Head(stack) => OnStack(g)'
         /\ ObservesOnce => ObservesOnce'
         /\ ObservesOnce /\ Head(stack).op = "observe" =>
              \A g : OnStack(g)' /\ g.op = "observe" => g.of # Head(stack).of
<1>1. /\ stack' \in Seq(Frames) /\ Head(stack) \in Frames /\ Len(stack') = Len(stack) - 1
      /\ \A i \in 1..Len(stack') : stack'[i] = stack[i + 1]
  BY HeadTailProperties
<1>2. Len(stack) \in Nat \ {0} /\ DOMAIN stack = 1..Len(stack) /\ DOMAIN stack' = 1..Len(stack')
  BY <1>1, LenProperties, EmptySeq
<1>3. 1 \in DOMAIN stack /\ Head(stack) = stack[1]
  BY <1>2
<1>4. \A i \in DOMAIN stack' : i + 1 \in DOMAIN stack /\ i + 1 # 1 /\ stack'[i] = stack[i + 1]
  BY <1>1, <1>2
<1>5. \A i \in DOMAIN stack : i # 1 => i - 1 \in DOMAIN stack' /\ stack'[i - 1] = stack[i]
  <2> SUFFICES ASSUME NEW i \in DOMAIN stack, i # 1
               PROVE  i - 1 \in DOMAIN stack' /\ stack'[i - 1] = stack[i]
    OBVIOUS
  <2>1. i - 1 \in 1..Len(stack') /\ (i - 1) + 1 = i
    BY <1>1, <1>2
  <2> QED
    BY <1>1, <1>2, <2>1
<1>6. /\ \A g : OnStack(g)' => OnStack(g)
      /\ \A g : OnStack(g) /\ g # Head(stack) => OnStack(g)'
      /\ OnStack(Head(stack))
  <2>1. ASSUME NEW g, OnStack(g)' PROVE OnStack(g)
    <3>1. PICK i \in DOMAIN stack' : stack'[i] = g
      BY <2>1 DEF OnStack
    <3> QED
      BY <1>4, <3>1 DEF OnStack
  <2>2. ASSUME NEW g, OnStack(g), g # Head(stack) PROVE OnStack(g)'
    <3>1. PICK i \in DOMAIN stack : stack[i] = g
      BY <2>2 DEF OnStack
    <3> QED
      BY <1>3, <1>5, <2>2, <3>1 DEF OnStack
  <2>3. OnStack(Head(stack))
    BY <1>3 DEF OnStack
  <2> QED
    BY <2>1, <2>2, <2>3
<1>7. ASSUME ObservesOnce PROVE ObservesOnce'
  <2> SUFFICES ASSUME NEW i \in DOMAIN stack', NEW j \in DOMAIN stack',
                      stack'[i].op = "observe", stack'[j].op = "observe", stack'[i].of = stack'[j].of
               PROVE  i = j
    BY DEF ObservesOnce
  <2>1. i + 1 = j + 1
    BY <1>4, <1>7 DEF ObservesOnce
  <2> QED
    BY <1>2, <1>1, <2>1
<1>8. ASSUME ObservesOnce, Head(stack).op = "observe", NEW g, OnStack(g)', g.op = "observe"
      PROVE  g.of # Head(stack).of
  <2>1. PICK i \in DOMAIN stack' : stack'[i] = g
    BY <1>8 DEF OnStack
  <2>2. i + 1 \in DOMAIN stack /\ i + 1 # 1 /\ stack[i + 1] = g
    BY <1>4, <2>1
  <2> QED
    BY <1>3, <1>8, <2>2 DEF ObservesOnce
<1> QED
  BY <1>1, <1>6, <1>7, <1>8

LEMMA DeferQueued ==
  ASSUME microtasks \in Seq(Tasks), NEW t \in Tasks, microtasks' = Append(microtasks, t)
  PROVE  /\ microtasks' \in Seq(Tasks)
         /\ \A u : Queued(u)' => u = t \/ Queued(u)
<1>1. /\ microtasks' \in Seq(Tasks) /\ Len(microtasks') = Len(microtasks) + 1
      /\ \A i \in 1..Len(microtasks) : microtasks'[i] = microtasks[i]
      /\ microtasks'[Len(microtasks) + 1] = t
  BY AppendProperties
<1>2. /\ Len(microtasks) \in Nat /\ DOMAIN microtasks = 1..Len(microtasks)
      /\ DOMAIN microtasks' = 1..Len(microtasks')
  BY <1>1, LenProperties
<1>3. \A i \in DOMAIN microtasks' : i \in DOMAIN microtasks \/ i = Len(microtasks) + 1
  BY <1>1, <1>2
<1> QED
  BY <1>1, <1>2, <1>3 DEF Queued

LEMMA ConsumeQueued ==
  ASSUME microtasks \in Seq(Tasks), microtasks # <<>>, microtasks' = Tail(microtasks)
  PROVE  /\ microtasks' \in Seq(Tasks) /\ Queued(Head(microtasks))
         /\ \A u : Queued(u)' => Queued(u)
<1>1. /\ microtasks' \in Seq(Tasks) /\ Len(microtasks') = Len(microtasks) - 1
      /\ \A i \in 1..Len(microtasks') : microtasks'[i] = microtasks[i + 1]
  BY HeadTailProperties
<1>2. /\ Len(microtasks) \in Nat \ {0} /\ DOMAIN microtasks = 1..Len(microtasks)
      /\ DOMAIN microtasks' = 1..Len(microtasks')
  BY <1>1, LenProperties, EmptySeq
<1>3. 1 \in DOMAIN microtasks /\ Head(microtasks) = microtasks[1]
  BY <1>2
<1>4. \A i \in DOMAIN microtasks' : i + 1 \in DOMAIN microtasks /\ microtasks'[i] = microtasks[i + 1]
  BY <1>1, <1>2
<1> QED
  BY <1>1, <1>3, <1>4 DEF Queued

-----------------------------------------------------------------------------
(* Each operation keeps the invariant.                                     *)

LEMMA BuildingKept ==
  ASSUME BuildingShape, UNCHANGED <<registered, building, custom, adapterOf>>
  PROVE  BuildingShape'
<1>1. ASSUME NEW i \in DOMAIN building PROVE OfDifferent(building[i])'
  BY DEF BuildingShape, OfDifferent
<1> QED
  BY <1>1 DEF BuildingShape

LEMMA InitIInv == Init => IInv
<1> SUFFICES ASSUME Init PROVE IInv
  OBVIOUS
<1>1. TypeOK
  <2>1. /\ parents \in Seq(RegExps \cup {Ask}) /\ microtasks \in Seq(Tasks) /\ stack \in Seq(Frames)
        /\ ready \in [Names -> Seq(Attempts)]
        /\ waiters \in [Names -> Seq(Observers)] /\ dynamicWaiters \in [Names -> Seq(Observers)]
    BY EmptySeq DEF Init
  <2>2. building \in Seq(Registrations) /\ again \in 0..MaxAgain
    BY ConnectionApiAssumption, EmptySeq DEF Init
  <2> QED
    BY <2>1, <2>2, ConnectionApiAssumption DEF Init, TypeOK, States
<1>2. \A f : ~OnStack(f) /\ ~Queued(f)
  BY DEF Init, OnStack, Queued
<1>3. ClosedIsFinal /\ AdaptersAreIsolated
  BY ConnectionApiAssumption DEF Init, ClosedIsFinal, AdaptersAreIsolated
<1>4. KnownNames /\ QueueShape /\ ObserversEntered /\ ObservesOnce /\ AdmittedOnce
  BY <1>2 DEF Init, KnownNames, QueueShape, ObserversEntered, ObservesOnce, AdmittedOnce
<1>5. BuildingShape /\ Admission /\ ParentShape
  BY <1>2, ConnectionApiAssumption
     DEF Init, BuildingShape, Admission, ParentShape, NothingUnderWay
<1> QED
  BY <1>1, <1>3, <1>4, <1>5 DEF IInv

\* A Namespace is created: its name keeps its observers, and its adapter is its own.
LEMMA CreateFacts ==
  ASSUME IInv, NEW n \in Names, n \notin registered, Create(n), UNCHANGED <<closed, ready, result>>
  PROVE  /\ registered' = registered \cup {n} /\ registered' \subseteq Names
         /\ nsClosed' \subseteq Names /\ nsClosed' = IF closed THEN registered' ELSE {}
         /\ adapterOf' \in [Names -> Adapters \cup {BuiltIn}] /\ instances' \subseteq Adapters
         /\ waiters' \in [Names -> Seq(Observers)] /\ dynamicWaiters' \in [Names -> Seq(Observers)]
         /\ \A m \in Names : /\ waiters'[m] = IF m = n THEN dynamicWaiters[n] ELSE waiters[m]
                             /\ dynamicWaiters'[m] = IF m = n THEN <<>> ELSE dynamicWaiters[m]
         /\ UNCHANGED <<parents, custom, building, admissionStarted>>
         /\ \A m \in registered : adapterOf'[m] = adapterOf[m]
         /\ AdaptersAreIsolated' /\ BuildingShape' /\ QueueShape'
<1>1. TypeOK
  BY DEF IInv
<1>2. /\ registered' = registered \cup {n} /\ registered' \subseteq Names
      /\ nsClosed' \subseteq Names /\ nsClosed' = IF closed THEN registered' ELSE {}
      /\ UNCHANGED <<parents, custom, building, admissionStarted>>
  BY <1>1 DEF Create, TypeOK, IInv, ClosedIsFinal
<1>3. /\ waiters' \in [Names -> Seq(Observers)] /\ dynamicWaiters' \in [Names -> Seq(Observers)]
      /\ \A m \in Names : /\ waiters'[m] = IF m = n THEN dynamicWaiters[n] ELSE waiters[m]
                          /\ dynamicWaiters'[m] = IF m = n THEN <<>> ELSE dynamicWaiters[m]
  <2>1. <<>> \in Seq(Observers) /\ dynamicWaiters[n] \in Seq(Observers)
    BY <1>1, EmptySeq DEF TypeOK
  <2> QED
    BY <1>1, <2>1 DEF Create, TypeOK
<1>4. /\ adapterOf' \in [Names -> Adapters \cup {BuiltIn}] /\ instances' \subseteq Adapters
      /\ \A m \in registered : adapterOf'[m] = adapterOf[m]
      /\ AdaptersAreIsolated'
  <2>1. CASE custom
    <3>1. PICK x \in Adapters \ instances : /\ adapterOf' = [adapterOf EXCEPT ![n] = x]
                                            /\ instances' = instances \cup {x}
      BY <2>1 DEF Create
    <3>2. \A m \in Names : adapterOf'[m] = IF m = n THEN x ELSE adapterOf[m]
      BY <1>1, <3>1 DEF TypeOK
    <3>3. \A m \in registered : adapterOf[m] \in instances
      BY <2>1 DEF IInv, AdaptersAreIsolated
    <3>4. x # BuiltIn /\ registered \subseteq Names
      BY <1>1, ConnectionApiAssumption DEF TypeOK
    <3>5. AdaptersAreIsolated'
      BY <1>2, <2>1, <3>1, <3>2, <3>3, <3>4 DEF AdaptersAreIsolated, IInv
    <3> QED
      BY <1>1, <3>1, <3>2, <3>4, <3>5 DEF TypeOK
  <2>2. CASE ~custom
    <3>1. UNCHANGED <<adapterOf, instances>>
      BY <2>2 DEF Create
    <3>2. adapterOf[n] = BuiltIn
      BY <2>2 DEF IInv, BuildingShape
    <3> QED
      BY <1>1, <1>2, <2>2, <3>1, <3>2 DEF TypeOK, AdaptersAreIsolated, IInv
  <2> QED
    BY <2>1, <2>2
<1>5. BuildingShape'
  <2>1. ~custom => \A m \in Names : adapterOf'[m] = BuiltIn
    BY DEF Create, BuildingShape, IInv
  <2>2. ASSUME NEW i \in DOMAIN building PROVE OfDifferent(building[i])'
    BY <1>2 DEF BuildingShape, OfDifferent, IInv
  <2> QED
    BY <1>2, <2>1, <2>2 DEF BuildingShape
<1>6. QueueShape'
  BY <1>1, <1>2, <1>3 DEF QueueShape, IInv, TypeOK
<1> QED
  BY <1>2, <1>3, <1>4, <1>5, <1>6

LEMMA OfStep == ASSUME IInv, NEW n \in Names, Of(n) PROVE IInv'
<1>1. n \notin registered /\ Create(n) /\ UNCHANGED <<registryVars, ready, result, attemptVars, runVars>>
  BY DEF Of
<1>2. UNCHANGED <<origin, closed, ready, result, state, attached, admitted, held, called, again,
                  microtasks, stack>>
  BY <1>1 DEF registryVars, attemptVars, runVars
<1>3. TypeOK'
  BY <1>1, <1>2, CreateFacts DEF IInv, TypeOK
<1>4. AdaptersAreIsolated' /\ BuildingShape' /\ QueueShape'
  BY <1>1, <1>2, CreateFacts
<1>5. ClosedIsFinal'
  BY <1>1, <1>2, CreateFacts DEF IInv, ClosedIsFinal
<1>6. KnownNames'
  BY <1>1, <1>2, CreateFacts DEF IInv, KnownNames, Queued, OnStack
<1>7. ObserversEntered' /\ ObservesOnce' /\ AdmittedOnce'
  BY <1>2 DEF IInv, ObserversEntered, ObservesOnce, AdmittedOnce, OnStack
<1>8. Admission' /\ ParentShape'
  BY <1>1, <1>2, CreateFacts DEF IInv, Admission, NothingUnderWay, ParentShape, OnStack
<1> QED
  BY <1>3, <1>4, <1>5, <1>6, <1>7, <1>8 DEF IInv

LEMMA OfParentStep ==
  ASSUME IInv, NEW m \in RegExps \cup {Ask}, OfParent(m)
  PROVE  IInv'
<1>1. /\ parents' = Append(parents, m) /\ Len(parents) < MaxParents
      /\ UNCHANGED <<origin, closed, registered, nsClosed, adapterVars, observerVars, attemptVars, runVars>>
  BY DEF OfParent, registryVars
<1>2. /\ parents' \in Seq(RegExps \cup {Ask}) /\ Len(parents) \in Nat /\ Len(parents') = Len(parents) + 1
  BY <1>1, AppendProperties, LenProperties DEF IInv, TypeOK
<1>3. TypeOK'
  BY <1>1, <1>2 DEF IInv, TypeOK, adapterVars, observerVars, attemptVars, runVars
<1>4. ParentShape'
  BY <1>1, <1>2, ConnectionApiAssumption DEF IInv, ParentShape, attemptVars
<1>5. ClosedIsFinal' /\ AdaptersAreIsolated' /\ BuildingShape' /\ QueueShape'
  BY <1>1, BuildingKept DEF IInv, ClosedIsFinal, AdaptersAreIsolated, QueueShape, adapterVars, observerVars
<1>6. KnownNames' /\ ObserversEntered' /\ ObservesOnce' /\ AdmittedOnce' /\ Admission'
  BY <1>1 DEF IInv, KnownNames, ObserversEntered, ObservesOnce, AdmittedOnce, Admission, NothingUnderWay,
              OnStack, Queued, attemptVars, runVars, observerVars, adapterVars
<1> QED
  BY <1>3, <1>4, <1>5, <1>6 DEF IInv

LEMMA RegisterStep == ASSUME IInv, RegisterAdapters PROVE IInv'
<1> DEFINE f == Frame("register", Root, Root)
<1> DEFINE b == [used |-> instances, got |-> <<>>]
<1>1. /\ ~admissionStarted /\ building' = <<b>> \o building /\ stack' = <<f>> \o stack
      /\ UNCHANGED <<registryVars, spaceVars, custom, adapterOf, instances, admissionStarted,
                     observerVars, attemptVars, microtasks>>
  BY DEF RegisterAdapters, Push, Replacing
<1>2. f \in Frames /\ f.op = "register" /\ f.at = Root /\ TypeOK
  BY DEF Frame, Frames, IInv
<1>3. /\ stack' \in Seq(Frames) /\ ObservesOnce'
      /\ \A g : OnStack(g)' <=> g = f \/ OnStack(g)
  BY <1>1, <1>2, PushOn DEF IInv, TypeOK
<1>10. b \in Registrations /\ OfDifferent(b)'
  <2>1. /\ DOMAIN <<>> = {}
        /\ <<>> \in [{} -> Adapters]
    OBVIOUS
  <2>2. <<>> \in UNION {[D -> Adapters] : D \in SUBSET Names}
    BY <2>1
  <2> QED
    BY <1>2, <2>1, <2>2 DEF Registrations, TypeOK, OfDifferent
<1>12. PICK c : c = b
  OBVIOUS
<1>13. c \in Registrations /\ building' = <<c>> \o building /\ building \in Seq(Registrations)
  BY <1>1, <1>2, <1>10, <1>12 DEF TypeOK
<1>11. /\ building' \in Seq(Registrations)
       /\ \A i \in DOMAIN building' :
            building'[i] = c \/ (i - 1 \in DOMAIN building /\ building'[i] = building[i - 1])
  BY <1>13, ConsIs
<1>4. TypeOK'
  BY <1>1, <1>2, <1>3, <1>11 DEF TypeOK, registryVars, spaceVars, observerVars, attemptVars
<1>5. ClosedIsFinal' /\ AdaptersAreIsolated' /\ QueueShape' /\ ParentShape'
  BY <1>1 DEF IInv, ClosedIsFinal, AdaptersAreIsolated, QueueShape, ParentShape,
              registryVars, spaceVars, observerVars, attemptVars
<1>6. KnownNames'
  BY <1>1, <1>2, <1>3 DEF IInv, KnownNames, Queued, spaceVars, attemptVars
<1>7. ObserversEntered' /\ AdmittedOnce'
  BY <1>1, <1>2, <1>3 DEF IInv, ObserversEntered, AdmittedOnce, observerVars, attemptVars, registryVars
<1>8. BuildingShape'
  <2>1. ASSUME NEW i \in DOMAIN building' PROVE OfDifferent(building[i])'
    <3>1. \A j \in DOMAIN building : OfDifferent(building[j])
      BY DEF IInv, BuildingShape
    <3> QED
      BY <1>1, <1>10, <1>11, <1>12, <3>1 DEF OfDifferent, spaceVars
  <2> QED
    BY <1>1, <2>1 DEF IInv, BuildingShape
<1>9. Admission'
  BY <1>1, <1>2, <1>3 DEF IInv, Admission, NothingUnderWay, attemptVars
<1> QED
  BY <1>3, <1>4, <1>5, <1>6, <1>7, <1>8, <1>9 DEF IInv

\* A frame is popped.
LEMMA FrameGone ==
  ASSUME IInv, stack # <<>>, stack' = Tail(stack)
  PROVE  /\ stack' \in Seq(Frames) /\ ObservesOnce'
         /\ UNCHANGED <<registered, attached, microtasks, held, called>> => KnownNames'
         /\ UNCHANGED <<result, closed>> => ObserversEntered'
         /\ Head(stack).op # "handler" /\ UNCHANGED <<admitted, state>> => AdmittedOnce'
         /\ UNCHANGED <<admissionStarted, attached, held, called, microtasks>> => Admission'
<1>1. /\ stack' \in Seq(Frames) /\ ObservesOnce'
      /\ \A g : OnStack(g)' => OnStack(g)
      /\ \A g : OnStack(g) /\ g # Head(stack) => OnStack(g)'
  BY PopOn DEF IInv, TypeOK
<1>2. UNCHANGED <<registered, attached, microtasks, held, called>> => KnownNames'
  BY <1>1 DEF IInv, KnownNames, Queued
<1>3. UNCHANGED <<result, closed>> => ObserversEntered'
  BY <1>1 DEF IInv, ObserversEntered
<1>4. Head(stack).op # "handler" => \A a \in admitted : Frame("handler", a, NameOf[a]) # Head(stack)
  BY DEF Frame
<1>5. Head(stack).op # "handler" /\ UNCHANGED <<admitted, state>> => AdmittedOnce'
  BY <1>1, <1>4 DEF IInv, AdmittedOnce
<1>6. UNCHANGED <<admissionStarted, attached, held, called, microtasks>> => Admission'
  BY <1>1 DEF IInv, Admission, NothingUnderWay
<1> QED
  BY <1>1, <1>2, <1>3, <1>5, <1>6

LEMMA FactoryFailsStep == ASSUME IInv, FactoryFails PROVE IInv'
<1>1. /\ stack # <<>> /\ Head(stack).op # "handler" /\ stack' = Tail(stack)
      /\ building # <<>> /\ building' = Tail(building)
      /\ UNCHANGED <<registryVars, spaceVars, custom, adapterOf, instances, admissionStarted,
                     observerVars, attemptVars, microtasks>>
  BY DEF FactoryFails, Top, Pop, Frame
<1>5. /\ building' \in Seq(Registrations)
      /\ \A i \in DOMAIN building' : i + 1 \in DOMAIN building /\ building'[i] = building[i + 1]
  BY <1>1, TailFacts DEF IInv, TypeOK
<1>2. TypeOK'
  BY <1>1, <1>5, FrameGone DEF IInv, TypeOK, registryVars, spaceVars, observerVars, attemptVars
<1>3. ClosedIsFinal' /\ AdaptersAreIsolated' /\ QueueShape' /\ ParentShape' /\ BuildingShape'
  <2>1. BuildingShape'
    BY <1>1, <1>5 DEF IInv, BuildingShape, OfDifferent, spaceVars
  <2> QED
    BY <1>1, <2>1 DEF IInv, ClosedIsFinal, AdaptersAreIsolated, QueueShape, ParentShape,
                registryVars, spaceVars, observerVars, attemptVars
<1>4. KnownNames' /\ ObserversEntered' /\ ObservesOnce' /\ AdmittedOnce' /\ Admission'
  BY <1>1, FrameGone DEF registryVars, spaceVars, observerVars, attemptVars
<1> QED
  BY <1>2, <1>3, <1>4 DEF IInv

\* The last factory gives each Namespace the adapter that it returned for it; no Socket
\* has been attached by then.
LEMMA FactoryReturnsStep ==
  ASSUME IInv, NEW n \in Names, NEW x \in Adapters, FactoryReturns(n, x)
  PROVE  IInv' /\ attached = {}
<1> DEFINE own == Head(building)
<1>1. PICK got : got = [m \in DOMAIN own.got \cup {n} |-> IF m = n THEN x ELSE own.got[m]]
  OBVIOUS
<1>2. /\ Top("register", Root, Root) /\ building # <<>> /\ n \in registered \ DOMAIN own.got
      /\ x \notin own.used
      /\ UNCHANGED <<registryVars, spaceVars, admissionStarted, observerVars, attemptVars, microtasks>>
  BY DEF FactoryReturns
<1>3. \/ /\ DOMAIN got = registered
         /\ adapterOf' = [m \in Names |-> IF m \in registered THEN got[m] ELSE adapterOf[m]]
         /\ instances' = {got[m] : m \in registered}
         /\ custom' = TRUE /\ building' = Tail(building) /\ stack' = Tail(stack)
      \/ /\ building' = <<[used |-> own.used \cup {x}, got |-> got]>> \o Tail(building)
         /\ UNCHANGED <<custom, adapterOf, instances, stack>>
  BY <1>1 DEF FactoryReturns, Pop, Replacing
<1>4. /\ TypeOK /\ stack # <<>> /\ OnStack(Head(stack)) /\ Head(stack).op = "register"
      /\ Head(stack).op # "handler"
  <2>1. 1 \in DOMAIN stack /\ Head(stack) = stack[1]
    BY <1>2, EmptySeq, LenProperties DEF Top, IInv, TypeOK
  <2> QED
    BY <1>2, <2>1 DEF Top, Frame, OnStack, IInv
<1>5. attached = {}
  BY <1>4 DEF IInv, Admission, NothingUnderWay
<1>9. /\ Tail(building) \in Seq(Registrations) /\ own \in Registrations
      /\ \A i \in DOMAIN Tail(building) :
           i + 1 \in DOMAIN building /\ Tail(building)[i] = building[i + 1]
      /\ 1 \in DOMAIN building /\ own = building[1]
  BY <1>2, <1>4, TailFacts DEF TypeOK
<1>10. OfDifferent(own) /\ \A i \in DOMAIN Tail(building) : OfDifferent(Tail(building)[i])
  BY <1>9 DEF IInv, BuildingShape
<1>6. /\ DOMAIN got \subseteq registered
      /\ \A m \in DOMAIN got : got[m] \in own.used \cup {x} /\ got[m] \in Adapters
      /\ \A k, m \in DOMAIN got : got[k] = got[m] => k = m
  <2>1. own.used \subseteq Adapters
    BY <1>9 DEF Registrations
  <2> QED
    BY <1>1, <1>2, <1>10, <2>1 DEF OfDifferent
<1>7. ASSUME DOMAIN got = registered,
             adapterOf' = [m \in Names |-> IF m \in registered THEN got[m] ELSE adapterOf[m]],
             instances' = {got[m] : m \in registered},
             custom' = TRUE, building' = Tail(building), stack' = Tail(stack)
      PROVE  IInv'
  <2>1. /\ registered' = registered /\ registered \subseteq Names
        /\ \A m \in registered : adapterOf'[m] = got[m] /\ got[m] \in Adapters
    BY <1>2, <1>4, <1>6, <1>7 DEF spaceVars, TypeOK
  <2>2. TypeOK'
    <3>1. instances' \subseteq Adapters
      BY <1>6, <1>7
    <3>2. adapterOf' \in [Names -> Adapters \cup {BuiltIn}]
      BY <1>4, <1>7, <2>1 DEF TypeOK
    <3>3. stack' \in Seq(Frames) /\ building' \in Seq(Registrations)
      BY <1>4, <1>7, <1>9, FrameGone
    <3> QED
      BY <1>2, <1>4, <1>7, <3>1, <3>2, <3>3
         DEF TypeOK, registryVars, spaceVars, observerVars, attemptVars
  <2>3. AdaptersAreIsolated'
    <3>1. \A m \in registered : adapterOf'[m] \in instances' /\ adapterOf'[m] # BuiltIn
      BY <1>7, <2>1, ConnectionApiAssumption
    <3>2. \A k, m \in registered : adapterOf'[k] = adapterOf'[m] => k = m
      BY <1>6, <1>7, <2>1
    <3> QED
      BY <2>1, <3>1, <3>2 DEF AdaptersAreIsolated
  <2>4. BuildingShape'
    BY <1>2, <1>7, <1>10 DEF BuildingShape, OfDifferent, spaceVars
  <2>5. ClosedIsFinal' /\ QueueShape' /\ ParentShape'
    BY <1>2 DEF IInv, ClosedIsFinal, QueueShape, ParentShape,
                registryVars, spaceVars, observerVars, attemptVars
  <2>6. KnownNames' /\ ObserversEntered' /\ ObservesOnce' /\ AdmittedOnce' /\ Admission'
    BY <1>2, <1>4, <1>7, FrameGone DEF registryVars, spaceVars, observerVars, attemptVars
  <2> QED
    BY <2>2, <2>3, <2>4, <2>5, <2>6 DEF IInv
<1>8. ASSUME building' = <<[used |-> own.used \cup {x}, got |-> got]>> \o Tail(building),
             UNCHANGED <<custom, adapterOf, instances, stack>>
      PROVE  IInv'
  <2> DEFINE b == [used |-> own.used \cup {x}, got |-> got]
  <2>5. b \in Registrations
    <3>1. got \in [DOMAIN got -> Adapters] /\ DOMAIN got \subseteq Names
      BY <1>1, <1>4, <1>6 DEF TypeOK
    <3>2. own.used \cup {x} \subseteq Adapters
      BY <1>9 DEF Registrations
    <3> QED
      BY <3>1, <3>2 DEF Registrations
  <2>6. /\ building' \in Seq(Registrations)
        /\ \A i \in DOMAIN building' :
             \/ building'[i] = b
             \/ i - 1 \in DOMAIN Tail(building) /\ building'[i] = Tail(building)[i - 1]
    <3>1. PICK c : c = b
      OBVIOUS
    <3>2. c \in Registrations /\ building' = <<c>> \o Tail(building)
      BY <1>8, <2>5, <3>1
    <3>3. /\ building' \in Seq(Registrations)
          /\ \A i \in DOMAIN building' :
               building'[i] = c \/ (i - 1 \in DOMAIN Tail(building) /\ building'[i] = Tail(building)[i - 1])
      BY <1>9, <3>2, ConsIs
    <3> QED
      BY <3>1, <3>3
  <2>1. TypeOK'
    BY <1>2, <1>4, <1>8, <2>6 DEF TypeOK, registryVars, spaceVars, observerVars, attemptVars
  <2>2. BuildingShape'
    <3>1. OfDifferent(b)
      BY <1>6 DEF OfDifferent
    <3>2. \A i \in DOMAIN building' : OfDifferent(building'[i])
      BY <1>10, <2>6, <3>1
    <3>3. \A i \in DOMAIN building' : OfDifferent(building[i])'
      BY <1>2, <3>2 DEF OfDifferent, spaceVars
    <3>4. registered' = registered /\ custom' = custom /\ adapterOf' = adapterOf
      BY <1>2, <1>8 DEF spaceVars
    <3> QED
      BY <3>3, <3>4 DEF IInv, BuildingShape
  <2>3. ClosedIsFinal' /\ QueueShape' /\ ParentShape' /\ AdaptersAreIsolated'
    BY <1>2, <1>8 DEF IInv, ClosedIsFinal, QueueShape, ParentShape, AdaptersAreIsolated,
                      registryVars, spaceVars, observerVars, attemptVars
  <2>4. KnownNames' /\ ObserversEntered' /\ ObservesOnce' /\ AdmittedOnce' /\ Admission'
    BY <1>2, <1>8 DEF IInv, KnownNames, ObserversEntered, ObservesOnce, AdmittedOnce, Admission,
                      NothingUnderWay, OnStack, Queued, registryVars, spaceVars, observerVars, attemptVars
  <2> QED
    BY <2>1, <2>2, <2>3, <2>4 DEF IInv
<1> QED
  BY <1>3, <1>5, <1>7, <1>8

\* The steps that leave names, queues and adapters alone keep what is said of them.
LEMMA SpacesKept ==
  ASSUME IInv, UNCHANGED <<registryVars, spaceVars, custom, adapterOf, instances, building, observerVars>>
  PROVE  ClosedIsFinal' /\ AdaptersAreIsolated' /\ QueueShape' /\ BuildingShape'
BY BuildingKept DEF IInv, ClosedIsFinal, AdaptersAreIsolated, QueueShape,
       registryVars, spaceVars, observerVars

LEMMA ConnectStep == ASSUME IInv, NEW a \in Attempts, Connect(a) PROVE IInv'
<1>1. /\ state[a] = "unused" /\ admissionStarted' = TRUE
      /\ UNCHANGED <<registryVars, spaceVars, custom, adapterOf, instances, building, observerVars,
                     attached, admitted, held, called, again, stack>>
      /\ TypeOK
  BY DEF Connect, IInv
<1>2. \E s \in {"pending", "rejected"} : state' = [state EXCEPT ![a] = s]
  BY DEF Connect, Becomes
<1>3. /\ microtasks' \in Seq(Tasks)
      /\ \A t : Queued(t)' => Queued(t) \/ (t.op = "pair" /\ t.of = a /\ NameOf[a] \in registered)
                                        \/ t.op = "admit"
  <2>1. CASE UNCHANGED microtasks
    BY <1>1, <2>1 DEF TypeOK, Queued
  <2>2. CASE NameOf[a] \in registered /\ Defer("pair", a)
    <3>1. [op |-> "pair", of |-> a] \in Tasks
      BY DEF Tasks
    <3>2. /\ microtasks' \in Seq(Tasks)
          /\ \A t : Queued(t)' => Queued(t) \/ t = [op |-> "pair", of |-> a]
      BY <1>1, <2>2, <3>1, DeferQueued DEF Defer, TypeOK
    <3> QED
      BY <2>2, <3>2
  <2>3. CASE Defer("admit", a)
    <3>1. [op |-> "admit", of |-> a] \in Tasks
      BY DEF Tasks
    <3>2. microtasks \in Seq(Tasks) /\ microtasks' = Append(microtasks, [op |-> "admit", of |-> a])
      BY <1>1, <2>3 DEF Defer, TypeOK
    <3>3. /\ microtasks' \in Seq(Tasks)
          /\ \A t : Queued(t)' => t = [op |-> "admit", of |-> a] \/ Queued(t)
      BY <3>1, <3>2, DeferQueued
    <3> QED
      BY <3>3
  <2> QED
    BY <2>1, <2>2, <2>3 DEF Connect
<1>4. TypeOK'
  BY <1>1, <1>2, <1>3 DEF TypeOK, States, registryVars, spaceVars, observerVars
<1>5. ClosedIsFinal' /\ AdaptersAreIsolated' /\ QueueShape' /\ BuildingShape'
  BY <1>1, SpacesKept
<1>6. KnownNames'
  BY <1>1, <1>3 DEF IInv, KnownNames, OnStack, spaceVars
<1>7. ObserversEntered' /\ ObservesOnce' /\ ParentShape'
  BY <1>1 DEF IInv, ObserversEntered, ObservesOnce, ParentShape, OnStack, observerVars, registryVars, spaceVars
<1>8. AdmittedOnce'
  BY <1>1, <1>2 DEF IInv, AdmittedOnce, OnStack, TypeOK
<1>9. Admission'
  BY <1>1 DEF IInv, Admission, NothingUnderWay, OnStack
<1> QED
  BY <1>4, <1>5, <1>6, <1>7, <1>8, <1>9 DEF IInv

\* Only the state of one attempt changes, and not into "unused" or "pending".
LEMMA SettleStep ==
  ASSUME IInv, NEW a \in Attempts, NEW s \in {"connected", "rejected", "cancelled"}, Becomes(a, s),
         UNCHANGED <<registryVars, spaceVars, adapterVars, observerVars, attached,
                     admitted, held, called, again, runVars>>
  PROVE  IInv'
<1>1. TypeOK'
  BY DEF IInv, TypeOK, Becomes, States, registryVars, spaceVars, adapterVars, observerVars, runVars
<1>2. ClosedIsFinal' /\ AdaptersAreIsolated' /\ QueueShape' /\ BuildingShape'
  BY SpacesKept DEF adapterVars
<1>3. AdmittedOnce'
  BY DEF IInv, AdmittedOnce, Becomes, TypeOK, OnStack, runVars
<1>4. KnownNames' /\ ObserversEntered' /\ ObservesOnce' /\ Admission' /\ ParentShape'
  BY DEF IInv, KnownNames, ObserversEntered, ObservesOnce, Admission, NothingUnderWay, ParentShape,
         OnStack, Queued, runVars, spaceVars, observerVars, adapterVars, registryVars
<1> QED
  BY <1>1, <1>2, <1>3, <1>4 DEF IInv

LEMMA ConnectMissingStep == ASSUME IInv, NEW a \in Attempts, ConnectMissing(a) PROVE IInv'
BY SettleStep DEF ConnectMissing

LEMMA DisconnectStep == ASSUME IInv, NEW a \in Attempts, Disconnect(a) PROVE IInv'
BY SettleStep DEF Disconnect

LEMMA NewerServerStep == ASSUME IInv, NewerServer PROVE IInv'
<1> USE DEF NewerServer, spaceVars, adapterVars, observerVars, attemptVars, runVars
<1>1. TypeOK'
  BY DEF IInv, TypeOK
<1>2. ClosedIsFinal' /\ AdaptersAreIsolated' /\ QueueShape' /\ BuildingShape'
  BY BuildingKept DEF IInv, ClosedIsFinal, AdaptersAreIsolated, QueueShape
<1>3. KnownNames' /\ ObserversEntered' /\ ObservesOnce' /\ AdmittedOnce' /\ Admission' /\ ParentShape'
  BY DEF IInv, KnownNames, ObserversEntered, ObservesOnce, AdmittedOnce, Admission, NothingUnderWay,
         ParentShape, OnStack, Queued
<1> QED
  BY <1>1, <1>2, <1>3 DEF IInv

\* adapter() is not under way once something is on its way in.
UnderWay == admissionStarted /\ \A f : OnStack(f) => f.op # "register"

\* Nothing is pushed, and no `connection` event ends.
StackShrinks ==
  /\ stack' \in Seq(Frames) /\ ObservesOnce'
  /\ \A f : OnStack(f)' => OnStack(f)
  /\ \A f : OnStack(f) /\ f.op = "handler" => OnStack(f)'

\* What a step of an admission may hand out.
MayHold(a, c) ==
  \/ c \in held \cup called
  \/ c = Callback("auth", a, 0) /\ NameOf[a] \in registered
  \/ c = Callback("admitAuth", a, 0)
  \/ c = Callback("next", a, 0) /\ a \in attached'
  \/ \E i \in 1..Len(parents) : c = Callback("match", a, i)

\* The steps of an admission that create no Namespace and announce nothing.
LEMMA AdmissionShape ==
  ASSUME IInv, UnderWay, NEW a \in Attempts,
         attached' = attached \/ (attached' = attached \cup {a} /\ NameOf[a] \in registered),
         state' = state \/ state' = [state EXCEPT ![a] = "rejected"],
         \A c \in held' \cup called' : MayHold(a, c),
         \A t : Queued(t)' => Queued(t) \/ (t.op \in {"accept", "refuse"} /\ t.of \in attached),
         StackShrinks,
         UNCHANGED <<registryVars, spaceVars, adapterVars, result, admitted>>
  PROVE  /\ held' \subseteq Callbacks /\ called' \subseteq Callbacks /\ attached' \subseteq Attempts
         /\ state' \in [Attempts -> States]
         /\ KnownNames' /\ ObserversEntered' /\ ObservesOnce' /\ AdmittedOnce'
         /\ Admission' /\ ParentShape' /\ AdaptersAreIsolated' /\ BuildingShape'
<1>1. TypeOK /\ Len(parents) \in Nat /\ Len(parents) <= MaxParents /\ MaxParents \in Nat
  BY ConnectionApiAssumption, LenProperties DEF IInv, TypeOK, ParentShape
<1>2. \A c \in held' \cup called' : c \in Callbacks
  <2> SUFFICES ASSUME NEW c \in held' \cup called' PROVE c \in Callbacks
    OBVIOUS
  <2>1. MayHold(a, c)
    OBVIOUS
  <2>2. CASE c \in held \cup called
    BY <1>1, <2>2 DEF TypeOK
  <2>3. ASSUME NEW op \in CallbackOps, c = Callback(op, a, 0) PROVE c \in Callbacks
    BY <1>1, <2>3 DEF Callbacks, Callback
  <2>4. ASSUME NEW i \in 1..Len(parents), c = Callback("match", a, i) PROVE c \in Callbacks
    BY <1>1, <2>4 DEF Callbacks, Callback, CallbackOps
  <2> QED
    BY <2>1, <2>2, <2>3, <2>4 DEF MayHold, CallbackOps
<1>3. attached' \subseteq Attempts /\ attached \subseteq attached'
      /\ \A b \in attached' : NameOf[b] \in registered
  BY <1>1 DEF TypeOK, IInv, KnownNames
<1>4. state' \in [Attempts -> States]
      /\ \A b \in Attempts : state'[b] = state[b] \/ state'[b] = "rejected"
  BY <1>1 DEF TypeOK, States
<1>5. KnownNames'
  <2>1. \A c \in held' \cup called' : /\ c.op = "auth" => NameOf[c.of] \in registered
                                      /\ c.op = "next" => c.of \in attached'
    BY <1>3 DEF MayHold, Callback, IInv, KnownNames
  <2>2. \A t : Queued(t)' => /\ t.op = "pair" => NameOf[t.of] \in registered
                             /\ t.op \in {"accept", "refuse"} => t.of \in attached'
    BY <1>3 DEF IInv, KnownNames
  <2> QED
    BY <1>3, <2>1, <2>2 DEF KnownNames, IInv, StackShrinks, spaceVars
<1>6. ObserversEntered' /\ ObservesOnce'
  BY DEF StackShrinks, IInv, ObserversEntered, registryVars
<1>7. AdmittedOnce'
  <2> SUFFICES ASSUME NEW b \in admitted
               PROVE  /\ state'[b] # "unused"
                      /\ state'[b] = "pending" => OnStack(Frame("handler", b, NameOf[b]))'
    BY DEF AdmittedOnce, Frame
  <2>1. b \in Attempts /\ state[b] # "unused"
        /\ (state[b] = "pending" => OnStack(Frame("handler", b, NameOf[b])))
    BY <1>1 DEF IInv, AdmittedOnce, TypeOK
  <2>2. Frame("handler", b, NameOf[b]).op = "handler"
    BY DEF Frame
  <2> QED
    BY <1>4, <2>1, <2>2 DEF StackShrinks
<1>8. Admission'
  BY DEF UnderWay, StackShrinks, Admission, NothingUnderWay, adapterVars
<1>9. ParentShape'
  BY DEF MayHold, Callback, IInv, ParentShape, spaceVars
<1>10. AdaptersAreIsolated' /\ BuildingShape'
  BY BuildingKept DEF IInv, AdaptersAreIsolated, spaceVars, adapterVars
<1> QED
  BY <1>2, <1>3, <1>4, <1>5, <1>6, <1>7, <1>8, <1>9, <1>10

\* ... and when the queues do not change either.
LEMMA AdmissionStep ==
  ASSUME IInv, UnderWay, NEW a \in Attempts,
         attached' = attached \/ (attached' = attached \cup {a} /\ NameOf[a] \in registered),
         state' = state \/ state' = [state EXCEPT ![a] = "rejected"],
         \A c \in held' \cup called' : MayHold(a, c),
         \A t : Queued(t)' => Queued(t) \/ (t.op \in {"accept", "refuse"} /\ t.of \in attached),
         StackShrinks, microtasks' \in Seq(Tasks), again' \in 0..MaxAgain,
         UNCHANGED <<registryVars, spaceVars, adapterVars, observerVars, admitted>>
  PROVE  IInv'
<1>1. UNCHANGED result
  BY DEF observerVars
<1>2. /\ held' \subseteq Callbacks /\ called' \subseteq Callbacks /\ attached' \subseteq Attempts
      /\ state' \in [Attempts -> States]
      /\ KnownNames' /\ ObserversEntered' /\ ObservesOnce' /\ AdmittedOnce'
      /\ Admission' /\ ParentShape' /\ AdaptersAreIsolated' /\ BuildingShape'
  BY <1>1, AdmissionShape
<1>3. TypeOK'
  BY <1>2 DEF IInv, TypeOK, StackShrinks, registryVars, spaceVars, adapterVars, observerVars
<1>4. ClosedIsFinal' /\ QueueShape'
  BY SpacesKept DEF adapterVars
<1> QED
  BY <1>2, <1>3, <1>4 DEF IInv

\* Nothing happens to the stack.
LEMMA StackKept == ASSUME IInv, UNCHANGED stack PROVE StackShrinks
BY DEF IInv, TypeOK, StackShrinks, OnStack, ObservesOnce

LEMMA QueueKept ==
  ASSUME IInv, UNCHANGED microtasks
  PROVE  /\ microtasks' \in Seq(Tasks)
         /\ \A t : Queued(t)' => Queued(t)
BY DEF IInv, TypeOK, Queued

\* The application has the callback that it calls, and may keep it.
LEMMA CallFacts ==
  ASSUME IInv, NEW c, Call(c)
  PROVE  /\ c \in held \cup called /\ c \in Callbacks /\ again' \in 0..MaxAgain
         /\ called' \subseteq held \cup called /\ UnderWay
<1>1. c \in held \cup called /\ again' \in 0..MaxAgain
  BY ConnectionApiAssumption DEF Call, IInv, TypeOK
<1>2. called' \subseteq held \cup called
  BY <1>1 DEF Call
<1>3. UnderWay
  BY <1>1 DEF UnderWay, IInv, Admission, NothingUnderWay
<1> QED
  BY <1>1, <1>2, <1>3 DEF IInv, TypeOK

\* A microtask runs when the stack is empty.
LEMMA TaskFacts ==
  ASSUME IInv, NEW op, NEW a \in Attempts, Due(op, a), Consume
  PROVE  /\ microtasks' \in Seq(Tasks) /\ Queued([op |-> op, of |-> a])
         /\ \A t : Queued(t)' => Queued(t)
         /\ stack = <<>> /\ (\A f : ~OnStack(f)) /\ UnderWay
<1>1. microtasks # <<>> /\ Head(microtasks) = [op |-> op, of |-> a] /\ stack = <<>>
  BY DEF Due
<1>2. /\ microtasks' \in Seq(Tasks) /\ Queued([op |-> op, of |-> a])
      /\ \A t : Queued(t)' => Queued(t)
  BY <1>1, ConsumeQueued DEF Consume, IInv, TypeOK
<1>3. \A f : ~OnStack(f)
  BY <1>1 DEF OnStack
<1> QED
  BY <1>1, <1>2, <1>3 DEF UnderWay, IInv, Admission

LEMMA RunPairStep == ASSUME IInv, NEW a \in Attempts, RunPair(a) PROVE IInv'
<1>1. /\ Due("pair", a) /\ Consume
      /\ UNCHANGED <<registryVars, spaceVars, adapterVars, observerVars, attached,
                     admitted, called, again, stack>>
      /\ state' = state \/ state' = [state EXCEPT ![a] = "rejected"]
      /\ held' = held \/ held' = held \cup {Callback("auth", a, 0)}
  BY DEF RunPair, Becomes
<1>2. /\ microtasks' \in Seq(Tasks) /\ Queued([op |-> "pair", of |-> a])
      /\ (\A t : Queued(t)' => Queued(t)) /\ UnderWay
  BY <1>1, TaskFacts
<1>3. NameOf[a] \in registered
  BY <1>2 DEF IInv, KnownNames
<1>4. \A c \in held' \cup called' : MayHold(a, c)
  BY <1>1, <1>3 DEF MayHold
<1>5. StackShrinks /\ again' \in 0..MaxAgain
  BY <1>1, StackKept DEF IInv, TypeOK
<1> QED
  BY <1>1, <1>2, <1>4, <1>5, AdmissionStep

LEMMA RunAdmitStep == ASSUME IInv, NEW a \in Attempts, RunAdmit(a) PROVE IInv'
<1>1. /\ Due("admit", a) /\ Consume
      /\ UNCHANGED <<registryVars, spaceVars, adapterVars, observerVars, state, attached,
                     admitted, called, again, stack>>
      /\ held' = held \/ held' = held \cup {Callback("admitAuth", a, 0)}
  BY DEF RunAdmit
<1>2. /\ microtasks' \in Seq(Tasks) /\ (\A t : Queued(t)' => Queued(t)) /\ UnderWay
  BY <1>1, TaskFacts
<1>3. \A c \in held' \cup called' : MayHold(a, c)
  BY <1>1 DEF MayHold
<1>4. StackShrinks /\ again' \in 0..MaxAgain
  BY <1>1, StackKept DEF IInv, TypeOK
<1> QED
  BY <1>1, <1>2, <1>3, <1>4, AdmissionStep

LEMMA CallNextStep ==
  ASSUME IInv, NEW a \in Attempts, NEW op \in {"accept", "refuse"}, CallNext(a, op)
  PROVE  IInv'
<1>1. PICK c : c = Callback("next", a, 0)
  OBVIOUS
<1>2. /\ Call(c) /\ held' = held \ {c} /\ Defer(op, a)
      /\ UNCHANGED <<registryVars, spaceVars, adapterVars, observerVars, state,
                     attached, admitted, stack>>
  BY <1>1 DEF CallNext
<1>3. /\ c \in held \cup called /\ again' \in 0..MaxAgain
      /\ called' \subseteq held \cup called /\ UnderWay
  BY <1>2, CallFacts
<1>4. a \in attached
  BY <1>1, <1>3 DEF Callback, IInv, KnownNames
<1>5. [op |-> op, of |-> a] \in Tasks
  BY DEF Tasks
<1>6. /\ microtasks' \in Seq(Tasks)
      /\ \A t : Queued(t)' => Queued(t) \/ (t.op \in {"accept", "refuse"} /\ t.of \in attached)
  <2>1. PICK t : t = [op |-> op, of |-> a]
    OBVIOUS
  <2>2. t \in Tasks /\ t.op \in {"accept", "refuse"} /\ t.of = a /\ microtasks' = Append(microtasks, t)
    BY <1>2, <1>5, <2>1 DEF Defer
  <2>3. microtasks \in Seq(Tasks)
    BY DEF IInv, TypeOK
  <2>4. microtasks' \in Seq(Tasks) /\ \A u : Queued(u)' => u = t \/ Queued(u)
    BY <2>2, <2>3, DeferQueued
  <2> QED
    BY <1>4, <2>2, <2>4
<1>7. \A d \in held' \cup called' : MayHold(a, d)
  BY <1>2, <1>3 DEF MayHold
<1>8. StackShrinks
  BY <1>2, StackKept
<1> QED
  BY <1>2, <1>3, <1>6, <1>7, <1>8, AdmissionStep

\* continuePair of an attempt to a registered Namespace.
LEMMA PairFacts ==
  ASSUME NEW a \in Attempts, NEW h, h \subseteq held, NameOf[a] \in registered, Pair(a, h),
         called' \subseteq held \cup called
  PROVE  /\ attached' = attached \/ (attached' = attached \cup {a} /\ NameOf[a] \in registered)
         /\ state' = state \/ state' = [state EXCEPT ![a] = "rejected"]
         /\ \A c \in held' \cup called' : MayHold(a, c)
<1>1. /\ attached' = attached \/ attached' = attached \cup {a}
      /\ state' = state \/ state' = [state EXCEPT ![a] = "rejected"]
      /\ held' = h \/ (held' = h \cup {Callback("next", a, 0)} /\ a \in attached')
  BY DEF Pair, Becomes
<1> QED
  BY <1>1 DEF MayHold

LEMMA AnswerAuthStep == ASSUME IInv, NEW a \in Attempts, AnswerAuth(a) PROVE IInv'
<1>1. PICK c : c = Callback("auth", a, 0)
  OBVIOUS
<1>2. /\ Call(c) /\ Pair(a, held \ {c})
      /\ UNCHANGED <<registryVars, spaceVars, adapterVars, observerVars, admitted, runVars>>
  BY <1>1 DEF AnswerAuth
<1>3. /\ c \in held \cup called /\ again' \in 0..MaxAgain
      /\ called' \subseteq held \cup called /\ UnderWay
  BY <1>2, CallFacts
<1>4. NameOf[a] \in registered
  BY <1>1, <1>3 DEF Callback, IInv, KnownNames
<1>5. StackShrinks /\ microtasks' \in Seq(Tasks) /\ \A t : Queued(t)' => Queued(t)
  BY <1>2, StackKept, QueueKept DEF runVars
<1>6. held \ {c} \subseteq held
  OBVIOUS
<1>7. /\ attached' = attached \/ (attached' = attached \cup {a} /\ NameOf[a] \in registered)
      /\ state' = state \/ state' = [state EXCEPT ![a] = "rejected"]
      /\ \A d \in held' \cup called' : MayHold(a, d)
  BY <1>2, <1>3, <1>4, <1>6, PairFacts
<1> QED
  BY <1>2, <1>3, <1>5, <1>7, AdmissionStep

LEMMA ResumeAdmissionStep == ASSUME IInv, NEW a \in Attempts, ResumeAdmission(a) PROVE IInv'
<1>1. /\ stack # <<>> /\ Head(stack) = Frame("admit", a, NameOf[a]) /\ stack' = Tail(stack)
      /\ Pair(a, held)
      /\ UNCHANGED <<registryVars, spaceVars, adapterVars, observerVars, admitted,
                     called, again, microtasks>>
  BY DEF ResumeAdmission, Top, Pop
<1>2. Head(stack).op = "admit" /\ Head(stack).at = NameOf[a] /\ TypeOK
  BY <1>1 DEF Frame, IInv
<1>3. OnStack(Head(stack)) /\ StackShrinks
  BY <1>1, <1>2, PopOn DEF StackShrinks, TypeOK, IInv
<1>4. NameOf[a] \in registered /\ UnderWay
  BY <1>2, <1>3 DEF IInv, KnownNames, Admission, NothingUnderWay, UnderWay
<1>5. microtasks' \in Seq(Tasks) /\ again' \in 0..MaxAgain /\ \A t : Queued(t)' => Queued(t)
  BY <1>1, <1>2, QueueKept DEF TypeOK
<1>6. held \subseteq held /\ called' \subseteq held \cup called
  BY <1>1
<1>7. /\ attached' = attached \/ (attached' = attached \cup {a} /\ NameOf[a] \in registered)
      /\ state' = state \/ state' = [state EXCEPT ![a] = "rejected"]
      /\ \A d \in held' \cup called' : MayHold(a, d)
  BY <1>1, <1>4, <1>6, PairFacts
<1> QED
  BY <1>1, <1>3, <1>4, <1>5, <1>7, AdmissionStep

LEMMA HandlerReturnsStep == ASSUME IInv, NEW a \in Attempts, HandlerReturns(a) PROVE IInv'
<1>1. /\ stack # <<>> /\ Head(stack) = Frame("handler", a, NameOf[a]) /\ stack' = Tail(stack)
      /\ state' = IF state[a] = "pending" THEN [state EXCEPT ![a] = "connected"] ELSE state
      /\ UNCHANGED <<registryVars, spaceVars, adapterVars, observerVars, attached,
                     admitted, held, called, again, microtasks>>
  BY DEF HandlerReturns, Top, Pop, Pending, Becomes
<1>2. /\ stack' \in Seq(Frames) /\ ObservesOnce'
      /\ \A g : OnStack(g) /\ g # Head(stack) => OnStack(g)'
  BY <1>1, PopOn DEF IInv, TypeOK
<1>3. /\ state' \in [Attempts -> States] /\ state'[a] # "pending"
      /\ \A b \in Attempts \ {a} : state'[b] = state[b]
      /\ state'[a] # "unused" \/ state'[a] = state[a]
  BY <1>1 DEF IInv, TypeOK, States
<1>4. TypeOK'
  BY <1>1, <1>2, <1>3 DEF IInv, TypeOK, registryVars, spaceVars, adapterVars, observerVars
<1>5. AdmittedOnce'
  <2> SUFFICES ASSUME NEW b \in admitted
               PROVE  /\ state'[b] # "unused"
                      /\ state'[b] = "pending" => OnStack(Frame("handler", b, NameOf[b]))'
    BY <1>1 DEF AdmittedOnce, Frame
  <2>1. b \in Attempts /\ state[b] # "unused"
        /\ (state[b] = "pending" => OnStack(Frame("handler", b, NameOf[b])))
    BY DEF IInv, AdmittedOnce, TypeOK
  <2>2. b # a => Frame("handler", b, NameOf[b]) # Head(stack)
    BY <1>1 DEF Frame
  <2> QED
    BY <1>2, <1>3, <2>1, <2>2
<1>6. ClosedIsFinal' /\ AdaptersAreIsolated' /\ QueueShape' /\ BuildingShape'
  BY <1>1, SpacesKept DEF adapterVars
<1>7. KnownNames' /\ ObserversEntered' /\ Admission'
  BY <1>1, FrameGone DEF registryVars, spaceVars, adapterVars, observerVars
<1>8. ParentShape'
  BY <1>1 DEF IInv, ParentShape, spaceVars
<1> QED
  BY <1>2, <1>4, <1>5, <1>6, <1>7, <1>8 DEF IInv

\* An attempt is offered while it is pending and no handler runs: for the first time.
LEMMA FirstOffer ==
  ASSUME IInv, NEW a \in Attempts, Due("accept", a), Consume, state[a] = "pending",
         NameOf[a] \notin nsClosed
  PROVE  a \notin admitted /\ NameOf[a] \in registered /\ ~closed
<1>1. Queued([op |-> "accept", of |-> a]) /\ \A f : ~OnStack(f)
  BY TaskFacts
<1>2. a \in attached
  BY <1>1 DEF IInv, KnownNames
<1> QED
  BY <1>1, <1>2 DEF IInv, KnownNames, AdmittedOnce, ClosedIsFinal

\* What a queue hands on: one Socket becomes ready, or the oldest observer gets it.
LEMMA OfferFacts ==
  ASSUME TypeOK, NEW a \in Attempts, NEW n \in Names, Offer(n, a)
  PROVE  /\ ready' \in [Names -> Seq(Attempts)] /\ waiters' \in [Names -> Seq(Observers)]
         /\ result' \in [Observers -> Attempts \cup {"new", "waiting", "refused"}]
         /\ \A m \in Names \ {n} : ready'[m] = ready[m] /\ waiters'[m] = waiters[m]
         /\ \A i \in DOMAIN waiters'[n] : \E j \in DOMAIN waiters[n] : waiters'[n][i] = waiters[n][j]
         /\ \/ UNCHANGED result
            \/ /\ waiters[n] # <<>> /\ Head(waiters[n]) \in Observers
               /\ 1 \in DOMAIN waiters[n] /\ Head(waiters[n]) = waiters[n][1]
               /\ \A o \in Observers : result'[o] = IF o = Head(waiters[n]) THEN a ELSE result[o]
<1>1. waiters[n] \in Seq(Observers) /\ ready[n] \in Seq(Attempts)
  BY DEF TypeOK
<1>2. CASE waiters[n] = <<>>
  <2>1. ready' = [ready EXCEPT ![n] = Append(ready[n], a)] /\ UNCHANGED <<waiters, result>>
    BY <1>2 DEF Offer
  <2>2. Append(ready[n], a) \in Seq(Attempts)
    BY <1>1, AppendProperties
  <2>3. \A i \in DOMAIN waiters'[n] : \E j \in DOMAIN waiters[n] : waiters'[n][i] = waiters[n][j]
    BY <2>1
  <2>4. ready' \in [Names -> Seq(Attempts)] /\ \A m \in Names \ {n} : ready'[m] = ready[m]
    BY <2>1, <2>2 DEF TypeOK
  <2>5. /\ waiters' \in [Names -> Seq(Observers)]
        /\ result' \in [Observers -> Attempts \cup {"new", "waiting", "refused"}]
        /\ \A m \in Names \ {n} : waiters'[m] = waiters[m]
    BY <2>1 DEF TypeOK
  <2>6. UNCHANGED result
    BY <2>1
  <2> QED
    BY <2>3, <2>4, <2>5, <2>6
<1>3. CASE waiters[n] # <<>>
  <2>1. /\ result' = [result EXCEPT ![Head(waiters[n])] = a]
        /\ waiters' = [waiters EXCEPT ![n] = Tail(waiters[n])]
        /\ UNCHANGED ready
    BY <1>3 DEF Offer
  <2>2. /\ Head(waiters[n]) \in Observers /\ Tail(waiters[n]) \in Seq(Observers)
        /\ Len(Tail(waiters[n])) = Len(waiters[n]) - 1
        /\ \A i \in 1..Len(Tail(waiters[n])) : Tail(waiters[n])[i] = waiters[n][i + 1]
    BY <1>1, <1>3, HeadTailProperties
  <2>3. /\ Len(waiters[n]) \in Nat \ {0} /\ DOMAIN waiters[n] = 1..Len(waiters[n])
        /\ DOMAIN Tail(waiters[n]) = 1..Len(Tail(waiters[n]))
    BY <1>1, <1>3, <2>2, LenProperties, EmptySeq
  <2>4. \A i \in DOMAIN Tail(waiters[n]) : i + 1 \in DOMAIN waiters[n] /\ Tail(waiters[n])[i] = waiters[n][i + 1]
    BY <2>2, <2>3
  <2>5. waiters' \in [Names -> Seq(Observers)] /\ waiters'[n] = Tail(waiters[n])
        /\ \A m \in Names \ {n} : waiters'[m] = waiters[m]
    BY <2>1, <2>2 DEF TypeOK
  <2>6. 1 \in DOMAIN waiters[n] /\ Head(waiters[n]) = waiters[n][1]
    BY <2>3
  <2>7. /\ result' \in [Observers -> Attempts \cup {"new", "waiting", "refused"}]
        /\ \A o \in Observers : result'[o] = IF o = Head(waiters[n]) THEN a ELSE result[o]
    BY <2>1, <2>2 DEF TypeOK
  <2> QED
    BY <1>3, <2>1, <2>2, <2>4, <2>5, <2>6, <2>7 DEF TypeOK
<1> QED
  BY <1>2, <1>3

LEMMA RunAcceptStep == ASSUME IInv, NEW a \in Attempts, RunAccept(a) PROVE IInv'
<1>1. /\ Due("accept", a) /\ Consume
      /\ UNCHANGED <<registryVars, spaceVars, adapterVars, dynamicWaiters, attached, held, called, again>>
  BY DEF RunAccept
<1>2. /\ microtasks' \in Seq(Tasks) /\ Queued([op |-> "accept", of |-> a])
      /\ (\A t : Queued(t)' => Queued(t)) /\ UnderWay /\ \A f : ~OnStack(f)
  BY <1>1, TaskFacts
<1>3. CASE state[a] = "pending" /\ NameOf[a] \notin nsClosed
  <2>1. /\ admitted' = admitted \cup {a} /\ UNCHANGED state
        /\ Offer(NameOf[a], a) /\ stack' = <<Frame("handler", a, NameOf[a])>> \o stack
    BY <1>3 DEF RunAccept, Pending, Push
  <2>2. NameOf[a] \in registered /\ ~closed
    BY <1>1, <1>3, FirstOffer
  <2>3. NameOf[a] \in Names /\ TypeOK
    BY ConnectionApiAssumption DEF IInv
  <2>4. PICK f : f = Frame("handler", a, NameOf[a])
    OBVIOUS
  <2>5. f \in Frames /\ f.op = "handler" /\ f.at = NameOf[a] /\ stack' = <<f>> \o stack
    BY <2>1, <2>3, <2>4 DEF Frame, Frames
  <2>6. /\ stack' \in Seq(Frames) /\ ObservesOnce'
        /\ \A g : OnStack(g)' <=> g = f \/ OnStack(g)
    BY <2>3, <2>5, PushOn DEF IInv, TypeOK
  <2>7. PICK n \in Names : n = NameOf[a]
    BY <2>3
  <2>8. /\ ready' \in [Names -> Seq(Attempts)] /\ waiters' \in [Names -> Seq(Observers)]
        /\ result' \in [Observers -> Attempts \cup {"new", "waiting", "refused"}]
        /\ \A m \in Names \ {n} : ready'[m] = ready[m] /\ waiters'[m] = waiters[m]
        /\ \A i \in DOMAIN waiters'[n] : \E j \in DOMAIN waiters[n] : waiters'[n][i] = waiters[n][j]
        /\ \A o \in Observers : result'[o] = a \/ result'[o] = result[o]
    BY <2>1, <2>3, <2>7, OfferFacts
  <2>9. TypeOK'
    BY <1>1, <1>2, <2>1, <2>3, <2>6, <2>8 DEF TypeOK, registryVars, spaceVars, adapterVars
  <2>10. ClosedIsFinal' /\ AdaptersAreIsolated' /\ BuildingShape' /\ ParentShape'
    BY <1>1, <2>2, BuildingKept DEF IInv, ClosedIsFinal, AdaptersAreIsolated, ParentShape,
                      registryVars, spaceVars, adapterVars
  <2>11. QueueShape'
    <3>1. a # "new"
      BY ConnectionApiAssumption
    <3>0. /\ \A m \in Names : IF m \in registered THEN dynamicWaiters[m] = <<>>
                               ELSE ready[m] = <<>> /\ waiters[m] = <<>>
          /\ \A m \in Names : \A i \in DOMAIN waiters[m] : result[waiters[m][i]] # "new"
          /\ \A m \in Names : \A i \in DOMAIN dynamicWaiters[m] : result[dynamicWaiters[m][i]] # "new"
      BY DEF IInv, QueueShape
    <3>2. ASSUME NEW m \in Names, NEW i \in DOMAIN dynamicWaiters[m] PROVE result'[dynamicWaiters[m][i]] # "new"
      <4>1. dynamicWaiters[m][i] \in Observers
        BY <2>3, LenProperties DEF TypeOK
      <4> QED
        <5>1. PICK o \in Observers : o = dynamicWaiters[m][i]
          BY <4>1
        <5>2. result[o] # "new"
          BY <3>0, <5>1
        <5> QED
          BY <2>8, <3>1, <5>1, <5>2
    <3>3. ASSUME NEW m \in Names, NEW i \in DOMAIN waiters'[m] PROVE result'[waiters'[m][i]] # "new"
      <4>1. waiters'[m][i] \in Observers
        BY <2>8, LenProperties
      <4>2. \E j \in DOMAIN waiters[m] : waiters'[m][i] = waiters[m][j]
        BY <2>8
      <4> QED
        BY <2>8, <3>0, <3>1, <4>1, <4>2
    <3>4. \A m \in Names : IF m \in registered THEN dynamicWaiters[m] = <<>>
                           ELSE ready'[m] = <<>> /\ waiters'[m] = <<>>
      <4>1. \A m \in Names : m \notin registered => ready'[m] = ready[m] /\ waiters'[m] = waiters[m]
        BY <2>2, <2>7, <2>8
      <4> QED
        BY <3>0, <4>1
    <3> QED
      BY <1>1, <3>2, <3>3, <3>4 DEF QueueShape, spaceVars
  <2>12. KnownNames'
    BY <1>1, <1>2, <2>2, <2>5, <2>6 DEF IInv, KnownNames, spaceVars
  <2>13. ObserversEntered'
    BY <1>2, <2>5, <2>6 DEF ObserversEntered
  <2>14. AdmittedOnce'
    BY <1>2, <1>3, <2>1, <2>4, <2>6 DEF IInv, AdmittedOnce
  <2>15. Admission'
    BY <1>1, <1>2, <2>5, <2>6 DEF Admission, UnderWay, adapterVars
  <2> QED
    BY <2>6, <2>9, <2>10, <2>11, <2>12, <2>13, <2>14, <2>15 DEF IInv
<1>4. CASE ~(state[a] = "pending" /\ NameOf[a] \notin nsClosed)
  <2>1. /\ UNCHANGED <<admitted, observerVars, stack>>
        /\ state' = state \/ state' = [state EXCEPT ![a] = "rejected"]
    BY <1>1, <1>4 DEF RunAccept, Pending, RejectIfPending, Becomes, observerVars
  <2>2. StackShrinks /\ again' \in 0..MaxAgain
    BY <1>1, <2>1, StackKept DEF IInv, TypeOK
  <2>3. \A c \in held' \cup called' : MayHold(a, c)
    BY <1>1 DEF MayHold
  <2> QED
    BY <1>1, <1>2, <2>1, <2>2, <2>3, AdmissionStep
<1> QED
  BY <1>3, <1>4

\* The Sockets that are left are in the queue, in their order.
LEMMA DiscardFacts ==
  ASSUME TypeOK, NEW a \in Attempts, NEW n \in Names, DiscardReady(n, a)
  PROVE  /\ ready' \in [Names -> Seq(Attempts)]
         /\ \A m \in Names : ready[m] = <<>> => ready'[m] = <<>>
<1>1. CASE UNCHANGED ready
  BY <1>1 DEF TypeOK
<1>2. ASSUME NEW i \in DOMAIN ready[n],
             ready' = [ready EXCEPT ![n] = SubSeq(ready[n], 1, i - 1) \o SubSeq(ready[n], i + 1, Len(ready[n]))]
      PROVE  /\ ready' \in [Names -> Seq(Attempts)]
             /\ \A m \in Names : ready[m] = <<>> => ready'[m] = <<>>
  <2>1. ready[n] \in Seq(Attempts) /\ i \in 1..Len(ready[n]) /\ Len(ready[n]) \in Nat
    BY <1>2, LenProperties DEF TypeOK
  <2>2. SubSeq(ready[n], 1, i - 1) \in Seq(Attempts)
    <3>1. \A k \in 1..(i - 1) : k \in 1..Len(ready[n])
      BY <2>1
    <3>2. 1 \in Int /\ i - 1 \in Int /\ \A k \in 1..(i - 1) : ready[n][k] \in Attempts
      BY <2>1, <3>1, ElementOfSeq
    <3> QED
      BY <2>1, <3>1, <3>2, SubSeqProperties
  <2>3. SubSeq(ready[n], i + 1, Len(ready[n])) \in Seq(Attempts)
    <3>1. \A k \in (i + 1)..Len(ready[n]) : k \in 1..Len(ready[n])
      BY <2>1
    <3>2. i + 1 \in Int /\ Len(ready[n]) \in Int
      BY <2>1
    <3> QED
      BY <2>1, <3>1, <3>2, SubSeqProperties
  <2>4. PICK q : q = SubSeq(ready[n], 1, i - 1) \o SubSeq(ready[n], i + 1, Len(ready[n]))
    OBVIOUS
  <2>5. q \in Seq(Attempts)
    BY <2>2, <2>3, <2>4, ConcatProperties
  <2>6. ready[n] # <<>>
    BY <2>1
  <2> QED
    BY <1>2, <2>4, <2>5, <2>6 DEF TypeOK
<1> QED
  BY <1>1, <1>2 DEF DiscardReady

LEMMA RunRefuseStep == ASSUME IInv, NEW a \in Attempts, RunRefuse(a) PROVE IInv'
<1>1. /\ Due("refuse", a) /\ Consume
      /\ UNCHANGED <<registryVars, spaceVars, adapterVars, waiters, dynamicWaiters,
                     result, attached, admitted, held, called, again, stack>>
      /\ state' = state \/ state' = [state EXCEPT ![a] = "rejected"]
      /\ UNCHANGED ready \/ DiscardReady(NameOf[a], a)
  BY DEF RunRefuse, RejectIfPending, Becomes
<1>2. /\ microtasks' \in Seq(Tasks)
      /\ (\A t : Queued(t)' => Queued(t)) /\ UnderWay
  BY <1>1, TaskFacts
<1>3. StackShrinks /\ TypeOK /\ again' \in 0..MaxAgain
  BY <1>1, StackKept DEF IInv, TypeOK
<1>4. \A c \in held' \cup called' : MayHold(a, c)
  BY <1>1 DEF MayHold
<1>5. /\ ready' \in [Names -> Seq(Attempts)]
      /\ \A m \in Names : ready[m] = <<>> => ready'[m] = <<>>
  <2>1. CASE UNCHANGED ready
    BY <1>3, <2>1 DEF TypeOK
  <2>2. CASE DiscardReady(NameOf[a], a)
    <3>1. NameOf[a] \in Names
      BY ConnectionApiAssumption
    <3> QED
      BY <1>3, <2>2, <3>1, DiscardFacts
  <2> QED
    BY <1>1, <2>1, <2>2
<1>6. /\ held' \subseteq Callbacks /\ called' \subseteq Callbacks /\ attached' \subseteq Attempts
      /\ state' \in [Attempts -> States]
      /\ KnownNames' /\ ObserversEntered' /\ ObservesOnce' /\ AdmittedOnce'
      /\ Admission' /\ ParentShape' /\ AdaptersAreIsolated' /\ BuildingShape'
  BY <1>1, <1>2, <1>3, <1>4, AdmissionShape
<1>7. TypeOK'
  BY <1>1, <1>2, <1>3, <1>5, <1>6 DEF TypeOK, StackShrinks, registryVars, spaceVars, adapterVars
<1>8. ClosedIsFinal' /\ QueueShape'
  BY <1>1, <1>5 DEF IInv, ClosedIsFinal, QueueShape, registryVars, spaceVars
<1> QED
  BY <1>6, <1>7, <1>8 DEF IInv

\* Nobody is half-way through nextConnection() when the Server closes.
LEMMA CloseStep == ASSUME IInv, ~CloseWhenAnnounced, Close PROVE IInv'
<1>1. /\ ~closed /\ closed' = TRUE
      /\ origin' = (IF origin = "this" THEN "none" ELSE origin)
      /\ nsClosed' = registered
      /\ ready' = [n \in Names |-> <<>>]
      /\ waiters' = [n \in Names |-> <<>>]
      /\ dynamicWaiters' = [n \in Names |-> <<>>]
      /\ result' = [o \in Observers |-> IF result[o] = "waiting" THEN "refused" ELSE result[o]]
      /\ UNCHANGED <<registered, parents, adapterVars, attemptVars, runVars>>
      /\ \A i \in DOMAIN stack : stack[i].op # "observe"
  BY DEF Close
<1>2. TypeOK'
  <2>1. /\ ready' \in [Names -> Seq(Attempts)]
        /\ waiters' \in [Names -> Seq(Observers)] /\ dynamicWaiters' \in [Names -> Seq(Observers)]
    BY <1>1, EmptySeq
  <2>2. result' \in [Observers -> Attempts \cup {"new", "waiting", "refused"}]
    BY <1>1 DEF IInv, TypeOK
  <2> QED
    BY <1>1, <2>1, <2>2 DEF IInv, TypeOK, adapterVars, attemptVars, runVars
<1>3. ClosedIsFinal'
  BY <1>1 DEF IInv, TypeOK, ClosedIsFinal
<1>4. AdaptersAreIsolated' /\ BuildingShape' /\ ParentShape'
  BY <1>1, BuildingKept DEF IInv, AdaptersAreIsolated, ParentShape, adapterVars, attemptVars
<1>5. QueueShape'
  BY <1>1 DEF QueueShape
<1>6. KnownNames' /\ ObservesOnce' /\ AdmittedOnce' /\ Admission'
  BY <1>1 DEF IInv, KnownNames, ObservesOnce, AdmittedOnce, Admission, NothingUnderWay, OnStack, Queued,
              attemptVars, runVars, adapterVars
<1>7. ObserversEntered'
  BY <1>1 DEF ObserversEntered, OnStack, runVars
<1> QED
  BY <1>2, <1>3, <1>4, <1>5, <1>6, <1>7 DEF IInv

-----------------------------------------------------------------------------
(* The dynamic parents.                                                    *)

LEMMA Least ==
  ASSUME NEW T, T \subseteq Nat, T # {}
  PROVE  \E x \in T : \A y \in T : x <= y
<1>1. PICK R : R = {ss \in Nat \X Nat : ss[1] < ss[2]}
  OBVIOUS
<1>2. IsWellFoundedOn(R, Nat)
  BY <1>1, NatLessThanWellFounded DEF OpToRel
<1>3. PICK x \in T : \A y \in T : ~(<<y, x>> \in R)
  BY <1>2, WFMin
<1>4. \A y \in T : ~(y < x)
  BY <1>1, <1>3
<1> QED
  BY <1>3, <1>4

LEMMA NextParentFacts ==
  ASSUME Len(parents) \in Nat, NEW i \in 1..(Len(parents) + 1), NEW n
  PROVE  NextParent(i, n) \in i..(Len(parents) + 1)
<1> DEFINE Asked(j) == parents[j] = Ask \/ n \in Matching[parents[j]]
<1>1. PICK T : T = {j \in i..(Len(parents) + 1) : j <= Len(parents) => Asked(j)}
  OBVIOUS
<1>2. T \subseteq Nat /\ Len(parents) + 1 \in T
  BY <1>1
<1>3. PICK x \in T : \A y \in T : x <= y
  BY <1>2, Least
<1>4. \A k \in i..(x - 1) : ~Asked(k)
  <2> SUFFICES ASSUME NEW k \in i..(x - 1), Asked(k) PROVE FALSE
    OBVIOUS
  <2>1. k \in T /\ k < x
    BY <1>1, <1>2, <1>3
  <2> QED
    BY <1>2, <1>3, <2>1
<1>5. \E j \in i..(Len(parents) + 1) :
        /\ j <= Len(parents) => parents[j] = Ask \/ n \in Matching[parents[j]]
        /\ \A k \in i..(j-1) : parents[k] # Ask /\ n \notin Matching[parents[k]]
  BY <1>1, <1>3, <1>4
<1> QED
  BY <1>5 DEF NextParent

\* What the answer to a callback, or the return of a listener, leaves alone.
Answered(h) ==
  /\ h \subseteq held /\ called' \subseteq held \cup called /\ again' \in 0..MaxAgain
  /\ UNCHANGED <<registryVars, ready, result, admitted, microtasks>>

\* A matcher lets the attempt create its Namespace, and `new_namespace` is announced.
LEMMA AnnounceStep ==
  ASSUME IInv, UnderWay, NEW a \in Attempts, NEW h, Answered(h),
         NameOf[a] \notin registered, Create(NameOf[a]), Push("admit", a, NameOf[a]),
         held' = h, UNCHANGED <<state, attached>>
  PROVE  IInv'
<1>1. PICK n \in Names : n = NameOf[a]
  BY ConnectionApiAssumption
<1>2. PICK f : f = Frame("admit", a, n)
  OBVIOUS
<1>3. f \in Frames /\ f.op = "admit" /\ f.at = n /\ stack' = <<f>> \o stack /\ TypeOK
  BY <1>1, <1>2 DEF Frame, Frames, Push, IInv
<1>4. /\ stack' \in Seq(Frames) /\ ObservesOnce'
      /\ \A g : OnStack(g)' <=> g = f \/ OnStack(g)
  BY <1>3, PushOn DEF TypeOK, IInv
<1>5. /\ UNCHANGED <<origin, closed, ready, result, admitted, microtasks, state, attached>>
      /\ held' \subseteq held /\ called' \subseteq held \cup called /\ again' \in 0..MaxAgain
  BY DEF Answered, registryVars
<1>6. /\ registered' = registered \cup {n} /\ registered' \subseteq Names
      /\ nsClosed' \subseteq Names /\ nsClosed' = IF closed THEN registered' ELSE {}
      /\ adapterOf' \in [Names -> Adapters \cup {BuiltIn}] /\ instances' \subseteq Adapters
      /\ waiters' \in [Names -> Seq(Observers)] /\ dynamicWaiters' \in [Names -> Seq(Observers)]
      /\ \A m \in Names : /\ waiters'[m] = IF m = n THEN dynamicWaiters[n] ELSE waiters[m]
                          /\ dynamicWaiters'[m] = IF m = n THEN <<>> ELSE dynamicWaiters[m]
      /\ UNCHANGED <<parents, custom, building, admissionStarted>>
      /\ AdaptersAreIsolated' /\ BuildingShape' /\ QueueShape'
  BY <1>1, <1>5, CreateFacts
<1>7. TypeOK'
  BY <1>3, <1>4, <1>5, <1>6 DEF TypeOK
<1>8. ClosedIsFinal'
  BY <1>5, <1>6 DEF IInv, ClosedIsFinal
<1>9. KnownNames'
  BY <1>3, <1>4, <1>5, <1>6 DEF IInv, KnownNames, Queued
<1>10. ObserversEntered' /\ AdmittedOnce'
  BY <1>3, <1>4, <1>5 DEF IInv, ObserversEntered, AdmittedOnce
<1>11. Admission'
  BY <1>3, <1>4, <1>6 DEF UnderWay, Admission
<1>12. ParentShape'
  BY <1>5, <1>6 DEF IInv, ParentShape
<1> QED
  BY <1>4, <1>6, <1>7, <1>8, <1>9, <1>10, <1>11, <1>12 DEF IInv

\* An answer that creates no Namespace.
LEMMA AnsweredStep ==
  ASSUME IInv, UnderWay, NEW a \in Attempts, NEW h, Answered(h),
         attached' = attached \/ (attached' = attached \cup {a} /\ NameOf[a] \in registered),
         state' = state \/ state' = [state EXCEPT ![a] = "rejected"],
         \A c \in held' \cup called' : MayHold(a, c),
         UNCHANGED <<spaceVars, adapterVars, waiters, dynamicWaiters, stack>>
  PROVE  IInv'
<1>1. /\ UNCHANGED <<registryVars, spaceVars, adapterVars, observerVars, admitted, microtasks, stack>>
      /\ again' \in 0..MaxAgain
  BY DEF Answered, observerVars
<1>2. StackShrinks /\ microtasks' \in Seq(Tasks) /\ \A t : Queued(t)' => Queued(t)
  BY <1>1, StackKept, QueueKept
<1> QED
  BY <1>1, <1>2, AdmissionStep

LEMMA AdmitStep ==
  ASSUME IInv, UnderWay, NEW a \in Attempts, NEW h, Answered(h), Admit(a, h)
  PROVE  IInv'
<1>1. h \subseteq held /\ called' \subseteq held \cup called
  BY DEF Answered
<1>2. ASSUME NameOf[a] \in registered, Pair(a, h),
             UNCHANGED <<spaceVars, adapterVars, waiters, dynamicWaiters, stack>>
      PROVE  IInv'
  <2>1. /\ attached' = attached \/ (attached' = attached \cup {a} /\ NameOf[a] \in registered)
        /\ state' = state \/ state' = [state EXCEPT ![a] = "rejected"]
        /\ \A c \in held' \cup called' : MayHold(a, c)
    BY <1>1, <1>2, PairFacts
  <2> QED
    BY <1>2, <2>1, AnsweredStep
<1>3. ASSUME NameOf[a] \notin registered, Create(NameOf[a]), Push("admit", a, NameOf[a]),
             held' = h, UNCHANGED <<state, attached>>
      PROVE  IInv'
  BY <1>3, AnnounceStep
<1>4. ASSUME CreateFails, RejectIfPending(a), held' = h, UNCHANGED <<attached, stack>>
      PROVE  IInv'
  <2>1. state' = state \/ state' = [state EXCEPT ![a] = "rejected"]
    BY <1>4 DEF RejectIfPending, Becomes
  <2>2. \A c \in held' \cup called' : MayHold(a, c)
    BY <1>1, <1>4 DEF MayHold
  <2>3. UNCHANGED <<spaceVars, adapterVars, waiters, dynamicWaiters, stack>>
    BY <1>4 DEF CreateFails
  <2> QED
    BY <1>4, <2>1, <2>2, <2>3, AnsweredStep
<1> QED
  BY <1>2, <1>3, <1>4 DEF Admit

LEMMA TryParentStep ==
  ASSUME IInv, UnderWay, NEW a \in Attempts, NEW h, Answered(h),
         NEW i \in 1..(Len(parents) + 1), TryParent(a, i, h)
  PROVE  IInv'
<1>1. h \subseteq held /\ called' \subseteq held \cup called /\ Len(parents) \in Nat
  BY LenProperties DEF Answered, IInv, TypeOK
<1>2. PICK j : j = NextParent(i, NameOf[a])
  OBVIOUS
<1>3. j \in i..(Len(parents) + 1)
  BY <1>1, <1>2, NextParentFacts
<1>4. \/ /\ RejectIfPending(a) /\ held' = h
         /\ UNCHANGED <<spaceVars, adapterVars, waiters, dynamicWaiters, attached, stack>>
      \/ /\ j <= Len(parents) /\ held' = h \cup {Callback("match", a, j)}
         /\ UNCHANGED <<spaceVars, adapterVars, waiters, dynamicWaiters, state, attached, stack>>
      \/ Admit(a, h)
  BY <1>1, <1>2, <1>3 DEF TryParent
<1>5. ASSUME RejectIfPending(a), held' = h,
             UNCHANGED <<spaceVars, adapterVars, waiters, dynamicWaiters, attached, stack>>
      PROVE  IInv'
  <2>1. state' = state \/ state' = [state EXCEPT ![a] = "rejected"]
    BY <1>5 DEF RejectIfPending, Becomes
  <2>2. \A c \in held' \cup called' : MayHold(a, c)
    BY <1>1, <1>5 DEF MayHold
  <2> QED
    BY <1>5, <2>1, <2>2, AnsweredStep
<1>6. ASSUME j <= Len(parents), held' = h \cup {Callback("match", a, j)},
             UNCHANGED <<spaceVars, adapterVars, waiters, dynamicWaiters, state, attached, stack>>
      PROVE  IInv'
  <2>1. j \in 1..Len(parents)
    BY <1>1, <1>3, <1>6
  <2>2. \A c \in held' \cup called' : MayHold(a, c)
    BY <1>1, <1>6, <2>1 DEF MayHold
  <2> QED
    BY <1>6, <2>2, AnsweredStep
<1> QED
  BY <1>4, <1>5, <1>6, AdmitStep

LEMMA AnswerAdmitAuthStep == ASSUME IInv, NEW a \in Attempts, AnswerAdmitAuth(a) PROVE IInv'
<1>1. PICK c : c = Callback("admitAuth", a, 0)
  OBVIOUS
<1>2. PICK h : h = held \ {c}
  OBVIOUS
<1>3. /\ Call(c)
      /\ IF Pending(a) THEN TryParent(a, 1, h)
         ELSE /\ held' = h
              /\ UNCHANGED <<spaceVars, adapterVars, waiters, dynamicWaiters, state, attached, stack>>
      /\ UNCHANGED <<registryVars, ready, result, admitted, microtasks>>
  BY <1>1, <1>2 DEF AnswerAdmitAuth
<1>4. UnderWay /\ Answered(h)
  BY <1>2, <1>3, CallFacts DEF Answered
<1>5. CASE Pending(a)
  <2>1. 1 \in 1..(Len(parents) + 1)
    BY LenProperties DEF IInv, TypeOK
  <2> QED
    BY <1>3, <1>4, <1>5, <2>1, TryParentStep
<1>6. CASE ~Pending(a)
  <2>1. /\ held' = h
        /\ UNCHANGED <<spaceVars, adapterVars, waiters, dynamicWaiters, state, attached, stack>>
    BY <1>3, <1>6
  <2>2. \A d \in held' \cup called' : MayHold(a, d)
    BY <1>4, <2>1 DEF Answered, MayHold
  <2> QED
    BY <1>4, <2>1, <2>2, AnsweredStep
<1> QED
  BY <1>5, <1>6

LEMMA AnswerMatcherStep ==
  ASSUME IInv, NEW a \in Attempts, NEW i \in 1..MaxParents, NEW allowed \in BOOLEAN,
         AnswerMatcher(a, i, allowed)
  PROVE  IInv'
<1>1. PICK c : c = Callback("match", a, i)
  OBVIOUS
<1>2. PICK h : h = held \ {c}
  OBVIOUS
<1>3. /\ Call(c)
      /\ IF allowed THEN Admit(a, h) ELSE TryParent(a, i + 1, h)
      /\ UNCHANGED <<registryVars, ready, result, admitted, microtasks>>
  BY <1>1, <1>2 DEF AnswerMatcher
<1>4. c \in held \cup called /\ UnderWay /\ Answered(h)
  BY <1>2, <1>3, CallFacts DEF Answered
<1>5. i \in 1..Len(parents) /\ Len(parents) \in Nat
  BY <1>1, <1>4, LenProperties DEF Callback, IInv, ParentShape, TypeOK
<1>6. i + 1 \in 1..(Len(parents) + 1)
  BY <1>5
<1> QED
  BY <1>3, <1>4, <1>6, AdmitStep, TryParentStep

-----------------------------------------------------------------------------
(* Observing.                                                              *)

LEMMA ClaimFacts ==
  ASSUME TypeOK, NEW n \in Names, NEW o \in Observers, Claim(o, n)
  PROVE  /\ ready' \in [Names -> Seq(Attempts)] /\ waiters' \in [Names -> Seq(Observers)]
         /\ \E r \in Attempts \cup {"waiting"} : result' = [result EXCEPT ![o] = r]
         /\ \A m \in Names \ {n} : ready'[m] = ready[m] /\ waiters'[m] = waiters[m]
         /\ \A i \in DOMAIN waiters'[n] :
              waiters'[n][i] = o \/ \E j \in DOMAIN waiters[n] : waiters'[n][i] = waiters[n][j]
<1>1. ready[n] \in Seq(Attempts) /\ waiters[n] \in Seq(Observers)
  BY DEF TypeOK
<1>2. CASE ready[n] # <<>>
  <2>1. /\ result' = [result EXCEPT ![o] = Head(ready[n])]
        /\ ready' = [ready EXCEPT ![n] = Tail(ready[n])]
        /\ UNCHANGED waiters
    BY <1>2 DEF Claim
  <2>2. Head(ready[n]) \in Attempts /\ Tail(ready[n]) \in Seq(Attempts)
    BY <1>1, <1>2, HeadTailProperties
  <2>3. /\ ready' \in [Names -> Seq(Attempts)] /\ waiters' \in [Names -> Seq(Observers)]
        /\ \A m \in Names \ {n} : ready'[m] = ready[m] /\ waiters'[m] = waiters[m]
    BY <2>1, <2>2 DEF TypeOK
  <2>4. \A i \in DOMAIN waiters'[n] : \E j \in DOMAIN waiters[n] : waiters'[n][i] = waiters[n][j]
    BY <2>1
  <2>5. \E r \in Attempts \cup {"waiting"} : result' = [result EXCEPT ![o] = r]
    BY <2>1, <2>2
  <2> QED
    BY <2>3, <2>4, <2>5
<1>3. CASE ready[n] = <<>>
  <2>1. /\ result' = [result EXCEPT ![o] = "waiting"]
        /\ waiters' = [waiters EXCEPT ![n] = Append(waiters[n], o)]
        /\ UNCHANGED ready
    BY <1>3 DEF Claim
  <2>2. /\ Append(waiters[n], o) \in Seq(Observers)
        /\ Len(Append(waiters[n], o)) = Len(waiters[n]) + 1
        /\ \A i \in 1..Len(waiters[n]) : Append(waiters[n], o)[i] = waiters[n][i]
        /\ Append(waiters[n], o)[Len(waiters[n]) + 1] = o
    BY <1>1, AppendProperties
  <2>3. /\ Len(waiters[n]) \in Nat /\ DOMAIN waiters[n] = 1..Len(waiters[n])
        /\ DOMAIN Append(waiters[n], o) = 1..Len(Append(waiters[n], o))
    BY <1>1, <2>2, LenProperties
  <2>4. /\ ready' \in [Names -> Seq(Attempts)] /\ waiters' \in [Names -> Seq(Observers)]
        /\ waiters'[n] = Append(waiters[n], o)
        /\ \A m \in Names \ {n} : ready'[m] = ready[m] /\ waiters'[m] = waiters[m]
    BY <2>1, <2>2 DEF TypeOK
  <2>5. \A i \in DOMAIN waiters'[n] :
          waiters'[n][i] = o \/ \E j \in DOMAIN waiters[n] : waiters'[n][i] = waiters[n][j]
    <3> SUFFICES ASSUME NEW i \in DOMAIN waiters'[n], waiters'[n][i] # o
                 PROVE  \E j \in DOMAIN waiters[n] : waiters'[n][i] = waiters[n][j]
      OBVIOUS
    <3>3. i \in 1..(Len(waiters[n]) + 1)
      BY <2>2, <2>3, <2>4
    <3>4. i # Len(waiters[n]) + 1
      BY <2>2, <2>4
    <3>1. i \in DOMAIN waiters[n]
      BY <2>3, <3>3, <3>4
    <3>2. waiters'[n][i] = waiters[n][i]
      BY <2>2, <2>3, <2>4, <3>1
    <3> QED
      BY <3>1, <3>2
  <2> QED
    BY <2>1, <2>4, <2>5
<1> QED
  BY <1>2, <1>3

\* An observer learns something, or starts to wait.
LEMMA ObserverStep ==
  ASSUME IInv, NEW o \in Observers, NEW r \in Attempts \cup {"waiting", "refused"},
         result' = [result EXCEPT ![o] = r],
         UNCHANGED <<registryVars, spaceVars, adapterVars, attemptVars, microtasks>>,
         ready' \in [Names -> Seq(Attempts)], waiters' \in [Names -> Seq(Observers)],
         dynamicWaiters' \in [Names -> Seq(Observers)],
         StackShrinks, \A f : OnStack(f)' /\ f.op = "observe" => f.of # o,
         ClosedIsFinal', QueueShape'
  PROVE  IInv'
<1>1. TypeOK
  BY DEF IInv
<1>2. /\ result' \in [Observers -> Attempts \cup {"new", "waiting", "refused"}]
      /\ \A p \in Observers \ {o} : result'[p] = result[p]
  BY <1>1 DEF TypeOK
<1>3. TypeOK'
  BY <1>1, <1>2 DEF TypeOK, StackShrinks, registryVars, spaceVars, adapterVars, attemptVars
<1>4. AdaptersAreIsolated' /\ BuildingShape' /\ ParentShape'
  BY BuildingKept DEF IInv, AdaptersAreIsolated, ParentShape, spaceVars, adapterVars, attemptVars
<1>5. KnownNames' /\ Admission' /\ ObservesOnce'
  BY DEF IInv, KnownNames, Admission, NothingUnderWay, StackShrinks, Queued,
         spaceVars, adapterVars, attemptVars
<1>6. AdmittedOnce'
  <2>1. \A b : Frame("handler", b, NameOf[b]).op = "handler"
    BY DEF Frame
  <2> QED
    BY <2>1 DEF IInv, AdmittedOnce, StackShrinks, attemptVars, Frame
<1>7. ObserversEntered'
  <2> SUFFICES ASSUME NEW f, OnStack(f)', f.op = "observe" PROVE result'[f.of] = "new" /\ ~closed'
    BY DEF ObserversEntered
  <2>1. OnStack(f) /\ result[f.of] = "new" /\ ~closed
    BY DEF StackShrinks, IInv, ObserversEntered
  <2>2. f.of \in Observers
    <3>1. f \in Frames
      BY <1>1, <2>1, LenProperties DEF OnStack, TypeOK
    <3> QED
      BY <3>1 DEF Frames
  <2> QED
    BY <1>2, <2>1, <2>2 DEF registryVars
<1> QED
  BY <1>3, <1>4, <1>5, <1>6, <1>7 DEF IInv

\* An observer of a registered name.
LEMMA ClaimStep ==
  ASSUME IInv, NEW n \in Names, NEW o \in Observers, Claim(o, n), n \in registered, ~closed,
         UNCHANGED <<registryVars, spaceVars, adapterVars, dynamicWaiters, attemptVars, microtasks>>,
         StackShrinks, \A f : OnStack(f)' /\ f.op = "observe" => f.of # o
  PROVE  IInv'
<1>1. TypeOK
  BY DEF IInv
<1>2. PICK r \in Attempts \cup {"waiting"} : result' = [result EXCEPT ![o] = r]
  BY <1>1, ClaimFacts
<1>3. /\ ready' \in [Names -> Seq(Attempts)] /\ waiters' \in [Names -> Seq(Observers)]
      /\ \A m \in Names \ {n} : ready'[m] = ready[m] /\ waiters'[m] = waiters[m]
      /\ \A i \in DOMAIN waiters'[n] :
           waiters'[n][i] = o \/ \E j \in DOMAIN waiters[n] : waiters'[n][i] = waiters[n][j]
  BY <1>1, ClaimFacts
<1>4. r # "new" /\ result'[o] = r /\ \A p : result[p] # "new" => result'[p] # "new"
  <2>1. r # "new"
    BY ConnectionApiAssumption
  <2>2. DOMAIN result = Observers
    BY <1>1 DEF TypeOK
  <2> QED
    BY <1>2, <2>1, <2>2
<1>5. QueueShape'
  <2>1. /\ \A m \in Names : IF m \in registered THEN dynamicWaiters[m] = <<>>
                             ELSE ready[m] = <<>> /\ waiters[m] = <<>>
        /\ \A m \in Names : \A i \in DOMAIN waiters[m] : result[waiters[m][i]] # "new"
        /\ \A m \in Names : \A i \in DOMAIN dynamicWaiters[m] : result[dynamicWaiters[m][i]] # "new"
    BY DEF IInv, QueueShape
  <2>2. \A m \in Names : IF m \in registered THEN dynamicWaiters[m] = <<>>
                         ELSE ready'[m] = <<>> /\ waiters'[m] = <<>>
    <3>1. \A m \in Names : m \notin registered => ready'[m] = ready[m] /\ waiters'[m] = waiters[m]
      BY <1>3
    <3> QED
      BY <2>1, <3>1
  <2>3. ASSUME NEW m \in Names, NEW i \in DOMAIN waiters'[m] PROVE result'[waiters'[m][i]] # "new"
    <3>1. waiters'[m][i] = o \/ \E j \in DOMAIN waiters[m] : waiters'[m][i] = waiters[m][j]
      BY <1>3
    <3> QED
      BY <1>4, <2>1, <3>1
  <2>4. \A m \in Names : \A i \in DOMAIN dynamicWaiters[m] : result'[dynamicWaiters[m][i]] # "new"
    BY <1>4, <2>1
  <2> QED
    BY <2>2, <2>3, <2>4 DEF QueueShape, spaceVars
<1>6. ClosedIsFinal'
  BY DEF IInv, ClosedIsFinal, registryVars, spaceVars
<1>7. dynamicWaiters' \in [Names -> Seq(Observers)]
  BY <1>1 DEF TypeOK
<1> QED
  BY <1>2, <1>3, <1>5, <1>6, <1>7, ObserverStep

LEMMA ResumeObservationStep ==
  ASSUME IInv, NEW o \in Observers, NEW n \in Names, ResumeObservation(o, n)
  PROVE  IInv'
<1>1. /\ stack # <<>> /\ Head(stack) = Frame("observe", o, n) /\ stack' = Tail(stack)
      /\ Claim(o, n)
      /\ UNCHANGED <<registryVars, spaceVars, adapterVars, dynamicWaiters, attemptVars, microtasks>>
  BY DEF ResumeObservation, Top, Pop
<1>2. Head(stack).op = "observe" /\ Head(stack).of = o /\ Head(stack).at = n
  BY <1>1 DEF Frame
<1>3. /\ OnStack(Head(stack)) /\ StackShrinks
      /\ \A f : OnStack(f)' /\ f.op = "observe" => f.of # o
  BY <1>1, <1>2, PopOn DEF StackShrinks, IInv, TypeOK
<1>4. n \in registered /\ ~closed
  BY <1>2, <1>3 DEF IInv, KnownNames, ObserversEntered
<1> QED
  BY <1>1, <1>3, <1>4, ClaimStep

LEMMA NextConnectionStep ==
  ASSUME IInv, NEW o \in Observers, NEW n \in Names, NextConnection(o, n)
  PROVE  IInv'
<1>1. /\ result[o] = "new" /\ ~Entered(o) /\ TypeOK
      /\ UNCHANGED <<registryVars, attemptVars, microtasks>>
  BY DEF NextConnection, IInv
<1>2. \A f : OnStack(f) /\ f.op = "observe" => f.of # o
  BY <1>1 DEF Entered, OnStack
<1>3. ASSUME closed, result' = [result EXCEPT ![o] = "refused"],
             UNCHANGED <<spaceVars, adapterVars, ready, waiters, dynamicWaiters, stack>>
      PROVE  IInv'
  <2>1. StackShrinks /\ \A f : OnStack(f)' => OnStack(f)
    BY <1>3, StackKept DEF StackShrinks
  <2>2. ClosedIsFinal' /\ \A m \in Names : ready[m] = <<>> /\ waiters[m] = <<>> /\ dynamicWaiters[m] = <<>>
    BY <1>1, <1>3 DEF IInv, ClosedIsFinal, registryVars, spaceVars
  <2>3. QueueShape'
    BY <1>3, <2>2 DEF QueueShape
  <2>4. /\ ready' \in [Names -> Seq(Attempts)] /\ waiters' \in [Names -> Seq(Observers)]
        /\ dynamicWaiters' \in [Names -> Seq(Observers)]
    BY <1>1, <1>3 DEF TypeOK
  <2> QED
    BY <1>1, <1>2, <1>3, <2>1, <2>2, <2>3, <2>4, ObserverStep
<1>4. ASSUME ~closed, n \in registered, Claim(o, n),
             UNCHANGED <<spaceVars, adapterVars, dynamicWaiters, stack>>
      PROVE  IInv'
  <2>1. StackShrinks /\ \A f : OnStack(f)' => OnStack(f)
    BY <1>4, StackKept DEF StackShrinks
  <2> QED
    BY <1>1, <1>2, <1>4, <2>1, ClaimStep
<1>5. ASSUME ~closed, n \notin registered, result' = [result EXCEPT ![o] = "waiting"],
             dynamicWaiters' = [dynamicWaiters EXCEPT ![n] = Append(dynamicWaiters[n], o)],
             UNCHANGED <<spaceVars, adapterVars, ready, waiters, stack>>
      PROVE  IInv'
  <2>1. StackShrinks /\ \A f : OnStack(f)' => OnStack(f)
    BY <1>5, StackKept DEF StackShrinks
  <2>2. ClosedIsFinal'
    BY <1>1, <1>5 DEF IInv, ClosedIsFinal, registryVars, spaceVars
  <2>3. PICK q : q = dynamicWaiters[n]
    OBVIOUS
  <2>4. q \in Seq(Observers)
    BY <1>1, <2>3 DEF TypeOK
  <2>5. /\ Append(q, o) \in Seq(Observers) /\ Len(Append(q, o)) = Len(q) + 1
        /\ \A i \in 1..Len(q) : Append(q, o)[i] = q[i]
        /\ Append(q, o)[Len(q) + 1] = o
    BY <2>4, AppendProperties
  <2>6. Len(q) \in Nat /\ DOMAIN q = 1..Len(q) /\ DOMAIN Append(q, o) = 1..Len(Append(q, o))
    BY <2>4, <2>5, LenProperties
  <2>7. \A i \in DOMAIN Append(q, o) : Append(q, o)[i] = o \/ (i \in DOMAIN q /\ Append(q, o)[i] = q[i])
    BY <2>5, <2>6
  <2>8. /\ dynamicWaiters' \in [Names -> Seq(Observers)] /\ dynamicWaiters'[n] = Append(q, o)
        /\ \A m \in Names \ {n} : dynamicWaiters'[m] = dynamicWaiters[m]
    BY <1>1, <1>5, <2>3, <2>5 DEF TypeOK
  <2>9. result'[o] = "waiting" /\ \A p : result[p] # "new" => result'[p] # "new"
    BY <1>1, <1>5 DEF TypeOK
  <2>10. QueueShape'
    <3>1. /\ \A m \in Names : IF m \in registered THEN dynamicWaiters[m] = <<>>
                               ELSE ready[m] = <<>> /\ waiters[m] = <<>>
          /\ \A m \in Names : \A i \in DOMAIN waiters[m] : result[waiters[m][i]] # "new"
          /\ \A m \in Names : \A i \in DOMAIN dynamicWaiters[m] : result[dynamicWaiters[m][i]] # "new"
      BY DEF IInv, QueueShape
    <3>2. \A m \in Names : m \in registered => dynamicWaiters'[m] = <<>>
      BY <1>5, <2>8, <3>1
    <3>3. ASSUME NEW m \in Names, NEW i \in DOMAIN dynamicWaiters'[m] PROVE result'[dynamicWaiters'[m][i]] # "new"
      <4>1. CASE m = n
        BY <2>3, <2>7, <2>8, <2>9, <3>1, <4>1
      <4>2. CASE m # n
        BY <2>8, <2>9, <3>1, <4>2
      <4> QED
        BY <4>1, <4>2
    <3>4. \A m \in Names : \A i \in DOMAIN waiters'[m] : result'[waiters'[m][i]] # "new"
      BY <1>5, <2>9, <3>1
    <3> QED
      BY <1>5, <3>1, <3>2, <3>3, <3>4 DEF QueueShape, spaceVars
  <2>11. ready' \in [Names -> Seq(Attempts)] /\ waiters' \in [Names -> Seq(Observers)]
    BY <1>1, <1>5 DEF TypeOK
  <2> QED
    BY <1>1, <1>2, <1>5, <2>1, <2>2, <2>8, <2>10, <2>11, ObserverStep
<1>6. ASSUME ~closed, n \notin registered, Create(n), Push("observe", o, n), UNCHANGED <<ready, result>>
      PROVE  IInv'
  <2>1. PICK f : f = Frame("observe", o, n)
    OBVIOUS
  <2>2. f \in Frames /\ f.op = "observe" /\ f.of = o /\ f.at = n /\ stack' = <<f>> \o stack
    BY <1>6, <2>1 DEF Frame, Frames, Push
  <2>3. /\ stack' \in Seq(Frames) /\ ObservesOnce'
        /\ \A g : OnStack(g)' <=> g = f \/ OnStack(g)
    BY <1>1, <1>2, <2>2, PushOn DEF TypeOK, IInv
  <2>4. UNCHANGED <<origin, closed, ready, result, admitted, microtasks, state, attached, held, called, again>>
    BY <1>1, <1>6 DEF registryVars, attemptVars
  <2>5. /\ registered' = registered \cup {n} /\ registered' \subseteq Names
        /\ nsClosed' \subseteq Names /\ nsClosed' = IF closed THEN registered' ELSE {}
        /\ adapterOf' \in [Names -> Adapters \cup {BuiltIn}] /\ instances' \subseteq Adapters
        /\ waiters' \in [Names -> Seq(Observers)] /\ dynamicWaiters' \in [Names -> Seq(Observers)]
        /\ UNCHANGED <<parents, custom, building, admissionStarted>>
        /\ AdaptersAreIsolated' /\ BuildingShape' /\ QueueShape'
    BY <1>6, <2>4, CreateFacts
  <2>6. TypeOK'
    BY <1>1, <2>3, <2>4, <2>5 DEF TypeOK
  <2>7. ClosedIsFinal'
    BY <1>6, <2>4, <2>5 DEF ClosedIsFinal
  <2>8. KnownNames'
    BY <2>2, <2>3, <2>4, <2>5 DEF IInv, KnownNames, Queued
  <2>9. ObserversEntered' /\ AdmittedOnce'
    BY <1>1, <1>6, <2>2, <2>3, <2>4 DEF IInv, ObserversEntered, AdmittedOnce
  <2>10. Admission'
    BY <2>2, <2>3, <2>4, <2>5 DEF IInv, Admission, NothingUnderWay
  <2>11. ParentShape'
    BY <2>4, <2>5 DEF IInv, ParentShape
  <2> QED
    BY <2>3, <2>5, <2>6, <2>7, <2>8, <2>9, <2>10, <2>11 DEF IInv
<1> QED
  BY <1>3, <1>4, <1>5, <1>6 DEF NextConnection

-----------------------------------------------------------------------------

LEMMA NextIInv == ASSUME ~CloseWhenAnnounced PROVE IInv /\ [Next]_vars => IInv'
<1> SUFFICES ASSUME IInv, [Next]_vars PROVE IInv'
  OBVIOUS
<1>1. CASE AppCall
  <2> USE <1>1
  <2>1. ASSUME NEW a \in Attempts,
               \/ Connect(a) \/ ConnectMissing(a) \/ Disconnect(a)
               \/ AnswerAuth(a) \/ AnswerAdmitAuth(a)
               \/ \E i \in 1..MaxParents, allowed \in BOOLEAN : AnswerMatcher(a, i, allowed)
               \/ \E op \in {"accept", "refuse"} : CallNext(a, op)
        PROVE  IInv'
    BY <2>1, ConnectStep, ConnectMissingStep, DisconnectStep, AnswerAuthStep, AnswerAdmitAuthStep,
       AnswerMatcherStep, CallNextStep
  <2> QED
    BY <2>1, OfStep, OfParentStep, RegisterStep, NextConnectionStep, NewerServerStep, CloseStep DEF AppCall
<1>2. CASE CallbackReturns
  BY <1>2, HandlerReturnsStep, ResumeAdmissionStep, ResumeObservationStep, FactoryReturnsStep,
     FactoryFailsStep DEF CallbackReturns
<1>3. CASE Microtask
  BY <1>3, RunPairStep, RunAdmitStep, RunAcceptStep, RunRefuseStep DEF Microtask
<1>4. CASE UNCHANGED vars
  <2>1. UNCHANGED <<origin, closed, registered, nsClosed, parents, custom, adapterOf, instances, building,
                    admissionStarted, ready, waiters, dynamicWaiters, result, state, attached, admitted,
                    held, called, again, microtasks, stack>>
    BY <1>4 DEF vars, registryVars, spaceVars, adapterVars, observerVars, attemptVars, runVars
  <2>2. TypeOK'
    BY <2>1 DEF IInv, TypeOK
  <2>3. ClosedIsFinal' /\ AdaptersAreIsolated' /\ QueueShape' /\ BuildingShape'
    BY <2>1, BuildingKept DEF IInv, ClosedIsFinal, AdaptersAreIsolated, QueueShape
  <2>4. KnownNames' /\ ObserversEntered' /\ ObservesOnce' /\ AdmittedOnce' /\ Admission' /\ ParentShape'
    BY <2>1 DEF IInv, KnownNames, ObserversEntered, ObservesOnce, AdmittedOnce, Admission, NothingUnderWay,
                ParentShape, OnStack, Queued
  <2> QED
    BY <2>2, <2>3, <2>4 DEF IInv
<1> QED
  BY <1>1, <1>2, <1>3, <1>4 DEF Next

\* Whatever the application does, except for closing the Server in a `new_namespace`
\* listener that a nextConnection() waits for: the registry never names a closed
\* Server, nothing is left in its queues, and Namespaces share no custom adapter.
THEOREM ServerInvariant ==
  ASSUME ~CloseWhenAnnounced
  PROVE  Spec => []ApiInv
<1>1. Init => IInv
  BY InitIInv
<1>2. IInv /\ [Next]_vars => IInv'
  BY NextIInv
<1>3. IInv => ApiInv
  BY DEF IInv, ApiInv
<1> QED
  BY <1>1, <1>2, <1>3, PTL DEF Spec

-----------------------------------------------------------------------------
(* The adapters.                                                           *)

AdaptersKept == \A a \in attached : adapterOf'[NameOf[a]] = adapterOf[NameOf[a]]

LEMMA CreateKeepsAdapters ==
  ASSUME IInv, NEW n \in Names, n \notin registered, Create(n), UNCHANGED <<closed, ready, result>>
  PROVE  AdaptersKept
<1>1. \A a \in attached : NameOf[a] \in registered
  BY DEF IInv, KnownNames
<1> QED
  BY <1>1, CreateFacts DEF AdaptersKept

LEMMA AdmitKeepsAdapters ==
  ASSUME IInv, NEW a \in Attempts, NEW h, Admit(a, h), UNCHANGED <<closed, ready, result>>
  PROVE  AdaptersKept
<1>1. CASE UNCHANGED adapterOf
  BY <1>1 DEF AdaptersKept
<1>2. NameOf[a] \in Names
  BY ConnectionApiAssumption
<1>3. CASE NameOf[a] \notin registered /\ Create(NameOf[a])
  BY <1>2, <1>3, CreateKeepsAdapters
<1> QED
  BY <1>1, <1>3 DEF Admit, CreateFails, adapterVars

LEMMA StepKeepsAdapters == IInv /\ [Next]_vars => AdaptersKept
<1> SUFFICES ASSUME IInv, [Next]_vars PROVE AdaptersKept
  OBVIOUS
<1>1. ASSUME UNCHANGED adapterOf PROVE AdaptersKept
  BY <1>1 DEF AdaptersKept
<1>2. ASSUME NEW n \in Names, Of(n) PROVE AdaptersKept
  BY <1>2, CreateKeepsAdapters DEF Of, registryVars
<1>3. ASSUME NEW a \in Attempts, AnswerAdmitAuth(a) PROVE AdaptersKept
  <2>1. PICK h : h = held \ {Callback("admitAuth", a, 0)}
    OBVIOUS
  <2>2. UNCHANGED <<closed, ready, result>> /\ (UNCHANGED adapterOf \/ Admit(a, h))
    BY <1>3, <2>1 DEF AnswerAdmitAuth, TryParent, registryVars, adapterVars
  <2> QED
    BY <1>1, <2>2, AdmitKeepsAdapters
<1>4. ASSUME NEW a \in Attempts, NEW i \in 1..MaxParents, NEW allowed \in BOOLEAN,
             AnswerMatcher(a, i, allowed)
      PROVE  AdaptersKept
  <2>1. PICK h : h = held \ {Callback("match", a, i)}
    OBVIOUS
  <2>2. UNCHANGED <<closed, ready, result>> /\ (UNCHANGED adapterOf \/ Admit(a, h))
    BY <1>4, <2>1 DEF AnswerMatcher, TryParent, registryVars, adapterVars
  <2> QED
    BY <1>1, <2>2, AdmitKeepsAdapters
<1>5. ASSUME NEW o \in Observers, NEW n \in Names, NextConnection(o, n) PROVE AdaptersKept
  <2>1. \/ UNCHANGED adapterOf
        \/ n \notin registered /\ Create(n) /\ UNCHANGED <<ready, result>>
    BY <1>5 DEF NextConnection, adapterVars
  <2>2. UNCHANGED closed
    BY <1>5 DEF NextConnection, registryVars
  <2> QED
    BY <1>1, <2>1, <2>2, CreateKeepsAdapters
<1>6. ASSUME NEW n \in Names, NEW x \in Adapters, FactoryReturns(n, x) PROVE AdaptersKept
  BY <1>6, FactoryReturnsStep DEF AdaptersKept
<1>7. CASE AppCall
  <2>1. ASSUME NEW m, OfParent(m) PROVE UNCHANGED adapterOf
    BY <2>1 DEF OfParent, adapterVars
  <2>2. RegisterAdapters \/ NewerServer \/ Close => UNCHANGED adapterOf
    BY DEF RegisterAdapters, NewerServer, Close, adapterVars
  <2>3. ASSUME NEW a \in Attempts,
               \/ Connect(a) \/ ConnectMissing(a) \/ Disconnect(a) \/ AnswerAuth(a)
               \/ \E op \in {"accept", "refuse"} : CallNext(a, op)
        PROVE  UNCHANGED adapterOf
    BY <2>3 DEF Connect, ConnectMissing, Disconnect, AnswerAuth, CallNext, adapterVars
  <2> QED
    BY <1>1, <1>2, <1>3, <1>4, <1>5, <1>7, <2>1, <2>2, <2>3 DEF AppCall
<1>8. CASE CallbackReturns
  <2>1. ASSUME NEW a \in Attempts, HandlerReturns(a) \/ ResumeAdmission(a) PROVE UNCHANGED adapterOf
    BY <2>1 DEF HandlerReturns, ResumeAdmission, adapterVars
  <2>2. ASSUME NEW o \in Observers, NEW n \in Names, ResumeObservation(o, n) PROVE UNCHANGED adapterOf
    BY <2>2 DEF ResumeObservation, adapterVars
  <2>3. FactoryFails => UNCHANGED adapterOf
    BY DEF FactoryFails
  <2> QED
    BY <1>1, <1>6, <1>8, <2>1, <2>2, <2>3 DEF CallbackReturns
<1>9. CASE Microtask
  <2>1. ASSUME NEW a \in Attempts, RunPair(a) \/ RunAdmit(a) \/ RunAccept(a) \/ RunRefuse(a)
        PROVE  UNCHANGED adapterOf
    BY <2>1 DEF RunPair, RunAdmit, RunAccept, RunRefuse, adapterVars
  <2> QED
    BY <1>1, <1>9, <2>1 DEF Microtask
<1>10. CASE UNCHANGED vars
  BY <1>1, <1>10 DEF vars, adapterVars
<1> QED
  BY <1>7, <1>8, <1>9, <1>10 DEF Next

\* However the calls of adapter() and its factories are interleaved with connecting,
\* a Namespace never loses the adapter that holds the rooms of its Sockets.
THEOREM AdaptersOfSocketsStay ==
  ASSUME ~CloseWhenAnnounced
  PROVE  Spec => AdapterIsKept
<1>1. Init => IInv
  BY InitIInv
<1>2. IInv /\ [Next]_vars => IInv'
  BY NextIInv
<1>3. IInv /\ [Next]_vars => [\A a \in attached : adapterOf'[NameOf[a]] = adapterOf[NameOf[a]]]_vars
  BY StepKeepsAdapters DEF AdaptersKept
<1> QED
  BY <1>1, <1>2, <1>3, PTL DEF Spec, AdapterIsKept

-----------------------------------------------------------------------------
(* The queues of the Server implement one queue per name.                  *)

LEMMA WaitingKept ==
  ASSUME UNCHANGED <<registered, waiters, dynamicWaiters>>
  PROVE  Waiting' = Waiting
BY DEF Waiting

LEMMA WaitingOf ==
  /\ Waiting = [m \in Names |-> Waiting[m]]
  /\ \A m \in Names : Waiting[m] = IF m \in registered THEN waiters[m] ELSE dynamicWaiters[m]
  /\ Waiting' = [m \in Names |-> Waiting'[m]]
  /\ \A m \in Names : Waiting'[m] = IF m \in registered' THEN waiters'[m] ELSE dynamicWaiters'[m]
BY DEF Waiting

\* Creating a Namespace, whoever does it, moves the observers of its name.
LEMMA CreateKeepsWaiting ==
  ASSUME IInv, NEW n \in Names, n \notin registered, Create(n), UNCHANGED <<closed, ready, result>>
  PROVE  Waiting' = Waiting
<1>1. \A m \in Names : Waiting'[m] = Waiting[m]
  BY CreateFacts, WaitingOf
<1> QED
  BY <1>1, WaitingOf

LEMMA AdmitKeepsQueues ==
  ASSUME IInv, NEW a \in Attempts, NEW h, Admit(a, h), UNCHANGED <<closed, ready, result>>
  PROVE  Waiting' = Waiting
<1>1. CASE UNCHANGED <<registered, waiters, dynamicWaiters>>
  BY <1>1, WaitingKept
<1>2. NameOf[a] \in Names
  BY ConnectionApiAssumption
<1>3. CASE NameOf[a] \notin registered /\ Create(NameOf[a])
  BY <1>2, <1>3, CreateKeepsWaiting
<1> QED
  BY <1>1, <1>3 DEF Admit, CreateFails, spaceVars

LEMMA AcceptOffers ==
  ASSUME IInv, NEW a \in Attempts, RunAccept(a)
  PROVE  [Queue!Next]_(Queue!queueVars)
<1>1. /\ Due("accept", a) /\ Consume
      /\ UNCHANGED <<closed, registered, dynamicWaiters>>
  BY DEF RunAccept, registryVars, spaceVars
<1>2. CASE state[a] = "pending" /\ NameOf[a] \notin nsClosed
  <2>1. PICK n \in Names : n = NameOf[a]
    BY ConnectionApiAssumption
  <2>2. admitted' = admitted \cup {a} /\ Offer(n, a)
    BY <1>2, <2>1 DEF RunAccept, Pending
  <2>3. a \notin admitted /\ n \in registered /\ ~closed
    BY <1>1, <1>2, <2>1, FirstOffer
  <2>4. Waiting[n] = waiters[n]
    BY <2>3, WaitingOf
  <2>5. CASE waiters[n] = <<>>
    <3>1. ready' = [ready EXCEPT ![n] = Append(@, a)] /\ UNCHANGED <<waiters, result>>
      BY <2>2, <2>5 DEF Offer
    <3>2. Waiting' = Waiting
      BY <1>1, <3>1, WaitingKept
    <3>3. Queue!Offer(n, a)
      BY <1>1, <2>2, <2>3, <2>4, <2>5, <3>1, <3>2 DEF Queue!Offer
    <3> QED
      BY <3>3 DEF Queue!Next
  <2>6. CASE waiters[n] # <<>>
    <3>1. /\ result' = [result EXCEPT ![Head(waiters[n])] = a]
          /\ waiters' = [waiters EXCEPT ![n] = Tail(waiters[n])]
          /\ UNCHANGED ready
      BY <2>2, <2>6 DEF Offer
    <3>2. \A m \in Names : waiters'[m] = IF m = n THEN Tail(waiters[n]) ELSE waiters[m]
      BY <3>1 DEF IInv, TypeOK
    <3>3. \A m \in Names : Waiting'[m] = IF m = n THEN Tail(waiters[n]) ELSE Waiting[m]
      BY <1>1, <2>3, <3>2, WaitingOf
    <3>4. Waiting' = [Waiting EXCEPT ![n] = Tail(Waiting[n])]
      BY <2>4, <3>3, WaitingOf
    <3>5. Queue!Offer(n, a)
      BY <1>1, <2>2, <2>3, <2>4, <2>6, <3>1, <3>4 DEF Queue!Offer
    <3> QED
      BY <3>5 DEF Queue!Next
  <2> QED
    BY <2>5, <2>6
<1>3. CASE ~(state[a] = "pending" /\ NameOf[a] \notin nsClosed)
  <2>1. UNCHANGED <<admitted, ready, waiters, result>>
    BY <1>3 DEF RunAccept, Pending
  <2>2. Waiting' = Waiting
    BY <1>1, <2>1, WaitingKept
  <2> QED
    BY <1>1, <2>1, <2>2 DEF Queue!queueVars
<1> QED
  BY <1>2, <1>3

LEMMA RefuseWithdraws ==
  ASSUME IInv, NEW a \in Attempts, RunRefuse(a)
  PROVE  [Queue!Next]_(Queue!queueVars)
<1>1. /\ UNCHANGED <<closed, registered, waiters, dynamicWaiters, result, admitted>>
      /\ UNCHANGED ready \/ DiscardReady(NameOf[a], a)
  BY DEF RunRefuse, registryVars, spaceVars
<1>2. Waiting' = Waiting
  BY <1>1, WaitingKept
<1>3. CASE UNCHANGED ready
  BY <1>1, <1>2, <1>3 DEF Queue!queueVars
<1>4. PICK n \in Names : n = NameOf[a]
  BY ConnectionApiAssumption
<1>5. ASSUME NEW i \in DOMAIN ready[n],
             ready' = [ready EXCEPT ![n] = SubSeq(@, 1, i - 1) \o SubSeq(@, i + 1, Len(@))]
      PROVE  Queue!Next
  <2>1. Queue!Withdraw(n, i)
    BY <1>1, <1>2, <1>5 DEF Queue!Withdraw
  <2> QED
    BY <2>1 DEF Queue!Next
<1> QED
  BY <1>1, <1>3, <1>4, <1>5 DEF DiscardReady

LEMMA ClaimObserves ==
  ASSUME IInv, NEW n \in Names, NEW o \in Observers, Claim(o, n), n \in registered, ~closed,
         result[o] = "new", UNCHANGED <<closed, registered, dynamicWaiters, admitted>>
  PROVE  Queue!Observe(n, o)
<1>1. Waiting[n] = waiters[n]
  BY WaitingOf
<1>2. CASE ready[n] # <<>>
  <2>1. /\ result' = [result EXCEPT ![o] = Head(ready[n])]
        /\ ready' = [ready EXCEPT ![n] = Tail(@)]
        /\ UNCHANGED waiters
    BY <1>2 DEF Claim
  <2>2. Waiting' = Waiting
    BY <2>1, WaitingKept
  <2> QED
    BY <1>2, <2>1, <2>2 DEF Queue!Observe
<1>3. CASE ready[n] = <<>>
  <2>1. /\ result' = [result EXCEPT ![o] = "waiting"]
        /\ waiters' = [waiters EXCEPT ![n] = Append(waiters[n], o)]
        /\ UNCHANGED ready
    BY <1>3 DEF Claim
  <2>2. \A m \in Names : waiters'[m] = IF m = n THEN Append(waiters[n], o) ELSE waiters[m]
    BY <2>1 DEF IInv, TypeOK
  <2>3. \A m \in Names : Waiting'[m] = IF m = n THEN Append(Waiting[n], o) ELSE Waiting[m]
    BY <1>1, <2>2, WaitingOf
  <2>4. Waiting' = [Waiting EXCEPT ![n] = Append(Waiting[n], o)]
    BY <2>3, WaitingOf
  <2> QED
    BY <1>3, <2>1, <2>4 DEF Queue!Observe
<1> QED
  BY <1>2, <1>3

LEMMA NextConnectionObserves ==
  ASSUME IInv, NEW o \in Observers, NEW n \in Names, NextConnection(o, n)
  PROVE  [Queue!Next]_(Queue!queueVars)
<1>1. result[o] = "new" /\ UNCHANGED <<closed, admitted>>
  BY DEF NextConnection, registryVars, attemptVars
<1>2. Queue!Observe(n, o) => Queue!Next
  BY DEF Queue!Next
<1>3. ASSUME closed, result' = [result EXCEPT ![o] = "refused"],
             UNCHANGED <<spaceVars, ready, waiters, dynamicWaiters>>
      PROVE  Queue!Observe(n, o)
  <2>1. Waiting' = Waiting
    BY <1>3, WaitingKept DEF spaceVars
  <2> QED
    BY <1>1, <1>3, <2>1 DEF Queue!Observe
<1>4. ASSUME ~closed, n \in registered, Claim(o, n), UNCHANGED <<spaceVars, dynamicWaiters>>
      PROVE  Queue!Observe(n, o)
  BY <1>1, <1>4, ClaimObserves DEF spaceVars
<1>5. ASSUME ~closed, n \notin registered, result' = [result EXCEPT ![o] = "waiting"],
             dynamicWaiters' = [dynamicWaiters EXCEPT ![n] = Append(dynamicWaiters[n], o)],
             UNCHANGED <<spaceVars, ready, waiters>>
      PROVE  Queue!Observe(n, o)
  <2>1. \A m \in Names : dynamicWaiters'[m] = IF m = n THEN Append(dynamicWaiters[n], o) ELSE dynamicWaiters[m]
    BY <1>5 DEF IInv, TypeOK
  <2>2. \A m \in Names : Waiting'[m] = IF m = n THEN Append(Waiting[n], o) ELSE Waiting[m]
    BY <1>5, <2>1, WaitingOf DEF spaceVars
  <2>3. Waiting' = [Waiting EXCEPT ![n] = Append(Waiting[n], o)]
    BY <2>2, WaitingOf
  <2>4. ready[n] = <<>>
    BY <1>5 DEF IInv, QueueShape
  <2> QED
    BY <1>1, <1>5, <2>3, <2>4 DEF Queue!Observe
<1>6. ASSUME n \notin registered, Create(n), UNCHANGED <<ready, result>>
      PROVE  UNCHANGED Queue!queueVars
  BY <1>1, <1>6, CreateKeepsWaiting DEF Queue!queueVars
<1> QED
  BY <1>2, <1>3, <1>4, <1>5, <1>6 DEF NextConnection

LEMMA ResumedObserves ==
  ASSUME IInv, NEW o \in Observers, NEW n \in Names, ResumeObservation(o, n)
  PROVE  Queue!Next
<1>1. /\ stack # <<>> /\ Head(stack) = Frame("observe", o, n) /\ stack' = Tail(stack)
      /\ Claim(o, n) /\ UNCHANGED <<closed, registered, dynamicWaiters, admitted>>
  BY DEF ResumeObservation, Top, Pop, registryVars, spaceVars, attemptVars
<1>2. Head(stack).op = "observe" /\ Head(stack).of = o /\ Head(stack).at = n
  BY <1>1 DEF Frame
<1>3. OnStack(Head(stack))
  BY <1>1, PopOn DEF IInv, TypeOK
<1>4. n \in registered /\ ~closed /\ result[o] = "new"
  BY <1>2, <1>3 DEF IInv, KnownNames, ObserversEntered
<1>5. Queue!Observe(n, o)
  BY <1>1, <1>4, ClaimObserves
<1> QED
  BY <1>5 DEF Queue!Next

LEMMA CloseEnds == ASSUME Close PROVE Queue!Next
<1>1. /\ closed' = TRUE /\ UNCHANGED <<registered, admitted>>
      /\ ready' = [n \in Names |-> <<>>]
      /\ waiters' = [n \in Names |-> <<>>]
      /\ dynamicWaiters' = [n \in Names |-> <<>>]
      /\ result' = [o \in Observers |-> IF result[o] = "waiting" THEN "refused" ELSE result[o]]
  BY DEF Close, attemptVars
<1>2. \A n \in Names : Waiting'[n] = <<>>
  BY <1>1, WaitingOf
<1>3. Waiting' = [n \in Names |-> <<>>]
  BY <1>2, WaitingOf
<1>4. Queue!End
  BY <1>1, <1>3 DEF Queue!End
<1> QED
  BY <1>4 DEF Queue!Next

LEMMA StepMaps == IInv /\ [Next]_vars => [Queue!Next]_(Queue!queueVars)
<1> SUFFICES ASSUME IInv, [Next]_vars PROVE [Queue!Next]_(Queue!queueVars)
  OBVIOUS
<1> DEFINE Same == UNCHANGED <<ready, result, admitted, closed, registered, waiters, dynamicWaiters>>
<1>1. ASSUME Same PROVE UNCHANGED Queue!queueVars
  BY <1>1, WaitingKept DEF Queue!queueVars
<1>2. ASSUME Waiting' = Waiting, UNCHANGED <<ready, result, admitted, closed>>
      PROVE  UNCHANGED Queue!queueVars
  BY <1>2 DEF Queue!queueVars
<1>3. ASSUME NEW n \in Names, Of(n) PROVE UNCHANGED Queue!queueVars
  BY <1>2, <1>3, CreateKeepsWaiting DEF Of, registryVars, attemptVars
<1>4. ASSUME NEW a \in Attempts, AnswerAdmitAuth(a) PROVE UNCHANGED Queue!queueVars
  <2>1. PICK h : h = held \ {Callback("admitAuth", a, 0)}
    OBVIOUS
  <2>2. UNCHANGED <<closed, ready, result, admitted>>
        /\ (UNCHANGED <<registered, waiters, dynamicWaiters>> \/ Admit(a, h))
    BY <1>4, <2>1 DEF AnswerAdmitAuth, TryParent, registryVars, spaceVars
  <2> QED
    BY <1>1, <1>2, <2>2, AdmitKeepsQueues
<1>5. ASSUME NEW a \in Attempts, NEW i \in 1..MaxParents, NEW allowed \in BOOLEAN,
             AnswerMatcher(a, i, allowed)
      PROVE  UNCHANGED Queue!queueVars
  <2>1. PICK h : h = held \ {Callback("match", a, i)}
    OBVIOUS
  <2>2. UNCHANGED <<closed, ready, result, admitted>>
        /\ (UNCHANGED <<registered, waiters, dynamicWaiters>> \/ Admit(a, h))
    BY <1>5, <2>1 DEF AnswerMatcher, TryParent, registryVars, spaceVars
  <2> QED
    BY <1>1, <1>2, <2>2, AdmitKeepsQueues
<1>6. CASE AppCall
  <2> USE DEF registryVars, spaceVars, observerVars, attemptVars
  <2>1. ASSUME NEW m, OfParent(m) PROVE Same
    BY <2>1 DEF OfParent
  <2>2. RegisterAdapters => Same
    BY DEF RegisterAdapters
  <2>3. NewerServer => Same
    BY DEF NewerServer
  <2>4. ASSUME NEW a \in Attempts,
               \/ Connect(a) \/ ConnectMissing(a) \/ Disconnect(a) \/ AnswerAuth(a)
               \/ \E op \in {"accept", "refuse"} : CallNext(a, op)
        PROVE  Same
    BY <2>4 DEF Connect, ConnectMissing, Disconnect, AnswerAuth, CallNext
  <2> HIDE DEF Same
  <2> QED
    BY <1>1, <1>3, <1>4, <1>5, <1>6, <2>1, <2>2, <2>3, <2>4, NextConnectionObserves, CloseEnds DEF AppCall
<1>7. CASE CallbackReturns
  <2> USE DEF registryVars, spaceVars, observerVars, attemptVars
  <2>1. ASSUME NEW a \in Attempts, HandlerReturns(a) \/ ResumeAdmission(a) PROVE Same
    BY <2>1 DEF HandlerReturns, ResumeAdmission
  <2>2. ASSUME NEW n \in Names, NEW x \in Adapters, FactoryReturns(n, x) PROVE Same
    BY <2>2 DEF FactoryReturns
  <2>3. FactoryFails => Same
    BY DEF FactoryFails
  <2> HIDE DEF Same
  <2> QED
    BY <1>1, <1>7, <2>1, <2>2, <2>3, ResumedObserves DEF CallbackReturns
<1>8. CASE Microtask
  <2> USE DEF registryVars, spaceVars, observerVars
  <2>1. ASSUME NEW a \in Attempts, RunPair(a) \/ RunAdmit(a) PROVE Same
    BY <2>1 DEF RunPair, RunAdmit
  <2> HIDE DEF Same
  <2> QED
    BY <1>1, <1>8, <2>1, AcceptOffers, RefuseWithdraws DEF Microtask
<1>9. CASE UNCHANGED vars
  <2>1. Same
    BY <1>9 DEF vars, registryVars, spaceVars, observerVars, attemptVars
  <2> QED
    BY <1>1, <2>1
<1> QED
  BY <1>6, <1>7, <1>8, <1>9 DEF Next

\* For every name the direct connection API pairs Sockets and observers in the order
\* of ConnectionQueue: of(), dynamic admission and nextConnection() may each create
\* the Namespace meanwhile, and no chain or matcher that answers twice offers twice.
THEOREM ServerImplementsQueue ==
  ASSUME ~CloseWhenAnnounced
  PROVE  Spec => QueueSpec
<1>1. Init => IInv
  BY InitIInv
<1>2. IInv /\ [Next]_vars => IInv'
  BY NextIInv
<1>3. Init => Queue!Init
  <2>1. ASSUME Init PROVE Waiting = [n \in Names |-> <<>>]
    BY <2>1 DEF Init, Waiting
  <2> QED
    BY <2>1 DEF Init, Queue!Init
<1>4. IInv /\ [Next]_vars => [Queue!Next]_(Queue!queueVars)
  BY StepMaps
<1> QED
  BY <1>1, <1>2, <1>3, <1>4, PTL DEF Spec, QueueSpec, Queue!Spec

=============================================================================
