--------------------------- MODULE ConnectionApi ---------------------------
(***************************************************************************)
(* The Server: its place in the registry of origins, the namespaces it     *)
(* knows, the dynamic parents that create more of them, the adapters it    *)
(* gives them, and the two halves of the direct connection API, connect    *)
(* and nextConnection (runtime/server.ts and the queues of                 *)
(* runtime/namespaces.ts).                                                 *)
(*                                                                         *)
(* The library calls the application back while it is half-way: an adapter *)
(* factory, a `new_namespace` listener, a `connection` handler.  `stack`   *)
(* holds what is left to do when such a callback returns, and application  *)
(* calls may happen at any time.  A callback handed to the application     *)
(* (`done` of auth, `next` of a matcher or of a middleware chain) is in    *)
(* `held`; it may be called at once, later, and more than once.  A         *)
(* connection is an attempt here; what happens to its Socket afterwards is *)
(* module Pairing.                                                         *)
(***************************************************************************)
EXTENDS Integers, Sequences, FiniteSets

CONSTANTS
  Names,            \* the normalized namespace names
  Root,             \* "/", which the constructor registers
  Attempts,         \* the connection attempts
  NameOf,           \* the namespace each attempt asks for
  Observers,        \* the nextConnection() calls
  RegExps,          \* the RegExp objects given to of()
  Matching,         \* the names each of them matches
  Ask,              \* the matcher of a parent that is a function
  Adapters,         \* the adapter instances that factories return
  BuiltIn,          \* the adapter a Namespace constructs
  CloseWhenAnnounced, \* the application closes the Server in `new_namespace`
  Successor,        \* the application constructs another Server for the origin
  MaxParents,       \* bound: dynamic parents
  MaxNested,        \* bound: calls of adapter() under way, one in a factory of the other
  MaxAgain          \* bound: callbacks called again

ASSUME ConnectionApiAssumption ==
  /\ Root \in Names
  /\ NameOf \in [Attempts -> Names]
  /\ Matching \in [RegExps -> SUBSET Names]
  /\ Ask \notin RegExps
  /\ BuiltIn \notin Adapters
  /\ CloseWhenAnnounced \in BOOLEAN /\ Successor \in BOOLEAN
  /\ MaxParents \in Nat /\ MaxNested \in Nat /\ MaxAgain \in Nat
  /\ Attempts \cap {"new", "waiting", "refused"} = {}

VARIABLES
  origin,           \* whom the registry names for the origin: "this", "newer" or "none"
  closed,           \* Server.closed
  registered,       \* the keys of Server.namespaces
  nsClosed,         \* the Namespaces whose own `closed` is true
  parents,          \* the matchers of the dynamic parents
  custom,           \* an adapterFactory is set
  adapterOf,        \* Namespace.adapter
  instances,        \* adapterInstances
  building,         \* `used` and `replacements` of the calls of adapter(), innermost first
  admissionStarted,
  ready, waiters,   \* the two queues of each Namespace
  dynamicWaiters,   \* observers of names that are not registered yet
  result,           \* "new", "waiting", "refused", or the Socket an observer got
  state,            \* ConnectionAttempt.state
  attached,         \* the attempts that have their server Socket
  admitted,         \* the attempts whose Socket was put in Namespace.sockets
  held,             \* callbacks handed out and not called yet
  called,           \* those called before, while MaxAgain allows another call
  again,            \* repeated calls so far
  microtasks, stack

registryVars == <<origin, closed>>
spaceVars    == <<registered, nsClosed, parents>>
adapterVars  == <<custom, adapterOf, instances, building, admissionStarted>>
observerVars == <<ready, waiters, dynamicWaiters, result>>
attemptVars  == <<state, attached, admitted, held, called, again>>
runVars      == <<microtasks, stack>>
vars == <<registryVars, spaceVars, adapterVars, observerVars, attemptVars, runVars>>

States == {"unused", "pending", "connected", "rejected", "cancelled"}
CallbackOps == {"auth", "admitAuth", "match", "next"}
Callbacks == [op : CallbackOps, of : Attempts, at : 0..MaxParents]
Tasks == [op : {"pair", "admit", "accept", "refuse"}, of : Attempts]
Frames == [op : {"handler", "admit"}, of : Attempts, at : Names]
            \cup [op : {"observe"}, of : Observers, at : Names]
            \cup [op : {"register"}, of : {Root}, at : {Root}]
Registrations == [used : SUBSET Adapters, got : UNION {[D -> Adapters] : D \in SUBSET Names}]

TypeOK ==
  /\ origin \in {"this", "newer", "none"}
  /\ closed \in BOOLEAN /\ custom \in BOOLEAN /\ admissionStarted \in BOOLEAN
  /\ registered \subseteq Names /\ nsClosed \subseteq Names
  /\ parents \in Seq(RegExps \cup {Ask})
  /\ adapterOf \in [Names -> Adapters \cup {BuiltIn}]
  /\ instances \subseteq Adapters
  /\ building \in Seq(Registrations)
  /\ attached \subseteq Attempts /\ admitted \subseteq Attempts
  /\ ready \in [Names -> Seq(Attempts)]
  /\ waiters \in [Names -> Seq(Observers)] /\ dynamicWaiters \in [Names -> Seq(Observers)]
  /\ result \in [Observers -> Attempts \cup {"new", "waiting", "refused"}]
  /\ state \in [Attempts -> States]
  /\ held \subseteq Callbacks /\ called \subseteq Callbacks
  /\ again \in 0..MaxAgain
  /\ microtasks \in Seq(Tasks) /\ stack \in Seq(Frames)

\* The constructor: root exists, and the origin names this Server.
Init ==
  /\ origin = "this" /\ closed = FALSE
  /\ registered = {Root} /\ nsClosed = {}
  /\ parents = <<>>
  /\ custom = FALSE /\ instances = {} /\ building = <<>>
  /\ adapterOf = [n \in Names |-> BuiltIn]
  /\ admissionStarted = FALSE
  /\ ready = [n \in Names |-> <<>>]
  /\ waiters = [n \in Names |-> <<>>] /\ dynamicWaiters = [n \in Names |-> <<>>]
  /\ result = [o \in Observers |-> "new"]
  /\ state = [a \in Attempts |-> "unused"]
  /\ attached = {} /\ admitted = {} /\ held = {} /\ called = {} /\ again = 0
  /\ microtasks = <<>> /\ stack = <<>>

-----------------------------------------------------------------------------
(* The run-time system.                                                    *)

Frame(op, x, n) == [op |-> op, of |-> x, at |-> n]
Push(op, x, n) == stack' = <<Frame(op, x, n)>> \o stack
Top(op, x, n) == stack # <<>> /\ Head(stack) = Frame(op, x, n)
Pop == stack' = Tail(stack)

Defer(op, a) == microtasks' = Append(microtasks, [op |-> op, of |-> a])
Due(op, a) == stack = <<>> /\ microtasks # <<>> /\ Head(microtasks) = [op |-> op, of |-> a]
Consume == microtasks' = Tail(microtasks)

Callback(op, a, i) == [op |-> op, of |-> a, at |-> i]
\* The application calls a callback for the first time, or again.  Once the bound is
\* reached, what was called is forgotten.
Call(c) ==
  /\ \/ c \in held /\ UNCHANGED again
     \/ c \in called /\ again < MaxAgain /\ again' = again + 1
  /\ called' = IF again' < MaxAgain THEN called \cup {c} ELSE {}

Pending(a) == state[a] = "pending"
Becomes(a, s) == state' = [state EXCEPT ![a] = s]

-----------------------------------------------------------------------------
(* Namespaces: getNamespace, the dynamic parents and the adapters.         *)

\* matchingRegExpParent finds a parent.
MatchedByRegExp(n) == \E i \in DOMAIN parents : parents[i] # Ask /\ n \in Matching[parents[i]]

\* getNamespace of a name that is not registered, when the factory gives a fresh
\* adapter.  Observers of the name move to the queue of the new Namespace.
Create(n) ==
  /\ registered' = registered \cup {n}
  /\ nsClosed' = IF closed THEN nsClosed \cup {n} ELSE nsClosed
  /\ IF custom
     THEN \E x \in Adapters \ instances :
            /\ adapterOf' = [adapterOf EXCEPT ![n] = x]
            /\ instances' = instances \cup {x}
     ELSE UNCHANGED <<adapterOf, instances>>
  /\ waiters' = [waiters EXCEPT ![n] = dynamicWaiters[n]]
  /\ dynamicWaiters' = [dynamicWaiters EXCEPT ![n] = <<>>]
  /\ UNCHANGED <<parents, custom, building, admissionStarted>>
\* ... and when the factory throws, or gives an adapter that another one has.
CreateFails == custom /\ UNCHANGED <<spaceVars, adapterVars, waiters, dynamicWaiters>>

\* of(name) of a name that is not registered.  What follows the `new_namespace`
\* event changes nothing, so no frame is left.
Of(n) ==
  /\ n \notin registered
  /\ Create(n)
  /\ UNCHANGED <<registryVars, ready, result, attemptVars, runVars>>

\* of(RegExp) and of(function).
OfParent(m) ==
  /\ Len(parents) < MaxParents
  /\ parents' = Append(parents, m)
  /\ UNCHANGED <<registryVars, registered, nsClosed, adapterVars,
                 observerVars, attemptVars, runVars>>

\* adapter(factory): the factory is called for one Namespace after the other, those it
\* makes the application create included; in a factory it may call adapter() again.
Replacing(used, got) == <<[used |-> used, got |-> got]>>
RegisterAnytime ==   \* mutant of RegisterAdapters: also after the first connect()
  /\ Len(building) < MaxNested
  /\ building' = Replacing(instances, <<>>) \o building
  /\ Push("register", Root, Root)
  /\ UNCHANGED <<registryVars, spaceVars, custom, adapterOf, instances, admissionStarted,
                 observerVars, attemptVars, microtasks>>
RegisterAdapters ==
  /\ ~admissionStarted
  /\ Len(building) < MaxNested
  /\ building' = Replacing(instances, <<>>) \o building
  /\ Push("register", Root, Root)
  /\ UNCHANGED <<registryVars, spaceVars, custom, adapterOf, instances, admissionStarted,
                 observerVars, attemptVars, microtasks>>

\* A call of the factory returns; after the last one the adapters are replaced.
FactoryReturns(n, x) ==
  LET own == Head(building)
      got == [m \in DOMAIN own.got \cup {n} |-> IF m = n THEN x ELSE own.got[m]]
  IN /\ Top("register", Root, Root) /\ building # <<>>
     /\ n \in registered \ DOMAIN own.got
     /\ x \notin own.used
     /\ IF DOMAIN got = registered
        THEN /\ adapterOf' = [m \in Names |-> IF m \in registered THEN got[m] ELSE adapterOf[m]]
             /\ instances' = {got[m] : m \in registered}
             /\ custom' = TRUE
             /\ building' = Tail(building)
             /\ Pop
        ELSE /\ building' = Replacing(own.used \cup {x}, got) \o Tail(building)
             /\ UNCHANGED <<custom, adapterOf, instances, stack>>
     /\ UNCHANGED <<registryVars, spaceVars, admissionStarted, observerVars, attemptVars, microtasks>>

\* The factory throws, or returns an adapter that is in use: nothing is replaced.
FactoryFails ==
  /\ Top("register", Root, Root) /\ building # <<>>
  /\ building' = Tail(building)
  /\ Pop
  /\ UNCHANGED <<registryVars, spaceVars, custom, adapterOf, instances, admissionStarted,
                 observerVars, attemptVars, microtasks>>

-----------------------------------------------------------------------------
(* Connecting.                                                             *)

\* Server.connect, or another connect() of a client Socket.  A client that has no
\* namespace yet goes through the dynamic parents.
Connect(a) ==
  /\ state[a] = "unused"
  /\ admissionStarted' = TRUE
  /\ IF NameOf[a] \in registered
     THEN Becomes(a, "pending") /\ Defer("pair", a)
     ELSE \/ Becomes(a, "pending") /\ Defer("admit", a)
          \/ parents = <<>> /\ Becomes(a, "rejected") /\ UNCHANGED microtasks
  /\ UNCHANGED <<registryVars, spaceVars, custom, adapterOf, instances, building, observerVars, attached, admitted,
                 held, called, again, stack>>

\* connect(url) when the registry has no Server for the origin: FailedClientSocket.
ConnectMissing(a) ==
  /\ state[a] = "unused" /\ origin = "none"
  /\ Becomes(a, "rejected")
  /\ UNCHANGED <<registryVars, spaceVars, adapterVars, observerVars, attached,
                 admitted, held, called, again, runVars>>

\* continuePair up to the middleware chain; the extra Socket of an attempt that has
\* one is given up at once.
Pair(a, h) ==
  IF ~Pending(a) THEN held' = h /\ UNCHANGED <<state, attached>>
  ELSE IF NameOf[a] \in nsClosed THEN Becomes(a, "rejected") /\ held' = h /\ UNCHANGED attached
  ELSE IF a \in attached THEN held' = h /\ UNCHANGED <<state, attached>>
  ELSE /\ attached' = attached \cup {a}
       /\ held' = h \cup {Callback("next", a, 0)}
       /\ UNCHANGED state

RejectIfPending(a) == IF Pending(a) THEN Becomes(a, "rejected") ELSE UNCHANGED state

\* The parents from index i on: RegExp parents that do not match are passed over.
NextParent(i, n) ==
  CHOOSE j \in i..(Len(parents) + 1) :
    /\ j <= Len(parents) => parents[j] = Ask \/ n \in Matching[parents[j]]
    /\ \A k \in i..(j-1) : parents[k] # Ask /\ n \notin Matching[parents[k]]

\* The child exists: attach the client and pair.  Otherwise it is created, announced
\* by `new_namespace`, and the admission goes on when those listeners return.
Admit(a, h) ==
  \/ /\ NameOf[a] \in registered
     /\ Pair(a, h)
     /\ UNCHANGED <<spaceVars, adapterVars, waiters, dynamicWaiters, stack>>
  \/ /\ NameOf[a] \notin registered
     /\ Create(NameOf[a])
     /\ Push("admit", a, NameOf[a])
     /\ held' = h
     /\ UNCHANGED <<state, attached>>
  \/ /\ NameOf[a] \notin registered
     /\ CreateFails
     /\ RejectIfPending(a)
     /\ held' = h
     /\ UNCHANGED <<attached, stack>>

\* tryParent(i)
TryParent(a, i, h) ==
  LET j == NextParent(i, NameOf[a])
  IN IF j > Len(parents)
     THEN /\ RejectIfPending(a)
          /\ held' = h
          /\ UNCHANGED <<spaceVars, adapterVars, waiters, dynamicWaiters, attached, stack>>
     ELSE IF parents[j] = Ask
     THEN /\ held' = h \cup {Callback("match", a, j)}
          /\ UNCHANGED <<spaceVars, adapterVars, waiters, dynamicWaiters, state, attached, stack>>
     ELSE Admit(a, h)

\* The microtask of pair, up to resolveAuth.
RunPair(a) ==
  /\ Due("pair", a) /\ Consume
  /\ IF ~Pending(a) THEN UNCHANGED <<state, held>>
     ELSE IF NameOf[a] \in nsClosed THEN Becomes(a, "rejected") /\ UNCHANGED held
     ELSE held' = held \cup {Callback("auth", a, 0)} /\ UNCHANGED state
  /\ UNCHANGED <<registryVars, spaceVars, adapterVars, observerVars, attached,
                 admitted, called, again, stack>>

\* The microtask of admitDynamic, up to resolveAuth.
RunAdmit(a) ==
  /\ Due("admit", a) /\ Consume
  /\ held' = IF Pending(a) THEN held \cup {Callback("admitAuth", a, 0)} ELSE held
  /\ UNCHANGED <<registryVars, spaceVars, adapterVars, observerVars, state,
                 attached, admitted, called, again, stack>>

\* auth answers, for a registered Namespace ...
AnswerAuth(a) ==
  LET c == Callback("auth", a, 0)
  IN /\ Call(c)
     /\ Pair(a, held \ {c})
     /\ UNCHANGED <<registryVars, spaceVars, adapterVars, observerVars, admitted, runVars>>

\* ... and for a name that has to be admitted by a parent.
AnswerAdmitAuth(a) ==
  LET c == Callback("admitAuth", a, 0)
  IN /\ Call(c)
     /\ IF Pending(a) THEN TryParent(a, 1, held \ {c})
        ELSE /\ held' = held \ {c}
             /\ UNCHANGED <<spaceVars, adapterVars, waiters, dynamicWaiters, state, attached, stack>>
     /\ UNCHANGED <<registryVars, ready, result, admitted, microtasks>>

\* The function of parent i answers.
AnswerMatcher(a, i, allowed) ==
  LET c == Callback("match", a, i)
  IN /\ Call(c)
     /\ IF allowed THEN Admit(a, held \ {c}) ELSE TryParent(a, i + 1, held \ {c})
     /\ UNCHANGED <<registryVars, ready, result, admitted, microtasks>>

\* The `new_namespace` listeners return to admitDynamic.
ResumeAdmission(a) ==
  /\ Top("admit", a, NameOf[a])
  /\ Pop
  /\ Pair(a, held)
  /\ UNCHANGED <<registryVars, spaceVars, adapterVars, observerVars, admitted,
                 called, again, microtasks>>

\* The middleware chain completes, with or without an error.
CallNext(a, op) ==
  LET c == Callback("next", a, 0)
  IN /\ op \in {"accept", "refuse"}
     /\ Call(c)
     /\ held' = held \ {c}
     /\ Defer(op, a)
     /\ UNCHANGED <<registryVars, spaceVars, adapterVars, observerVars, state,
                    attached, admitted, stack>>

\* offer: the oldest observer gets the Socket, or it waits for one.
OfferLast(n, a) ==   \* mutant of Offer: the newest observer gets it
  IF waiters[n] = <<>>
  THEN ready' = [ready EXCEPT ![n] = Append(@, a)] /\ UNCHANGED <<waiters, result>>
  ELSE /\ result' = [result EXCEPT ![waiters[n][Len(waiters[n])]] = a]
       /\ waiters' = [waiters EXCEPT ![n] = SubSeq(@, 1, Len(@) - 1)]
       /\ UNCHANGED ready
Offer(n, a) ==
  IF waiters[n] = <<>>
  THEN ready' = [ready EXCEPT ![n] = Append(@, a)] /\ UNCHANGED <<waiters, result>>
  ELSE /\ result' = [result EXCEPT ![Head(waiters[n])] = a]
       /\ waiters' = [waiters EXCEPT ![n] = Tail(@)]
       /\ UNCHANGED ready

\* A completion without error: the attempt is admitted, offered, and announced by
\* `connection`, unless it is settled or the Namespace is closed.
RunAccept(a) ==
  /\ Due("accept", a) /\ Consume
  /\ IF Pending(a) /\ NameOf[a] \notin nsClosed
     THEN /\ admitted' = admitted \cup {a}
          /\ Offer(NameOf[a], a)
          /\ Push("handler", a, NameOf[a])
          /\ UNCHANGED state
     ELSE /\ RejectIfPending(a)
          /\ UNCHANGED <<admitted, ready, waiters, result, stack>>
  /\ UNCHANGED <<registryVars, spaceVars, adapterVars, dynamicWaiters, attached,
                 held, called, again>>

\* The `connection` handlers return: completeConnectionAttempt.
HandlerReturns(a) ==
  /\ Top("handler", a, NameOf[a])
  /\ Pop
  /\ IF Pending(a) THEN Becomes(a, "connected") ELSE UNCHANGED state
  /\ UNCHANGED <<registryVars, spaceVars, adapterVars, observerVars, attached,
                 admitted, held, called, again, microtasks>>

\* discardReady: a Socket is offered once, so that it has one place at most.
DiscardReady(n, a) ==
  \/ \E i \in DOMAIN ready[n] :
       /\ ready[n][i] = a
       /\ ready' = [ready EXCEPT ![n] = SubSeq(@, 1, i - 1) \o SubSeq(@, i + 1, Len(@))]
  \/ (\A i \in DOMAIN ready[n] : ready[n][i] # a) /\ UNCHANGED ready

\* A completion with an error; one after a completion without is reported to the client.
RunRefuse(a) ==
  /\ Due("refuse", a) /\ Consume
  /\ RejectIfPending(a)
  /\ IF state[a] = "connected" THEN DiscardReady(NameOf[a], a) ELSE UNCHANGED ready
  /\ UNCHANGED <<registryVars, spaceVars, adapterVars, waiters, dynamicWaiters,
                 result, attached, admitted, held, called, again, stack>>

\* The client cancels the attempt, or its connection ends (module Pairing).
Disconnect(a) ==
  /\ state[a] \in {"pending", "connected"}
  /\ Becomes(a, "cancelled")
  /\ UNCHANGED <<registryVars, spaceVars, adapterVars, observerVars, attached,
                 admitted, held, called, again, runVars>>

-----------------------------------------------------------------------------
(* Observing and closing.                                                  *)

\* Namespace.nextConnection
Claim(o, n) ==
  IF ready[n] # <<>>
  THEN /\ result' = [result EXCEPT ![o] = Head(ready[n])]
       /\ ready' = [ready EXCEPT ![n] = Tail(@)]
       /\ UNCHANGED waiters
  ELSE /\ result' = [result EXCEPT ![o] = "waiting"]
       /\ waiters' = [waiters EXCEPT ![n] = Append(@, o)]
       /\ UNCHANGED ready

\* The observer was called, but still waits for `new_namespace` listeners.
Entered(o) == \E i \in DOMAIN stack : stack[i].op = "observe" /\ stack[i].of = o

\* Server.nextConnection of a registered name, of a name that only function parents
\* may create, and of any other name, which it creates.
NextConnection(o, n) ==
  /\ result[o] = "new" /\ ~Entered(o)
  /\ \/ /\ closed
        /\ result' = [result EXCEPT ![o] = "refused"]
        /\ UNCHANGED <<spaceVars, adapterVars, ready, waiters, dynamicWaiters, stack>>
     \/ /\ ~closed /\ n \in registered
        /\ Claim(o, n)
        /\ UNCHANGED <<spaceVars, adapterVars, dynamicWaiters, stack>>
     \/ /\ ~closed /\ n \notin registered
        /\ ~MatchedByRegExp(n) /\ parents # <<>>
        /\ result' = [result EXCEPT ![o] = "waiting"]
        /\ dynamicWaiters' = [dynamicWaiters EXCEPT ![n] = Append(@, o)]
        /\ UNCHANGED <<spaceVars, adapterVars, ready, waiters, stack>>
     \/ /\ ~closed /\ n \notin registered
        /\ MatchedByRegExp(n) \/ parents = <<>>
        /\ Create(n)
        /\ Push("observe", o, n)
        /\ UNCHANGED <<ready, result>>
  /\ UNCHANGED <<registryVars, attemptVars, microtasks>>

\* The `new_namespace` listeners return to nextConnection, which looks at `closed` no more.
ResumeObservation(o, n) ==
  /\ Top("observe", o, n)
  /\ Pop
  /\ Claim(o, n)
  /\ UNCHANGED <<registryVars, spaceVars, adapterVars, dynamicWaiters, attemptVars,
                 microtasks>>

\* Another Server is constructed for the origin.
NewerServer ==
  /\ Successor
  /\ origin' = "newer"
  /\ UNCHANGED <<closed, spaceVars, adapterVars, observerVars, attemptVars, runVars>>

\* The first close().  The Sockets are torn down by microtasks (module Pairing).
CloseKeepsWaiters ==   \* mutant of Close: dynamicWaiters are forgotten
  /\ ~closed
  /\ closed' = TRUE
  /\ origin' = IF origin = "this" THEN "none" ELSE origin
  /\ nsClosed' = registered
  /\ ready' = [n \in Names |-> <<>>]
  /\ waiters' = [n \in Names |-> <<>>]
  /\ result' = [o \in Observers |->
                  IF \E n \in Names : \E i \in DOMAIN waiters[n] : waiters[n][i] = o
                  THEN "refused" ELSE result[o]]
  /\ UNCHANGED <<registered, parents, adapterVars, dynamicWaiters,
                 attemptVars, runVars>>
Close ==
  /\ ~closed
  /\ CloseWhenAnnounced \/ \A i \in DOMAIN stack : stack[i].op # "observe"
  /\ closed' = TRUE
  /\ origin' = IF origin = "this" THEN "none" ELSE origin
  /\ nsClosed' = registered
  /\ ready' = [n \in Names |-> <<>>]
  /\ waiters' = [n \in Names |-> <<>>]
  /\ dynamicWaiters' = [n \in Names |-> <<>>]
  /\ result' = [o \in Observers |-> IF result[o] = "waiting" THEN "refused" ELSE result[o]]
  /\ UNCHANGED <<registered, parents, adapterVars, attemptVars, runVars>>

-----------------------------------------------------------------------------
AppCall ==
  \/ \E n \in Names : Of(n)
  \/ \E m \in RegExps \cup {Ask} : OfParent(m)
  \/ RegisterAdapters
  \/ \E a \in Attempts :
       \/ Connect(a) \/ ConnectMissing(a) \/ Disconnect(a)
       \/ AnswerAuth(a) \/ AnswerAdmitAuth(a)
       \/ \E i \in 1..MaxParents, allowed \in BOOLEAN : AnswerMatcher(a, i, allowed)
       \/ \E op \in {"accept", "refuse"} : CallNext(a, op)
  \/ \E o \in Observers, n \in Names : NextConnection(o, n)
  \/ NewerServer \/ Close

CallbackReturns ==
  \/ \E a \in Attempts : HandlerReturns(a) \/ ResumeAdmission(a)
  \/ \E o \in Observers, n \in Names : ResumeObservation(o, n)
  \/ \E n \in Names, x \in Adapters : FactoryReturns(n, x)
  \/ FactoryFails

Microtask == \E a \in Attempts : RunPair(a) \/ RunAdmit(a) \/ RunAccept(a) \/ RunRefuse(a)

Next == AppCall \/ CallbackReturns \/ Microtask

Spec == Init /\ [][Next]_vars

-----------------------------------------------------------------------------
(* What the Server promises.                                               *)

\* The observers of a name, before and after the Namespace exists.
Waiting == [n \in Names |-> IF n \in registered THEN waiters[n] ELSE dynamicWaiters[n]]

Queue == INSTANCE ConnectionQueue WITH
           Sockets <- Attempts, waiting <- Waiting, offered <- admitted, over <- closed

\* The two queues of each Namespace and the observers kept by the Server behave as
\* one queue per name, whatever creates the Namespace meanwhile, however often the
\* chains and matchers answer, and whenever the Server closes (decision 0030).
QueueSpec == Queue!Spec

\* Exactly the Namespaces of a closed Server are closed, those that a late matcher or
\* of() creates afterwards included; a closed Server is not found by its origin, and
\* nobody waits on it or has a Socket offered to him.
ClosedIsFinal ==
  /\ nsClosed = IF closed THEN registered ELSE {}
  /\ closed => /\ origin # "this"
               /\ \A n \in Names : ready[n] = <<>> /\ waiters[n] = <<>> /\ dynamicWaiters[n] = <<>>

\* No two Namespaces share a custom adapter, whatever the application does in a
\* factory, and all of them have one once a factory is registered.
AdaptersAreIsolated ==
  /\ {adapterOf[n] : n \in registered} \ {BuiltIn} \subseteq instances
  /\ \A m, n \in registered : adapterOf[m] = adapterOf[n] => m = n \/ adapterOf[m] = BuiltIn
  /\ custom => \A n \in registered : adapterOf[n] # BuiltIn

ApiInv == TypeOK /\ ClosedIsFinal /\ AdaptersAreIsolated

\* A Namespace keeps its adapter, and with it the rooms, from the moment it has a
\* Socket, although adapter() may be half-way through its factories when the first
\* connect() is called and does not look at admissionStarted again.
AdapterIsKept ==
  [][\A a \in attached : adapterOf'[NameOf[a]] = adapterOf[NameOf[a]]]_vars

=============================================================================
