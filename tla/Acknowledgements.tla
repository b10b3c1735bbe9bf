--------------------------- MODULE Acknowledgements ---------------------------
(***************************************************************************)
(* Emits that ask for an answer, between one ClientSocket and the Server-   *)
(* Sockets of its connections (sockets.ts, delivery.ts).                    *)
(*                                                                         *)
(* An emit has a callback or a promise, with or without timeout(ms), and is *)
(* settled by the answer, by its timer or, for the client, by disconnecting.*)
(* The client buffers what it emits unconnected and flushes it when it      *)
(* connects.  Outgoing observers run in the middle of an emit and of the    *)
(* flush, callbacks in the middle of the loop that rejects what a disconnect *)
(* leaves open; they may emit, connect and disconnect, and advance fake      *)
(* timers.  `stack` is what continues when they return.                     *)
(***************************************************************************)
EXTENDS Naturals, Sequences

CONSTANTS
  MaxConnections,   \* bound: attempts of the client; they are numbered, as are their Sockets
  MaxEmits          \* bound: emits, of both sides; they are numbered

ASSUME AcknowledgementAssumption == MaxConnections \in Nat /\ MaxEmits \in Nat

VARIABLES
  connected,        \* ClientSocket.connected
  serverSocket,     \* ClientSocket.serverSocket; 0 before the first connection
  attempt,          \* its pending connectionAttempt; 0 is none
  begun,            \* attempts so far
  attached,         \* the Sockets pairing has created
  accepted,         \* ... whose middleware has called next()
  receiving,        \* ... whose deliveryState is active
  serverAcks,       \* ... whose serverAcknowledgementState is active
  clientAcks,       \* ... whose clientAcknowledgementState is active
  active,
  torn,             \* ... whose teardownPromise is set
  msgs,             \* the emits, in order
  sendBuffer,
  pendingAcks,      \* the client's rejecters: of promises and of timed callbacks
  microtasks,
  stack

clientVars == <<connected, serverSocket, attempt, begun>>
serverVars == <<attached, accepted, receiving, serverAcks, clientAcks, active, torn>>
ackVars == <<msgs, sendBuffer, pendingAcks>>
vars == <<clientVars, serverVars, ackVars, microtasks, stack>>

Sockets == 1..MaxConnections
Emits == 1..MaxEmits
Messages ==
  [from : 0..MaxConnections,     \* the Socket that emitted it; 0 is the client
   form : {"callback", "promise"}, timed : BOOLEAN,
   place : {"dropped", "buffered", "observed", "interrupted", "queued", "lost", "held",
            "spent", "answered"},
   gen : 0..MaxConnections,      \* the Socket whose guards it captured
   result : {"none", "answer", "timeout", "disconnect"},
   again : {"none", "answer", "timeout", "disconnect"}]   \* what called the callback again
Tasks ==
  [op : {"pair", "accept", "teardown", "close", "leave"}, of : Sockets]
    \cup [op : {"deliver"}, of : Emits, kept : BOOLEAN] \cup [op : {"answer"}, of : Emits]
Rejecters == Emits \X {"promise", "timed"}
Frames ==
  [op : {"emit"}, of : Emits, was : BOOLEAN] \cup [op : {"flush"}, rest : Seq(Emits)]
    \cup [op : {"leaving"}] \cup [op : {"reject"}, rest : SUBSET Rejecters]

TypeOK ==
  /\ connected \in BOOLEAN
  /\ serverSocket \in {0} \cup attached
  /\ attempt \in 0..begun
  /\ begun \in 0..MaxConnections
  /\ attached \subseteq 1..begun
  /\ accepted \cup receiving \cup serverAcks \cup clientAcks \cup active \cup torn \subseteq attached
  /\ msgs \in Seq(Messages) /\ Len(msgs) <= MaxEmits
  /\ sendBuffer \in Seq(DOMAIN msgs)
  /\ pendingAcks \subseteq (DOMAIN msgs) \X {"promise", "timed"}
  /\ microtasks \in Seq(Tasks)
  /\ stack \in Seq(Frames)

Init ==
  /\ connected = FALSE /\ serverSocket = 0 /\ attempt = 0 /\ begun = 0
  /\ attached = {} /\ accepted = {} /\ receiving = {} /\ serverAcks = {} /\ clientAcks = {}
  /\ active = {} /\ torn = {}
  /\ msgs = <<>> /\ sendBuffer = <<>> /\ pendingAcks = {}
  /\ microtasks = <<>> /\ stack = <<>>

-----------------------------------------------------------------------------
(* What several operations share.                                          *)

\* What a sequence has of a set, in its order.
Kept(q, S) ==
  LET kept[n \in 0..Len(q)] ==
        IF n = 0 THEN <<>> ELSE IF q[n] \in S THEN Append(kept[n - 1], q[n]) ELSE kept[n - 1]
  IN kept[Len(q)]

\* Microtasks run in order, and only when no code is running.
Defer(task) == microtasks' = Append(microtasks, task)
Due(op) == stack = <<>> /\ microtasks # <<>> /\ Head(microtasks).op = op
Task == Head(microtasks)

\* The Socket the client's guards refer to: connectionAttempt?.serverSocket ?? serverSocket.
Owner == IF attempt \in attached THEN attempt ELSE serverSocket

\* A callback is called whenever it is settled, a promise only the first time.
Settle(m, how) ==
  IF m.result = "none" THEN [m EXCEPT !.result = how]
                       ELSE [m EXCEPT !.again = IF m.form = "callback" THEN how ELSE @]

\* withAckTimeout's `settled`: with timeout(ms), whatever settled the emit.
IsSettled(e) == msgs[e].timed /\ msgs[e].result # "none"

\* What settling takes out of pendingAcks: a timed promise leaves its timed entry there.
Forget(e) == pendingAcks \ {<<e, IF msgs[e].form = "promise" THEN "promise" ELSE "timed">>}

\* cleanupConnectionAttempt and the synchronous end of a teardown.
Invalidate(s) ==
  /\ receiving' = receiving \ {s}
  /\ serverAcks' = serverAcks \ {s}
  /\ clientAcks' = clientAcks \ {s}
  /\ active' = active \ {s}

-----------------------------------------------------------------------------
(* Emitting.                                                               *)

Message(from, form, timed, place) ==
  [from |-> from, form |-> form, timed |-> timed, place |-> place, gen |-> 0,
   result |-> "none", again |-> "none"]

\* ClientSocket.emit and emitWithAck: dropped, buffered, or shown to the observers first.
ClientEmit(form, timed, volatile) ==
  LET e == Len(msgs) + 1
      place == IF connected THEN "observed" ELSE IF volatile THEN "dropped" ELSE "buffered"
  IN /\ Len(msgs) < MaxEmits
     /\ msgs' = Append(msgs, Message(0, form, timed, place))
     /\ sendBuffer' = IF place = "buffered" THEN Append(sendBuffer, e) ELSE sendBuffer
     /\ pendingAcks' = pendingAcks
          \cup (IF form = "promise" THEN {<<e, "promise">>} ELSE {})
          \cup (IF timed /\ connected THEN {<<e, "timed">>} ELSE {})
     /\ stack' = IF connected THEN <<[op |-> "emit", of |-> e, was |-> TRUE]>> \o stack ELSE stack
     /\ UNCHANGED <<clientVars, serverVars, microtasks>>

\* ServerSocket.emit and emitWithAck.
ServerEmit(s, form, timed, volatile) ==
  LET e == Len(msgs) + 1
      place == IF volatile /\ ~connected THEN "dropped" ELSE "observed"
  IN /\ Len(msgs) < MaxEmits
     /\ s \in attached
     /\ msgs' = Append(msgs, Message(s, form, timed, place))
     /\ stack' = IF place = "dropped" THEN stack
                 ELSE <<[op |-> "emit", of |-> e, was |-> connected]>> \o stack
     /\ UNCHANGED <<clientVars, serverVars, sendBuffer, pendingAcks, microtasks>>

\* The observers of a client emit return.  A promise that was to be rejected in the
\* meantime is rejected now.
ClientSends ==
  LET f == Head(stack)  e == f.of
      sent == [msgs[e] EXCEPT !.place = "queued", !.gen = serverSocket]
  IN /\ stack # <<>> /\ f.op = "emit" /\ msgs[e].from = 0
     /\ msgs' = [msgs EXCEPT ![e] =
                   IF msgs[e].place = "interrupted" THEN Settle(sent, "disconnect") ELSE sent]
     /\ Defer([op |-> "deliver", of |-> e, kept |-> FALSE])
     /\ stack' = Tail(stack)
     /\ UNCHANGED <<clientVars, serverVars, sendBuffer, pendingAcks>>

\* The observers of a server emit return.  An emit whose observers ended the client's
\* connection is still delivered (`kept`).
ServerSends ==
  LET f == Head(stack)  e == f.of
  IN /\ stack # <<>> /\ f.op = "emit" /\ msgs[e].from # 0
     /\ \/ /\ msgs[e].from \in active
           /\ msgs' = [msgs EXCEPT ![e].place = "queued", ![e].gen = Owner]
           /\ Defer([op |-> "deliver", of |-> e, kept |-> f.was /\ ~connected])
        \/ /\ msgs[e].from \notin active
           /\ msgs' = [msgs EXCEPT ![e].place = "lost"]
           /\ UNCHANGED microtasks
     /\ stack' = Tail(stack)
     /\ UNCHANGED <<clientVars, serverVars, sendBuffer, pendingAcks>>

-----------------------------------------------------------------------------
(* Delivering and answering.                                               *)

Delivered(e, kept) ==
  IF msgs[e].from = 0 THEN msgs[e].gen \in receiving
  ELSE IF kept THEN Owner = msgs[e].from ELSE connected /\ Owner = msgs[e].gen

\* The receiver's listeners get the acknowledgement function, if its guard lets them.
RunDeliver ==
  /\ Due("deliver")
  /\ msgs' = [msgs EXCEPT ![Task.of].place = IF Delivered(Task.of, Task.kept) THEN "held" ELSE "lost"]
  /\ microtasks' = Tail(microtasks)
  /\ UNCHANGED <<clientVars, serverVars, sendBuffer, pendingAcks, stack>>

Held(e) == e \in DOMAIN msgs /\ msgs[e].place = "held"

\* Mutant: the function can be called again.
AnswerAgain(e) ==
  /\ Held(e) /\ msgs[e].from = 0
  /\ msgs[e].gen \in serverAcks
  /\ Len(microtasks) < 2
  /\ Defer([op |-> "answer", of |-> e])
  /\ UNCHANGED <<clientVars, serverVars, ackVars, stack>>

\* The server answers a client.  (An answer that cannot be encoded changes nothing.)
ServerAnswers(e) ==
  /\ Held(e) /\ msgs[e].from = 0
  /\ msgs[e].gen \in serverAcks
  /\ msgs' = [msgs EXCEPT ![e].place = "answered"]
  /\ Defer([op |-> "answer", of |-> e])
  /\ UNCHANGED <<clientVars, serverVars, sendBuffer, pendingAcks, stack>>

\* The client answers a Socket; one answer that cannot be encoded uses the function up.
ClientAnswers(e) ==
  /\ Held(e) /\ msgs[e].from # 0
  /\ msgs[e].gen \in clientAcks
  /\ \/ /\ msgs' = [msgs EXCEPT ![e].place = "answered"]
        /\ Defer([op |-> "answer", of |-> e])
     \/ /\ msgs' = [msgs EXCEPT ![e].place = "spent"]
        /\ UNCHANGED microtasks
  /\ UNCHANGED <<clientVars, serverVars, sendBuffer, pendingAcks, stack>>

\* The answer reaches the sender, who ignores it when the timer or a disconnect was first.
RunAnswer ==
  LET e == Task.of
  IN /\ Due("answer")
     /\ IF IsSettled(e) THEN UNCHANGED <<msgs, pendingAcks>>
        ELSE /\ msgs' = [msgs EXCEPT ![e] = Settle(@, "answer")]
             /\ pendingAcks' = Forget(e)
     /\ microtasks' = Tail(microtasks)
     /\ UNCHANGED <<clientVars, serverVars, sendBuffer, stack>>

\* Mutant: what expires in the buffer stays there.
TimeoutKeeps(e) ==
  /\ e \in DOMAIN msgs /\ msgs[e].timed /\ ~IsSettled(e)
  /\ msgs' = [msgs EXCEPT ![e] = Settle(@, "timeout")]
  /\ pendingAcks' = Forget(e)
  /\ UNCHANGED <<clientVars, serverVars, sendBuffer, microtasks, stack>>

\* The timer of an emit fires, at any time (timers may be fake ones that listeners advance).
Timeout(e) ==
  /\ e \in DOMAIN msgs /\ msgs[e].timed /\ ~IsSettled(e)
  /\ msgs' = [msgs EXCEPT ![e] = Settle(@, "timeout")]
  /\ pendingAcks' = Forget(e)
  /\ sendBuffer' = Kept(sendBuffer, DOMAIN msgs \ {e})
  /\ UNCHANGED <<clientVars, serverVars, microtasks, stack>>

-----------------------------------------------------------------------------
(* Connecting.                                                             *)

\* ClientSocket.connect, as far as the attempt it begins.
Connect ==
  /\ ~connected /\ attempt = 0
  /\ begun < MaxConnections
  /\ begun' = begun + 1 /\ attempt' = begun + 1
  /\ Defer([op |-> "pair", of |-> begun + 1])
  /\ UNCHANGED <<connected, serverSocket, serverVars, ackVars, stack>>

\* continuePair: the attempt gets its Socket, unless it was cancelled.
RunPair ==
  LET new == IF attempt = Task.of THEN {attempt} ELSE {}
  IN /\ Due("pair")
     /\ microtasks' = Tail(microtasks)
     /\ attached' = attached \cup new
     /\ receiving' = receiving \cup new
     /\ serverAcks' = serverAcks \cup new
     /\ clientAcks' = clientAcks \cup new
     /\ active' = active \cup new
     /\ UNCHANGED <<clientVars, accepted, torn, ackVars, stack>>

\* The last middleware calls next().
Admit(s) ==
  /\ s \in attached \ accepted
  /\ accepted' = accepted \cup {s}
  /\ Defer([op |-> "accept", of |-> s])
  /\ UNCHANGED <<clientVars, attached, receiving, serverAcks, clientAcks, active, torn, ackVars,
                 stack>>

\* Mutant: what is flushed is not tracked.
FlushUntracked(rest, below, tracked) ==
  LET unsettled == {i \in DOMAIN rest : ~IsSettled(rest[i])}
      next == CHOOSE i \in unsettled : \A j \in unsettled : i <= j
  IN /\ stack' = (IF unsettled = {} THEN <<>>
                  ELSE <<[op |-> "flush", rest |-> SubSeq(rest, next, Len(rest))]>>) \o below
     /\ pendingAcks' = tracked

\* The flush comes to the next packet that is not settled, tracks it and shows it to the
\* observers.  (What is settled later is skipped later.)
FlushFrom(rest, below, tracked) ==
  LET unsettled == {i \in DOMAIN rest : ~IsSettled(rest[i])}
      next == CHOOSE i \in unsettled : \A j \in unsettled : i <= j
  IN IF unsettled = {}
     THEN stack' = below /\ pendingAcks' = tracked
     ELSE /\ stack' = <<[op |-> "flush", rest |-> SubSeq(rest, next, Len(rest))]>> \o below
          /\ pendingAcks' = tracked \cup (IF msgs[rest[next]].timed THEN {<<rest[next], "timed">>}
                                                                    ELSE {})

\* completeConnectionAttempt, unless the attempt was cancelled.
RunAccept ==
  /\ Due("accept")
  /\ microtasks' = Tail(microtasks)
  /\ IF attempt = Task.of
     THEN /\ connected' = TRUE /\ serverSocket' = attempt /\ attempt' = 0
          /\ sendBuffer' = <<>>
          /\ FlushFrom(sendBuffer, stack, pendingAcks)
          /\ UNCHANGED <<receiving, serverAcks, clientAcks, active>>
     ELSE /\ Invalidate(Task.of)
          /\ UNCHANGED <<connected, serverSocket, attempt, sendBuffer, pendingAcks, stack>>
  /\ UNCHANGED <<begun, attached, accepted, torn, msgs>>

\* The observers of a flushed packet return, and it is sent.
FlushSends ==
  LET rest == Head(stack).rest  e == Head(rest)
  IN /\ stack # <<>> /\ Head(stack).op = "flush"
     /\ connected
     /\ msgs' = [msgs EXCEPT ![e].place = "queued", ![e].gen = serverSocket]
     /\ Defer([op |-> "deliver", of |-> e, kept |-> FALSE])
     /\ FlushFrom(Tail(rest), Tail(stack), pendingAcks)
     /\ UNCHANGED <<clientVars, serverVars, sendBuffer>>

\* Mutant: what was emitted in the meantime goes first.
FlushRestoresLast ==
  LET unsent == Kept(Head(stack).rest, {e \in DOMAIN msgs : ~IsSettled(e)})
  IN /\ stack # <<>> /\ Head(stack).op = "flush"
     /\ ~connected
     /\ sendBuffer' = sendBuffer \o unsent
     /\ stack' = Tail(stack)
     /\ UNCHANGED <<clientVars, serverVars, msgs, pendingAcks, microtasks>>

\* ... or they disconnected: it goes back into the buffer with those behind it.
FlushRestores ==
  LET unsent == Kept(Head(stack).rest, {e \in DOMAIN msgs : ~IsSettled(e)})
  IN /\ stack # <<>> /\ Head(stack).op = "flush"
     /\ ~connected
     /\ sendBuffer' = unsent \o sendBuffer
     /\ stack' = Tail(stack)
     /\ UNCHANGED <<clientVars, serverVars, msgs, pendingAcks, microtasks>>

-----------------------------------------------------------------------------
(* Disconnecting.                                                          *)

\* The rejecters that are called settle an emit, but that of a promise whose observers are
\* running only leaves the reason.
Settles(called, e) ==
  \/ <<e, "timed">> \in called
  \/ <<e, "promise">> \in called /\ msgs[e].place # "observed"
Rejected(called, e) ==
  IF Settles(called, e) THEN Settle(msgs[e], "disconnect")
  ELSE IF <<e, "promise">> \in called /\ ~msgs[e].timed
       THEN [msgs[e] EXCEPT !.place = "interrupted"]
       ELSE msgs[e]

\* The loop over the rejecters (`rest`, in any order) as far as the next one that calls the
\* application, a callback's; the loop goes on when that returns.
RejectFrom(rest, below) ==
  \E called \in SUBSET rest :
    LET callbacks == {r \in called : msgs[r[1]].form = "callback"}
        unsent == {e \in DOMAIN msgs : ~(msgs[e].timed /\ Settles(called, e))}
    IN /\ \/ callbacks = {} /\ called = rest /\ stack' = below
          \/ /\ \E r \in callbacks : callbacks = {r}
             /\ stack' = <<[op |-> "reject", rest |-> rest \ called]>> \o below
       /\ msgs' = [e \in DOMAIN msgs |-> Rejected(called, e)]
       /\ sendBuffer' = Kept(sendBuffer, unsent)

\* Mutant: the guards of the acknowledgements stay open.
MarkWithoutAcks(below) ==
  /\ connected' = FALSE
  /\ UNCHANGED <<serverAcks, clientAcks>>
  /\ pendingAcks' = {}
  /\ RejectFrom(pendingAcks, below)

\* markDisconnected, up to the `disconnect` event; `below` is what comes after it.
MarkDisconnected(below) ==
  /\ connected' = FALSE
  /\ serverAcks' = serverAcks \ {serverSocket}
  /\ clientAcks' = clientAcks \ {serverSocket}
  /\ pendingAcks' = {}
  /\ RejectFrom(pendingAcks, below)

\* ... the callback of a rejecter returns.
RejectReturns ==
  /\ stack # <<>> /\ Head(stack).op = "reject"
  /\ RejectFrom(Head(stack).rest, Tail(stack))
  /\ UNCHANGED <<clientVars, serverVars, pendingAcks, microtasks>>

\* ClientSocket.disconnect; its listeners run before handleDisconnect.
Disconnect ==
  /\ connected
  /\ MarkDisconnected(<<[op |-> "leaving"]>> \o stack)
  /\ UNCHANGED <<serverSocket, attempt, begun, attached, accepted, receiving, active, torn,
                 microtasks>>

\* teardown: once, and later.  A client that leaves inside a listener of the Socket lets it
\* drain what was queued before.
Teardown(s, task, drain) ==
  IF s \in torn THEN UNCHANGED <<torn, receiving, clientAcks, microtasks>>
  ELSE /\ torn' = torn \cup {s}
       /\ receiving' = IF drain THEN receiving ELSE receiving \ {s}
       /\ clientAcks' = IF drain THEN clientAcks ELSE clientAcks \ {s}
       /\ Defer([op |-> task, of |-> s])

\* ... handleDisconnect, inside a listener of the Socket (drain) or not.
LeavingReturns(drain) ==
  /\ stack # <<>> /\ Head(stack).op = "leaving"
  /\ stack' = Tail(stack)
  /\ Teardown(serverSocket, "teardown", drain)
  /\ UNCHANGED <<clientVars, attached, accepted, serverAcks, active, ackVars>>

\* Disconnecting while the attempt is pending: it is cancelled, its Socket discarded.
CancelAttempt ==
  /\ ~connected /\ attempt # 0
  /\ attempt' = 0
  /\ Invalidate(attempt)
  /\ UNCHANGED <<connected, serverSocket, begun, attached, accepted, torn, ackVars, microtasks,
                 stack>>

\* ServerSocket.disconnect of the Socket the client was connected to last.
ServerDisconnect ==
  /\ serverSocket # 0 /\ serverSocket \notin torn
  /\ torn' = torn \cup {serverSocket}
  /\ Invalidate(serverSocket)
  /\ Defer([op |-> "leave", of |-> serverSocket])
  /\ UNCHANGED <<clientVars, attached, accepted, ackVars, stack>>

\* ServerSocket.closeFromServer: the client is told when the teardown is done.
CloseFromServer ==
  /\ serverSocket # 0 /\ serverSocket \notin torn
  /\ Teardown(serverSocket, "close", FALSE)
  /\ UNCHANGED <<clientVars, attached, accepted, serverAcks, active, ackVars, stack>>

\* The deferred teardown.
RunTeardown ==
  /\ Due("teardown") \/ Due("close")
  /\ Invalidate(Task.of)
  /\ microtasks' = Tail(microtasks) \o
       (IF Task.op = "close" THEN <<[op |-> "leave", of |-> Task.of]>> ELSE <<>>)
  /\ UNCHANGED <<clientVars, attached, accepted, torn, ackVars, stack>>

\* The client is told that the server ended the connection, if it is connected.
RunLeave ==
  /\ Due("leave")
  /\ microtasks' = Tail(microtasks)
  /\ IF connected THEN MarkDisconnected(stack)
     ELSE UNCHANGED <<connected, serverAcks, clientAcks, ackVars, stack>>
  /\ UNCHANGED <<serverSocket, attempt, begun, attached, accepted, receiving, active, torn>>

-----------------------------------------------------------------------------
Application ==
  \/ \E form \in {"callback", "promise"}, timed, volatile \in BOOLEAN :
       ClientEmit(form, timed, volatile) \/ \E s \in Sockets : ServerEmit(s, form, timed, volatile)
  \/ \E e \in Emits : ServerAnswers(e) \/ ClientAnswers(e)
  \/ \E s \in Sockets : Admit(s)
  \/ Connect \/ Disconnect \/ CancelAttempt \/ ServerDisconnect \/ CloseFromServer

CallbackReturns ==
  ClientSends \/ ServerSends \/ FlushSends \/ FlushRestores \/ RejectReturns
    \/ \E drain \in BOOLEAN : LeavingReturns(drain)

Microtask == RunPair \/ RunAccept \/ RunDeliver \/ RunAnswer \/ RunTeardown \/ RunLeave

Next == Application \/ CallbackReturns \/ Microtask \/ \E e \in Emits : Timeout(e)

Spec == Init /\ [][Next]_vars

-----------------------------------------------------------------------------
(* Properties.                                                             *)

Pending(e) == msgs[e].result = "none"

\* The rejecters that the loop of a disconnect has still to call.
Unrejected == UNION {stack[i].rest : i \in {j \in DOMAIN stack : stack[j].op = "reject"}}

\* Whoever comes first of answer, timer and disconnect settles an emit, and its callback is
\* not called again.  Decision 0012 says so, but a rejecter does not ask whether its emit is
\* settled: a callback that advances fake timers inside the loop makes the loop call the
\* callback of an emit that has just expired.
CallbackOnce == \A e \in DOMAIN msgs : msgs[e].again = "none"

\* ... and this is the only way: an answer or a timer never calls a callback again, and a
\* disconnect only that of an emit that expired while its loop had the rejecter left.
OnlyTheLoopCallsAgain ==
  [][\A e \in DOMAIN msgs :
       msgs'[e].again # msgs[e].again =>
         /\ msgs'[e].again = "disconnect" /\ msgs[e].result = "timeout"
         /\ ~connected /\ Head(stack).op = "reject" /\ <<e, "timed">> \in Head(stack).rest]_vars

\* What the client sent on a connection that is over is settled, or about to be in the loop
\* of the disconnect, unless it is a callback without timeout, which has nobody to tell
\* (decision 0012).
DeadConnectionSettles ==
  \A e \in DOMAIN msgs :
    /\ msgs[e].from = 0 /\ msgs[e].gen # 0
    /\ msgs[e].timed \/ msgs[e].form = "promise"
    /\ Pending(e)
    => \/ connected /\ msgs[e].gen = serverSocket
       \/ \E kind \in {"promise", "timed"} : <<e, kind>> \in Unrejected

\* A timed emit that is settled is not in the buffer: no later connection sends it.
ExpiredIsNotResent == \A i \in DOMAIN sendBuffer : msgs[sendBuffer[i]].timed => Pending(sendBuffer[i])

\* ... which decision 0012 says of every packet a teardown settled.
SettledIsNotResent == \A i \in DOMAIN sendBuffer : Pending(sendBuffer[i])

\* An interrupted flush puts back what it did not send: the buffer keeps the order of the
\* emits, without sending one twice.
BufferInOrder == \A i, j \in DOMAIN sendBuffer : i < j => sendBuffer[i] < sendBuffer[j]

\* The buffer that an interrupted flush leaves to the next connection, in both respects.
FlushKeepsTheRest == TypeOK /\ BufferInOrder /\ ExpiredIsNotResent

\* An acknowledgement function is dead once its connection is over, on either side, even
\* while a receiver the client has left still drains what was queued, and none is revived
\* by connecting again.
AnswersNeedTheConnection ==
  [][\A e \in DOMAIN msgs :
       msgs[e].place = "held" /\ msgs'[e].place = "answered" =>
         /\ connected /\ serverSocket = msgs[e].gen
         /\ msgs[e].from # 0 => msgs[e].gen \notin torn]_vars

=============================================================================
