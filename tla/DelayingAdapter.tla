--------------------------- MODULE DelayingAdapter ---------------------------
(***************************************************************************)
(* The delivery queue DelayingAdapter (adapters.ts) keeps for one sid.      *)
(*                                                                         *)
(* Messages wait in a queue; only its head is scheduled, on the microtask   *)
(* queue when it is due and on the timer when it is not.  The scheduled     *)
(* function, a run, captures the queue and the head: it does nothing when   *)
(* the sid has another queue by then, or none.  Deliveries call listeners,  *)
(* which may send, change the delay and remove the socket; `stack` is what  *)
(* continues when they return.                                              *)
(***************************************************************************)
EXTENDS Integers, Sequences

CONSTANTS
  Delays,        \* the values setDelay is called with
  MaxTime,       \* bound: the clock
  MaxSends       \* bound: messages sent

ASSUME DelayAssumption ==
  /\ Delays \subseteq Int
  /\ MaxTime \in Nat
  /\ MaxSends \in Nat

VARIABLES
  now,           \* DeliveryTimer.now()
  delay,
  queue,         \* which queue the sid has; 0 is none
  entries,       \* what waits in it
  queues,        \* how many queues the sid has had
  runs,          \* the runs waiting in the microtask queue and in the timer
  scheduled,     \* the run removeSocket would cancel
  stack,
  removed,
  sent,          \* messages so far; they are numbered
  delivered      \* the message delivered last

vars == <<now, delay, queue, entries, queues, runs, scheduled, stack, removed, sent, delivered>>

Entries == [n : 1..MaxSends, fireAt : Nat]
Runs == [id : Nat, n : 1..MaxSends, fireAt : Nat, timed : BOOLEAN]
NoRun == [id |-> 0, n |-> 0, fireAt |-> 0, timed |-> FALSE]
Frames == [op : {"run"}, id : Nat] \cup [op : {"drain"}, rest : Seq(Entries), cancel : Runs \cup {NoRun}]

TypeOK ==
  /\ now \in Nat /\ delay \in Nat
  /\ queue \in Nat /\ queues \in Nat
  /\ entries \in Seq(Entries)
  /\ runs \subseteq Runs
  /\ scheduled \in Runs \cup {NoRun}
  /\ stack \in Seq(Frames)
  /\ removed \in BOOLEAN
  /\ sent \in 0..MaxSends
  /\ delivered \in 0..MaxSends

Init ==
  /\ now = 0 /\ delay = 0
  /\ queue = 0 /\ entries = <<>> /\ queues = 0
  /\ runs = {} /\ scheduled = NoRun
  /\ stack = <<>> /\ removed = FALSE
  /\ sent = 0 /\ delivered = 0

-----------------------------------------------------------------------------

\* Mutants: every entry is scheduled, not only the head; what is not due never is.
PumpEveryEntry(id, q) ==
  /\ queue' = id /\ entries' = q
  /\ runs' = runs \cup {[id |-> id, n |-> q[i].n, fireAt |-> q[i].fireAt,
                         timed |-> q[i].fireAt > now] : i \in DOMAIN q}
  /\ UNCHANGED scheduled
PumpDue(id, q) ==
  /\ queue' = (IF q = <<>> THEN 0 ELSE id) /\ entries' = q
  /\ runs' = runs \cup {[id |-> id, n |-> q[i].n, fireAt |-> q[i].fireAt, timed |-> FALSE] :
                         i \in {j \in DOMAIN q : j = 1 /\ q[j].fireAt <= now}}
  /\ UNCHANGED scheduled

\* pump() for queue id with entries q: schedule the head, or give the queue up.
Pump(id, q) ==
  /\ entries' = q
  /\ IF q = <<>>
     THEN queue' = 0 /\ UNCHANGED <<runs, scheduled>>
     ELSE LET run == [id |-> id, n |-> q[1].n, fireAt |-> q[1].fireAt,
                      timed |-> q[1].fireAt > now]
          IN /\ queue' = id
             /\ runs' = runs \cup {run}
             /\ scheduled' = IF run.timed THEN run ELSE scheduled

\* setDelay(sid, ms), for what is sent from now on.
SetDelay(d) ==
  /\ delay' = IF d <= 0 THEN 0 ELSE d
  /\ UNCHANGED <<now, queue, entries, queues, runs, scheduled, stack, removed, sent, delivered>>

\* scheduleDelivery(sid, deliver).
Schedule ==
  LET entry == [n |-> sent + 1, fireAt |-> now + delay]
  IN /\ sent < MaxSends
     /\ entry.fireAt <= MaxTime        \* bound: nothing is due after the clock stops
     /\ sent' = sent + 1
     /\ \/ /\ queue # 0
           /\ entries' = Append(entries, entry)
           /\ UNCHANGED <<queue, queues, runs, scheduled>>
        \/ /\ queue = 0
           /\ queues' = queues + 1
           /\ Pump(queues + 1, <<entry>>)
     /\ UNCHANGED <<now, delay, stack, removed, delivered>>

\* Mutant: only whether the sid has a queue is looked at.
StaleWhenGone(id) == queue = 0

\* The queue a run captured is no longer the queue of the sid.
Stale(id) == queue # id

\* A run: nothing when stale, else the head leaves the queue and is delivered.
Run(r) ==
  /\ stack = <<>>
  /\ r \in runs
  /\ r.timed => /\ now >= r.fireAt
                /\ \A other \in runs : other.timed   \* microtasks go first
  /\ runs' = runs \ {r}
  /\ IF Stale(r.id)
     THEN UNCHANGED <<entries, scheduled, stack, delivered>>
     ELSE /\ scheduled' = NoRun
          /\ entries' = Tail(entries)
          /\ delivered' = r.n
          /\ stack' = <<[op |-> "run", id |-> r.id]>>
  /\ UNCHANGED <<now, delay, queue, queues, removed, sent>>

\* The listeners of a run return: pump, unless the socket was removed.
RunReturns ==
  /\ stack # <<>> /\ Head(stack).op = "run"
  /\ stack' = Tail(stack)
  /\ IF Stale(Head(stack).id) THEN UNCHANGED <<queue, entries, runs, scheduled>>
     ELSE Pump(queue, entries)
  /\ UNCHANGED <<now, delay, queues, removed, sent, delivered>>

\* The end of removeSocket, which only a timer with cancel carries out.
Cancel(run) == runs' \in {runs, IF run.timed THEN runs \ {run} ELSE runs}

\* removeSocket(sid), which a socket calls once: the queue is detached, then drained.
RemoveSocket ==
  /\ ~removed
  /\ removed' = TRUE
  /\ delay' = 0
  /\ queue' = 0 /\ entries' = <<>>
  /\ scheduled' = NoRun
  /\ IF entries = <<>>
     THEN Cancel(scheduled) /\ UNCHANGED <<stack, delivered>>
     ELSE /\ delivered' = Head(entries).n
          /\ stack' = <<[op |-> "drain", rest |-> Tail(entries),
                         cancel |-> scheduled]>> \o stack
          /\ UNCHANGED runs
  /\ UNCHANGED <<now, queues, sent>>

\* The listeners of a drained message return: the next one, or the end.
DrainReturns ==
  LET f == Head(stack)
  IN /\ stack # <<>> /\ f.op = "drain"
     /\ \/ /\ f.rest # <<>>
           /\ delivered' = Head(f.rest).n
           /\ stack' = <<[f EXCEPT !.rest = Tail(@)]>> \o Tail(stack)
           /\ UNCHANGED runs
        \/ /\ f.rest = <<>>
           /\ stack' = Tail(stack)
           /\ Cancel(f.cancel)
           /\ UNCHANGED delivered
     /\ UNCHANGED <<now, delay, queue, entries, queues, scheduled, removed, sent>>

Tick ==
  /\ now < MaxTime
  /\ now' = now + 1
  /\ UNCHANGED <<delay, queue, entries, queues, runs, scheduled, stack, removed, sent, delivered>>

Application == (\E d \in Delays : SetDelay(d)) \/ Schedule \/ RemoveSocket
Library == (\E r \in runs : Run(r)) \/ RunReturns \/ DrainReturns

Next == Application \/ Library \/ Tick

Spec == Init /\ [][Next]_vars

\* Listeners return, microtasks run and time passes.
FairSpec == Spec /\ WF_vars(Library) /\ WF_vars(Tick)

-----------------------------------------------------------------------------
(* Properties.                                                             *)

\* What removeSocket has yet to deliver.
Draining ==
  IF stack # <<>> /\ Head(stack).op = "drain" THEN Head(stack).rest ELSE <<>>

Running(id) == \E i \in DOMAIN stack : stack[i].op = "run" /\ stack[i].id = id

\* Every message sent is delivered, being drained or queued, and in this order.
NothingLost ==
  LET waiting == Draining \o entries
  IN /\ sent = delivered + Len(waiting)
     /\ \A i \in DOMAIN waiting : waiting[i].n = delivered + i

\* A queue never waits for nothing: one run holds its head, or one is delivering from it,
\* and never two of them.
AlwaysPumped ==
  LET live == {r \in runs : r.id = queue}
  IN queue # 0 =>
       IF Running(queue) THEN live = {}
       ELSE \E r \in live : live = {r} /\ entries # <<>> /\ r.n = entries[1].n

\* The queue with its drain is one stream.
Stream == INSTANCE FifoStream
StreamSpec == Stream!Spec
EveryMessageArrives == Stream!FairSpec

=============================================================================
