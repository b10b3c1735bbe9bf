----------------------- MODULE DelayingAdapterProofs -----------------------
(***************************************************************************)
(* DelayingAdapter implements FifoStream, for every set of delays, every     *)
(* clock and every number of messages.                                      *)
(***************************************************************************)
EXTENDS DelayingAdapter, SequenceTheorems, TLAPS

\* The stack holds at most a drain above a run, and a drain follows the removal.
StackShape ==
  \A i \in 1..Len(stack) :
    /\ stack[i].op = "drain" => i = 1 /\ removed
    /\ stack[i].op = "run" => i = Len(stack)

\* NothingLost, with the drain and the queue apart.
Contiguous ==
  /\ sent = delivered + Len(Draining) + Len(entries)
  /\ \A i \in 1..Len(Draining) : Draining[i].n = delivered + i
  /\ \A i \in 1..Len(entries) : entries[i].n = delivered + Len(Draining) + i

\* A queue is never seen again once the sid has another: nothing names a later one.
Known ==
  /\ queue <= queues
  /\ queue = 0 => entries = <<>>
  /\ \A r \in runs : r.id \in 1..queues
  /\ \A i \in 1..Len(stack) : stack[i].op = "run" => stack[i].id \in 1..queues
  /\ \A i \in 1..Len(stack) : stack[i].op = "drain" =>
       stack[i].cancel.id <= queues /\ (queue # 0 => stack[i].cancel.id # queue)
  /\ scheduled = NoRun \/ (scheduled.id = queue /\ queue # 0)

\* At most one run of the queue waits, for its head, and none while one is delivering.
OneRun ==
  /\ \A r, s \in runs : r.id = queue /\ s.id = queue => r = s
  /\ \A r \in runs : r.id = queue =>
       entries # <<>> /\ r.n = entries[1].n /\ ~Running(queue)
  /\ Running(queue) => scheduled = NoRun
  /\ queue # 0 /\ ~Running(queue) => \E r \in runs : r.id = queue

StreamInv == TypeOK /\ StackShape /\ Contiguous /\ Known /\ OneRun

-----------------------------------------------------------------------------

LEMMA TailOfOne ==
  ASSUME NEW S, NEW s \in Seq(S), Len(s) = 1
  PROVE  Tail(s) = <<>>
<1>1. Tail(s) \in Seq(S) /\ Len(Tail(s)) = 0
  OBVIOUS
<1> QED
  BY <1>1, EmptySeq

LEMMA DrainingType == TypeOK => Draining \in Seq(Entries) /\ Len(Draining) \in Nat
<1> SUFFICES ASSUME TypeOK PROVE Draining \in Seq(Entries)
  OBVIOUS
<1>1. CASE stack # <<>> /\ Head(stack).op = "drain"
  <2>1. Head(stack) \in Frames
    BY <1>1 DEF TypeOK
  <2> QED
    BY <1>1, <2>1 DEF Draining, Frames
<1>2. CASE ~(stack # <<>> /\ Head(stack).op = "drain")
  BY <1>2 DEF Draining
<1> QED
  BY <1>1, <1>2

\* What pump does to a queue whose head is not yet scheduled.
LEMMA PumpSchedules ==
  ASSUME NEW id \in Nat, NEW q \in Seq(Entries), Pump(id, q), TypeOK
  PROVE  /\ entries' = q
         /\ q = <<>> => queue' = 0 /\ runs' = runs /\ scheduled' = scheduled
         /\ q # <<>> =>
              /\ queue' = id
              /\ \E run \in Runs :
                   /\ run.id = id /\ run.n = q[1].n
                   /\ runs' = runs \cup {run}
                   /\ scheduled' \in {run, scheduled}
<1>1. CASE q = <<>>
  BY <1>1 DEF Pump
<1>2. CASE q # <<>>
  <2>1. q[1] \in Entries
    BY <1>2
  <2> DEFINE run == [id |-> id, n |-> q[1].n, fireAt |-> q[1].fireAt,
                     timed |-> q[1].fireAt > now]
  <2>2. run \in Runs
    BY <2>1 DEF Runs, Entries
  <2>3. entries' = q /\ queue' = id /\ runs' = runs \cup {run} /\ scheduled' \in {run, scheduled}
    BY <1>2 DEF Pump
  <2>4. run.id = id /\ run.n = q[1].n
    OBVIOUS
  <2> QED
    BY <1>2, <2>2, <2>3, <2>4
<1> QED
  BY <1>1, <1>2

-----------------------------------------------------------------------------
(* The invariant: one lemma per action.                                    *)

LEMMA InitStream == DelayAssumption /\ Init => StreamInv
<1> SUFFICES ASSUME DelayAssumption, Init PROVE StreamInv
  OBVIOUS
<1>1. stack = <<>> /\ Len(stack) = 0 /\ Len(entries) = 0 /\ queue = 0 /\ queues = 0
  BY DEF Init
<1>2. TypeOK
  <2>1. <<>> \in Seq(Entries) /\ <<>> \in Seq(Frames)
    OBVIOUS
  <2>2. 0 \in 0..MaxSends
    BY DEF DelayAssumption
  <2> QED
    BY <2>1, <2>2 DEF Init, TypeOK
<1>3. StackShape /\ Known
  BY <1>1 DEF Init, StackShape, Known
<1>4. Draining = <<>> /\ Len(Draining) = 0
  BY <1>1 DEF Draining
<1>5. Contiguous
  BY <1>1, <1>4 DEF Init, Contiguous
<1>6. OneRun
  BY <1>1 DEF Init, OneRun, Running
<1> QED
  BY <1>2, <1>3, <1>5, <1>6 DEF StreamInv

LEMMA SetDelayStream ==
  ASSUME DelayAssumption, StreamInv, NEW d \in Delays, SetDelay(d)
  PROVE  StreamInv'
<1> USE DEF StreamInv
<1>1. TypeOK'
  BY DEF TypeOK, SetDelay, DelayAssumption
<1>2. StackShape' /\ Contiguous' /\ Known'
  BY DEF StackShape, Contiguous, Known, Draining, SetDelay
<1>3. OneRun'
  BY DEF OneRun, Running, SetDelay
<1> QED
  BY <1>1, <1>2, <1>3

LEMMA TickStream ==
  ASSUME DelayAssumption, StreamInv, Tick
  PROVE  StreamInv'
<1> USE DEF StreamInv
<1>1. TypeOK'
  BY DEF TypeOK, Tick
<1>2. StackShape' /\ Contiguous' /\ Known'
  BY DEF StackShape, Contiguous, Known, Draining, Tick
<1>3. OneRun'
  BY DEF OneRun, Running, Tick
<1> QED
  BY <1>1, <1>2, <1>3

LEMMA ScheduleStream ==
  ASSUME DelayAssumption, StreamInv, Schedule
  PROVE  StreamInv'
<1> USE DEF StreamInv
<1>1. PICK entry \in Entries :
        /\ entry.n = sent + 1
        /\ queue # 0 => /\ entries' = Append(entries, entry)
                        /\ UNCHANGED <<queue, queues, runs, scheduled>>
        /\ queue = 0 => queues' = queues + 1 /\ Pump(queues + 1, <<entry>>)
  <2> DEFINE entry == [n |-> sent + 1, fireAt |-> now + delay]
  <2>1. entry \in Entries /\ entry.n = sent + 1
    BY DEF Schedule, TypeOK, Entries, DelayAssumption
  <2>2. /\ queue # 0 => /\ entries' = Append(entries, entry)
                        /\ UNCHANGED <<queue, queues, runs, scheduled>>
        /\ queue = 0 => queues' = queues + 1 /\ Pump(queues + 1, <<entry>>)
    BY DEF Schedule
  <2> QED
    BY <2>1, <2>2
<1>2. /\ sent' = sent + 1 /\ sent' \in 0..MaxSends
      /\ UNCHANGED <<now, delay, stack, removed, delivered>>
  BY DEF Schedule, TypeOK, DelayAssumption
<1>3. Draining' = Draining /\ StackShape'
  BY <1>2 DEF Draining, StackShape
<1>4. /\ entries \in Seq(Entries) /\ Len(entries) \in Nat /\ queues \in Nat
      /\ sent \in Nat /\ delivered \in Nat /\ Len(Draining) \in Nat
  BY DrainingType DEF TypeOK, DelayAssumption
<1>5. CASE queue # 0
  <2>1. entries' = Append(entries, entry) /\ UNCHANGED <<queue, queues, runs, scheduled>>
    BY <1>1, <1>5
  <2>2. TypeOK'
    BY <1>2, <1>4, <2>1 DEF TypeOK
  <2>3. /\ Len(entries') = Len(entries) + 1
        /\ \A i \in 1..Len(entries) : entries'[i] = entries[i]
        /\ entries'[Len(entries) + 1] = entry
    BY <1>4, <2>1
  <2>4. Contiguous'
    <3>1. sent = delivered + Len(Draining) + Len(entries)
      BY DEF Contiguous
    <3>2. \A i \in 1..Len(entries') : entries'[i].n = delivered + Len(Draining) + i
      <4> SUFFICES ASSUME NEW i \in 1..Len(entries')
                   PROVE  entries'[i].n = delivered + Len(Draining) + i
        OBVIOUS
      <4>1. CASE i \in 1..Len(entries)
        BY <2>3, <4>1 DEF Contiguous
      <4>2. CASE i = Len(entries) + 1
        BY <1>1, <1>4, <2>3, <3>1, <4>2
      <4> QED
        BY <1>4, <2>3, <4>1, <4>2
    <3>3. sent' = delivered + Len(Draining) + Len(entries')
      BY <1>2, <1>4, <2>3, <3>1
    <3> QED
      BY <1>2, <1>3, <3>2, <3>3 DEF Contiguous
  <2>5. Known'
    BY <1>2, <1>5, <2>1 DEF Known
  <2>6. entries # <<>> => entries' # <<>> /\ entries'[1] = entries[1]
    BY <1>4, <2>1, <2>3
  <2>7. Running(queue)' <=> Running(queue)
    BY <1>2, <2>1 DEF Running
  <2>8. OneRun'
    BY <2>1, <2>6, <2>7 DEF OneRun
  <2> QED
    BY <1>3, <2>2, <2>4, <2>5, <2>8
<1>6. CASE queue = 0
  <2>1. Pump(queues + 1, <<entry>>) /\ queues' = queues + 1
    BY <1>1, <1>6
  <2>2. /\ queues + 1 \in Nat /\ <<entry>> \in Seq(Entries) /\ <<entry>> # <<>>
        /\ <<entry>>[1] = entry /\ Len(<<entry>>) = 1
    BY <1>4
  <2>3. PICK run \in Runs :
          /\ run.id = queues + 1 /\ run.n = entry.n
          /\ runs' = runs \cup {run}
          /\ scheduled' \in {run, scheduled}
    BY <2>1, <2>2, PumpSchedules
  <2>4. queue' = queues + 1 /\ entries' = <<entry>>
    BY <2>1, <2>2, PumpSchedules
  <2>5. TypeOK'
    BY <1>2, <2>1, <2>2, <2>3, <2>4 DEF TypeOK
  <2>6. entries = <<>> /\ Len(entries) = 0 /\ scheduled = NoRun
    BY <1>6 DEF Known
  <2>7. Contiguous'
    <3>1. sent = delivered + Len(Draining)
      BY <1>4, <2>6 DEF Contiguous
    <3>2. /\ sent' = delivered + Len(Draining) + Len(entries')
          /\ \A i \in 1..Len(entries') : entries'[i].n = delivered + Len(Draining) + i
      BY <1>1, <1>2, <1>4, <2>2, <2>4, <3>1
    <3> QED
      BY <1>2, <1>3, <3>2 DEF Contiguous
  <2>8. ~Running(queue)'
    BY <1>2, <1>4, <2>4 DEF Running, Known, TypeOK
  <2>9. Known'
    <3>1. \A s \in runs' : s.id \in 1..queues'
      BY <1>4, <2>1, <2>3 DEF Known
    <3>2. scheduled' = NoRun \/ (scheduled'.id = queue' /\ queue' # 0)
      BY <1>4, <2>3, <2>4, <2>6
    <3>3. \A i \in 1..Len(stack) : stack[i].op = "run" => stack[i].id \in 1..queues'
      BY <1>4, <2>1 DEF Known
    <3>4. ASSUME NEW i \in 1..Len(stack), stack[i].op = "drain"
          PROVE  stack[i].cancel.id <= queues' /\ stack[i].cancel.id # queue'
      <4>1. stack[i].cancel.id \in Nat
        BY <3>4 DEF TypeOK, Frames, Runs, NoRun
      <4>2. stack[i].cancel.id <= queues
        BY <3>4 DEF Known
      <4> QED
        BY <1>4, <2>1, <2>4, <4>1, <4>2
    <3> QED
      BY <1>2, <1>4, <2>1, <2>4, <3>1, <3>2, <3>3, <3>4 DEF Known
  <2>10. OneRun'
    <3>1. \A s \in runs : s.id # queue'
      BY <1>4, <2>4 DEF Known
    <3> QED
      BY <2>2, <2>3, <2>4, <2>8, <3>1 DEF OneRun
  <2> QED
    BY <1>3, <2>5, <2>7, <2>9, <2>10
<1> QED
  BY <1>5, <1>6

LEMMA RunStream ==
  ASSUME DelayAssumption, StreamInv, NEW r \in runs, Run(r)
  PROVE  StreamInv'
<1> USE DEF StreamInv
<1>1. stack = <<>> /\ UNCHANGED <<now, delay, queue, queues, removed, sent>> /\ runs' = runs \ {r}
  BY DEF Run
<1>2. Draining = <<>> /\ Len(Draining) = 0 /\ Len(stack) = 0
  BY <1>1 DEF Draining
<1>3. CASE Stale(r.id)
  <2>1. UNCHANGED <<entries, scheduled, stack, delivered>> /\ r.id # queue
    BY <1>3 DEF Run, Stale
  <2> QED
    BY <1>1, <2>1 DEF TypeOK, StackShape, Contiguous, Draining, Known, OneRun, Running
<1>4. CASE ~Stale(r.id)
  <2>1. /\ scheduled' = NoRun
        /\ entries' = Tail(entries)
        /\ delivered' = r.n
        /\ stack' = <<[op |-> "run", id |-> r.id]>>
        /\ r.id = queue
    BY <1>4 DEF Run, Stale
  <2>2. r.id \in 1..queues /\ entries # <<>> /\ r.n = entries[1].n /\ queue # 0
    BY <2>1 DEF OneRun, Known, TypeOK
  <2>3. /\ entries \in Seq(Entries) /\ Len(entries) \in Nat \ {0}
        /\ delivered \in Nat /\ sent \in Nat /\ queues \in Nat
    BY <2>2 DEF TypeOK, DelayAssumption
  <2>4. sent = delivered + Len(entries) /\ \A i \in 1..Len(entries) : entries[i].n = delivered + i
    BY <1>2, <2>3 DEF Contiguous
  <2>5. r.n = delivered + 1 /\ r.n \in 0..MaxSends
    BY <2>2, <2>3, <2>4 DEF TypeOK, Runs
  <2>6. stack' \in Seq(Frames)
    BY <2>1, <2>2, <2>3 DEF Frames
  <2>7. TypeOK'
    BY <1>1, <2>1, <2>2, <2>3, <2>5, <2>6 DEF TypeOK
  <2>8. Len(stack') = 1 /\ stack'[1] = [op |-> "run", id |-> queue] /\ Head(stack') = stack'[1]
    BY <2>1
  <2>9. StackShape' /\ Draining' = <<>> /\ Len(<<>>) = 0
    BY <2>8 DEF StackShape, Draining
  <2>10. Contiguous'
    <3>1. /\ Len(entries') = Len(entries) - 1
          /\ \A i \in 1..Len(entries') :
               i + 1 \in 1..Len(entries) /\ entries'[i] = entries[i + 1]
      BY <2>1, <2>3
    <3>2. sent' = delivered' + Len(entries')
      BY <1>1, <2>1, <2>3, <2>4, <2>5, <3>1
    <3>3. \A i \in 1..Len(entries') : entries'[i].n = delivered' + i
      BY <2>1, <2>3, <2>4, <2>5, <3>1
    <3>4. delivered' \in Nat /\ Len(entries') \in Nat
      BY <2>1, <2>3, <2>5, <3>1
    <3> QED
      BY <2>9, <3>2, <3>3, <3>4 DEF Contiguous
  <2>11. Known'
    BY <1>1, <2>1, <2>2, <2>8 DEF Known
  <2>12. \A s \in runs' : s.id # queue
    BY <1>1, <2>1 DEF OneRun
  <2>13. Running(queue)'
    BY <1>1, <2>8 DEF Running
  <2>14. OneRun'
    BY <1>1, <2>1, <2>12, <2>13 DEF OneRun
  <2> QED
    BY <2>7, <2>9, <2>10, <2>11, <2>14
<1> QED
  BY <1>3, <1>4

LEMMA RunReturnsStream ==
  ASSUME DelayAssumption, StreamInv, RunReturns
  PROVE  StreamInv'
<1> USE DEF StreamInv
<1>1. /\ UNCHANGED <<now, delay, queues, removed, sent, delivered>>
      /\ stack # <<>> /\ Len(stack) = 1 /\ Head(stack) = stack[1] /\ stack[1].op = "run"
      /\ stack' = <<>> /\ Len(stack') = 0
  <2>1. /\ UNCHANGED <<now, delay, queues, removed, sent, delivered>>
        /\ stack # <<>> /\ Head(stack).op = "run" /\ stack' = Tail(stack)
    BY DEF RunReturns
  <2>2. stack \in Seq(Frames) /\ Len(stack) \in Nat /\ 1 \in 1..Len(stack) /\ Head(stack) = stack[1]
    BY <2>1 DEF TypeOK
  <2>3. Len(stack) = 1
    BY <2>1, <2>2 DEF StackShape
  <2> QED
    BY <2>1, <2>2, <2>3, TailOfOne
<1>2. StackShape' /\ Draining = <<>> /\ Draining' = <<>> /\ Len(<<>>) = 0
  BY <1>1 DEF StackShape, Draining
<1>3. stack' \in Seq(Frames)
  BY <1>1
<1>4. ~Running(queue)'
  BY <1>1 DEF Running
<1>5. CASE Stale(stack[1].id)
  <2>1. UNCHANGED <<queue, entries, runs, scheduled>> /\ stack[1].id # queue
    BY <1>1, <1>5 DEF RunReturns, Stale
  <2>2. ~Running(queue)
    BY <1>1, <2>1 DEF Running, TypeOK
  <2>3. TypeOK'
    BY <1>1, <1>3, <2>1 DEF TypeOK
  <2>4. Contiguous' /\ Known'
    BY <1>1, <1>2, <2>1 DEF Contiguous, Known
  <2>5. OneRun'
    BY <1>4, <2>1, <2>2 DEF OneRun
  <2> QED
    BY <1>2, <2>3, <2>4, <2>5
<1>6. CASE ~Stale(stack[1].id)
  <2>1. Pump(queue, entries) /\ stack[1].id = queue
    BY <1>1, <1>6 DEF RunReturns, Stale
  <2>2. queue \in Nat /\ entries \in Seq(Entries) /\ queues \in Nat
    BY DEF TypeOK
  <2>3. Running(queue) /\ queue # 0
    BY <1>1, <2>1 DEF Running, TypeOK, Known
  <2>4. scheduled = NoRun /\ \A s \in runs : s.id # queue
    BY <2>3 DEF OneRun
  <2>5. entries' = entries
    BY <2>1, <2>2, PumpSchedules
  <2>6. Contiguous'
    BY <1>1, <1>2, <2>5 DEF Contiguous
  <2>7. CASE entries = <<>>
    <3>1. queue' = 0 /\ runs' = runs /\ scheduled' = scheduled
      BY <2>1, <2>2, <2>7, PumpSchedules
    <3>2. TypeOK'
      BY <1>1, <1>3, <2>5, <3>1 DEF TypeOK
    <3>3. Known'
      BY <1>1, <2>2, <2>4, <2>5, <2>7, <3>1 DEF Known
    <3>4. \A s \in runs' : s.id # 0
      BY <2>2, <3>1 DEF Known
    <3>5. OneRun'
      BY <1>4, <3>1, <3>4 DEF OneRun
    <3> QED
      BY <1>2, <2>6, <3>2, <3>3, <3>5
  <2>8. CASE entries # <<>>
    <3>1. queue' = queue
      BY <2>1, <2>2, <2>8, PumpSchedules
    <3>2. PICK run \in Runs :
            /\ run.id = queue /\ run.n = entries[1].n
            /\ runs' = runs \cup {run}
            /\ scheduled' \in {run, scheduled}
      BY <2>1, <2>2, <2>8, PumpSchedules
    <3>3. TypeOK'
      BY <1>1, <1>3, <2>5, <3>1, <3>2 DEF TypeOK
    <3>4. Known'
      BY <1>1, <2>2, <2>3, <2>4, <2>5, <3>1, <3>2 DEF Known
    <3>5. OneRun'
      BY <1>4, <2>4, <2>5, <2>8, <3>1, <3>2 DEF OneRun
    <3> QED
      BY <1>2, <2>6, <3>3, <3>4, <3>5
  <2> QED
    BY <2>7, <2>8
<1> QED
  BY <1>5, <1>6

LEMMA RemoveSocketStream ==
  ASSUME DelayAssumption, StreamInv, RemoveSocket
  PROVE  StreamInv'
<1> USE DEF StreamInv
<1>1. /\ ~removed /\ removed' = TRUE /\ delay' = 0 /\ queue' = 0 /\ entries' = <<>>
      /\ scheduled' = NoRun /\ UNCHANGED <<now, queues, sent>>
  BY DEF RemoveSocket
<1>2. /\ entries \in Seq(Entries) /\ Len(entries) \in Nat /\ queues \in Nat /\ queue \in Nat
      /\ sent \in Nat /\ delivered \in Nat /\ stack \in Seq(Frames) /\ Len(stack) \in Nat
      /\ scheduled \in Runs \cup {NoRun} /\ Len(entries') = 0 /\ runs \subseteq Runs
  BY <1>1 DEF TypeOK, DelayAssumption
<1>3. \A i \in 1..Len(stack) : stack[i].op = "run" /\ i = Len(stack)
  <2>1. \A i \in 1..Len(stack) : stack[i].op \in {"run", "drain"}
    BY <1>2 DEF Frames
  <2> QED
    BY <1>1, <2>1 DEF StackShape
<1>4. Draining = <<>> /\ Len(Draining) = 0
  <2>1. stack # <<>> => Head(stack).op = "run"
    BY <1>2, <1>3
  <2> QED
    BY <2>1 DEF Draining
<1>5. sent = delivered + Len(entries) /\ \A i \in 1..Len(entries) : entries[i].n = delivered + i
  BY <1>2, <1>4 DEF Contiguous
<1>6. CASE entries = <<>>
  <2>1. Cancel(scheduled) /\ UNCHANGED <<stack, delivered>>
    BY <1>6 DEF RemoveSocket
  <2>2. runs' \subseteq runs
    BY <2>1 DEF Cancel
  <2>3. TypeOK'
    BY <1>1, <1>2, <2>1, <2>2 DEF TypeOK
  <2>4. StackShape' /\ Draining' = <<>>
    BY <1>1, <1>3, <1>4, <2>1 DEF StackShape, Draining
  <2>5. Contiguous'
    BY <1>1, <1>2, <1>4, <1>5, <1>6, <2>1, <2>4 DEF Contiguous
  <2>6. Known'
    BY <1>1, <1>2, <1>3, <2>1, <2>2 DEF Known
  <2>7. (\A r \in runs' : r.id # 0) /\ ~Running(0)'
    BY <1>2, <2>1, <2>2 DEF Known, Running
  <2>8. OneRun'
    BY <1>1, <2>7 DEF OneRun
  <2> QED
    BY <2>3, <2>4, <2>5, <2>6, <2>8
<1>7. CASE entries # <<>>
  <2> DEFINE drain == [op |-> "drain", rest |-> Tail(entries), cancel |-> scheduled]
  <2>1. delivered' = Head(entries).n /\ stack' = <<drain>> \o stack /\ UNCHANGED runs
    BY <1>7 DEF RemoveSocket
  <2>2. /\ Tail(entries) \in Seq(Entries) /\ Head(entries) = entries[1] /\ 1 \in 1..Len(entries)
        /\ entries[1] \in Entries
    BY <1>2, <1>7
  <2>3. drain \in Frames
    BY <1>2, <2>2 DEF Frames
  <2>4. stack' \in Seq(Frames) /\ Len(stack') = Len(stack) + 1
    BY <1>2, <2>1, <2>3
  <2>5. stack'[1] = drain /\ \A i \in 1..Len(stack) : stack'[i + 1] = stack[i]
    BY <1>2, <2>1, <2>3
  <2>6. \A i \in 1..Len(stack') : i = 1 \/ (i - 1 \in 1..Len(stack) /\ stack'[i] = stack[i - 1])
    BY <1>2, <2>4, <2>5
  <2>7. delivered' = delivered + 1 /\ delivered' \in 0..MaxSends
    BY <1>2, <1>5, <2>1, <2>2 DEF Entries
  <2>8. TypeOK'
    BY <1>1, <1>2, <2>1, <2>4, <2>7 DEF TypeOK
  <2>9. StackShape'
    <3>1. drain.op = "drain" /\ drain.op # "run"
      OBVIOUS
    <3>2. \A i \in 1..Len(stack) : stack[i].op # "drain"
      BY <1>3
    <3>3. ASSUME NEW i \in 1..Len(stack')
          PROVE  /\ stack'[i].op = "drain" => i = 1
                 /\ stack'[i].op = "run" => i = Len(stack')
      <4>1. CASE i = 1
        BY <2>5, <3>1, <4>1
      <4>2. CASE i # 1
        BY <1>2, <1>3, <2>4, <2>6, <3>2, <4>2
      <4> QED
        BY <4>1, <4>2
    <3> QED
      BY <1>1, <3>3 DEF StackShape
  <2>10. Draining' = Tail(entries)
    <3>1. stack' # <<>> /\ Head(stack') = drain
      BY <1>2, <2>4, <2>5
    <3> QED
      BY <3>1 DEF Draining
  <2>11. Contiguous'
    <3>1. /\ Len(Tail(entries)) = Len(entries) - 1 /\ Len(Tail(entries)) \in Nat
          /\ \A i \in 1..Len(Tail(entries)) :
               i + 1 \in 1..Len(entries) /\ Tail(entries)[i] = entries[i + 1]
      BY <1>2, <1>7
    <3> DEFINE rest == Tail(entries)
    <3>2. ASSUME NEW i \in 1..Len(rest)
          PROVE  rest[i].n = delivered' + i
      <4>1. i + 1 \in 1..Len(entries) /\ rest[i] = entries[i + 1]
        BY <3>1
      <4>2. entries[i + 1].n = delivered + (i + 1)
        BY <1>5, <4>1
      <4> HIDE DEF rest
      <4>3. i \in Int
        OBVIOUS
      <4> QED
        BY <1>2, <2>7, <4>1, <4>2, <4>3
    <3>3. sent' = delivered' + Len(rest) + Len(entries')
      <4>1. Len(rest) = Len(entries) - 1 /\ sent = delivered + Len(entries) /\ sent' = sent
        BY <1>1, <1>5, <3>1
      <4> HIDE DEF rest
      <4> QED
        BY <1>2, <2>7, <4>1
    <3> QED
      BY <1>2, <2>10, <3>2, <3>3 DEF Contiguous
  <2>12. Known'
    <3>1. \A i \in 1..Len(stack') : stack'[i].op = "run" => stack'[i].id \in 1..queues'
      <4>1. ASSUME NEW i \in 1..Len(stack'), stack'[i].op = "run"
            PROVE  stack'[i].id \in 1..queues'
        <5>1. CASE i = 1
          BY <2>5, <4>1, <5>1
        <5>2. CASE i # 1
          <6>1. i - 1 \in 1..Len(stack) /\ stack'[i] = stack[i - 1]
            BY <2>6, <5>2
          <6> QED
            BY <1>1, <4>1, <6>1 DEF Known
        <5> QED
          BY <5>1, <5>2
      <4> QED
        BY <4>1
    <3>2. \A i \in 1..Len(stack') : stack'[i].op = "drain" => stack'[i].cancel.id <= queues'
      <4>1. ASSUME NEW i \in 1..Len(stack'), stack'[i].op = "drain"
            PROVE  stack'[i].cancel.id <= queues'
        <5>1. stack'[i] = drain
          BY <1>3, <2>5, <2>6, <4>1
        <5>2. scheduled.id <= queues
          BY <1>2 DEF Known, NoRun
        <5> QED
          BY <1>1, <5>1, <5>2
      <4> QED
        BY <4>1
    <3> QED
      BY <1>1, <1>2, <2>1, <3>1, <3>2 DEF Known
  <2>13. (\A r \in runs' : r.id # 0) /\ OneRun'
    BY <1>1, <1>2, <2>1 DEF Known, OneRun
  <2> QED
    BY <2>8, <2>9, <2>11, <2>12, <2>13
<1> QED
  BY <1>6, <1>7

LEMMA DrainReturnsStream ==
  ASSUME DelayAssumption, StreamInv, DrainReturns
  PROVE  StreamInv'
<1> USE DEF StreamInv
<1> DEFINE f == Head(stack)
<1>1. /\ stack # <<>> /\ f.op = "drain"
      /\ UNCHANGED <<now, delay, queue, entries, queues, scheduled, removed, sent>>
  BY DEF DrainReturns
<1>2. /\ stack \in Seq(Frames) /\ Len(stack) \in Nat \ {0} /\ f = stack[1] /\ f \in Frames
      /\ entries \in Seq(Entries) /\ Len(entries) \in Nat /\ sent \in Nat /\ delivered \in Nat
      /\ queues \in Nat /\ queue \in Nat /\ runs \subseteq Runs
  BY <1>1 DEF TypeOK, DelayAssumption
<1>3. /\ f.rest = Draining /\ Draining \in Seq(Entries) /\ Len(Draining) \in Nat
      /\ f.cancel \in Runs \cup {NoRun}
  <2>1. f.rest = Draining
    BY <1>1 DEF Draining
  <2> QED
    BY <1>1, <1>2, <2>1, DrainingType DEF Frames
<1>4. /\ sent = delivered + Len(Draining) + Len(entries)
      /\ \A i \in 1..Len(Draining) : Draining[i].n = delivered + i
      /\ \A i \in 1..Len(entries) : entries[i].n = delivered + Len(Draining) + i
  BY DEF Contiguous
<1>5. /\ removed
      /\ f.cancel.id <= queues
      /\ queue # 0 => f.cancel.id # queue
      /\ \A i \in 2..Len(stack) : stack[i].op = "run" /\ i = Len(stack)
  <2>1. f.cancel.id <= queues /\ (queue # 0 => f.cancel.id # queue)
    BY <1>1, <1>2 DEF Known
  <2>2. \A i \in 2..Len(stack) : stack[i].op \in {"run", "drain"}
    BY <1>2 DEF Frames
  <2>3. removed
    BY <1>1, <1>2 DEF StackShape
  <2> QED
    BY <1>2, <2>1, <2>2, <2>3 DEF StackShape
<1> HIDE DEF f
<1>6. CASE Draining # <<>>
  <2> DEFINE g == [f EXCEPT !.rest = Tail(@)]
  <2>1. delivered' = Head(Draining).n /\ stack' = <<g>> \o Tail(stack) /\ UNCHANGED runs
    BY <1>3, <1>6 DEF DrainReturns, f
  <2>2. Head(Draining) = Draining[1] /\ 1 \in 1..Len(Draining) /\ Draining[1] \in Entries
    BY <1>3, <1>6
  <2>3. /\ Tail(Draining) \in Seq(Entries) /\ Len(Tail(Draining)) = Len(Draining) - 1
        /\ \A i \in 1..Len(Tail(Draining)) :
             i + 1 \in 1..Len(Draining) /\ Tail(Draining)[i] = Draining[i + 1]
    BY <1>3, <1>6
  <2>4. g \in Frames /\ g.op = "drain" /\ g.rest = Tail(Draining) /\ g.cancel = f.cancel
    BY <1>1, <1>2, <1>3, <2>3 DEF Frames
  <2> HIDE DEF g
  <2>5. /\ stack' \in Seq(Frames) /\ Len(stack') = Len(stack) /\ stack' # <<>>
        /\ stack'[1] = g /\ Head(stack') = g
        /\ \A i \in 2..Len(stack) : stack'[i] = stack[i]
    BY <1>2, <2>1, <2>4
  <2>6. delivered' = delivered + 1 /\ delivered' \in 0..MaxSends
    BY <1>2, <1>4, <2>1, <2>2 DEF Entries
  <2>7. TypeOK'
    BY <1>1, <2>1, <2>5, <2>6 DEF TypeOK
  <2>8. StackShape'
    BY <1>1, <1>2, <1>5, <2>4, <2>5 DEF StackShape
  <2>9. Draining' = Tail(Draining)
    BY <2>4, <2>5 DEF Draining
  <2>10. Contiguous'
    <3> DEFINE rest == Tail(Draining)
    <3>1. ASSUME NEW i \in 1..Len(rest)
          PROVE  rest[i].n = delivered' + i
      <4>1. rest[i] = Draining[i + 1] /\ Draining[i + 1].n = delivered + (i + 1)
        BY <1>4, <2>3
      <4>2. i \in Int
        OBVIOUS
      <4> HIDE DEF rest
      <4> QED
        BY <1>2, <2>6, <4>1, <4>2
    <3>2. Len(rest) = Len(Draining) - 1 /\ sent = delivered + Len(Draining) + Len(entries)
      BY <1>4, <2>3
    <3> HIDE DEF rest
    <3>3. sent' = delivered' + Len(rest) + Len(entries')
      BY <1>1, <1>2, <1>3, <2>6, <3>2
    <3>4. ASSUME NEW i \in 1..Len(entries')
          PROVE  entries'[i].n = delivered' + Len(rest) + i
      <4>1. i \in Int /\ entries'[i].n = delivered + Len(Draining) + i
        BY <1>1, <1>4
      <4> QED
        BY <1>2, <1>3, <2>6, <3>2, <4>1
    <3>5. Draining' = rest
      BY <2>9 DEF rest
    <3> QED
      BY <3>1, <3>3, <3>4, <3>5 DEF Contiguous
  <2>11. Known'
    <3>1. ASSUME NEW i \in 1..Len(stack')
          PROVE  /\ stack'[i].op = "run" => stack'[i].id \in 1..queues
                 /\ stack'[i].op = "drain" =>
                      stack'[i].cancel.id <= queues /\ (queue # 0 => stack'[i].cancel.id # queue)
      <4>1. CASE i = 1
        BY <1>5, <2>4, <2>5, <4>1
      <4>2. CASE i # 1
        <5>1. i \in 1..Len(stack) /\ stack'[i] = stack[i]
          BY <1>2, <2>5, <4>2
        <5> QED
          BY <5>1 DEF Known
      <4> QED
        BY <4>1, <4>2
    <3> QED
      BY <1>1, <2>1, <3>1 DEF Known
  <2>12. Running(queue)' <=> Running(queue)
    <3>1. DOMAIN stack = 1..Len(stack) /\ DOMAIN stack' = 1..Len(stack)
      BY <1>2, <2>5
    <3>2. ASSUME NEW i \in 1..Len(stack)
          PROVE  stack'[i].op = "run" /\ stack'[i].id = queue'
                   <=> stack[i].op = "run" /\ stack[i].id = queue
      <4>1. CASE i = 1
        BY <1>1, <1>2, <2>4, <2>5, <4>1
      <4>2. CASE i # 1
        <5>1. i \in 2..Len(stack)
          BY <1>2, <4>2
        <5> QED
          BY <1>1, <2>5, <5>1
      <4> QED
        BY <4>1, <4>2
    <3> QED
      BY <3>1, <3>2 DEF Running
  <2>13. OneRun'
    BY <1>1, <2>1, <2>12 DEF OneRun
  <2> QED
    BY <2>7, <2>8, <2>10, <2>11, <2>13
<1>7. CASE Draining = <<>>
  <2>1. stack' = Tail(stack) /\ Cancel(f.cancel) /\ UNCHANGED delivered
    BY <1>3, <1>7 DEF DrainReturns, f
  <2>2. runs' \subseteq runs /\ \A r \in runs : r.id # f.cancel.id => r \in runs'
    BY <2>1 DEF Cancel
  <2>3. /\ stack' \in Seq(Frames) /\ Len(stack') = Len(stack) - 1
        /\ \A i \in 1..Len(stack') : i + 1 \in 2..Len(stack) /\ stack'[i] = stack[i + 1]
    BY <1>2, <2>1
  <2>4. TypeOK'
    BY <1>1, <1>2, <2>1, <2>2, <2>3 DEF TypeOK
  <2>5. \A i \in 1..Len(stack') : stack'[i].op = "run" /\ i = Len(stack')
    BY <1>2, <1>5, <2>3
  <2>6. StackShape'
    BY <2>5 DEF StackShape
  <2>7. Draining' = <<>>
    <3>1. stack' # <<>> => Head(stack').op = "run"
      BY <2>3, <2>5
    <3> QED
      BY <3>1 DEF Draining
  <2>8. Contiguous'
    BY <1>1, <1>7, <2>1, <2>7 DEF Contiguous
  <2>9. Known'
    BY <1>1, <1>2, <2>2, <2>3, <2>5 DEF Known
  <2>10. Running(queue)' <=> Running(queue)
    <3>1. Running(queue)' => Running(queue)
      BY <1>1, <1>2, <2>3 DEF Running
    <3>2. ASSUME NEW i \in 1..Len(stack), stack[i].op = "run"
          PROVE  i - 1 \in 1..Len(stack') /\ stack'[i - 1] = stack[i]
      BY <1>1, <1>2, <2>3, <3>2
    <3>3. Running(queue) => Running(queue)'
      BY <1>1, <1>2, <2>3, <3>2 DEF Running
    <3> QED
      BY <3>1, <3>3
  <2>11. OneRun'
    BY <1>1, <1>5, <2>2, <2>10 DEF OneRun
  <2> QED
    BY <2>4, <2>6, <2>8, <2>9, <2>11
<1> QED
  BY <1>6, <1>7

-----------------------------------------------------------------------------
(* The theorems.                                                           *)

\* The inductive invariant holds in every reachable state, whatever listeners send, delay
\* or remove.
THEOREM StreamInvariant == Spec => []StreamInv
<1>1. Init => StreamInv
  BY InitStream, DelayAssumption
<1>2. StreamInv /\ [Next]_vars => StreamInv'
  <2> SUFFICES ASSUME StreamInv, [Next]_vars PROVE StreamInv'
    OBVIOUS
  <2>1. ASSUME NEW d \in Delays, SetDelay(d) PROVE StreamInv'
    BY <2>1, SetDelayStream, DelayAssumption
  <2>2. CASE Schedule
    BY <2>2, ScheduleStream, DelayAssumption
  <2>3. CASE RemoveSocket
    BY <2>3, RemoveSocketStream, DelayAssumption
  <2>4. ASSUME NEW r \in runs, Run(r) PROVE StreamInv'
    BY <2>4, RunStream, DelayAssumption
  <2>5. CASE RunReturns
    BY <2>5, RunReturnsStream, DelayAssumption
  <2>6. CASE DrainReturns
    BY <2>6, DrainReturnsStream, DelayAssumption
  <2>7. CASE Tick
    BY <2>7, TickStream, DelayAssumption
  <2>8. CASE UNCHANGED vars
    BY <2>8 DEF vars, StreamInv, TypeOK, StackShape, Contiguous, Draining, Known, OneRun, Running
  <2> QED
    BY <2>1, <2>2, <2>3, <2>4, <2>5, <2>6, <2>7, <2>8 DEF Next, Application, Library
<1> QED
  BY <1>1, <1>2, PTL DEF Spec

\* Every message sent is delivered, drained or queued, in the order it was sent.
THEOREM NothingIsLost == Spec => []NothingLost
<1>1. StreamInv => NothingLost
  <2> SUFFICES ASSUME StreamInv PROVE NothingLost
    OBVIOUS
  <2>1. /\ Draining \in Seq(Entries) /\ Len(Draining) \in Nat
        /\ entries \in Seq(Entries) /\ Len(entries) \in Nat /\ delivered \in Nat
    BY DrainingType DEF StreamInv, TypeOK, DelayAssumption
  <2>2. /\ sent = delivered + Len(Draining) + Len(entries)
        /\ \A i \in 1..Len(Draining) : Draining[i].n = delivered + i
        /\ \A i \in 1..Len(entries) : entries[i].n = delivered + Len(Draining) + i
    BY DEF StreamInv, Contiguous
  <2> DEFINE waiting == Draining \o entries
  <2>3. /\ Len(waiting) = Len(Draining) + Len(entries)
        /\ waiting \in Seq(Entries)
        /\ \A i \in 1..Len(Draining) : waiting[i] = Draining[i]
        /\ \A i \in 1..Len(entries) : waiting[Len(Draining) + i] = entries[i]
    BY <2>1
  <2>4. DOMAIN waiting = 1..Len(waiting)
    BY <2>3
  <2>5. sent = delivered + Len(waiting)
    BY <2>1, <2>2, <2>3
  <2>6. ASSUME NEW i \in 1..Len(waiting)
        PROVE  waiting[i].n = delivered + i
    <3> HIDE DEF waiting
    <3>1. CASE i \in 1..Len(Draining)
      BY <2>2, <2>3, <3>1
    <3>2. CASE i \notin 1..Len(Draining)
      <4> DEFINE j == i - Len(Draining)
      <4>1. j \in 1..Len(entries) /\ i = Len(Draining) + j
        BY <2>1, <2>3, <3>2
      <4>2. waiting[i] = entries[j] /\ entries[j].n = delivered + Len(Draining) + j
        BY <2>2, <2>3, <4>1
      <4> HIDE DEF j
      <4> QED
        BY <2>1, <4>1, <4>2
    <3> QED
      BY <3>1, <3>2
  <2> QED
    BY <2>4, <2>5, <2>6 DEF NothingLost
<1> QED
  BY <1>1, StreamInvariant, PTL

\* A queue that waits has its head scheduled exactly once, or is delivering.
THEOREM QueuesArePumped == Spec => []AlwaysPumped
<1>1. StreamInv => AlwaysPumped
  <2> SUFFICES ASSUME StreamInv, queue # 0 PROVE AlwaysPumped
    BY DEF AlwaysPumped
  <2>1. CASE Running(queue)
    BY <2>1 DEF StreamInv, OneRun, AlwaysPumped
  <2>2. CASE ~Running(queue)
    <3>1. PICK r \in runs : r.id = queue
      BY <2>2 DEF StreamInv, OneRun
    <3>2. {s \in runs : s.id = queue} = {r} /\ entries # <<>> /\ r.n = entries[1].n
      BY <3>1 DEF StreamInv, OneRun
    <3> QED
      BY <2>2, <3>2 DEF AlwaysPumped
  <2> QED
    BY <2>1, <2>2
<1> QED
  BY <1>1, StreamInvariant, PTL

\* The queue, its drain and its timers implement the stream: the n-th message sent is the
\* n-th delivered, once.
THEOREM ImplementsStream == Spec => StreamSpec
<1>1. Init => Stream!Init
  BY DEF Init, Stream!Init
<1>2. StreamInv /\ StreamInv' /\ [Next]_vars => [Stream!Next]_Stream!vars
  <2> SUFFICES ASSUME StreamInv, StreamInv', [Next]_vars PROVE [Stream!Next]_Stream!vars
    OBVIOUS
  <2>1. /\ sent \in Nat /\ delivered \in Nat /\ entries \in Seq(Entries)
        /\ Len(entries) \in Nat /\ Len(Draining) \in Nat
        /\ sent = delivered + Len(Draining) + Len(entries)
    BY DrainingType DEF StreamInv, TypeOK, Contiguous, DelayAssumption
  <2>2. ASSUME delivered < sent, delivered' = delivered + 1, UNCHANGED sent
        PROVE  Stream!Next
    BY <2>2 DEF Stream!Next, Stream!Deliver
  <2>3. ASSUME UNCHANGED <<sent, delivered>> PROVE [Stream!Next]_Stream!vars
    BY <2>3 DEF Stream!vars
  <2>4. CASE \E d \in Delays : SetDelay(d)
    BY <2>3, <2>4 DEF SetDelay
  <2>5. CASE Schedule
    BY <2>5 DEF Schedule, Stream!Next, Stream!Send
  <2>6. CASE RemoveSocket
    <3>1. CASE entries = <<>>
      BY <2>3, <2>6, <3>1 DEF RemoveSocket
    <3>2. CASE entries # <<>>
      <4>1. delivered' = entries[1].n /\ sent' = sent
        BY <2>1, <2>6, <3>2 DEF RemoveSocket
      <4>2. Draining = <<>> /\ Len(Draining) = 0
        <5>1. stack # <<>> => Head(stack) = stack[1] /\ 1 \in 1..Len(stack)
          BY DEF StreamInv, TypeOK
        <5> QED
          BY <2>6, <5>1 DEF StreamInv, StackShape, Draining, RemoveSocket
      <4>3. 1 \in 1..Len(entries) /\ Len(entries) > 0
        BY <2>1, <3>2
      <4>4. entries[1].n = delivered + Len(Draining) + 1
        BY <4>3 DEF StreamInv, Contiguous
      <4> QED
        BY <2>1, <2>2, <4>1, <4>2, <4>3, <4>4
    <3> QED
      BY <3>1, <3>2
  <2>7. ASSUME NEW r \in runs, Run(r) PROVE [Stream!Next]_Stream!vars
    <3>1. CASE Stale(r.id)
      BY <2>3, <2>7, <3>1 DEF Run
    <3>2. CASE ~Stale(r.id)
      <4>1. delivered' = r.n /\ sent' = sent /\ r.id = queue /\ stack = <<>>
        BY <2>7, <3>2 DEF Run, Stale
      <4>2. Draining = <<>> /\ Len(Draining) = 0
        BY <4>1 DEF Draining
      <4>3. r.n = entries[1].n /\ 1 \in 1..Len(entries) /\ Len(entries) > 0
        BY <2>1, <4>1 DEF StreamInv, OneRun
      <4>4. entries[1].n = delivered + Len(Draining) + 1
        BY <4>3 DEF StreamInv, Contiguous
      <4> QED
        BY <2>1, <2>2, <4>1, <4>2, <4>3, <4>4
    <3> QED
      BY <3>1, <3>2
  <2>8. CASE RunReturns
    BY <2>3, <2>8 DEF RunReturns
  <2>9. CASE DrainReturns
    <3>1. stack # <<>> /\ Head(stack).rest = Draining /\ sent' = sent
      BY <2>9 DEF DrainReturns, Draining
    <3>2. CASE Draining = <<>>
      BY <2>3, <2>9, <3>1, <3>2 DEF DrainReturns
    <3>3. CASE Draining # <<>>
      <4>1. delivered' = Head(Draining).n
        BY <2>9, <3>1, <3>3 DEF DrainReturns
      <4>2. Head(Draining) = Draining[1] /\ 1 \in 1..Len(Draining) /\ Len(Draining) > 0
        BY <2>1, <3>3, DrainingType DEF StreamInv
      <4>3. Draining[1].n = delivered + 1
        BY <4>2 DEF StreamInv, Contiguous
      <4> QED
        BY <2>1, <2>2, <3>1, <4>1, <4>2, <4>3
    <3> QED
      BY <3>2, <3>3
  <2>10. CASE Tick
    BY <2>3, <2>10 DEF Tick
  <2>11. CASE UNCHANGED vars
    BY <2>3, <2>11 DEF vars
  <2> QED
    BY <2>4, <2>5, <2>6, <2>7, <2>8, <2>9, <2>10, <2>11 DEF Next, Application, Library
<1> QED
  BY <1>1, <1>2, StreamInvariant, PTL DEF Spec, StreamSpec, Stream!Spec

=============================================================================
