----------------------- MODULE AcknowledgementProofs -----------------------
(***************************************************************************)
(* For any number of connections and emits: a callback is called again only *)
(* by the loop of a disconnect, after its timer; an emit is settled on its  *)
(* own connection; the buffer keeps what an interrupted flush did not send; *)
(* and an acknowledgement function is dead once its connection is over.     *)
(***************************************************************************)
EXTENDS Acknowledgements, SequenceTheorems, WellFoundedInduction, TLAPS

-----------------------------------------------------------------------------
(* The stack and the queue as sequences.                                   *)

LEMMA PushFacts ==
  ASSUME NEW S, NEW q \in Seq(S), NEW e \in S
  PROVE  LET p == <<e>> \o q
         IN /\ p \in Seq(S) /\ Len(p) = Len(q) + 1 /\ p # <<>>
            /\ Head(p) = e /\ p[1] = e
            /\ \A i \in 1..Len(q) : p[i + 1] = q[i]
            /\ \A i \in 2..Len(p) : i - 1 \in 1..Len(q) /\ p[i] = q[i - 1]
OBVIOUS

LEMMA TailFacts ==
  ASSUME NEW S, NEW q \in Seq(S), q # <<>>
  PROVE  /\ Head(q) = q[1] /\ q[1] \in S
         /\ Tail(q) \in Seq(S) /\ Len(Tail(q)) = Len(q) - 1
         /\ \A i \in 1..Len(Tail(q)) : i + 1 \in 1..Len(q) /\ Tail(q)[i] = q[i + 1]
OBVIOUS

LEMMA AppendFacts ==
  ASSUME NEW S, NEW q \in Seq(S), NEW e \in S
  PROVE  /\ Append(q, e) \in Seq(S) /\ Len(Append(q, e)) = Len(q) + 1
         /\ \A i \in 1..Len(q) : Append(q, e)[i] = q[i]
         /\ Append(q, e)[Len(q) + 1] = e
OBVIOUS

\* The set of what is in a sequence.
Elements(q) == {q[i] : i \in DOMAIN q}

LEMMA PushElements ==
  ASSUME NEW S, NEW q \in Seq(S), NEW e \in S
  PROVE  Elements(<<e>> \o q) = {e} \cup Elements(q)
<1> DEFINE p == <<e>> \o q
<1>1. /\ DOMAIN p = 1..(Len(q) + 1) /\ DOMAIN q = 1..Len(q) /\ Len(q) \in Nat /\ p[1] = e
      /\ \A i \in 1..Len(q) : p[i + 1] = q[i]
      /\ \A i \in DOMAIN p : i = 1 \/ (i - 1 \in 1..Len(q) /\ p[i] = q[i - 1])
  BY PushFacts
<1> HIDE DEF p
<1>2. \A i \in DOMAIN q : i + 1 \in DOMAIN p /\ 1 \in DOMAIN p
  BY <1>1
<1>3. 1 \in DOMAIN p
  BY <1>1
<1> QED
  BY <1>1, <1>2, <1>3 DEF Elements, p

LEMMA TailElements ==
  ASSUME NEW S, NEW q \in Seq(S), q # <<>>
  PROVE  Elements(q) = {Head(q)} \cup Elements(Tail(q))
<1>1. <<Head(q)>> \o Tail(q) = q /\ Tail(q) \in Seq(S) /\ Head(q) \in S
  OBVIOUS
<1> QED
  BY <1>1, PushElements

LEMMA AppendElements ==
  ASSUME NEW S, NEW q \in Seq(S), NEW e \in S
  PROVE  Elements(Append(q, e)) = Elements(q) \cup {e}
<1> DEFINE p == Append(q, e)
<1>1. /\ DOMAIN p = 1..(Len(q) + 1) /\ DOMAIN q = 1..Len(q) /\ Len(q) \in Nat
      /\ p[Len(q) + 1] = e /\ \A i \in DOMAIN q : p[i] = q[i]
  BY AppendFacts
<1>2. /\ \A i \in DOMAIN p : i = Len(q) + 1 \/ i \in DOMAIN q
      /\ Len(q) + 1 \in DOMAIN p /\ \A i \in DOMAIN q : i \in DOMAIN p
  BY <1>1
<1> HIDE DEF p
<1> QED
  BY <1>1, <1>2 DEF Elements, p

-----------------------------------------------------------------------------
(* Kept returns a subsequence.  Its recursion is followed with the least    *)
(* number at which the claim would fail.                                    *)

LEMMA FunctionIsSeq ==
  ASSUME NEW S, NEW n \in Nat, NEW f \in [1..n -> S]
  PROVE  f \in Seq(S) /\ Len(f) = n
  OBVIOUS

\* A set of numbers has a least one.
LEMMA LeastNat ==
  ASSUME NEW X, X \subseteq Nat, X # {}
  PROVE  \E x \in X : \A y \in X : x <= y
<1>1. PICK x \in X : \A y \in X : ~ (<<y, x>> \in OpToRel(<, Nat))
  BY NatLessThanWellFounded, WFMin
<1>2. \A y \in X : ~(y < x)
  BY <1>1 DEF OpToRel
<1> QED
  BY <1>2

\* f is the function that Kept builds, up to n.
Builds(f, q, S, n) ==
  f = [k \in 0..n |-> IF k = 0 THEN <<>>
                      ELSE IF q[k] \in S THEN Append(f[k - 1], q[k]) ELSE f[k - 1]]

LEMMA BuildsExists ==
  ASSUME NEW q, NEW S, NEW m \in Nat
  PROVE  \E f : Builds(f, q, S, m)
<1> DEFINE bad == {n \in Nat : ~ \E f : Builds(f, q, S, n)}
<1> SUFFICES ASSUME bad # {} PROVE FALSE
  OBVIOUS
<1>1. PICK n \in bad : \A k \in bad : n <= k
  <2> HIDE DEF bad
  <2>1. bad \subseteq Nat
    BY DEF bad
  <2> QED
    BY <2>1, LeastNat
<1>2. n # 0
  <2> DEFINE f == [k \in 0..0 |-> <<>>]
  <2>1. Builds(f, q, S, 0)
    BY DEF Builds
  <2> HIDE DEF f
  <2> QED
    BY <2>1
<1>3. n - 1 \in Nat /\ n - 1 \notin bad
  BY <1>1, <1>2
<1>4. PICK f : Builds(f, q, S, n - 1)
  BY <1>3
<1> DEFINE last == IF q[n] \in S THEN Append(f[n - 1], q[n]) ELSE f[n - 1]
           g == [k \in 0..n |-> IF k = n THEN last ELSE f[k]]
           h == [k \in 0..n |-> IF k = 0 THEN <<>>
                      ELSE IF q[k] \in S THEN Append(g[k - 1], q[k]) ELSE g[k - 1]]
<1>5. ASSUME NEW k \in 0..n PROVE g[k] = h[k]
  <2>1. CASE k = n
    BY <1>2, <1>3, <2>1
  <2>2. CASE k # n
    <3>1. k \in 0..(n-1) /\ (k # 0 => k - 1 \in 0..(n-1) /\ k - 1 # n)
      BY <2>2
    <3>2. f[k] = IF k = 0 THEN <<>> ELSE IF q[k] \in S THEN Append(f[k - 1], q[k]) ELSE f[k - 1]
      BY <1>4, <3>1 DEF Builds
    <3> QED
      BY <2>2, <3>1, <3>2
  <2> QED
    BY <2>1, <2>2
<1>6. g = h
  BY <1>5
<1>7. Builds(g, q, S, n)
  BY <1>6 DEF Builds
<1> HIDE DEF g
<1> QED
  BY <1>1, <1>7

LEMMA KeptBuilt ==
  ASSUME NEW q, NEW S, Len(q) \in Nat
  PROVE  \E f : Builds(f, q, S, Len(q)) /\ Kept(q, S) = f[Len(q)]
<1> DEFINE f == CHOOSE g : Builds(g, q, S, Len(q))
<1>1. Builds(f, q, S, Len(q))
  BY BuildsExists
<1>2. Kept(q, S) = f[Len(q)]
  BY DEF Kept, Builds
<1> HIDE DEF f
<1> QED
  BY <1>1, <1>2

\* What a sequence f[k] of a construction is: the elements of the first k of q in S, in order.
Selects(p, q, S, k) ==
  /\ p \in Seq(S)
  /\ \A i \in 1..k : q[i] \in S => \E j \in DOMAIN p : p[j] = q[i]
  /\ \A j \in DOMAIN p : \E i \in 1..k : p[j] = q[i]
  /\ \A j1, j2 \in DOMAIN p :
       j1 < j2 => \E i1, i2 \in 1..k : i1 < i2 /\ p[j1] = q[i1] /\ p[j2] = q[i2]

LEMMA SelectsMore ==
  ASSUME NEW p, NEW q, NEW S, NEW m \in Nat, Selects(p, q, S, m)
  PROVE  Selects(IF q[m + 1] \in S THEN Append(p, q[m + 1]) ELSE p, q, S, m + 1)
<1> DEFINE n == m + 1
<1>1. /\ \A i \in 1..m : i \in 1..n /\ i < n
      /\ \A i \in 1..n : i \in 1..m \/ i = n
      /\ n \in 1..n
  OBVIOUS
<1> HIDE DEF n
<1>2. p \in Seq(S)
  BY DEF Selects
<1>3. CASE q[n] \in S
  <2> DEFINE r == Append(p, q[n])
             last == Len(p) + 1
  <2>1. /\ r \in Seq(S) /\ last \in DOMAIN r /\ r[last] = q[n]
        /\ \A j \in DOMAIN p : j \in DOMAIN r /\ r[j] = p[j]
        /\ \A j \in DOMAIN r : j \in DOMAIN p \/ j = last
        /\ \A j \in DOMAIN r : ~(last < j)
    BY <1>2, <1>3
  <2> HIDE DEF r, last
  <2>2. \A i \in 1..n : q[i] \in S => \E j \in DOMAIN r : r[j] = q[i]
    BY <1>1, <2>1 DEF Selects
  <2>3. \A j \in DOMAIN r : \E i \in 1..n : r[j] = q[i]
    BY <1>1, <2>1 DEF Selects
  <2>4. ASSUME NEW j1 \in DOMAIN r, NEW j2 \in DOMAIN r, j1 < j2
        PROVE  \E i1, i2 \in 1..n : i1 < i2 /\ r[j1] = q[i1] /\ r[j2] = q[i2]
    <3>1. j1 \in DOMAIN p
      BY <2>1, <2>4
    <3>2. CASE j2 \in DOMAIN p
      <4>1. PICK i1 \in 1..m, i2 \in 1..m : i1 < i2 /\ p[j1] = q[i1] /\ p[j2] = q[i2]
        BY <2>4, <3>1, <3>2 DEF Selects
      <4> QED
        BY <1>1, <2>1, <3>1, <3>2, <4>1
    <3>3. CASE j2 = last
      <4>1. PICK i \in 1..m : p[j1] = q[i]
        BY <3>1 DEF Selects
      <4> QED
        BY <1>1, <2>1, <3>1, <3>3, <4>1
    <3> QED
      BY <2>1, <3>2, <3>3
  <2>5. Selects(r, q, S, n)
    BY <2>1, <2>2, <2>3, <2>4 DEF Selects
  <2> QED
    BY <1>3, <2>5 DEF r, n
<1>4. CASE q[n] \notin S
  <2>1. \A i \in 1..n : q[i] \in S => \E j \in DOMAIN p : p[j] = q[i]
    BY <1>1, <1>4 DEF Selects
  <2>2. \A j \in DOMAIN p : \E i \in 1..n : p[j] = q[i]
    BY <1>1 DEF Selects
  <2>3. ASSUME NEW j1 \in DOMAIN p, NEW j2 \in DOMAIN p, j1 < j2
        PROVE  \E i1, i2 \in 1..n : i1 < i2 /\ p[j1] = q[i1] /\ p[j2] = q[i2]
    <3>1. PICK i1 \in 1..m, i2 \in 1..m : i1 < i2 /\ p[j1] = q[i1] /\ p[j2] = q[i2]
      BY <2>3 DEF Selects
    <3> QED
      BY <1>1, <3>1
  <2>4. Selects(p, q, S, n)
    BY <1>2, <2>1, <2>2, <2>3 DEF Selects
  <2> QED
    BY <1>4, <2>4 DEF n
<1> QED
  BY <1>3, <1>4

LEMMA BuildsSelects ==
  ASSUME NEW q, NEW S, NEW f, Len(q) \in Nat, Builds(f, q, S, Len(q))
  PROVE  Selects(f[Len(q)], q, S, Len(q))
<1> DEFINE bad == {n \in 0..Len(q) : ~Selects(f[n], q, S, n)}
<1> SUFFICES ASSUME bad # {} PROVE FALSE
  OBVIOUS
<1>1. PICK n \in bad : \A k \in bad : n <= k
  <2> HIDE DEF bad
  <2>1. bad \subseteq Nat
    BY DEF bad
  <2> QED
    BY <2>1, LeastNat
<1>2. \A k \in 0..Len(q) : f[k] = IF k = 0 THEN <<>>
                                  ELSE IF q[k] \in S THEN Append(f[k - 1], q[k]) ELSE f[k - 1]
  BY DEF Builds
<1>3. n # 0
  <2>1. f[0] = <<>>
    BY <1>2
  <2>2. Selects(<<>>, q, S, 0)
    BY DEF Selects
  <2> QED
    BY <2>1, <2>2
<1> DEFINE m == n - 1
<1>4. m \in 0..Len(q) /\ m \in Nat /\ n = m + 1 /\ n \in 0..Len(q)
  BY <1>1, <1>3
<1>5. Selects(f[m], q, S, m)
  BY <1>1, <1>4
<1>6. f[n] = IF q[m + 1] \in S THEN Append(f[m], q[m + 1]) ELSE f[m]
  BY <1>2, <1>3, <1>4
<1> HIDE DEF bad, m
<1>7. Selects(f[n], q, S, n)
  BY <1>4, <1>5, <1>6, SelectsMore
<1> QED
  BY <1>7 DEF bad

\* Kept(q, S) has what q has in S, in the order of q.
Subsequence(p, q, S) ==
  /\ p \in Seq(S)
  /\ \A i \in DOMAIN q : q[i] \in S => \E j \in DOMAIN p : p[j] = q[i]
  /\ \A j \in DOMAIN p : \E i \in DOMAIN q : p[j] = q[i]
  /\ \A j1, j2 \in DOMAIN p : j1 < j2 =>
       \E i1, i2 \in DOMAIN q : i1 < i2 /\ p[j1] = q[i1] /\ p[j2] = q[i2]

LEMMA KeptFacts ==
  ASSUME NEW T, NEW q \in Seq(T), NEW S
  PROVE  Subsequence(Kept(q, S), q, S)
<1>1. Len(q) \in Nat /\ DOMAIN q = 1..Len(q)
  OBVIOUS
<1> DEFINE p == Kept(q, S)
<1>2. Selects(p, q, S, Len(q))
  BY <1>1, KeptBuilt, BuildsSelects
<1> HIDE DEF p
<1>3. p \in Seq(S)
  BY <1>2 DEF Selects
<1>4. \A i \in DOMAIN q : q[i] \in S => \E j \in DOMAIN p : p[j] = q[i]
  BY <1>1, <1>2 DEF Selects
<1>5. \A j \in DOMAIN p : \E i \in DOMAIN q : p[j] = q[i]
  BY <1>1, <1>2 DEF Selects
<1>6. ASSUME NEW j1 \in DOMAIN p, NEW j2 \in DOMAIN p, j1 < j2
      PROVE  \E i1, i2 \in DOMAIN q : i1 < i2 /\ p[j1] = q[i1] /\ p[j2] = q[i2]
  <2>1. PICK i1 \in 1..Len(q), i2 \in 1..Len(q) : i1 < i2 /\ p[j1] = q[i1] /\ p[j2] = q[i2]
    BY <1>2, <1>6 DEF Selects
  <2> QED
    BY <1>1, <2>1
<1>7. Subsequence(p, q, S)
  BY <1>3, <1>4, <1>5, <1>6 DEF Subsequence
<1> QED
  BY <1>7 DEF p

-----------------------------------------------------------------------------
(* The invariant.                                                          *)

\* Frames and tasks that move an emit on: there is one of a kind for it.
Distinct(q) ==
  \A i, j \in DOMAIN q :
    i # j /\ q[i].op = q[j].op /\ q[i].op \in {"emit", "deliver", "answer"} => q[i].of # q[j].of

\* The loop of a disconnect: there is one at a time.
Loops(q) == {f \in Elements(q) : f.op = "reject"}
OneLoop(q) == \A i, j \in DOMAIN q : q[i].op = "reject" /\ q[j].op = "reject" => i = j

Ascending(q) == \A i, j \in DOMAIN q : i < j => q[i] < q[j]

\* A flush begins when no code runs: it is below everything else.
FlushIsLast(q) == \A i \in DOMAIN q : q[i].op = "flush" => i = Len(q)

Untracked(e) == msgs[e].form = "callback" /\ ~msgs[e].timed
Tracked(e) == <<e, "promise">> \in pendingAcks \/ <<e, "timed">> \in pendingAcks

\* The rejecter that settles an emit wherever it is: it is tracked, or the loop of a
\* disconnect has still to call it.
Entry(e) == <<e, IF msgs[e].timed THEN "timed" ELSE "promise">>
Noted(e) == Entry(e) \in pendingAcks
Awaited(e) == \E f \in Loops(stack) : Entry(e) \in f.rest
Watched(e) == (connected /\ Noted(e)) \/ Awaited(e)

\* Attempts are numbered in order.  The guards of the acknowledgements are those of the
\* connection, or of the attempt while there is none, and are not those of a teardown.
ConnectionOk ==
  /\ connected => attempt = 0 /\ serverSocket # 0
  /\ attempt # 0 => serverSocket < attempt
  /\ serverAcks \cup clientAcks \subseteq {IF connected THEN serverSocket ELSE attempt}
  /\ torn \subseteq 1..serverSocket
  /\ clientAcks \cap torn = {}

\* Where an emit is says what may be known of it.
MessageOk ==
  \A e \in DOMAIN msgs :
    /\ msgs[e].place \in {"dropped", "buffered", "observed", "interrupted"} => msgs[e].gen = 0
    /\ msgs[e].from = 0 \/ msgs[e].place = "held" => msgs[e].gen <= serverSocket
    /\ msgs[e].place = "interrupted" => msgs[e].form = "promise"
    /\ Untracked(e) /\ ~Pending(e) => msgs[e].place = "answered"

\* A callback whose rejecter is tracked is not settled.
PendingOk ==
  /\ \A e \in DOMAIN msgs : msgs[e].form = "callback" /\ Tracked(e) => msgs[e].timed /\ Pending(e)
  /\ \A a \in pendingAcks : a[2] = "promise" => msgs[a[1]].form = "promise"

\* What the client has shown to its observers or sent is tracked on the connection it has,
\* or about to be rejected; a promise in the buffer is tracked already.
TrackedOk ==
  \A e \in DOMAIN msgs :
    msgs[e].from = 0 /\ ~Untracked(e) /\ Pending(e) =>
      /\ msgs[e].place = "observed" \/ msgs[e].gen # 0 => Watched(e)
      /\ msgs[e].gen # 0 => msgs[e].gen = serverSocket
      /\ msgs[e].place = "buffered" /\ ~msgs[e].timed => Noted(e) \/ Awaited(e)

BufferOk ==
  /\ Ascending(sendBuffer)
  /\ \A i \in DOMAIN sendBuffer : msgs[sendBuffer[i]].place = "buffered" /\ ~IsSettled(sendBuffer[i])

TaskOk(t) ==
  /\ t.op = "accept" => t.of \in accepted
  /\ t.op = "deliver" => /\ t.of \in DOMAIN msgs /\ msgs[t.of].place = "queued"
                         /\ t.kept => msgs[t.of].gen <= serverSocket
  /\ t.op = "answer" => /\ t.of \in DOMAIN msgs /\ msgs[t.of].place = "answered"
                        /\ Untracked(t.of) => Pending(t.of)

\* What a flush has not sent is older than the buffer; the first of it is tracked.
RestOk(rest) ==
  /\ rest \in Seq(DOMAIN msgs) /\ rest # <<>> /\ Ascending(rest)
  /\ \A i \in DOMAIN rest : msgs[rest[i]].place = "buffered"
  /\ \A i \in DOMAIN rest, j \in DOMAIN sendBuffer : rest[i] < sendBuffer[j]
  /\ connected /\ msgs[rest[1]].timed /\ Pending(rest[1]) => Noted(rest[1])

\* The rejecters that a loop has still to call are those of promises, and of timed callbacks
\* that nobody but their timer has settled in the meantime.
RejectersOk(rest) ==
  /\ rest \subseteq (DOMAIN msgs) \X {"promise", "timed"}
  /\ \A a \in rest : msgs[a[1]].form # "promise" =>
       a[2] = "timed" /\ msgs[a[1]].timed /\ msgs[a[1]].result \in {"none", "timeout"}

\* While one runs, the client has no connection, and tracks promises at most.
LoopOk(rest) ==
  /\ RejectersOk(rest)
  /\ ~connected /\ \A a \in pendingAcks : msgs[a[1]].form = "promise"

FrameOk(f) ==
  /\ f.op = "emit" => /\ f.of \in DOMAIN msgs /\ msgs[f.of].place \in {"observed", "interrupted"}
                      /\ f.was => attempt \notin attached
  /\ f.op = "leaving" => ~connected /\ serverSocket # 0
  /\ f.op = "flush" => RestOk(f.rest)
  /\ f.op = "reject" => LoopOk(f.rest)

TasksOk == Distinct(microtasks) /\ \A t \in Elements(microtasks) : TaskOk(t)
StackOk ==
  /\ Distinct(stack) /\ FlushIsLast(stack) /\ OneLoop(stack)
  /\ \A f \in Elements(stack) : FrameOk(f)

AckInv ==
  /\ TypeOK /\ ConnectionOk /\ MessageOk /\ PendingOk /\ TrackedOk /\ BufferOk /\ TasksOk /\ StackOk

-----------------------------------------------------------------------------
(* Frames and tasks come and go at the ends.                               *)

\* The rest of a stack or a queue keeps what is said of all of it.
LEMMA Popped ==
  ASSUME NEW S, NEW q \in Seq(S), q # <<>>
  PROVE  /\ Head(q) \in S /\ Head(q) \in Elements(q) /\ Tail(q) \in Seq(S)
         /\ Elements(Tail(q)) \subseteq Elements(q)
         /\ Distinct(q) => /\ Distinct(Tail(q))
                           /\ \A t \in Elements(Tail(q)) :
                                Head(q).op \in {"emit", "deliver", "answer"} /\ t.op = Head(q).op
                                  => t.of # Head(q).of
         /\ FlushIsLast(q) => /\ FlushIsLast(Tail(q))
                              /\ Head(q).op = "flush" => Tail(q) = <<>>
         /\ OneLoop(q) => /\ OneLoop(Tail(q))
                          /\ Head(q).op = "reject" => Loops(Tail(q)) = {}
         /\ Head(q).op # "reject" => Loops(Tail(q)) = Loops(q)
<1> DEFINE p == Tail(q)
<1>1. /\ Head(q) = q[1] /\ q[1] \in S /\ p \in Seq(S)
      /\ 1 \in DOMAIN q /\ Len(q) \in Nat /\ Len(p) = Len(q) - 1 /\ Len(p) \in Nat
      /\ \A i \in DOMAIN p : i + 1 \in DOMAIN q /\ p[i] = q[i + 1] /\ i \in Nat /\ i + 1 # 1
  BY TailFacts
<1>2. Elements(q) = {q[1]} \cup Elements(p)
  BY <1>1, TailElements
<1>3. Len(p) = 0 => p = <<>>
  <2>1. ASSUME NEW r \in Seq(S), Len(r) = 0 PROVE r = <<>>
    BY <2>1, EmptySeq
  <2> QED
    BY <1>1, <2>1
<1> HIDE DEF p
<1>4. ASSUME Distinct(q) PROVE Distinct(p)
  <2>1. \A i, j \in DOMAIN p : i # j => i + 1 # j + 1
    BY <1>1
  <2> QED
    BY <1>1, <1>4, <2>1 DEF Distinct
<1>5. ASSUME Distinct(q), NEW t \in Elements(p), q[1].op \in {"emit", "deliver", "answer"},
             t.op = q[1].op
      PROVE  t.of # q[1].of
  <2>1. PICK i \in DOMAIN p : t = p[i]
    BY DEF Elements
  <2> QED
    BY <1>1, <1>5, <2>1 DEF Distinct
<1>6. ASSUME FlushIsLast(q) PROVE FlushIsLast(p)
  BY <1>1, <1>6 DEF FlushIsLast
<1>7. ASSUME FlushIsLast(q), q[1].op = "flush" PROVE p = <<>>
  BY <1>1, <1>3, <1>7 DEF FlushIsLast
<1>8. Head(q) \in Elements(q) /\ Elements(p) \subseteq Elements(q)
  BY <1>1, <1>2
<1>9. ASSUME OneLoop(q) PROVE OneLoop(p)
  <2>1. \A i, j \in DOMAIN p : i + 1 = j + 1 => i = j
    BY <1>1
  <2> QED
    BY <1>1, <1>9, <2>1 DEF OneLoop
<1>10. ASSUME OneLoop(q), q[1].op = "reject" PROVE Loops(p) = {}
  BY <1>1, <1>10 DEF OneLoop, Loops, Elements
<1>11. ASSUME q[1].op # "reject" PROVE Loops(p) = Loops(q)
  BY <1>2, <1>11 DEF Loops
<1> QED
  BY <1>1, <1>4, <1>5, <1>6, <1>7, <1>8, <1>9, <1>10, <1>11 DEF p

LEMMA Pushed ==
  ASSUME NEW S, NEW q \in Seq(S), NEW f \in S, Distinct(q), FlushIsLast(q), OneLoop(q),
         f.op # "flush", f.op = "reject" => Loops(q) = {},
         \A g \in Elements(q) : f.op \in {"emit", "deliver", "answer"} /\ g.op = f.op => g.of # f.of
  PROVE  /\ (<<f>> \o q) \in Seq(S) /\ Elements(<<f>> \o q) = {f} \cup Elements(q)
         /\ Distinct(<<f>> \o q) /\ FlushIsLast(<<f>> \o q) /\ OneLoop(<<f>> \o q)
         /\ f.op # "reject" => Loops(<<f>> \o q) = Loops(q)
         /\ f.op = "reject" => Loops(<<f>> \o q) = {f}
<1> DEFINE p == <<f>> \o q
<1>1. /\ p \in Seq(S) /\ p[1] = f /\ Len(p) = Len(q) + 1 /\ Len(q) \in Nat
      /\ \A i \in DOMAIN p : i \in Nat /\ (i = 1 \/ (i - 1 \in DOMAIN q /\ p[i] = q[i - 1]))
  BY PushFacts
<1>2. Elements(p) = {f} \cup Elements(q)
  BY PushElements
<1>3. \A i \in DOMAIN q : q[i] \in Elements(q)
  BY DEF Elements
<1> HIDE DEF p
<1>4. FlushIsLast(p)
  BY <1>1 DEF FlushIsLast
<1>5. Distinct(p)
  <2> SUFFICES ASSUME NEW i \in DOMAIN p, NEW j \in DOMAIN p, i # j, p[i].op = p[j].op,
                      p[i].op \in {"emit", "deliver", "answer"}
               PROVE  p[i].of # p[j].of
    BY DEF Distinct
  <2>1. CASE i = 1
    BY <1>1, <1>3, <2>1
  <2>2. CASE j = 1
    BY <1>1, <1>3, <2>2
  <2>3. CASE i # 1 /\ j # 1
    <3>1. i - 1 # j - 1
      BY <1>1
    <3> QED
      BY <1>1, <2>3, <3>1 DEF Distinct
  <2> QED
    BY <2>1, <2>2, <2>3
<1>6. OneLoop(p)
  <2> SUFFICES ASSUME NEW i \in DOMAIN p, NEW j \in DOMAIN p, p[i].op = "reject", p[j].op = "reject"
               PROVE  i = j
    BY DEF OneLoop
  <2>1. CASE f.op = "reject"
    <3>1. \A k \in DOMAIN q : q[k].op # "reject"
      BY <1>3, <2>1 DEF Loops
    <3> QED
      BY <1>1, <3>1
  <2>2. CASE f.op # "reject"
    <3>1. i # 1 /\ j # 1
      BY <1>1, <2>2
    <3>2. i - 1 = j - 1
      BY <1>1, <3>1 DEF OneLoop
    <3> QED
      BY <1>1, <3>2
  <2> QED
    BY <2>1, <2>2
<1>7. (f.op # "reject" => Loops(p) = Loops(q)) /\ (f.op = "reject" => Loops(p) = {f})
  BY <1>2 DEF Loops
<1> QED
  BY <1>1, <1>2, <1>4, <1>5, <1>6, <1>7 DEF p

LEMMA Appended ==
  ASSUME NEW S, NEW q \in Seq(S), NEW t \in S, Distinct(q),
         \A u \in Elements(q) : t.op \in {"emit", "deliver", "answer"} /\ u.op = t.op => u.of # t.of
  PROVE  /\ Append(q, t) \in Seq(S) /\ Elements(Append(q, t)) = Elements(q) \cup {t}
         /\ Distinct(Append(q, t))
<1> DEFINE p == Append(q, t)
           last == Len(q) + 1
<1>1. /\ p \in Seq(S) /\ p[last] = t
      /\ \A i \in DOMAIN p : i = last \/ (i \in DOMAIN q /\ p[i] = q[i])
  BY AppendFacts
<1>2. Elements(p) = Elements(q) \cup {t}
  BY AppendElements
<1>3. \A i \in DOMAIN q : q[i] \in Elements(q)
  BY DEF Elements
<1> HIDE DEF p, last
<1>4. Distinct(p)
  <2> SUFFICES ASSUME NEW i \in DOMAIN p, NEW j \in DOMAIN p, i # j, p[i].op = p[j].op,
                      p[i].op \in {"emit", "deliver", "answer"}
               PROVE  p[i].of # p[j].of
    BY DEF Distinct
  <2>1. CASE i = last
    BY <1>1, <1>3, <2>1
  <2>2. CASE j = last
    BY <1>1, <1>3, <2>2
  <2>3. CASE i # last /\ j # last
    BY <1>1, <2>3 DEF Distinct
  <2> QED
    BY <2>1, <2>2, <2>3
<1> QED
  BY <1>1, <1>2, <1>4 DEF p

\* The task that runs, and the code that waits for it.
LEMMA Running ==
  ASSUME AckInv, microtasks # <<>>
  PROVE  /\ Task \in Tasks /\ TaskOk(Task) /\ Tail(microtasks) \in Seq(Tasks)
         /\ Distinct(Tail(microtasks))
         /\ \A t \in Elements(Tail(microtasks)) :
              /\ t \in Elements(microtasks) /\ TaskOk(t)
              /\ Task.op \in {"deliver", "answer"} /\ t.op = Task.op => t.of # Task.of
<1>1. microtasks \in Seq(Tasks) /\ Distinct(microtasks) /\ \A t \in Elements(microtasks) : TaskOk(t)
  BY DEF AckInv, TypeOK, TasksOk
<1> QED
  BY <1>1, Popped DEF Task

LEMMA Returning ==
  ASSUME AckInv, stack # <<>>
  PROVE  /\ Head(stack) \in Frames /\ FrameOk(Head(stack)) /\ Tail(stack) \in Seq(Frames)
         /\ Distinct(Tail(stack)) /\ FlushIsLast(Tail(stack)) /\ OneLoop(Tail(stack))
         /\ Head(stack).op = "flush" => Tail(stack) = <<>>
         /\ Head(stack) \in Elements(stack)
         /\ Head(stack).op # "reject" => Loops(Tail(stack)) = Loops(stack)
         /\ Head(stack).op = "reject" => Loops(Tail(stack)) = {}
         /\ \A f \in Elements(Tail(stack)) :
              /\ f \in Elements(stack) /\ FrameOk(f)
              /\ Head(stack).op = "emit" /\ f.op = "emit" => f.of # Head(stack).of
<1>1. stack \in Seq(Frames) /\ Distinct(stack) /\ FlushIsLast(stack) /\ OneLoop(stack)
      /\ \A f \in Elements(stack) : FrameOk(f)
  BY DEF AckInv, TypeOK, StackOk
<1> QED
  BY <1>1, Popped

-----------------------------------------------------------------------------
(* Steps that change no emit.                                              *)

Emitted == <<msgs, sendBuffer, pendingAcks, connected, serverSocket>>

\* Nothing that is said of the emits depends on the attempt.
LEMMA EmitsStay ==
  ASSUME AckInv, UNCHANGED Emitted, accepted \subseteq accepted', Loops(stack') = Loops(stack)
  PROVE  /\ MessageOk' /\ PendingOk' /\ TrackedOk' /\ BufferOk'
         /\ \A t : TaskOk(t) => TaskOk(t)'
         /\ \A f : FrameOk(f) /\ (f.op = "emit" /\ f.was => attempt' \notin attached') => FrameOk(f)'
<1>1. MessageOk' /\ PendingOk' /\ TrackedOk' /\ BufferOk'
  <2>1. \A e : Noted(e)' = Noted(e) /\ Awaited(e)' = Awaited(e) /\ Watched(e)' = Watched(e)
    BY DEF Emitted, Entry, Noted, Awaited, Watched
  <2> QED
    BY <2>1 DEF AckInv, Emitted, MessageOk, PendingOk, TrackedOk, BufferOk, Untracked, Tracked, Pending,
                IsSettled
<1>2. \A t : TaskOk(t) => TaskOk(t)'
  BY DEF Emitted, TaskOk, Untracked, Pending
<1>3. \A f : FrameOk(f) /\ (f.op = "emit" /\ f.was => attempt' \notin attached') => FrameOk(f)'
  BY DEF Emitted, FrameOk, RestOk, Entry, Noted, Pending, LoopOk, RejectersOk
<1> QED
  BY <1>1, <1>2, <1>3

\* ... and so does every step that takes tasks and frames, or defers what a connection needs.
LEMMA ConnectionStep ==
  ASSUME AckInv, UNCHANGED Emitted, accepted \subseteq accepted', TypeOK', ConnectionOk',
         Distinct(microtasks'), \A t \in Elements(microtasks') : TaskOk(t) \/ TaskOk(t)',
         \/ UNCHANGED stack
         \/ stack # <<>> /\ Head(stack).op # "reject" /\ stack' = Tail(stack),
         \A f \in Elements(stack) : f.op = "emit" /\ f.was => attempt' \notin attached'
  PROVE  AckInv'
<1>0. Loops(stack') = Loops(stack)
  BY Returning
<1>1. \A t \in Elements(microtasks') : TaskOk(t)'
  BY <1>0, EmitsStay
<1>2. TasksOk'
  BY <1>1 DEF TasksOk
<1>3. /\ Distinct(stack') /\ FlushIsLast(stack') /\ OneLoop(stack')
      /\ \A f \in Elements(stack') : f \in Elements(stack) /\ FrameOk(f)
  BY Returning DEF AckInv, StackOk
<1>4. \A f \in Elements(stack') : FrameOk(f)'
  BY <1>0, <1>3, EmitsStay
<1>5. StackOk'
  BY <1>3, <1>4 DEF StackOk
<1> QED
  BY <1>0, <1>2, <1>5, EmitsStay DEF AckInv

LEMMA AckInit == Init => AckInv
<1> SUFFICES ASSUME Init PROVE AckInv
  OBVIOUS
<1>1. TypeOK
  <2>1. /\ <<>> \in Seq(Messages) /\ <<>> \in Seq(Tasks) /\ <<>> \in Seq(Frames)
        /\ Len(<<>>) = 0 /\ <<>> \in Seq(DOMAIN msgs)
    OBVIOUS
  <2>2. 0 \in 0..0 /\ 0 \in 0..MaxConnections /\ 0 <= MaxEmits
    BY AcknowledgementAssumption
  <2> QED
    BY <2>1, <2>2 DEF Init, TypeOK
<1>2. Elements(microtasks) = {} /\ Elements(stack) = {} /\ DOMAIN microtasks = {} /\ DOMAIN stack = {}
      /\ DOMAIN msgs = {} /\ DOMAIN sendBuffer = {}
  BY DEF Init, Elements
<1>3. ConnectionOk
  BY DEF Init, ConnectionOk
<1>4. MessageOk /\ PendingOk /\ TrackedOk /\ BufferOk
  BY <1>2 DEF Init, MessageOk, PendingOk, TrackedOk, BufferOk, Ascending
<1>5. TasksOk /\ StackOk
  BY <1>2 DEF TasksOk, StackOk, Distinct, FlushIsLast, OneLoop
<1> QED
  BY <1>1, <1>3, <1>4, <1>5 DEF AckInv

\* What TypeOK says of the connections.
LEMMA ConnectionTypes ==
  ASSUME AckInv
  PROVE  /\ connected \in BOOLEAN /\ begun \in 0..MaxConnections /\ attempt \in 0..begun
         /\ serverSocket \in {0} \cup attached /\ serverSocket \in 0..begun
         /\ attached \subseteq 1..begun /\ begun \in Nat /\ serverSocket \in Nat /\ attempt \in Nat
         /\ accepted \subseteq attached /\ receiving \subseteq attached
         /\ serverAcks \subseteq attached /\ clientAcks \subseteq attached
         /\ active \subseteq attached /\ torn \subseteq attached
         /\ attached \subseteq Sockets /\ 0 \notin attached
<1>1. /\ connected \in BOOLEAN /\ begun \in 0..MaxConnections /\ attempt \in 0..begun
      /\ serverSocket \in {0} \cup attached /\ attached \subseteq 1..begun
      /\ accepted \cup receiving \cup serverAcks \cup clientAcks \cup active \cup torn \subseteq attached
  BY DEF AckInv, TypeOK
<1> QED
  BY <1>1, AcknowledgementAssumption DEF Sockets

LEMMA ConnectStep == ASSUME AckInv, Connect PROVE AckInv'
<1> DEFINE t == [op |-> "pair", of |-> begun + 1]
<1>1. /\ ~connected /\ attempt = 0 /\ begun < MaxConnections
      /\ begun' = begun + 1 /\ attempt' = begun + 1
      /\ microtasks' = Append(microtasks, t)
      /\ UNCHANGED <<connected, serverSocket, serverVars, ackVars, stack>>
  BY DEF Connect, Defer
<1>2. /\ begun' \in 0..MaxConnections /\ attempt' \in 0..begun' /\ attached \subseteq 1..begun'
      /\ attempt' \notin attached /\ serverSocket < attempt' /\ attempt' \in Sockets
  BY <1>1, ConnectionTypes, AcknowledgementAssumption DEF Sockets
<1>3. t \in Tasks /\ TaskOk(t)
  BY <1>1, <1>2 DEF Tasks, TaskOk
<1>4. /\ microtasks' \in Seq(Tasks) /\ Distinct(microtasks')
      /\ Elements(microtasks') = Elements(microtasks) \cup {t}
  <2>1. microtasks \in Seq(Tasks) /\ Distinct(microtasks)
    BY DEF AckInv, TypeOK, TasksOk
  <2> QED
    BY <1>1, <1>3, <2>1, Appended
<1> HIDE DEF t
<1>5. \A u \in Elements(microtasks') : TaskOk(u)
  BY <1>3, <1>4 DEF AckInv, TasksOk
<1>6. TypeOK'
  BY <1>1, <1>2, <1>4 DEF AckInv, TypeOK, serverVars, ackVars
<1>7. ConnectionOk'
  <2>1. serverAcks = {} /\ clientAcks = {}
    BY <1>1, ConnectionTypes DEF AckInv, ConnectionOk
  <2> QED
    BY <1>1, <1>2, <2>1 DEF AckInv, ConnectionOk, serverVars
<1> QED
  BY <1>1, <1>2, <1>4, <1>5, <1>6, <1>7, ConnectionStep DEF Emitted, serverVars, ackVars

LEMMA PairStep == ASSUME AckInv, RunPair PROVE AckInv'
<1> DEFINE new == IF attempt = Task.of THEN {attempt} ELSE {}
<1>1. /\ stack = <<>> /\ microtasks # <<>> /\ Task.op = "pair" /\ microtasks' = Tail(microtasks)
      /\ attached' = attached \cup new /\ receiving' = receiving \cup new
      /\ serverAcks' = serverAcks \cup new /\ clientAcks' = clientAcks \cup new
      /\ active' = active \cup new
      /\ UNCHANGED <<clientVars, accepted, torn, ackVars, stack>>
  BY DEF RunPair, Due, Task
<1>2. Task \in Tasks /\ microtasks' \in Seq(Tasks) /\ Distinct(microtasks')
      /\ \A u \in Elements(microtasks') : TaskOk(u)
  BY <1>1, Running
<1>3. new \subseteq {attempt} /\ (new # {} => attempt \in 1..begun)
  <2>1. Task.of \in Sockets
    BY <1>1, <1>2 DEF Tasks
  <2> QED
    BY <2>1, ConnectionTypes DEF Sockets
<1> HIDE DEF new
<1>4. TypeOK'
  BY <1>1, <1>2, <1>3 DEF AckInv, TypeOK, clientVars, ackVars
<1>5. ConnectionOk'
  <2>1. new # {} => ~connected /\ attempt # 0 /\ attempt \notin torn
    BY <1>3, ConnectionTypes DEF AckInv, ConnectionOk
  <2> QED
    BY <1>1, <1>3, <2>1 DEF AckInv, ConnectionOk, clientVars
<1>6. Elements(stack) = {}
  BY <1>1 DEF Elements
<1> QED
  BY <1>1, <1>2, <1>4, <1>5, <1>6, ConnectionStep DEF Emitted, clientVars, ackVars

LEMMA AdmitStep == ASSUME AckInv, NEW s \in Sockets, Admit(s) PROVE AckInv'
<1> DEFINE t == [op |-> "accept", of |-> s]
<1>1. /\ s \in attached /\ accepted' = accepted \cup {s} /\ microtasks' = Append(microtasks, t)
      /\ UNCHANGED <<clientVars, attached, receiving, serverAcks, clientAcks, active, torn, ackVars, stack>>
  BY DEF Admit, Defer
<1>2. t \in Tasks /\ TaskOk(t)'
  BY <1>1 DEF Tasks, TaskOk
<1>3. /\ microtasks' \in Seq(Tasks) /\ Distinct(microtasks')
      /\ Elements(microtasks') = Elements(microtasks) \cup {t}
  <2>1. microtasks \in Seq(Tasks) /\ Distinct(microtasks)
    BY DEF AckInv, TypeOK, TasksOk
  <2> QED
    BY <1>1, <1>2, <2>1, Appended
<1> HIDE DEF t
<1>4. \A u \in Elements(microtasks') : TaskOk(u) \/ TaskOk(u)'
  BY <1>2, <1>3 DEF AckInv, TasksOk
<1>5. TypeOK'
  BY <1>1, <1>3 DEF AckInv, TypeOK, clientVars, ackVars
<1>6. ConnectionOk'
  BY <1>1 DEF AckInv, ConnectionOk, clientVars
<1>7. \A f \in Elements(stack) : f.op = "emit" /\ f.was => attempt' \notin attached'
  BY <1>1 DEF AckInv, StackOk, FrameOk, clientVars
<1> QED
  BY <1>1, <1>3, <1>4, <1>5, <1>6, <1>7, ConnectionStep DEF Emitted, clientVars, ackVars

\* An end of a connection takes Sockets out of the sets, and tears down one at a time.
LEMMA EndStep ==
  ASSUME AckInv, UNCHANGED Emitted, UNCHANGED <<begun, attached, accepted>>,
         attempt' \in {0, attempt},
         receiving' \subseteq receiving, serverAcks' \subseteq serverAcks,
         clientAcks' \subseteq clientAcks, active' \subseteq active,
         torn' = torn \/ (serverSocket # 0 /\ torn' = torn \cup {serverSocket}),
         clientAcks' \cap torn' = {},
         attempt' # attempt => serverAcks' = {} /\ clientAcks' = {},
         microtasks' \in Seq(Tasks), Distinct(microtasks'),
         \A t \in Elements(microtasks') : TaskOk(t),
         \/ UNCHANGED stack
         \/ stack # <<>> /\ Head(stack).op # "reject" /\ stack' = Tail(stack)
  PROVE  AckInv'
<1>1. stack' \in Seq(Frames)
  BY Returning DEF AckInv, TypeOK
<1>2. torn' \subseteq attached /\ torn' \subseteq 1..serverSocket
  <2>1. torn \subseteq attached /\ torn \subseteq 1..serverSocket
    BY ConnectionTypes DEF AckInv, ConnectionOk
  <2>2. serverSocket # 0 => serverSocket \in attached /\ serverSocket \in 1..serverSocket
    BY ConnectionTypes
  <2> QED
    BY <2>1, <2>2
<1>3. attempt' \in 0..begun
  BY ConnectionTypes
<1>4. TypeOK'
  BY <1>1, <1>2, <1>3 DEF AckInv, TypeOK, Emitted
<1>5. ConnectionOk'
  <2>1. connected' => attempt' = 0 /\ serverSocket' # 0
    BY DEF AckInv, ConnectionOk, Emitted
  <2>2. attempt' # 0 => serverSocket' < attempt'
    BY DEF AckInv, ConnectionOk, Emitted
  <2>3. serverAcks' \cup clientAcks' \subseteq {IF connected' THEN serverSocket' ELSE attempt'}
    BY DEF AckInv, ConnectionOk, Emitted
  <2> QED
    BY <1>2, <2>1, <2>2, <2>3 DEF ConnectionOk, Emitted
<1>6. \A f \in Elements(stack) : f.op = "emit" /\ f.was => attempt' \notin attached'
  BY ConnectionTypes DEF AckInv, StackOk, FrameOk
<1> QED
  BY <1>4, <1>5, <1>6, ConnectionStep

LEMMA CancelStep == ASSUME AckInv, CancelAttempt PROVE AckInv'
<1>1. /\ ~connected /\ attempt' = 0 /\ receiving' = receiving \ {attempt}
      /\ serverAcks' = serverAcks \ {attempt} /\ clientAcks' = clientAcks \ {attempt}
      /\ active' = active \ {attempt}
      /\ UNCHANGED <<connected, serverSocket, begun, attached, accepted, torn, ackVars, microtasks, stack>>
  BY DEF CancelAttempt, Invalidate
<1>2. serverAcks' = {} /\ clientAcks' = {}
  BY <1>1 DEF AckInv, ConnectionOk
<1>3. microtasks \in Seq(Tasks) /\ Distinct(microtasks) /\ \A t \in Elements(microtasks) : TaskOk(t)
  BY DEF AckInv, TypeOK, TasksOk
<1> QED
  BY <1>1, <1>2, <1>3, EndStep DEF Emitted, ackVars

\* The task that a teardown leaves behind.
LEMMA EndTask ==
  ASSUME AckInv, NEW op \in {"teardown", "close", "leave"}, NEW s \in Sockets,
         NEW q \in Seq(Tasks), Distinct(q), \A t \in Elements(q) : TaskOk(t)
  PROVE  LET p == Append(q, [op |-> op, of |-> s])
         IN p \in Seq(Tasks) /\ Distinct(p) /\ \A t \in Elements(p) : TaskOk(t)
<1> DEFINE t == [op |-> op, of |-> s]
<1>1. t \in Tasks /\ TaskOk(t) /\ t.op \notin {"emit", "deliver", "answer"}
  BY DEF Tasks, TaskOk
<1> HIDE DEF t
<1>2. /\ Append(q, t) \in Seq(Tasks) /\ Distinct(Append(q, t))
      /\ Elements(Append(q, t)) = Elements(q) \cup {t}
  BY <1>1, Appended
<1>3. \A u \in Elements(Append(q, t)) : TaskOk(u)
  BY <1>1, <1>2
<1> QED
  BY <1>2, <1>3 DEF t

LEMMA ServerDisconnectStep == ASSUME AckInv, ServerDisconnect \/ CloseFromServer PROVE AckInv'
<1>1. serverSocket # 0 /\ serverSocket \in Sockets
  BY ConnectionTypes DEF ServerDisconnect, CloseFromServer
<1>2. microtasks \in Seq(Tasks) /\ Distinct(microtasks) /\ \A t \in Elements(microtasks) : TaskOk(t)
  BY DEF AckInv, TypeOK, TasksOk
<1>3. /\ torn' = torn \cup {serverSocket}
      /\ receiving' \subseteq receiving /\ serverAcks' \subseteq serverAcks
      /\ clientAcks' = clientAcks \ {serverSocket} /\ active' \subseteq active
      /\ UNCHANGED <<clientVars, attached, accepted, ackVars, stack>>
      /\ \E op \in {"teardown", "close", "leave"} :
           microtasks' = Append(microtasks, [op |-> op, of |-> serverSocket])
  BY DEF ServerDisconnect, CloseFromServer, Teardown, Invalidate, Defer
<1>4. microtasks' \in Seq(Tasks) /\ Distinct(microtasks') /\ \A t \in Elements(microtasks') : TaskOk(t)
  BY <1>1, <1>2, <1>3, EndTask
<1>5. clientAcks' \cap torn' = {}
  BY <1>3 DEF AckInv, ConnectionOk
<1> QED
  BY <1>1, <1>3, <1>4, <1>5, EndStep DEF Emitted, ackVars, clientVars

LEMMA LeavingStep == ASSUME AckInv, NEW drain \in BOOLEAN, LeavingReturns(drain) PROVE AckInv'
<1>1. /\ stack # <<>> /\ Head(stack).op = "leaving" /\ stack' = Tail(stack)
      /\ Teardown(serverSocket, "teardown", drain)
      /\ UNCHANGED <<clientVars, attached, accepted, serverAcks, active, ackVars>>
  BY DEF LeavingReturns
<1>2. ~connected /\ serverSocket # 0 /\ serverSocket \in Sockets
  BY <1>1, Returning, ConnectionTypes DEF FrameOk
<1>3. microtasks \in Seq(Tasks) /\ Distinct(microtasks) /\ \A t \in Elements(microtasks) : TaskOk(t)
  BY DEF AckInv, TypeOK, TasksOk
<1>4. serverSocket \notin clientAcks
  BY <1>2, ConnectionTypes DEF AckInv, ConnectionOk
<1>5. CASE serverSocket \in torn
  <2>1. UNCHANGED <<torn, receiving, clientAcks, microtasks>>
    BY <1>1, <1>5 DEF Teardown
  <2>2. clientAcks' \cap torn' = {}
    BY <2>1 DEF AckInv, ConnectionOk
  <2> QED
    BY <1>1, <1>3, <2>1, <2>2, EndStep DEF Emitted, ackVars, clientVars
<1>6. CASE serverSocket \notin torn
  <2>1. /\ torn' = torn \cup {serverSocket} /\ receiving' \subseteq receiving
        /\ clientAcks' \subseteq clientAcks
        /\ microtasks' = Append(microtasks, [op |-> "teardown", of |-> serverSocket])
    BY <1>1, <1>6 DEF Teardown, Defer
  <2>2. clientAcks' \cap torn' = {}
    BY <1>4, <2>1 DEF AckInv, ConnectionOk
  <2>3. microtasks' \in Seq(Tasks) /\ Distinct(microtasks') /\ \A t \in Elements(microtasks') : TaskOk(t)
    BY <1>2, <1>3, <2>1, EndTask
  <2> QED
    BY <1>1, <1>2, <2>1, <2>2, <2>3, EndStep DEF Emitted, ackVars, clientVars
<1> QED
  BY <1>5, <1>6

LEMMA TeardownStep == ASSUME AckInv, RunTeardown PROVE AckInv'
<1>1. /\ microtasks # <<>> /\ Task.op \in {"teardown", "close"}
      /\ receiving' \subseteq receiving /\ serverAcks' \subseteq serverAcks
      /\ clientAcks' \subseteq clientAcks /\ active' \subseteq active
      /\ microtasks' = Tail(microtasks) \o
           (IF Task.op = "close" THEN <<[op |-> "leave", of |-> Task.of]>> ELSE <<>>)
      /\ UNCHANGED <<clientVars, attached, accepted, torn, ackVars, stack>>
  BY DEF RunTeardown, Due, Invalidate, Task
<1>2. /\ Task \in Tasks /\ Tail(microtasks) \in Seq(Tasks) /\ Distinct(Tail(microtasks))
      /\ \A t \in Elements(Tail(microtasks)) : TaskOk(t)
  BY <1>1, Running
<1>3. \/ microtasks' = Tail(microtasks)
      \/ microtasks' = Append(Tail(microtasks), [op |-> "leave", of |-> Task.of])
  BY <1>1, <1>2
<1>4. Task.of \in Sockets
  BY <1>1, <1>2 DEF Tasks
<1>5. microtasks' \in Seq(Tasks) /\ Distinct(microtasks') /\ \A t \in Elements(microtasks') : TaskOk(t)
  BY <1>2, <1>3, <1>4, EndTask
<1>6. clientAcks' \cap torn' = {}
  BY <1>1 DEF AckInv, ConnectionOk
<1> QED
  BY <1>1, <1>5, <1>6, EndStep DEF Emitted, ackVars, clientVars

-----------------------------------------------------------------------------
(* Steps that move one emit on.                                            *)

\* The sequence in which one emit is another.
LEMMA OneChanged ==
  ASSUME AckInv, NEW e \in DOMAIN msgs, NEW m \in Messages, msgs' = [msgs EXCEPT ![e] = m]
  PROVE  /\ msgs' \in Seq(Messages) /\ DOMAIN msgs' = DOMAIN msgs /\ Len(msgs') = Len(msgs)
         /\ msgs'[e] = m /\ \A d \in DOMAIN msgs : d # e => msgs'[d] = msgs[d]
<1>1. msgs \in Seq(Messages)
  BY DEF AckInv, TypeOK
<1> QED
  BY <1>1

\* An emit leaves the place it was in, for one in which it is known as it was, and what it
\* is now fits there.
Fits(m, e) ==
  /\ m.from = msgs[e].from /\ m.form = msgs[e].form /\ m.timed = msgs[e].timed
  /\ m.place \notin {"dropped", "buffered", "observed", "interrupted"}
  /\ m.from = 0 \/ m.place = "held" => m.gen <= serverSocket
  /\ Untracked(e) /\ m.result # "none" => m.place = "answered"
  /\ m.form = "callback" => m.result = msgs[e].result
  /\ m.from = 0 /\ ~Untracked(e) /\ m.result = "none" /\ m.gen # 0
       => Watched(e) /\ m.gen = serverSocket

\* ... while what was not tracked comes to be.
MoreTracked(e) ==
  /\ pendingAcks \subseteq pendingAcks'
  /\ \A a \in pendingAcks' :
       \/ a \in pendingAcks
       \/ /\ connected /\ a[2] = "timed" /\ a[1] \in DOMAIN msgs /\ a[1] # e
          /\ msgs[a[1]].timed /\ Pending(a[1])

LEMMA SentOn ==
  ASSUME AckInv, NEW e \in DOMAIN msgs, NEW m \in Messages, Fits(m, e),
         msgs' = [msgs EXCEPT ![e] = m], e \notin Elements(sendBuffer),
         UNCHANGED <<clientVars, serverVars, sendBuffer>>, Loops(stack') = Loops(stack), MoreTracked(e)
  PROVE  /\ ConnectionOk' /\ MessageOk' /\ PendingOk' /\ TrackedOk' /\ BufferOk'
         /\ \A t : TaskOk(t) /\ (t.op \in {"deliver", "answer"} => t.of # e) => TaskOk(t)'
         /\ \A f : /\ FrameOk(f) /\ (f.op = "emit" => f.of # e)
                   /\ f.op = "flush" => e \notin Elements(f.rest)
                   => FrameOk(f)'
<1>1. /\ DOMAIN msgs' = DOMAIN msgs /\ msgs'[e] = m
      /\ \A d \in DOMAIN msgs : d # e => msgs'[d] = msgs[d]
  BY OneChanged
<1>2. UNCHANGED <<connected, serverSocket, attempt, begun, attached, accepted, serverAcks, clientAcks,
                  torn, sendBuffer>>
  BY DEF clientVars, serverVars
<1>10. \A d \in DOMAIN msgs : /\ Tracked(d) => Tracked(d)'
                              /\ Tracked(d)' => Tracked(d) \/ (d # e /\ msgs[d].timed /\ Pending(d))
  <2> TAKE d \in DOMAIN msgs
  <2>1. ASSUME NEW k \in {"promise", "timed"}, <<d, k>> \in pendingAcks'
        PROVE  <<d, k>> \in pendingAcks \/ (d # e /\ msgs[d].timed /\ Pending(d))
    BY <2>1 DEF MoreTracked
  <2> QED
    BY <2>1 DEF Tracked, MoreTracked
<1>11. /\ \A a \in pendingAcks : a[1] \in DOMAIN msgs
       /\ \A d \in DOMAIN msgs : Entry(d)' = Entry(d) /\ (Noted(d) => Noted(d)')
                               /\ (Awaited(d) => Awaited(d)') /\ (Watched(d) => Watched(d)')
  <2>1. \A a \in pendingAcks : a[1] \in DOMAIN msgs
    BY DEF AckInv, TypeOK
  <2>2. \A d \in DOMAIN msgs : Entry(d)' = Entry(d)
    BY <1>1 DEF Entry, Fits
  <2> QED
    BY <1>2, <2>1, <2>2 DEF MoreTracked, Noted, Awaited, Watched
<1>3. ConnectionOk'
  BY <1>2 DEF AckInv, ConnectionOk
<1>4. MessageOk'
  BY <1>1, <1>2 DEF AckInv, MessageOk, Untracked, Pending, Fits
<1>5. PendingOk'
  <2>1. \A a \in pendingAcks : a[1] \in DOMAIN msgs
    BY DEF AckInv, TypeOK
  <2>2. \A d \in DOMAIN msgs : msgs'[d].form = msgs[d].form /\ msgs'[d].timed = msgs[d].timed
                               /\ (msgs[d].form = "callback" => Pending(d)' = Pending(d))
    BY <1>1 DEF Fits, Pending
  <2>3. \A d \in DOMAIN msgs' : msgs'[d].form = "callback" /\ Tracked(d)' => msgs'[d].timed /\ Pending(d)'
    BY <1>1, <1>10, <2>2 DEF AckInv, PendingOk
  <2>4. \A a \in pendingAcks' : a[2] = "promise" => a \in pendingAcks
    BY DEF MoreTracked
  <2> QED
    BY <1>1, <2>1, <2>2, <2>3, <2>4 DEF AckInv, PendingOk
<1>6. TrackedOk'
  <2> SUFFICES ASSUME NEW d \in DOMAIN msgs, msgs'[d].from = 0, ~Untracked(d)', Pending(d)'
               PROVE  /\ msgs'[d].place = "observed" \/ msgs'[d].gen # 0 => Watched(d)'
                      /\ msgs'[d].gen # 0 => msgs'[d].gen = serverSocket'
                      /\ msgs'[d].place = "buffered" /\ ~msgs'[d].timed => Noted(d)' \/ Awaited(d)'
    BY <1>1 DEF TrackedOk
  <2>1. CASE d = e
    BY <1>1, <1>2, <1>11, <2>1 DEF Fits, Untracked, Pending
  <2>2. CASE d # e
    BY <1>1, <1>2, <1>11, <2>2 DEF AckInv, TrackedOk, Untracked, Pending
  <2> QED
    BY <2>1, <2>2
<1>7. BufferOk'
  <2>1. \A i \in DOMAIN sendBuffer : sendBuffer[i] \in DOMAIN msgs /\ sendBuffer[i] # e
    BY DEF AckInv, TypeOK, Elements
  <2> QED
    BY <1>1, <1>2, <2>1 DEF AckInv, BufferOk, IsSettled
<1>8. ASSUME NEW t, TaskOk(t), t.op \in {"deliver", "answer"} => t.of # e PROVE TaskOk(t)'
  BY <1>1, <1>2, <1>8 DEF TaskOk, Untracked, Pending
<1>9. ASSUME NEW f, FrameOk(f), f.op = "emit" => f.of # e,
             f.op = "flush" => e \notin Elements(f.rest)
      PROVE  FrameOk(f)'
  <2>1. f.op = "flush" => \A i \in DOMAIN f.rest : f.rest[i] \in DOMAIN msgs /\ f.rest[i] # e
    BY <1>9 DEF FrameOk, RestOk, Elements
  <2>2. f.op = "flush" => f.rest[1] \in DOMAIN msgs /\ f.rest[1] # e
    <3>1. f.op = "flush" => f.rest \in Seq(DOMAIN msgs) /\ f.rest # <<>>
      BY <1>9 DEF FrameOk, RestOk
    <3>2. f.op = "flush" => 1 \in DOMAIN f.rest
      BY <3>1
    <3> QED
      BY <2>1, <3>2
  <2>3. f.op = "flush" => RestOk(f.rest)'
    <3>1. f.op = "flush" => (Noted(f.rest[1]) => Noted(f.rest[1])')
      BY <1>11, <2>2
    <3> QED
      BY <1>1, <1>2, <1>9, <2>1, <2>2, <3>1 DEF FrameOk, RestOk, Pending
  <2>4. f.op = "reject" => LoopOk(f.rest)'
    <3> SUFFICES ASSUME f.op = "reject" PROVE LoopOk(f.rest)'
      OBVIOUS
    <3>1. LoopOk(f.rest)
      BY <1>9 DEF FrameOk
    <3>2. \A d \in DOMAIN msgs : msgs'[d].form = msgs[d].form /\ msgs'[d].timed = msgs[d].timed
                                 /\ (msgs[d].form = "callback" => msgs'[d].result = msgs[d].result)
      BY <1>1 DEF Fits
    <3>3. \A d \in DOMAIN msgs : msgs[d].form \in {"callback", "promise"}
      <4>1. \A d \in DOMAIN msgs : msgs[d] \in Messages
        BY DEF AckInv, TypeOK
      <4> QED
        BY <4>1 DEF Messages
    <3>4. RejectersOk(f.rest)'
      BY <1>1, <3>1, <3>2, <3>3 DEF LoopOk, RejectersOk
    <3>5. pendingAcks' = pendingAcks
      BY <3>1 DEF LoopOk, MoreTracked
    <3> QED
      BY <1>2, <1>11, <3>1, <3>2, <3>4, <3>5 DEF LoopOk
  <2> QED
    BY <1>1, <1>2, <1>9, <2>3, <2>4 DEF FrameOk
<1> QED
  BY <1>3, <1>4, <1>5, <1>6, <1>7, <1>8, <1>9

LEMMA MovedOn ==
  ASSUME AckInv, NEW e \in DOMAIN msgs, NEW m \in Messages, Fits(m, e),
         msgs' = [msgs EXCEPT ![e] = m], e \notin Elements(sendBuffer),
         UNCHANGED <<clientVars, serverVars, sendBuffer, pendingAcks>>, Loops(stack') = Loops(stack)
  PROVE  /\ ConnectionOk' /\ MessageOk' /\ PendingOk' /\ TrackedOk' /\ BufferOk'
         /\ \A t : TaskOk(t) /\ (t.op \in {"deliver", "answer"} => t.of # e) => TaskOk(t)'
         /\ \A f : /\ FrameOk(f) /\ (f.op = "emit" => f.of # e)
                   /\ f.op = "flush" => e \notin Elements(f.rest)
                   => FrameOk(f)'
<1>1. MoreTracked(e)
  BY DEF MoreTracked
<1> QED
  BY <1>1, SentOn

\* What is not in the buffer is in no flush either.
LEMMA NotBuffered ==
  ASSUME AckInv, NEW e \in DOMAIN msgs, msgs[e].place # "buffered"
  PROVE  /\ e \notin Elements(sendBuffer)
         /\ \A f : FrameOk(f) /\ f.op = "flush" => e \notin Elements(f.rest)
<1>1. e \notin Elements(sendBuffer)
  BY DEF AckInv, BufferOk, Elements
<1>2. ASSUME NEW f, FrameOk(f), f.op = "flush" PROVE e \notin Elements(f.rest)
  BY <1>2 DEF FrameOk, RestOk, Elements
<1> QED
  BY <1>1, <1>2

\* The types a step of one emit leaves.
LEMMA MovedTypes ==
  ASSUME AckInv, NEW e \in DOMAIN msgs, NEW m \in Messages, msgs' = [msgs EXCEPT ![e] = m],
         UNCHANGED <<clientVars, serverVars, sendBuffer, pendingAcks>>,
         microtasks' \in Seq(Tasks), stack' \in Seq(Frames)
  PROVE  TypeOK'
<1>1. msgs' \in Seq(Messages) /\ DOMAIN msgs' = DOMAIN msgs /\ Len(msgs') = Len(msgs)
  BY OneChanged
<1> QED
  BY <1>1 DEF AckInv, TypeOK, clientVars, serverVars

\* The receiver's listeners get the acknowledgement function, or the packet is lost.
LEMMA DeliverStep == ASSUME AckInv, RunDeliver PROVE AckInv'
<1> DEFINE e == Task.of
           m == [msgs[e] EXCEPT !.place = IF Delivered(e, Task.kept) THEN "held" ELSE "lost"]
<1>1. /\ stack = <<>> /\ microtasks # <<>> /\ Task.op = "deliver" /\ microtasks' = Tail(microtasks)
      /\ msgs' = [msgs EXCEPT ![e].place = IF Delivered(e, Task.kept) THEN "held" ELSE "lost"]
      /\ UNCHANGED <<clientVars, serverVars, sendBuffer, pendingAcks, stack>>
  BY DEF RunDeliver, Due, Task
<1>2. e \in DOMAIN msgs /\ msgs[e].place = "queued" /\ (Task.kept => msgs[e].gen <= serverSocket)
  BY <1>1, Running DEF TaskOk
<1>3. msgs[e] \in Messages /\ m \in Messages /\ msgs' = [msgs EXCEPT ![e] = m]
  <2>1. msgs \in Seq(Messages)
    BY DEF AckInv, TypeOK
  <2>2. msgs[e] \in Messages
    BY <1>2, <2>1
  <2> QED
    BY <1>1, <2>2 DEF Messages
<1>4. Fits(m, e)
  <2>1. Delivered(e, Task.kept) => msgs[e].gen <= serverSocket
    <3>1. connected => Owner = serverSocket
      BY ConnectionTypes DEF AckInv, ConnectionOk, Owner
    <3> QED
      BY <1>2, <1>3, <3>1, ConnectionTypes DEF Delivered, AckInv, MessageOk, Messages
  <2>2. /\ m.from = msgs[e].from /\ m.form = msgs[e].form /\ m.timed = msgs[e].timed
        /\ m.gen = msgs[e].gen /\ m.result = msgs[e].result
        /\ m.place = IF Delivered(e, Task.kept) THEN "held" ELSE "lost"
    BY <1>3 DEF Messages
  <2> HIDE DEF m
  <2>3. m.from = 0 \/ m.place = "held" => m.gen <= serverSocket
    BY <1>2, <2>1, <2>2 DEF AckInv, MessageOk
  <2>4. Untracked(e) => m.result = "none"
    BY <1>2, <2>2 DEF AckInv, MessageOk, Pending
  <2>5. m.place \in {"held", "lost"}
    BY <2>2
  <2>6. m.from = 0 /\ ~Untracked(e) /\ m.result = "none" /\ m.gen # 0 =>
          Watched(e) /\ m.gen = serverSocket
    BY <1>2, <2>2 DEF AckInv, TrackedOk, Pending
  <2> QED
    BY <2>2, <2>3, <2>4, <2>5, <2>6 DEF Fits
<1> HIDE DEF m
<1>5. /\ microtasks' \in Seq(Tasks) /\ Distinct(microtasks')
      /\ \A t \in Elements(microtasks') :
           TaskOk(t) /\ (t.op \in {"deliver", "answer"} => t.of # e)
  <2>1. /\ microtasks' \in Seq(Tasks) /\ Distinct(microtasks')
        /\ \A t \in Elements(microtasks') : TaskOk(t) /\ (t.op = "deliver" => t.of # e)
    BY <1>1, Running
  <2>2. \A t \in Elements(microtasks') : t.op = "answer" => t.of # e
    BY <1>2, <2>1 DEF TaskOk
  <2> QED
    BY <2>1, <2>2
<1>6. e \notin Elements(sendBuffer)
  BY <1>2, NotBuffered
<1> HIDE DEF e
<1>7. TasksOk'
  BY <1>1, <1>2, <1>3, <1>4, <1>5, <1>6, MovedOn DEF TasksOk
<1>8. StackOk'
  <2>1. Elements(stack) = {}
    BY <1>1 DEF Elements
  <2> QED
    BY <1>1, <2>1 DEF AckInv, StackOk, Distinct, FlushIsLast, OneLoop
<1>9. TypeOK'
  BY <1>1, <1>2, <1>3, <1>5, MovedTypes DEF AckInv, TypeOK
<1> QED
  BY <1>1, <1>2, <1>3, <1>4, <1>6, <1>7, <1>8, <1>9, MovedOn DEF AckInv

\* The function is called, by a server or by a client; an answer goes on its way, or cannot.
LEMMA AnswersStep ==
  ASSUME AckInv, NEW e, ServerAnswers(e) \/ ClientAnswers(e)
  PROVE  AckInv'
<1> PICK place \in {"answered", "spent"} :
      /\ Held(e) /\ msgs' = [msgs EXCEPT ![e].place = place]
      /\ \/ place = "answered" /\ microtasks' = Append(microtasks, [op |-> "answer", of |-> e])
         \/ place = "spent" /\ microtasks' = microtasks
      /\ UNCHANGED <<clientVars, serverVars, sendBuffer, pendingAcks, stack>>
  BY DEF ServerAnswers, ClientAnswers, Defer
<1> DEFINE m == [msgs[e] EXCEPT !.place = place]
           t == [op |-> "answer", of |-> e]
<1>1. e \in DOMAIN msgs /\ msgs[e].place = "held"
  BY DEF Held
<1>2. msgs[e] \in Messages /\ m \in Messages /\ msgs' = [msgs EXCEPT ![e] = m] /\ e \in Emits
  <2>1. msgs \in Seq(Messages) /\ Len(msgs) <= MaxEmits
    BY DEF AckInv, TypeOK
  <2>2. msgs[e] \in Messages /\ e \in Emits
    BY <1>1, <2>1, AcknowledgementAssumption DEF Emits
  <2> QED
    BY <2>2 DEF Messages
<1>3. /\ m.from = msgs[e].from /\ m.form = msgs[e].form /\ m.timed = msgs[e].timed
      /\ m.gen = msgs[e].gen /\ m.result = msgs[e].result
      /\ m.place = place
  BY <1>2 DEF Messages
<1> HIDE DEF m
<1>4. Fits(m, e)
  <2>1. m.gen <= serverSocket
    BY <1>1, <1>3 DEF AckInv, MessageOk
  <2>2. Untracked(e) => m.result = "none"
    BY <1>1, <1>3 DEF AckInv, MessageOk, Pending
  <2>3. m.from = 0 /\ ~Untracked(e) /\ m.result = "none" /\ m.gen # 0 =>
          Watched(e) /\ m.gen = serverSocket
    BY <1>1, <1>3 DEF AckInv, TrackedOk, Pending
  <2> QED
    BY <1>3, <2>1, <2>2, <2>3 DEF Fits
<1>5. /\ microtasks \in Seq(Tasks) /\ Distinct(microtasks)
      /\ \A u \in Elements(microtasks) : TaskOk(u) /\ (u.op \in {"deliver", "answer"} => u.of # e)
  <2>1. microtasks \in Seq(Tasks) /\ Distinct(microtasks) /\ \A u \in Elements(microtasks) : TaskOk(u)
    BY DEF AckInv, TypeOK, TasksOk
  <2> QED
    BY <1>1, <2>1 DEF TaskOk
<1>6. e \notin Elements(sendBuffer) /\ \A f : FrameOk(f) /\ f.op = "flush" => e \notin Elements(f.rest)
  BY <1>1, NotBuffered
<1>7. microtasks' \in Seq(Tasks) /\ TasksOk'
  <2>1. \A u \in Elements(microtasks) : TaskOk(u)'
    BY <1>1, <1>2, <1>4, <1>5, <1>6, MovedOn
  <2>2. CASE microtasks' = microtasks
    BY <1>5, <2>1, <2>2 DEF TasksOk
  <2>3. CASE place = "answered" /\ microtasks' = Append(microtasks, t)
    <3>1. t \in Tasks /\ t.op = "answer" /\ t.of = e
      BY <1>2 DEF Tasks
    <3>2. TaskOk(t)'
      <4>1. DOMAIN msgs' = DOMAIN msgs /\ msgs'[e] = m
        BY <1>1, <1>2, OneChanged
      <4>2. Untracked(e) => msgs[e].result = "none"
        BY <1>1 DEF AckInv, MessageOk, Pending
      <4> QED
        BY <1>1, <1>3, <2>3, <3>1, <4>1, <4>2 DEF TaskOk, Untracked, Pending
    <3> HIDE DEF t
    <3>3. microtasks' \in Seq(Tasks) /\ Elements(microtasks') = Elements(microtasks) \cup {t}
          /\ Distinct(microtasks')
      BY <1>5, <2>3, <3>1, Appended
    <3> QED
      BY <2>1, <3>2, <3>3 DEF TasksOk
  <2> QED
    BY <2>2, <2>3
<1>8. StackOk'
  <2>1. \A f \in Elements(stack) : FrameOk(f) /\ (f.op = "emit" => f.of # e)
    BY <1>1 DEF AckInv, StackOk, FrameOk
  <2>2. \A f \in Elements(stack) : FrameOk(f)'
    BY <1>1, <1>2, <1>4, <1>6, <2>1, MovedOn
  <2> QED
    BY <2>2 DEF AckInv, StackOk
<1>9. TypeOK'
  BY <1>1, <1>2, <1>7, MovedTypes DEF AckInv, TypeOK
<1> QED
  BY <1>1, <1>2, <1>4, <1>6, <1>7, <1>8, <1>9, MovedOn DEF AckInv

\* Settling gives an emit a result, or leaves it the one it has.
LEMMA SettleFacts ==
  ASSUME NEW w \in Messages, NEW how \in {"answer", "timeout", "disconnect"}
  PROVE  LET m == Settle(w, how)
         IN /\ m \in Messages /\ m.from = w.from /\ m.form = w.form /\ m.timed = w.timed
            /\ m.place = w.place /\ m.gen = w.gen
            /\ m.result = IF w.result = "none" THEN how ELSE w.result
            /\ w.result = "none" \/ w.form = "promise" => m.again = w.again
            /\ m.again # w.again => m.again = how /\ w.result # "none"
<1> PICK m : m = Settle(w, how)
  OBVIOUS
<1>1. CASE w.result = "none"
  <2>1. m = [w EXCEPT !.result = how]
    BY <1>1 DEF Settle
  <2> QED
    BY <1>1, <2>1 DEF Messages
<1>2. CASE w.result # "none" /\ w.form = "callback"
  <2>1. m = [w EXCEPT !.again = how]
    BY <1>2 DEF Settle
  <2> QED
    BY <1>2, <2>1 DEF Messages
<1>3. CASE w.result # "none" /\ w.form # "callback"
  <2>1. m = [w EXCEPT !.again = w.again]
    BY <1>3 DEF Settle
  <2>2. m = w
    BY <2>1 DEF Messages
  <2> QED
    BY <1>3, <2>2 DEF Messages
<1> QED
  BY <1>1, <1>2, <1>3

\* The observers of an emit return.  A client packet is sent, and rejected if that had to
\* wait for them; a server packet is sent or lost.
LEMMA SendsStep == ASSUME AckInv, ClientSends \/ ServerSends PROVE AckInv'
<1> PICK f, e : f = Head(stack) /\ e = f.of
  OBVIOUS
<1> DEFINE sent == [msgs[e] EXCEPT !.place = "queued", !.gen = serverSocket]
           m == IF ClientSends
                THEN IF msgs[e].place = "interrupted" THEN Settle(sent, "disconnect") ELSE sent
                ELSE IF msgs[e].from \in active
                THEN [msgs[e] EXCEPT !.place = "queued", !.gen = Owner]
                ELSE [msgs[e] EXCEPT !.place = "lost"]
<1> PICK kept : kept = (msgs[e].from # 0 /\ f.was /\ ~connected)
  OBVIOUS
<1> DEFINE t == [op |-> "deliver", of |-> e, kept |-> kept]
<1>1. /\ stack # <<>> /\ f.op = "emit" /\ stack' = Tail(stack)
      /\ UNCHANGED <<clientVars, serverVars, sendBuffer, pendingAcks>>
  BY DEF ClientSends, ServerSends
<1>2. /\ e \in DOMAIN msgs /\ msgs[e].place \in {"observed", "interrupted"}
      /\ f.was => attempt \notin attached
      /\ f \in Frames
  BY <1>1, Returning DEF FrameOk
<1>3. /\ msgs \in Seq(Messages) /\ msgs[e] \in Messages /\ e \in Emits
      /\ serverSocket \in 0..MaxConnections /\ Owner \in 0..MaxConnections
  <2>1. msgs \in Seq(Messages) /\ Len(msgs) <= MaxEmits
    BY DEF AckInv, TypeOK
  <2>2. serverSocket \in 0..MaxConnections /\ attempt \in 0..MaxConnections
    BY ConnectionTypes, AcknowledgementAssumption
  <2> QED
    BY <1>2, <2>1, <2>2, AcknowledgementAssumption DEF Emits, Owner
<1>4. /\ sent \in Messages /\ sent.from = msgs[e].from /\ sent.form = msgs[e].form
      /\ sent.timed = msgs[e].timed /\ sent.place = "queued" /\ sent.gen = serverSocket
      /\ sent.result = msgs[e].result
  BY <1>3 DEF Messages
<1>5. /\ m \in Messages /\ m.from = msgs[e].from /\ m.form = msgs[e].form /\ m.timed = msgs[e].timed
      /\ m.place \in {"queued", "lost"}
      /\ m.from = 0 => m.gen = serverSocket
      /\ m.result = msgs[e].result \/ msgs[e].place = "interrupted"
      /\ m.from = 0 /\ msgs[e].place = "interrupted" => m.result # "none"
      /\ m.from # 0 => m.result = msgs[e].result
  <2>1. CASE ClientSends
    <3>1. msgs[e].from = 0
      BY <2>1 DEF ClientSends
    <3> HIDE DEF sent
    <3>2. CASE msgs[e].place = "interrupted"
      <4>1. m = Settle(sent, "disconnect")
        BY <2>1, <3>2
      <4>2. /\ m \in Messages /\ m.from = sent.from /\ m.form = sent.form /\ m.timed = sent.timed
            /\ m.place = sent.place /\ m.gen = sent.gen
            /\ m.result = IF sent.result = "none" THEN "disconnect" ELSE sent.result
        <5> PICK w : w = sent
          OBVIOUS
        <5>1. w \in Messages /\ m = Settle(w, "disconnect")
          BY <1>4, <4>1
        <5> HIDE DEF m
        <5>2. "disconnect" \in {"answer", "timeout", "disconnect"}
          OBVIOUS
        <5>3. /\ m \in Messages /\ m.from = w.from /\ m.form = w.form /\ m.timed = w.timed
              /\ m.place = w.place /\ m.gen = w.gen
              /\ m.result = IF w.result = "none" THEN "disconnect" ELSE w.result
          BY <5>1, <5>2, SettleFacts
        <5> QED
          BY <5>3
      <4> HIDE DEF m
      <4> QED
        BY <1>4, <3>1, <3>2, <4>2
    <3>3. CASE msgs[e].place # "interrupted"
      <4>1. m = sent
        BY <2>1, <3>3
      <4> HIDE DEF m
      <4> QED
        BY <1>4, <3>1, <3>3, <4>1
    <3> QED
      BY <3>2, <3>3
  <2>2. CASE ~ClientSends
    <3>1. msgs[e].from # 0
      BY <2>2 DEF ClientSends, ServerSends
    <3>2. \/ m = [msgs[e] EXCEPT !.place = "queued", !.gen = Owner]
          \/ m = [msgs[e] EXCEPT !.place = "lost"]
      BY <2>2
    <3> HIDE DEF m
    <3>3. /\ m \in Messages /\ m.from = msgs[e].from /\ m.form = msgs[e].form
          /\ m.timed = msgs[e].timed /\ m.result = msgs[e].result /\ m.place \in {"queued", "lost"}
      BY <1>3, <3>2 DEF Messages
    <3> QED
      BY <3>1, <3>3
  <2> QED
    BY <2>1, <2>2
<1>6. /\ msgs' = [msgs EXCEPT ![e] = m]
      /\ \/ microtasks' = microtasks
         \/ /\ microtasks' = Append(microtasks, t) /\ m.place = "queued"
            /\ kept => m.gen <= serverSocket
  <2>1. CASE ClientSends
    <3>1. msgs' = [msgs EXCEPT ![e] = m] /\ msgs[e].from = 0
          /\ microtasks' = Append(microtasks, [op |-> "deliver", of |-> e, kept |-> FALSE])
      BY <2>1 DEF ClientSends, Defer
    <3>2. ~kept /\ kept = FALSE
      BY <3>1
    <3>3. m.place = "queued"
      <4>1. Settle(sent, "disconnect").place = sent.place
        BY <1>4 DEF Settle, Messages
      <4>2. m = Settle(sent, "disconnect") \/ m = sent
        BY <2>1
      <4> QED
        BY <1>4, <4>1, <4>2
    <3> QED
      BY <3>1, <3>2, <3>3
  <2>2. CASE ~ClientSends
    <3>1. msgs[e].from # 0 /\ ServerSends
      BY <2>2 DEF ClientSends, ServerSends
    <3>2. CASE msgs[e].from \in active
      <4>1. /\ msgs' = [msgs EXCEPT ![e].place = "queued", ![e].gen = Owner]
            /\ microtasks' = Append(microtasks, [op |-> "deliver", of |-> e, kept |-> f.was /\ ~connected])
        BY <3>1, <3>2 DEF ServerSends, Defer
      <4>2. m = [msgs[e] EXCEPT !.place = "queued", !.gen = Owner]
        BY <2>2, <3>2
      <4>3. m.place = "queued" /\ m.gen = Owner
        BY <1>3, <4>2 DEF Messages
      <4>4. kept = (f.was /\ ~connected)
        BY <3>1
      <4>5. kept => Owner = serverSocket
        BY <1>2 DEF Owner
      <4>6. kept => m.gen <= serverSocket
        BY <4>3, <4>5, ConnectionTypes
      <4>7. msgs' = [msgs EXCEPT ![e] = m]
        BY <1>2, <1>3, <4>1, <4>2
      <4>8. microtasks' = Append(microtasks, t)
        BY <4>1, <4>4
      <4> QED
        BY <4>3, <4>6, <4>7, <4>8
    <3>3. CASE msgs[e].from \notin active
      <4>1. msgs' = [msgs EXCEPT ![e].place = "lost"] /\ microtasks' = microtasks
        BY <3>1, <3>3 DEF ServerSends
      <4>2. m = [msgs[e] EXCEPT !.place = "lost"]
        BY <2>2, <3>3
      <4> QED
        BY <1>2, <1>3, <4>1, <4>2
    <3> QED
      BY <3>2, <3>3
  <2> QED
    BY <2>1, <2>2
<1> HIDE DEF m, sent
<1>7. Fits(m, e)
  <2>1. /\ msgs[e].place = "interrupted" => msgs[e].form = "promise"
        /\ (Untracked(e) => msgs[e].result = "none")
    BY <1>2 DEF AckInv, MessageOk, Pending
  <2>2. m.form = "callback" => m.result = msgs[e].result
    BY <1>5, <2>1
  <2>3. Untracked(e) => m.result = "none"
    BY <1>5, <2>1, <2>2 DEF Untracked
  <2>4. m.from = 0 => m.gen <= serverSocket
    BY <1>5, ConnectionTypes
  <2>5. m.from = 0 /\ ~Untracked(e) /\ m.result = "none" =>
          Watched(e) /\ m.gen = serverSocket
    <3> SUFFICES ASSUME m.from = 0, ~Untracked(e), m.result = "none"
                 PROVE  Watched(e) /\ m.gen = serverSocket
      OBVIOUS
    <3>1. msgs[e].from = 0 /\ msgs[e].place = "observed" /\ msgs[e].result = "none"
      BY <1>2, <1>5
    <3> QED
      BY <1>2, <1>5, <3>1 DEF AckInv, TrackedOk, Pending
  <2> QED
    BY <1>5, <2>2, <2>3, <2>4, <2>5 DEF Fits
<1>8. e \notin Elements(sendBuffer) /\ \A g : FrameOk(g) /\ g.op = "flush" => e \notin Elements(g.rest)
  BY <1>2, NotBuffered
<1>9. /\ microtasks \in Seq(Tasks) /\ Distinct(microtasks)
      /\ \A u \in Elements(microtasks) : TaskOk(u) /\ (u.op \in {"deliver", "answer"} => u.of # e)
  <2>1. microtasks \in Seq(Tasks) /\ Distinct(microtasks) /\ \A u \in Elements(microtasks) : TaskOk(u)
    BY DEF AckInv, TypeOK, TasksOk
  <2> QED
    BY <1>2, <2>1 DEF TaskOk
<1>10. /\ stack' \in Seq(Frames) /\ Distinct(stack') /\ FlushIsLast(stack') /\ OneLoop(stack')
       /\ \A g \in Elements(stack') : FrameOk(g) /\ (g.op = "emit" => g.of # e)
       /\ Loops(stack') = Loops(stack)
  BY <1>1, Returning
<1>11. kept \in BOOLEAN
  OBVIOUS
<1>12. microtasks' \in Seq(Tasks) /\ TasksOk'
  <2>1. \A u \in Elements(microtasks) : TaskOk(u)'
    BY <1>1, <1>2, <1>5, <1>6, <1>7, <1>8, <1>9, <1>10, MovedOn
  <2>2. CASE microtasks' = microtasks
    BY <1>9, <2>1, <2>2 DEF TasksOk
  <2>3. CASE /\ microtasks' = Append(microtasks, t) /\ m.place = "queued"
             /\ kept => m.gen <= serverSocket
    <3>1. t \in Tasks /\ t.op = "deliver" /\ t.of = e /\ t.kept = kept
      BY <1>3, <1>11 DEF Tasks
    <3>2. DOMAIN msgs' = DOMAIN msgs /\ msgs'[e] = m /\ serverSocket' = serverSocket
      BY <1>1, <1>2, <1>5, <1>6, OneChanged DEF clientVars
    <3> HIDE DEF t
    <3>3. TaskOk(t)'
      BY <1>2, <2>3, <3>1, <3>2 DEF TaskOk
    <3>4. microtasks' \in Seq(Tasks) /\ Elements(microtasks') = Elements(microtasks) \cup {t}
          /\ Distinct(microtasks')
      BY <1>9, <2>3, <3>1, Appended
    <3> QED
      BY <2>1, <3>3, <3>4 DEF TasksOk
  <2> QED
    BY <1>6, <2>2, <2>3
<1>13. StackOk'
  <2>1. \A g \in Elements(stack') : FrameOk(g)'
    BY <1>1, <1>2, <1>5, <1>6, <1>7, <1>8, <1>10, MovedOn
  <2> QED
    BY <1>10, <2>1 DEF StackOk
<1>14. TypeOK'
  BY <1>1, <1>2, <1>5, <1>6, <1>10, <1>12, MovedTypes
<1> QED
  BY <1>1, <1>2, <1>5, <1>6, <1>7, <1>8, <1>10, <1>12, <1>13, <1>14, MovedOn DEF AckInv

-----------------------------------------------------------------------------
(* Emitting.                                                               *)

LEMMA OneMore ==
  ASSUME AckInv, NEW m \in Messages, msgs' = Append(msgs, m)
  PROVE  LET e == Len(msgs) + 1
         IN /\ msgs' \in Seq(Messages) /\ DOMAIN msgs' = DOMAIN msgs \cup {e} /\ Len(msgs') = e
            /\ e \notin DOMAIN msgs /\ msgs'[e] = m /\ e \in Nat
            /\ \A d \in DOMAIN msgs : msgs'[d] = msgs[d] /\ d < e /\ d \in Nat
<1>1. msgs \in Seq(Messages)
  BY DEF AckInv, TypeOK
<1> QED
  BY <1>1

\* A new emit: it is nowhere else yet, and changes nothing about the others.
LEMMA NewEmit ==
  ASSUME AckInv, NEW m \in Messages, NEW e, e = Len(msgs) + 1, msgs' = Append(msgs, m),
         m.place \in {"dropped", "buffered", "observed"}, m.gen = 0, m.result = "none",
         UNCHANGED <<clientVars, serverVars>>, Loops(stack') = Loops(stack),
         pendingAcks \subseteq pendingAcks',
         \A a \in pendingAcks' :
           a \in pendingAcks \/ (m.form = "promise" /\ a = <<e, "promise">>)
             \/ (m.timed /\ connected /\ a = <<e, "timed">>),
         m.from = 0 /\ (m.form = "promise" \/ m.timed) =>
           /\ m.place = "observed" =>
                connected /\ <<e, IF m.timed THEN "timed" ELSE "promise">> \in pendingAcks'
           /\ m.place = "buffered" /\ ~m.timed => <<e, "promise">> \in pendingAcks',
         sendBuffer' = sendBuffer \/ (m.place = "buffered" /\ sendBuffer' = Append(sendBuffer, e))
  PROVE  /\ MessageOk' /\ PendingOk' /\ TrackedOk' /\ BufferOk' /\ ConnectionOk'
         /\ \A t : TaskOk(t) => TaskOk(t)'
         /\ \A f : FrameOk(f) => FrameOk(f)'
         /\ sendBuffer' \in Seq(DOMAIN msgs') /\ pendingAcks' \subseteq (DOMAIN msgs') \X {"promise", "timed"}
<1>1. /\ DOMAIN msgs' = DOMAIN msgs \cup {e} /\ e \notin DOMAIN msgs /\ msgs'[e] = m /\ e \in Nat
      /\ \A d \in DOMAIN msgs : msgs'[d] = msgs[d] /\ d < e /\ d \in Nat
  BY OneMore
<1>2. /\ UNCHANGED <<connected, serverSocket, attempt, attached, accepted, serverAcks, clientAcks, torn>>
      /\ sendBuffer \in Seq(DOMAIN msgs) /\ pendingAcks \subseteq (DOMAIN msgs) \X {"promise", "timed"}
      /\ serverSocket \in Nat
  BY ConnectionTypes DEF AckInv, TypeOK, clientVars, serverVars
<1>4. \A d \in DOMAIN msgs : Tracked(d)' = Tracked(d) /\ Untracked(d)' = Untracked(d)
                             /\ Pending(d)' = Pending(d) /\ IsSettled(d)' = IsSettled(d)
  BY <1>1, <1>2 DEF Tracked, Untracked, Pending, IsSettled
<1>18. /\ \A d \in DOMAIN msgs : /\ Entry(d)' = Entry(d) /\ Noted(d)' = Noted(d)
                                 /\ Awaited(d)' = Awaited(d) /\ Watched(d)' = Watched(d)
       /\ Entry(e)' = <<e, IF m.timed THEN "timed" ELSE "promise">>
  <2>1. \A d \in DOMAIN msgs : Entry(d)' = Entry(d)
    BY <1>1 DEF Entry
  <2>2. \A d \in DOMAIN msgs : Entry(d) \in pendingAcks' <=> Entry(d) \in pendingAcks
    BY <1>1 DEF Entry
  <2>3. \A d \in DOMAIN msgs : Noted(d)' = Noted(d)
    BY <2>1, <2>2 DEF Noted
  <2>4. \A d \in DOMAIN msgs : Awaited(d)' = Awaited(d)
    BY <2>1 DEF Awaited
  <2>5. \A d \in DOMAIN msgs : Watched(d)' = Watched(d)
    BY <1>2, <2>3, <2>4 DEF Watched
  <2>6. Entry(e)' = <<e, IF m.timed THEN "timed" ELSE "promise">>
    BY <1>1 DEF Entry
  <2> QED
    BY <2>1, <2>3, <2>4, <2>5, <2>6
<1>5. Pending(e)' /\ ~IsSettled(e)' /\ Untracked(e)' = (m.form = "callback" /\ ~m.timed)
  BY <1>1 DEF Pending, IsSettled, Untracked
<1>6. m.form \in {"callback", "promise"} /\ m.timed \in BOOLEAN
  BY DEF Messages
<1>7. ~Tracked(e) /\ (Tracked(e)' => m.form = "promise" \/ m.timed)
  BY <1>1, <1>2 DEF Tracked
<1>8. ConnectionOk'
  BY <1>2 DEF AckInv, ConnectionOk
<1>9. MessageOk'
  BY <1>1, <1>2, <1>4, <1>5 DEF AckInv, MessageOk
<1>10. PendingOk'
  <2>1. ASSUME NEW d \in DOMAIN msgs', msgs'[d].form = "callback", Tracked(d)'
        PROVE  msgs'[d].timed /\ Pending(d)'
    <3>1. CASE d = e
      BY <1>1, <1>5, <1>6, <1>7, <2>1, <3>1
    <3>2. CASE d # e
      BY <1>1, <1>4, <2>1, <3>2 DEF AckInv, PendingOk
    <3> QED
      BY <3>1, <3>2
  <2>2. ASSUME NEW a \in pendingAcks', a[2] = "promise" PROVE msgs'[a[1]].form = "promise"
    <3>1. CASE a \in pendingAcks
      BY <1>1, <1>2, <2>2, <3>1 DEF AckInv, PendingOk
    <3>2. CASE a = <<e, "promise">> /\ m.form = "promise"
      BY <1>1, <3>2
    <3>3. CASE a = <<e, "timed">>
      BY <2>2, <3>3
    <3> QED
      BY <3>1, <3>2, <3>3
  <2> QED
    BY <2>1, <2>2 DEF PendingOk
<1>11. TrackedOk'
  <2> SUFFICES ASSUME NEW d \in DOMAIN msgs', msgs'[d].from = 0, ~Untracked(d)', Pending(d)'
               PROVE  /\ msgs'[d].place = "observed" \/ msgs'[d].gen # 0 => Watched(d)'
                      /\ msgs'[d].gen # 0 => msgs'[d].gen = serverSocket'
                      /\ msgs'[d].place = "buffered" /\ ~msgs'[d].timed => Noted(d)' \/ Awaited(d)'
    BY DEF TrackedOk
  <2>1. CASE d = e
    BY <1>1, <1>2, <1>5, <1>6, <1>18, <2>1 DEF Noted, Watched
  <2>2. CASE d # e
    BY <1>1, <1>2, <1>4, <1>18, <2>2 DEF AckInv, TrackedOk
  <2> QED
    BY <2>1, <2>2
<1>12. sendBuffer' \in Seq(DOMAIN msgs')
  <2>1. sendBuffer \in Seq(DOMAIN msgs') /\ e \in DOMAIN msgs'
    BY <1>1, <1>2
  <2>2. Append(sendBuffer, e) \in Seq(DOMAIN msgs')
    BY <2>1, AppendProperties
  <2> QED
    BY <2>1, <2>2
<1>13. BufferOk'
  <2>1. \A i \in DOMAIN sendBuffer : sendBuffer[i] \in DOMAIN msgs
    BY <1>2
  <2>2. CASE sendBuffer' = sendBuffer
    BY <1>1, <1>4, <2>1, <2>2 DEF AckInv, BufferOk
  <2>3. CASE m.place = "buffered" /\ sendBuffer' = Append(sendBuffer, e)
    <3> DEFINE last == Len(sendBuffer) + 1
    <3>1. /\ sendBuffer'[last] = e
          /\ \A i \in DOMAIN sendBuffer' : i = last \/ (i \in DOMAIN sendBuffer /\ sendBuffer'[i] = sendBuffer[i])
          /\ \A i \in DOMAIN sendBuffer' : ~(last < i)
      BY <1>2, <2>3, AppendFacts
    <3> HIDE DEF last
    <3>2. Ascending(sendBuffer')
      BY <1>1, <2>1, <3>1 DEF AckInv, BufferOk, Ascending
    <3>3. \A i \in DOMAIN sendBuffer' : msgs'[sendBuffer'[i]].place = "buffered" /\ ~IsSettled(sendBuffer[i])'
      BY <1>1, <1>4, <1>5, <2>1, <2>3, <3>1 DEF AckInv, BufferOk
    <3> QED
      BY <3>2, <3>3 DEF BufferOk
  <2> QED
    BY <2>2, <2>3
<1>14. ASSUME NEW t, TaskOk(t) PROVE TaskOk(t)'
  BY <1>1, <1>2, <1>4, <1>14 DEF TaskOk
<1>15. ASSUME NEW r, RestOk(r) PROVE RestOk(r)'
  <2>1. /\ r \in Seq(DOMAIN msgs) /\ r \in Seq(DOMAIN msgs') /\ r # <<>> /\ r[1] \in DOMAIN msgs
        /\ \A i \in DOMAIN r : r[i] \in DOMAIN msgs /\ r[i] < e
    <3>1. r \in Seq(DOMAIN msgs) /\ r # <<>>
      BY <1>15 DEF RestOk
    <3>2. r \in Seq(DOMAIN msgs') /\ r[1] \in DOMAIN msgs /\ \A i \in DOMAIN r : r[i] \in DOMAIN msgs
      BY <1>1, <3>1
    <3> QED
      BY <1>1, <3>1, <3>2
  <2>2. \A i \in DOMAIN r, j \in DOMAIN sendBuffer' : r[i] < sendBuffer'[j]
    <3>1. \A j \in DOMAIN sendBuffer' :
            sendBuffer'[j] = e \/ (j \in DOMAIN sendBuffer /\ sendBuffer'[j] = sendBuffer[j])
      <4>1. ASSUME NEW j \in DOMAIN Append(sendBuffer, e)
            PROVE  \/ Append(sendBuffer, e)[j] = e
                   \/ j \in DOMAIN sendBuffer /\ Append(sendBuffer, e)[j] = sendBuffer[j]
        BY <1>2
      <4> QED
        BY <4>1
    <3> QED
      BY <1>15, <2>1, <3>1 DEF RestOk
  <2>3. \A i \in DOMAIN r : msgs'[r[i]].place = "buffered"
    BY <1>1, <1>15, <2>1 DEF RestOk
  <2>4. connected' /\ msgs'[r[1]].timed /\ Pending(r[1])' => Noted(r[1])'
    BY <1>1, <1>2, <1>4, <1>15, <1>18, <2>1 DEF RestOk
  <2> QED
    BY <1>15, <2>1, <2>2, <2>3, <2>4 DEF RestOk
<1>19. ASSUME NEW r, LoopOk(r) PROVE LoopOk(r)'
  <2>1. ~connected /\ ~connected' /\ \A a \in pendingAcks : msgs[a[1]].form = "promise"
    BY <1>2, <1>19 DEF LoopOk
  <2>2. RejectersOk(r)'
    <3>1. \A a \in r : a[1] \in DOMAIN msgs
      BY <1>19 DEF LoopOk, RejectersOk
    <3> QED
      BY <1>1, <1>19, <3>1 DEF LoopOk, RejectersOk
  <2>3. \A a \in pendingAcks' : msgs'[a[1]].form = "promise"
    <3>1. \A a \in pendingAcks : a[1] \in DOMAIN msgs
      BY <1>2
    <3> QED
      BY <1>1, <2>1, <3>1
  <2> QED
    BY <2>1, <2>2, <2>3 DEF LoopOk
<1>16. ASSUME NEW f, FrameOk(f) PROVE FrameOk(f)'
  BY <1>1, <1>2, <1>15, <1>16, <1>19 DEF FrameOk
<1>17. pendingAcks' \subseteq (DOMAIN msgs') \X {"promise", "timed"}
  BY <1>1, <1>2
<1> QED
  BY <1>8, <1>9, <1>10, <1>11, <1>12, <1>13, <1>14, <1>16, <1>17

\* The observers of an emit are called; it is the first frame of this emit.
LEMMA Observed ==
  ASSUME AckInv, NEW e, e = Len(msgs) + 1, e \in Emits, NEW m \in Messages, msgs' = Append(msgs, m),
         m.place = "observed", NEW was \in BOOLEAN, was => connected,
         UNCHANGED <<clientVars, serverVars>>,
         stack' = <<[op |-> "emit", of |-> e, was |-> was]>> \o stack,
         \A f : FrameOk(f) => FrameOk(f)'
  PROVE  stack' \in Seq(Frames) /\ StackOk'
<1> DEFINE f == [op |-> "emit", of |-> e, was |-> was]
<1>1. /\ stack \in Seq(Frames) /\ Distinct(stack) /\ FlushIsLast(stack) /\ OneLoop(stack)
      /\ \A g \in Elements(stack) : FrameOk(g)
  BY DEF AckInv, TypeOK, StackOk
<1>2. e \in DOMAIN msgs' /\ msgs'[e] = m /\ e \notin DOMAIN msgs
  BY OneMore
<1>3. \A g \in Elements(stack) : g.op = "emit" => g.of # e
  BY <1>1, <1>2 DEF FrameOk
<1>4. f \in Frames /\ f.op = "emit" /\ f.of = e /\ f.was = was
  BY DEF Frames
<1>5. was => attempt' \notin attached'
  BY ConnectionTypes DEF AckInv, ConnectionOk, clientVars, serverVars
<1> HIDE DEF f
<1>6. FrameOk(f)'
  BY <1>2, <1>4, <1>5 DEF FrameOk
<1>7. /\ stack' \in Seq(Frames) /\ Elements(stack') = {f} \cup Elements(stack)
      /\ Distinct(stack') /\ FlushIsLast(stack') /\ OneLoop(stack')
  BY <1>1, <1>3, <1>4, Pushed DEF f
<1> QED
  BY <1>1, <1>6, <1>7 DEF StackOk

LEMMA EmitStep ==
  ASSUME AckInv, NEW form \in {"callback", "promise"}, NEW timed \in BOOLEAN, NEW volatile \in BOOLEAN,
         ClientEmit(form, timed, volatile) \/ \E s \in Sockets : ServerEmit(s, form, timed, volatile)
  PROVE  AckInv'
<1> PICK e : e = Len(msgs) + 1
  OBVIOUS
<1> PICK from \in 0..MaxConnections, place \in {"dropped", "buffered", "observed"} :
      /\ Len(msgs) < MaxEmits /\ msgs' = Append(msgs, Message(from, form, timed, place))
      /\ UNCHANGED <<clientVars, serverVars, microtasks>>
      /\ stack' = IF place = "observed" THEN <<[op |-> "emit", of |-> e, was |-> connected]>> \o stack
                  ELSE stack
      /\ \/ /\ from = 0 /\ (place = "observed" => connected) /\ (connected => place = "observed")
            /\ sendBuffer' = IF place = "buffered" THEN Append(sendBuffer, e) ELSE sendBuffer
            /\ pendingAcks' = pendingAcks
                 \cup (IF form = "promise" THEN {<<e, "promise">>} ELSE {})
                 \cup (IF timed /\ connected THEN {<<e, "timed">>} ELSE {})
         \/ from # 0 /\ UNCHANGED <<sendBuffer, pendingAcks>>
  <2>1. CASE ClientEmit(form, timed, volatile)
    <3>1. 0 \in 0..MaxConnections /\ (connected => connected = TRUE)
      BY ConnectionTypes, AcknowledgementAssumption
    <3> DEFINE place == IF connected THEN "observed" ELSE IF volatile THEN "dropped" ELSE "buffered"
    <3>2. /\ Len(msgs) < MaxEmits /\ msgs' = Append(msgs, Message(0, form, timed, place))
          /\ UNCHANGED <<clientVars, serverVars, microtasks>>
          /\ stack' = IF connected THEN <<[op |-> "emit", of |-> e, was |-> TRUE]>> \o stack ELSE stack
          /\ sendBuffer' = IF place = "buffered" THEN Append(sendBuffer, e) ELSE sendBuffer
          /\ pendingAcks' = pendingAcks
               \cup (IF form = "promise" THEN {<<e, "promise">>} ELSE {})
               \cup (IF timed /\ connected THEN {<<e, "timed">>} ELSE {})
      BY <2>1 DEF ClientEmit
    <3>3. /\ place \in {"dropped", "buffered", "observed"} /\ (place = "observed" <=> connected)
          /\ stack' = IF place = "observed" THEN <<[op |-> "emit", of |-> e, was |-> connected]>> \o stack
                      ELSE stack
      BY <3>1, <3>2
    <3> HIDE DEF place
    <3> QED
      BY <3>1, <3>2, <3>3
  <2>2. CASE \E s \in Sockets : ServerEmit(s, form, timed, volatile)
    <3>1. PICK s \in Sockets : ServerEmit(s, form, timed, volatile)
      BY <2>2
    <3>2. s \in 0..MaxConnections /\ s # 0
      BY AcknowledgementAssumption DEF Sockets
    <3> DEFINE place == IF volatile /\ ~connected THEN "dropped" ELSE "observed"
    <3>3. /\ Len(msgs) < MaxEmits /\ msgs' = Append(msgs, Message(s, form, timed, place))
          /\ UNCHANGED <<clientVars, serverVars, microtasks, sendBuffer, pendingAcks>>
          /\ stack' = IF place = "dropped" THEN stack
                      ELSE <<[op |-> "emit", of |-> e, was |-> connected]>> \o stack
      BY <3>1 DEF ServerEmit
    <3>4. /\ place \in {"dropped", "buffered", "observed"}
          /\ stack' = IF place = "observed" THEN <<[op |-> "emit", of |-> e, was |-> connected]>> \o stack
                      ELSE stack
      BY <3>3
    <3> HIDE DEF place
    <3> QED
      BY <3>2, <3>3, <3>4
  <2> QED
    BY <2>1, <2>2
<1> DEFINE m == Message(from, form, timed, place)
<1>1. /\ m \in Messages /\ m.from = from /\ m.form = form /\ m.timed = timed /\ m.place = place
      /\ m.gen = 0 /\ m.result = "none"
  BY AcknowledgementAssumption DEF Message, Messages
<1>2. e \in Emits /\ Len(msgs') <= MaxEmits
  <2>1. Len(msgs) \in Nat
    BY DEF AckInv, TypeOK
  <2> QED
    BY <1>1, <2>1, OneMore, AcknowledgementAssumption DEF Emits
<1> HIDE DEF m
<1>3. /\ pendingAcks \subseteq pendingAcks'
      /\ \A a \in pendingAcks' :
           a \in pendingAcks \/ (m.form = "promise" /\ a = <<e, "promise">>)
             \/ (m.timed /\ connected /\ a = <<e, "timed">>)
      /\ m.from = 0 /\ (m.form = "promise" \/ m.timed) =>
           /\ m.place = "observed" =>
                connected /\ <<e, IF m.timed THEN "timed" ELSE "promise">> \in pendingAcks'
           /\ m.place = "buffered" /\ ~m.timed => <<e, "promise">> \in pendingAcks'
      /\ sendBuffer' = sendBuffer \/ (m.place = "buffered" /\ sendBuffer' = Append(sendBuffer, e))
  BY <1>1
<1>8. Loops(stack') = Loops(stack)
  <2> DEFINE f == [op |-> "emit", of |-> e, was |-> connected]
  <2>1. stack \in Seq(Frames) /\ f \in Frames /\ f.op = "emit"
    BY <1>2, ConnectionTypes DEF AckInv, TypeOK, Frames
  <2>2. Elements(<<f>> \o stack) = {f} \cup Elements(stack)
    BY <2>1, PushElements
  <2>3. stack' = <<f>> \o stack \/ stack' = stack
    OBVIOUS
  <2> HIDE DEF f
  <2> QED
    BY <2>1, <2>2, <2>3 DEF Loops
<1>4. /\ MessageOk' /\ PendingOk' /\ TrackedOk' /\ BufferOk' /\ ConnectionOk'
      /\ \A t : TaskOk(t) => TaskOk(t)'
      /\ \A f : FrameOk(f) => FrameOk(f)'
      /\ sendBuffer' \in Seq(DOMAIN msgs')
      /\ pendingAcks' \subseteq (DOMAIN msgs') \X {"promise", "timed"}
  BY <1>1, <1>3, <1>8, NewEmit DEF m
<1>5. stack' \in Seq(Frames) /\ StackOk'
  <2>1. CASE place = "observed"
    <3>1. connected \in BOOLEAN
      BY ConnectionTypes
    <3> QED
      BY <1>1, <1>2, <1>4, <2>1, <3>1, Observed DEF m
  <2>2. CASE place # "observed"
    BY <1>4, <2>2 DEF AckInv, StackOk, TypeOK
  <2> QED
    BY <2>1, <2>2
<1>6. TasksOk'
  BY <1>4 DEF AckInv, TasksOk
<1>7. TypeOK'
  <2>1. msgs' \in Seq(Messages)
    BY <1>1, OneMore DEF m
  <2> QED
    BY <1>2, <1>4, <1>5, <2>1 DEF AckInv, TypeOK, clientVars, serverVars
<1> QED
  BY <1>4, <1>5, <1>6, <1>7 DEF AckInv

-----------------------------------------------------------------------------
(* Settling.                                                               *)

LEMMA KeptAscending ==
  ASSUME NEW T, T \subseteq Nat, NEW q \in Seq(T), NEW S, Ascending(q)
  PROVE  /\ Ascending(Kept(q, S)) /\ Kept(q, S) \in Seq(S)
         /\ Elements(Kept(q, S)) = {x \in Elements(q) : x \in S}
<1> DEFINE p == Kept(q, S)
<1>1. Subsequence(p, q, S)
  BY KeptFacts
<1> HIDE DEF p
<1>2. Ascending(p)
  <2> SUFFICES ASSUME NEW j1 \in DOMAIN p, NEW j2 \in DOMAIN p, j1 < j2 PROVE p[j1] < p[j2]
    BY DEF Ascending
  <2>1. PICK i1 \in DOMAIN q, i2 \in DOMAIN q : i1 < i2 /\ p[j1] = q[i1] /\ p[j2] = q[i2]
    BY <1>1 DEF Subsequence
  <2> QED
    BY <2>1 DEF Ascending
<1>3. p \in Seq(S) /\ \A j \in DOMAIN p : p[j] \in S
  BY <1>1 DEF Subsequence
<1>4. Elements(p) = {x \in Elements(q) : x \in S}
  BY <1>1, <1>3 DEF Elements, Subsequence
<1> QED
  BY <1>2, <1>3, <1>4 DEF p

\* An answer or a timer settles an emit: nobody tracks it any longer, and it is in no buffer.
LEMMA Settled ==
  ASSUME AckInv, NEW e \in DOMAIN msgs, NEW how \in {"answer", "timeout"}, ~IsSettled(e),
         msgs[e].timed \/ (msgs[e].place = "answered" /\ (Untracked(e) => Pending(e))),
         msgs' = [msgs EXCEPT ![e] = Settle(@, how)], pendingAcks' = Forget(e),
         UNCHANGED <<clientVars, serverVars>>,
         \/ sendBuffer' = Kept(sendBuffer, DOMAIN msgs \ {e})
         \/ UNCHANGED sendBuffer /\ msgs[e].place # "buffered",
         microtasks' \in Seq(Tasks), Distinct(microtasks'),
         \A t \in Elements(microtasks') : TaskOk(t) /\ (t.op = "answer" => msgs[e].timed \/ t.of # e),
         UNCHANGED stack, how = "answer" => stack = <<>>
  PROVE  AckInv'
<1> PICK m : m = Settle(msgs[e], how)
  OBVIOUS
<1>1. msgs \in Seq(Messages) /\ msgs[e] \in Messages /\ DOMAIN msgs \subseteq Nat
  BY DEF AckInv, TypeOK
<1>2. /\ m \in Messages /\ m.from = msgs[e].from /\ m.form = msgs[e].form /\ m.timed = msgs[e].timed
      /\ m.place = msgs[e].place /\ m.gen = msgs[e].gen
      /\ m.result = (IF msgs[e].result = "none" THEN how ELSE msgs[e].result) /\ m.result # "none"
  <2>1. how \in {"answer", "timeout", "disconnect"}
    OBVIOUS
  <2> QED
    BY <1>1, <2>1, SettleFacts
<1>3. msgs' = [msgs EXCEPT ![e] = m]
  OBVIOUS
<1>4. /\ msgs' \in Seq(Messages) /\ DOMAIN msgs' = DOMAIN msgs /\ Len(msgs') = Len(msgs)
      /\ msgs'[e] = m /\ \A d \in DOMAIN msgs : d # e => msgs'[d] = msgs[d]
  BY <1>2, <1>3, OneChanged
<1>5. UNCHANGED <<connected, serverSocket, attempt, begun, attached, accepted, serverAcks, clientAcks,
                  torn>>
  BY DEF clientVars, serverVars
<1>6. \A d \in DOMAIN msgs : d # e => /\ Tracked(d)' = Tracked(d) /\ Untracked(d)' = Untracked(d)
                                      /\ Pending(d)' = Pending(d) /\ IsSettled(d)' = IsSettled(d)
  BY <1>4 DEF Tracked, Untracked, Pending, IsSettled, Forget
<1>20. \A d \in DOMAIN msgs : d # e => /\ Entry(d)' = Entry(d) /\ Noted(d)' = Noted(d)
                                       /\ Awaited(d)' = Awaited(d) /\ Watched(d)' = Watched(d)
  <2>1. \A d \in DOMAIN msgs : d # e => Entry(d)' = Entry(d)
    BY <1>4 DEF Entry
  <2>2. \A d \in DOMAIN msgs : d # e => (Entry(d) \in pendingAcks' <=> Entry(d) \in pendingAcks)
    BY DEF Entry, Forget
  <2> QED
    BY <1>5, <2>1, <2>2 DEF Noted, Awaited, Watched
<1>7. /\ ~Pending(e)' /\ Untracked(e)' = Untracked(e)
      /\ msgs[e].form = "callback" => ~Tracked(e)'
  <2>1. msgs[e].form = "callback" => <<e, "promise">> \notin pendingAcks
    BY DEF AckInv, PendingOk
  <2> QED
    BY <1>2, <1>4, <2>1 DEF Pending, Untracked, Tracked, Forget
<1>8. /\ sendBuffer \in Seq(DOMAIN msgs) /\ sendBuffer' \in Seq(DOMAIN msgs)
      /\ Elements(sendBuffer') \subseteq Elements(sendBuffer) /\ e \notin Elements(sendBuffer')
      /\ Ascending(sendBuffer')
  <2>1. sendBuffer \in Seq(DOMAIN msgs) /\ Ascending(sendBuffer)
    BY DEF AckInv, TypeOK, BufferOk
  <2>2. CASE sendBuffer' = Kept(sendBuffer, DOMAIN msgs \ {e})
    <3>2. Elements(sendBuffer') = {x \in Elements(sendBuffer) : x \in DOMAIN msgs \ {e}}
          /\ sendBuffer' \in Seq(DOMAIN msgs \ {e}) /\ Ascending(sendBuffer')
      BY <1>1, <2>1, <2>2, KeptAscending
    <3>3. sendBuffer' \in Seq(DOMAIN msgs)
      BY <3>2
    <3> QED
      BY <2>1, <3>2, <3>3
  <2>3. CASE UNCHANGED sendBuffer /\ msgs[e].place # "buffered"
    BY <2>1, <2>3, NotBuffered
  <2> QED
    BY <2>2, <2>3
<1>9. \A i \in DOMAIN sendBuffer' :
        /\ sendBuffer'[i] \in DOMAIN msgs /\ sendBuffer'[i] # e
        /\ \E j \in DOMAIN sendBuffer : sendBuffer'[i] = sendBuffer[j]
  <2> SUFFICES ASSUME NEW i \in DOMAIN sendBuffer'
               PROVE  /\ sendBuffer'[i] \in DOMAIN msgs /\ sendBuffer'[i] # e
                      /\ \E j \in DOMAIN sendBuffer : sendBuffer'[i] = sendBuffer[j]
    OBVIOUS
  <2>1. sendBuffer'[i] \in Elements(sendBuffer') /\ sendBuffer'[i] \in DOMAIN msgs
    BY <1>8 DEF Elements
  <2>2. sendBuffer'[i] \in Elements(sendBuffer) /\ sendBuffer'[i] # e
    BY <1>8, <2>1
  <2> QED
    BY <2>1, <2>2 DEF Elements
<1>10. pendingAcks' \subseteq pendingAcks /\ pendingAcks \subseteq (DOMAIN msgs) \X {"promise", "timed"}
  BY DEF AckInv, TypeOK, Forget
<1>11. TypeOK'
  BY <1>4, <1>8, <1>10 DEF AckInv, TypeOK, clientVars, serverVars
<1>12. ConnectionOk'
  BY <1>5 DEF AckInv, ConnectionOk
<1>13. MessageOk'
  BY <1>2, <1>4, <1>5, <1>6, <1>7 DEF AckInv, MessageOk, IsSettled, Untracked
<1>14. PendingOk'
  <2>1. \A d \in DOMAIN msgs' : msgs'[d].form = "callback" /\ Tracked(d)' => msgs'[d].timed /\ Pending(d)'
    BY <1>2, <1>4, <1>6, <1>7 DEF AckInv, PendingOk
  <2>2. \A a \in pendingAcks' : a[2] = "promise" => msgs'[a[1]].form = "promise"
    <3>1. \A a \in pendingAcks' : a[1] \in DOMAIN msgs /\ a \in pendingAcks
      BY <1>10
    <3> QED
      BY <1>2, <1>4, <3>1 DEF AckInv, PendingOk
  <2> QED
    BY <2>1, <2>2 DEF PendingOk
<1>15. TrackedOk'
  BY <1>4, <1>5, <1>6, <1>7, <1>20 DEF AckInv, TrackedOk
<1>16. BufferOk'
  <2>1. \A i \in DOMAIN sendBuffer' : msgs'[sendBuffer'[i]] = msgs[sendBuffer'[i]]
                                      /\ msgs[sendBuffer'[i]].place = "buffered"
    BY <1>4, <1>9 DEF AckInv, BufferOk
  <2>2. \A i \in DOMAIN sendBuffer' : ~(msgs[sendBuffer'[i]].timed /\ msgs[sendBuffer'[i]].result # "none")
    BY <1>9 DEF AckInv, BufferOk, IsSettled
  <2> QED
    BY <1>8, <2>1, <2>2 DEF BufferOk, IsSettled
<1>17. TasksOk'
  <2>1. ASSUME NEW t \in Elements(microtasks') PROVE TaskOk(t)'
    <3>1. TaskOk(t) /\ (t.op = "answer" => msgs[e].timed \/ t.of # e)
      OBVIOUS
    <3> QED
      BY <1>2, <1>4, <1>5, <1>6, <3>1 DEF TaskOk, Untracked
  <2> QED
    BY <2>1 DEF TasksOk
<1>18. ASSUME NEW f \in Elements(stack), FrameOk(f) PROVE FrameOk(f)'
  <2>1. ASSUME f.op = "flush" PROVE RestOk(f.rest)'
    <3> PICK r : r = f.rest
      OBVIOUS
    <3>1. RestOk(r) /\ r \in Seq(DOMAIN msgs) /\ r # <<>>
      BY <1>18, <2>1 DEF FrameOk, RestOk
    <3>2. r[1] \in DOMAIN msgs /\ \A i \in DOMAIN r : r[i] \in DOMAIN msgs
      BY <3>1
    <3>3. r \in Seq(DOMAIN msgs')
      BY <1>4, <3>1
    <3>4. \A i \in DOMAIN r, j \in DOMAIN sendBuffer' : r[i] < sendBuffer'[j]
      BY <1>9, <3>1 DEF RestOk
    <3>5. \A i \in DOMAIN r : msgs'[r[i]].place = "buffered"
      BY <1>2, <1>4, <3>1, <3>2 DEF RestOk
    <3>6. connected' /\ msgs'[r[1]].timed /\ Pending(r[1])' => Noted(r[1])'
      BY <1>4, <1>5, <1>6, <1>7, <1>20, <3>1, <3>2 DEF RestOk
    <3> QED
      BY <3>1, <3>3, <3>4, <3>5, <3>6 DEF RestOk
  <2>2. ASSUME f.op = "reject" PROVE LoopOk(f.rest)'
    <3>1. LoopOk(f.rest)
      BY <1>18, <2>2 DEF FrameOk
    <3>2. how = "timeout"
      BY DEF Elements
    <3>3. RejectersOk(f.rest)'
      BY <1>2, <1>4, <3>1, <3>2 DEF LoopOk, RejectersOk
    <3>4. \A a \in pendingAcks' : a[1] \in DOMAIN msgs /\ a \in pendingAcks
      BY <1>10
    <3>5. \A a \in pendingAcks' : msgs'[a[1]].form = "promise"
      BY <1>2, <1>4, <3>1, <3>4 DEF LoopOk
    <3> QED
      BY <1>5, <3>1, <3>3, <3>5 DEF LoopOk
  <2> QED
    BY <1>2, <1>4, <1>5, <1>18, <2>1, <2>2 DEF FrameOk
<1>19. StackOk'
  BY <1>18 DEF AckInv, StackOk
<1> QED
  BY <1>11, <1>12, <1>13, <1>14, <1>15, <1>16, <1>17, <1>19 DEF AckInv

LEMMA AnswerStep == ASSUME AckInv, RunAnswer PROVE AckInv'
<1> PICK e : e = Task.of
  OBVIOUS
<1>1. /\ stack = <<>> /\ microtasks # <<>> /\ Task.op = "answer" /\ microtasks' = Tail(microtasks)
      /\ UNCHANGED <<clientVars, serverVars, sendBuffer, stack>>
  BY DEF RunAnswer, Due, Task
<1>2. /\ e \in DOMAIN msgs /\ msgs[e].place = "answered" /\ (Untracked(e) => Pending(e))
      /\ microtasks' \in Seq(Tasks) /\ Distinct(microtasks')
      /\ \A t \in Elements(microtasks') : TaskOk(t) /\ (t.op = "answer" => t.of # e)
  BY <1>1, Running DEF TaskOk
<1>3. CASE IsSettled(e)
  <2>1. UNCHANGED Emitted /\ UNCHANGED <<clientVars, serverVars, ackVars, stack>>
    BY <1>1, <1>3 DEF RunAnswer, Emitted, clientVars, ackVars
  <2>2. TypeOK' /\ ConnectionOk'
    BY <1>2, <2>1 DEF AckInv, TypeOK, ConnectionOk, clientVars, serverVars, ackVars
  <2>3. \A f \in Elements(stack) : f.op = "emit" /\ f.was => attempt' \notin attached'
    BY <2>1 DEF AckInv, StackOk, FrameOk, clientVars, serverVars
  <2> QED
    BY <1>2, <2>1, <2>2, <2>3, ConnectionStep DEF serverVars
<1>4. CASE ~IsSettled(e)
  <2>1. msgs' = [msgs EXCEPT ![e] = Settle(@, "answer")] /\ pendingAcks' = Forget(e)
    BY <1>4 DEF RunAnswer
  <2> QED
    BY <1>1, <1>2, <1>4, <2>1, Settled
<1> QED
  BY <1>3, <1>4

LEMMA TimeoutStep == ASSUME AckInv, NEW e, Timeout(e) PROVE AckInv'
<1>1. /\ e \in DOMAIN msgs /\ msgs[e].timed /\ ~IsSettled(e)
      /\ msgs' = [msgs EXCEPT ![e] = Settle(@, "timeout")] /\ pendingAcks' = Forget(e)
      /\ sendBuffer' = Kept(sendBuffer, DOMAIN msgs \ {e})
      /\ UNCHANGED <<clientVars, serverVars, microtasks, stack>>
  BY DEF Timeout
<1>2. /\ microtasks' \in Seq(Tasks) /\ Distinct(microtasks')
      /\ \A t \in Elements(microtasks') : TaskOk(t)
  BY <1>1 DEF AckInv, TypeOK, TasksOk
<1> QED
  BY <1>1, <1>2, Settled

-----------------------------------------------------------------------------
(* Disconnecting: the loop over the rejecters.                             *)

\* What becomes of an emit when some rejecters are called: m instead of what it was.
RejectedAs(m, called, e) ==
  /\ m \in Messages /\ m.from = msgs[e].from /\ m.form = msgs[e].form /\ m.timed = msgs[e].timed
  /\ m.gen = msgs[e].gen
  /\ m.place = msgs[e].place
     \/ (m.place = "interrupted" /\ msgs[e].place = "observed" /\ m.form = "promise")
  /\ <<e, "promise">> \notin called /\ <<e, "timed">> \notin called => m = msgs[e]
  /\ Entry(e) \in called => m.result # "none" \/ m.place = "interrupted"
  /\ msgs[e].timed /\ m.result # msgs[e].result => Settles(called, e)

LEMMA RejectedFacts ==
  ASSUME AckInv, NEW rest, RejectersOk(rest), NEW called \in SUBSET rest, NEW e \in DOMAIN msgs
  PROVE  RejectedAs(Rejected(called, e), called, e)
<1> PICK m : m = Rejected(called, e)
  OBVIOUS
<1> SUFFICES RejectedAs(m, called, e)
  OBVIOUS
<1>1. msgs[e] \in Messages
  BY DEF AckInv, TypeOK
<1>2. <<e, "promise">> \in called => msgs[e].form = "promise"
  <2>1. <<e, "promise">>[1] = e /\ <<e, "promise">>[2] = "promise"
    OBVIOUS
  <2> QED
    BY <2>1 DEF RejectersOk
<1>3. CASE Settles(called, e)
  <2>1. m = Settle(msgs[e], "disconnect")
    BY <1>3 DEF Rejected
  <2>2. /\ m \in Messages /\ m.from = msgs[e].from /\ m.form = msgs[e].form /\ m.timed = msgs[e].timed
        /\ m.place = msgs[e].place /\ m.gen = msgs[e].gen /\ m.result # "none"
    BY <1>1, <2>1, SettleFacts
  <2>3. <<e, "promise">> \in called \/ <<e, "timed">> \in called
    BY <1>3 DEF Settles
  <2> QED
    BY <1>3, <2>2, <2>3 DEF RejectedAs
<1>4. CASE ~Settles(called, e) /\ <<e, "promise">> \in called /\ ~msgs[e].timed
  <2>1. m = [msgs[e] EXCEPT !.place = "interrupted"]
    BY <1>4 DEF Rejected
  <2>2. /\ m \in Messages /\ m.from = msgs[e].from /\ m.form = msgs[e].form /\ m.timed = msgs[e].timed
        /\ m.gen = msgs[e].gen /\ m.place = "interrupted"
    BY <1>1, <2>1 DEF Messages
  <2>3. msgs[e].place = "observed"
    BY <1>4 DEF Settles
  <2> QED
    BY <1>2, <1>4, <2>2, <2>3 DEF RejectedAs
<1>5. CASE ~Settles(called, e) /\ ~(<<e, "promise">> \in called /\ ~msgs[e].timed)
  <2>1. m = msgs[e]
    BY <1>5 DEF Rejected
  <2>2. Entry(e) \notin called
    BY <1>5 DEF Entry, Settles
  <2> QED
    BY <1>1, <1>5, <2>1, <2>2 DEF RejectedAs
<1> QED
  BY <1>3, <1>4, <1>5

\* The buffer without the packets whose timed emit is settled.
LEMMA BufferKept ==
  ASSUME AckInv, NEW S, S \subseteq DOMAIN msgs, sendBuffer' = Kept(sendBuffer, S)
  PROVE  /\ sendBuffer \in Seq(DOMAIN msgs) /\ sendBuffer' \in Seq(DOMAIN msgs)
         /\ Ascending(sendBuffer')
         /\ \A i \in DOMAIN sendBuffer' :
              /\ sendBuffer'[i] \in S
              /\ \E j \in DOMAIN sendBuffer : sendBuffer'[i] = sendBuffer[j]
<1>1. sendBuffer \in Seq(DOMAIN msgs) /\ DOMAIN msgs \subseteq Nat /\ Ascending(sendBuffer)
  BY DEF AckInv, TypeOK, BufferOk
<1>2. /\ Ascending(sendBuffer') /\ sendBuffer' \in Seq(S)
      /\ Elements(sendBuffer') = {x \in Elements(sendBuffer) : x \in S}
  BY <1>1, KeptAscending
<1>3. sendBuffer' \in Seq(DOMAIN msgs)
  <2>1. ASSUME NEW T, NEW U, T \subseteq U, NEW q \in Seq(T) PROVE q \in Seq(U)
    BY <2>1
  <2> QED
    BY <1>2, <2>1
<1>4. \A i \in DOMAIN sendBuffer' : sendBuffer'[i] \in S /\ sendBuffer'[i] \in Elements(sendBuffer)
  BY <1>2 DEF Elements
<1>5. \A i \in DOMAIN sendBuffer' : \E j \in DOMAIN sendBuffer : sendBuffer'[i] = sendBuffer[j]
  BY <1>4 DEF Elements
<1> QED
  BY <1>1, <1>2, <1>3, <1>4, <1>5

\* The loop begins, or goes on: `rest` are the rejecters it has to call, `below` is what
\* comes after it.
LEMMA LoopStep ==
  ASSUME AckInv, NEW rest, RejectersOk(rest), NEW below, RejectFrom(rest, below),
         connected' \in BOOLEAN, ~connected',
         below \in Seq(Frames), Distinct(below), FlushIsLast(below), OneLoop(below), Loops(below) = {},
         \A f \in Elements(below) : FrameOk(f) \/ (f.op = "leaving" /\ serverSocket # 0),
         UNCHANGED <<serverSocket, attempt, begun, attached, accepted, receiving, active, torn>>,
         serverAcks' \subseteq serverAcks, clientAcks' \subseteq clientAcks, ConnectionOk',
         pendingAcks' \subseteq pendingAcks, \A a \in pendingAcks' : msgs[a[1]].form = "promise",
         \A e \in DOMAIN msgs : /\ Watched(e) => Entry(e) \in rest
                                /\ Noted(e) \/ Awaited(e) => Entry(e) \in rest \/ Entry(e) \in pendingAcks',
         microtasks' \in Seq(Tasks), Distinct(microtasks'),
         \A t \in Elements(microtasks') : TaskOk(t)
  PROVE  AckInv'
<1> PICK called \in SUBSET rest :
      LET callbacks == {r \in called : msgs[r[1]].form = "callback"}
          unsent == {e \in DOMAIN msgs : ~(msgs[e].timed /\ Settles(called, e))}
      IN /\ \/ callbacks = {} /\ called = rest /\ stack' = below
            \/ /\ \E r \in callbacks : callbacks = {r}
               /\ stack' = <<[op |-> "reject", rest |-> rest \ called]>> \o below
         /\ msgs' = [e \in DOMAIN msgs |-> Rejected(called, e)]
         /\ sendBuffer' = Kept(sendBuffer, unsent)
  BY DEF RejectFrom
<1> PICK unsent : unsent = {e \in DOMAIN msgs : ~(msgs[e].timed /\ Settles(called, e))}
  OBVIOUS
<1> DEFINE f0 == [op |-> "reject", rest |-> rest \ called]
<1>1. /\ msgs \in Seq(Messages) /\ DOMAIN msgs' = DOMAIN msgs
      /\ \A e \in DOMAIN msgs : RejectedAs(msgs'[e], called, e)
  BY RejectedFacts DEF AckInv, TypeOK
<1>2. /\ called = rest /\ stack' = below
      \/ stack' = <<f0>> \o below
  OBVIOUS
<1>3. /\ sendBuffer \in Seq(DOMAIN msgs) /\ sendBuffer' \in Seq(DOMAIN msgs)
      /\ Ascending(sendBuffer')
      /\ \A i \in DOMAIN sendBuffer' :
           /\ sendBuffer'[i] \in unsent
           /\ \E j \in DOMAIN sendBuffer : sendBuffer'[i] = sendBuffer[j]
  <2>1. unsent \subseteq DOMAIN msgs /\ sendBuffer' = Kept(sendBuffer, unsent)
    OBVIOUS
  <2> HIDE DEF f0
  <2> QED
    BY <2>1, BufferKept
<1>4. msgs' \in Seq(Messages) /\ Len(msgs') = Len(msgs)
  <2>1. Len(msgs) \in Nat /\ DOMAIN msgs = 1..Len(msgs)
    BY <1>1
  <2>2. \A e \in DOMAIN msgs : msgs'[e] \in Messages
    BY <1>1 DEF RejectedAs
  <2>3. msgs' = [e \in DOMAIN msgs |-> msgs'[e]]
    OBVIOUS
  <2>4. msgs' \in [1..Len(msgs) -> Messages]
    BY <2>1, <2>2, <2>3
  <2> QED
    BY <2>1, <2>4, FunctionIsSeq
<1>5. /\ rest \subseteq (DOMAIN msgs) \X {"promise", "timed"}
      /\ DOMAIN msgs \subseteq Emits
      /\ pendingAcks' \subseteq (DOMAIN msgs) \X {"promise", "timed"}
  BY AcknowledgementAssumption DEF RejectersOk, AckInv, TypeOK, Emits
<1>6. f0 \in Frames /\ f0.op = "reject" /\ f0.rest = rest \ called
  BY <1>5 DEF Frames, Rejecters
<1>7. LoopOk(f0.rest)'
  <2>1. ASSUME NEW a \in rest \ called, msgs'[a[1]].form # "promise"
        PROVE  a[2] = "timed" /\ msgs'[a[1]].timed /\ msgs'[a[1]].result \in {"none", "timeout"}
    <3>1. RejectedAs(msgs'[a[1]], called, a[1]) /\ a = <<a[1], a[2]>> /\ a[1] \in DOMAIN msgs
      BY <1>1, <1>5
    <3>2. msgs[a[1]].form # "promise"
      BY <2>1, <3>1 DEF RejectedAs
    <3>3. a[2] = "timed" /\ msgs[a[1]].timed /\ msgs[a[1]].result \in {"none", "timeout"}
      BY <3>2 DEF RejectersOk
    <3>4. <<a[1], "timed">> \notin called
      BY <3>1, <3>3
    <3>5. <<a[1], "promise">> \notin called
      <4>1. <<a[1], "promise">>[1] = a[1] /\ <<a[1], "promise">>[2] = "promise"
        OBVIOUS
      <4> QED
        BY <3>2, <4>1 DEF RejectersOk
    <3> QED
      BY <3>1, <3>3, <3>4, <3>5 DEF RejectedAs
  <2>2. RejectersOk(rest \ called)'
    BY <1>1, <1>5, <2>1 DEF RejectersOk
  <2>3. ASSUME NEW a \in pendingAcks' PROVE msgs'[a[1]].form = "promise"
    <3>1. a[1] \in DOMAIN msgs
      BY <1>5
    <3>2. RejectedAs(msgs'[a[1]], called, a[1]) /\ msgs[a[1]].form = "promise"
      BY <1>1, <3>1
    <3> QED
      BY <3>2 DEF RejectedAs
  <2> QED
    BY <1>6, <2>2, <2>3 DEF LoopOk
<1> HIDE DEF f0
<1>8. /\ stack' \in Seq(Frames) /\ Distinct(stack') /\ FlushIsLast(stack') /\ OneLoop(stack')
      /\ \A f \in Elements(stack') : f = f0 \/ f \in Elements(below)
      /\ called # rest => Loops(stack') = {f0}
  <2>1. CASE called = rest /\ stack' = below
    BY <2>1
  <2>2. CASE stack' = <<f0>> \o below
    BY <1>6, <2>2, Pushed
  <2> QED
    BY <1>2, <2>1, <2>2
<1>9. \A e \in DOMAIN msgs : Entry(e)' = Entry(e)
  BY <1>1 DEF Entry, RejectedAs
<1>10. \A e \in DOMAIN msgs : Entry(e) \in rest =>
         \/ msgs'[e].result # "none" \/ msgs'[e].place = "interrupted"
         \/ Awaited(e)'
  <2> TAKE e \in DOMAIN msgs
  <2> HAVE Entry(e) \in rest
  <2>1. CASE Entry(e) \in called
    BY <1>1, <2>1 DEF RejectedAs
  <2>2. CASE Entry(e) \notin called
    BY <1>6, <1>8, <1>9, <2>2 DEF Awaited
  <2> QED
    BY <2>1, <2>2
<1>11. MessageOk'
  <2> SUFFICES ASSUME NEW e \in DOMAIN msgs
               PROVE  /\ msgs'[e].place \in {"dropped", "buffered", "observed", "interrupted"} => msgs'[e].gen = 0
                      /\ msgs'[e].from = 0 \/ msgs'[e].place = "held" => msgs'[e].gen <= serverSocket'
                      /\ msgs'[e].place = "interrupted" => msgs'[e].form = "promise"
                      /\ Untracked(e)' /\ ~Pending(e)' => msgs'[e].place = "answered"
    BY <1>1 DEF MessageOk
  <2>0. RejectedAs(msgs'[e], called, e)
    BY <1>1
  <2>1. Untracked(e)' => Untracked(e) /\ msgs'[e] = msgs[e]
    <3>1. Untracked(e)' => Untracked(e)
      BY <2>0 DEF Untracked, RejectedAs
    <3>2. Untracked(e) => <<e, "promise">> \notin called /\ <<e, "timed">> \notin called
      <4>1. \A k : <<e, k>>[1] = e
        OBVIOUS
      <4>2. \A k : <<e, k>> \in rest => msgs[e].form = "promise" \/ msgs[e].timed
        BY <4>1 DEF RejectersOk
      <4> QED
        BY <4>2 DEF Untracked
    <3> QED
      BY <2>0, <3>1, <3>2 DEF RejectedAs
  <2>2. Untracked(e)' /\ ~Pending(e)' => msgs'[e].place = "answered"
    BY <2>1 DEF AckInv, MessageOk, Pending
  <2> QED
    BY <2>0, <2>2 DEF AckInv, MessageOk, RejectedAs
<1>12. PendingOk'
  <2>1. ASSUME NEW a \in pendingAcks' PROVE a[1] \in DOMAIN msgs /\ msgs'[a[1]].form = "promise"
    <3>1. a[1] \in DOMAIN msgs
      BY <1>5
    <3>2. RejectedAs(msgs'[a[1]], called, a[1]) /\ msgs[a[1]].form = "promise"
      BY <1>1, <3>1
    <3> QED
      BY <3>1, <3>2 DEF RejectedAs
  <2>2. \A e : Tracked(e)' => msgs'[e].form = "promise"
    <3>1. \A e, k : <<e, k>>[1] = e
      OBVIOUS
    <3> QED
      BY <2>1, <3>1 DEF Tracked
  <2> QED
    BY <2>1, <2>2 DEF PendingOk
<1>13. TrackedOk'
  <2> SUFFICES ASSUME NEW e \in DOMAIN msgs, msgs'[e].from = 0, ~Untracked(e)', Pending(e)'
               PROVE  /\ msgs'[e].place = "observed" \/ msgs'[e].gen # 0 => Watched(e)'
                      /\ msgs'[e].gen # 0 => msgs'[e].gen = serverSocket'
                      /\ msgs'[e].place = "buffered" /\ ~msgs'[e].timed => Noted(e)' \/ Awaited(e)'
    BY <1>1 DEF TrackedOk
  <2>0. RejectedAs(msgs'[e], called, e)
    BY <1>1
  <2>1. ~Untracked(e) /\ msgs[e].from = 0 /\ msgs'[e].gen = msgs[e].gen /\ msgs'[e].timed = msgs[e].timed
    BY <2>0 DEF Untracked, RejectedAs
  <2>2. msgs'[e].result = "none"
    BY DEF Pending
  <2>3. CASE Pending(e)
    <3>1. /\ msgs[e].place = "observed" \/ msgs[e].gen # 0 => Entry(e) \in rest
          /\ msgs[e].gen # 0 => msgs[e].gen = serverSocket
          /\ msgs[e].place = "buffered" /\ ~msgs[e].timed => Entry(e) \in rest \/ Entry(e) \in pendingAcks'
      BY <2>1, <2>3 DEF AckInv, TrackedOk
    <3>2. CASE msgs'[e].place = "interrupted"
      <4>1. msgs[e].gen = 0
        BY <2>0, <3>2 DEF AckInv, MessageOk, RejectedAs
      <4> QED
        BY <2>1, <3>2, <4>1
    <3>3. CASE msgs'[e].place # "interrupted"
      <4>1. msgs'[e].place = msgs[e].place
        BY <2>0, <3>3 DEF RejectedAs
      <4>2. Entry(e) \in rest => Awaited(e)'
        BY <1>10, <2>2, <3>3
      <4>3. Entry(e) \in pendingAcks' => Noted(e)'
        BY <1>9 DEF Noted
      <4> QED
        BY <2>1, <3>1, <4>1, <4>2, <4>3 DEF Watched
    <3> QED
      BY <3>2, <3>3
  <2>4. CASE ~Pending(e)
    <3>1. msgs'[e].result # "none"
      <4>1. Rejected(called, e) = msgs'[e] /\ msgs[e] \in Messages
        BY <1>1
      <4>2. msgs[e].result # "none"
        BY <2>4 DEF Pending
      <4>3. [msgs[e] EXCEPT !.place = "interrupted"].result = msgs[e].result
        BY <4>1 DEF Messages
      <4>4. Settle(msgs[e], "disconnect").result = msgs[e].result
        BY <4>1, <4>2, SettleFacts
      <4> QED
        BY <4>1, <4>2, <4>3, <4>4 DEF Rejected
    <3> QED
      BY <2>2, <3>1
  <2> QED
    BY <2>3, <2>4
<1>14. BufferOk'
  <2> SUFFICES ASSUME NEW i \in DOMAIN sendBuffer'
               PROVE  /\ msgs'[sendBuffer'[i]].place = "buffered"
                      /\ ~(msgs'[sendBuffer'[i]].timed /\ msgs'[sendBuffer'[i]].result # "none")
    BY <1>3 DEF BufferOk, IsSettled
  <2> PICK e : e = sendBuffer'[i]
    OBVIOUS
  <2>1. /\ e \in DOMAIN msgs /\ msgs[e].place = "buffered"
        /\ ~(msgs[e].timed /\ msgs[e].result # "none")
        /\ ~(msgs[e].timed /\ Settles(called, e))
    <3>1. e \in unsent
      BY <1>3
    <3>2. PICK j \in DOMAIN sendBuffer : e = sendBuffer[j]
      BY <1>3
    <3>3. msgs[e].place = "buffered" /\ ~IsSettled(e)
      BY <3>2 DEF AckInv, BufferOk
    <3> QED
      BY <3>1, <3>3 DEF IsSettled
  <2>2. RejectedAs(msgs'[e], called, e)
    BY <1>1, <2>1
  <2> QED
    BY <2>1, <2>2 DEF RejectedAs
<1>15. TasksOk'
  <2>1. ASSUME NEW t \in Elements(microtasks') PROVE TaskOk(t)'
    <3>1. TaskOk(t)
      OBVIOUS
    <3>2. ASSUME NEW e \in DOMAIN msgs
          PROVE  /\ msgs[e].place # "observed" => msgs'[e].place = msgs[e].place
                 /\ msgs'[e].gen = msgs[e].gen
                 /\ Untracked(e)' => Untracked(e) /\ Pending(e)' = Pending(e)
      <4>1. RejectedAs(msgs'[e], called, e)
        BY <1>1
      <4>2. \A k : <<e, k>> \in rest => msgs[e].form = "promise" \/ msgs[e].timed
        <5>1. \A k : <<e, k>>[1] = e
          OBVIOUS
        <5> QED
          BY <5>1 DEF RejectersOk
      <4>3. Untracked(e)' => Untracked(e) /\ msgs'[e] = msgs[e]
        BY <4>1, <4>2 DEF Untracked, RejectedAs
      <4> QED
        BY <4>1, <4>3 DEF Pending, RejectedAs
    <3> QED
      BY <1>1, <3>1, <3>2 DEF TaskOk
  <2> QED
    BY <2>1 DEF TasksOk
<1>16. ASSUME NEW f \in Elements(below) PROVE FrameOk(f)'
  <2>1. FrameOk(f) \/ (f.op = "leaving" /\ serverSocket # 0)
    OBVIOUS
  <2>2. f.op # "reject"
    BY DEF Loops
  <2>3. ASSUME f.op = "flush" PROVE RestOk(f.rest)'
    <3> PICK r : r = f.rest
      OBVIOUS
    <3>1. RestOk(r) /\ r \in Seq(DOMAIN msgs)
      BY <2>1, <2>3 DEF FrameOk, RestOk
    <3>2. \A i \in DOMAIN r : r[i] \in DOMAIN msgs
      BY <3>1
    <3>3. \A i \in DOMAIN r, j \in DOMAIN sendBuffer' : r[i] < sendBuffer'[j]
      BY <1>3, <3>1 DEF RestOk
    <3>4. ASSUME NEW i \in DOMAIN r PROVE msgs'[r[i]].place = "buffered"
      <4>1. RejectedAs(msgs'[r[i]], called, r[i]) /\ msgs[r[i]].place = "buffered"
        BY <1>1, <3>1, <3>2 DEF RestOk
      <4> QED
        BY <4>1 DEF RejectedAs
    <3> QED
      BY <1>1, <3>1, <3>3, <3>4 DEF RestOk
  <2>4. ASSUME f.op = "emit"
        PROVE  /\ f.of \in DOMAIN msgs' /\ msgs'[f.of].place \in {"observed", "interrupted"}
               /\ f.was => attempt' \notin attached'
    <3>1. /\ f.of \in DOMAIN msgs /\ msgs[f.of].place \in {"observed", "interrupted"}
          /\ f.was => attempt \notin attached
      BY <2>1, <2>4 DEF FrameOk
    <3>2. RejectedAs(msgs'[f.of], called, f.of)
      BY <1>1, <3>1
    <3> QED
      BY <1>1, <3>1, <3>2 DEF RejectedAs
  <2> QED
    BY <2>2, <2>3, <2>4 DEF FrameOk
<1>17. StackOk'
  <2>1. FrameOk(f0)'
    BY <1>6, <1>7 DEF FrameOk
  <2> QED
    BY <1>8, <1>16, <2>1 DEF StackOk
<1>18. TypeOK'
  BY <1>1, <1>3, <1>4, <1>5, <1>8 DEF AckInv, TypeOK
<1> QED
  BY <1>11, <1>12, <1>13, <1>14, <1>15, <1>17, <1>18 DEF AckInv

\* The client's rejecters are such that the loop can call them.
LEMMA TrackedRejecters == ASSUME AckInv PROVE RejectersOk(pendingAcks)
<1>1. pendingAcks \subseteq (DOMAIN msgs) \X {"promise", "timed"}
  BY DEF AckInv, TypeOK
<1>2. ASSUME NEW a \in pendingAcks, msgs[a[1]].form # "promise"
      PROVE  a[2] = "timed" /\ msgs[a[1]].timed /\ msgs[a[1]].result \in {"none", "timeout"}
  <2>1. a = <<a[1], a[2]>> /\ a[1] \in DOMAIN msgs /\ a[2] \in {"promise", "timed"}
    BY <1>1
  <2>2. a[2] = "timed"
    BY <1>2, <2>1 DEF AckInv, PendingOk
  <2>3. msgs[a[1]].form = "callback"
    <3>1. msgs[a[1]] \in Messages
      BY <2>1 DEF AckInv, TypeOK
    <3> QED
      BY <1>2, <3>1 DEF Messages
  <2>4. Tracked(a[1])
    BY <2>1, <2>2 DEF Tracked
  <2>5. msgs[a[1]].timed /\ Pending(a[1])
    BY <2>1, <2>3, <2>4 DEF AckInv, PendingOk
  <2> QED
    BY <2>2, <2>5 DEF Pending
<1> QED
  BY <1>1, <1>2 DEF RejectersOk

\* The client marks itself disconnected, and the loop begins.
LEMMA MarkStep ==
  ASSUME AckInv, connected, NEW below, MarkDisconnected(below),
         below = stack \/ below = <<[op |-> "leaving"]>> \o stack,
         UNCHANGED <<serverSocket, attempt, begun, attached, accepted, receiving, active, torn>>,
         microtasks' \in Seq(Tasks), Distinct(microtasks'),
         \A t \in Elements(microtasks') : TaskOk(t)
  PROVE  AckInv'
<1>1. /\ connected' = FALSE /\ serverAcks' = serverAcks \ {serverSocket}
      /\ clientAcks' = clientAcks \ {serverSocket} /\ pendingAcks' = {}
      /\ RejectFrom(pendingAcks, below)
  BY DEF MarkDisconnected
<1>2. ConnectionOk' /\ serverSocket # 0
  BY <1>1 DEF AckInv, ConnectionOk
<1>3. RejectersOk(pendingAcks)
  BY TrackedRejecters
<1>4. /\ stack \in Seq(Frames) /\ Distinct(stack) /\ FlushIsLast(stack) /\ OneLoop(stack)
      /\ \A f \in Elements(stack) : FrameOk(f)
  BY DEF AckInv, TypeOK, StackOk
<1>5. Loops(stack) = {}
  BY <1>4 DEF Loops, FrameOk, LoopOk
<1>6. /\ below \in Seq(Frames) /\ Distinct(below) /\ FlushIsLast(below) /\ OneLoop(below)
      /\ Loops(below) = {}
      /\ \A f \in Elements(below) : FrameOk(f) \/ (f.op = "leaving" /\ serverSocket # 0)
  <2>1. CASE below = stack
    BY <1>4, <1>5, <2>1
  <2>2. CASE below = <<[op |-> "leaving"]>> \o stack
    <3> DEFINE f == [op |-> "leaving"]
    <3>1. f \in Frames /\ f.op = "leaving"
      BY DEF Frames
    <3> HIDE DEF f
    <3>2. /\ (<<f>> \o stack) \in Seq(Frames) /\ Elements(<<f>> \o stack) = {f} \cup Elements(stack)
          /\ Distinct(<<f>> \o stack) /\ FlushIsLast(<<f>> \o stack) /\ OneLoop(<<f>> \o stack)
          /\ Loops(<<f>> \o stack) = Loops(stack)
      BY <1>4, <3>1, Pushed
    <3>3. below = <<f>> \o stack
      BY <2>2 DEF f
    <3> QED
      BY <1>2, <1>4, <1>5, <3>1, <3>2, <3>3
  <2> QED
    BY <2>1, <2>2
<1>7. \A e \in DOMAIN msgs : /\ Watched(e) => Entry(e) \in pendingAcks
                             /\ Noted(e) \/ Awaited(e) => Entry(e) \in pendingAcks
  BY <1>5 DEF Watched, Noted, Awaited
<1> QED
  BY <1>1, <1>2, <1>3, <1>6, <1>7, LoopStep

LEMMA DisconnectStep == ASSUME AckInv, Disconnect PROVE AckInv'
<1>1. microtasks \in Seq(Tasks) /\ Distinct(microtasks) /\ \A t \in Elements(microtasks) : TaskOk(t)
  BY DEF AckInv, TypeOK, TasksOk
<1>2. /\ connected /\ MarkDisconnected(<<[op |-> "leaving"]>> \o stack)
      /\ UNCHANGED <<serverSocket, attempt, begun, attached, accepted, receiving, active, torn, microtasks>>
  BY DEF Disconnect
<1> QED
  BY <1>1, <1>2, MarkStep

\* A callback that the loop has called returns.
LEMMA RejectStep == ASSUME AckInv, RejectReturns PROVE AckInv'
<1> PICK f, below : f = Head(stack) /\ below = Tail(stack)
  OBVIOUS
<1>1. /\ stack # <<>> /\ f.op = "reject" /\ RejectFrom(f.rest, below)
      /\ UNCHANGED <<clientVars, serverVars, pendingAcks, microtasks>>
  BY DEF RejectReturns
<1>2. /\ FrameOk(f) /\ below \in Seq(Frames) /\ f \in Elements(stack)
      /\ Distinct(below) /\ FlushIsLast(below) /\ OneLoop(below) /\ Loops(below) = {}
      /\ \A g \in Elements(below) : FrameOk(g)
  BY <1>1, Returning
<1>3. LoopOk(f.rest) /\ RejectersOk(f.rest) /\ ~connected
      /\ \A a \in pendingAcks : msgs[a[1]].form = "promise"
  BY <1>1, <1>2 DEF FrameOk, LoopOk
<1>4. \A g \in Loops(stack) : g = f
  <2>1. Elements(stack) = {f} \cup Elements(below)
    <3>1. stack \in Seq(Frames)
      BY DEF AckInv, TypeOK
    <3> QED
      BY <1>1, <3>1, TailElements
  <2> QED
    BY <1>2, <2>1 DEF Loops
<1>5. \A e \in DOMAIN msgs : /\ Watched(e) => Entry(e) \in f.rest
                             /\ Noted(e) \/ Awaited(e) => Entry(e) \in f.rest \/ Entry(e) \in pendingAcks
  BY <1>3, <1>4 DEF Watched, Noted, Awaited
<1>6. /\ UNCHANGED <<connected, serverSocket, attempt, begun, attached, accepted, receiving, active, torn,
                     serverAcks, clientAcks, pendingAcks, microtasks>>
  BY <1>1 DEF clientVars, serverVars
<1>7. ConnectionOk' /\ connected' \in BOOLEAN
  BY <1>6, ConnectionTypes DEF AckInv, ConnectionOk
<1>8. microtasks \in Seq(Tasks) /\ Distinct(microtasks) /\ \A t \in Elements(microtasks) : TaskOk(t)
  BY DEF AckInv, TypeOK, TasksOk
<1> QED
  BY <1>1, <1>2, <1>3, <1>5, <1>6, <1>7, <1>8, LoopStep

LEMMA LeaveStep == ASSUME AckInv, RunLeave PROVE AckInv'
<1>1. /\ microtasks # <<>> /\ microtasks' = Tail(microtasks)
      /\ UNCHANGED <<serverSocket, attempt, begun, attached, accepted, receiving, active, torn>>
  BY DEF RunLeave, Due
<1>2. microtasks' \in Seq(Tasks) /\ Distinct(microtasks') /\ \A t \in Elements(microtasks') : TaskOk(t)
  BY <1>1, Running
<1>3. CASE connected
  <2>1. MarkDisconnected(stack)
    BY <1>3 DEF RunLeave
  <2> QED
    BY <1>1, <1>2, <1>3, <2>1, MarkStep
<1>4. CASE ~connected
  <2>1. UNCHANGED <<connected, serverAcks, clientAcks, ackVars, stack>>
    BY <1>4 DEF RunLeave
  <2>2. TypeOK' /\ ConnectionOk'
    BY <1>1, <1>2, <2>1 DEF AckInv, TypeOK, ConnectionOk, ackVars
  <2>3. \A f \in Elements(stack) : f.op = "emit" /\ f.was => attempt' \notin attached'
    BY <1>1 DEF AckInv, StackOk, FrameOk
  <2> QED
    BY <1>1, <1>2, <2>1, <2>2, <2>3, ConnectionStep DEF Emitted, ackVars
<1> QED
  BY <1>3, <1>4

-----------------------------------------------------------------------------
(* The flush.                                                              *)

\* What is left of a flush from one of its packets on.
LEMMA RestOf ==
  ASSUME NEW T, T \subseteq Nat, NEW q \in Seq(T), Ascending(q), NEW n \in DOMAIN q
  PROVE  LET r == SubSeq(q, n, Len(q))
         IN /\ r \in Seq(T) /\ r # <<>> /\ Ascending(r) /\ r[1] = q[n]
            /\ \A i \in DOMAIN r : \E j \in DOMAIN q : r[i] = q[j]
<1> DEFINE r == SubSeq(q, n, Len(q))
<1>1. n \in 1..Len(q) /\ Len(q) \in Nat /\ DOMAIN q = 1..Len(q)
  OBVIOUS
<1>2. r = [i \in 1..(Len(q) - n + 1) |-> q[i + n - 1]]
  BY <1>1
<1> HIDE DEF r
<1>3. /\ DOMAIN r = 1..(Len(q) - n + 1)
      /\ \A i \in DOMAIN r : i + n - 1 \in DOMAIN q /\ r[i] = q[i + n - 1] /\ i \in Nat
  BY <1>1, <1>2
<1>4. \A i \in DOMAIN q : q[i] \in T
  OBVIOUS
<1>5. r \in Seq(T)
  <2>1. Len(q) - n + 1 \in Nat
    BY <1>1
  <2>2. r \in [1..(Len(q) - n + 1) -> T]
    BY <1>2, <1>3, <1>4
  <2> QED
    BY <2>1, <2>2, FunctionIsSeq
<1>6. 1 \in DOMAIN r /\ r[1] = q[n]
  BY <1>1, <1>3
<1>7. r # <<>>
  BY <1>6
<1>8. Ascending(r)
  <2> SUFFICES ASSUME NEW i \in DOMAIN r, NEW j \in DOMAIN r, i < j PROVE r[i] < r[j]
    BY DEF Ascending
  <2>1. i + n - 1 < j + n - 1
    BY <1>1, <1>3
  <2> QED
    BY <1>3, <2>1 DEF Ascending
<1> QED
  BY <1>3, <1>5, <1>6, <1>7, <1>8 DEF r

\* The flush ends, or comes to a packet that is not settled and tracks it if it is timed.
LEMMA FlushReaches ==
  ASSUME NEW q, DOMAIN q \subseteq Nat, NEW below, FlushFrom(q, below, pendingAcks)
  PROVE  \/ stack' = below /\ pendingAcks' = pendingAcks
         \/ \E n \in DOMAIN q :
              /\ ~IsSettled(q[n])
              /\ stack' = <<[op |-> "flush", rest |-> SubSeq(q, n, Len(q))]>> \o below
              /\ pendingAcks' = pendingAcks \cup (IF msgs[q[n]].timed THEN {<<q[n], "timed">>} ELSE {})
<1> DEFINE unsettled == {i \in DOMAIN q : ~IsSettled(q[i])}
           next == CHOOSE i \in unsettled : \A j \in unsettled : i <= j
<1>1. CASE unsettled = {}
  BY <1>1 DEF FlushFrom
<1>2. CASE unsettled # {}
  <2>1. next \in unsettled
    <3> HIDE DEF unsettled
    <3>1. unsettled \subseteq Nat
      BY DEF unsettled
    <3> QED
      BY <1>2, <3>1, LeastNat
  <2>2. /\ stack' = <<[op |-> "flush", rest |-> SubSeq(q, next, Len(q))]>> \o below
        /\ pendingAcks' = pendingAcks \cup (IF msgs[q[next]].timed THEN {<<q[next], "timed">>} ELSE {})
    BY <1>2 DEF FlushFrom
  <2> HIDE DEF next
  <2> QED
    BY <2>1, <2>2
<1> QED
  BY <1>1, <1>2

\* ... with nothing below it, and its own packets older than the buffer.
LEMMA Flushed ==
  ASSUME AckInv, NEW q \in Seq(DOMAIN msgs), Ascending(q), DOMAIN msgs' = DOMAIN msgs,
         \A i \in DOMAIN q : msgs'[q[i]] = msgs[q[i]] /\ msgs[q[i]].place = "buffered",
         \A i \in DOMAIN q, j \in DOMAIN sendBuffer' : q[i] < sendBuffer'[j],
         NEW below, below = <<>>, FlushFrom(q, below, pendingAcks)
  PROVE  /\ stack' \in Seq(Frames) /\ StackOk' /\ Loops(stack') = {}
         /\ pendingAcks \subseteq pendingAcks'
         /\ \A a \in pendingAcks' :
              \/ a \in pendingAcks
              \/ \E i \in DOMAIN q :
                   /\ a = <<q[i], "timed">> /\ q[i] \in DOMAIN msgs
                   /\ msgs[q[i]].timed /\ Pending(q[i])
<1>1. /\ msgs \in Seq(Messages) /\ DOMAIN msgs \subseteq Emits /\ DOMAIN msgs \subseteq Nat
      /\ DOMAIN q \subseteq Nat /\ \A i \in DOMAIN q : q[i] \in DOMAIN msgs
  <2>1. msgs \in Seq(Messages) /\ Len(msgs) <= MaxEmits
    BY DEF AckInv, TypeOK
  <2>2. DOMAIN msgs = 1..Len(msgs) /\ Len(msgs) \in Nat
    BY <2>1
  <2> QED
    BY <2>1, <2>2, AcknowledgementAssumption DEF Emits
<1>2. CASE stack' = below /\ pendingAcks' = pendingAcks
  <2>1. stack' = <<>> /\ Elements(stack') = {} /\ DOMAIN stack' = {}
    BY <1>2 DEF Elements
  <2>2. stack' \in Seq(Frames) /\ StackOk' /\ Loops(stack') = {}
    BY <2>1 DEF StackOk, Distinct, FlushIsLast, OneLoop, Loops
  <2> QED
    BY <1>2, <2>2
<1>3. ASSUME NEW n \in DOMAIN q, ~IsSettled(q[n]),
             stack' = <<[op |-> "flush", rest |-> SubSeq(q, n, Len(q))]>> \o below,
             pendingAcks' = pendingAcks \cup (IF msgs[q[n]].timed THEN {<<q[n], "timed">>} ELSE {})
      PROVE  /\ stack' \in Seq(Frames) /\ StackOk' /\ Loops(stack') = {}
             /\ pendingAcks \subseteq pendingAcks'
             /\ \A a \in pendingAcks' :
                  \/ a \in pendingAcks
                  \/ \E i \in DOMAIN q :
                       /\ a = <<q[i], "timed">> /\ q[i] \in DOMAIN msgs
                       /\ msgs[q[i]].timed /\ Pending(q[i])
  <2> PICK r : r = SubSeq(q, n, Len(q))
    OBVIOUS
  <2>1. /\ r \in Seq(DOMAIN msgs) /\ r # <<>> /\ Ascending(r) /\ r[1] = q[n]
        /\ \A i \in DOMAIN r : \E j \in DOMAIN q : r[i] = q[j]
    BY <1>1, RestOf
  <2> DEFINE f == [op |-> "flush", rest |-> r]
  <2>2. f \in Frames /\ f.op = "flush" /\ f.rest = r
    <3>1. ASSUME NEW T, NEW U, T \subseteq U, NEW s \in Seq(T) PROVE s \in Seq(U)
      BY <3>1
    <3>2. r \in Seq(Emits)
      BY <1>1, <2>1, <3>1
    <3> QED
      BY <3>2 DEF Frames
  <2>3. stack' = <<f>> \o below
    BY <1>3
  <2> HIDE DEF f
  <2>4. stack' = <<f>>
    BY <2>3
  <2>5. stack' \in Seq(Frames) /\ Elements(stack') = {f} /\ DOMAIN stack' = {1} /\ Len(stack') = 1
    BY <2>2, <2>4 DEF Elements
  <2>6. RestOk(r)'
    <3>1. r \in Seq(DOMAIN msgs')
      BY <2>1
    <3>2. \A i \in DOMAIN r : msgs'[r[i]].place = "buffered"
      BY <2>1
    <3>3. \A i \in DOMAIN r, j \in DOMAIN sendBuffer' : r[i] < sendBuffer'[j]
      BY <2>1
    <3>4. msgs'[r[1]].timed => Noted(r[1])'
      <4>1. msgs'[r[1]] = msgs[q[n]]
        BY <2>1
      <4>2. msgs[q[n]].timed => <<q[n], "timed">> \in pendingAcks'
        BY <1>3
      <4> QED
        BY <2>1, <4>1, <4>2 DEF Noted, Entry
    <3> QED
      BY <2>1, <3>1, <3>2, <3>3, <3>4 DEF RestOk
  <2>7. FrameOk(f)'
    BY <2>2, <2>6 DEF FrameOk
  <2>8. StackOk' /\ Loops(stack') = {}
    BY <2>2, <2>5, <2>7 DEF StackOk, Distinct, FlushIsLast, OneLoop, Loops
  <2>9. msgs[q[n]].timed => Pending(q[n])
    BY <1>3 DEF IsSettled, Pending
  <2> QED
    BY <1>1, <1>3, <2>5, <2>8, <2>9
<1> QED
  BY <1>1, <1>2, <1>3, FlushReaches

\* The attempt completes: the buffer is flushed on the new connection.
LEMMA AcceptStep == ASSUME AckInv, RunAccept PROVE AckInv'
<1>1. /\ stack = <<>> /\ microtasks # <<>> /\ Task.op = "accept" /\ microtasks' = Tail(microtasks)
      /\ UNCHANGED <<begun, attached, accepted, torn, msgs>>
  BY DEF RunAccept, Due, Task
<1>2. /\ microtasks' \in Seq(Tasks) /\ Distinct(microtasks')
      /\ \A t \in Elements(microtasks') : TaskOk(t)
      /\ Task.of \in accepted
  BY <1>1, Running DEF TaskOk
<1>3. CASE attempt # Task.of
  <2>1. /\ receiving' \subseteq receiving /\ serverAcks' \subseteq serverAcks
        /\ clientAcks' \subseteq clientAcks /\ active' \subseteq active
        /\ UNCHANGED <<connected, serverSocket, attempt, sendBuffer, pendingAcks, stack>>
    BY <1>3 DEF RunAccept, Invalidate
  <2>2. clientAcks' \cap torn' = {}
    BY <1>1, <2>1 DEF AckInv, ConnectionOk
  <2> QED
    BY <1>1, <1>2, <2>1, <2>2, EndStep DEF Emitted
<1>4. CASE attempt = Task.of
  <2>1. /\ connected' = TRUE /\ serverSocket' = attempt /\ attempt' = 0 /\ sendBuffer' = <<>>
        /\ FlushFrom(sendBuffer, stack, pendingAcks)
        /\ UNCHANGED <<receiving, serverAcks, clientAcks, active>>
    BY <1>4 DEF RunAccept
  <2>2. /\ attempt \in attached /\ attempt \in Nat /\ attempt # 0 /\ ~connected
        /\ serverSocket \in Nat /\ serverSocket < attempt
    BY <1>2, <1>4, ConnectionTypes DEF AckInv, ConnectionOk
  <2>3. /\ sendBuffer \in Seq(DOMAIN msgs) /\ Ascending(sendBuffer)
        /\ \A i \in DOMAIN sendBuffer : msgs[sendBuffer[i]].place = "buffered"
    BY DEF AckInv, TypeOK, BufferOk
  <2>4. /\ stack' \in Seq(Frames) /\ StackOk' /\ Loops(stack') = {}
        /\ pendingAcks \subseteq pendingAcks'
        /\ \A a \in pendingAcks' :
             \/ a \in pendingAcks
             \/ \E i \in DOMAIN sendBuffer :
                  /\ a = <<sendBuffer[i], "timed">> /\ sendBuffer[i] \in DOMAIN msgs
                  /\ msgs[sendBuffer[i]].timed /\ Pending(sendBuffer[i])
    <3>1. DOMAIN sendBuffer' = {}
      BY <2>1
    <3> QED
      BY <1>1, <2>1, <2>3, <3>1, Flushed
  <2>5. \A a \in pendingAcks' :
          /\ a \in (DOMAIN msgs) \X {"promise", "timed"}
          /\ a \in pendingAcks \/ (a[2] = "timed" /\ msgs[a[1]].timed /\ Pending(a[1]))
    BY <2>4 DEF AckInv, TypeOK
  <2>6. \A e \in DOMAIN msgs : /\ Tracked(e) => Tracked(e)'
                               /\ Tracked(e)' => Tracked(e) \/ (msgs[e].timed /\ Pending(e))
    <3> TAKE e \in DOMAIN msgs
    <3>1. ASSUME NEW k \in {"promise", "timed"}, <<e, k>> \in pendingAcks'
          PROVE  <<e, k>> \in pendingAcks \/ (msgs[e].timed /\ Pending(e))
      BY <2>5, <3>1
    <3> QED
      BY <2>4, <3>1 DEF Tracked
  <2>7. TypeOK'
    <3>1. serverSocket' \in {0} \cup attached /\ attempt' \in 0..begun
      BY <2>1, <2>2, ConnectionTypes
    <3>2. sendBuffer' \in Seq(DOMAIN msgs) /\ pendingAcks' \subseteq (DOMAIN msgs) \X {"promise", "timed"}
      BY <2>1, <2>5
    <3> QED
      BY <1>1, <1>2, <2>1, <2>4, <3>1, <3>2 DEF AckInv, TypeOK
  <2>8. ConnectionOk'
    <3>1. serverAcks' \cup clientAcks' \subseteq {serverSocket'} /\ clientAcks' \cap torn' = {}
      BY <1>1, <2>1, <2>2 DEF AckInv, ConnectionOk
    <3>2. torn' \subseteq 1..serverSocket'
      BY <1>1, <2>1, <2>2 DEF AckInv, ConnectionOk
    <3> QED
      BY <2>1, <2>2, <3>1, <3>2 DEF ConnectionOk
  <2>9. \A e \in DOMAIN msgs : msgs[e].gen \in Nat
    <3>1. msgs \in Seq(Messages) /\ 0..MaxConnections \subseteq Nat
      BY AcknowledgementAssumption DEF AckInv, TypeOK
    <3>2. \A e \in DOMAIN msgs : msgs[e] \in Messages
      BY <3>1
    <3> QED
      BY <3>1, <3>2 DEF Messages
  <2>10. \A e \in DOMAIN msgs : msgs[e].gen <= serverSocket => msgs[e].gen <= serverSocket'
    BY <2>1, <2>2, <2>9
  <2>11. MessageOk'
    BY <1>1, <2>10 DEF AckInv, MessageOk, Untracked, Pending
  <2>12. PendingOk'
    <3>1. \A e \in DOMAIN msgs : msgs[e].form = "callback" /\ Tracked(e)' => msgs[e].timed /\ Pending(e)
      BY <2>6 DEF AckInv, PendingOk
    <3>2. \A a \in pendingAcks' : a[2] = "promise" => msgs[a[1]].form = "promise"
      BY <2>5 DEF AckInv, PendingOk
    <3> QED
      BY <1>1, <3>1, <3>2 DEF PendingOk, Pending
  <2>13. TrackedOk'
    <3>1. \A e \in DOMAIN msgs : Entry(e)' = Entry(e) /\ (Noted(e) => Noted(e)')
      BY <1>1, <2>4 DEF Entry, Noted
    <3>2. \A e \in DOMAIN msgs : ~Awaited(e) /\ ~Watched(e)
      <4>1. Elements(stack) = {}
        BY <1>1 DEF Elements
      <4> QED
        BY <2>2, <4>1 DEF Awaited, Watched, Loops
    <3> QED
      BY <1>1, <3>1, <3>2 DEF AckInv, TrackedOk, Untracked, Pending
  <2>14. BufferOk'
    BY <2>1 DEF BufferOk, Ascending
  <2>15. TasksOk'
    <3>1. ASSUME NEW t \in Elements(microtasks') PROVE TaskOk(t)'
      BY <1>1, <1>2, <2>10 DEF TaskOk, Untracked, Pending
    <3> QED
      BY <1>2, <3>1 DEF TasksOk
  <2> QED
    BY <2>4, <2>7, <2>8, <2>11, <2>12, <2>13, <2>14, <2>15 DEF AckInv
<1> QED
  BY <1>3, <1>4

\* p is q after its first.
Follows(p, q) ==
  \A i \in DOMAIN p : i \in Nat /\ i # 0 /\ i + 1 \in DOMAIN q /\ p[i] = q[i + 1]

LEMMA RestAfter ==
  ASSUME NEW T, NEW q \in Seq(T), q # <<>>
  PROVE  Tail(q) \in Seq(T) /\ Follows(Tail(q), q)
<1> DEFINE p == Tail(q)
<1>1. /\ p \in Seq(T) /\ Len(q) \in Nat /\ Len(p) = Len(q) - 1
      /\ \A i \in 1..Len(p) : i + 1 \in 1..Len(q) /\ p[i] = q[i + 1]
  BY TailFacts
<1> HIDE DEF p
<1>2. DOMAIN p = 1..Len(p) /\ DOMAIN q = 1..Len(q)
  BY <1>1
<1>3. Follows(p, q)
  BY <1>1, <1>2 DEF Follows
<1> QED
  BY <1>1, <1>3 DEF p

\* A flushed packet is sent, and the flush goes on.
LEMMA FlushSendsStep == ASSUME AckInv, FlushSends PROVE AckInv'
<1> PICK rest, e : rest = Head(stack).rest /\ e = Head(rest)
  OBVIOUS
<1> PICK m : m = [msgs[e] EXCEPT !.place = "queued", !.gen = serverSocket]
  OBVIOUS
<1> DEFINE t == [op |-> "deliver", of |-> e, kept |-> FALSE]
<1>1. /\ stack # <<>> /\ Head(stack).op = "flush" /\ connected
      /\ msgs' = [msgs EXCEPT ![e].place = "queued", ![e].gen = serverSocket]
      /\ microtasks' = Append(microtasks, t)
      /\ FlushFrom(Tail(rest), Tail(stack), pendingAcks)
      /\ UNCHANGED <<clientVars, serverVars, sendBuffer>>
  BY DEF FlushSends, Defer
<1>2. RestOk(rest) /\ Tail(stack) = <<>> /\ Loops(stack) = {}
  <2>1. RestOk(rest) /\ Tail(stack) = <<>> /\ Loops(Tail(stack)) = Loops(stack)
    BY <1>1, Returning DEF FrameOk
  <2>2. Loops(<<>>) = {}
    BY DEF Loops, Elements
  <2> QED
    BY <2>1, <2>2
<1>3. /\ rest \in Seq(DOMAIN msgs) /\ rest # <<>> /\ Ascending(rest)
      /\ \A i \in DOMAIN rest : msgs[rest[i]].place = "buffered"
      /\ \A i \in DOMAIN rest, j \in DOMAIN sendBuffer : rest[i] < sendBuffer[j]
      /\ msgs[rest[1]].timed /\ Pending(rest[1]) => Noted(rest[1])
  BY <1>1, <1>2 DEF RestOk
<1>4. /\ msgs \in Seq(Messages) /\ DOMAIN msgs \subseteq Emits /\ DOMAIN msgs \subseteq Nat
      /\ serverSocket \in 0..MaxConnections /\ serverSocket # 0
  <2>1. serverSocket \in 0..MaxConnections
    BY ConnectionTypes, AcknowledgementAssumption
  <2> QED
    BY <1>1, <2>1, AcknowledgementAssumption DEF AckInv, TypeOK, Emits, ConnectionOk
<1>5. e = rest[1] /\ 1 \in DOMAIN rest /\ e \in DOMAIN msgs /\ msgs[e] \in Messages
  BY <1>3, <1>4
<1>6. /\ Tail(rest) \in Seq(DOMAIN msgs) /\ Ascending(Tail(rest))
      /\ \A i \in DOMAIN Tail(rest) :
           /\ Tail(rest)[i] # e /\ Tail(rest)[i] \in DOMAIN msgs
           /\ msgs[Tail(rest)[i]].place = "buffered"
           /\ \A j \in DOMAIN sendBuffer : Tail(rest)[i] < sendBuffer[j]
  <2> PICK q : q = Tail(rest)
    OBVIOUS
  <2>1. q \in Seq(DOMAIN msgs) /\ Follows(q, rest)
    BY <1>3, RestAfter
  <2>2. Ascending(q)
    <3> SUFFICES ASSUME NEW i \in DOMAIN q, NEW j \in DOMAIN q, i < j PROVE q[i] < q[j]
      BY DEF Ascending
    <3>1. i + 1 < j + 1
      BY <2>1 DEF Follows
    <3> QED
      BY <1>3, <2>1, <3>1 DEF Ascending, Follows
  <2>3. ASSUME NEW i \in DOMAIN q PROVE q[i] # e /\ q[i] \in DOMAIN msgs
    <3>1. 1 < i + 1 /\ i + 1 \in DOMAIN rest
      BY <2>1 DEF Follows
    <3>2. rest[1] < rest[i + 1]
      BY <1>3, <1>5, <3>1 DEF Ascending
    <3> QED
      BY <1>3, <1>4, <1>5, <2>1, <3>2 DEF Follows
  <2> QED
    BY <1>3, <2>1, <2>2, <2>3 DEF Follows
<1>7. /\ m \in Messages /\ m.from = msgs[e].from /\ m.form = msgs[e].form /\ m.timed = msgs[e].timed
      /\ m.place = "queued" /\ m.gen = serverSocket /\ m.result = msgs[e].result
  BY <1>4, <1>5 DEF Messages
<1>9. msgs' = [msgs EXCEPT ![e] = m]
  BY <1>1, <1>4, <1>5
<1>10. /\ DOMAIN msgs' = DOMAIN msgs /\ msgs' \in Seq(Messages) /\ Len(msgs') = Len(msgs)
       /\ msgs'[e] = m /\ \A d \in DOMAIN msgs : d # e => msgs'[d] = msgs[d]
  BY <1>5, <1>7, <1>9, OneChanged
<1>11. /\ stack' \in Seq(Frames) /\ StackOk' /\ Loops(stack') = {}
       /\ pendingAcks \subseteq pendingAcks'
       /\ \A a \in pendingAcks' :
            \/ a \in pendingAcks
            \/ \E i \in DOMAIN Tail(rest) :
                 /\ a = <<Tail(rest)[i], "timed">> /\ Tail(rest)[i] \in DOMAIN msgs
                 /\ msgs[Tail(rest)[i]].timed /\ Pending(Tail(rest)[i])
  <2> PICK q, below : q = Tail(rest) /\ below = Tail(stack)
    OBVIOUS
  <2>1. /\ q \in Seq(DOMAIN msgs) /\ Ascending(q)
        /\ \A i \in DOMAIN q : msgs'[q[i]] = msgs[q[i]] /\ msgs[q[i]].place = "buffered"
        /\ \A i \in DOMAIN q, j \in DOMAIN sendBuffer' : q[i] < sendBuffer'[j]
        /\ below = <<>> /\ FlushFrom(q, below, pendingAcks)
    BY <1>1, <1>2, <1>6, <1>10
  <2>2. /\ stack' \in Seq(Frames) /\ StackOk' /\ Loops(stack') = {}
        /\ pendingAcks \subseteq pendingAcks'
        /\ \A a \in pendingAcks' :
             \/ a \in pendingAcks
             \/ \E i \in DOMAIN q :
                  /\ a = <<q[i], "timed">> /\ q[i] \in DOMAIN msgs
                  /\ msgs[q[i]].timed /\ Pending(q[i])
    BY <1>10, <2>1, Flushed
  <2> QED
    BY <2>2
<1>12. MoreTracked(e)
  BY <1>1, <1>6, <1>11 DEF MoreTracked
<1>13. Fits(m, e)
  <2>1. msgs[e].place = "buffered" /\ (Untracked(e) => msgs[e].result = "none")
    BY <1>3, <1>5 DEF AckInv, MessageOk, Pending
  <2>2. m.gen <= serverSocket
    BY <1>4, <1>7, ConnectionTypes
  <2>3. m.from = 0 /\ ~Untracked(e) /\ m.result = "none" => Watched(e)
    <3>1. msgs[e].timed /\ msgs[e].result = "none" => Noted(e)
      BY <1>3, <1>5 DEF Pending
    <3>2. ~msgs[e].timed /\ ~Untracked(e) /\ msgs[e].from = 0 /\ msgs[e].result = "none" =>
            Noted(e) \/ Awaited(e)
      BY <1>5, <2>1 DEF AckInv, TrackedOk, Pending
    <3> QED
      BY <1>1, <1>7, <3>1, <3>2 DEF Watched
  <2> QED
    BY <1>1, <1>7, <2>1, <2>2, <2>3 DEF Fits
<1>14. e \notin Elements(sendBuffer)
  <2> SUFFICES ASSUME NEW j \in DOMAIN sendBuffer, e = sendBuffer[j] PROVE FALSE
    BY DEF Elements
  <2>1. e < e
    BY <1>3, <1>5
  <2> QED
    BY <1>4, <1>5, <2>1
<1>22. Loops(stack') = Loops(stack)
  BY <1>2, <1>11
<1>15. /\ ConnectionOk' /\ MessageOk' /\ PendingOk' /\ TrackedOk' /\ BufferOk'
       /\ \A u : TaskOk(u) /\ (u.op \in {"deliver", "answer"} => u.of # e) => TaskOk(u)'
  BY <1>1, <1>5, <1>7, <1>9, <1>12, <1>13, <1>14, <1>22, SentOn
<1>16. /\ microtasks \in Seq(Tasks) /\ Distinct(microtasks)
       /\ \A u \in Elements(microtasks) : TaskOk(u) /\ (u.op \in {"deliver", "answer"} => u.of # e)
  <2>1. microtasks \in Seq(Tasks) /\ Distinct(microtasks) /\ \A u \in Elements(microtasks) : TaskOk(u)
    BY DEF AckInv, TypeOK, TasksOk
  <2> QED
    BY <1>3, <1>5, <2>1 DEF TaskOk
<1>17. t \in Tasks /\ t.op = "deliver" /\ t.of = e /\ t.kept = FALSE
  BY <1>4, <1>5 DEF Tasks
<1> HIDE DEF t
<1>18. TaskOk(t)'
  BY <1>5, <1>7, <1>10, <1>17 DEF TaskOk
<1>19. /\ microtasks' \in Seq(Tasks) /\ Elements(microtasks') = Elements(microtasks) \cup {t}
       /\ Distinct(microtasks')
  BY <1>1, <1>16, <1>17, Appended
<1>20. TasksOk'
  BY <1>15, <1>16, <1>18, <1>19 DEF TasksOk
<1>21. TypeOK'
  <2>1. pendingAcks' \subseteq (DOMAIN msgs) \X {"promise", "timed"}
    <3>1. pendingAcks \subseteq (DOMAIN msgs) \X {"promise", "timed"}
      BY DEF AckInv, TypeOK
    <3>2. ASSUME NEW a \in pendingAcks', a \notin pendingAcks
          PROVE  a \in (DOMAIN msgs) \X {"promise", "timed"}
      BY <1>11, <3>2
    <3> QED
      BY <3>1, <3>2
  <2> QED
    BY <1>1, <1>10, <1>11, <1>19, <2>1 DEF AckInv, TypeOK, clientVars, serverVars
<1> QED
  BY <1>11, <1>15, <1>20, <1>21 DEF AckInv

\* An interrupted flush puts back what it did not send, before what is in the buffer.
LEMMA RestoreStep == ASSUME AckInv, FlushRestores PROVE AckInv'
<1> PICK rest : rest = Head(stack).rest
  OBVIOUS
<1> PICK S : S = {e \in DOMAIN msgs : ~IsSettled(e)}
  OBVIOUS
<1> PICK p : p = Kept(rest, S)
  OBVIOUS
<1>1. /\ stack # <<>> /\ Head(stack).op = "flush" /\ ~connected
      /\ sendBuffer' = p \o sendBuffer /\ stack' = Tail(stack)
      /\ UNCHANGED <<clientVars, serverVars, msgs, pendingAcks, microtasks>>
  BY DEF FlushRestores
<1>2. RestOk(rest) /\ stack' = <<>>
  BY <1>1, Returning DEF FrameOk
<1>3. /\ rest \in Seq(DOMAIN msgs) /\ Ascending(rest) /\ DOMAIN msgs \subseteq Nat
      /\ sendBuffer \in Seq(DOMAIN msgs) /\ BufferOk
  BY <1>2 DEF RestOk, AckInv, TypeOK
<1>4. Ascending(p) /\ p \in Seq(S) /\ Elements(p) = {x \in Elements(rest) : x \in S}
  <2>1. ASSUME NEW U
        PROVE  /\ Ascending(Kept(rest, U)) /\ Kept(rest, U) \in Seq(U)
               /\ Elements(Kept(rest, U)) = {x \in Elements(rest) : x \in U}
    BY <1>3, KeptAscending
  <2> QED
    BY <2>1
<1>5. \A i \in DOMAIN p : /\ p[i] \in DOMAIN msgs /\ msgs[p[i]].place = "buffered" /\ ~IsSettled(p[i])
                          /\ \A j \in DOMAIN sendBuffer : p[i] < sendBuffer[j]
  <2> TAKE i \in DOMAIN p
  <2>1. p[i] \in Elements(rest) /\ p[i] \in S
    BY <1>4 DEF Elements
  <2>2. PICK k \in DOMAIN rest : p[i] = rest[k]
    BY <2>1 DEF Elements
  <2> QED
    BY <1>2, <2>1, <2>2 DEF RestOk
<1>6. p \in Seq(DOMAIN msgs)
  <2>1. ASSUME NEW T, NEW U, T \subseteq U, NEW s \in Seq(T) PROVE s \in Seq(U)
    BY <2>1
  <2>2. S \subseteq DOMAIN msgs
    OBVIOUS
  <2> QED
    BY <1>4, <2>1, <2>2
<1>7. /\ sendBuffer' \in Seq(DOMAIN msgs) /\ Len(p) \in Nat
      /\ \A i \in DOMAIN sendBuffer' :
           /\ i \in Nat
           /\ \/ i \in DOMAIN p /\ i <= Len(p) /\ sendBuffer'[i] = p[i]
              \/ i > Len(p) /\ i - Len(p) \in DOMAIN sendBuffer /\ sendBuffer'[i] = sendBuffer[i - Len(p)]
  <2>1. ASSUME NEW T, NEW a \in Seq(T), NEW b \in Seq(T), NEW c, c = a \o b
        PROVE  /\ c \in Seq(T) /\ Len(a) \in Nat
               /\ \A i \in DOMAIN c :
                    /\ i \in Nat
                    /\ \/ i \in DOMAIN a /\ i <= Len(a) /\ c[i] = a[i]
                       \/ i > Len(a) /\ i - Len(a) \in DOMAIN b /\ c[i] = b[i - Len(a)]
    BY <2>1
  <2> QED
    BY <1>1, <1>3, <1>6, <2>1
<1>8. Ascending(sendBuffer')
  <2> SUFFICES ASSUME NEW i \in DOMAIN sendBuffer', NEW j \in DOMAIN sendBuffer', i < j
               PROVE  sendBuffer'[i] < sendBuffer'[j]
    BY DEF Ascending
  <2>1. CASE i <= Len(p) /\ j <= Len(p)
    BY <1>4, <1>7, <2>1 DEF Ascending
  <2>2. CASE i <= Len(p) /\ j > Len(p)
    BY <1>5, <1>7, <2>2
  <2>3. CASE i > Len(p)
    <3>1. /\ i - Len(p) \in DOMAIN sendBuffer /\ j - Len(p) \in DOMAIN sendBuffer
          /\ i - Len(p) < j - Len(p)
          /\ sendBuffer'[i] = sendBuffer[i - Len(p)] /\ sendBuffer'[j] = sendBuffer[j - Len(p)]
      BY <1>7, <2>3
    <3> QED
      BY <1>3, <3>1 DEF BufferOk, Ascending
  <2> QED
    BY <1>7, <2>1, <2>2, <2>3
<1>9. \A i \in DOMAIN sendBuffer' : msgs[sendBuffer'[i]].place = "buffered" /\ ~IsSettled(sendBuffer'[i])
  <2> SUFFICES ASSUME NEW i \in DOMAIN sendBuffer'
               PROVE  msgs[sendBuffer'[i]].place = "buffered" /\ ~IsSettled(sendBuffer'[i])
    OBVIOUS
  <2>1. CASE i \in DOMAIN p /\ sendBuffer'[i] = p[i]
    BY <1>5, <2>1
  <2>2. CASE i - Len(p) \in DOMAIN sendBuffer /\ sendBuffer'[i] = sendBuffer[i - Len(p)]
    <3> PICK k \in DOMAIN sendBuffer : sendBuffer'[i] = sendBuffer[k]
      BY <2>2
    <3> QED
      BY <1>3 DEF BufferOk
  <2> QED
    BY <1>7, <2>1, <2>2
<1>10. BufferOk'
  BY <1>1, <1>8, <1>9 DEF BufferOk, IsSettled
<1>11. TypeOK'
  <2>1. stack' \in Seq(Frames)
    BY <1>2
  <2> QED
    BY <1>1, <1>7, <2>1 DEF AckInv, TypeOK, clientVars, serverVars
<1>12. ConnectionOk' /\ MessageOk' /\ PendingOk' /\ TrackedOk'
  <2>1. Loops(stack') = Loops(stack)
    BY <1>1, Returning
  <2>2. \A e : Noted(e)' = Noted(e) /\ Awaited(e)' = Awaited(e) /\ Watched(e)' = Watched(e)
    BY <1>1, <2>1 DEF Entry, Noted, Awaited, Watched, clientVars
  <2> QED
    BY <1>1, <2>2 DEF AckInv, ConnectionOk, MessageOk, PendingOk, TrackedOk, Untracked, Tracked, Pending,
                      clientVars, serverVars
<1>13. TasksOk'
  BY <1>1 DEF AckInv, TasksOk, TaskOk, Untracked, Pending, clientVars, serverVars
<1>14. StackOk'
  <2>1. Elements(stack') = {} /\ DOMAIN stack' = {}
    BY <1>2 DEF Elements
  <2> QED
    BY <2>1 DEF StackOk, Distinct, FlushIsLast, OneLoop
<1> QED
  BY <1>10, <1>11, <1>12, <1>13, <1>14 DEF AckInv

-----------------------------------------------------------------------------
(* The theorems.                                                           *)

LEMMA AckNext == AckInv /\ [Next]_vars => AckInv'
<1> SUFFICES ASSUME AckInv, [Next]_vars PROVE AckInv'
  OBVIOUS
<1>1. CASE \E form \in {"callback", "promise"}, timed, volatile \in BOOLEAN :
             ClientEmit(form, timed, volatile) \/ \E s \in Sockets : ServerEmit(s, form, timed, volatile)
  BY <1>1, EmitStep
<1>2. CASE \E e \in Emits : ServerAnswers(e) \/ ClientAnswers(e)
  BY <1>2, AnswersStep
<1>3. CASE \E s \in Sockets : Admit(s)
  BY <1>3, AdmitStep
<1>4. CASE Connect
  BY <1>4, ConnectStep
<1>5. CASE Disconnect
  BY <1>5, DisconnectStep
<1>6. CASE CancelAttempt
  BY <1>6, CancelStep
<1>7. CASE ServerDisconnect \/ CloseFromServer
  BY <1>7, ServerDisconnectStep
<1>8. CASE ClientSends \/ ServerSends
  BY <1>8, SendsStep
<1>9. CASE FlushSends
  BY <1>9, FlushSendsStep
<1>10. CASE FlushRestores
  BY <1>10, RestoreStep
<1>11. CASE \E drain \in BOOLEAN : LeavingReturns(drain)
  BY <1>11, LeavingStep
<1>12. CASE RunPair
  BY <1>12, PairStep
<1>13. CASE RunAccept
  BY <1>13, AcceptStep
<1>14. CASE RunDeliver
  BY <1>14, DeliverStep
<1>15. CASE RunAnswer
  BY <1>15, AnswerStep
<1>16. CASE RunTeardown
  BY <1>16, TeardownStep
<1>17. CASE RunLeave
  BY <1>17, LeaveStep
<1>18. CASE \E e \in Emits : Timeout(e)
  BY <1>18, TimeoutStep
<1>20. CASE RejectReturns
  BY <1>20, RejectStep
<1>19. CASE UNCHANGED vars
  <2>1. UNCHANGED Emitted /\ UNCHANGED <<clientVars, serverVars, ackVars, microtasks, stack>>
    BY <1>19 DEF vars, Emitted, clientVars, ackVars
  <2>2. TypeOK' /\ ConnectionOk'
    BY <2>1 DEF AckInv, TypeOK, ConnectionOk, clientVars, serverVars, ackVars
  <2>3. \A f \in Elements(stack) : f.op = "emit" /\ f.was => attempt' \notin attached'
    BY <2>1 DEF AckInv, StackOk, FrameOk, clientVars, serverVars
  <2>4. Distinct(microtasks') /\ \A t \in Elements(microtasks') : TaskOk(t)
    BY <2>1 DEF AckInv, TasksOk
  <2> QED
    BY <2>1, <2>2, <2>3, <2>4, ConnectionStep DEF serverVars
<1> QED
  BY <1>1, <1>2, <1>3, <1>4, <1>5, <1>6, <1>7, <1>8, <1>9, <1>10, <1>11, <1>12, <1>13, <1>14, <1>15,
     <1>16, <1>17, <1>18, <1>19, <1>20 DEF Next, Application, CallbackReturns, Microtask

\* The guards, the rejecters, the buffer and the frames agree about every emit.
THEOREM AckInvariant == Spec => []AckInv
<1>1. Init => AckInv
  BY AckInit
<1>2. AckInv /\ [Next]_vars => AckInv'
  BY AckNext
<1> QED
  BY <1>1, <1>2, PTL DEF Spec

\* What called a callback again is a rejecter that the loop of a disconnect had left when
\* the timer of its emit fired.
CalledAgain(e) ==
  /\ msgs'[e].again = "disconnect" /\ msgs[e].result = "timeout"
  /\ ~connected /\ Head(stack).op = "reject" /\ <<e, "timed">> \in Head(stack).rest

\* Settling a pending emit or a promise calls nothing again.
LEMMA SettlesOnce ==
  ASSUME AckInv, NEW d \in DOMAIN msgs, NEW how \in {"answer", "timeout", "disconnect"},
         msgs[d].result = "none" \/ msgs[d].form = "promise",
         msgs' = [msgs EXCEPT ![d] = Settle(@, how)], NEW e \in DOMAIN msgs
  PROVE  msgs'[e].again = msgs[e].again
<1>1. msgs \in Seq(Messages) /\ msgs[d] \in Messages
  BY DEF AckInv, TypeOK
<1>2. Settle(msgs[d], how).again = msgs[d].again
  BY <1>1, SettleFacts
<1> QED
  BY <1>1, <1>2

\* The loop calls a callback again when its emit has expired, and no other.
LEMMA RejectedAgain ==
  ASSUME AckInv, NEW rest, RejectersOk(rest), NEW called \in SUBSET rest, NEW e \in DOMAIN msgs,
         Rejected(called, e).again # msgs[e].again
  PROVE  /\ Rejected(called, e).again = "disconnect" /\ msgs[e].result = "timeout"
         /\ <<e, "timed">> \in rest
<1>1. msgs[e] \in Messages
  BY DEF AckInv, TypeOK
<1>2. [msgs[e] EXCEPT !.place = "interrupted"].again = msgs[e].again
  BY <1>1 DEF Messages
<1>3. Settles(called, e) /\ Rejected(called, e) = Settle(msgs[e], "disconnect")
  BY <1>2 DEF Rejected
<1>4. /\ Rejected(called, e).again = "disconnect" /\ msgs[e].result # "none"
      /\ msgs[e].form # "promise"
  BY <1>1, <1>3, SettleFacts
<1>5. <<e, "timed">> \in rest /\ msgs[e].result \in {"none", "timeout"}
  <2>1. \A k : <<e, k>>[1] = e /\ <<e, k>>[2] = k
    OBVIOUS
  <2>2. PICK k \in {"promise", "timed"} : <<e, k>> \in rest
    BY <1>3 DEF Settles
  <2> QED
    BY <1>4, <2>1, <2>2 DEF RejectersOk
<1> QED
  BY <1>4, <1>5

LEMMA AgainStep ==
  ASSUME AckInv, [Next]_vars, NEW e \in DOMAIN msgs, msgs'[e].again # msgs[e].again
  PROVE  CalledAgain(e)
<1>0. msgs \in Seq(Messages) /\ msgs[e] \in Messages
  BY DEF AckInv, TypeOK
<1>1. ASSUME UNCHANGED msgs PROVE FALSE
  BY <1>1
<1>2. ASSUME NEW m, msgs' = Append(msgs, m) PROVE FALSE
  BY <1>0, <1>2
<1>3. ASSUME NEW d, NEW p, msgs' = [msgs EXCEPT ![d].place = p] PROVE FALSE
  BY <1>0, <1>3 DEF Messages
<1>4. ASSUME NEW d, NEW p, NEW g, msgs' = [msgs EXCEPT ![d].place = p, ![d].gen = g] PROVE FALSE
  BY <1>0, <1>4 DEF Messages
<1>5. ASSUME NEW rest, NEW below, RejectersOk(rest), RejectFrom(rest, below)
      PROVE  msgs'[e].again = "disconnect" /\ msgs[e].result = "timeout" /\ <<e, "timed">> \in rest
  <2>1. PICK called \in SUBSET rest : msgs' = [d \in DOMAIN msgs |-> Rejected(called, d)]
    BY <1>5 DEF RejectFrom
  <2>2. msgs'[e] = Rejected(called, e)
    BY <2>1
  <2> QED
    BY <1>5, <2>2, RejectedAgain
<1>6. CASE \E form \in {"callback", "promise"}, timed, volatile \in BOOLEAN :
             ClientEmit(form, timed, volatile) \/ \E s \in Sockets : ServerEmit(s, form, timed, volatile)
  BY <1>2, <1>6 DEF ClientEmit, ServerEmit
<1>7. CASE \E d \in Emits : ServerAnswers(d) \/ ClientAnswers(d)
  BY <1>3, <1>7 DEF ServerAnswers, ClientAnswers
<1>8. CASE \E s \in Sockets : Admit(s)
  BY <1>1, <1>8 DEF Admit, ackVars
<1>9. CASE Connect \/ CancelAttempt \/ ServerDisconnect \/ CloseFromServer \/ RunPair \/ RunTeardown
            \/ UNCHANGED vars \/ \E drain \in BOOLEAN : LeavingReturns(drain)
  BY <1>1, <1>9 DEF Connect, CancelAttempt, ServerDisconnect, CloseFromServer, RunPair, RunTeardown,
                    LeavingReturns, ackVars, vars
<1>10. CASE Disconnect \/ (RunLeave /\ connected)
  <2>1. PICK below : MarkDisconnected(below) /\ connected
    BY <1>10 DEF Disconnect, RunLeave
  <2>2. RejectersOk(pendingAcks)
    BY <2>1, TrackedRejecters
  <2>3. msgs[e].result = "timeout" /\ <<e, "timed">> \in pendingAcks
    BY <1>5, <2>1, <2>2 DEF MarkDisconnected
  <2>4. msgs[e].form # "promise"
    <3>1. PICK called \in SUBSET pendingAcks : msgs' = [d \in DOMAIN msgs |-> Rejected(called, d)]
      BY <2>1 DEF MarkDisconnected, RejectFrom
    <3>2. [msgs[e] EXCEPT !.place = "interrupted"].again = msgs[e].again
      BY <1>0 DEF Messages
    <3>3. Rejected(called, e) = Settle(msgs[e], "disconnect")
      BY <3>1, <3>2 DEF Rejected
    <3> QED
      BY <1>0, <3>1, <3>3, SettleFacts
  <2>5. msgs[e].form = "callback" /\ Tracked(e)
    BY <1>0, <2>3, <2>4 DEF Messages, Tracked
  <2>6. FALSE
    BY <2>3, <2>5 DEF AckInv, PendingOk, Pending
  <2> QED
    BY <2>6
<1>11. CASE RunLeave /\ ~connected
  BY <1>1, <1>11 DEF RunLeave, ackVars
<1>12. CASE RejectReturns
  <2>1. stack # <<>> /\ Head(stack).op = "reject" /\ RejectFrom(Head(stack).rest, Tail(stack))
    BY <1>12 DEF RejectReturns
  <2>2. LoopOk(Head(stack).rest)
    BY <2>1, Returning DEF FrameOk
  <2> QED
    BY <1>5, <2>1, <2>2 DEF LoopOk, CalledAgain
<1>13. CASE ClientSends
  <2> PICK d, sent : d = Head(stack).of
                     /\ sent = [msgs[d] EXCEPT !.place = "queued", !.gen = serverSocket]
    OBVIOUS
  <2>1. /\ msgs' = [msgs EXCEPT ![d] =
                      IF msgs[d].place = "interrupted" THEN Settle(sent, "disconnect") ELSE sent]
        /\ stack # <<>> /\ Head(stack).op = "emit"
    BY <1>13 DEF ClientSends
  <2>2. d \in DOMAIN msgs /\ msgs[d] \in Messages
    BY <1>0, <2>1, Returning DEF FrameOk
  <2>3. sent \in Messages /\ sent.again = msgs[d].again /\ sent.form = msgs[d].form
    <3>1. serverSocket \in 0..MaxConnections
      BY ConnectionTypes, AcknowledgementAssumption
    <3> QED
      BY <2>2, <3>1 DEF Messages
  <2>4. msgs[d].place = "interrupted" => Settle(sent, "disconnect").again = msgs[d].again
    <3>1. msgs[d].place = "interrupted" => msgs[d].form = "promise"
      BY <2>2 DEF AckInv, MessageOk
    <3>2. sent.result = "none" \/ sent.form = "promise" => Settle(sent, "disconnect").again = sent.again
      <4> HIDE DEF Settle
      <4>1. "disconnect" \in {"answer", "timeout", "disconnect"}
        OBVIOUS
      <4> QED
        BY <2>3, <4>1, SettleFacts
    <3> QED
      BY <2>3, <3>1, <3>2
  <2>5. msgs'[e].again = msgs[e].again
    BY <1>0, <2>1, <2>2, <2>3, <2>4
  <2> QED
    BY <2>5
<1>14. CASE ServerSends
  <2> PICK d, g : d = Head(stack).of /\ g = Owner
    OBVIOUS
  <2>1. \/ msgs' = [msgs EXCEPT ![d].place = "queued", ![d].gen = g]
        \/ msgs' = [msgs EXCEPT ![d].place = "lost"]
    BY <1>14 DEF ServerSends
  <2> QED
    BY <1>3, <1>4, <2>1
<1>15. CASE FlushSends
  BY <1>4, <1>15 DEF FlushSends
<1>16. CASE FlushRestores \/ RunAccept
  BY <1>1, <1>16 DEF FlushRestores, RunAccept
<1>17. CASE RunDeliver
  BY <1>3, <1>17 DEF RunDeliver
<1>18. CASE RunAnswer
  <2> PICK d : d = Task.of
    OBVIOUS
  <2>1. microtasks # <<>> /\ Task.op = "answer"
    BY <1>18 DEF RunAnswer, Due, Task
  <2>2. d \in DOMAIN msgs /\ (Untracked(d) => Pending(d))
    BY <2>1, Running DEF TaskOk
  <2>3. CASE IsSettled(d)
    BY <1>1, <1>18, <2>3 DEF RunAnswer
  <2>4. CASE ~IsSettled(d)
    <3>1. msgs' = [msgs EXCEPT ![d] = Settle(@, "answer")]
      BY <1>18, <2>4 DEF RunAnswer
    <3>2. msgs[d].result = "none" \/ msgs[d].form = "promise"
      <4>1. msgs[d] \in Messages
        BY <1>0, <2>2
      <4> QED
        BY <2>2, <2>4, <4>1 DEF IsSettled, Untracked, Pending, Messages
    <3> QED
      BY <2>2, <3>1, <3>2, SettlesOnce
  <2> QED
    BY <2>3, <2>4
<1>19. CASE \E d \in Emits : Timeout(d)
  <2>1. PICK d : d \in DOMAIN msgs /\ msgs[d].timed /\ ~IsSettled(d)
                 /\ msgs' = [msgs EXCEPT ![d] = Settle(@, "timeout")]
    BY <1>19 DEF Timeout
  <2>2. msgs[d].result = "none"
    BY <2>1 DEF IsSettled
  <2> QED
    BY <2>1, <2>2, SettlesOnce
<1> QED
  BY <1>6, <1>7, <1>8, <1>9, <1>10, <1>11, <1>12, <1>13, <1>14, <1>15, <1>16, <1>17, <1>18, <1>19
  DEF Next, Application, CallbackReturns, Microtask

\* Of all that may settle an emit only the loop of a disconnect calls a callback again, and
\* only that of an emit that expired while the loop had its rejecter left: an answer and a
\* timer ask withAckTimeout's `settled`, and what they settle is no longer in pendingAcks.
THEOREM SettledOnce == Spec => OnlyTheLoopCallsAgain
<1>1. AckInv /\ [Next]_vars =>
        [\A e \in DOMAIN msgs :
           msgs'[e].again # msgs[e].again =>
             /\ msgs'[e].again = "disconnect" /\ msgs[e].result = "timeout"
             /\ ~connected /\ Head(stack).op = "reject" /\ <<e, "timed">> \in Head(stack).rest]_vars
  BY AgainStep DEF CalledAgain
<1> QED
  BY <1>1, AckInvariant, PTL DEF Spec, OnlyTheLoopCallsAgain

\* What the client sent on a connection that is over is settled, if it has a timeout or is
\* a promise, or its rejecter is one that the loop of the disconnect has still to call: none
\* is lost before markDisconnected comes to it, whatever the callbacks before it do.
THEOREM DeadConnectionsSettle == Spec => []DeadConnectionSettles
<1>1. AckInv => DeadConnectionSettles
  <2> SUFFICES ASSUME AckInv, NEW e \in DOMAIN msgs, msgs[e].from = 0, msgs[e].gen # 0,
                      msgs[e].timed \/ msgs[e].form = "promise", Pending(e)
               PROVE  \/ connected /\ msgs[e].gen = serverSocket
                      \/ \E kind \in {"promise", "timed"} : <<e, kind>> \in Unrejected
    BY DEF DeadConnectionSettles
  <2>1. ~Untracked(e)
    BY DEF Untracked
  <2>2. Watched(e) /\ msgs[e].gen = serverSocket
    BY <2>1 DEF AckInv, TrackedOk
  <2>3. CASE Awaited(e)
    <3>1. PICK f \in Loops(stack) : Entry(e) \in f.rest
      BY <2>3 DEF Awaited
    <3>2. PICK i \in DOMAIN stack : stack[i] = f /\ stack[i].op = "reject"
      BY DEF Loops, Elements
    <3>3. Entry(e) \in Unrejected
      BY <3>1, <3>2 DEF Unrejected
    <3> QED
      BY <3>3 DEF Entry
  <2> QED
    BY <2>2, <2>3 DEF Watched
<1> QED
  BY <1>1, AckInvariant, PTL

\* However often a flush is interrupted and continued, the send buffer keeps the order of
\* the emits, has each once, and none that a timer or a disconnect has settled.
THEOREM FlushKeepsOrder == Spec => []FlushKeepsTheRest
<1>1. AckInv => FlushKeepsTheRest
  BY DEF AckInv, BufferOk, Ascending, IsSettled, Pending, FlushKeepsTheRest, BufferInOrder,
         ExpiredIsNotResent
<1> QED
  BY <1>1, AckInvariant, PTL

\* A step that answers is one of the two that call an acknowledgement function.
LEMMA OnlyAnswersAnswer ==
  ASSUME AckInv, [Next]_vars, NEW e \in DOMAIN msgs, msgs[e].place = "held", msgs'[e].place = "answered"
  PROVE  \E d \in Emits : ServerAnswers(d) \/ ClientAnswers(d)
<1>0. msgs \in Seq(Messages) /\ msgs[e] \in Messages
  BY DEF AckInv, TypeOK
<1>1. ASSUME UNCHANGED msgs PROVE FALSE
  BY <1>1
<1>2. ASSUME NEW m, msgs' = Append(msgs, m) PROVE FALSE
  BY <1>0, <1>2
<1>3. ASSUME NEW d, NEW p, p # "answered", msgs' = [msgs EXCEPT ![d].place = p] PROVE FALSE
  BY <1>0, <1>3 DEF Messages
<1>4. ASSUME NEW d, NEW p, NEW g, p # "answered", msgs' = [msgs EXCEPT ![d].place = p, ![d].gen = g]
      PROVE  FALSE
  BY <1>0, <1>4 DEF Messages
<1>5. ASSUME NEW how \in {"answer", "timeout", "disconnect"} PROVE Settle(msgs[e], how).place = "held"
  BY <1>0, SettleFacts
<1>6. ASSUME NEW d, NEW how \in {"answer", "timeout", "disconnect"}, msgs' = [msgs EXCEPT ![d] = Settle(@, how)] PROVE FALSE
  <2>1. msgs'[e] = msgs[e] \/ msgs'[e] = Settle(msgs[e], how)
    BY <1>0, <1>6
  <2> QED
    BY <1>5, <2>1
<1>7. ASSUME NEW rest, NEW below, RejectFrom(rest, below) PROVE FALSE
  <2>1. PICK called : msgs' = [d \in DOMAIN msgs |-> Rejected(called, d)]
    BY <1>7 DEF RejectFrom
  <2>2. msgs'[e] = Rejected(called, e)
    BY <2>1
  <2>3. [msgs[e] EXCEPT !.place = "interrupted"].place = "interrupted"
    BY <1>0 DEF Messages
  <2> QED
    BY <1>5, <2>2, <2>3 DEF Rejected
<1>8. CASE \E form \in {"callback", "promise"}, timed, volatile \in BOOLEAN :
             ClientEmit(form, timed, volatile) \/ \E s \in Sockets : ServerEmit(s, form, timed, volatile)
  BY <1>2, <1>8 DEF ClientEmit, ServerEmit
<1>9. CASE \E s \in Sockets : Admit(s)
  BY <1>1, <1>9 DEF Admit, ackVars
<1>10. CASE Connect \/ CancelAttempt \/ ServerDisconnect \/ CloseFromServer \/ RunPair \/ RunTeardown
            \/ UNCHANGED vars \/ \E drain \in BOOLEAN : LeavingReturns(drain)
  BY <1>1, <1>10 DEF Connect, CancelAttempt, ServerDisconnect, CloseFromServer, RunPair, RunTeardown,
                     LeavingReturns, ackVars, vars
<1>11. CASE Disconnect \/ RunLeave \/ RejectReturns
  BY <1>1, <1>7, <1>11 DEF Disconnect, RunLeave, RejectReturns, MarkDisconnected, ackVars
<1>12. CASE ClientSends
  <2> PICK d, sent : d = Head(stack).of
                     /\ sent = [msgs[d] EXCEPT !.place = "queued", !.gen = serverSocket]
    OBVIOUS
  <2>1. msgs' = [msgs EXCEPT ![d] =
                   IF msgs[d].place = "interrupted" THEN Settle(sent, "disconnect") ELSE sent]
    BY <1>12 DEF ClientSends
  <2>2. CASE d = e
    <3>1. msgs'[e] = sent
      BY <1>0, <2>1, <2>2
    <3> QED
      BY <1>0, <2>2, <3>1 DEF Messages
  <2>3. CASE d # e
    BY <1>0, <2>1, <2>3
  <2> QED
    BY <2>2, <2>3
<1>13. CASE ServerSends
  <2> PICK d, g : d = Head(stack).of /\ g = Owner
    OBVIOUS
  <2>1. \/ msgs' = [msgs EXCEPT ![d].place = "queued", ![d].gen = g]
        \/ msgs' = [msgs EXCEPT ![d].place = "lost"]
    BY <1>13 DEF ServerSends
  <2> QED
    BY <1>3, <1>4, <2>1
<1>14. CASE FlushSends
  BY <1>4, <1>14 DEF FlushSends
<1>15. CASE FlushRestores \/ RunAccept
  BY <1>1, <1>15 DEF FlushRestores, RunAccept
<1>16. CASE RunDeliver
  BY <1>3, <1>16 DEF RunDeliver
<1>17. CASE RunAnswer
  BY <1>1, <1>6, <1>17 DEF RunAnswer
<1>18. CASE \E d \in Emits : Timeout(d)
  BY <1>6, <1>18 DEF Timeout
<1> QED
  BY <1>8, <1>9, <1>10, <1>11, <1>12, <1>13, <1>14, <1>15, <1>16, <1>17, <1>18
  DEF Next, Application, CallbackReturns, Microtask

\* An acknowledgement function is dead once its connection is over, on either side, even
\* while a receiver that the client has left drains, and connecting again revives none: the
\* guards that captured a Socket are active for the current one only.
THEOREM AnswersAreOfTheConnection == Spec => AnswersNeedTheConnection
<1>1. ASSUME AckInv, NEW d \in Emits, ServerAnswers(d) \/ ClientAnswers(d),
             NEW e \in DOMAIN msgs, msgs[e].place = "held", msgs'[e].place = "answered"
      PROVE  /\ connected /\ serverSocket = msgs[e].gen
             /\ msgs[e].from # 0 => msgs[e].gen \notin torn
  <2>1. msgs \in Seq(Messages) /\ msgs[e] \in Messages
    BY <1>1 DEF AckInv, TypeOK
  <2>2. d = e
    <3>1. \E p : msgs' = [msgs EXCEPT ![d].place = p]
      BY <1>1 DEF ServerAnswers, ClientAnswers
    <3> QED
      BY <1>1, <2>1, <3>1
  <2>3. msgs[e].gen \in serverAcks \/ (msgs[e].from # 0 /\ msgs[e].gen \in clientAcks)
    BY <1>1, <2>2 DEF ServerAnswers, ClientAnswers
  <2>4. msgs[e].from # 0 => msgs[e].gen \in clientAcks
    BY <1>1, <2>2 DEF ServerAnswers, ClientAnswers
  <2>5. msgs[e].gen \in attached /\ msgs[e].gen # 0 /\ msgs[e].gen \in Nat
    BY <1>1, <2>3, ConnectionTypes
  <2>6. msgs[e].gen = IF connected THEN serverSocket ELSE attempt
    BY <1>1, <2>3 DEF AckInv, ConnectionOk
  <2>7. msgs[e].gen <= serverSocket
    BY <1>1 DEF AckInv, MessageOk
  <2>8. connected
    BY <1>1, <2>5, <2>6, <2>7, ConnectionTypes DEF AckInv, ConnectionOk
  <2>9. msgs[e].from # 0 => msgs[e].gen \notin torn
    BY <1>1, <2>4 DEF AckInv, ConnectionOk
  <2> QED
    BY <2>6, <2>8, <2>9
<1>2. AckInv /\ [Next]_vars =>
        [\A e \in DOMAIN msgs :
           msgs[e].place = "held" /\ msgs'[e].place = "answered" =>
             /\ connected /\ serverSocket = msgs[e].gen
             /\ msgs[e].from # 0 => msgs[e].gen \notin torn]_vars
  BY <1>1, OnlyAnswersAnswer
<1> QED
  BY <1>2, AckInvariant, PTL DEF Spec, AnswersNeedTheConnection

=============================================================================
