------------------------ MODULE WritePipelineProofs ------------------------
(***************************************************************************)
(* The safety properties of WritePipeline, and that it implements          *)
(* WriteQueue, for any users, writes, pipeline length and faults.          *)
(***************************************************************************)
EXTENDS WritePipeline, FiniteSetTheorems, SequenceTheorems, TLAPS

-----------------------------------------------------------------------------
(* The inductive invariant.                                                *)

\* Batch ids grow along a queue.
Ordered(q) == \A i, j \in DOMAIN q : i < j => q[i].id < q[j].id

\* As much of the front of a queue as the pipeline holds.
FrontOf(q) == SubSeq(q, 1, IF Len(q) < MaxPending THEN Len(q) ELSE MaxPending)

\* What is on the wire of an open stream.
OnWire(r) ==
    /\ ~r.shook =>
          /\ \A i \in DOMAIN r.in : r.in[i] = Hello
          /\ Len(r.in) <= 1
          /\ r.stream = "Open" /\ r.ended = "no" => r.in \o r.out = <<Hello>>
    /\ r.shook =>
          /\ r.ended = "no" => r.in \o r.out = r.pipe
          /\ Len(r.in) <= Len(r.pipe) /\ r.in = SubSeq(r.pipe, 1, Len(r.in))

OpenOnly(r) ==
    r.stream # "Open" =>
        /\ r.in = <<>> /\ r.out = <<>> /\ r.ended = "no"
        /\ ~r.shook /\ ~r.idle /\ ~r.late

\* The client between two tasks of the worker queue, for the user with queue q.
Steady(r, q) ==
    /\ r \in ClientType /\ OpenOnly(r)
    /\ ~r.bad /\ r.net /\ r.ended # "ok"
    /\ r.pipe = FrontOf(q)
    /\ r.pipe # <<>> => IsStarted(r)
    /\ "live" \in r.asked => r.stream = "Starting"
    /\ r.idle => r.pipe = <<>> /\ r.shook
    /\ OnWire(r)

\* Ids and names that will be given are new.
Numbered ==
    \A u \in Users :
        /\ Ordered(queue[u])
        /\ \A i \in DOMAIN queue[u] :
              queue[u][i].id < nextId /\ queue[u][i].w <= Len(author)

Unsaid == \A w \in Writes : w > Len(author) => told[w] = "nothing"

\* What the server answers for, it has applied.
Logged(w) == \E k \in DOMAIN log : log[k] = w
RepliesLogged == c.shook => \A i \in DOMAIN c.in : Logged(c.in[i].w)

IInv ==
    /\ TypeOK /\ Steady(c, queue[user]) /\ Numbered /\ Unsaid
    /\ RepliesLogged /\ AckedWasApplied /\ CallbacksAwaitTheirWrite

-----------------------------------------------------------------------------
(* Sequences and the queue on disk.                                        *)

USE PipelineAssumption

LEMMA SeqTyped ==
    ASSUME NEW S, NEW q \in Seq(S)
    PROVE  /\ Len(q) \in Nat /\ DOMAIN q = 1..Len(q)
           /\ \A i \in DOMAIN q : q[i] \in S
           /\ q # <<>> <=> Len(q) > 0
  BY LenProperties, ElementOfSeq, EmptySeq

LEMMA AppendSeq ==
    ASSUME NEW S, NEW q \in Seq(S), NEW e \in S
    PROVE  /\ Append(q, e) \in Seq(S)
           /\ Len(Append(q, e)) = Len(q) + 1
           /\ DOMAIN Append(q, e) = DOMAIN q \cup {Len(q) + 1}
           /\ \A i \in DOMAIN q : i < Len(q) + 1 /\ Append(q, e)[i] = q[i]
           /\ Append(q, e)[Len(q) + 1] = e
  <1>1. Append(q, e) \in Seq(S) /\ Len(Append(q, e)) = Len(q) + 1
        /\ \A i \in 1..Len(q) : Append(q, e)[i] = q[i]
    OBVIOUS
  <1>2. Append(q, e)[Len(q) + 1] = e
    OBVIOUS
  <1> QED
    BY <1>1, <1>2, SeqTyped

LEMMA TailSeq ==
    ASSUME NEW S, NEW q \in Seq(S), q # <<>>
    PROVE  /\ Head(q) \in S /\ Head(q) = q[1] /\ Tail(q) \in Seq(S)
           /\ Len(Tail(q)) = Len(q) - 1
           /\ \A i \in DOMAIN Tail(q) : i + 1 \in DOMAIN q /\ Tail(q)[i] = q[i + 1]
           /\ Tail(q) = SubSeq(q, 2, Len(q)) /\ q = <<q[1]>> \o Tail(q)
  <1>1. /\ Head(q) \in S /\ Tail(q) \in Seq(S) /\ Len(Tail(q)) = Len(q) - 1
        /\ \A i \in 1..Len(Tail(q)) : Tail(q)[i] = q[i + 1]
    BY HeadTailProperties
  <1>2. Len(q) \in Nat \ {0} /\ DOMAIN q = 1..Len(q) /\ DOMAIN Tail(q) = 1..Len(Tail(q))
    BY <1>1, SeqTyped
  <1>3. Tail(q) = SubSeq(q, 2, Len(q))
    BY TailIsSubSeq
  <1>4. SubSeq(q, 1, Len(q)) = <<q[1]>> \o SubSeq(q, 2, Len(q))
    BY <1>2, SubSeqRecursiveFirst
  <1> QED
    BY <1>1, <1>2, <1>3, <1>4, SubSeqFull

LEMMA BatchSeq ==
    ASSUME NEW q \in Seq(Batch)
    PROVE  /\ Len(q) \in Nat /\ DOMAIN q = 1..Len(q)
           /\ \A i \in DOMAIN q : q[i] \in Batch /\ q[i].id \in Nat /\ q[i].w \in Writes
  <1>1. Len(q) \in Nat /\ DOMAIN q = 1..Len(q) /\ \A i \in DOMAIN q : q[i] \in Batch
    BY SeqTyped
  <1> QED
    BY <1>1 DEF Batch

LEMMA SeekFound ==
    ASSUME NEW q \in Seq(Batch), Ordered(q), NEW k \in 1..Len(q)
    PROVE  Seek(q, q[k].id) = k
  <1>1. Len(q) \in Nat /\ DOMAIN q = 1..Len(q) /\ \A i \in DOMAIN q : q[i].id \in Nat
    BY BatchSeq
  <1>2. ASSUME NEW i \in DOMAIN q PROVE q[i].id <= q[k].id <=> i <= k
    <2>1. i < k => q[i].id < q[k].id
      BY <1>1 DEF Ordered
    <2>2. k < i => q[k].id < q[i].id
      BY <1>1 DEF Ordered
    <2> QED
      BY <1>1, <2>1, <2>2
  <1>3. {i \in DOMAIN q : q[i].id <= q[k].id} = 1..k
    BY <1>1, <1>2
  <1>4. Cardinality(1..k) = k
    BY FS_Interval
  <1> QED
    BY <1>3, <1>4 DEF Seek

LEMMA SeekNone ==
    ASSUME NEW q \in Seq(Batch)
    PROVE  Seek(q, -1) = 0
  <1>1. \A i \in DOMAIN q : q[i].id \in Nat
    BY BatchSeq
  <1>2. {i \in DOMAIN q : q[i].id <= -1} = {}
    BY <1>1
  <1> QED
    BY <1>2, FS_EmptySet DEF Seek

LEMMA FrontTyped ==
    ASSUME NEW q \in Seq(Batch)
    PROVE  /\ FrontOf(q) \in Seq(Batch) /\ Len(FrontOf(q)) \in Nat
           /\ Len(FrontOf(q)) = IF Len(q) < MaxPending THEN Len(q) ELSE MaxPending
           /\ \A i \in 1..Len(FrontOf(q)) : i \in 1..Len(q) /\ FrontOf(q)[i] = q[i]
           /\ FrontOf(q) = SubSeq(q, 1, Len(FrontOf(q)))
           /\ FrontOf(q) = <<>> <=> q = <<>>
  <1> DEFINE n == IF Len(q) < MaxPending THEN Len(q) ELSE MaxPending
  <1>1. /\ Len(q) \in Nat /\ n \in Nat /\ n <= Len(q) /\ n <= MaxPending
        /\ n = 0 <=> Len(q) = 0
    BY SeqTyped
  <1>2. FrontOf(q) = SubSeq(q, 1, n)
    BY DEF FrontOf
  <1>3. \A i \in 1..n : q[i] \in Batch
    BY <1>1, SeqTyped
  <1> HIDE DEF n
  <1>4. /\ FrontOf(q) \in Seq(Batch) /\ Len(FrontOf(q)) = n
        /\ \A i \in 1..n : FrontOf(q)[i] = q[i]
    <2>1. /\ SubSeq(q, 1, n) \in Seq(Batch)
          /\ Len(SubSeq(q, 1, n)) = IF 1 <= n THEN n - 1 + 1 ELSE 0
          /\ \A i \in 1..(n - 1 + 1) : SubSeq(q, 1, n)[i] = q[1 + i - 1]
      BY <1>1, <1>3, SubSeqProperties
    <2> QED
      BY <1>1, <1>2, <2>1
  <1>5. FrontOf(q) = <<>> <=> n = 0
    BY <1>4, SeqTyped
  <1>6. q = <<>> <=> Len(q) = 0
    BY SeqTyped
  <1> QED
    BY <1>1, <1>2, <1>4, <1>5, <1>6 DEF n

\* The place behind the pipeline.
LEMMA SeekLast ==
    ASSUME NEW q \in Seq(Batch), Ordered(q), NEW n \in 0..Len(q), NEW r,
           r.pipe = SubSeq(q, 1, n)
    PROVE  Seek(q, LastBatchId(r)) = n /\ r.pipe \in Seq(Batch) /\ Len(r.pipe) = n
  <1>1. Len(q) \in Nat /\ \A i \in 1..n : i \in DOMAIN q /\ q[i] \in Batch
    BY BatchSeq
  <1>2. /\ SubSeq(q, 1, n) \in Seq(Batch)
        /\ Len(SubSeq(q, 1, n)) = IF 1 <= n THEN n - 1 + 1 ELSE 0
        /\ \A i \in 1..(n - 1 + 1) : SubSeq(q, 1, n)[i] = q[1 + i - 1]
    BY <1>1, SubSeqProperties
  <1>3. r.pipe \in Seq(Batch) /\ Len(r.pipe) = n /\ \A i \in 1..n : r.pipe[i] = q[i]
    BY <1>1, <1>2
  <1>4. CASE n = 0
    <2>1. r.pipe = <<>>
      BY <1>3, <1>4, SeqTyped
    <2> QED
      BY <1>3, <1>4, <2>1, SeekNone DEF LastBatchId
  <1>5. CASE n # 0
    <2>1. r.pipe # <<>> /\ n \in 1..Len(q)
      BY <1>1, <1>3, <1>5, SeqTyped
    <2>2. LastBatchId(r) = q[n].id
      BY <1>3, <2>1 DEF LastBatchId
    <2> QED
      BY <1>3, <2>1, <2>2, SeekFound
  <1> QED
    BY <1>4, <1>5

LEMMA NextFound ==
    ASSUME NEW q \in Seq(Batch), Ordered(q), NEW n \in 0..Len(q), n <= MaxPending, NEW r,
           r.pipe = SubSeq(q, 1, n)
    PROVE  LET new == NextBatches(q, LastBatchId(r), MaxPending - Len(r.pipe))
           IN  new \in Seq(Batch) /\ r.pipe \o new = FrontOf(q)
  <1> DEFINE room == MaxPending - Len(r.pipe)
             new  == NextBatches(q, LastBatchId(r), room)
             m    == IF Len(q) - n < room THEN Len(q) - n ELSE room
  <1>1. Len(q) \in Nat /\ \A i \in 1..Len(q) : q[i] \in Batch
    BY BatchSeq
  <1>2. Seek(q, LastBatchId(r)) = n /\ Len(r.pipe) = n
    BY SeekLast
  <1>3. m \in Nat /\ n + m <= Len(q)
        /\ n + m = IF Len(q) < MaxPending THEN Len(q) ELSE MaxPending
    BY <1>1, <1>2
  <1>4. new = SubSeq(q, n + 1, n + m)
    BY <1>2 DEF NextBatches
  <1> HIDE DEF new, m
  <1>5. new \in Seq(Batch)
    <2>1. \A i \in (n + 1)..(n + m) : q[i] \in Batch
      BY <1>1, <1>3
    <2> QED
      BY <1>3, <1>4, <2>1, SubSeqProperties
  <1>6. SubSeq(q, 1, n) \o SubSeq(q, n + 1, n + m) = SubSeq(q, 1, n + m)
    <2>1. 1 \in 1..(Len(q) + 1) /\ n \in (1 - 1)..Len(q) /\ n + m \in n..Len(q)
      BY <1>1, <1>3
    <2> QED
      BY <2>1, ConcatAdjacentSubSeq
  <1> QED
    BY <1>3, <1>4, <1>5, <1>6 DEF FrontOf, new

\* Removing the first batch.
LEMMA FirstRemoved ==
    ASSUME NEW q \in Seq(Batch), Ordered(q), q # <<>>
    PROVE  /\ RemoveBatch(q, q[1].id) = Tail(q)
           /\ Tail(q) \in Seq(Batch) /\ Ordered(Tail(q))
           /\ Tail(FrontOf(q)) = SubSeq(Tail(q), 1, Len(FrontOf(q)) - 1)
           /\ Head(FrontOf(q)) = q[1]
  <1>1. Len(q) \in Nat \ {0} /\ DOMAIN q = 1..Len(q) /\ \A i \in DOMAIN q : q[i] \in Batch
    BY SeqTyped
  <1>2. Seek(q, q[1].id) = 1
    BY <1>1, SeekFound
  <1>3. SubSeq(q, 1, 1 - 1) = <<>> /\ SubSeq(q, 1 + 1, Len(q)) = Tail(q)
    BY <1>1, SubSeqEmpty, TailSeq
  <1>4. Tail(q) \in Seq(Batch) /\ Len(Tail(q)) = Len(q) - 1
        /\ \A i \in DOMAIN Tail(q) : i + 1 \in DOMAIN q /\ Tail(q)[i] = q[i + 1]
    BY TailSeq
  <1>5. RemoveBatch(q, q[1].id) = Tail(q)
    <2>1. RemoveBatch(q, q[1].id) = <<>> \o Tail(q)
      BY <1>2, <1>3 DEF RemoveBatch
    <2> QED
      BY <1>4, <2>1, ConcatEmptySeq
  <1>6. Ordered(Tail(q))
    <2> SUFFICES ASSUME NEW i \in DOMAIN Tail(q), NEW j \in DOMAIN Tail(q), i < j
                 PROVE  Tail(q)[i].id < Tail(q)[j].id
      BY DEF Ordered
    <2>1. i + 1 \in DOMAIN q /\ j + 1 \in DOMAIN q /\ i + 1 < j + 1
      BY <1>1, <1>4
    <2> QED
      BY <1>4, <2>1 DEF Ordered
  <1>7. PICK n : n = Len(FrontOf(q))
    OBVIOUS
  <1>8. n \in Nat /\ n >= 1 /\ n <= Len(q) /\ FrontOf(q) = SubSeq(q, 1, n)
    <2>1. n = IF Len(q) < MaxPending THEN Len(q) ELSE MaxPending
      BY <1>7, FrontTyped
    <2>2. PICK l \in Nat \ {0} : l = Len(q)
      BY <1>1
    <2>3. n \in Nat /\ n >= 1 /\ n <= l
      BY <2>1, <2>2
    <2> QED
      BY <2>1, <2>2, <2>3 DEF FrontOf
  <1>9. Head(FrontOf(q)) = q[1] /\ Tail(FrontOf(q)) = SubSeq(q, 2, n)
    BY <1>1, <1>8, HeadTailOfSubSeq
  <1>10. SubSeq(Tail(q), 1, n - 1) = SubSeq(q, 2, n)
    <2>1. CASE n = 1
      BY <2>1, SubSeqEmpty
    <2>2. CASE n > 1
      <3>1. SubSeq(SubSeq(q, 2, Len(q)), 1, n - 1) = SubSeq(q, 2 + 1 - 1, 2 + (n - 1) - 1)
        BY <1>1, <1>8, <2>2, SubSeqOfSubSeq
      <3> QED
        BY <1>1, <1>3, <1>8, <3>1
    <2> QED
      BY <1>8, <2>1, <2>2
  <1> QED
    BY <1>5, <1>4, <1>6, <1>7, <1>9, <1>10

-----------------------------------------------------------------------------
(* The operators on clients.                                               *)

LEMMA AfterStart == ASSUME NEW r PROVE After(r, StartIfNeeded) = StartIfNeeded(r)
  <1>1. After(r, StartIfNeeded) = CHOOSE s \in {StartIfNeeded(x) : x \in {r}} : TRUE
    BY DEF After
  <1>2. {StartIfNeeded(x) : x \in {r}} = {StartIfNeeded(r)}
    OBVIOUS
  <1> QED
    BY <1>1, <1>2

LEMMA FillOnce == ASSUME NEW r, NEW q PROVE Fill(r, q) = FillFrom(r, q)
  <1>1. Fill(r, q) = CHOOSE s \in {FillFrom(x, q) : x \in {r}} : TRUE
    BY DEF Fill, After
  <1>2. {FillFrom(x, q) : x \in {r}} = {FillFrom(r, q)}
    OBVIOUS
  <1> QED
    BY <1>1, <1>2

LEMMA AssertHolds ==
    ASSUME NEW r \in ClientType, NEW holds, holds
    PROVE  Assert(r, holds) = r
  BY DEF Assert, ClientType

\* What FillWritePipeline adds to the pipeline of a client, without the start.
Filled(r, q, new) ==
    [r EXCEPT !.pipe = FrontOf(q),
              !.out  = IF r.shook /\ r.stream = "Open" THEN @ \o new ELSE @,
              !.idle = IF r.stream # "Open" THEN @
                       ELSE IF q = <<>> THEN TRUE
                       ELSE @ /\ ~(r.shook /\ new # <<>>)]

LEMMA FillDoes ==
    ASSUME NEW r \in ClientType, r.net, NEW q \in Seq(Batch), Ordered(q),
           NEW n \in 0..Len(q), n <= MaxPending, r.pipe = SubSeq(q, 1, n)
    PROVE  \E new \in Seq(Batch) :
              /\ r.pipe \o new = FrontOf(q)
              /\ Fill(r, q) = StartIfNeeded(Filled(r, q, new))
              /\ Filled(r, q, new) \in ClientType
  <1> DEFINE room == IF r.net THEN MaxPending - Len(r.pipe) ELSE 0
             new  == NextBatches(q, LastBatchId(r), room)
             r1   == [r EXCEPT !.pipe = @ \o new]
             r2   == IF CanSend(r) THEN WriteMutations(r1, new) ELSE r1
             r3   == IF r.net /\ r2.pipe = <<>> THEN MarkIdle(r2) ELSE r2
  <1>1. new \in Seq(Batch) /\ r.pipe \o new = FrontOf(q) /\ FrontOf(q) \in Seq(Batch)
    BY NextFound, FrontTyped
  <1>2. Fill(r, q) = StartIfNeeded(r3)
    <2>1. FillFrom(r, q) = After(r3, StartIfNeeded)
      BY DEF FillFrom
    <2> HIDE DEF r3
    <2>2. After(r3, StartIfNeeded) = StartIfNeeded(r3)
      BY AfterStart
    <2> QED
      BY <2>1, <2>2, FillOnce
  <1> HIDE DEF new
  <1>3. r1 = [r EXCEPT !.pipe = FrontOf(q)] /\ r1 \in ClientType
    BY <1>1 DEF ClientType
  <1>4. r.out \o new \in Seq(Message)
    <2>1. new \in Seq(Message) /\ r.out \in Seq(Message)
      BY <1>1, SeqMonotonic DEF ClientType, Message
    <2> QED
      BY <2>1, ConcatProperties
  <1>5. CASE CanSend(r)
    <2>0. r.stream = "Open" /\ r.shook /\ r1.stream = "Open" /\ r1.shook
      BY <1>3, <1>5 DEF CanSend, ClientType
    <2>1. r2 = StreamWrite(r1, new)
      BY <1>3, <1>5, <2>0, AssertHolds DEF WriteMutations
    <2>2. CASE new = <<>>
      <3>1. r2 = r1
        BY <2>1, <2>2 DEF StreamWrite
      <3>2. r.out \o new = r.out
        BY <2>2, ConcatEmptySeq DEF ClientType
      <3>3. r2.pipe = FrontOf(q) /\ (r2.pipe = <<>> <=> q = <<>>)
        <4>1. r1.pipe = FrontOf(q)
          BY <1>3 DEF ClientType
        <4> HIDE DEF r1, r2
        <4> QED
          BY <3>1, <4>1, FrontTyped
      <3>4. r3 = Filled(r, q, new)
        <4>1. r3 = IF q = <<>> THEN [r1 EXCEPT !.idle = TRUE] ELSE r1
          <5> HIDE DEF r1, r2
          <5> QED
            BY <2>0, <3>1, <3>3 DEF MarkIdle
        <4> QED
          <5>1. CASE q = <<>>
            <6>1. r3 = [[r EXCEPT !.pipe = FrontOf(q)] EXCEPT !.idle = TRUE]
              BY <1>3, <4>1, <5>1
            <6>2. Filled(r, q, new) =
                     [r EXCEPT !.pipe = FrontOf(q), !.out = r.out, !.idle = TRUE]
              BY <2>0, <3>2, <5>1 DEF Filled
            <6> HIDE DEF r3
            <6> QED
              BY <6>1, <6>2 DEF ClientType
          <5>2. CASE q # <<>>
            <6>1. r3 = [r EXCEPT !.pipe = FrontOf(q)]
              BY <1>3, <4>1, <5>2
            <6>2. (r.idle /\ ~(r.shook /\ new # <<>>)) = r.idle
              BY <2>2 DEF ClientType
            <6>3. Filled(r, q, new) =
                     [r EXCEPT !.pipe = FrontOf(q), !.out = r.out, !.idle = r.idle]
              BY <2>0, <3>2, <5>2, <6>2 DEF Filled
            <6> HIDE DEF r3
            <6> QED
              BY <6>1, <6>3 DEF ClientType
          <5> QED
            BY <5>1, <5>2
      <3>5. Filled(r, q, new) \in ClientType
        BY <1>1, <1>4 DEF Filled, ClientType
      <3> QED
        BY <1>1, <1>2, <3>4, <3>5
    <2>3. CASE new # <<>>
      <3>1. r2 = [r1 EXCEPT !.out = @ \o new, !.idle = FALSE]
        BY <1>3, <2>0, <2>1, <2>3, AssertHolds DEF StreamWrite
      <3>2. r2.pipe = FrontOf(q) /\ r2.pipe # <<>> /\ q # <<>>
        <4>0. r1.pipe = FrontOf(q)
          BY <1>3 DEF ClientType
        <4>1. r2.pipe = FrontOf(q)
          <5> HIDE DEF r1
          <5> QED
            BY <1>3, <3>1, <4>0 DEF ClientType
        <4>2. FrontOf(q) # <<>>
          BY <1>1, <2>3, ConcatEqualIffEmpty DEF ClientType
        <4> QED
          BY <4>1, <4>2, FrontTyped
      <3>3. r3 = Filled(r, q, new)
        <4>1. r3 = r2
          <5> HIDE DEF r2
          <5> QED
            BY <3>2
        <4>2. r3 = [[r EXCEPT !.pipe = FrontOf(q)] EXCEPT !.out = r.out \o new, !.idle = FALSE]
          BY <1>3, <3>1, <4>1 DEF ClientType
        <4>3. Filled(r, q, new) =
                 [r EXCEPT !.pipe = FrontOf(q), !.out = r.out \o new, !.idle = FALSE]
          BY <2>0, <2>3, <3>2 DEF Filled
        <4> HIDE DEF r3
        <4> QED
          BY <4>2, <4>3 DEF ClientType
      <3>4. Filled(r, q, new) \in ClientType
        BY <1>1, <1>4 DEF Filled, ClientType
      <3> QED
        BY <1>1, <1>2, <3>3, <3>4
    <2> QED
      BY <2>2, <2>3
  <1>6. CASE ~CanSend(r)
    <2>1. r2 = r1 /\ r2.pipe = FrontOf(q) /\ (r2.pipe = <<>> <=> q = <<>>)
      BY <1>3, <1>6, FrontTyped DEF ClientType
    <2>2. ~(r.shook /\ r.stream = "Open")
      BY <1>6 DEF CanSend
    <2>3. r3 = Filled(r, q, new)
      <3>0. Filled(r, q, new) =
               [r EXCEPT !.pipe = FrontOf(q), !.out = @,
                         !.idle = IF r.stream = "Open" /\ q = <<>> THEN TRUE ELSE @]
        BY <2>2 DEF Filled, ClientType
      <3>1. r1.stream = r.stream /\ r1.net
        BY <1>3 DEF ClientType
      <3>2. CASE r.stream = "Open" /\ q = <<>>
        <4>1. r3 = [r1 EXCEPT !.idle = TRUE]
          <5> HIDE DEF r1, r2
          <5> QED
            BY <2>1, <3>1, <3>2 DEF MarkIdle
        <4>2. r3 = [[r EXCEPT !.pipe = FrontOf(q)] EXCEPT !.idle = TRUE]
          BY <1>3, <4>1
        <4> HIDE DEF r3
        <4> QED
          BY <3>0, <3>2, <4>2 DEF ClientType
      <3>3. CASE ~(r.stream = "Open" /\ q = <<>>)
        <4>1. r3 = r1
          <5> HIDE DEF r1, r2
          <5> QED
            BY <2>1, <3>1, <3>3 DEF MarkIdle
        <4>2. r3 = [r EXCEPT !.pipe = FrontOf(q)]
          BY <1>3, <4>1
        <4>3. Filled(r, q, new) =
                 [r EXCEPT !.pipe = FrontOf(q), !.out = r.out, !.idle = r.idle]
          BY <3>0, <3>3
        <4> HIDE DEF r3
        <4> QED
          BY <4>2, <4>3 DEF ClientType
      <3> QED
        BY <3>2, <3>3
    <2>4. Filled(r, q, new) \in ClientType
      BY <1>1, <1>4, <2>2 DEF Filled, ClientType
    <2> QED
      BY <1>1, <1>2, <2>3, <2>4
  <1> QED
    BY <1>5, <1>6

\* A client whose stream is closed, while Close is still under way or after.
Resting(r) ==
    /\ r \in ClientType /\ ~r.bad
    /\ r.stream \in {"Initial", "Error"}
    /\ r.in = <<>> /\ r.out = <<>> /\ r.ended = "no" /\ ~r.late /\ ~r.idle
    /\ "live" \notin r.asked

\* What is steady and has answered nothing on its stream.
Anew(r, q) == Steady(r, q) /\ ~r.shook /\ r.in = <<>>

LEMMA ClosedAnew ==
    ASSUME NEW r \in ClientType, ~r.bad, r.net, r.stream # "Open",
           r.in = <<>>, r.out = <<>>, r.ended = "no", ~r.late, ~r.idle, ~r.shook,
           "live" \in r.asked => r.stream = "Starting",
           NEW q, r.pipe = FrontOf(q), r.pipe # <<>> => IsStarted(r)
    PROVE  Anew(r, q)
  <1>1. OpenOnly(r) /\ r.ended # "ok"
    BY DEF OpenOnly
  <1>2. OnWire(r)
    <2>1. Len(r.in) = 0 /\ DOMAIN r.in = {}
      BY EmptySeq
    <2> QED
      BY <2>1 DEF OnWire
  <1> QED
    BY <1>1, <1>2 DEF Anew, Steady

LEMMA StartedFromRest ==
    ASSUME NEW r, Resting(r), r.net, NEW q, r.pipe = FrontOf(q)
    PROVE  /\ Anew([StartIfNeeded(r) EXCEPT !.shook = FALSE], q)
           /\ StartIfNeeded(StartIfNeeded(r)) = StartIfNeeded(r)
  <1>1. r \in ClientType /\ r.shook \in BOOLEAN /\ ~IsStarted(r)
    BY DEF Resting, ClientType, IsStarted
  <1>2. CASE r.pipe = <<>>
    <2>1. StartIfNeeded(r) = r
      BY <1>2 DEF StartIfNeeded, ShouldStart
    <2>2. Anew([r EXCEPT !.shook = FALSE], q)
      <3> DEFINE s == [r EXCEPT !.shook = FALSE]
      <3>1. /\ s \in ClientType /\ ~s.bad /\ s.net /\ ~s.idle /\ ~s.late /\ ~s.shook
            /\ s.in = <<>> /\ s.out = <<>> /\ s.ended = "no"
            /\ s.asked = r.asked /\ s.pipe = r.pipe /\ s.stream = r.stream
        BY <1>1 DEF Resting, ClientType
      <3> SUFFICES Anew(s, q)
        OBVIOUS
      <3> HIDE DEF s
      <3> QED
        BY <1>2, <3>1, ClosedAnew DEF Resting
    <2> QED
      BY <2>1, <2>2
  <1>3. CASE r.pipe # <<>> /\ r.stream = "Error"
    <2>1. StartIfNeeded(r) = [r EXCEPT !.stream = "Backoff"]
      BY <1>1, <1>3 DEF StartIfNeeded, ShouldStart, StreamStart
    <2>2. Anew([[r EXCEPT !.stream = "Backoff"] EXCEPT !.shook = FALSE], q)
      <3> DEFINE s == [[r EXCEPT !.stream = "Backoff"] EXCEPT !.shook = FALSE]
      <3>1. /\ s \in ClientType /\ ~s.bad /\ s.net /\ ~s.idle /\ ~s.late /\ ~s.shook
            /\ s.in = <<>> /\ s.out = <<>> /\ s.ended = "no"
            /\ s.asked = r.asked /\ s.pipe = r.pipe /\ s.stream = "Backoff"
        BY <1>1 DEF Resting, ClientType
      <3> SUFFICES Anew(s, q)
        OBVIOUS
      <3> HIDE DEF s
      <3> QED
        BY <3>1, ClosedAnew DEF Resting, IsStarted
    <2>3. IsStarted(StartIfNeeded(r))
      BY <2>1 DEF IsStarted, Resting, ClientType
    <2> QED
      BY <2>1, <2>2, <2>3 DEF StartIfNeeded, ShouldStart
  <1>4. CASE r.pipe # <<>> /\ r.stream = "Initial"
    <2>1. StartIfNeeded(r) = [r EXCEPT !.stream = "Starting", !.asked = @ \cup {"live"}]
      BY <1>1, <1>4, AssertHolds DEF StartIfNeeded, ShouldStart, StreamStart
    <2>2. Anew([[r EXCEPT !.stream = "Starting", !.asked = @ \cup {"live"}]
                  EXCEPT !.shook = FALSE], q)
      <3> DEFINE s == [[r EXCEPT !.stream = "Starting", !.asked = @ \cup {"live"}]
                         EXCEPT !.shook = FALSE]
      <3>1. /\ s \in ClientType /\ ~s.bad /\ s.net /\ ~s.idle /\ ~s.late /\ ~s.shook
            /\ s.in = <<>> /\ s.out = <<>> /\ s.ended = "no"
            /\ s.pipe = r.pipe /\ s.stream = "Starting"
        BY <1>1 DEF Resting, ClientType
      <3> SUFFICES Anew(s, q)
        OBVIOUS
      <3> HIDE DEF s
      <3> QED
        BY <3>1, ClosedAnew DEF Resting, IsStarted
    <2>3. IsStarted(StartIfNeeded(r))
      BY <2>1 DEF IsStarted, Resting, ClientType
    <2> QED
      BY <2>1, <2>2, <2>3 DEF StartIfNeeded, ShouldStart
  <1> QED
    BY <1>2, <1>3, <1>4 DEF Resting

LEMMA FilledFromRest ==
    ASSUME NEW r, Resting(r), r.net, NEW q \in Seq(Batch), Ordered(q),
           NEW n \in 0..Len(q), n <= MaxPending, r.pipe = SubSeq(q, 1, n)
    PROVE  \E s : /\ Resting(s) /\ s.net /\ s.pipe = FrontOf(q)
                  /\ Fill(r, q) = StartIfNeeded(s)
  <1>1. PICK new \in Seq(Batch) : Fill(r, q) = StartIfNeeded(Filled(r, q, new))
                                  /\ Filled(r, q, new) \in ClientType
    BY FillDoes DEF Resting
  <1>2. Filled(r, q, new) = [r EXCEPT !.pipe = FrontOf(q), !.out = @, !.idle = @]
    BY DEF Filled, Resting
  <1>3. Resting(Filled(r, q, new)) /\ Filled(r, q, new).net
        /\ Filled(r, q, new).pipe = FrontOf(q)
    BY <1>1, <1>2 DEF Resting, ClientType
  <1> QED
    BY <1>1, <1>3

\* A fresh client, as it is booted or restarted.
LEMMA FilledFromNothing ==
    ASSUME NEW r, Resting(r), r.net, ~r.shook, r.pipe = <<>>,
           NEW q \in Seq(Batch), Ordered(q)
    PROVE  Anew(Fill(r, q), q)
  <1>1. Len(q) \in Nat /\ SubSeq(q, 1, 0) = <<>>
    BY BatchSeq, SubSeqEmpty
  <1>2. PICK new \in Seq(Batch) : Fill(r, q) = StartIfNeeded(Filled(r, q, new))
                                  /\ Filled(r, q, new) \in ClientType
    <2>1. 0 \in 0..Len(q) /\ 0 <= MaxPending /\ r.pipe = SubSeq(q, 1, 0) /\ r \in ClientType
      BY <1>1 DEF Resting
    <2> QED
      BY <2>1, FillDoes
  <1>3. Filled(r, q, new) = [r EXCEPT !.pipe = FrontOf(q), !.out = @, !.idle = @]
    BY DEF Filled, Resting
  <1>4. PICK s : s = Filled(r, q, new)
    OBVIOUS
  <1>5. Resting(s) /\ s.net /\ s.pipe = FrontOf(q) /\ ~s.shook
    BY <1>2, <1>3, <1>4 DEF Resting, ClientType
  <1>6. Anew([StartIfNeeded(s) EXCEPT !.shook = FALSE], q)
    BY <1>5, StartedFromRest
  <1>7. [StartIfNeeded(s) EXCEPT !.shook = FALSE] = StartIfNeeded(s)
    <2>1. StartIfNeeded(s) \in ClientType /\ StartIfNeeded(s).shook = FALSE
      <3>1. s \in ClientType /\ s.shook = FALSE /\ ~s.bad
        BY <1>5 DEF Resting, ClientType
      <3> QED
        BY <3>1 DEF StartIfNeeded, StreamStart, Assert, ClientType
    <2> QED
      BY <2>1 DEF ClientType
  <1> QED
    BY <1>2, <1>4, <1>6, <1>7

\* What Close makes of a client before it tells the listener.
Closed(r, st) == [End(r) EXCEPT !.asked = Stale(@), !.stream = st]

LEMMA ClosedRests ==
    ASSUME NEW r \in ClientType, ~r.bad, NEW st \in {"Initial", "Error"}
    PROVE  /\ Resting(Closed(r, st)) /\ Closed(r, st).stream = st
           /\ Closed(r, st).pipe = r.pipe /\ Closed(r, st).net = r.net
           /\ Closed(r, st).shook = r.shook
  <1>1. Stale(r.asked) \subseteq {"live", "stale"} /\ "live" \notin Stale(r.asked)
    BY DEF Stale
  <1>2. <<>> \in Seq(Message)
    BY EmptySeq
  <1> QED
    BY <1>1, <1>2 DEF Closed, End, Resting, ClientType

LEMMA CloseFails ==
    ASSUME NEW r, NEW q, Steady(r, q), IsStarted(r),
           NEW status \in {"transient", "permanent", "no"}, ~Rejects(r, status)
    PROVE  Anew(Close(r, status, q), q)
  <1>1. r \in ClientType /\ ~r.bad /\ r.net /\ r.pipe = FrontOf(q)
    BY DEF Steady
  <1>2. PICK x : x = Closed(r, "Error")
    OBVIOUS
  <1>3. Resting(x) /\ x.pipe = r.pipe /\ x.net /\ x.shook = r.shook
    BY <1>1, <1>2, ClosedRests
  <1>4. Close(r, status, q) = [OnWriteStreamClose(x, status, q) EXCEPT !.shook = FALSE]
    BY <1>1, <1>2, AssertHolds DEF Close, Closed
  <1>5. ~Rejects(x, status)
    BY <1>3 DEF Rejects
  <1>6. OnWriteStreamClose(x, status, q) = StartIfNeeded(x)
    BY <1>5, AfterStart DEF OnWriteStreamClose
  <1> QED
    BY <1>1, <1>3, <1>4, <1>6, StartedFromRest

LEMMA CloseRejects ==
    ASSUME NEW r, NEW q \in Seq(Batch), Ordered(q), Steady(r, q), IsStarted(r),
           NEW status \in {"transient", "permanent"}, Rejects(r, status)
    PROVE  Anew(Close(r, status, Tail(q)), Tail(q)) /\ q # <<>>
  <1>1. r \in ClientType /\ ~r.bad /\ r.net /\ r.pipe = FrontOf(q)
    BY DEF Steady
  <1>2. PICK x : x = Closed(r, "Error")
    OBVIOUS
  <1>3. Resting(x) /\ x.pipe = r.pipe /\ x.net /\ x.shook = r.shook /\ x.stream = "Error"
    BY <1>1, <1>2, ClosedRests
  <1>4. Close(r, status, Tail(q)) =
          [OnWriteStreamClose(x, status, Tail(q)) EXCEPT !.shook = FALSE]
    BY <1>1, <1>2, AssertHolds DEF Close, Closed
  <1>5. Rejects(x, status) /\ status = "permanent" /\ r.pipe # <<>>
    BY <1>3 DEF Rejects
  <1>6. q # <<>> /\ Len(q) \in Nat \ {0}
    BY <1>1, <1>5, FrontTyped, SeqTyped
  <1>7. InhibitBackoff(x) = [x EXCEPT !.stream = "Initial"]
    <2>1. x \in ClientType /\ ~IsStarted(x)
      BY <1>3 DEF Resting, IsStarted
    <2> QED
      BY <2>1, AssertHolds DEF InhibitBackoff
  <1>8. PICK y : y = [InhibitBackoff(x) EXCEPT !.pipe = Tail(@)]
    OBVIOUS
  <1>9. Resting(y) /\ y.net /\ y.pipe = Tail(FrontOf(q))
    <2>1. Tail(x.pipe) \in Seq(Batch)
      BY <1>1, <1>3, <1>5, FrontTyped, TailSeq
    <2> QED
      BY <1>1, <1>3, <1>7, <1>8, <2>1 DEF Resting, ClientType
  <1>10. PICK n : n = Len(FrontOf(q)) - 1
    OBVIOUS
  <1>11. /\ Tail(q) \in Seq(Batch) /\ Ordered(Tail(q))
         /\ n \in 0..Len(Tail(q)) /\ n <= MaxPending /\ y.pipe = SubSeq(Tail(q), 1, n)
    <2>1. Tail(q) \in Seq(Batch) /\ Ordered(Tail(q)) /\ Len(Tail(q)) = Len(q) - 1
          /\ Tail(FrontOf(q)) = SubSeq(Tail(q), 1, Len(FrontOf(q)) - 1)
      BY <1>6, FirstRemoved, TailSeq
    <2>2. Len(FrontOf(q)) = IF Len(q) < MaxPending THEN Len(q) ELSE MaxPending
      BY FrontTyped
    <2>3. n \in 0..(Len(q) - 1) /\ n <= MaxPending
      BY <1>6, <1>10, <2>2
    <2> QED
      BY <1>9, <1>10, <2>1, <2>3
  <1>12. PICK s : Resting(s) /\ s.net /\ s.pipe = FrontOf(Tail(q))
                  /\ Fill(y, Tail(q)) = StartIfNeeded(s)
    BY <1>9, <1>11, FilledFromRest
  <1>13. OnWriteStreamClose(x, status, Tail(q)) = StartIfNeeded(StartIfNeeded(s))
    <2>1. OnWriteStreamClose(x, status, Tail(q)) =
             After(Fill([InhibitBackoff(x) EXCEPT !.pipe = Tail(@)], Tail(q)), StartIfNeeded)
      BY <1>5 DEF OnWriteStreamClose
    <2>2. OnWriteStreamClose(x, status, Tail(q)) = After(Fill(y, Tail(q)), StartIfNeeded)
      BY <1>8, <2>1
    <2> QED
      BY <1>12, <2>2, AfterStart
  <1>14. Anew([StartIfNeeded(s) EXCEPT !.shook = FALSE], Tail(q))
         /\ StartIfNeeded(StartIfNeeded(s)) = StartIfNeeded(s)
    BY <1>12, StartedFromRest
  <1> QED
    BY <1>4, <1>6, <1>13, <1>14

LEMMA CloseIdle ==
    ASSUME NEW r, NEW q, Steady(r, q), r.idle
    PROVE  Anew(Close(r, "ok", q), q)
  <1>1. /\ r \in ClientType /\ ~r.bad /\ r.net /\ r.pipe = FrontOf(q)
        /\ r.pipe = <<>> /\ r.stream = "Open"
    BY DEF Steady, OpenOnly
  <1>2. PICK x : x = Closed(r, "Initial")
    OBVIOUS
  <1>3. Resting(x) /\ x.pipe = r.pipe /\ x.net /\ x.shook = r.shook
    BY <1>1, <1>2, ClosedRests
  <1>4. Close(r, "ok", q) = [OnWriteStreamClose(x, "ok", q) EXCEPT !.shook = FALSE]
    BY <1>1, <1>2, AssertHolds DEF Close, Closed, IsStarted
  <1>5. ~Rejects(x, "ok") /\ ~ShouldStart(x) /\ x \in ClientType
    BY <1>1, <1>3 DEF Rejects, ShouldStart, Resting
  <1>6. OnWriteStreamClose(x, "ok", q) = StartIfNeeded(x)
    BY <1>5, AfterStart, AssertHolds DEF OnWriteStreamClose
  <1>7. x.pipe = FrontOf(q)
    BY <1>1, <1>3
  <1>8. Anew([StartIfNeeded(x) EXCEPT !.shook = FALSE], q)
    BY <1>3, <1>7, StartedFromRest
  <1> QED
    BY <1>4, <1>6, <1>8

LEMMA RestartAnew ==
    ASSUME NEW r, NEW p, Steady(r, p), NEW q \in Seq(Batch), Ordered(q)
    PROVE  Anew(RestartStreams(r, p, q), q)
  <1> DEFINE off     == [r EXCEPT !.net = FALSE]
             stopped == Close(off, "ok", p)
             fresh   == [stopped EXCEPT !.pipe = <<>>, !.net = TRUE]
  <1>1. off \in ClientType /\ ~off.bad /\ ~off.net /\ off.stream = r.stream
        /\ off.shook = r.shook
    BY DEF Steady, ClientType
  <1>2. Resting(stopped) /\ ~stopped.shook
    <2>1. CASE IsStarted(off)
      <3>1. PICK x : x = Closed(off, "Initial")
        OBVIOUS
      <3>2. Resting(x) /\ ~x.net
        BY <1>1, <3>1, ClosedRests
      <3>3. stopped = [OnWriteStreamClose(x, "ok", p) EXCEPT !.shook = FALSE]
        BY <1>1, <2>1, <3>1, AssertHolds DEF Close, Closed
      <3>4. ~Rejects(x, "ok") /\ ~ShouldStart(x) /\ x \in ClientType
        BY <3>2 DEF Rejects, ShouldStart, Resting
      <3>5. OnWriteStreamClose(x, "ok", p) = x
        BY <3>4, AfterStart, AssertHolds DEF OnWriteStreamClose, StartIfNeeded
      <3>6. stopped = [x EXCEPT !.shook = FALSE]
        BY <3>3, <3>5
      <3> HIDE DEF stopped
      <3> QED
        BY <3>2, <3>6 DEF Resting, ClientType
    <2>2. CASE ~IsStarted(off)
      <3>1. stopped = off
        BY <2>2 DEF Close
      <3>2. r.stream \in {"Initial", "Error"} /\ OpenOnly(r) /\ "live" \notin r.asked
        BY <1>1, <2>2 DEF IsStarted, Steady, ClientType
      <3> QED
        BY <1>1, <3>1, <3>2 DEF Resting, OpenOnly, Steady, ClientType
    <2> QED
      BY <2>1, <2>2
  <1> HIDE DEF stopped
  <1>3. Resting(fresh) /\ fresh.net /\ ~fresh.shook /\ fresh.pipe = <<>>
    <2>1. <<>> \in Seq(Batch)
      BY EmptySeq
    <2> QED
      BY <1>2, <2>1 DEF Resting, ClientType
  <1>4. RestartStreams(r, p, q) = Fill(fresh, q)
    BY DEF RestartStreams, stopped
  <1> HIDE DEF fresh
  <1> QED
    BY <1>3, <1>4, FilledFromNothing

LEMMA BootedAnew ==
    ASSUME NEW q \in Seq(Batch), Ordered(q)
    PROVE  Anew(Booted(q), q)
  <1> DEFINE r == [net |-> TRUE, stream |-> "Initial", shook |-> FALSE, idle |-> FALSE,
                   asked |-> {}, pipe |-> <<>>, out |-> <<>>, in |-> <<>>,
                   ended |-> "no", late |-> FALSE, bad |-> FALSE]
  <1>1. <<>> \in Seq(Batch) /\ <<>> \in Seq(Message)
    BY EmptySeq
  <1>2. Resting(r) /\ r.net /\ ~r.shook /\ r.pipe = <<>>
    BY <1>1 DEF Resting, ClientType
  <1>3. Booted(q) = Fill(r, q)
    BY DEF Booted
  <1> HIDE DEF r
  <1> QED
    BY <1>2, <1>3, FilledFromNothing

LEMMA Prefixes ==
    ASSUME NEW S, NEW s \in Seq(S), NEW t \in Seq(S), NEW n \in 0..Len(s)
    PROVE  SubSeq(s \o t, 1, n) = SubSeq(s, 1, n)
  <1>1. CASE n = 0
    BY <1>1, SubSeqEmpty
  <1>2. CASE n # 0
    <2>1. 1 \in 1..Len(s) /\ n \in 1..Len(s)
      BY <1>2, SeqTyped
    <2> QED
      BY <2>1, SubSeqOfConcat1
  <1> QED
    BY <1>1, <1>2

LEMMA Reassociated ==
    ASSUME NEW a \in Seq(Message), NEW b \in Seq(Message), NEW d \in Seq(Message)
    PROVE  (a \o b) \o d = a \o (b \o d)
  OBVIOUS

\* A client whose stream is open, of which the pipeline is to be filled.
Unfilled(r, q) ==
    /\ r \in ClientType /\ ~r.bad /\ r.net /\ r.stream = "Open" /\ r.ended # "ok"
    /\ "live" \notin r.asked
    /\ r.idle => r.pipe = <<>> /\ r.shook
    /\ ~r.shook => q # <<>>
    /\ OnWire(r)

LEMMA FillOpen ==
    ASSUME NEW q \in Seq(Batch), Ordered(q), NEW r, Unfilled(r, q),
           NEW n \in 0..Len(q), n <= MaxPending, r.pipe = SubSeq(q, 1, n)
    PROVE  LET s == Fill(r, q)
           IN  Steady(s, q) /\ s.shook = r.shook /\ s.in = r.in /\ s.ended = r.ended
  <1>0. r \in ClientType /\ r.net /\ r.stream = "Open"
    BY DEF Unfilled
  <1>1. PICK new \in Seq(Batch) :
              /\ r.pipe \o new = FrontOf(q)
              /\ Fill(r, q) = StartIfNeeded(Filled(r, q, new))
              /\ Filled(r, q, new) \in ClientType
    BY <1>0, FillDoes
  <1>2. PICK s : s = Filled(r, q, new)
    OBVIOUS
  <1>3. /\ s \in ClientType /\ s.stream = "Open" /\ s.pipe = FrontOf(q)
        /\ s.in = r.in /\ s.asked = r.asked /\ s.ended = r.ended
        /\ s.net /\ ~s.bad /\ s.shook = r.shook
        /\ s.out = IF r.shook THEN r.out \o new ELSE r.out
        /\ s.idle => q = <<>> \/ (r.idle /\ ~(r.shook /\ new # <<>>))
    <2>1. ~r.bad
      BY DEF Unfilled
    <2>2. s = [r EXCEPT !.pipe = FrontOf(q), !.out = IF r.shook THEN @ \o new ELSE @,
                        !.idle = IF q = <<>> THEN TRUE
                                 ELSE @ /\ ~(r.shook /\ new # <<>>)]
      BY <1>0, <1>2 DEF Filled
    <2>3. s \in ClientType
      BY <1>1, <1>2
    <2> QED
      BY <1>0, <2>1, <2>2, <2>3 DEF ClientType
  <1>4. Fill(r, q) = s
    BY <1>1, <1>2, <1>3 DEF StartIfNeeded, ShouldStart, IsStarted
  <1>5. s.idle => s.pipe = <<>> /\ s.shook
    <2>1. CASE q = <<>>
      BY <1>3, <2>1, FrontTyped DEF Unfilled
    <2>2. CASE q # <<>> /\ r.idle
      <3>1. r.pipe = <<>> /\ r.shook
        BY <2>2 DEF Unfilled
      <3>2. FrontOf(q) # <<>>
        BY <2>2, FrontTyped
      <3>3. new # <<>>
        BY <1>1, <3>1, <3>2, ConcatEmptySeq
      <3> QED
        BY <1>3, <2>2, <3>1, <3>3
    <2> QED
      BY <1>3, <2>1, <2>2
  <1>6. OnWire(s)
    <2>1. CASE ~r.shook
      BY <1>3, <2>1 DEF Unfilled, OnWire
    <2>2. CASE r.shook
      <3>1. /\ r.pipe \in Seq(Batch) /\ r.in \in Seq(Message) /\ r.out \in Seq(Message)
            /\ new \in Seq(Message) /\ Len(r.in) \in Nat /\ Len(r.pipe) \in Nat
            /\ Len(new) \in Nat
        BY <1>0, SeqMonotonic, SeqTyped DEF ClientType, Message
      <3>2. /\ r.ended = "no" => r.in \o r.out = r.pipe
            /\ Len(r.in) <= Len(r.pipe) /\ r.in = SubSeq(r.pipe, 1, Len(r.in))
        BY <2>2 DEF Unfilled, OnWire
      <3>3. r.in \o (r.out \o new) = (r.in \o r.out) \o new
        <4>1. r.in \in Seq(Message) /\ r.out \in Seq(Message) /\ new \in Seq(Message)
          BY <3>1
        <4> QED
          BY <4>1, Reassociated
      <3>4. Len(r.pipe \o new) = Len(r.pipe) + Len(new)
        BY <3>1, ConcatProperties
      <3>5. SubSeq(r.pipe \o new, 1, Len(r.in)) = SubSeq(r.pipe, 1, Len(r.in))
        BY <3>1, <3>2, Prefixes
      <3> QED
        <4>1. s.in = r.in /\ s.out = r.out \o new /\ s.pipe = r.pipe \o new
              /\ s.ended = r.ended /\ s.shook
          BY <1>1, <1>3, <2>2
        <4>2. s.ended = "no" => s.in \o s.out = s.pipe
          BY <3>2, <3>3, <4>1
        <4>3. Len(s.in) <= Len(s.pipe) /\ s.in = SubSeq(s.pipe, 1, Len(s.in))
          BY <3>1, <3>2, <3>4, <3>5, <4>1
        <4> QED
          BY <4>1, <4>2, <4>3 DEF OnWire
    <2> QED
      BY <2>1, <2>2
  <1>7. OpenOnly(s) /\ IsStarted(s)
    BY <1>3 DEF OpenOnly, IsStarted
  <1> QED
    BY <1>3, <1>4, <1>5, <1>6, <1>7 DEF Unfilled, Steady

\* A write is queued.
LEMMA FillForWrite ==
    ASSUME NEW q \in Seq(Batch), NEW b \in Batch, Ordered(Append(q, b)),
           NEW r, Steady(r, q)
    PROVE  LET s == Fill(r, Append(q, b))
           IN  /\ Steady(s, Append(q, b)) /\ s.shook = r.shook /\ s.in = r.in
               /\ s.ended = r.ended \/ (~s.shook /\ s.in = <<>>)
  <1>0. PICK p : p = Append(q, b)
    OBVIOUS
  <1>1. /\ p \in Seq(Batch) /\ Ordered(p) /\ p # <<>> /\ Len(p) = Len(q) + 1
        /\ Len(q) \in Nat
    BY <1>0, AppendSeq, BatchSeq, SeqTyped
  <1>2. PICK n : n = Len(FrontOf(q))
    OBVIOUS
  <1>3. n \in 0..Len(p) /\ n <= MaxPending /\ r.pipe = SubSeq(p, 1, n)
    <2>0. /\ n = IF Len(q) < MaxPending THEN Len(q) ELSE MaxPending
          /\ FrontOf(q) = SubSeq(q, 1, n)
      BY <1>2, FrontTyped
    <2>1. n \in Nat /\ n <= Len(q) /\ n <= MaxPending /\ FrontOf(q) = SubSeq(q, 1, n)
      BY <1>1, <2>0
    <2>2. p = q \o <<b>> /\ <<b>> \in Seq(Batch)
      BY <1>0
    <2>3. SubSeq(p, 1, n) = SubSeq(q, 1, n)
      BY <1>1, <2>1, <2>2, Prefixes
    <2> QED
      BY <1>1, <2>1, <2>3 DEF Steady
  <1>4. CASE r.stream = "Open"
    <2>1. Unfilled(r, p)
      BY <1>1, <1>4 DEF Unfilled, Steady
    <2> QED
      BY <1>0, <1>1, <1>3, <2>1, FillOpen
  <1>5. CASE r.stream \in {"Initial", "Error"}
    <2>1. Resting(r) /\ r.net /\ ~r.shook /\ r.pipe = <<>> /\ r.in = <<>>
      BY <1>5 DEF Steady, Resting, OpenOnly, IsStarted
    <2>2. Anew(Fill(r, p), p)
      BY <1>1, <2>1, FilledFromNothing
    <2>3. Fill(r, p).shook = r.shook
      BY <2>1, <2>2 DEF Anew, Steady, Resting, ClientType
    <2> QED
      BY <1>0, <2>1, <2>2, <2>3 DEF Anew
  <1>6. CASE r.stream \in {"Starting", "Backoff"}
    <2>1. PICK new \in Seq(Batch) : Fill(r, p) = StartIfNeeded(Filled(r, p, new))
                                    /\ Filled(r, p, new) \in ClientType
      BY <1>1, <1>3, FillDoes DEF Steady
    <2>2. PICK s : s = Filled(r, p, new)
      OBVIOUS
    <2>3. r \in ClientType /\ OpenOnly(r) /\ r.net /\ ~r.bad
      BY DEF Steady
    <2>4. /\ s \in ClientType /\ s.stream = r.stream /\ s.pipe = FrontOf(p)
          /\ s.in = <<>> /\ s.out = <<>> /\ s.ended = "no" /\ s.asked = r.asked
          /\ s.net /\ ~s.bad /\ ~s.shook /\ ~s.late /\ ~s.idle /\ r.in = <<>>
          /\ s.shook = r.shook
      BY <1>6, <2>1, <2>2, <2>3 DEF Filled, OpenOnly, ClientType
    <2>5. IsStarted(s)
      BY <1>6, <2>4 DEF IsStarted
    <2>6. Fill(r, p) = s
      BY <2>1, <2>2, <2>5 DEF StartIfNeeded, ShouldStart
    <2>7. Anew(s, p)
      BY <1>6, <2>4, <2>5, ClosedAnew DEF Steady
    <2> QED
      BY <1>0, <2>4, <2>6, <2>7 DEF Anew
  <1> QED
    BY <1>4, <1>5, <1>6 DEF Steady, ClientType

-----------------------------------------------------------------------------
(* What is on the wire.                                                    *)

LEMMA Moved ==
    ASSUME NEW s \in Seq(Message), NEW t \in Seq(Message), t # <<>>
    PROVE  Append(s, Head(t)) \o Tail(t) = s \o t
  <1>1. /\ Head(t) = t[1] /\ t[1] \in Message /\ Tail(t) \in Seq(Message)
        /\ t = <<t[1]>> \o Tail(t)
    BY TailSeq
  <1>2. <<t[1]>> \in Seq(Message) /\ Append(s, t[1]) = s \o <<t[1]>>
    BY <1>1
  <1>3. (s \o <<t[1]>>) \o Tail(t) = s \o (<<t[1]>> \o Tail(t))
    BY <1>1, <1>2, Reassociated
  <1> QED
    BY <1>1, <1>2, <1>3

LEMMA TailConcat ==
    ASSUME NEW s \in Seq(Message), NEW t \in Seq(Message), s # <<>>
    PROVE  Tail(s \o t) = Tail(s) \o t /\ Head(s \o t) = Head(s) /\ s \o t # <<>>
  <1>1. /\ Head(s) = s[1] /\ s[1] \in Message /\ Tail(s) \in Seq(Message)
        /\ s = <<s[1]>> \o Tail(s)
    BY TailSeq
  <1>2. <<s[1]>> \in Seq(Message) /\ Tail(s) \o t \in Seq(Message)
    BY <1>1, ConcatProperties
  <1>3. (<<s[1]>> \o Tail(s)) \o t = <<s[1]>> \o (Tail(s) \o t)
    BY <1>1, <1>2, Reassociated
  <1>4. s \o t = <<s[1]>> \o (Tail(s) \o t)
    BY <1>1, <1>3
  <1>5. PICK u \in Seq(Message) : u = Tail(s) \o t
    BY <1>2
  <1>6. Len(<<s[1]>> \o u) > 0 /\ Head(<<s[1]>> \o u) = s[1] /\ Tail(<<s[1]>> \o u) = u
    BY <1>1
  <1>7. <<s[1]>> \o u # <<>>
    BY <1>6
  <1> QED
    BY <1>1, <1>4, <1>5, <1>6, <1>7

LEMMA WireIsPrefix ==
    ASSUME NEW s \in Seq(Message), NEW t \in Seq(Message)
    PROVE  /\ Len(s) \in Nat /\ Len(t) \in Nat /\ Len(s \o t) = Len(s) + Len(t)
           /\ SubSeq(s \o t, 1, Len(s)) = s
  <1>1. Len(s) \in Nat /\ Len(t) \in Nat /\ Len(s \o t) = Len(s) + Len(t)
    BY SeqTyped, ConcatProperties
  <1>2. SubSeq(s \o t, 1, Len(s)) = SubSeq(s, 1, Len(s))
    BY <1>1, Prefixes
  <1> QED
    BY <1>1, <1>2, SubSeqFull

LEMMA EmptyConcat ==
    ASSUME NEW s \in Seq(Message), NEW t \in Seq(Message), s \o t = <<>>
    PROVE  s = <<>> /\ t = <<>>
  <1>1. Len(s \o t) = Len(s) + Len(t) /\ Len(s) \in Nat /\ Len(t) \in Nat
    BY WireIsPrefix
  <1>2. Len(s \o t) = 0
    BY EmptySeq
  <1>3. Len(s) = 0 /\ Len(t) = 0
    BY <1>1, <1>2
  <1> QED
    BY <1>3, SeqTyped

LEMMA Messages ==
    ASSUME NEW r \in ClientType
    PROVE  /\ r.in \in Seq(Message) /\ r.out \in Seq(Message) /\ r.pipe \in Seq(Message)
           /\ r.pipe \in Seq(Batch)
           /\ Hello \in Message /\ \A b \in Batch : b # Hello
  <1>1. r.in \in Seq(Message) /\ r.out \in Seq(Message) /\ r.pipe \in Seq(Batch)
    BY DEF ClientType
  <1>2. r.pipe \in Seq(Message)
    BY <1>1, SeqMonotonic DEF Message
  <1>3. \A b \in Batch : b.w # 0
    BY DEF Batch, Writes
  <1>4. Hello.w = 0 /\ Hello \in Message
    BY DEF Hello, Message
  <1> QED
    BY <1>1, <1>2, <1>3, <1>4

\* Before the handshake there is nothing but Hello, on one side or the other.
LEMMA OnlyHello ==
    ASSUME NEW r, NEW q, Steady(r, q), ~r.shook, r.stream = "Open", r.ended = "no"
    PROVE  \/ r.in = <<>> /\ r.out = <<Hello>>
           \/ r.in # <<>> /\ Head(r.in) = Hello /\ Tail(r.in) = <<>> /\ r.out = <<>>
  <1>1. r.in \in Seq(Message) /\ r.out \in Seq(Message)
    BY Messages DEF Steady
  <1>2. r.in \o r.out = <<Hello>>
    BY DEF Steady, OnWire
  <1>3. CASE r.in = <<>>
    BY <1>1, <1>2, <1>3, ConcatEmptySeq
  <1>4. CASE r.in # <<>>
    <2>0. /\ Tail(r.in \o r.out) = Tail(r.in) \o r.out
          /\ Head(r.in \o r.out) = Head(r.in)
      BY <1>1, <1>4, TailConcat
    <2>1. Tail(<<Hello>>) = Tail(r.in) \o r.out /\ Head(<<Hello>>) = Head(r.in)
      BY <1>2, <2>0, Zenon
    <2>2. Tail(<<Hello>>) = <<>> /\ Head(<<Hello>>) = Hello
      OBVIOUS
    <2>3. Tail(r.in) \in Seq(Message) /\ Tail(r.in) \o r.out = <<>>
      BY <1>1, <1>4, <2>1, <2>2, TailSeq
    <2>4. Tail(r.in) = <<>> /\ r.out = <<>>
      BY <1>1, <2>3, EmptyConcat
    <2> QED
      BY <1>4, <2>1, <2>2, <2>4
  <1> QED
    BY <1>3, <1>4

\* After it a reply is about the first batch.
LEMMA FirstReply ==
    ASSUME NEW q \in Seq(Batch), NEW r, Steady(r, q), r.shook, r.in # <<>>
    PROVE  /\ q # <<>> /\ r.pipe # <<>> /\ Head(r.pipe) = q[1] /\ Head(r.in) = q[1]
           /\ Tail(r.in) \in Seq(Message) /\ Tail(r.pipe) \in Seq(Batch)
           /\ r.ended = "no" => Tail(r.in) \o r.out = Tail(r.pipe)
           /\ Len(Tail(r.in)) <= Len(Tail(r.pipe))
           /\ Tail(r.in) = SubSeq(Tail(r.pipe), 1, Len(Tail(r.in)))
  <1>0. r \in ClientType /\ r.pipe = FrontOf(q)
    BY DEF Steady
  <1>1. r.in \in Seq(Message) /\ r.out \in Seq(Message) /\ r.pipe \in Seq(Message)
        /\ r.pipe \in Seq(Batch)
    BY <1>0, Messages
  <1>2. /\ r.ended = "no" => r.in \o r.out = r.pipe
        /\ Len(r.in) <= Len(r.pipe) /\ r.in = SubSeq(r.pipe, 1, Len(r.in))
    BY DEF Steady, OnWire
  <1>3. Len(r.in) \in Nat /\ Len(r.pipe) \in Nat /\ Len(r.in) > 0 /\ r.pipe # <<>>
    BY <1>1, <1>2, SeqTyped
  <1>4. PICK n : n = Len(r.in)
    OBVIOUS
  <1>5. n \in 1..Len(r.pipe) /\ r.in = SubSeq(r.pipe, 1, n)
    BY <1>2, <1>3, <1>4
  <1>6. Head(r.in) = r.pipe[1] /\ Tail(r.in) = SubSeq(r.pipe, 2, n)
    BY <1>1, <1>3, <1>5, HeadTailOfSubSeq
  <1>7. /\ Tail(r.in) \in Seq(Message) /\ Len(Tail(r.in)) = n - 1
        /\ Tail(r.pipe) \in Seq(Batch) /\ Len(Tail(r.pipe)) = Len(r.pipe) - 1
        /\ Head(r.pipe) = r.pipe[1] /\ Tail(r.pipe) = SubSeq(r.pipe, 2, Len(r.pipe))
    BY <1>1, <1>3, <1>4, TailSeq
  <1>8. SubSeq(Tail(r.pipe), 1, n - 1) = SubSeq(r.pipe, 2, n)
    <2>1. CASE n = 1
      BY <2>1, SubSeqEmpty
    <2>2. CASE n > 1
      <3>1. SubSeq(SubSeq(r.pipe, 2, Len(r.pipe)), 1, n - 1) =
                SubSeq(r.pipe, 2 + 1 - 1, 2 + (n - 1) - 1)
        BY <1>1, <1>3, <1>5, <2>2, SubSeqOfSubSeq
      <3> QED
        <4>1. 2 + 1 - 1 = 2 /\ 2 + (n - 1) - 1 = n
          BY <1>3, <1>4
        <4> QED
          BY <1>7, <3>1, <4>1
    <2> QED
      BY <1>3, <1>5, <2>1, <2>2
  <1>9. ASSUME r.ended = "no" PROVE Tail(r.in) \o r.out = Tail(r.pipe)
    <2>1. Tail(r.in \o r.out) = Tail(r.in) \o r.out
      BY <1>1, TailConcat
    <2>2. r.in \o r.out = r.pipe
      BY <1>2, <1>9
    <2> QED
      BY <2>1, <2>2
  <1>10. q # <<>> /\ r.pipe[1] = q[1]
    BY <1>0, <1>3, FrontTyped
  <1>11. Head(r.pipe) = q[1] /\ Head(r.in) = q[1]
    BY <1>6, <1>7, <1>10
  <1>12. Len(Tail(r.in)) <= Len(Tail(r.pipe))
    BY <1>3, <1>5, <1>7
  <1>13. Tail(r.in) = SubSeq(Tail(r.pipe), 1, Len(Tail(r.in)))
    BY <1>6, <1>7, <1>8
  <1> QED
    BY <1>3, <1>7, <1>9, <1>10, <1>11, <1>12, <1>13

-----------------------------------------------------------------------------
(* Each task leaves the client steady.                                     *)

Sound == TypeOK /\ Steady(c, queue[user]) /\ Numbered

LEMMA Queues ==
    ASSUME TypeOK
    PROVE  /\ \A u \in Users : queue[u] \in Seq(Batch) /\ Len(queue[u]) \in Nat
                               /\ DOMAIN queue[u] = 1..Len(queue[u])
           /\ user \in Users
           /\ \A u \in Users : \A i \in DOMAIN queue[u] :
                 queue[u][i] \in Batch /\ queue[u][i].id \in Nat /\ queue[u][i].w \in Writes
  <1>1. \A u \in Users : queue[u] \in Seq(Batch)
    BY DEF TypeOK
  <1> QED
    BY <1>1, BatchSeq DEF TypeOK

LEMMA TokenSteady ==
    ASSUME Sound, TokenArrives
    PROVE  Steady(c', queue[user]) /\ c'.in = <<>> /\ ~c'.shook
  <1>1. Steady(c, queue[user]) /\ c \in ClientType /\ OpenOnly(c) /\ "live" \in c.asked
    BY DEF Sound, Steady, TokenArrives
  <1>2. /\ c.stream = "Starting" /\ c.in = <<>> /\ c.out = <<>> /\ c.ended = "no"
        /\ ~c.shook /\ ~c.idle /\ ~c.late /\ c.net /\ ~c.bad
    BY <1>1 DEF Steady, OpenOnly
  <1> DEFINE x == [c EXCEPT !.stream = "Open", !.asked = @ \ {"live"}]
             y == [x EXCEPT !.out = <<Hello>>, !.idle = FALSE]
  <1>3. x \in ClientType /\ ~x.shook /\ x.stream = "Open" /\ x.out = <<>>
    BY <1>1, <1>2 DEF ClientType
  <1>4. c' = WriteHandshake(x)
    BY <1>1, <1>2, AssertHolds DEF TokenArrives
  <1>5. <<>> \o <<Hello>> = <<Hello>> /\ <<Hello>> # <<>> /\ <<Hello>> \in Seq(Message)
    BY <1>1, Messages, ConcatEmptySeq
  <1> HIDE DEF x
  <1>6. c' = y
    <2>1. Assert(x, ~x.shook) = x /\ Assert(x, x.stream = "Open") = x
      BY <1>3, AssertHolds
    <2>2. c' = [x EXCEPT !.out = @ \o <<Hello>>, !.idle = FALSE]
      BY <1>4, <1>5, <2>1 DEF WriteHandshake, StreamWrite
    <2>3. x.out \o <<Hello>> = <<Hello>>
      BY <1>3, <1>5
    <2> QED
      BY <2>2, <2>3
  <1>7. /\ y \in ClientType /\ y.stream = "Open" /\ y.in = <<>> /\ y.out = <<Hello>>
        /\ y.ended = "no" /\ ~y.shook /\ ~y.idle /\ y.net /\ ~y.bad /\ y.pipe = c.pipe
        /\ "live" \notin y.asked
    BY <1>1, <1>2, <1>5 DEF x, ClientType
  <1> HIDE DEF y
  <1>8. OnWire(y) /\ OpenOnly(y) /\ IsStarted(y)
    <2>1. Len(y.in) = 0 /\ DOMAIN y.in = {}
      BY <1>7, EmptySeq
    <2> QED
      BY <1>5, <1>7, <2>1 DEF OnWire, OpenOnly, IsStarted
  <1> QED
    BY <1>1, <1>6, <1>7, <1>8 DEF Steady

LEMMA ReadTyped ==
    ASSUME c \in ClientType, c.in # <<>>
    PROVE  /\ Read \in ClientType /\ Read.in = Tail(c.in) /\ Read.out = c.out
           /\ Read.pipe = c.pipe /\ Read.shook = c.shook /\ Read.stream = c.stream
           /\ Read.ended = c.ended /\ Read.asked = c.asked /\ Read.idle = c.idle
           /\ Read.net = c.net /\ Read.bad = c.bad
  <1>1. Tail(c.in) \in Seq(Message)
    BY TailSeq, Messages
  <1> QED
    BY <1>1 DEF Read, ClientType

LEMMA HandshakeSteady ==
    ASSUME Sound, HandshakeCompletes
    PROVE  Steady(c', queue[user]) /\ c'.in = <<>> /\ c'.shook /\ c'.ended = c.ended
  <1>1. Steady(c, queue[user]) /\ c \in ClientType /\ c.in # <<>> /\ ~c.shook
    BY DEF Sound, Steady, HandshakeCompletes
  <1>2. /\ c.stream = "Open" /\ ~c.idle /\ c.net /\ ~c.bad /\ c.ended # "ok"
        /\ "live" \notin c.asked
    BY <1>1 DEF Steady, OpenOnly
  <1>3. /\ c.in \in Seq(Message) /\ c.out \in Seq(Message) /\ c.pipe \in Seq(Message)
        /\ c.out \o c.pipe \in Seq(Message) /\ <<>> \o c.pipe = c.pipe
    BY <1>1, Messages, ConcatProperties, ConcatEmptySeq
  <1>4. Tail(c.in) = <<>>
    <2>1. Len(c.in) <= 1 /\ Len(c.in) \in Nat /\ Len(Tail(c.in)) = Len(c.in) - 1
          /\ Tail(c.in) \in Seq(Message) /\ Len(c.in) > 0
      BY <1>1, <1>3, SeqTyped, TailSeq DEF Steady, OnWire
    <2>2. PICK t \in Seq(Message) : t = Tail(c.in)
      BY <2>1
    <2>3. ~(Len(t) > 0)
      BY <2>1, <2>2
    <2> QED
      BY <2>2, <2>3, SeqTyped
  <1> DEFINE x == [Read EXCEPT !.shook = TRUE]
             y == [x EXCEPT !.out = c.out \o c.pipe, !.idle = FALSE]
  <1>5. /\ x \in ClientType /\ x.shook /\ x.stream = "Open" /\ x.out = c.out
        /\ x.in = <<>> /\ x.pipe = c.pipe /\ x.ended = c.ended /\ x.asked = c.asked
        /\ ~x.idle /\ x.net /\ ~x.bad
    BY <1>1, <1>2, <1>4, ReadTyped DEF ClientType
  <1>6. c' = WriteMutations(x, c.pipe)
    BY DEF HandshakeCompletes
  <1> HIDE DEF x
  <1>7. c' = y
    <2>1. c' = StreamWrite(x, c.pipe)
      BY <1>5, <1>6, AssertHolds DEF WriteMutations
    <2>2. CASE c.pipe = <<>>
      <3>1. c.out \o c.pipe = x.out
        BY <1>3, <1>5, <2>2, ConcatEmptySeq
      <3>2. c' = x
        BY <2>1, <2>2 DEF StreamWrite
      <3> QED
        BY <1>5, <3>1, <3>2 DEF ClientType
    <2>3. CASE c.pipe # <<>>
      BY <1>5, <2>1, <2>3, AssertHolds DEF StreamWrite
    <2> QED
      BY <2>2, <2>3
  <1>8. /\ y \in ClientType /\ y.shook /\ y.stream = "Open" /\ y.out = c.out \o c.pipe
        /\ y.in = <<>> /\ y.pipe = c.pipe /\ y.ended = c.ended /\ y.asked = c.asked
        /\ ~y.idle /\ y.net /\ ~y.bad
    BY <1>3, <1>5 DEF ClientType
  <1> HIDE DEF y
  <1>9. OnWire(y)
    <2>1. ASSUME y.ended = "no" PROVE y.in \o y.out = y.pipe
      <3>1. c.out = <<>>
        BY <1>1, <1>2, <1>8, <2>1, OnlyHello
      <3>2. y.out = c.pipe
        BY <1>3, <1>8, <3>1
      <3> QED
        BY <1>3, <1>8, <3>2
    <2>2. Len(<<>>) = 0 /\ SubSeq(y.pipe, 1, 0) = <<>> /\ Len(y.pipe) \in Nat
      BY <1>3, <1>8, SubSeqEmpty, EmptySeq, SeqTyped
    <2>3. Len(y.in) <= Len(y.pipe) /\ y.in = SubSeq(y.pipe, 1, Len(y.in))
      BY <1>8, <2>2
    <2> QED
      BY <1>8, <2>1, <2>3 DEF OnWire
  <1> QED
    BY <1>1, <1>2, <1>7, <1>8, <1>9 DEF Steady, OpenOnly, IsStarted

\* What HandleSuccessfulWrite and HandleRejectedWrite do to the first batch.
LEMMA FirstFinished ==
    ASSUME Sound, queue[user] # <<>>, NEW outcome, Finished(queue[user][1], outcome)
    PROVE  /\ queue' = [queue EXCEPT ![user] = Tail(@)]
           /\ queue'[user] = Tail(queue[user])
           /\ told' = Notified(queue[user][1].id, outcome)
           /\ callbacks' = Unregistered(queue[user][1].id)
           /\ queue[user] \in Seq(Batch) /\ Ordered(queue[user])
           /\ queue[user][1].id \in Ids(queue[user])
  <1>1. user \in Users /\ queue[user] \in Seq(Batch) /\ Ordered(queue[user])
    BY Queues DEF Sound, Numbered
  <1>2. RemoveBatch(queue[user], queue[user][1].id) = Tail(queue[user])
    BY <1>1, FirstRemoved
  <1>3. 1 \in DOMAIN queue[user]
    BY <1>1, SeqTyped
  <1>4. queue' = [queue EXCEPT ![user] = Tail(@)]
    BY <1>2 DEF Finished
  <1>5. queue'[user] = Tail(queue[user])
    BY <1>1, <1>4 DEF Sound, TypeOK
  <1> QED
    BY <1>1, <1>3, <1>4, <1>5 DEF Finished, Ids

LEMMA AckDoes ==
    ASSUME Sound, WriteAcknowledged
    PROVE  /\ queue[user] # <<>> /\ Head(c.in) = queue[user][1]
           /\ Finished(queue[user][1], "ok")
           /\ c' = Fill([Assert(Read, queue[user][1].id \in Ids(queue[user]))
                            EXCEPT !.pipe = Tail(@)], queue'[user])
  <1>1. Steady(c, queue[user]) /\ c.in # <<>> /\ c.shook /\ queue[user] \in Seq(Batch)
    BY Queues DEF Sound, WriteAcknowledged
  <1>2. queue[user] # <<>> /\ c.pipe # <<>> /\ Head(c.pipe) = queue[user][1]
        /\ Head(c.in) = queue[user][1]
    BY <1>1, FirstReply
  <1> QED
    BY <1>2 DEF WriteAcknowledged

LEMMA AckSteady ==
    ASSUME Sound, WriteAcknowledged
    PROVE  Steady(c', queue'[user]) /\ c'.in = Tail(c.in) /\ c'.shook /\ c'.ended = c.ended
  <1>0. PICK q : q = queue[user]
    OBVIOUS
  <1>1. Steady(c, q) /\ c \in ClientType /\ c.in # <<>> /\ c.shook
    BY <1>0 DEF Sound, Steady, WriteAcknowledged
  <1>2. /\ c.stream = "Open" /\ c.net /\ ~c.bad /\ c.ended # "ok"
        /\ "live" \notin c.asked /\ c.pipe = FrontOf(q) /\ (c.idle => c.pipe = <<>>)
    BY <1>1 DEF Steady, OpenOnly
  <1>3. /\ q # <<>> /\ q[1].id \in Ids(q) /\ queue'[user] = Tail(q)
        /\ q \in Seq(Batch) /\ Ordered(q)
        /\ c' = Fill([Assert(Read, q[1].id \in Ids(q)) EXCEPT !.pipe = Tail(@)], Tail(q))
    BY <1>0, AckDoes, FirstFinished
  <1>4. /\ c.pipe # <<>> /\ Tail(c.in) \in Seq(Message) /\ Tail(c.pipe) \in Seq(Batch)
        /\ c.ended = "no" => Tail(c.in) \o c.out = Tail(c.pipe)
        /\ Len(Tail(c.in)) <= Len(Tail(c.pipe))
        /\ Tail(c.in) = SubSeq(Tail(c.pipe), 1, Len(Tail(c.in)))
    BY <1>1, <1>3, FirstReply
  <1>5. PICK y : y = [Read EXCEPT !.pipe = Tail(@)]
    OBVIOUS
  <1>6. c' = Fill(y, Tail(q))
    <2>1. Assert(Read, q[1].id \in Ids(q)) = Read
      BY <1>1, <1>3, ReadTyped, AssertHolds
    <2> QED
      BY <1>3, <1>5, <2>1
  <1>7. /\ y \in ClientType /\ y.shook /\ y.stream = "Open" /\ y.in = Tail(c.in)
        /\ y.out = c.out /\ y.pipe = Tail(c.pipe) /\ y.ended = c.ended
        /\ y.asked = c.asked /\ ~y.idle /\ y.net /\ ~y.bad
    BY <1>1, <1>2, <1>4, <1>5, ReadTyped DEF ClientType
  <1>8. OnWire(y)
    BY <1>4, <1>7 DEF OnWire
  <1>9. Unfilled(y, Tail(q))
    BY <1>2, <1>7, <1>8 DEF Unfilled
  <1>10. PICK n : n = Len(FrontOf(q)) - 1
    OBVIOUS
  <1>11. /\ Tail(q) \in Seq(Batch) /\ Ordered(Tail(q))
         /\ n \in 0..Len(Tail(q)) /\ n <= MaxPending /\ y.pipe = SubSeq(Tail(q), 1, n)
    <2>1. Tail(q) \in Seq(Batch) /\ Ordered(Tail(q)) /\ Len(Tail(q)) = Len(q) - 1
          /\ Tail(FrontOf(q)) = SubSeq(Tail(q), 1, Len(FrontOf(q)) - 1)
      BY <1>3, FirstRemoved, TailSeq
    <2>2. Len(FrontOf(q)) = IF Len(q) < MaxPending THEN Len(q) ELSE MaxPending
      BY <1>3, FrontTyped
    <2>3. n \in 0..(Len(q) - 1) /\ n <= MaxPending
      <3>1. Len(q) \in Nat /\ Len(q) > 0
        BY <1>3, SeqTyped
      <3> QED
        BY <1>10, <2>2, <3>1
    <2> QED
      BY <1>2, <1>7, <1>10, <2>1, <2>3
  <1>12. Steady(Fill(y, Tail(q)), Tail(q)) /\ Fill(y, Tail(q)).shook = y.shook
         /\ Fill(y, Tail(q)).in = y.in /\ Fill(y, Tail(q)).ended = y.ended
    BY <1>9, <1>11, FillOpen
  <1>13. Fill(y, Tail(q)).shook
    BY <1>7, <1>12
  <1> QED
    BY <1>3, <1>6, <1>7, <1>12, <1>13

\* The end of a call: the stream is closed with the server's status, and the
\* first batch is given up if that is permanent.
LEMMA EndSteady ==
    ASSUME Sound, CallEnds, IsStarted(c)
    PROVE  /\ Anew(c', queue'[user])
           /\ \/ UNCHANGED <<queue, callbacks, told>>
              \/ queue[user] # <<>> /\ Finished(queue[user][1], "rejected")
  <1>1. /\ Steady(c, queue[user]) /\ c \in ClientType /\ c.pipe = FrontOf(queue[user])
        /\ queue[user] \in Seq(Batch) /\ Ordered(queue[user])
        /\ c.ended \in {"transient", "permanent", "no"}
    BY Queues DEF Sound, Numbered, Steady, ClientType, Status
  <1>2. CASE ~Rejects(c, c.ended)
    <2>1. c' = Close(c, c.ended, queue[user]) /\ UNCHANGED <<queue, callbacks, told>>
      BY <1>2 DEF CallEnds
    <2>2. Anew(Close(c, c.ended, queue[user]), queue[user])
      BY <1>1, <1>2, CloseFails
    <2> QED
      BY <2>1, <2>2
  <1>3. CASE Rejects(c, c.ended)
    <2>0. c.ended \in {"transient", "permanent"}
      BY <1>3 DEF Rejects
    <2>1. Anew(Close(c, c.ended, Tail(queue[user])), Tail(queue[user])) /\ queue[user] # <<>>
      BY <1>1, <1>3, <2>0, CloseRejects
    <2>2. Head(c.pipe) = queue[user][1]
      BY <1>1, <2>1, FirstRemoved
    <2>3. /\ Finished(queue[user][1], "rejected")
          /\ c' = Assert(Close(c, c.ended, queue'[user]),
                         queue[user][1].id \in Ids(queue[user]))
      BY <1>3, <2>2 DEF CallEnds
    <2>4. queue'[user] = Tail(queue[user]) /\ queue[user][1].id \in Ids(queue[user])
      BY <2>1, <2>3, FirstFinished
    <2>5. c' = Close(c, c.ended, Tail(queue[user]))
      <3>1. Close(c, c.ended, Tail(queue[user])) \in ClientType
        BY <2>1 DEF Anew, Steady
      <3> QED
        BY <2>3, <2>4, <3>1, AssertHolds
    <2> QED
      BY <2>1, <2>3, <2>4, <2>5
  <1> QED
    BY <1>2, <1>3

LEMMA StaleSteady ==
    ASSUME Sound, StaleTokenArrives
    PROVE  Steady(c', queue[user]) /\ c'.in = c.in /\ c'.shook = c.shook /\ c'.ended = c.ended
  <1>1. Steady(c, queue[user]) /\ c \in ClientType
    BY DEF Sound, Steady
  <1>2. c' = [c EXCEPT !.asked = @ \ {"stale"}]
    BY DEF StaleTokenArrives
  <1>3. /\ c' \in ClientType /\ c'.in = c.in /\ c'.out = c.out /\ c'.pipe = c.pipe
        /\ c'.shook = c.shook /\ c'.stream = c.stream /\ c'.ended = c.ended
        /\ c'.idle = c.idle /\ c'.late = c.late /\ c'.asked \subseteq c.asked
        /\ c'.net = c.net /\ c'.bad = c.bad
    BY <1>1, <1>2 DEF ClientType
  <1> HIDE DEF StaleTokenArrives
  <1> QED
    BY <1>1, <1>3 DEF Steady, OpenOnly, OnWire, IsStarted

LEMMA BackoffSteady ==
    ASSUME Sound, BackoffElapses
    PROVE  Anew(c', queue[user])
  <1>1. Steady(c, queue[user]) /\ c \in ClientType /\ c.stream = "Backoff" /\ OpenOnly(c)
    BY DEF Sound, Steady, BackoffElapses
  <1>2. /\ c.in = <<>> /\ c.out = <<>> /\ c.ended = "no" /\ ~c.shook /\ ~c.idle /\ ~c.late
        /\ c.net /\ ~c.bad /\ c.pipe = FrontOf(queue[user])
    BY <1>1 DEF Steady, OpenOnly
  <1> DEFINE x == [c EXCEPT !.stream = "Initial"]
  <1>3. x \in ClientType /\ x.stream = "Initial"
    BY <1>1 DEF ClientType
  <1>4. Assert(x, x.stream = "Initial") = x
    BY <1>3, AssertHolds
  <1>5. c' = [x EXCEPT !.stream = "Starting", !.asked = @ \cup {"live"}]
    BY <1>3, <1>4 DEF BackoffElapses, StreamStart
  <1>6. /\ c' \in ClientType /\ c'.in = <<>> /\ c'.out = <<>> /\ c'.pipe = c.pipe
        /\ ~c'.shook /\ c'.stream = "Starting" /\ c'.ended = "no"
        /\ ~c'.idle /\ ~c'.late /\ c'.net /\ ~c'.bad
    BY <1>1, <1>2, <1>5 DEF ClientType
  <1>7. PICK y : y = c'
    OBVIOUS
  <1>8. Anew(y, queue[user])
    BY <1>2, <1>6, <1>7, ClosedAnew DEF IsStarted
  <1> QED
    BY <1>7, <1>8

LEMMA TokenFailsSteady ==
    ASSUME Sound, TokenFails
    PROVE  Anew(c', queue[user])
  <1>1. Steady(c, queue[user]) /\ c \in ClientType /\ c.stream = "Starting"
    BY DEF Sound, Steady, TokenFails
  <1>2. PICK x : x = [c EXCEPT !.asked = @ \ {"live"}]
    OBVIOUS
  <1>3. Assert(c, c.stream = "Starting") = c
    BY <1>1, AssertHolds
  <1>4. c' = Close(x, "transient", queue[user])
    BY <1>2, <1>3 DEF TokenFails
  <1>5. /\ x \in ClientType /\ x.in = c.in /\ x.out = c.out /\ x.pipe = c.pipe
        /\ x.shook = c.shook /\ x.stream = c.stream /\ x.ended = c.ended
        /\ x.idle = c.idle /\ x.late = c.late /\ x.asked \subseteq c.asked
        /\ x.net = c.net /\ x.bad = c.bad
    BY <1>1, <1>2 DEF ClientType
  <1>6. Steady(x, queue[user]) /\ IsStarted(x)
    BY <1>1, <1>5 DEF Steady, OpenOnly, OnWire, IsStarted
  <1>7. ~Rejects(x, "transient")
    BY DEF Rejects
  <1> QED
    BY <1>4, <1>6, <1>7, CloseFails

LEMMA WriteSteady ==
    ASSUME Sound, Write
    PROVE  LET b == [id |-> nextId, w |-> Len(author) + 1]
           IN  /\ Steady(c', queue'[user]) /\ c'.in = c.in /\ c'.shook = c.shook
               /\ c'.ended = c.ended \/ (~c'.shook /\ c'.in = <<>>)
               /\ b \in Batch /\ queue' = [queue EXCEPT ![user] = Append(@, b)]
               /\ queue'[user] = Append(queue[user], b) /\ Ordered(queue'[user])
  <1>1. PICK b : b = [id |-> nextId, w |-> Len(author) + 1]
    OBVIOUS
  <1>2. PICK q : q = queue[user]
    OBVIOUS
  <1>3. b \in Batch /\ b.id = nextId
    BY <1>1 DEF Write, Batch, Sound, TypeOK
  <1>4. user \in Users /\ q \in Seq(Batch) /\ Ordered(q)
        /\ \A i \in DOMAIN q : q[i].id < nextId
    BY <1>2, Queues DEF Sound, Numbered
  <1>5. queue' = [queue EXCEPT ![user] = Append(q, b)] /\ c' = Fill(c, Append(q, b))
    BY <1>1, <1>2 DEF Write
  <1>6. queue'[user] = Append(q, b)
    BY <1>4, <1>5 DEF Sound, TypeOK
  <1>7. Ordered(Append(q, b))
    <2> SUFFICES ASSUME NEW i \in DOMAIN Append(q, b), NEW j \in DOMAIN Append(q, b), i < j
                 PROVE  Append(q, b)[i].id < Append(q, b)[j].id
      BY DEF Ordered
    <2>1. /\ DOMAIN Append(q, b) = DOMAIN q \cup {Len(q) + 1} /\ DOMAIN q = 1..Len(q)
          /\ \A k \in DOMAIN q : Append(q, b)[k] = q[k] /\ k < Len(q) + 1
          /\ Append(q, b)[Len(q) + 1] = b /\ Len(q) \in Nat
      BY <1>3, <1>4, AppendSeq, BatchSeq
    <2>2. i \in DOMAIN q
      BY <2>1
    <2> QED
      BY <1>3, <1>4, <2>1, <2>2 DEF Ordered
  <1>8. /\ Steady(Fill(c, Append(q, b)), Append(q, b))
        /\ Fill(c, Append(q, b)).shook = c.shook /\ Fill(c, Append(q, b)).in = c.in
        /\ \/ Fill(c, Append(q, b)).ended = c.ended
           \/ ~Fill(c, Append(q, b)).shook /\ Fill(c, Append(q, b)).in = <<>>
    BY <1>2, <1>3, <1>4, <1>7, FillForWrite DEF Sound
  <1> QED
    BY <1>1, <1>2, <1>3, <1>5, <1>6, <1>7, <1>8

\* Something the server or the network does to the call: all but the wire, the
\* status and the replies stays as it is.
LEMMA CallSteady ==
    ASSUME Sound, c.stream = "Open", c' \in ClientType, c'.ended # "ok",
           c'.net = c.net, c'.stream = c.stream, c'.shook = c.shook, c'.idle = c.idle,
           c'.asked = c.asked, c'.pipe = c.pipe, c'.late = c.late, c'.bad = c.bad,
           OnWire(c')
    PROVE  Steady(c', queue[user])
  BY DEF Sound, Steady, OpenOnly, IsStarted

\* Only an open stream has requests for the server.
LEMMA TakingOpen ==
    ASSUME Sound, Taking
    PROVE  /\ c.stream = "Open" /\ c \in ClientType /\ c.ended = "no" /\ c.out # <<>>
           /\ c.in \in Seq(Message) /\ c.out \in Seq(Message) /\ c.pipe \in Seq(Message)
           /\ Head(c.out) \in Message /\ Tail(c.out) \in Seq(Message)
           /\ Append(c.in, Head(c.out)) \in Seq(Message)
           /\ Append(c.in, Head(c.out)) \o Tail(c.out) = c.in \o c.out
           /\ c.shook => c.in \o c.out = c.pipe
           /\ ~c.shook => c.in = <<>> /\ c.out = <<Hello>>
  <1>1. Steady(c, queue[user]) /\ c \in ClientType /\ c.ended = "no" /\ c.out # <<>>
    BY DEF Sound, Steady, Taking
  <1>2. c.stream = "Open"
    BY <1>1 DEF Steady, OpenOnly
  <1>3. c.in \in Seq(Message) /\ c.out \in Seq(Message) /\ c.pipe \in Seq(Message)
    BY <1>1, Messages
  <1>4. Head(c.out) \in Message /\ Tail(c.out) \in Seq(Message)
    BY <1>1, <1>3, TailSeq
  <1>5. Append(c.in, Head(c.out)) \in Seq(Message)
    BY <1>3, <1>4, AppendSeq
  <1>6. Append(c.in, Head(c.out)) \o Tail(c.out) = c.in \o c.out
    BY <1>1, <1>3, Moved
  <1>7. c.shook => c.in \o c.out = c.pipe
    BY <1>1 DEF Steady, OnWire
  <1>8. ~c.shook => c.in = <<>> /\ c.out = <<Hello>>
    BY <1>1, <1>2, OnlyHello
  <1> QED
    BY <1>1, <1>2, <1>3, <1>4, <1>5, <1>6, <1>7, <1>8

LEMMA ServerSteady ==
    ASSUME Sound, Taking,
           c' = [c EXCEPT !.out = Tail(@), !.in = Append(@, Head(c.out))]
    PROVE  Steady(c', queue[user]) /\ c'.in = Append(c.in, Head(c.out))
           /\ c'.shook = c.shook /\ c'.ended = "no"
  <1>1. PICK m \in Message : m = Head(c.out)
    BY TakingOpen
  <1>2. PICK t \in Seq(Message) : t = Tail(c.out)
    BY TakingOpen
  <1>3. PICK s \in Seq(Message) : s = Append(c.in, m)
    BY <1>1, TakingOpen
  <1>4. c' = [c EXCEPT !.out = t, !.in = s]
    BY <1>1, <1>2, <1>3
  <1>5. /\ c' \in ClientType /\ c'.in = s /\ c'.out = t /\ c'.ended = "no"
        /\ c'.net = c.net /\ c'.stream = c.stream /\ c'.shook = c.shook /\ c'.idle = c.idle
        /\ c'.asked = c.asked /\ c'.pipe = c.pipe /\ c'.late = c.late /\ c'.bad = c.bad
    <2>1. c \in ClientType /\ c.ended = "no"
      BY TakingOpen
    <2> QED
      BY <1>4, <2>1 DEF ClientType
  <1>6. s \o t = c.in \o c.out
    BY <1>1, <1>2, <1>3, TakingOpen
  <1>7. OnWire(c')
    <2>1. CASE c.shook
      <3>1. s \o t = c.pipe
        BY <1>6, <2>1, TakingOpen
      <3>2. Len(s) <= Len(c.pipe) /\ s = SubSeq(c.pipe, 1, Len(s))
        <4>1. Len(s) \in Nat /\ Len(t) \in Nat /\ Len(s \o t) = Len(s) + Len(t)
              /\ SubSeq(s \o t, 1, Len(s)) = s
          BY WireIsPrefix
        <4> QED
          BY <3>1, <4>1
      <3> QED
        BY <1>5, <2>1, <3>1, <3>2 DEF OnWire
    <2>2. CASE ~c.shook
      <3>1. c.in = <<>> /\ c.out = <<Hello>>
        BY <2>2, TakingOpen
      <3>2. m = Hello /\ s = <<Hello>> /\ s \o t = <<Hello>>
        BY <1>1, <1>3, <1>6, <3>1, ConcatEmptySeq, TakingOpen
      <3>3. Len(s) = 1 /\ \A i \in DOMAIN s : s[i] = Hello
        BY <3>2
      <3>4. Len(s) <= 1 /\ ~c'.shook
        BY <1>5, <2>2, <3>3
      <3>5. /\ \A i \in DOMAIN c'.in : c'.in[i] = Hello
            /\ Len(c'.in) <= 1 /\ c'.in \o c'.out = <<Hello>>
        BY <1>5, <3>2, <3>3, <3>4
      <3> QED
        BY <3>4, <3>5 DEF OnWire
    <2> QED
      BY <2>1, <2>2
  <1> QED
    BY <1>1, <1>3, <1>5, <1>7, TakingOpen, CallSteady

LEMMA RefusedSteady ==
    ASSUME Sound, ServerRefuses
    PROVE  Steady(c', queue[user]) /\ c'.in = c.in /\ c'.shook = c.shook
  <1>1. Taking /\ c' = [c EXCEPT !.out = <<>>, !.ended = "permanent"] /\ Head(c.out) # Hello
    BY DEF ServerRefuses
  <1>2. c.shook
    <2>1. ~c.shook => Head(c.out) = Head(<<Hello>>)
      BY <1>1, TakingOpen
    <2>2. Head(<<Hello>>) = Hello
      OBVIOUS
    <2> QED
      BY <1>1, <2>1, <2>2
  <1>3. <<>> \in Seq(Message)
    BY EmptySeq
  <1>4. /\ c' \in ClientType /\ c'.in = c.in /\ c'.ended = "permanent"
        /\ c'.net = c.net /\ c'.stream = c.stream /\ c'.shook = c.shook /\ c'.idle = c.idle
        /\ c'.asked = c.asked /\ c'.pipe = c.pipe /\ c'.late = c.late /\ c'.bad = c.bad
    BY <1>1, <1>3, TakingOpen DEF ClientType, Status
  <1>5. Len(c.in) <= Len(c.pipe) /\ c.in = SubSeq(c.pipe, 1, Len(c.in))
    BY <1>2 DEF Sound, Steady, OnWire
  <1>6. OnWire(c')
    BY <1>2, <1>4, <1>5 DEF OnWire
  <1> QED
    BY <1>1, <1>4, <1>6, TakingOpen, CallSteady

LEMMA BrokenSteady ==
    ASSUME Sound, ConnectionBreaks
    PROVE  /\ Steady(c', queue[user]) /\ c'.shook = c.shook
           /\ \E k \in 0..Len(c.in) : c'.in = SubSeq(c.in, 1, k) /\ Len(c'.in) = k
  <1>1. /\ Steady(c, queue[user]) /\ c \in ClientType /\ c.stream = "Open"
        /\ OnWire(c)
    BY DEF Sound, Steady, ConnectionBreaks
  <1>2. c.in \in Seq(Message) /\ Len(c.in) \in Nat /\ DOMAIN c.in = 1..Len(c.in)
        /\ SubSeq(c.in, 1, Len(c.in)) = c.in
        /\ c.pipe \in Seq(Message) /\ Len(c.pipe) \in Nat
    BY <1>1, Messages, SeqTyped, SubSeqFull
  <1>3. PICK k \in 0..Len(c.in), st \in {"transient", "permanent"} :
           c' = [c EXCEPT !.out = <<>>, !.in = SubSeq(@, 1, k), !.ended = st]
    <2>1. ASSUME NEW k \in 0..Len(c.in),
                 c' = [c EXCEPT !.out = <<>>, !.in = SubSeq(@, 1, k), !.ended = "transient"]
          PROVE  \E j \in 0..Len(c.in), st \in {"transient", "permanent"} :
                    c' = [c EXCEPT !.out = <<>>, !.in = SubSeq(@, 1, j), !.ended = st]
      BY <2>1
    <2>2. ASSUME c' = [c EXCEPT !.out = <<>>, !.ended = "permanent"]
          PROVE  c' = [c EXCEPT !.out = <<>>, !.in = SubSeq(@, 1, Len(c.in)),
                                !.ended = "permanent"]
      BY <1>1, <1>2, <2>2 DEF ClientType
    <2>3. Len(c.in) \in 0..Len(c.in)
      BY <1>2
    <2> QED
      BY <2>1, <2>2, <2>3 DEF ConnectionBreaks
  <1>4. PICK s : s = SubSeq(c.in, 1, k)
    OBVIOUS
  <1>5. s \in Seq(Message) /\ Len(s) = k /\ \A i \in DOMAIN s : i \in DOMAIN c.in /\ s[i] = c.in[i]
    <2>1. \A i \in 1..k : c.in[i] \in Message
      BY <1>2, SeqTyped
    <2>2. /\ SubSeq(c.in, 1, k) \in Seq(Message)
          /\ Len(SubSeq(c.in, 1, k)) = IF 1 <= k THEN k - 1 + 1 ELSE 0
          /\ \A i \in 1..(k - 1 + 1) : SubSeq(c.in, 1, k)[i] = c.in[1 + i - 1]
      BY <2>1, SubSeqProperties
    <2>3. s \in Seq(Message) /\ Len(s) = k /\ \A i \in 1..k : s[i] = c.in[i]
      BY <1>4, <2>2
    <2>4. DOMAIN s = 1..k
      BY <2>3, SeqTyped
    <2> QED
      BY <1>2, <2>3, <2>4
  <1>6. <<>> \in Seq(Message)
    BY EmptySeq
  <1>7. /\ c' \in ClientType /\ c'.in = s /\ c'.ended = st
        /\ c'.net = c.net /\ c'.stream = c.stream /\ c'.shook = c.shook /\ c'.idle = c.idle
        /\ c'.asked = c.asked /\ c'.pipe = c.pipe /\ c'.late = c.late /\ c'.bad = c.bad
    BY <1>1, <1>3, <1>4, <1>5, <1>6 DEF ClientType, Status
  <1>8. OnWire(c')
    <2>1. CASE c.shook
      <3>1. Len(c.in) <= Len(c.pipe) /\ c.in = SubSeq(c.pipe, 1, Len(c.in))
        BY <1>1, <2>1 DEF OnWire
      <3>2. SubSeq(c.pipe, 1, k) = s
        <4>1. CASE k = 0
          BY <1>4, <4>1, SubSeqEmpty
        <4>2. CASE k # 0
          <5>1. PICK n : n = Len(c.in)
            OBVIOUS
          <5>2. n \in 1..Len(c.pipe) /\ 1 \in 1..Len(c.pipe) /\ k \in 1..(n - 1 + 1)
                /\ 1 \in 1..(n - 1 + 1) /\ 1 + 1 - 1 = 1 /\ 1 + k - 1 = k
            BY <1>2, <3>1, <4>2, <5>1
          <5>3. SubSeq(SubSeq(c.pipe, 1, n), 1, k) = SubSeq(c.pipe, 1 + 1 - 1, 1 + k - 1)
            BY <1>2, <5>2, SubSeqOfSubSeq
          <5>4. SubSeq(c.in, 1, k) = SubSeq(c.pipe, 1, k)
            BY <3>1, <5>1, <5>2, <5>3
          <5> QED
            BY <1>4, <5>4
        <4> QED
          BY <4>1, <4>2
      <3> QED
        BY <1>2, <1>5, <1>7, <2>1, <3>1, <3>2 DEF OnWire
    <2>2. CASE ~c.shook
      <3>1. Len(c.in) <= 1 /\ \A i \in DOMAIN c.in : c.in[i] = Hello
        BY <1>1, <2>2 DEF OnWire
      <3>2. k <= 1 /\ \A i \in DOMAIN s : s[i] = Hello
        BY <1>2, <1>5, <3>1
      <3>3. Len(c'.in) <= 1 /\ (\A i \in DOMAIN c'.in : c'.in[i] = Hello)
            /\ ~c'.shook /\ c'.ended # "no"
        BY <1>5, <1>7, <2>2, <3>2
      <3> QED
        BY <3>3 DEF OnWire
    <2> QED
      BY <2>1, <2>2
  <1>9. c'.ended # "ok"
    BY <1>7
  <1>10. Steady(c', queue[user])
    BY <1>1, <1>7, <1>8, <1>9, CallSteady
  <1> QED
    BY <1>4, <1>5, <1>7, <1>10

-----------------------------------------------------------------------------
(* Batch ids.                                                              *)

LEMMA LeastOf ==
    ASSUME NEW T \in SUBSET Nat, T # {}
    PROVE  \E n \in T : \A m \in T : n <= m
  <1>1. IsWellFoundedOn(OpToRel(<, Nat), Nat)
    BY NatLessThanWellFounded
  <1>2. PICK n \in T : \A m \in T : <<m, n>> \notin OpToRel(<, Nat)
    BY <1>1, WFMin
  <1>3. \A m \in T : ~(m < n)
    BY <1>2 DEF OpToRel
  <1> QED
    BY <1>3

LEMMA GreatestOf ==
    ASSUME NEW S \in SUBSET Nat, S # {}, NEW bound \in Nat, \A x \in S : x <= bound
    PROVE  \E m \in S : \A x \in S : x <= m
  <1> DEFINE T == {k \in Nat : \A x \in S : x <= k}
  <1>1. T \in SUBSET Nat /\ T # {}
    OBVIOUS
  <1>2. PICK m \in T : \A k \in T : m <= k
    BY <1>1, LeastOf
  <1>3. m \in S
    <2> SUFFICES ASSUME m \notin S PROVE FALSE
      OBVIOUS
    <2>1. \A x \in S : x < m
      OBVIOUS
    <2>2. m > 0 /\ m - 1 \in Nat
      <3>1. PICK x \in S : x \in Nat
        OBVIOUS
      <3>2. m \in Nat /\ x < m
        BY <2>1
      <3> QED
        BY <3>1, <3>2
    <2>3. m - 1 \in T
      BY <2>1, <2>2
    <2> QED
      BY <1>2, <2>2, <2>3
  <1> QED
    BY <1>3

\* LoadNextBatchIdFromDb finds an id that no batch of any user has.
LEMMA LoadedIdNew ==
    ASSUME TypeOK, Numbered
    PROVE  /\ LoadNextBatchId(queue) \in Nat
           /\ \A u \in Users : \A i \in DOMAIN queue[u] :
                 queue[u][i].id < LoadNextBatchId(queue)
  <1> DEFINE all == {0} \cup UNION {Ids(queue[u]) : u \in Users}
             top == CHOOSE m \in all : \A i \in all : i <= m
  <1>1. \A u \in Users : \A i \in DOMAIN queue[u] :
           queue[u][i].id \in Nat /\ queue[u][i].id < nextId
    BY Queues DEF Numbered
  <1>2. nextId \in Nat
    BY DEF TypeOK
  <1>3. all \in SUBSET Nat /\ all # {} /\ \A x \in all : x <= nextId
    BY <1>1, <1>2 DEF Ids
  <1>4. \A u \in Users : \A i \in DOMAIN queue[u] : queue[u][i].id \in all
    BY DEF Ids
  <1>5. LoadNextBatchId(queue) = 1 + top
    BY DEF LoadNextBatchId
  <1> HIDE DEF all
  <1>6. \E m \in all : \A i \in all : i <= m
    BY <1>2, <1>3, GreatestOf
  <1>7. top \in all /\ \A i \in all : i <= top
    BY <1>6
  <1> HIDE DEF top
  <1>8. top \in Nat
    BY <1>3, <1>7
  <1>9. ASSUME NEW u \in Users, NEW i \in DOMAIN queue[u]
        PROVE  queue[u][i].id < 1 + top
    BY <1>1, <1>4, <1>7, <1>8
  <1> QED
    BY <1>5, <1>8, <1>9

-----------------------------------------------------------------------------
(* The inductive invariant is kept.                                        *)

LEMMA InitSound == Init => IInv
  <1> SUFFICES ASSUME Init PROVE IInv
    OBVIOUS
  <1>1. \A u \in Users : queue[u] = <<>>
    BY DEF Init
  <1>2. <<>> \in Seq(Batch) /\ <<>> \in Seq(Writes) /\ <<>> \in Seq(Users)
        /\ Len(<<>>) = 0 /\ DOMAIN <<>> = {}
    BY EmptySeq
  <1>3. Ordered(<<>>)
    BY <1>2 DEF Ordered
  <1>4. user \in Users /\ queue[user] = <<>>
    BY <1>1 DEF Init
  <1>5. Steady(c, queue[user]) /\ ~c.shook
    <2>1. Anew(Booted(<<>>), <<>>)
      BY <1>2, <1>3, BootedAnew
    <2>2. c = Booted(<<>>)
      BY DEF Init
    <2> QED
      BY <1>4, <2>1, <2>2 DEF Anew
  <1>6. TypeOK
    <2>1. queue \in [Users -> Seq(Batch)]
      BY <1>2 DEF Init
    <2>2. told \in [Writes -> Outcomes]
      BY DEF Init, Outcomes
    <2>3. c \in ClientType /\ OpenOnly(c)
      BY <1>5 DEF Steady
    <2> QED
      BY <1>2, <1>4, <2>1, <2>2, <2>3 DEF TypeOK, OpenOnly, Init
  <1>7. Numbered
    BY <1>1, <1>2, <1>3 DEF Numbered
  <1>8. Unsaid /\ RepliesLogged /\ AckedWasApplied /\ CallbacksAwaitTheirWrite
    BY <1>5 DEF Init, Unsaid, RepliesLogged, AckedWasApplied, CallbacksAwaitTheirWrite
  <1> QED
    BY <1>5, <1>6, <1>7, <1>8 DEF IInv

\* Tasks that change nothing but the client.
LEMMA QuietStep ==
    ASSUME IInv, Steady(c', queue[user]), RepliesLogged', faults' \in Nat,
           refused' \subseteq Writes,
           UNCHANGED <<queue, user, nextId, callbacks, log, told, author>>
    PROVE  IInv'
  <1>1. TypeOK'
    BY DEF IInv, TypeOK, Steady, OpenOnly
  <1>2. Numbered' /\ Unsaid' /\ AckedWasApplied' /\ CallbacksAwaitTheirWrite'
    BY DEF IInv, Numbered, Unsaid, AckedWasApplied, Logged, CallbacksAwaitTheirWrite
  <1> QED
    BY <1>1, <1>2 DEF IInv

\* Replies that were there.
LEMMA RepliesKept ==
    ASSUME IInv, UNCHANGED log,
           \/ ~c'.shook
           \/ c.shook /\ \A i \in DOMAIN c'.in : \E j \in DOMAIN c.in : c'.in[i] = c.in[j]
    PROVE  RepliesLogged'
  BY DEF IInv, RepliesLogged, Logged

LEMMA InvSound == IInv => Sound
  BY DEF IInv, Sound

\* The callback found under the id of the first batch is that of its write.
LEMMA CallbackOfFirst ==
    ASSUME IInv, queue[user] # <<>>, NEW w,
           [u |-> user, id |-> queue[user][1].id, w |-> w] \in callbacks
    PROVE  w = queue[user][1].w
  <1>0. PICK q : q = queue[user]
    OBVIOUS
  <1>1. /\ q \in Seq(Batch) /\ Ordered(q) /\ DOMAIN q = 1..Len(q) /\ Len(q) \in Nat
        /\ 1 \in DOMAIN q /\ \A i \in DOMAIN q : q[i].id \in Nat
    <2>1. user \in Users /\ q \in Seq(Batch) /\ Ordered(q)
      BY <1>0, Queues DEF IInv, Numbered
    <2> QED
      BY <1>0, <2>1, BatchSeq, SeqTyped
  <1>2. PICK i \in DOMAIN q : q[i] = [id |-> q[1].id, w |-> w]
    BY <1>0 DEF IInv, CallbacksAwaitTheirWrite
  <1>3. q[i].id = q[1].id /\ q[i].w = w
    BY <1>2
  <1>4. i = 1
    <2>1. 1 < i => q[1].id < q[i].id
      BY <1>1 DEF Ordered
    <2> QED
      BY <1>1, <1>3, <2>1
  <1> QED
    BY <1>0, <1>3, <1>4

LEMMA NotifiedFirst ==
    ASSUME IInv, queue[user] # <<>>, NEW outcome
    PROVE  Notified(queue[user][1].id, outcome)
               \in {told, [told EXCEPT ![queue[user][1].w] = outcome]}
  <1>1. told \in [Writes -> Outcomes]
    BY DEF IInv, TypeOK
  <1> DEFINE b == queue[user][1]
  <1>2. \A w \in Writes : [u |-> user, id |-> b.id, w |-> w] \in callbacks => w = b.w
    BY CallbackOfFirst
  <1> HIDE DEF b
  <1>3. CASE [u |-> user, id |-> b.id, w |-> b.w] \in callbacks
    <2>1. Notified(b.id, outcome) = [w \in Writes |-> IF w = b.w THEN outcome ELSE told[w]]
      BY <1>2, <1>3 DEF Notified
    <2>2. Notified(b.id, outcome) = [told EXCEPT ![b.w] = outcome]
      BY <1>1, <2>1
    <2> QED
      BY <2>2 DEF b
  <1>4. CASE [u |-> user, id |-> b.id, w |-> b.w] \notin callbacks
    <2>1. Notified(b.id, outcome) = [w \in Writes |-> told[w]]
      BY <1>2, <1>4 DEF Notified
    <2>2. Notified(b.id, outcome) = told
      BY <1>1, <2>1
    <2> QED
      BY <2>2 DEF b
  <1> QED
    BY <1>3, <1>4

\* The first write is over, and the server has applied it if the app is told so.
LEMMA FinishedStep ==
    ASSUME IInv, queue[user] # <<>>, NEW outcome \in {"ok", "rejected"},
           Finished(queue[user][1], outcome), outcome = "ok" => Logged(queue[user][1].w),
           Steady(c', queue'[user]), RepliesLogged',
           UNCHANGED <<user, nextId, log, refused, author, faults>>
    PROVE  IInv'
  <1>0. PICK q : q = queue[user]
    OBVIOUS
  <1>1. /\ q \in Seq(Batch) /\ Ordered(q) /\ q # <<>> /\ user \in Users
        /\ queue' = [queue EXCEPT ![user] = Tail(q)] /\ queue'[user] = Tail(q)
        /\ told' = Notified(q[1].id, outcome) /\ callbacks' = Unregistered(q[1].id)
    BY <1>0, InvSound, FirstFinished, Queues DEF IInv
  <1>2. /\ Tail(q) \in Seq(Batch) /\ Ordered(Tail(q))
        /\ \A i \in DOMAIN Tail(q) : i + 1 \in DOMAIN q /\ Tail(q)[i] = q[i + 1]
        /\ Len(Tail(q)) = Len(q) - 1 /\ Len(q) \in Nat /\ DOMAIN q = 1..Len(q)
        /\ DOMAIN Tail(q) = 1..Len(Tail(q))
    BY <1>1, FirstRemoved, TailSeq, SeqTyped
  <1>3. \A u \in Users : queue'[u] = IF u = user THEN Tail(q) ELSE queue[u]
    BY <1>1 DEF IInv, TypeOK
  <1>4. TypeOK'
    <2>1. queue' \in [Users -> Seq(Batch)]
      BY <1>1, <1>2 DEF IInv, TypeOK
    <2>2. told' \in [Writes -> Outcomes]
      BY <1>1 DEF IInv, TypeOK, Notified, Outcomes
    <2>3. callbacks' \subseteq callbacks
      BY <1>1 DEF Unregistered
    <2>4. c' \in ClientType /\ OpenOnly(c')
      BY DEF Steady
    <2> QED
      BY <2>1, <2>2, <2>3, <2>4 DEF IInv, TypeOK, OpenOnly
  <1>5. Numbered'
    <2> SUFFICES ASSUME NEW u \in Users
                 PROVE  Ordered(queue'[u]) /\ \A i \in DOMAIN queue'[u] :
                            queue'[u][i].id < nextId /\ queue'[u][i].w <= Len(author)
      BY DEF Numbered
    <2>1. CASE u = user
      BY <1>0, <1>1, <1>2, <2>1 DEF IInv, Numbered
    <2>2. CASE u # user
      BY <1>3, <2>2 DEF IInv, Numbered
    <2> QED
      BY <2>1, <2>2
  <1>6. \A w \in Writes : told'[w] = told[w] \/ (w = q[1].w /\ told'[w] = outcome)
    <2>1. told' \in {told, [told EXCEPT ![q[1].w] = outcome]}
      BY <1>0, <1>1, NotifiedFirst
    <2> QED
      BY <2>1 DEF IInv, TypeOK
  <1>7. Unsaid'
    <2>1. q[1].w <= Len(author)
      <3>1. 1 \in DOMAIN q
        BY <1>1, SeqTyped
      <3> QED
        BY <1>0, <1>1, <3>1 DEF IInv, Numbered
    <2>2. q[1].w \in Nat /\ Len(author) \in Nat /\ Writes \subseteq Nat
      <3>1. q[1] \in Batch
        BY <1>1, SeqTyped
      <3>2. author \in Seq(Users) /\ Writes \subseteq Nat
        BY DEF Writes, IInv, TypeOK
      <3> QED
        BY <3>1, <3>2, SeqTyped DEF Batch
    <2> QED
      BY <1>6, <2>1, <2>2 DEF IInv, Unsaid
  <1>8. AckedWasApplied'
    BY <1>0, <1>6 DEF IInv, AckedWasApplied, Logged
  <1>9. CallbacksAwaitTheirWrite'
    <2> SUFFICES ASSUME NEW r \in callbacks'
                 PROVE  \E i \in DOMAIN queue'[r.u] : queue'[r.u][i] = [id |-> r.id, w |-> r.w]
      BY DEF CallbacksAwaitTheirWrite
    <2>1. r \in callbacks /\ ~(r.u = user /\ r.id = q[1].id) /\ r.u \in Users
      BY <1>1 DEF Unregistered, IInv, TypeOK
    <2>2. PICK i \in DOMAIN queue[r.u] : queue[r.u][i] = [id |-> r.id, w |-> r.w]
      BY <2>1 DEF IInv, CallbacksAwaitTheirWrite
    <2>3. CASE r.u = user
      <3>1. i \in DOMAIN q /\ q[i].id = r.id /\ i # 1
        BY <1>0, <2>1, <2>2, <2>3
      <3>2. i - 1 \in DOMAIN Tail(q) /\ Tail(q)[i - 1] = q[i]
        <4>1. i - 1 \in DOMAIN Tail(q) /\ (i - 1) + 1 = i
          BY <1>2, <3>1
        <4> QED
          BY <1>2, <4>1
      <3> QED
        BY <1>0, <1>1, <2>2, <2>3, <3>2
    <2>4. CASE r.u # user
      BY <1>3, <2>1, <2>2, <2>4
    <2> QED
      BY <2>3, <2>4
  <1> QED
    BY <1>4, <1>5, <1>7, <1>8, <1>9 DEF IInv

LEMMA AckStep == ASSUME IInv, WriteAcknowledged PROVE IInv'
  <1>0. Sound
    BY InvSound
  <1>1. /\ queue[user] # <<>> /\ Head(c.in) = queue[user][1]
        /\ Finished(queue[user][1], "ok")
    BY <1>0, AckDoes
  <1>2. Steady(c', queue'[user]) /\ c'.in = Tail(c.in) /\ c'.shook
    BY <1>0, AckSteady
  <1>3. c.in # <<>> /\ c.shook /\ c.in \in Seq(Message)
    BY Messages DEF WriteAcknowledged, IInv, Steady
  <1>4. \A i \in DOMAIN c.in : Logged(c.in[i].w)
    BY <1>3 DEF IInv, RepliesLogged
  <1>5. Head(c.in) = c.in[1] /\ 1 \in DOMAIN c.in
        /\ \A i \in DOMAIN Tail(c.in) : i + 1 \in DOMAIN c.in /\ Tail(c.in)[i] = c.in[i + 1]
    BY <1>3, TailSeq, SeqTyped
  <1>6. Logged(queue[user][1].w)
    BY <1>1, <1>4, <1>5
  <1>7. RepliesLogged'
    <2>1. \A i \in DOMAIN c'.in : \E j \in DOMAIN c.in : c'.in[i] = c.in[j]
      BY <1>2, <1>5
    <2> QED
      BY <1>3, <2>1, RepliesKept DEF WriteAcknowledged
  <1> QED
    BY <1>1, <1>2, <1>6, <1>7, FinishedStep DEF WriteAcknowledged

LEMMA EndStep ==
    ASSUME IInv, CallEnds, IsStarted(c)
    PROVE  IInv'
  <1>1. /\ Anew(c', queue'[user])
        /\ \/ UNCHANGED <<queue, callbacks, told>>
           \/ queue[user] # <<>> /\ Finished(queue[user][1], "rejected")
    BY InvSound, EndSteady
  <1>2. RepliesLogged' /\ Steady(c', queue'[user])
    BY <1>1, RepliesKept DEF Anew, CallEnds
  <1>3. CASE UNCHANGED <<queue, callbacks, told>>
    BY <1>2, <1>3, QuietStep DEF CallEnds, IInv, TypeOK
  <1>4. CASE queue[user] # <<>> /\ Finished(queue[user][1], "rejected")
    BY <1>2, <1>4, FinishedStep DEF CallEnds
  <1> QED
    BY <1>1, <1>3, <1>4

\* A call that has ended was open.
LEMMA EndedOpen ==
    ASSUME IInv, StreamFinishes \/ WriteFails
    PROVE  IsStarted(c) /\ CallEnds
  BY DEF IInv, Steady, OpenOnly, IsStarted, StreamFinishes, WriteFails

LEMMA AppliedStep == ASSUME IInv, ServerApplies PROVE IInv'
  <1>0. Sound /\ Taking /\ Head(c.out) # Hello
    BY InvSound DEF ServerApplies
  <1>1. /\ Steady(c', queue[user]) /\ c'.in = Append(c.in, Head(c.out))
        /\ c'.shook = c.shook
    BY <1>0, ServerSteady DEF ServerApplies
  <1>2. Head(c.out) \in Batch
    BY <1>0, TakingOpen DEF Message
  <1>3. PICK w \in Writes : w = Head(c.out).w
    BY <1>2 DEF Batch
  <1>4. log' = Append(log, w) /\ log \in Seq(Writes)
    BY <1>3 DEF ServerApplies, IInv, TypeOK
  <1>5. log' \in Seq(Writes) /\ \A x : Logged(x) => Logged(x)'
    BY <1>4, AppendSeq DEF Logged
  <1>6. Logged(w)'
    BY <1>4, AppendSeq DEF Logged
  <1>7. RepliesLogged'
    <2> SUFFICES ASSUME c.shook, NEW i \in DOMAIN c'.in
                 PROVE  \E k \in DOMAIN log' : log'[k] = c'.in[i].w
      BY <1>1 DEF RepliesLogged, Logged
    <2>1. /\ DOMAIN c'.in = DOMAIN c.in \cup {Len(c.in) + 1}
          /\ \A j \in DOMAIN c.in : c'.in[j] = c.in[j]
          /\ c'.in[Len(c.in) + 1] = Head(c.out)
      BY <1>0, <1>1, TakingOpen, AppendSeq
    <2>2. CASE i \in DOMAIN c.in
      <3>1. Logged(c.in[i].w)
        BY <2>2 DEF IInv, RepliesLogged
      <3> QED
        BY <1>5, <2>1, <2>2, <3>1 DEF Logged
    <2>3. CASE i = Len(c.in) + 1
      BY <1>3, <1>6, <2>1, <2>3 DEF Logged
    <2> QED
      BY <2>1, <2>2, <2>3
  <1>8. TypeOK'
    BY <1>1, <1>5 DEF ServerApplies, IInv, TypeOK, Steady, OpenOnly
  <1>9. Numbered' /\ Unsaid' /\ CallbacksAwaitTheirWrite'
    BY DEF ServerApplies, IInv, Numbered, Unsaid, CallbacksAwaitTheirWrite
  <1>10. AckedWasApplied'
    BY <1>5 DEF ServerApplies, IInv, AckedWasApplied, Logged
  <1> QED
    BY <1>1, <1>7, <1>8, <1>9, <1>10 DEF IInv, ServerApplies

LEMMA FirstBehind ==
    ASSUME NEW s \in Seq(Message), NEW t \in Seq(Message), t # <<>>,
           NEW p, s \o t = p
    PROVE  /\ Len(p) = Len(s) + Len(t) /\ p[Len(s) + 1] = t[1]
           /\ Len(s) + 1 \in DOMAIN p
  <1>1. Len(s) \in Nat /\ Len(t) \in Nat /\ Len(t) > 0
    BY SeqTyped
  <1>2. s \o t \in Seq(Message) /\ Len(s \o t) = Len(s) + Len(t)
    BY ConcatProperties
  <1>3. DOMAIN (s \o t) = 1..(Len(s) + Len(t))
    BY <1>2, SeqTyped
  <1>4. (s \o t)[Len(s) + 1] = t[1]
    BY <1>1, ConcatProperties
  <1> QED
    BY <1>1, <1>2, <1>3, <1>4

\* The server greets before the handshake only.
LEMMA Greeted ==
    ASSUME Sound, Taking, Head(c.out) = Hello
    PROVE  ~c.shook
  <1>0. Taking /\ Head(c.out) = Hello /\ c.in \in Seq(Message)
    BY TakingOpen
  <1> SUFFICES ASSUME c.shook PROVE FALSE
    OBVIOUS
  <1>1. c.in \o c.out = c.pipe /\ c.out # <<>> /\ c.out \in Seq(Message)
        /\ c \in ClientType /\ c.pipe \in Seq(Batch)
    BY <1>0, TakingOpen, Messages
  <1>2. /\ Len(c.pipe) = Len(c.in) + Len(c.out)
        /\ c.pipe[Len(c.in) + 1] = c.out[1]
        /\ Len(c.in) + 1 \in DOMAIN c.pipe
    BY <1>0, <1>1, FirstBehind
  <1>3. c.pipe[Len(c.in) + 1] \in Batch
    BY <1>1, <1>2, SeqTyped
  <1>4. c.out[1] = Hello
    BY <1>0, <1>1, TailSeq
  <1> QED
    BY <1>1, <1>2, <1>3, <1>4, Messages

\* Tasks of the client, and what the server does without applying anything.
LEMMA QuietTasks ==
    ASSUME IInv,
           \/ TokenArrives \/ StaleTokenArrives \/ TokenFails \/ BackoffElapses
           \/ IdleTimerFires \/ HandshakeCompletes
           \/ ServerGreets \/ ServerRefuses \/ ConnectionBreaks
    PROVE  IInv'
  <1>0. Sound /\ c.in \in Seq(Message) /\ faults \in Nat /\ refused \subseteq Writes
    BY InvSound, Messages DEF IInv, Steady, TypeOK
  <1>1. CASE TokenArrives
    BY <1>0, <1>1, TokenSteady, RepliesKept, QuietStep DEF TokenArrives
  <1>2. CASE StaleTokenArrives
    <2>1. Steady(c', queue[user]) /\ c'.in = c.in /\ c'.shook = c.shook
      BY <1>0, <1>2, StaleSteady
    <2>2. RepliesLogged'
      BY <1>2, <2>1, RepliesKept DEF StaleTokenArrives
    <2> QED
      BY <1>0, <1>2, <2>1, <2>2, QuietStep DEF StaleTokenArrives
  <1>3. CASE TokenFails
    <2>1. Anew(c', queue[user]) /\ faults' \in Nat
      BY <1>0, <1>3, TokenFailsSteady DEF TokenFails
    <2>2. RepliesLogged' /\ Steady(c', queue[user])
      BY <1>3, <2>1, RepliesKept DEF TokenFails, Anew
    <2> QED
      BY <1>0, <1>3, <2>1, <2>2, QuietStep DEF TokenFails
  <1>4. CASE BackoffElapses
    BY <1>0, <1>4, BackoffSteady, RepliesKept, QuietStep DEF BackoffElapses, Anew
  <1>5. CASE IdleTimerFires
    <2>1. Anew(c', queue[user])
      BY <1>0, <1>5, CloseIdle DEF IdleTimerFires, Sound
    <2> QED
      BY <1>0, <1>5, <2>1, RepliesKept, QuietStep DEF IdleTimerFires, Anew
  <1>6. CASE HandshakeCompletes
    <2>1. Steady(c', queue[user]) /\ c'.in = <<>>
      BY <1>0, <1>6, HandshakeSteady
    <2>2. RepliesLogged'
      <3>1. DOMAIN c'.in = {}
        BY <2>1, EmptySeq
      <3> QED
        BY <3>1 DEF RepliesLogged
    <2> QED
      BY <1>0, <1>6, <2>1, <2>2, QuietStep DEF HandshakeCompletes
  <1>7. CASE ServerGreets
    <2>0. Taking /\ Head(c.out) = Hello
      BY <1>7 DEF ServerGreets
    <2>1. Steady(c', queue[user]) /\ c'.shook = c.shook
      BY <1>0, <1>7, <2>0, ServerSteady DEF ServerGreets
    <2>2. ~c.shook
      BY <1>0, <2>0, Greeted
    <2>3. RepliesLogged'
      BY <1>7, <2>1, <2>2, RepliesKept DEF ServerGreets
    <2> QED
      BY <1>0, <1>7, <2>1, <2>3, QuietStep DEF ServerGreets
  <1>8. CASE ServerRefuses
    <2>1. Steady(c', queue[user]) /\ c'.in = c.in /\ c'.shook = c.shook
      BY <1>0, <1>8, RefusedSteady
    <2>2. RepliesLogged'
      BY <1>8, <2>1, RepliesKept DEF ServerRefuses
    <2>3. refused' \subseteq Writes
      <3>1. Head(c.out) \in Batch
        BY <1>0, <1>8, TakingOpen DEF ServerRefuses, Message
      <3> QED
        BY <1>0, <1>8, <3>1 DEF ServerRefuses, Batch
    <2> QED
      BY <1>0, <1>8, <2>1, <2>2, <2>3, QuietStep DEF ServerRefuses
  <1>9. CASE ConnectionBreaks
    <2>1. Steady(c', queue[user]) /\ c'.shook = c.shook
      BY <1>0, <1>9, BrokenSteady
    <2>2. PICK k \in 0..Len(c.in) : c'.in = SubSeq(c.in, 1, k) /\ Len(c'.in) = k
      BY <1>0, <1>9, BrokenSteady
    <2>3. RepliesLogged'
      <3>1. \A i \in DOMAIN c'.in : i \in DOMAIN c.in /\ c'.in[i] = c.in[i]
        <4>1. Len(c.in) \in Nat /\ DOMAIN c.in = 1..Len(c.in)
          BY <1>0, SeqTyped
        <4>2. c'.in \in Seq(Message)
          BY <2>1, Messages DEF Steady
        <4>3. DOMAIN c'.in = 1..k
          BY <2>2, <4>2, SeqTyped
        <4>4. \A i \in 1..k : c'.in[i] = c.in[i]
          BY <2>2, <4>1
        <4> QED
          BY <4>1, <4>3, <4>4
      <3>2. \A i \in DOMAIN c'.in : \E j \in DOMAIN c.in : c'.in[i] = c.in[j]
        BY <3>1
      <3>3. UNCHANGED log /\ c'.shook = c.shook
        BY <1>9, <2>1 DEF ConnectionBreaks
      <3>4. CASE c.shook
        BY <3>2, <3>3, <3>4, RepliesKept
      <3>5. CASE ~c.shook
        BY <3>3, <3>5 DEF RepliesLogged
      <3> QED
        BY <3>4, <3>5
    <2>4. faults' \in Nat /\ UNCHANGED <<queue, user, nextId, callbacks, log, refused, told, author>>
      <3>1. faults' = faults + 1
        BY <1>9, Zenon DEF ConnectionBreaks
      <3>2. UNCHANGED <<queue, user, nextId, callbacks, log, refused, told, author>>
        BY <1>9, Zenon DEF ConnectionBreaks
      <3> QED
        BY <1>0, <3>1, <3>2
    <2> QED
      BY <1>0, <2>1, <2>3, <2>4, QuietStep
  <1> QED
    BY <1>1, <1>2, <1>3, <1>4, <1>5, <1>6, <1>7, <1>8, <1>9

LEMMA WriteStep == ASSUME IInv, Write PROVE IInv'
  <1>1. PICK b : b = [id |-> nextId, w |-> Len(author) + 1]
    OBVIOUS
  <1>2. PICK q : q = queue[user]
    OBVIOUS
  <1>3. /\ Steady(c', queue'[user]) /\ c'.in = c.in /\ c'.shook = c.shook
        /\ b \in Batch /\ queue' = [queue EXCEPT ![user] = Append(@, b)]
        /\ queue'[user] = Append(q, b) /\ Ordered(queue'[user])
    BY <1>1, <1>2, InvSound, WriteSteady
  <1>4. /\ user \in Users /\ q \in Seq(Batch) /\ Len(q) \in Nat
        /\ \A u \in Users : queue[u] \in Seq(Batch)
        /\ author \in Seq(Users) /\ nextId \in Nat
    BY <1>2, Queues DEF IInv, TypeOK
  <1>5. /\ DOMAIN Append(q, b) = DOMAIN q \cup {Len(q) + 1}
        /\ \A i \in DOMAIN q : Append(q, b)[i] = q[i]
        /\ Append(q, b)[Len(q) + 1] = b /\ Append(q, b) \in Seq(Batch)
    BY <1>3, <1>4, AppendSeq
  <1>6. /\ Append(author, user) \in Seq(Users) /\ Len(author) \in Nat
        /\ Len(Append(author, user)) = Len(author) + 1
    BY <1>4, AppendSeq, SeqTyped
  <1>7. b.id = nextId /\ b.w = Len(author) + 1 /\ Len(author) + 1 \in Writes
        /\ author' = Append(author, user) /\ nextId' = nextId + 1
    BY <1>1 DEF Write
  <1>8. \A u \in Users : queue'[u] = IF u = user THEN Append(q, b) ELSE queue[u]
    BY <1>2, <1>3 DEF IInv, TypeOK
  <1>9. callbacks' \in {callbacks, callbacks \cup {[u |-> user, id |-> b.id, w |-> b.w]}}
    BY <1>1, <1>7 DEF Write
  <1>10. UNCHANGED <<user, log, refused, told, faults>>
    BY DEF Write
  <1>11. TypeOK'
    <2>1. queue' \in [Users -> Seq(Batch)]
      BY <1>2, <1>3, <1>4, <1>5 DEF IInv, TypeOK
    <2>2. Len(author') <= MaxWrites
      BY <1>6, <1>7 DEF Writes
    <2>3. callbacks' \subseteq [u : Users, id : Nat, w : Writes]
      BY <1>4, <1>7, <1>9 DEF IInv, TypeOK
    <2>4. c' \in ClientType /\ OpenOnly(c')
      BY <1>3 DEF Steady
    <2> QED
      BY <1>4, <1>6, <1>7, <1>10, <2>1, <2>2, <2>3, <2>4 DEF IInv, TypeOK, OpenOnly
  <1>12. Numbered'
    <2> SUFFICES ASSUME NEW u \in Users
                 PROVE  Ordered(queue'[u]) /\ \A i \in DOMAIN queue'[u] :
                            queue'[u][i].id < nextId' /\ queue'[u][i].w <= Len(author')
      BY DEF Numbered
    <2>0. \A i \in DOMAIN queue[u] :
             queue[u][i].id < nextId + 1 /\ queue[u][i].w <= Len(author) + 1
      <3>1. \A i \in DOMAIN queue[u] : /\ queue[u][i].id < nextId /\ queue[u][i].w <= Len(author)
                                      /\ queue[u][i].id \in Nat /\ queue[u][i].w \in Nat
        BY Queues DEF IInv, Numbered, Writes
      <3> QED
        BY <1>4, <1>6, <3>1
    <2>1. CASE u = user
      <3>1. Ordered(queue'[u]) /\ queue'[u] = Append(q, b)
        BY <1>3, <2>1
      <3>2. ASSUME NEW i \in DOMAIN Append(q, b)
            PROVE  Append(q, b)[i].id < nextId + 1 /\ Append(q, b)[i].w <= Len(author) + 1
        <4>1. CASE i \in DOMAIN q
          BY <1>2, <1>5, <2>0, <2>1, <4>1
        <4>2. CASE i = Len(q) + 1
          BY <1>4, <1>5, <1>6, <1>7, <4>2
        <4> QED
          BY <1>5, <4>1, <4>2
      <3> QED
        BY <1>6, <1>7, <3>1, <3>2
    <2>2. CASE u # user
      BY <1>6, <1>7, <1>8, <2>0, <2>2 DEF IInv, Numbered
    <2> QED
      BY <2>1, <2>2
  <1>13. Unsaid'
    BY <1>6, <1>7, <1>10 DEF IInv, Unsaid, Writes
  <1>14. RepliesLogged'
    BY <1>3, <1>10 DEF IInv, RepliesLogged, Logged
  <1>15. AckedWasApplied'
    BY <1>10 DEF IInv, AckedWasApplied
  <1>16. CallbacksAwaitTheirWrite'
    <2> SUFFICES ASSUME NEW r \in callbacks'
                 PROVE  \E i \in DOMAIN queue'[r.u] : queue'[r.u][i] = [id |-> r.id, w |-> r.w]
      BY DEF CallbacksAwaitTheirWrite
    <2>1. CASE r \in callbacks
      <3>1. PICK i \in DOMAIN queue[r.u] : queue[r.u][i] = [id |-> r.id, w |-> r.w]
        BY <2>1 DEF IInv, CallbacksAwaitTheirWrite
      <3>2. r.u \in Users
        BY <2>1 DEF IInv, TypeOK
      <3> QED
        BY <1>2, <1>5, <1>8, <3>1, <3>2
    <2>2. CASE r = [u |-> user, id |-> b.id, w |-> b.w]
      <3>1. queue'[r.u] = Append(q, b) /\ b = [id |-> r.id, w |-> r.w]
        BY <1>1, <1>3, <2>2
      <3> QED
        BY <1>5, <3>1
    <2> QED
      BY <1>9, <2>1, <2>2
  <1> QED
    BY <1>3, <1>10, <1>11, <1>12, <1>13, <1>14, <1>15, <1>16 DEF IInv

\* The next id after a restart or a change of user.
LEMMA RenumberedStep ==
    ASSUME IInv, user' \in Users, Anew(c', queue[user']),
           nextId' \in Nat,
           \A u \in Users : \A i \in DOMAIN queue[u] : queue[u][i].id < nextId',
           callbacks' \subseteq callbacks, faults' \in Nat,
           told' \in [Writes -> Outcomes], Unsaid', AckedWasApplied',
           UNCHANGED <<queue, log, refused, author>>
    PROVE  IInv'
  <1>1. TypeOK'
    BY DEF IInv, TypeOK, Anew, Steady, OpenOnly
  <1>2. Numbered'
    BY DEF IInv, Numbered
  <1>3. RepliesLogged'
    BY DEF Anew, RepliesLogged
  <1>4. CallbacksAwaitTheirWrite'
    BY DEF IInv, CallbacksAwaitTheirWrite
  <1> QED
    BY <1>1, <1>2, <1>3, <1>4 DEF IInv, Anew

LEMMA CredentialStep ==
    ASSUME IInv, NEW u \in Users, CredentialChanges(u)
    PROVE  IInv' /\ Anew(c', queue[u])
  <1>1. /\ Steady(c, queue[user]) /\ queue[u] \in Seq(Batch) /\ Ordered(queue[u])
        /\ faults \in Nat /\ nextId \in Nat
    BY Queues DEF IInv, Numbered, TypeOK
  <1>2. Anew(RestartStreams(c, queue[user], queue[u]), queue[u])
    BY <1>1, RestartAnew
  <1>3. /\ c' = RestartStreams(c, queue[user], queue[u]) /\ user' = u /\ faults' \in Nat
        /\ UNCHANGED <<queue, callbacks, log, refused, told, author>>
    BY <1>1 DEF CredentialChanges
  <1>4. nextId' \in {nextId, LoadNextBatchId(queue)}
    BY DEF CredentialChanges
  <1>5. nextId' \in Nat /\ \A v \in Users : \A i \in DOMAIN queue[v] : queue[v][i].id < nextId'
    <2>1. CASE nextId' = nextId
      BY <1>1, <2>1 DEF IInv, Numbered
    <2>2. CASE nextId' = LoadNextBatchId(queue)
      BY <2>2, LoadedIdNew DEF IInv
    <2> QED
      BY <1>4, <2>1, <2>2
  <1>6. Unsaid' /\ AckedWasApplied' /\ told' \in [Writes -> Outcomes]
    BY <1>3 DEF IInv, TypeOK, Unsaid, AckedWasApplied
  <1> QED
    BY <1>2, <1>3, <1>5, <1>6, RenumberedStep

LEMMA RebootAnew ==
    ASSUME IInv, Reboot
    PROVE  /\ Anew(c', queue[user']) /\ user' = user /\ callbacks' = {} /\ faults' \in Nat
           /\ nextId' \in Nat
           /\ \A v \in Users : \A i \in DOMAIN queue[v] : queue[v][i].id < nextId'
           /\ UNCHANGED <<queue, log, refused, author>>
  <1>1. queue[user] \in Seq(Batch) /\ Ordered(queue[user]) /\ faults \in Nat
    BY Queues DEF IInv, Numbered, TypeOK
  <1>2. Anew(Booted(queue[user]), queue[user])
    BY <1>1, BootedAnew
  <1>3. nextId' = LoadNextBatchId(queue)
    BY DEF Reboot
  <1>4. nextId' \in Nat /\ \A v \in Users : \A i \in DOMAIN queue[v] : queue[v][i].id < nextId'
    BY <1>3, LoadedIdNew DEF IInv
  <1> QED
    BY <1>1, <1>2, <1>4 DEF Reboot

LEMMA CrashStep == ASSUME IInv, Crash PROVE IInv'
  <1>1. Reboot /\ UNCHANGED told
    BY DEF Crash
  <1>2. UNCHANGED <<log, author>>
    BY <1>1, RebootAnew
  <1>3. Unsaid' /\ AckedWasApplied' /\ told' \in [Writes -> Outcomes] /\ user \in Users
    BY <1>1, <1>2 DEF IInv, TypeOK, Unsaid, AckedWasApplied
  <1> QED
    BY <1>1, <1>3, RebootAnew, RenumberedStep

\* The reply that was being handled is about the first write of the queue.
LEMMA ReplyOfFirst ==
    ASSUME IInv, c.in # <<>>, c.shook
    PROVE  /\ queue[user] # <<>> /\ c.pipe # <<>> /\ Head(c.pipe) = queue[user][1]
           /\ Logged(queue[user][1].w) /\ queue[user][1].w \in Writes
           /\ queue[user][1].w <= Len(author) /\ Len(c.in) \in Nat /\ Len(c.in) > 0
  <1>1. Steady(c, queue[user]) /\ queue[user] \in Seq(Batch) /\ c.in \in Seq(Message)
        /\ user \in Users
    BY Queues, Messages DEF IInv, Steady
  <1>2. queue[user] # <<>> /\ c.pipe # <<>> /\ Head(c.pipe) = queue[user][1]
        /\ Head(c.in) = queue[user][1]
    BY <1>1, FirstReply
  <1>3. Head(c.in) = c.in[1] /\ 1 \in DOMAIN c.in /\ Len(c.in) \in Nat /\ Len(c.in) > 0
    BY <1>1, TailSeq, SeqTyped
  <1>4. Logged(queue[user][1].w)
    BY <1>2, <1>3 DEF IInv, RepliesLogged
  <1>5. 1 \in DOMAIN queue[user]
    BY <1>1, <1>2, SeqTyped
  <1>6. queue[user][1].w \in Writes
    BY <1>1, <1>5, BatchSeq
  <1> QED
    BY <1>1, <1>2, <1>3, <1>4, <1>5, <1>6 DEF IInv, Numbered

LEMMA CrashAcknowledgingStep == ASSUME IInv, CrashWhileAcknowledging PROVE IInv'
  <1>1. Reboot /\ told' = Notified(Head(c.pipe).id, "ok") /\ c.in # <<>> /\ c.shook
    BY DEF CrashWhileAcknowledging
  <1>2. PICK w : w = queue[user][1].w
    OBVIOUS
  <1>3. /\ told' \in {told, [told EXCEPT ![w] = "ok"]} /\ Logged(w) /\ w \in Writes
        /\ w <= Len(author)
    BY <1>1, <1>2, ReplyOfFirst, NotifiedFirst
  <1>4. UNCHANGED <<log, author>> /\ user \in Users /\ told \in [Writes -> Outcomes]
    BY <1>1, RebootAnew DEF IInv, TypeOK
  <1>5. told' \in [Writes -> Outcomes]
    BY <1>3, <1>4 DEF Outcomes
  <1>6. \A v \in Writes : told'[v] = told[v] \/ (v = w /\ told'[v] = "ok")
    BY <1>3, <1>4
  <1>7. Unsaid'
    <2> SUFFICES ASSUME NEW v \in Writes, v > Len(author) PROVE told'[v] = "nothing"
      BY <1>4 DEF Unsaid
    <2>1. v # w
      BY <1>3, SeqTyped DEF Writes, IInv, TypeOK
    <2> QED
      BY <1>6, <2>1 DEF IInv, Unsaid
  <1>8. AckedWasApplied'
    BY <1>3, <1>4, <1>6 DEF IInv, AckedWasApplied, Logged
  <1> QED
    BY <1>1, <1>4, <1>5, <1>7, <1>8, RebootAnew, RenumberedStep

LEMMA NextSound == IInv /\ [Next]_vars => IInv'
  <1> SUFFICES ASSUME IInv, [Next]_vars PROVE IInv'
    OBVIOUS
  <1>1. CASE Write
    BY <1>1, WriteStep
  <1>2. CASE WriteAcknowledged
    BY <1>2, AckStep
  <1>3. CASE StreamFinishes \/ WriteFails
    BY <1>3, EndedOpen, EndStep
  <1>4. CASE \E u \in Users : CredentialChanges(u)
    BY <1>4, CredentialStep
  <1>5. CASE Crash \/ CrashWhileAcknowledging
    BY <1>5, CrashStep, CrashAcknowledgingStep
  <1>6. CASE ServerApplies
    BY <1>6, AppliedStep
  <1>7. CASE \/ TokenArrives \/ StaleTokenArrives \/ TokenFails \/ BackoffElapses
             \/ IdleTimerFires \/ HandshakeCompletes
             \/ ServerGreets \/ ServerRefuses \/ ConnectionBreaks
    BY <1>7, QuietTasks
  <1>8. CASE UNCHANGED vars
    <2>1. UNCHANGED <<queue, user, nextId, callbacks, c, log, refused, told, author, faults>>
      BY <1>8 DEF vars
    <2>2. Steady(c', queue[user]) /\ faults' \in Nat /\ refused' \subseteq Writes
      BY <2>1 DEF IInv, TypeOK
    <2>3. RepliesLogged'
      BY <2>1 DEF IInv, RepliesLogged, Logged
    <2> QED
      BY <2>1, <2>2, <2>3, QuietStep
  <1> QED
    BY <1>1, <1>2, <1>3, <1>4, <1>5, <1>6, <1>7, <1>8 DEF Next, Client, Server

\* The inductive invariant: a steady client, numbered batches, logged replies.
THEOREM Invariance == Spec => []IInv
  BY InitSound, NextSound, PTL DEF Spec

-----------------------------------------------------------------------------
(* The safety properties.                                                  *)

\* What is on an open stream only: see TypeOK.
THEOREM PipelineTyped == Spec => []TypeOK
  <1>1. IInv => TypeOK
    BY DEF IInv
  <1> QED
    BY <1>1, Invariance, PTL

\* No HARD_ASSERT of RemoteStore, the write stream or the local store fails.
THEOREM NoAborts == Spec => []NoAssertFails
  <1>1. IInv => NoAssertFails
    BY DEF IInv, Steady, NoAssertFails
  <1> QED
    BY <1>1, Invariance, PTL

\* The write pipeline is the front of the signed-in user's queue.
THEOREM PipelineInFront == Spec => []PipelineIsQueueFront
  <1>1. IInv => PipelineIsQueueFront
    <2> SUFFICES ASSUME IInv PROVE PipelineIsQueueFront
      OBVIOUS
    <2>1. PICK q \in Seq(Batch) : q = queue[user] /\ c.pipe = FrontOf(q)
      BY Queues DEF IInv, Steady
    <2>2. /\ Len(FrontOf(q)) = IF Len(q) < MaxPending THEN Len(q) ELSE MaxPending
          /\ Len(q) \in Nat /\ SubSeq(q, 1, Len(q)) = q
      BY FrontTyped, SeqTyped, SubSeqFull
    <2>3. FrontOf(q) = SubSeq(q, 1, Len(FrontOf(q)))
      BY <2>2 DEF FrontOf
    <2>4. /\ Len(FrontOf(q)) <= Len(q) /\ Len(FrontOf(q)) <= MaxPending
          /\ Len(FrontOf(q)) = MaxPending \/ Len(FrontOf(q)) = Len(q)
      BY <2>2
    <2>5. Len(FrontOf(q)) = MaxPending \/ FrontOf(q) = q
      BY <2>2, <2>3, <2>4
    <2> QED
      BY <2>1, <2>3, <2>4, <2>5 DEF PipelineIsQueueFront
  <1> QED
    BY <1>1, Invariance, PTL

\* The next reply is about the first batch of the pipeline.
THEOREM RepliesInOrder == Spec => []RepliesMatchPipeline
  <1>1. IInv => RepliesMatchPipeline
    <2> SUFFICES ASSUME IInv PROVE RepliesMatchPipeline
      OBVIOUS
    <2>1. OnWire(c) /\ Steady(c, queue[user]) /\ queue[user] \in Seq(Batch)
      BY Queues DEF IInv, Steady
    <2>2. c.shook /\ c.in # <<>> => c.pipe # <<>> /\ Head(c.in) = Head(c.pipe)
      BY <2>1, FirstReply
    <2> QED
      BY <2>1, <2>2 DEF OnWire, RepliesMatchPipeline
  <1> QED
    BY <1>1, Invariance, PTL

\* The app is told of success only for a write the server has applied.
THEOREM SuccessIsReal == Spec => []AckedWasApplied
  <1>1. IInv => AckedWasApplied
    BY DEF IInv
  <1> QED
    BY <1>1, Invariance, PTL

\* A callback waits for a queued batch, under its own id.
THEOREM CallbacksWait == Spec => []CallbacksAwaitTheirWrite
  <1>1. IInv => CallbacksAwaitTheirWrite
    BY DEF IInv
  <1> QED
    BY <1>1, Invariance, PTL

-----------------------------------------------------------------------------
(* The order in which the writes of one user are applied.                  *)

\* A queue holds its user's last writes, in the order they were made: what is not
\* in it any more was made before.
OwnWrites ==
    \A u \in Users : \A i \in DOMAIN queue[u] :
        /\ queue[u][i].w \in DOMAIN author /\ author[queue[u][i].w] = u
        /\ \A j \in DOMAIN queue[u] : i < j => queue[u][i].w < queue[u][j].w
        /\ \A w \in DOMAIN author : author[w] = u /\ ~Waiting(w) => w < queue[u][i].w

\* What a reply on its way is about, nothing older has been applied after.
RepliesInPlace == c.shook => \A k \in DOMAIN c.in : InOrder(c.in[k].w)

\* A call that ended for good had a write refused: the one behind the last reply.
RefusedNext ==
    c.ended = "permanent" =>
        IF c.shook
        THEN Len(c.in) + 1 \in DOMAIN queue[user] /\ queue[user][Len(c.in) + 1].w \in refused
        ELSE c.in = <<>>

OrderInv == OwnWrites /\ RepliesInPlace /\ RefusedNext /\ OrderKept

\* The replies of an open stream are about the front of the queue.
LEMMA RepliesAtFront ==
    ASSUME NEW q \in Seq(Batch), NEW r, Steady(r, q), r.shook
    PROVE  /\ r.in \in Seq(Message) /\ Len(r.in) \in Nat /\ DOMAIN r.in = 1..Len(r.in)
           /\ \A k \in DOMAIN r.in : k \in DOMAIN q /\ r.in[k] = q[k]
  <1>0. r \in ClientType /\ r.pipe = FrontOf(q)
    BY DEF Steady
  <1>1. r.in \in Seq(Message) /\ Len(r.in) \in Nat /\ DOMAIN r.in = 1..Len(r.in)
    BY <1>0, Messages, SeqTyped
  <1>2. Len(r.in) <= Len(r.pipe) /\ r.in = SubSeq(r.pipe, 1, Len(r.in))
    BY DEF Steady, OnWire
  <1>3. PICK p : p = FrontOf(q)
    OBVIOUS
  <1>4. /\ p \in Seq(Batch) /\ Len(p) \in Nat /\ DOMAIN q = 1..Len(q)
        /\ \A i \in 1..Len(p) : i \in 1..Len(q) /\ p[i] = q[i]
    BY <1>3, FrontTyped, BatchSeq
  <1>5. PICK n : n = Len(r.in)
    OBVIOUS
  <1>6. n \in Nat /\ n <= Len(p) /\ r.in = SubSeq(p, 1, n)
    BY <1>0, <1>1, <1>2, <1>3, <1>5
  <1>7. \A k \in 1..n : SubSeq(p, 1, n)[k] = p[k]
    BY <1>4, <1>6
  <1>8. \A k \in 1..n : k \in 1..Len(p)
    BY <1>4, <1>6
  <1> QED
    BY <1>1, <1>4, <1>5, <1>6, <1>7, <1>8

\* No stream, or only its handshake: nothing to keep.
LEMMA NothingRefused ==
    ASSUME ~c'.shook, c'.in = <<>>
    PROVE  RefusedNext'
  BY DEF RefusedNext

\* A step that adds nothing to the queues, the log or the replies.
LEMMA OrderQuiet ==
    ASSUME IInv, OrderInv, UNCHANGED <<queue, log, author>>, refused \subseteq refused',
           \/ ~c'.shook
           \/ c.shook /\ \A k \in DOMAIN c'.in : \E j \in DOMAIN c.in : c'.in[k] = c.in[j],
           RefusedNext'
    PROVE  OrderInv'
  <1>1. \A w : (Waiting(w)' <=> Waiting(w)) /\ (InOrder(w)' <=> InOrder(w))
    BY DEF Waiting, InOrder
  <1>2. OwnWrites'
    BY <1>1 DEF OrderInv, OwnWrites
  <1>3. OrderKept'
    BY <1>1 DEF OrderInv, OrderKept
  <1>4. RepliesInPlace'
    BY <1>1 DEF OrderInv, RepliesInPlace
  <1> QED
    BY <1>2, <1>3, <1>4 DEF OrderInv

\* The first write is over.
LEMMA OrderFinished ==
    ASSUME IInv, OrderInv, queue[user] # <<>>,
           queue' = [queue EXCEPT ![user] = Tail(@)],
           UNCHANGED <<user, log, refused, author>>,
           queue[user][1].w \in refused \/ InOrder(queue[user][1].w),
           \/ ~c'.shook
           \/ c.shook /\ \A k \in DOMAIN c'.in : \E j \in DOMAIN c.in : c'.in[k] = c.in[j],
           RefusedNext'
    PROVE  OrderInv'
  <1> DEFINE q == queue[user]
             t == Tail(q)
  <1>1. user \in Users /\ q \in Seq(Batch) /\ \A u \in Users : queue'[u] = IF u = user THEN t ELSE queue[u]
    BY Queues DEF IInv, TypeOK
  <1>2. /\ DOMAIN q = 1..Len(q) /\ Len(q) \in Nat /\ 1 \in DOMAIN q
        /\ Len(t) = Len(q) - 1 /\ DOMAIN t = 1..Len(t)
        /\ \A i \in DOMAIN t : i + 1 \in DOMAIN q /\ t[i] = q[i + 1]
    <2>1. t \in Seq(Batch) /\ Len(t) = Len(q) - 1
          /\ \A i \in DOMAIN t : i + 1 \in DOMAIN q /\ t[i] = q[i + 1]
      BY <1>1, TailSeq
    <2> QED
      BY <1>1, <2>1, SeqTyped
  <1>3. \A i \in DOMAIN q : i = 1 \/ (i - 1 \in DOMAIN t /\ t[i - 1] = q[i])
    <2> SUFFICES ASSUME NEW i \in DOMAIN q, i # 1 PROVE i - 1 \in DOMAIN t /\ t[i - 1] = q[i]
      OBVIOUS
    <2>1. i - 1 \in DOMAIN t /\ (i - 1) + 1 = i
      BY <1>2
    <2> QED
      BY <1>2, <2>1
  <1>0. q = queue[user]
    OBVIOUS
  <1> HIDE DEF q, t
  <1>4. \A w \in DOMAIN author : author[w] \in Users
    BY SeqTyped DEF IInv, TypeOK
  <1>5. \A w \in DOMAIN author : Waiting(w) => Waiting(w)' \/ (w = q[1].w /\ author[w] = user)
    <2> SUFFICES ASSUME NEW w \in DOMAIN author, Waiting(w)
                 PROVE  \/ \E i \in DOMAIN queue'[author[w]] : queue'[author[w]][i].w = w
                        \/ w = q[1].w /\ author[w] = user
      BY DEF Waiting
    <2>1. PICK i \in DOMAIN queue[author[w]] : queue[author[w]][i].w = w
      BY DEF Waiting
    <2>2. CASE author[w] # user
      BY <1>1, <1>4, <2>1, <2>2
    <2>3. CASE author[w] = user
      <3>1. i \in DOMAIN q /\ q[i].w = w /\ queue'[author[w]] = t
        BY <1>0, <1>1, <2>1, <2>3
      <3>2. CASE i = 1
        BY <2>3, <3>1, <3>2
      <3>3. CASE i # 1
        BY <1>3, <3>1, <3>3
      <3> QED
        BY <3>2, <3>3
    <2> QED
      BY <2>2, <2>3
  <1>6. \A w : InOrder(w)' <=> InOrder(w)
    BY DEF InOrder
  <1>7. OwnWrites'
    <2> SUFFICES ASSUME NEW u \in Users, NEW i \in DOMAIN queue'[u]
                 PROVE  /\ queue'[u][i].w \in DOMAIN author /\ author[queue'[u][i].w] = u
                        /\ \A j \in DOMAIN queue'[u] : i < j => queue'[u][i].w < queue'[u][j].w
                        /\ \A w \in DOMAIN author :
                              author[w] = u /\ ~Waiting(w)' => w < queue'[u][i].w
      BY DEF OwnWrites
    <2>1. CASE u # user
      BY <1>1, <1>5, <2>1 DEF OrderInv, OwnWrites
    <2>2. CASE u = user
      <3>0. queue'[u] = t
        BY <1>1, <2>2
      <3>1. i \in DOMAIN t /\ queue'[u] = t /\ i + 1 \in DOMAIN q /\ t[i] = q[i + 1]
            /\ 1 < i + 1
        BY <1>2, <3>0
      <3>2. /\ q[i + 1].w \in DOMAIN author /\ author[q[i + 1].w] = u
            /\ \A j \in DOMAIN q : i + 1 < j => q[i + 1].w < q[j].w
            /\ q[1].w < q[i + 1].w
            /\ \A w \in DOMAIN author : author[w] = u /\ ~Waiting(w) => w < q[i + 1].w
        BY <1>0, <1>1, <1>2, <2>2, <3>1 DEF OrderInv, OwnWrites
      <3>3. \A j \in DOMAIN t : i < j => t[i].w < t[j].w
        <4> SUFFICES ASSUME NEW j \in DOMAIN t, i < j PROVE t[i].w < t[j].w
          OBVIOUS
        <4>1. j + 1 \in DOMAIN q /\ t[j] = q[j + 1] /\ i + 1 < j + 1
          BY <1>2, <3>1
        <4> QED
          BY <3>1, <3>2, <4>1
      <3>4. \A w \in DOMAIN author : author[w] = u /\ ~Waiting(w)' => w < t[i].w
        BY <1>5, <3>1, <3>2
      <3> QED
        BY <3>1, <3>2, <3>3, <3>4
    <2> QED
      BY <2>1, <2>2
  <1>8. OrderKept'
    BY <1>0, <1>5, <1>6 DEF OrderInv, OrderKept
  <1>9. RepliesInPlace'
    BY <1>6 DEF OrderInv, RepliesInPlace
  <1> QED
    BY <1>7, <1>8, <1>9 DEF OrderInv

\* The server applies the write behind the last reply.
LEMMA OrderApplied ==
    ASSUME IInv, OrderInv, ServerApplies
    PROVE  OrderInv'
  <1>9. PICK q, n, x : q = queue[user] /\ n = Len(c.in) /\ x = Head(c.out).w
    OBVIOUS
  <1>0. Sound /\ Taking /\ Head(c.out) # Hello /\ Steady(c, q)
    BY <1>9, InvSound DEF ServerApplies, IInv
  <1>1. /\ Steady(c', q) /\ c'.in = Append(c.in, Head(c.out)) /\ c'.shook = c.shook
        /\ c'.ended = "no" /\ q \in Seq(Batch) /\ user \in Users
    BY <1>0, <1>9, ServerSteady, Queues DEF ServerApplies, IInv
  <1>2. c.shook
    <2>1. ~c.shook => Head(c.out) = Head(<<Hello>>)
      BY <1>0, TakingOpen
    <2>2. Head(<<Hello>>) = Hello
      OBVIOUS
    <2> QED
      BY <1>0, <2>1, <2>2
  <1>3. /\ c.in \in Seq(Message) /\ n \in Nat /\ DOMAIN c.in = 1..n
        /\ \A k \in DOMAIN c.in : k \in DOMAIN q /\ c.in[k] = q[k]
    BY <1>0, <1>1, <1>2, <1>9, RepliesAtFront
  <1>4. /\ DOMAIN c'.in = DOMAIN c.in \cup {n + 1} /\ c'.in[n + 1] = Head(c.out)
        /\ \A k \in DOMAIN c.in : c'.in[k] = c.in[k]
    BY <1>0, <1>1, <1>3, <1>9, TakingOpen, AppendSeq
  <1>5. n + 1 \in DOMAIN q /\ q[n + 1].w = x
    <2>1. Steady(c', q) /\ c'.shook /\ q \in Seq(Batch)
      BY <1>1, <1>2
    <2>2. \A k \in DOMAIN c'.in : k \in DOMAIN q /\ c'.in[k] = q[k]
      BY <2>1, RepliesAtFront
    <2> QED
      BY <1>4, <1>9, <2>2
  <1>6. UNCHANGED <<queue, user, refused, author>> /\ x \in Writes
    BY <1>1, <1>5, BatchSeq DEF ServerApplies
  <1>7. log' = Append(log, x) /\ log \in Seq(Writes)
    BY <1>9 DEF ServerApplies, IInv, TypeOK
  <1>8. /\ DOMAIN log' = DOMAIN log \cup {Len(log) + 1} /\ log'[Len(log) + 1] = x
        /\ \A k \in DOMAIN log : k < Len(log) + 1 /\ log'[k] = log[k]
        /\ Len(log) + 1 \in Nat
    BY <1>6, <1>7, AppendSeq, SeqTyped
  <1>10. \A w : Waiting(w)' <=> Waiting(w)
    BY <1>6 DEF Waiting
  <1>11. InOrder(x)'
    <2>1. \A k \in DOMAIN log' : ~(k > Len(log) + 1)
      BY <1>8, <1>7, SeqTyped
    <2> QED
      BY <1>8, <2>1 DEF InOrder
  <1>12. ASSUME NEW w, InOrder(w), ~(x < w /\ author[x] = author[w])
         PROVE  InOrder(w)'
    <2>1. PICK k \in DOMAIN log :
             /\ log[k] = w
             /\ \A m \in DOMAIN log : m > k => ~(log[m] < w /\ author[log[m]] = author[w])
      BY <1>12 DEF InOrder
    <2>2. k \in DOMAIN log' /\ log'[k] = w
      BY <1>8, <2>1
    <2>3. \A m \in DOMAIN log' : m > k => ~(log'[m] < w /\ author'[log'[m]] = author'[w])
      BY <1>6, <1>8, <1>12, <2>1
    <2> QED
      BY <2>2, <2>3 DEF InOrder
  <1>13. /\ x \in DOMAIN author /\ author[x] = user
         /\ \A j \in DOMAIN q : j < n + 1 => q[j].w < x
         /\ \A w \in DOMAIN author : author[w] = user /\ ~Waiting(w) => w < x
    BY <1>1, <1>5, <1>9 DEF OrderInv, OwnWrites
  <1>14. \A w \in DOMAIN author : w \in Nat
    BY SeqTyped DEF IInv, TypeOK
  <1>15. OwnWrites'
    BY <1>6, <1>10 DEF OrderInv, OwnWrites
  <1>16. OrderKept'
    <2> SUFFICES ASSUME NEW w \in DOMAIN author, ~Waiting(w), w \notin refused PROVE InOrder(w)'
      BY <1>6, <1>10 DEF OrderKept
    <2>1. InOrder(w)
      BY DEF OrderInv, OrderKept
    <2>2. ~(x < w /\ author[x] = author[w])
      <3>1. x \in Nat /\ w \in Nat /\ author[x] = user
        BY <1>13, <1>14
      <3>2. \A v \in DOMAIN author : author[v] = user /\ ~Waiting(v) => v < x
        BY <1>13
      <3>3. author[w] = user => w < x
        BY <3>2, Zenon
      <3> QED
        BY <3>1, <3>3
    <2> QED
      BY <1>12, <2>1, <2>2
  <1>17. RepliesInPlace'
    <2> SUFFICES ASSUME NEW k \in DOMAIN c'.in, NEW w, w = c'.in[k].w PROVE InOrder(w)'
      BY DEF RepliesInPlace
    <2>1. CASE k = n + 1
      <3>1. w = x
        BY <1>4, <1>9, <2>1
      <3> QED
        BY <1>11, <3>1
    <2>2. CASE k \in DOMAIN c.in
      <3>1. w = q[k].w /\ InOrder(q[k].w) /\ k < n + 1 /\ k \in DOMAIN q
        BY <1>2, <1>3, <1>4, <2>2 DEF OrderInv, RepliesInPlace
      <3>2. q[k].w \in Nat /\ x \in Nat /\ q[k].w < x
        BY <1>1, <1>6, <1>13, <3>1, BatchSeq DEF Writes
      <3> QED
        BY <1>12, <3>1, <3>2
    <2> QED
      BY <1>4, <2>1, <2>2
  <1>18. RefusedNext'
    BY <1>1 DEF RefusedNext
  <1> QED
    BY <1>15, <1>16, <1>17, <1>18 DEF OrderInv

\* A write is made: it is the last of its user's queue, and the newest.
LEMMA OrderWritten ==
    ASSUME IInv, OrderInv, Write
    PROVE  OrderInv'
  <1>0. PICK q, new : q = queue[user] /\ new = Len(author) + 1
    OBVIOUS
  <1>01. PICK b : b = [id |-> nextId, w |-> new]
    OBVIOUS
  <1>02. PICK p : p = Append(q, b)
    OBVIOUS
  <1>1. /\ c'.in = c.in /\ c'.shook = c.shook
        /\ c'.ended = c.ended \/ (~c'.shook /\ c'.in = <<>>)
        /\ queue' = [queue EXCEPT ![user] = p] /\ b \in Batch
    BY <1>0, <1>01, <1>02, InvSound, WriteSteady
  <1>2. UNCHANGED <<user, log, refused>> /\ author' = Append(author, user)
    BY DEF Write
  <1>3. user \in Users /\ q \in Seq(Batch) /\ author \in Seq(Users) /\ log \in Seq(Writes)
        /\ b.w = new /\ Steady(c, q)
    BY <1>0, <1>01, Queues DEF IInv, TypeOK
  <1>4. /\ DOMAIN p = DOMAIN q \cup {Len(q) + 1} /\ p[Len(q) + 1].w = new
        /\ \A i \in DOMAIN q : i < Len(q) + 1 /\ p[i] = q[i]
    BY <1>1, <1>3, <1>02, AppendSeq
  <1>5. \A u \in Users : queue'[u] = IF u = user THEN p ELSE queue[u]
    BY <1>1 DEF IInv, TypeOK
  <1>6. /\ DOMAIN author' = DOMAIN author \cup {new} /\ author'[new] = user
        /\ \A w \in DOMAIN author : author'[w] = author[w] /\ w \in Nat /\ w < new
        /\ DOMAIN author = 1..Len(author) /\ Len(author) \in Nat
        /\ \A w \in DOMAIN author : author[w] \in Users
    BY <1>0, <1>2, <1>3, AppendSeq, SeqTyped
  <1>7. q = queue[user] /\ Len(q) \in Nat /\ DOMAIN q = 1..Len(q)
    BY <1>0, <1>3, SeqTyped
  <1>8. Waiting(new)'
    <2>1. queue'[author'[new]] = p /\ Len(q) + 1 \in DOMAIN p
      BY <1>3, <1>4, <1>5, <1>6
    <2> QED
      BY <1>4, <2>1 DEF Waiting
  <1>9. \A w \in DOMAIN author : Waiting(w) => Waiting(w)'
    <2> SUFFICES ASSUME NEW w \in DOMAIN author, Waiting(w)
                 PROVE  \E i \in DOMAIN queue'[author'[w]] : queue'[author'[w]][i].w = w
      BY DEF Waiting
    <2>1. PICK i \in DOMAIN queue[author[w]] : queue[author[w]][i].w = w
      BY DEF Waiting
    <2>2. author'[w] = author[w] /\ author[w] \in Users
      BY <1>6
    <2>3. CASE author[w] = user
      <3>1. i \in DOMAIN q /\ q[i].w = w /\ queue'[author'[w]] = p
        BY <1>3, <1>5, <1>7, <2>1, <2>2, <2>3
      <3> QED
        BY <1>4, <3>1
    <2>4. CASE author[w] # user
      BY <1>5, <2>1, <2>2, <2>4
    <2> QED
      BY <2>3, <2>4
  <1>10. \A w \in DOMAIN author : InOrder(w) => InOrder(w)'
    <2> SUFFICES ASSUME NEW w \in DOMAIN author, InOrder(w) PROVE InOrder(w)'
      OBVIOUS
    <2>1. PICK k \in DOMAIN log :
             /\ log[k] = w
             /\ \A m \in DOMAIN log : m > k => ~(log[m] < w /\ author[log[m]] = author[w])
      BY DEF InOrder
    <2>2. \A m \in DOMAIN log : log[m] \in Writes
      BY <1>3, SeqTyped
    <2>3. \A m \in DOMAIN log : log[m] < w => log[m] \in DOMAIN author
      BY <1>6, <2>2 DEF Writes
    <2>4. log' = log /\ \A m \in DOMAIN log : m > k => ~(log[m] < w /\ author'[log[m]] = author'[w])
      BY <1>2, <1>6, <2>1, <2>3
    <2> QED
      BY <2>1, <2>4 DEF InOrder
  <1>11. OwnWrites'
    <2> SUFFICES ASSUME NEW u \in Users, NEW i \in DOMAIN queue'[u]
                 PROVE  /\ queue'[u][i].w \in DOMAIN author' /\ author'[queue'[u][i].w] = u
                        /\ \A j \in DOMAIN queue'[u] : i < j => queue'[u][i].w < queue'[u][j].w
                        /\ \A w \in DOMAIN author' :
                              author'[w] = u /\ ~Waiting(w)' => w < queue'[u][i].w
      BY DEF OwnWrites
    <2>0. \A j \in DOMAIN queue[u] :
             /\ queue[u][j].w \in DOMAIN author /\ author[queue[u][j].w] = u
             /\ \A k \in DOMAIN queue[u] : j < k => queue[u][j].w < queue[u][k].w
             /\ \A w \in DOMAIN author : author[w] = u /\ ~Waiting(w) => w < queue[u][j].w
      BY DEF OrderInv, OwnWrites
    <2>1. \A w \in DOMAIN author' : ~Waiting(w)' => w \in DOMAIN author /\ ~Waiting(w)
      BY <1>6, <1>8, <1>9
    <2>2. CASE u # user
      <3>1. queue'[u] = queue[u]
        BY <1>5, <2>2
      <3> QED
        BY <1>6, <2>0, <2>1, <3>1
    <2>3. CASE u = user
      <3>0. queue'[u] = p /\ queue[u] = q
        BY <1>5, <1>7, <2>3
      <3>1. CASE i \in DOMAIN q
        <4>1. p[i] = q[i] /\ q[i].w \in DOMAIN author /\ author[q[i].w] = u
              /\ \A w \in DOMAIN author : author[w] = u /\ ~Waiting(w) => w < q[i].w
          BY <1>4, <2>0, <3>0, <3>1
        <4>2. \A j \in DOMAIN p : i < j => p[i].w < p[j].w
          <5> SUFFICES ASSUME NEW j \in DOMAIN p, i < j PROVE p[i].w < p[j].w
            OBVIOUS
          <5>1. CASE j \in DOMAIN q
            BY <1>4, <2>0, <3>0, <3>1, <5>1
          <5>2. CASE j = Len(q) + 1
            BY <1>4, <1>6, <4>1, <5>2
          <5> QED
            BY <1>4, <5>1, <5>2
        <4>3. p[i].w \in DOMAIN author' /\ author'[p[i].w] = u
          BY <1>6, <4>1
        <4>4. \A w \in DOMAIN author' : author'[w] = u /\ ~Waiting(w)' => w < p[i].w
          BY <1>6, <2>1, <4>1
        <4> QED
          BY <3>0, <4>2, <4>3, <4>4
      <3>2. CASE i = Len(q) + 1
        <4>1. p[i].w = new
          BY <1>4, <3>2
        <4>2. \A j \in DOMAIN p : ~(i < j)
          BY <1>4, <1>7, <3>2
        <4>3. \A w \in DOMAIN author' : ~Waiting(w)' => w < new
          BY <1>6, <2>1
        <4> QED
          BY <1>6, <2>3, <3>0, <4>1, <4>2, <4>3
      <3> QED
        BY <1>4, <3>0, <3>1, <3>2
    <2> QED
      BY <2>2, <2>3
  <1>12. OrderKept'
    BY <1>2, <1>6, <1>8, <1>9, <1>10 DEF OrderInv, OrderKept
  <1>13. ASSUME c.shook
         PROVE  Len(c.in) \in Nat /\ \A k \in DOMAIN c.in : k \in DOMAIN q /\ c.in[k] = q[k]
    BY <1>3, <1>13, RepliesAtFront
  <1>14. RepliesInPlace'
    <2> SUFFICES ASSUME c.shook, NEW k \in DOMAIN c.in, NEW w, w = c.in[k].w PROVE InOrder(w)'
      BY <1>1 DEF RepliesInPlace
    <2>1. InOrder(w)
      BY DEF OrderInv, RepliesInPlace
    <2>2. w \in DOMAIN author
      BY <1>3, <1>7, <1>13 DEF OrderInv, OwnWrites
    <2> QED
      BY <1>10, <2>1, <2>2
  <1>15. RefusedNext'
    <2>1. CASE ~c.shook
      <3>1. c'.ended = "permanent" => c'.in = <<>>
        BY <1>1, <2>1 DEF OrderInv, RefusedNext
      <3> QED
        BY <1>1, <2>1, <3>1 DEF RefusedNext
    <2>2. CASE c.shook /\ c.ended = "permanent"
      <3>1. Len(c.in) + 1 \in DOMAIN q /\ q[Len(c.in) + 1].w \in refused
        BY <1>7, <2>2 DEF OrderInv, RefusedNext
      <3>2. Len(c.in) + 1 \in DOMAIN p /\ p[Len(c.in) + 1].w \in refused
        BY <1>4, <3>1
      <3> QED
        BY <1>1, <1>2, <1>3, <1>5, <2>2, <3>2 DEF RefusedNext
    <2>3. CASE c.shook /\ c.ended # "permanent"
      BY <1>1, <2>3 DEF RefusedNext
    <2> QED
      BY <2>1, <2>2, <2>3
  <1> QED
    BY <1>11, <1>12, <1>14, <1>15 DEF OrderInv

\* The first reply, or the end of the call, finishes the first write.
LEMMA OrderAcknowledged == ASSUME IInv, OrderInv, WriteAcknowledged PROVE OrderInv'
  <1>0. PICK q : q = queue[user]
    OBVIOUS
  <1>1. /\ q # <<>> /\ queue' = [queue EXCEPT ![user] = Tail(@)] /\ queue'[user] = Tail(q)
        /\ q \in Seq(Batch)
    BY <1>0, InvSound, AckDoes, FirstFinished
  <1>2. c'.in = Tail(c.in) /\ c'.shook /\ c'.ended = c.ended /\ c.shook /\ c.in # <<>>
    BY InvSound, AckSteady DEF WriteAcknowledged
  <1>3. UNCHANGED <<user, log, refused, author>>
    BY DEF WriteAcknowledged
  <1>4. /\ c.in \in Seq(Message) /\ \A k \in DOMAIN c.in : k \in DOMAIN q /\ c.in[k] = q[k]
        /\ Len(c.in) \in Nat /\ DOMAIN c.in = 1..Len(c.in)
    BY <1>0, <1>1, <1>2, RepliesAtFront DEF IInv
  <1>5. /\ 1 \in DOMAIN c.in /\ Len(Tail(c.in)) = Len(c.in) - 1
        /\ \A k \in DOMAIN Tail(c.in) : k + 1 \in DOMAIN c.in /\ Tail(c.in)[k] = c.in[k + 1]
    BY <1>2, <1>4, TailSeq, SeqTyped
  <1>6. InOrder(q[1].w)
    BY <1>2, <1>4, <1>5 DEF OrderInv, RepliesInPlace
  <1>7. RefusedNext'
    <2> SUFFICES ASSUME c.ended = "permanent"
                 PROVE  /\ Len(Tail(c.in)) + 1 \in DOMAIN Tail(q)
                        /\ Tail(q)[Len(Tail(c.in)) + 1].w \in refused
      <3>1. /\ queue'[user'] = Tail(q) /\ c'.in = Tail(c.in) /\ c'.shook
            /\ c'.ended = c.ended /\ refused' = refused
        BY <1>1, <1>2, <1>3
      <3> QED
        BY <3>1 DEF RefusedNext
    <2>1. Len(c.in) + 1 \in DOMAIN q /\ q[Len(c.in) + 1].w \in refused
      BY <1>0, <1>2 DEF OrderInv, RefusedNext
    <2>2. PICK t \in Seq(Batch) : t = Tail(q)
      BY <1>1, TailSeq
    <2>3. /\ Len(t) = Len(q) - 1 /\ Len(q) \in Nat /\ DOMAIN t = 1..Len(t)
          /\ DOMAIN q = 1..Len(q)
          /\ \A i \in DOMAIN t : t[i] = q[i + 1]
      BY <1>1, <2>2, TailSeq, SeqTyped
    <2>4. PICK n \in Nat : n = Len(c.in) /\ n > 0
      BY <1>4, <1>5
    <2>5. n \in DOMAIN t
      BY <2>1, <2>3, <2>4
    <2>6. t[n] = q[n + 1]
      BY <2>3, <2>5
    <2>7. PICK l : l = Len(Tail(c.in))
      OBVIOUS
    <2>8. l = n - 1
      BY <1>5, <2>4, <2>7
    <2>9. l + 1 = n
      BY <2>4, <2>8
    <2> QED
      BY <2>1, <2>2, <2>4, <2>5, <2>6, <2>7, <2>9
  <1>8. \A k \in DOMAIN c'.in : \E j \in DOMAIN c.in : c'.in[k] = c.in[j]
    BY <1>2, <1>5
  <1> QED
    BY <1>0, <1>1, <1>2, <1>3, <1>6, <1>7, <1>8, OrderFinished

\* When the first write is given up, it is the refused one, unless its reply was
\* overtaken: then it is in its place.
LEMMA OrderEnded ==
    ASSUME IInv, OrderInv, StreamFinishes \/ WriteFails
    PROVE  OrderInv'
  <1>1. CallEnds /\ Anew(c', queue'[user])
        /\ \/ UNCHANGED <<queue, callbacks, told>>
           \/ queue[user] # <<>> /\ Finished(queue[user][1], "rejected")
    BY InvSound, EndedOpen, EndSteady
  <1>2. UNCHANGED <<user, log, refused, author>> /\ ~c'.shook /\ c'.in = <<>>
    BY <1>1 DEF CallEnds, Anew
  <1>3. RefusedNext'
    BY <1>2, NothingRefused
  <1>4. CASE UNCHANGED queue
    BY <1>2, <1>3, <1>4, OrderQuiet
  <1>5. CASE ~UNCHANGED queue
    <2>1. queue[user] # <<>> /\ queue' = [queue EXCEPT ![user] = Tail(@)]
      BY <1>1, <1>5, InvSound, FirstFinished
    <2>2. c.ended = "permanent" /\ c.shook
      BY <1>1, <1>5 DEF CallEnds, Rejects
    <2>3. PICK q \in Seq(Batch) : q = queue[user]
      BY Queues DEF IInv
    <2>4. CASE c.in = <<>>
      <3>1. Len(c.in) + 1 = 1
        BY <2>4, EmptySeq
      <3>2. queue[user][1].w \in refused
        BY <2>2, <3>1 DEF OrderInv, RefusedNext
      <3> QED
        BY <1>2, <1>3, <2>1, <3>2, OrderFinished
    <2>5. CASE c.in # <<>>
      <3>1. 1 \in DOMAIN c.in /\ c.in[1] = queue[user][1]
        <4>1. c.in \in Seq(Message) /\ \A k \in DOMAIN c.in : c.in[k] = q[k]
          BY <2>2, <2>3, RepliesAtFront DEF IInv
        <4> QED
          BY <2>3, <2>5, <4>1, SeqTyped
      <3>2. InOrder(queue[user][1].w)
        BY <2>2, <3>1 DEF OrderInv, RepliesInPlace
      <3> QED
        BY <1>2, <1>3, <2>1, <3>2, OrderFinished
    <2> QED
      BY <2>4, <2>5
  <1> QED
    BY <1>4, <1>5

\* The write behind the last reply is refused.
LEMMA OrderRefused == ASSUME IInv, OrderInv, ServerRefuses PROVE OrderInv'
  <1>0. Sound /\ Taking /\ Head(c.out) # Hello /\ Steady(c, queue[user])
    BY InvSound DEF ServerRefuses, IInv
  <1>1. /\ c'.in = c.in /\ c'.shook = c.shook
        /\ refused' = refused \cup {Head(c.out).w}
        /\ UNCHANGED <<queue, user, log, author>>
    BY <1>0, RefusedSteady DEF ServerRefuses
  <1>2. c.shook
    <2>1. ~c.shook => Head(c.out) = Head(<<Hello>>)
      BY <1>0, TakingOpen
    <2>2. Head(<<Hello>>) = Hello
      OBVIOUS
    <2> QED
      BY <1>0, <2>1, <2>2
  <1>3. PICK q \in Seq(Batch) : q = queue[user]
    BY Queues DEF IInv
  <1>4. PICK p : p = c.pipe
    OBVIOUS
  <1>5. /\ p = FrontOf(q) /\ \A i \in 1..Len(p) : i \in 1..Len(q) /\ p[i] = q[i]
        /\ DOMAIN q = 1..Len(q) /\ DOMAIN p = 1..Len(p)
    <2>1. p = FrontOf(q)
      BY <1>0, <1>3, <1>4 DEF Steady
    <2> QED
      BY <2>1, FrontTyped, BatchSeq
  <1>6. Len(c.in) + 1 \in DOMAIN p /\ p[Len(c.in) + 1] = Head(c.out)
    <2>1. /\ c.in \in Seq(Message) /\ c.out \in Seq(Message) /\ c.out # <<>>
          /\ c.in \o c.out = p
      BY <1>0, <1>2, <1>4, TakingOpen
    <2>2. p[Len(c.in) + 1] = c.out[1] /\ Len(c.in) + 1 \in DOMAIN p
      BY <2>1, FirstBehind
    <2> QED
      BY <2>1, <2>2, TailSeq
  <1>7. Len(c.in) + 1 \in DOMAIN q /\ q[Len(c.in) + 1].w \in refused'
    BY <1>1, <1>5, <1>6
  <1>8. RefusedNext'
    BY <1>1, <1>2, <1>3, <1>7 DEF RefusedNext
  <1> QED
    BY <1>1, <1>2, <1>8, OrderQuiet

\* The connection breaks: some replies are lost, those that arrived are the first.
LEMMA OrderBroken == ASSUME IInv, OrderInv, ConnectionBreaks PROVE OrderInv'
  <1>1. /\ UNCHANGED <<queue, user, log, refused, author>> /\ c.ended = "no"
        /\ c.stream = "Open"
    BY DEF ConnectionBreaks
  <1>2. c'.shook = c.shook /\ Steady(c, queue[user]) /\ c \in ClientType
    BY InvSound, BrokenSteady DEF IInv, Steady
  <1>3. PICK k \in 0..Len(c.in) : c'.in = SubSeq(c.in, 1, k) /\ Len(c'.in) = k
    BY InvSound, BrokenSteady
  <1>4. \A i \in DOMAIN c'.in : \E j \in DOMAIN c.in : c'.in[i] = c.in[j]
    <2>1. c.in \in Seq(Message) /\ Len(c.in) \in Nat /\ DOMAIN c.in = 1..Len(c.in)
      BY <1>2, Messages, SeqTyped
    <2>2. DOMAIN c'.in = 1..k /\ \A i \in 1..k : c'.in[i] = c.in[i] /\ i \in DOMAIN c.in
      <3>1. \A i \in 1..k : c.in[i] \in Message
        BY <2>1, SeqTyped
      <3>2. c'.in \in Seq(Message)
        BY InvSound, BrokenSteady, Messages DEF Steady
      <3> QED
        BY <1>3, <2>1, <3>2, SeqTyped
    <2> QED
      BY <2>2
  <1>5. RefusedNext'
    <2>1. CASE c'.ended # "permanent"
      BY <2>1 DEF RefusedNext
    <2>2. CASE c'.ended = "permanent"
      <3>1. c.out # <<>> /\ Head(c.out) = Hello /\ c'.in = c.in
        BY <1>2, <2>2 DEF ConnectionBreaks, ClientType
      <3>2. ~c.shook
        BY <1>1, <3>1, InvSound, Greeted DEF Taking
      <3>3. c.in = <<>>
        BY <1>1, <1>2, <3>1, <3>2, OnlyHello
      <3> QED
        BY <1>2, <3>1, <3>2, <3>3, NothingRefused
    <2> QED
      BY <2>1, <2>2
  <1> QED
    BY <1>1, <1>2, <1>4, <1>5, OrderQuiet

\* Tasks that leave the stream closed, or greet.
LEMMA OrderOfQuietTasks ==
    ASSUME IInv, OrderInv,
           \/ TokenArrives \/ StaleTokenArrives \/ TokenFails \/ BackoffElapses
           \/ IdleTimerFires \/ HandshakeCompletes \/ ServerGreets
    PROVE  OrderInv'
  <1>0. Sound /\ UNCHANGED <<queue, user, log, refused, author>>
    BY InvSound DEF TokenArrives, StaleTokenArrives, TokenFails, BackoffElapses,
                    IdleTimerFires, HandshakeCompletes, ServerGreets
  <1>1. CASE ~c'.shook /\ c'.in = <<>>
    BY <1>0, <1>1, NothingRefused, OrderQuiet
  <1>2. CASE TokenArrives
    BY <1>0, <1>1, <1>2, TokenSteady
  <1>3. CASE StaleTokenArrives
    <2>1. c'.in = c.in /\ c'.shook = c.shook /\ c'.ended = c.ended
      BY <1>0, <1>3, StaleSteady
    <2>2. RefusedNext'
      BY <1>0, <2>1 DEF OrderInv, RefusedNext
    <2> QED
      BY <1>0, <2>1, <2>2, OrderQuiet
  <1>4. CASE TokenFails \/ BackoffElapses
    BY <1>0, <1>1, <1>4, TokenFailsSteady, BackoffSteady DEF Anew
  <1>5. CASE IdleTimerFires
    <2>1. Anew(c', queue[user])
      BY <1>0, <1>5, CloseIdle DEF IdleTimerFires, Sound
    <2> QED
      BY <1>1, <2>1 DEF Anew
  <1>6. CASE HandshakeCompletes
    <2>1. c'.in = <<>> /\ c'.ended = c.ended /\ c'.shook
      BY <1>0, <1>6, HandshakeSteady
    <2>2. c.in # <<>> /\ ~c.shook
      BY <1>6 DEF HandshakeCompletes
    <2>3. c.ended # "permanent"
      BY <2>2 DEF OrderInv, RefusedNext
    <2>4. RefusedNext'
      BY <2>1, <2>3 DEF RefusedNext
    <2>5. RepliesInPlace'
      <3>1. DOMAIN c'.in = {}
        BY <2>1, EmptySeq
      <3> QED
        BY <3>1 DEF RepliesInPlace
    <2>6. \A w : (Waiting(w)' <=> Waiting(w)) /\ (InOrder(w)' <=> InOrder(w))
      BY <1>0 DEF Waiting, InOrder
    <2>7. OwnWrites' /\ OrderKept'
      BY <1>0, <2>6 DEF OrderInv, OwnWrites, OrderKept
    <2> QED
      BY <2>4, <2>5, <2>7 DEF OrderInv
  <1>7. CASE ServerGreets
    <2>1. Taking /\ Head(c.out) = Hello
      BY <1>7 DEF ServerGreets
    <2>2. ~c.shook /\ c'.shook = c.shook /\ c'.ended = "no"
      BY <1>0, <1>7, <2>1, Greeted, ServerSteady DEF ServerGreets
    <2>3. RefusedNext'
      BY <2>2 DEF RefusedNext
    <2> QED
      BY <1>0, <2>2, <2>3, OrderQuiet
  <1> QED
    BY <1>2, <1>3, <1>4, <1>5, <1>6, <1>7

\* A change of user, or the end of the process.
LEMMA OrderRestarted ==
    ASSUME IInv, OrderInv,
           Crash \/ CrashWhileAcknowledging \/ \E u \in Users : CredentialChanges(u)
    PROVE  OrderInv'
  <1>1. UNCHANGED <<queue, log, refused, author>>
    BY DEF Crash, CrashWhileAcknowledging, Reboot, CredentialChanges
  <1>2. ~c'.shook /\ c'.in = <<>>
    <2>1. ASSUME NEW u \in Users, CredentialChanges(u) PROVE ~c'.shook /\ c'.in = <<>>
      BY <2>1, CredentialStep DEF Anew
    <2>2. CASE Crash \/ CrashWhileAcknowledging
      BY <2>2, RebootAnew DEF Crash, CrashWhileAcknowledging, Anew
    <2> QED
      BY <2>1, <2>2
  <1> QED
    BY <1>1, <1>2, NothingRefused, OrderQuiet

LEMMA NextOrder == IInv /\ OrderInv /\ [Next]_vars => OrderInv'
  <1> SUFFICES ASSUME IInv, OrderInv, [Next]_vars PROVE OrderInv'
    OBVIOUS
  <1>1. CASE Next
    BY <1>1, OrderWritten, OrderAcknowledged, OrderEnded, OrderApplied, OrderRefused,
       OrderBroken, OrderOfQuietTasks, OrderRestarted DEF Next, Client, Server
  <1>2. CASE UNCHANGED vars
    <2>1. UNCHANGED <<queue, user, log, refused, author, c>>
      BY <1>2 DEF vars
    <2>2. RefusedNext'
      BY <2>1 DEF OrderInv, RefusedNext
    <2>3. ~c'.shook \/ (c.shook /\ \A k \in DOMAIN c'.in : \E j \in DOMAIN c.in : c'.in[k] = c.in[j])
      BY <2>1
    <2> QED
      BY <2>1, <2>2, <2>3, OrderQuiet
  <1> QED
    BY <1>1, <1>2

LEMMA InitOrder == Init => OrderInv
  <1> SUFFICES ASSUME Init PROVE OrderInv
    OBVIOUS
  <1>1. /\ queue = [u \in Users |-> <<>>] /\ author = <<>> /\ DOMAIN author = {}
        /\ \A u \in Users : DOMAIN queue[u] = {}
    BY EmptySeq DEF Init
  <1>2. ~c.shook /\ c.in = <<>>
    <2>1. <<>> \in Seq(Batch) /\ Ordered(<<>>) /\ c = Booted(<<>>)
      BY EmptySeq DEF Init, Ordered
    <2> QED
      BY <2>1, BootedAnew DEF Anew
  <1>3. OwnWrites /\ OrderKept
    BY <1>1 DEF OwnWrites, OrderKept
  <1> QED
    BY <1>2, <1>3 DEF OrderInv, RepliesInPlace, RefusedNext

\* A write that is over and was never refused was applied after everything its
\* author wrote before it, in whatever order replies, errors and restarts come.
THEOREM OrderIsKept == Spec => []OrderKept
  <1>1. IInv /\ OrderInv /\ [Next]_vars => (IInv /\ OrderInv)'
    BY NextSound, NextOrder
  <1>2. Init => IInv /\ OrderInv
    BY InitSound, InitOrder
  <1>3. OrderInv => OrderKept
    BY DEF OrderInv
  <1> QED
    BY <1>1, <1>2, <1>3, PTL DEF Spec

-----------------------------------------------------------------------------
(* The write path implements WriteQueue.                                   *)

LEMMA NamesTyped ==
    ASSUME NEW q \in Seq(Batch)
    PROVE  /\ Names(q) \in Seq(Writes) /\ Len(Names(q)) = Len(q)
           /\ DOMAIN Names(q) = DOMAIN q /\ \A i \in DOMAIN q : Names(q)[i] = q[i].w
  <1>1. Len(q) \in Nat /\ DOMAIN q = 1..Len(q) /\ \A i \in DOMAIN q : q[i].w \in Writes
    BY BatchSeq
  <1>2. Names(q) \in [1..Len(q) -> Writes]
    BY <1>1 DEF Names
  <1>3. Names(q) \in Seq(Writes) /\ Len(Names(q)) = Len(q)
    BY <1>1, <1>2
  <1> QED
    BY <1>1, <1>3 DEF Names

LEMMA NamesAppend ==
    ASSUME NEW q \in Seq(Batch), NEW b \in Batch
    PROVE  Names(Append(q, b)) = Append(Names(q), b.w)
  <1>1. /\ Append(q, b) \in Seq(Batch) /\ Len(Append(q, b)) = Len(q) + 1
        /\ DOMAIN Append(q, b) = DOMAIN q \cup {Len(q) + 1} /\ DOMAIN q = 1..Len(q)
        /\ \A i \in DOMAIN q : Append(q, b)[i] = q[i]
        /\ Append(q, b)[Len(q) + 1] = b /\ Len(q) \in Nat
    BY AppendSeq, SeqTyped
  <1>2. PICK s \in Seq(Batch) : s = Append(q, b)
    BY <1>1
  <1>3. PICK m \in Seq(Writes) : m = Names(q)
    BY NamesTyped
  <1>4. /\ Len(m) = Len(q) /\ \A i \in DOMAIN q : m[i] = q[i].w
        /\ b.w \in Writes
    BY <1>3, NamesTyped DEF Batch
  <1>5. /\ Append(m, b.w) \in Seq(Writes) /\ Len(Append(m, b.w)) = Len(q) + 1
        /\ \A i \in DOMAIN q : Append(m, b.w)[i] = q[i].w
        /\ Append(m, b.w)[Len(q) + 1] = b.w
    <2>1. DOMAIN m = DOMAIN q
      BY <1>3, NamesTyped
    <2> QED
      BY <1>4, <2>1, AppendSeq
  <1>6. /\ Names(s) \in Seq(Writes) /\ Len(Names(s)) = Len(q) + 1
        /\ \A i \in DOMAIN s : Names(s)[i] = s[i].w
    BY <1>1, <1>2, NamesTyped
  <1>7. \A i \in 1..(Len(q) + 1) : Names(s)[i] = Append(m, b.w)[i]
    <2>1. /\ DOMAIN s = 1..(Len(q) + 1) /\ s[Len(q) + 1] = b
          /\ \A i \in 1..Len(q) : s[i] = q[i]
      BY <1>1, <1>2
    <2>2. PICK a : a = Append(m, b.w)
      OBVIOUS
    <2>3. a[Len(q) + 1] = b.w /\ \A i \in 1..Len(q) : a[i] = q[i].w
      BY <1>1, <1>5, <2>2
    <2>4. PICK l \in Nat : l = Len(q)
      BY <1>1
    <2>5. \A i \in 1..(l + 1) : i = l + 1 \/ i \in 1..l
      OBVIOUS
    <2>6. \A i \in 1..(l + 1) : Names(s)[i] = a[i]
      BY <1>6, <2>1, <2>3, <2>4, <2>5
    <2> QED
      BY <2>2, <2>4, <2>6
  <1>8. Names(s) = Append(m, b.w)
    BY <1>5, <1>6, <1>7, SeqEqual
  <1> QED
    BY <1>2, <1>3, <1>8

LEMMA NamesTail ==
    ASSUME NEW q \in Seq(Batch), q # <<>>
    PROVE  /\ Names(Tail(q)) = Tail(Names(q)) /\ Names(q) # <<>>
           /\ Head(Names(q)) = q[1].w
  <1>1. /\ Len(q) \in Nat /\ Len(q) > 0 /\ DOMAIN q = 1..Len(q)
        /\ Tail(q) \in Seq(Batch) /\ Len(Tail(q)) = Len(q) - 1
        /\ DOMAIN Tail(q) = 1..Len(Tail(q))
        /\ \A i \in DOMAIN Tail(q) : i + 1 \in DOMAIN q /\ Tail(q)[i] = q[i + 1]
    BY TailSeq, SeqTyped
  <1>2. PICK m \in Seq(Writes) : m = Names(q)
    BY NamesTyped
  <1>3. Len(m) = Len(q) /\ (\A i \in DOMAIN q : m[i] = q[i].w) /\ m # <<>>
    BY <1>1, <1>2, NamesTyped, SeqTyped
  <1>4. /\ Tail(m) \in Seq(Writes) /\ Len(Tail(m)) = Len(q) - 1 /\ Head(m) = m[1]
        /\ \A i \in DOMAIN Tail(m) : Tail(m)[i] = m[i + 1]
        /\ DOMAIN Tail(m) = 1..Len(Tail(m))
    BY <1>3, TailSeq, SeqTyped
  <1>5. PICK t \in Seq(Batch) : t = Tail(q)
    BY <1>1
  <1>6. /\ Names(t) \in Seq(Writes) /\ Len(Names(t)) = Len(q) - 1
        /\ \A i \in DOMAIN t : Names(t)[i] = t[i].w
    BY <1>1, <1>5, NamesTyped
  <1>7. ASSUME NEW i \in 1..(Len(q) - 1) PROVE Names(t)[i] = Tail(m)[i]
    <2>1. i \in DOMAIN t /\ i + 1 \in DOMAIN q /\ t[i] = q[i + 1]
      BY <1>1, <1>5
    <2>2. Tail(m)[i] = m[i + 1]
      BY <1>4
    <2> QED
      BY <1>3, <1>6, <2>1, <2>2
  <1>8. Names(t) = Tail(m)
    BY <1>4, <1>6, <1>7, SeqEqual
  <1>9. Head(m) = q[1].w
    BY <1>1, <1>3, <1>4
  <1> QED
    BY <1>2, <1>3, <1>5, <1>8, <1>9

LEMMA Mapped ==
    ASSUME TypeOK
    PROVE  /\ \A u \in Users : Pending[u] = Names(queue[u])
           /\ Pending = [u \in Users |-> Pending[u]]
           /\ Unread \in Nat
  <1>1. Len(c.in) \in Nat
    BY Messages, SeqTyped DEF TypeOK
  <1> QED
    BY <1>1 DEF Pending, Unread

LEMMA InitMapped == Init => Abstract!Init
  <1> SUFFICES ASSUME Init PROVE Abstract!Init
    OBVIOUS
  <1>1. IInv
    BY InitSound
  <1>2. ~c.shook
    <2>1. <<>> \in Seq(Batch) /\ Ordered(<<>>)
      BY EmptySeq DEF Ordered
    <2> QED
      BY <2>1, BootedAnew DEF Init, Anew
  <1>3. Names(<<>>) = <<>>
    <2>1. <<>> \in Seq(Batch) /\ Len(<<>>) = 0
      BY EmptySeq
    <2>2. PICK m \in Seq(Writes) : m = Names(<<>>) /\ Len(m) = 0
      BY <2>1, NamesTyped
    <2> QED
      BY <2>2, SeqTyped
  <1>4. Pending = [u \in Users |-> <<>>]
    BY <1>3 DEF Pending, Init
  <1>5. Unread = 0
    BY <1>2 DEF Unread
  <1> QED
    BY <1>1, <1>4, <1>5 DEF Init, Abstract!Init, IInv, TypeOK

\* Tasks that only lose answers, if anything the server knows of.
LEMMA LoseMapped ==
    ASSUME Unread' \in 0..Unread, UNCHANGED <<queue, user, log, told>>
    PROVE  Abstract!Next
  <1>1. UNCHANGED Pending
    BY DEF Pending
  <1> QED
    BY <1>1 DEF Abstract!Next, Abstract!Lose

LEMMA QuietMapped ==
    ASSUME IInv,
           \/ TokenArrives \/ StaleTokenArrives \/ TokenFails \/ BackoffElapses
           \/ IdleTimerFires \/ HandshakeCompletes
           \/ ServerGreets \/ ServerRefuses \/ ConnectionBreaks
    PROVE  Abstract!Next
  <1>0. Sound /\ Unread \in Nat /\ Len(<<>>) = 0
    BY InvSound, Mapped, EmptySeq DEF IInv
  <1>1. Unread' \in 0..Unread
    <2>1. CASE TokenArrives
      BY <1>0, <2>1, TokenSteady DEF Unread
    <2>2. CASE StaleTokenArrives
      BY <1>0, <2>2, StaleSteady DEF Unread
    <2>3. CASE TokenFails \/ BackoffElapses
      BY <1>0, <2>3, TokenFailsSteady, BackoffSteady DEF Unread, Anew
    <2>4. CASE IdleTimerFires
      <3>1. Anew(c', queue[user])
        BY <1>0, <2>4, CloseIdle DEF IdleTimerFires, Sound
      <3> QED
        BY <1>0, <3>1 DEF Unread, Anew
    <2>5. CASE HandshakeCompletes
      BY <1>0, <2>5, HandshakeSteady DEF Unread
    <2>6. CASE ServerGreets
      <3>1. ~c.shook /\ c'.shook = c.shook
        BY <1>0, <2>6, Greeted, ServerSteady DEF ServerGreets
      <3> QED
        BY <1>0, <3>1 DEF Unread
    <2>7. CASE ServerRefuses
      BY <1>0, <2>7, RefusedSteady DEF Unread
    <2>8. CASE ConnectionBreaks
      <3>1. c'.shook = c.shook /\ Len(c'.in) \in 0..Len(c.in)
        BY <1>0, <2>8, BrokenSteady
      <3> QED
        BY <1>0, <3>1 DEF Unread
    <2> QED
      BY <2>1, <2>2, <2>3, <2>4, <2>5, <2>6, <2>7, <2>8
  <1>2. UNCHANGED <<queue, user, log, told>>
    BY Zenon DEF TokenArrives, StaleTokenArrives, TokenFails, BackoffElapses, IdleTimerFires,
       HandshakeCompletes, ServerGreets, ServerRefuses, ConnectionBreaks
  <1> QED
    BY <1>1, <1>2, LoseMapped

LEMMA WriteMapped == ASSUME IInv, Write PROVE Abstract!Next
  <1>1. PICK w \in Writes : w = Len(author) + 1
    BY DEF Write
  <1>2. PICK b : b = [id |-> nextId, w |-> w]
    OBVIOUS
  <1>3. /\ c'.in = c.in /\ c'.shook = c.shook /\ b \in Batch
        /\ queue' = [queue EXCEPT ![user] = Append(@, b)]
    BY <1>1, <1>2, InvSound, WriteSteady
  <1>4. user \in Users /\ (\A u \in Users : queue[u] \in Seq(Batch)) /\ Len(author) \in Nat
    BY Queues, SeqTyped DEF IInv, TypeOK
  <1>5. \A u \in Users : \A i \in DOMAIN Pending[u] : Pending[u][i] # w
    <2> SUFFICES ASSUME NEW u \in Users, NEW i \in DOMAIN Pending[u] PROVE Pending[u][i] # w
      OBVIOUS
    <2>1. Pending[u] = Names(queue[u]) /\ queue[u] \in Seq(Batch)
      BY <1>4, Mapped DEF IInv
    <2>2. i \in DOMAIN queue[u] /\ Pending[u][i] = queue[u][i].w
      BY <2>1, NamesTyped
    <2>3. queue[u][i].w <= Len(author) /\ queue[u][i].w \in Nat
      BY <2>2, Queues DEF IInv, Numbered, Writes
    <2> QED
      BY <1>1, <1>4, <2>2, <2>3
  <1>6. told[w] = "nothing"
    BY <1>1, <1>4 DEF IInv, Unsaid
  <1>7. Pending' = [Pending EXCEPT ![user] = Append(@, w)]
    <2>1. b.w = w
      BY <1>2
    <2>2. Names(Append(queue[user], b)) = Append(Names(queue[user]), w)
      BY <1>3, <1>4, <2>1, NamesAppend
    <2>3. \A u \in Users : queue'[u] = IF u = user THEN Append(queue[user], b) ELSE queue[u]
      BY <1>3 DEF IInv, TypeOK
    <2> QED
      BY <1>4, <2>2, <2>3 DEF Pending
  <1>8. Unread' = Unread /\ UNCHANGED <<user, log, told>>
    BY <1>3 DEF Unread, Write
  <1>9. Abstract!Submit(w)
    BY <1>5, <1>6, <1>7, <1>8 DEF Abstract!Submit
  <1> QED
    BY <1>9 DEF Abstract!Next

\* The first queued write is dropped, and the app told or nobody.
LEMMA FinishedMapped ==
    ASSUME IInv, queue[user] # <<>>, NEW outcome, Finished(queue[user][1], outcome)
    PROVE  /\ Pending' = [Pending EXCEPT ![user] = Tail(@)] /\ Pending[user] # <<>>
           /\ told' \in {told, [told EXCEPT ![Head(Pending[user])] = outcome]}
  <1>1. /\ user \in Users /\ queue[user] \in Seq(Batch)
        /\ queue' = [queue EXCEPT ![user] = Tail(@)]
        /\ told' = Notified(queue[user][1].id, outcome)
    BY InvSound, FirstFinished, Queues DEF IInv
  <1>2. /\ Names(Tail(queue[user])) = Tail(Names(queue[user]))
        /\ Names(queue[user]) # <<>> /\ Head(Names(queue[user])) = queue[user][1].w
    BY <1>1, NamesTail
  <1>3. \A u \in Users : queue'[u] = IF u = user THEN Tail(queue[user]) ELSE queue[u]
    BY <1>1 DEF IInv, TypeOK
  <1>4. Pending' = [Pending EXCEPT ![user] = Tail(@)]
    <2>1. \A u \in Users : Names(queue'[u]) = IF u = user THEN Tail(Names(queue[user]))
                                                       ELSE Names(queue[u])
      BY <1>2, <1>3
    <2> QED
      BY <1>1, <2>1 DEF Pending
  <1>5. Pending[user] = Names(queue[user])
    BY <1>1 DEF Pending
  <1> QED
    BY <1>1, <1>2, <1>4, <1>5, NotifiedFirst

LEMMA AckMapped == ASSUME IInv, WriteAcknowledged PROVE Abstract!Next
  <1>1. queue[user] # <<>> /\ Finished(queue[user][1], "ok")
    BY InvSound, AckDoes
  <1>2. c'.in = Tail(c.in) /\ c'.shook /\ c.shook /\ c.in # <<>> /\ c.in \in Seq(Message)
    BY InvSound, AckSteady, Messages DEF WriteAcknowledged, IInv, TypeOK
  <1>3. Len(Tail(c.in)) = Len(c.in) - 1 /\ Len(c.in) \in Nat /\ Len(c.in) > 0
    BY <1>2, TailSeq, SeqTyped
  <1>4. Unread > 0 /\ Unread' = Unread - 1
    BY <1>2, <1>3 DEF Unread
  <1>5. UNCHANGED <<user, log>>
    BY DEF WriteAcknowledged
  <1>6. /\ Pending' = [Pending EXCEPT ![user] = Tail(@)]
        /\ told' \in {told, [told EXCEPT ![Head(Pending[user])] = "ok"]}
    BY <1>1, FinishedMapped
  <1>7. Abstract!Acknowledge
    BY <1>4, <1>5, <1>6 DEF Abstract!Acknowledge, Abstract!Drop, Abstract!Tell
  <1> QED
    BY <1>7 DEF Abstract!Next

LEMMA EndMapped ==
    ASSUME IInv, CallEnds, IsStarted(c)
    PROVE  Abstract!Next
  <1>1. /\ Anew(c', queue'[user])
        /\ \/ UNCHANGED <<queue, callbacks, told>>
           \/ queue[user] # <<>> /\ Finished(queue[user][1], "rejected")
    BY InvSound, EndSteady
  <1>2. UNCHANGED <<user, log>> /\ Unread' = 0 /\ Unread \in Nat
    BY <1>1, Mapped DEF CallEnds, Anew, Unread, IInv
  <1>3. CASE UNCHANGED <<queue, callbacks, told>>
    BY <1>2, <1>3, LoseMapped
  <1>4. CASE queue[user] # <<>> /\ Finished(queue[user][1], "rejected")
    <2>1. /\ Pending' = [Pending EXCEPT ![user] = Tail(@)] /\ Pending[user] # <<>>
          /\ told' \in {told, [told EXCEPT ![Head(Pending[user])] = "rejected"]}
      BY <1>4, FinishedMapped
    <2>2. Abstract!Reject
      BY <1>2, <2>1 DEF Abstract!Reject, Abstract!Drop, Abstract!Tell
    <2> QED
      BY <2>2 DEF Abstract!Next
  <1> QED
    BY <1>1, <1>3, <1>4

LEMMA AppliesMapped == ASSUME IInv, ServerApplies PROVE Abstract!Next
  <1>0. Sound /\ Taking /\ Head(c.out) # Hello
    BY InvSound DEF ServerApplies
  <1>1. /\ c.in \in Seq(Message) /\ c.out \in Seq(Message) /\ c.out # <<>>
        /\ c'.in = Append(c.in, Head(c.out)) /\ c'.shook = c.shook /\ Head(c.out) \in Message
    BY <1>0, TakingOpen, ServerSteady DEF ServerApplies
  <1>2. c.shook
    <2>1. ~c.shook => Head(c.out) = Head(<<Hello>>)
      BY <1>0, TakingOpen
    <2> QED
      BY <1>0, <2>1
  <1>3. PICK p : p = c.pipe
    OBVIOUS
  <1>4. PICK q \in Seq(Batch) : q = queue[user]
    BY Queues DEF IInv
  <1>5. c.in \o c.out = p /\ p = FrontOf(q)
    BY <1>0, <1>2, <1>3, <1>4, TakingOpen DEF IInv, Steady
  <1>6. /\ p[Len(c.in) + 1] = c.out[1] /\ Len(c.in) + 1 \in DOMAIN p
        /\ Head(c.out) = c.out[1]
    <2>1. p[Len(c.in) + 1] = c.out[1] /\ Len(c.in) + 1 \in DOMAIN p
      BY <1>1, <1>5, FirstBehind
    <2>2. Head(c.out) = c.out[1]
      BY <1>1, TailSeq
    <2> QED
      BY <2>1, <2>2
  <1>7. Len(c.in) + 1 \in DOMAIN q /\ p[Len(c.in) + 1] = q[Len(c.in) + 1]
    <2>1. PICK k : k = Len(c.in) + 1
      OBVIOUS
    <2>2. /\ Len(p) = IF Len(q) < MaxPending THEN Len(q) ELSE MaxPending
          /\ p \in Seq(Batch) /\ Len(q) \in Nat /\ DOMAIN q = 1..Len(q)
          /\ DOMAIN p = 1..Len(p) /\ Len(p) \in Nat
      BY <1>4, <1>5, FrontTyped, SeqTyped
    <2>3. p = SubSeq(q, 1, Len(p)) /\ Len(p) <= Len(q)
      BY <1>5, <2>2 DEF FrontOf
    <2>4. k \in 1..Len(p)
      BY <1>6, <2>1, <2>2
    <2>5. SubSeq(q, 1, Len(p))[k] = q[k]
      BY <2>2, <2>3, <2>4, SubSeqProperties
    <2> QED
      BY <2>1, <2>2, <2>3, <2>4, <2>5
  <1>8. Unread = Len(c.in) /\ Unread' = Unread + 1 /\ Unread \in Nat
    BY <1>1, <1>2, AppendSeq, SeqTyped DEF Unread
  <1>9. /\ Pending[user] = Names(q) /\ Len(Names(q)) = Len(q) /\ Len(q) \in Nat
        /\ DOMAIN q = 1..Len(q) /\ Names(q)[Len(c.in) + 1] = q[Len(c.in) + 1].w
    BY <1>4, <1>7, NamesTyped, SeqTyped, Mapped, Queues DEF IInv
  <1>10. Unread < Len(Pending[user]) /\ Pending[user][Unread + 1] = Head(c.out).w
    BY <1>6, <1>7, <1>8, <1>9
  <1>11. log' = Append(log, Head(c.out).w) /\ UNCHANGED <<Pending, user, told>>
    BY DEF ServerApplies, Pending
  <1>12. Abstract!Apply
    BY <1>8, <1>10, <1>11 DEF Abstract!Apply
  <1> QED
    BY <1>12 DEF Abstract!Next

LEMMA CredentialMapped ==
    ASSUME IInv, NEW u \in Users, CredentialChanges(u)
    PROVE  Abstract!Next
  <1>1. Unread' = 0
    BY CredentialStep DEF Anew, Unread
  <1>2. UNCHANGED <<Pending, log, told>> /\ user' \in Users
    BY DEF CredentialChanges, Pending
  <1>3. Abstract!ChangeUser
    BY <1>1, <1>2 DEF Abstract!ChangeUser
  <1> QED
    BY <1>3 DEF Abstract!Next

LEMMA CrashMapped ==
    ASSUME IInv, Crash \/ CrashWhileAcknowledging
    PROVE  Abstract!Next
  <1>1. /\ Reboot /\ Unread' = 0 /\ Unread \in Nat
        /\ UNCHANGED <<Pending, user, log>>
    BY RebootAnew, Mapped DEF Crash, CrashWhileAcknowledging, Anew, Unread, Pending, IInv
  <1>2. CASE Crash
    BY <1>1, <1>2 DEF Crash, Abstract!Lose, Abstract!Next
  <1>3. CASE CrashWhileAcknowledging
    <2>1. c.in # <<>> /\ c.shook /\ told' = Notified(Head(c.pipe).id, "ok")
      BY <1>3 DEF CrashWhileAcknowledging
    <2>2. /\ queue[user] # <<>> /\ Head(c.pipe) = queue[user][1]
          /\ Len(c.in) \in Nat /\ Len(c.in) > 0
      BY <2>1, ReplyOfFirst
    <2>3. told' \in {told, [told EXCEPT ![queue[user][1].w] = "ok"]}
      BY <2>1, <2>2, NotifiedFirst
    <2>4. Head(Pending[user]) = queue[user][1].w
      BY <2>2, NamesTail, Mapped, Queues DEF IInv
    <2>5. Unread > 0
      BY <2>1, <2>2 DEF Unread
    <2>6. Abstract!Lose
      BY <1>1, <2>3, <2>4, <2>5 DEF Abstract!Lose, Abstract!Tell
    <2> QED
      BY <2>6 DEF Abstract!Next
  <1> QED
    BY <1>2, <1>3

LEMMA StepMapped == IInv /\ [Next]_vars => [Abstract!Next]_(Abstract!vars)
  <1> SUFFICES ASSUME IInv, [Next]_vars PROVE [Abstract!Next]_(Abstract!vars)
    OBVIOUS
  <1>1. CASE Write
    BY <1>1, WriteMapped
  <1>2. CASE WriteAcknowledged
    BY <1>2, AckMapped
  <1>3. CASE StreamFinishes \/ WriteFails
    BY <1>3, EndedOpen, EndMapped
  <1>4. CASE \E u \in Users : CredentialChanges(u)
    BY <1>4, CredentialMapped
  <1>5. CASE Crash \/ CrashWhileAcknowledging
    BY <1>5, CrashMapped
  <1>6. CASE ServerApplies
    BY <1>6, AppliesMapped
  <1>7. CASE \/ TokenArrives \/ StaleTokenArrives \/ TokenFails \/ BackoffElapses
             \/ IdleTimerFires \/ HandshakeCompletes
             \/ ServerGreets \/ ServerRefuses \/ ConnectionBreaks
    BY <1>7, QuietMapped
  <1>8. CASE UNCHANGED vars
    BY <1>8 DEF vars, Abstract!vars, Pending, Unread
  <1> QED
    BY <1>1, <1>2, <1>3, <1>4, <1>5, <1>6, <1>7, <1>8 DEF Next, Client, Server

\* The write path is a WriteQueue: each user's writes are applied in order, at
\* least once, and not again once the answer has come back.
THEOREM Implements == Spec => Refines
  BY InitMapped, StepMapped, Invariance, PTL DEF Spec, Refines, Abstract!Spec
=============================================================================
