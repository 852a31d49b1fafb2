-------------------------- MODULE StreamQueueProofs --------------------------
(***************************************************************************)
(* The ring of nty_buffer.c is correct for every capacity and every set of *)
(* elements, as long as one thread produces: its assertion never fails,    *)
(* producer and consumer never meet in a slot, and it implements a FIFO.   *)
(*                                                                         *)
(* The second part is about what those rings pass between the threads: the *)
(* chunks of the memory pools that make up a connection (StreamPools).     *)
(* No chunk is in two places, the pools suffice for the streams of the     *)
(* table, and the table finds every stream, also when timers give up       *)
(* connections in use and calloc's fragments end up in the pool.           *)
(***************************************************************************)
EXTENDS StreamQueue, StreamPools, SequenceTheorems, FiniteSetTheorems,
        WellFoundedInduction, TLAPS

\* At most one thread calls StreamEnqueue on the queue.
SingleProducer == \A p, r \in Producers : p = r

\* How many advances of an index lead from slot a to slot b.
Dist(a, b) == IF a <= b THEN b - a ELSE b - a + Capacity + 1

\* What a producer knows inside StreamEnqueue.  Its copy of _head may be
\* stale, but _head only moved towards _tail since.
ProducerInv ==
    \A p \in Producers :
        /\ ppc[p] # "idle" => item[p] \in Elem
        /\ ppc[p] = "readTail" => Dist(head, tail) <= Dist(ph[p], tail)
        /\ ppc[p] \in {"store", "publish"} =>
             pt[p] = tail /\ NextIndex(tail) # head
        /\ ppc[p] = "publish" => q[tail] = item[p]

\* What the consumer knows inside StreamDequeue.
ConsumerInv ==
    /\ cpc # "idle" => ch = head
    /\ cpc \in {"load", "release"} => head # tail
    /\ cpc = "release" => stream = q[head]

\* The slots from _head up to _tail hold elements.
FilledInv == \A k \in Slot : Dist(head, k) < Dist(head, tail) => q[k] \in Elem

\* The inductive invariant of the ring.
RingInv == TypeOK /\ ProducerInv /\ ConsumerInv /\ FilledInv
-----------------------------------------------------------------------------
\* NextIndex stays inside the ring of Capacity + 1 slots.
LEMMA NextIndexType == \A i \in Slot : NextIndex(i) \in Slot
  BY CapacityAssumption DEF Slot, NextIndex

\* Every step of every thread keeps the fields of the ring in their types.
LEMMA TypeStep == TypeOK /\ [Next]_vars => TypeOK'
<1> SUFFICES ASSUME TypeOK, [Next]_vars PROVE TypeOK'
  OBVIOUS
<1>1. CASE Dequeue
  BY <1>1, NextIndexType
     DEF TypeOK, Dequeue, DequeueReadHead, DequeueReadTail, DequeueLoad,
         DequeueRelease, prodVars
<1>2. ASSUME NEW p \in Producers, Enqueue(p) PROVE TypeOK'
  <2>1. ASSUME NEW x \in Elem, EnqueueReadHead(p, x) PROVE TypeOK'
    BY <2>1 DEF TypeOK, EnqueueReadHead, consVars
  <2>2. CASE EnqueueReadTail(p)
    BY <2>2 DEF TypeOK, EnqueueReadTail, consVars
  <2>3. CASE EnqueueStore(p)
    BY <2>3 DEF TypeOK, EnqueueStore, consVars
  <2>4. CASE EnqueuePublish(p)
    BY <2>4, NextIndexType DEF TypeOK, EnqueuePublish, consVars
  <2> QED
    BY <1>2, <2>1, <2>2, <2>3, <2>4 DEF Enqueue
<1>3. CASE UNCHANGED vars
  BY <1>3 DEF TypeOK, vars, prodVars, consVars
<1> QED
  BY <1>1, <1>2, <1>3 DEF Next

\* Each index of the ring stays a slot number, whoever calls the queue.
THEOREM TypeCorrect == Spec => []TypeOK
<1>1. Init => TypeOK
  BY CapacityAssumption DEF Init, CreateStreamQueue, TypeOK, Slot
<1>2. TypeOK /\ [Next]_vars => TypeOK'
  BY TypeStep
<1> QED
  BY <1>1, <1>2, PTL DEF Spec
-----------------------------------------------------------------------------
(* Facts about the ring's index arithmetic.                                 *)

\* The distance from one slot to another is at most Capacity.
LEMMA DistType == \A a, b \in Slot : Dist(a, b) \in 0 .. Capacity
  BY CapacityAssumption DEF Slot, Dist

\* Only a slot is at distance 0 from itself: head = tail means empty.
LEMMA DistZero == \A a, b \in Slot : Dist(a, b) = 0 <=> a = b
  BY CapacityAssumption DEF Slot, Dist

\* Advancing the target adds one, unless it catches up with the source.
LEMMA DistNextTarget ==
    \A a, b \in Slot : NextIndex(b) # a => Dist(a, NextIndex(b)) = Dist(a, b) + 1
  BY CapacityAssumption DEF Slot, Dist, NextIndex

\* Advancing the source takes one off, unless it is at the target.
LEMMA DistNextSource ==
    \A a, b \in Slot : a # b => Dist(NextIndex(a), b) = Dist(a, b) - 1
  BY CapacityAssumption DEF Slot, Dist, NextIndex

\* The slot after b is as far away from b as a slot can be.
LEMMA DistFull ==
    \A a, b \in Slot : NextIndex(b) = a <=> Dist(a, b) = Capacity
  BY CapacityAssumption DEF Slot, Dist, NextIndex

\* Two slots at the same distance from a slot are the same slot.
LEMMA DistInjective ==
    \A a, b, c \in Slot : Dist(a, b) = Dist(a, c) => b = c
  BY CapacityAssumption DEF Slot, Dist
-----------------------------------------------------------------------------
\* The invariant is inductive when one thread produces.
THEOREM RingInductive ==
  ASSUME SingleProducer
  PROVE  Spec => []RingInv
<1>1. Init => RingInv
  BY CapacityAssumption, NullAssumption
     DEF Init, CreateStreamQueue, RingInv, TypeOK, Slot, ProducerInv,
         ConsumerInv, FilledInv, Dist
<1>2. RingInv /\ [Next]_vars => RingInv'
  <2> SUFFICES ASSUME RingInv, TypeOK', [Next]_vars
               PROVE  ProducerInv' /\ ConsumerInv' /\ FilledInv'
    BY TypeStep DEF RingInv
  <2> USE DEF RingInv
  <2>1. CASE DequeueReadHead
    BY <2>1 DEF DequeueReadHead, prodVars, TypeOK, ProducerInv, ConsumerInv,
                FilledInv
  <2>2. CASE DequeueReadTail
    BY <2>2 DEF DequeueReadTail, prodVars, TypeOK, ProducerInv, ConsumerInv,
                FilledInv
  <2>3. CASE DequeueLoad
    BY <2>3 DEF DequeueLoad, prodVars, TypeOK, ProducerInv, ConsumerInv,
                FilledInv
  <2>4. CASE DequeueRelease
    <3> USE <2>4 DEF DequeueRelease, prodVars
    <3>1. /\ head \in Slot /\ tail \in Slot /\ head # tail
          /\ head' = NextIndex(head) /\ tail' = tail /\ q' = q
          /\ ppc' = ppc /\ item' = item /\ ph' = ph /\ pt' = pt
      BY DEF TypeOK, ConsumerInv
    <3>2. Dist(head', tail') = Dist(head, tail) - 1
      BY <3>1, DistNextSource
    <3>3. ProducerInv'
      <4> SUFFICES ASSUME NEW p \in Producers
                   PROVE  /\ ppc[p] # "idle" => item[p] \in Elem
                          /\ ppc[p] = "readTail" =>
                               Dist(head', tail) <= Dist(ph[p], tail)
                          /\ ppc[p] \in {"store", "publish"} =>
                               pt[p] = tail /\ NextIndex(tail) # head'
                          /\ ppc[p] = "publish" => q[tail] = item[p]
        BY <3>1 DEF ProducerInv
      <4>1. /\ Dist(head, tail) \in Int /\ Dist(ph[p], tail) \in Int
            /\ Dist(head, tail) \in 0 .. Capacity
        BY <3>1, DistType, CapacityAssumption DEF TypeOK
      <4>2. NextIndex(tail) # head'
        BY <3>1, <3>2, <4>1, NextIndexType, DistFull, CapacityAssumption
      <4> QED
        BY <3>1, <3>2, <4>1, <4>2 DEF ProducerInv
    <3>4. ConsumerInv'
      BY DEF ConsumerInv
    <3>5. FilledInv'
      <4> SUFFICES ASSUME NEW k \in Slot, Dist(head', k) < Dist(head', tail)
                   PROVE  q[k] \in Elem
        BY <3>1 DEF FilledInv
      <4>1. CASE k = head
        <5>1. Dist(head', head) = Capacity
          BY <3>1, NextIndexType, DistFull
        <5>2. Dist(head', tail) \in 0 .. Capacity
          BY <3>1, NextIndexType, DistType
        <5> QED
          BY <4>1, <5>1, <5>2, CapacityAssumption
      <4>2. CASE k # head
        <5>1. Dist(head', k) = Dist(head, k) - 1
          BY <3>1, <4>2, DistNextSource
        <5>2. Dist(head, k) \in Int /\ Dist(head, tail) \in Int
          BY <3>1, DistType, CapacityAssumption
        <5>3. Dist(head, k) < Dist(head, tail)
          BY <3>1, <3>2, <5>1, <5>2
        <5> QED
          BY <5>3 DEF FilledInv
      <4> QED
        BY <4>1, <4>2
    <3> QED
      BY <3>3, <3>4, <3>5
  <2>5. ASSUME NEW p \in Producers, NEW x \in Elem, EnqueueReadHead(p, x)
        PROVE  ProducerInv' /\ ConsumerInv' /\ FilledInv'
    <3>1. Dist(head, tail) \in Int
      BY DistType, CapacityAssumption DEF TypeOK
    <3>2. \A r \in Producers : r = p
      BY SingleProducer DEF SingleProducer
    <3> QED
      BY <2>5, <3>1, <3>2 DEF EnqueueReadHead, consVars, TypeOK, ProducerInv,
                        ConsumerInv, FilledInv
  <2>6. ASSUME NEW p \in Producers, EnqueueReadTail(p)
        PROVE  ProducerInv' /\ ConsumerInv' /\ FilledInv'
    <3> USE <2>6 DEF EnqueueReadTail, consVars
    <3>1. ASSUME NextIndex(tail) # ph[p] PROVE NextIndex(tail) # head
      <4>1. head \in Slot /\ tail \in Slot /\ ph[p] \in Slot
        BY DEF TypeOK
      <4>2. Dist(head, tail) <= Dist(ph[p], tail)
        BY DEF ProducerInv
      <4>3. Dist(head, tail) \in 0 .. Capacity /\ Dist(ph[p], tail) \in 0 .. Capacity
        BY <4>1, DistType
      <4> QED
        BY <3>1, <4>1, <4>2, <4>3, DistFull, CapacityAssumption
    <3>2. \A r \in Producers : r = p
      BY SingleProducer DEF SingleProducer
    <3>3. ProducerInv'
      BY <3>1, <3>2 DEF TypeOK, ProducerInv
    <3> QED
      BY <3>3 DEF TypeOK, ConsumerInv, FilledInv
  <2>7. ASSUME NEW p \in Producers, EnqueueStore(p)
        PROVE  ProducerInv' /\ ConsumerInv' /\ FilledInv'
    <3> USE <2>7 DEF EnqueueStore, consVars
    <3>1. \A r \in Producers : r = p
      BY SingleProducer DEF SingleProducer
    <3>2. pt[p] = tail /\ tail \in Slot /\ head \in Slot /\ item[p] \in Elem
      BY DEF TypeOK, ProducerInv
    <3>3. q' = [q EXCEPT ![tail] = item[p]] /\ q'[tail] = item[p]
      BY <3>2 DEF TypeOK
    <3>4. \A k \in Slot : k # tail => q'[k] = q[k]
      BY <3>3 DEF TypeOK
    <3>5. ProducerInv'
      BY <3>1, <3>2, <3>3 DEF TypeOK, ProducerInv
    <3>6. ConsumerInv'
      BY <3>2, <3>4 DEF ConsumerInv
    <3>7. FilledInv'
      BY <3>2, <3>3, <3>4 DEF FilledInv
    <3> QED
      BY <3>5, <3>6, <3>7
  <2>8. ASSUME NEW p \in Producers, EnqueuePublish(p)
        PROVE  ProducerInv' /\ ConsumerInv' /\ FilledInv'
    <3> USE <2>8 DEF EnqueuePublish, consVars
    <3>1. \A r \in Producers : r = p
      BY SingleProducer DEF SingleProducer
    <3>2. /\ pt[p] = tail /\ tail \in Slot /\ head \in Slot
          /\ NextIndex(tail) # head /\ q[tail] \in Elem
      BY DEF TypeOK, ProducerInv
    <3>3. Dist(head, tail') = Dist(head, tail) + 1
      BY <3>2, DistNextTarget
    <3>4. ProducerInv'
      BY <3>1 DEF TypeOK, ProducerInv
    <3>5. ConsumerInv'
      BY <3>2 DEF ConsumerInv
    <3>6. FilledInv'
      <4> SUFFICES ASSUME NEW k \in Slot, Dist(head, k) < Dist(head, tail) + 1
                   PROVE  q[k] \in Elem
        BY <3>3 DEF FilledInv
      <4>1. Dist(head, k) \in Int /\ Dist(head, tail) \in Int
        BY <3>2, DistType, CapacityAssumption
      <4>2. Dist(head, k) < Dist(head, tail) \/ Dist(head, k) = Dist(head, tail)
        BY <4>1
      <4> QED
        BY <3>2, <4>2, DistInjective DEF FilledInv
    <3> QED
      BY <3>4, <3>5, <3>6
  <2>9. CASE UNCHANGED vars
    BY <2>9 DEF vars, prodVars, consVars, ProducerInv, ConsumerInv, FilledInv
  <2> QED
    BY <2>1, <2>2, <2>3, <2>4, <2>5, <2>6, <2>7, <2>8, <2>9
       DEF Next, Dequeue, Enqueue
<1> QED
  BY <1>1, <1>2, PTL DEF Spec

\* StreamDequeue's assert(stream) never fails, for every capacity.
THEOREM AssertStreamHolds ==
  ASSUME SingleProducer
  PROVE  Spec => []AssertStream
<1>1. RingInv => AssertStream
  <2> SUFFICES ASSUME RingInv, cpc = "release" PROVE stream # NULL
    BY DEF AssertStream
  <2>1. head \in Slot /\ tail \in Slot /\ head # tail /\ stream = q[head]
    BY DEF RingInv, TypeOK, ConsumerInv
  <2>2. Dist(head, head) = 0 /\ Dist(head, tail) # 0
    BY <2>1, DistZero
  <2>3. Dist(head, head) < Dist(head, tail)
    BY <2>1, <2>2, DistType, CapacityAssumption
  <2> QED
    BY <2>1, <2>3, NullAssumption DEF RingInv, FilledInv
<1> QED
  BY <1>1, RingInductive, PTL

\* The producer never stores to the slot the consumer is reading.
THEOREM NoOverrunHolds ==
  ASSUME SingleProducer
  PROVE  Spec => []NoOverrun
<1>1. RingInv => NoOverrun
  BY DEF RingInv, ProducerInv, ConsumerInv, NoOverrun
<1> QED
  BY <1>1, RingInductive, PTL
-----------------------------------------------------------------------------
(* The ring implements the FIFO.                                            *)

\* The slots of the FIFO's elements, in order.
LEMMA SlotOfIndex ==
  ASSUME head \in Slot
  PROVE  \A i \in 1 .. Capacity + 1 :
            SlotOf(i) \in Slot /\ Dist(head, SlotOf(i)) = i - 1
  BY CapacityAssumption DEF Slot, SlotOf, Dist

\* The number of elements is the distance from head to tail.
LEMMA CountIsDist == Count = Dist(head, tail)
  BY DEF Count, Dist

\* The slots from head to tail, read in order, are a queue of Count elements.
LEMMA FifoType ==
  ASSUME RingInv
  PROVE  /\ Count \in 0 .. Capacity
         /\ fifo \in Seq(Elem)
         /\ Len(fifo) = Count
<1>1. head \in Slot /\ tail \in Slot
  BY DEF RingInv, TypeOK
<1>2. Count \in 0 .. Capacity
  BY <1>1, CountIsDist, DistType
<1>3. \A i \in 1 .. Count : q[SlotOf(i)] \in Elem
  <2> SUFFICES ASSUME NEW i \in 1 .. Count PROVE q[SlotOf(i)] \in Elem
    OBVIOUS
  <2>1. i \in 1 .. Capacity + 1 /\ i - 1 < Count
    BY <1>2, CapacityAssumption
  <2> QED
    BY <1>1, <2>1, SlotOfIndex, CountIsDist DEF RingInv, FilledInv
<1>4. fifo \in [1 .. Count -> Elem]
  BY <1>3 DEF fifo
<1> QED
  BY <1>2, <1>4, CapacityAssumption

\* Publishing the stored element puts it.
LEMMA PublishPuts ==
  ASSUME RingInv, NEW p \in Producers, EnqueuePublish(p)
  PROVE  Abstract!Put(item[p])
<1>1. /\ pt[p] = tail /\ tail \in Slot /\ head \in Slot
      /\ NextIndex(tail) # head /\ q[tail] = item[p]
      /\ head' = head /\ q' = q /\ tail' = NextIndex(tail) /\ got' = got
  BY DEF EnqueuePublish, consVars, RingInv, TypeOK, ProducerInv
<1>2. Count' = Count + 1
  BY <1>1, DistNextTarget DEF Count, Dist
<1>3. Count \in 0 .. Capacity /\ Count # Capacity
  BY <1>1, FifoType, CountIsDist, DistFull
<1>4. SlotOf(Count + 1) = tail
  <2>1. Count + 1 \in 1 .. Capacity + 1
    BY <1>3, CapacityAssumption
  <2>2. SlotOf(Count + 1) \in Slot /\ Dist(head, SlotOf(Count + 1)) = Dist(head, tail)
    BY <1>1, <1>3, <2>1, SlotOfIndex, CountIsDist, CapacityAssumption
  <2> QED
    BY <1>1, <2>2, DistInjective
<1>5. fifo' = [i \in 1 .. Count + 1 |-> q[SlotOf(i)]]
  BY <1>1, <1>2 DEF fifo, SlotOf
<1>6. fifo' = Append(fifo, item[p])
  <2>1. \A i \in 1 .. Count + 1 :
           q[SlotOf(i)] = IF i <= Count THEN fifo[i] ELSE item[p]
    BY <1>1, <1>3, <1>4, CapacityAssumption DEF fifo
  <2>2. Append(fifo, item[p]) =
          [i \in 1 .. Count + 1 |-> IF i <= Count THEN fifo[i] ELSE item[p]]
    BY <1>3, FifoType, CapacityAssumption
  <2> QED
    BY <1>5, <2>1, <2>2
<1> QED
  BY <1>1, <1>3, <1>6, FifoType, CapacityAssumption DEF Abstract!Put

\* Releasing the loaded slot takes the element that StreamDequeue returns.
LEMMA ReleaseTakes ==
  ASSUME RingInv, DequeueRelease
  PROVE  Abstract!Take
<1>1. /\ ch = head /\ tail \in Slot /\ head \in Slot /\ head # tail
      /\ stream = q[head]
      /\ head' = NextIndex(head) /\ q' = q /\ tail' = tail /\ got' = stream
  BY DEF DequeueRelease, prodVars, RingInv, TypeOK, ConsumerInv
<1>2. Count' = Count - 1
  BY <1>1, DistNextSource DEF Count, Dist
<1>3. Count \in 1 .. Capacity
  BY <1>1, FifoType, CountIsDist, DistZero, CapacityAssumption
<1>4. SlotOf(1) = head
  BY <1>1, CapacityAssumption DEF SlotOf, Slot
<1>5. \A i \in 1 .. Count - 1 : SlotOf(i)' = SlotOf(i + 1)
  BY <1>1, <1>3, CapacityAssumption DEF SlotOf, Slot, NextIndex
<1>6. fifo' = [i \in 1 .. Count - 1 |-> q[SlotOf(i + 1)]]
  BY <1>1, <1>2, <1>5 DEF fifo
<1>7. fifo' = Tail(fifo)
  <2>1. /\ Tail(fifo) \in [1 .. Count - 1 -> Elem]
        /\ \A i \in 1 .. Count - 1 : Tail(fifo)[i] = fifo[i + 1]
    <3>1. fifo \in Seq(Elem) /\ fifo # << >> /\ Len(fifo) = Count
      BY <1>3, FifoType, CapacityAssumption
    <3>2. /\ Tail(fifo) \in Seq(Elem) /\ Len(Tail(fifo)) = Count - 1
          /\ \A i \in 1 .. Count - 1 : Tail(fifo)[i] = fifo[i + 1]
      BY <3>1, HeadTailProperties
    <3> QED
      BY <3>2, LenProperties
  <2>2. \A i \in 1 .. Count - 1 : fifo[i + 1] = q[SlotOf(i + 1)]
    BY <1>3, CapacityAssumption DEF fifo
  <2> QED
    BY <1>6, <2>1, <2>2
<1>8. fifo # << >> /\ Head(fifo) = q[head]
  BY <1>3, <1>4, FifoType, CapacityAssumption DEF fifo
<1> QED
  BY <1>1, <1>7, <1>8 DEF Abstract!Take

\* Storing to the slot at _tail is invisible until it is published.
LEMMA StoreIsInvisible ==
  ASSUME RingInv, NEW p \in Producers, EnqueueStore(p)
  PROVE  fifo' = fifo /\ got' = got
<1>1. /\ pt[p] = tail /\ tail \in Slot /\ head \in Slot
      /\ head' = head /\ tail' = tail /\ got' = got
      /\ q \in [Slot -> Elem \cup {NULL}] /\ q' = [q EXCEPT ![tail] = item[p]]
  BY DEF EnqueueStore, consVars, RingInv, TypeOK, ProducerInv
<1>2. \A i \in 1 .. Count : SlotOf(i) \in Slot /\ SlotOf(i) # tail
  <2> SUFFICES ASSUME NEW i \in 1 .. Count
               PROVE  SlotOf(i) \in Slot /\ SlotOf(i) # tail
    OBVIOUS
  <2>1. i \in 1 .. Capacity + 1 /\ i - 1 # Count
    BY FifoType, CapacityAssumption
  <2> QED
    BY <1>1, <2>1, SlotOfIndex, CountIsDist
<1>3. \A i \in 1 .. Count : q'[SlotOf(i)] = q[SlotOf(i)]
  BY <1>1, <1>2
<1>4. Count' = Count /\ \A i \in 1 .. Count : SlotOf(i)' = SlotOf(i)
  BY <1>1 DEF Count, SlotOf
<1> QED
  BY <1>1, <1>3, <1>4 DEF fifo

\* The ring implements a FIFO of Capacity elements, for every capacity.
THEOREM RingImplementsFifo ==
  ASSUME SingleProducer
  PROVE  Spec => ImplementsFifo
<1>1. Init => Abstract!Init
  BY DEF Init, CreateStreamQueue, Abstract!Init, fifo, Count
<1>2. RingInv /\ [Next]_vars => [Abstract!Next]_<<fifo, got>>
  <2> SUFFICES ASSUME RingInv, [Next]_vars
               PROVE  [Abstract!Next]_<<fifo, got>>
    OBVIOUS
  <2>1. CASE DequeueReadHead \/ DequeueReadTail \/ DequeueLoad
    BY <2>1 DEF DequeueReadHead, DequeueReadTail, DequeueLoad, fifo, Count,
                SlotOf
  <2>2. CASE DequeueRelease
    BY <2>2, ReleaseTakes DEF Abstract!Next
  <2>3. ASSUME NEW p \in Producers,
               EnqueueReadTail(p) \/ \E x \in Elem : EnqueueReadHead(p, x)
        PROVE  fifo' = fifo /\ got' = got
    BY <2>3 DEF EnqueueReadTail, EnqueueReadHead, consVars, fifo, Count,
                SlotOf
  <2>4. ASSUME NEW p \in Producers, EnqueueStore(p)
        PROVE  fifo' = fifo /\ got' = got
    BY <2>4, StoreIsInvisible
  <2>5. ASSUME NEW p \in Producers, EnqueuePublish(p)
        PROVE  Abstract!Next
    <3>1. item[p] \in Elem
      BY <2>5 DEF EnqueuePublish, RingInv, ProducerInv
    <3> QED
      BY <2>5, <3>1, PublishPuts DEF Abstract!Next
  <2>6. CASE UNCHANGED vars
    BY <2>6 DEF vars, consVars, fifo, Count, SlotOf
  <2> QED
    BY <2>1, <2>2, <2>3, <2>4, <2>5, <2>6 DEF Next, Dequeue, Enqueue
<1> QED
  BY <1>1, <1>2, RingInductive, PTL DEF Spec, ImplementsFifo, Abstract!Spec

-----------------------------------------------------------------------------
(* A pool of n chunks.                                                      *)

Headers(n) == [mc_free_chunks : Nat, next : (0 .. n - 1) \cup {None}]

\* the records of a pool of n chunks
PoolsOf(n) ==
    [header : [0 .. n - 1 -> Headers(n)], mp_freeptr : (0 .. n - 1) \cup {None},
     mp_free_chunks : Nat]

\* the chunks of the run that begins at p
Run(m, p) == p .. p + m.header[p].mc_free_chunks - 1

\* starts are the first chunks of the runs of the free list, in its order: the
\* runs are disjoint, and all that is not in U is in one of them.
Chain(m, n, starts, U) ==
    /\ starts \in Seq(0 .. n - 1)
    /\ m.mp_freeptr = IF Len(starts) = 0 THEN None ELSE starts[1]
    /\ \A i \in 1 .. Len(starts) :
          /\ m.header[starts[i]].mc_free_chunks > 0
          /\ m.header[starts[i]].next =
                IF i = Len(starts) THEN None ELSE starts[i + 1]
          /\ Run(m, starts[i]) \subseteq (0 .. n - 1) \ U
    /\ \A i, j \in 1 .. Len(starts) :
          \A c \in Run(m, starts[i]) : c \in Run(m, starts[j]) => i = j
    /\ \A c \in (0 .. n - 1) \ U :
          \E i \in 1 .. Len(starts) : c \in Run(m, starts[i])

\* a pool of which the chunks U are in use
GoodPool(m, n, U) ==
    /\ m \in PoolsOf(n)
    /\ U \subseteq 0 .. n - 1
    /\ m.mp_free_chunks = n - Cardinality(U)
    /\ \E starts : Chain(m, n, starts, U)

\* Counting chunks: fewer in use than there are leaves one free.
LEMMA PoolNumbers ==
    ASSUME NEW n \in Nat \ {0}, NEW U, U \subseteq 0 .. n - 1
    PROVE  /\ IsFiniteSet(U) /\ Cardinality(U) \in Nat /\ Cardinality(U) <= n
           /\ Cardinality(U) < n => \E c \in 0 .. n - 1 : c \notin U
           /\ Cardinality(U) = n => U = 0 .. n - 1
<1>1. IsFiniteSet(0 .. n - 1) /\ Cardinality(0 .. n - 1) = n
  BY FS_Interval
<1>2. /\ IsFiniteSet(U) /\ Cardinality(U) <= n
      /\ Cardinality(0 .. n - 1) = Cardinality(U) => 0 .. n - 1 = U
  BY <1>1, FS_Subset
<1>3. Cardinality(U) \in Nat
  BY <1>2, FS_CardinalityType
<1>4. Cardinality(U) < n => \E c \in 0 .. n - 1 : c \notin U
  <2> SUFFICES ASSUME Cardinality(U) < n, \A c \in 0 .. n - 1 : c \in U PROVE FALSE
    OBVIOUS
  <2>1. U = 0 .. n - 1
    OBVIOUS
  <2> QED
    BY <1>1, <2>1
<1> QED
  BY <1>1, <1>2, <1>3, <1>4

\* A new pool is one run of all its chunks; what it does not have is in use.
LEMMA PoolCreated ==
    ASSUME NEW n \in Nat \ {0}, NEW h \in Nat
    PROVE  GoodPool(nty_mempool_create(n, 0 .. n + h - 1), n + h, n .. n + h - 1)
<1> DEFINE m == nty_mempool_create(n, 0 .. n + h - 1)
           U == n .. n + h - 1
           c == n + h
<1>1. /\ m.header \in [0 .. c - 1 -> Headers(c)]
      /\ m.mp_freeptr = 0 /\ m.mp_free_chunks = n
      /\ m.header[0] = [mc_free_chunks |-> n, next |-> None]
  BY DEF nty_mempool_create, Headers, Overwritten
<1>2. m \in PoolsOf(c)
  BY <1>1 DEF nty_mempool_create, PoolsOf, Headers, Overwritten
<1> HIDE DEF m
<1>3. /\ <<0>> \in Seq(0 .. c - 1) /\ Len(<<0>>) = 1 /\ <<0>>[1] = 0
      /\ Run(m, 0) = 0 .. n - 1
  BY <1>1 DEF Run
<1>4. (0 .. c - 1) \ U = 0 .. n - 1 /\ U \subseteq 0 .. c - 1
  OBVIOUS
<1>5. Chain(m, c, <<0>>, U)
  BY <1>1, <1>3, <1>4 DEF Chain
<1>6. Cardinality(U) = h
  BY FS_Interval
<1>7. m.mp_free_chunks = c - Cardinality(U)
  BY <1>1, <1>6
<1> HIDE DEF U, c
<1>8. GoodPool(m, c, U)
  BY <1>2, <1>4, <1>5, <1>7 DEF GoodPool
<1> QED
  BY <1>8 DEF m, U, c

\* The same without anything it does not have.
LEMMA PoolFull ==
    ASSUME NEW n \in Nat \ {0}
    PROVE  GoodPool(nty_mempool_create(n, 0 .. n - 1), n, {})
<1>1. GoodPool(nty_mempool_create(n, 0 .. n + 0 - 1), n + 0, n .. n + 0 - 1)
  BY PoolCreated
<1>2. n + 0 - 1 = n - 1 /\ n + 0 = n /\ n .. n - 1 = {}
  OBVIOUS
<1> QED
  BY <1>1, <1>2

\* What is allocated was free, and is in use afterwards.
LEMMA PoolAlloc ==
    ASSUME NEW n \in Nat \ {0}, NEW m, NEW U, GoodPool(m, n, U), CanAlloc(m)
    PROVE  /\ Allocated(m) \in (0 .. n - 1) \ U
           /\ GoodPool(nty_mempool_alloc(m), n, U \cup {Allocated(m)})
<1> DEFINE p == m.mp_freeptr
           h == m.header
           left == h[p].mc_free_chunks - 1
           rest == [mc_free_chunks |-> left, next |-> h[p].next]
           g == IF left > 0 THEN [h EXCEPT ![p] = Overwritten, ![p + 1] = rest]
                ELSE [h EXCEPT ![p] = Overwritten]
           fp == IF left > 0 THEN p + 1 ELSE h[p].next
           r == nty_mempool_alloc(m)
<1>1. /\ r = [header |-> g, mp_freeptr |-> fp, mp_free_chunks |-> m.mp_free_chunks - 1]
      /\ Allocated(m) = p
  BY DEF nty_mempool_alloc, Allocated
<1>2. /\ h \in [0 .. n - 1 -> Headers(n)] /\ m.mp_free_chunks \in Nat
      /\ m.mp_free_chunks > 0 /\ m.mp_free_chunks = n - Cardinality(U)
      /\ U \subseteq 0 .. n - 1
  BY DEF GoodPool, PoolsOf, CanAlloc
<1>3. /\ IsFiniteSet(U) /\ Cardinality(U) \in Nat
      /\ Cardinality(U) < n => \E c \in 0 .. n - 1 : c \notin U
  BY <1>2, PoolNumbers
<1>4. PICK c \in 0 .. n - 1 : c \notin U
  BY <1>2, <1>3
<1>5. PICK s : Chain(m, n, s, U)
  BY DEF GoodPool
<1>6. s \in Seq(0 .. n - 1) /\ Len(s) \in Nat /\ Len(s) >= 1
  <2>1. s \in Seq(0 .. n - 1) /\ Len(s) \in Nat
    BY <1>5, LenProperties DEF Chain
  <2>2. \E i \in 1 .. Len(s) : c \in Run(m, s[i])
    BY <1>4, <1>5 DEF Chain
  <2> QED
    BY <2>1, <2>2
<1>7. \A i \in 1 .. Len(s) : s[i] \in 0 .. n - 1
  BY <1>6, ElementOfSeq
<1>8. p = s[1] /\ p \in 0 .. n - 1
  BY <1>5, <1>6, <1>7 DEF Chain
<1>9. \A i \in 1 .. Len(s) :
         /\ h[s[i]] \in Headers(n) /\ h[s[i]].mc_free_chunks \in Nat
         /\ h[s[i]].mc_free_chunks > 0
         /\ h[s[i]].next = IF i = Len(s) THEN None ELSE s[i + 1]
         /\ Run(m, s[i]) \subseteq (0 .. n - 1) \ U
         /\ s[i] \in Run(m, s[i])
  BY <1>2, <1>5, <1>7, SMTT(20) DEF Chain, Headers, Run
<1>10. /\ left \in Nat /\ p \in Run(m, p) /\ p \notin U
       /\ left > 0 => p + 1 \in Run(m, p) /\ p + 1 \in 0 .. n - 1
  <2>1. /\ h[p].mc_free_chunks \in Nat /\ h[p].mc_free_chunks > 0
        /\ Run(m, p) \subseteq (0 .. n - 1) \ U /\ p \in Run(m, p)
    BY <1>6, <1>8, <1>9
  <2>2. left > 0 => p + 1 \in Run(m, p)
    BY <1>8, <2>1 DEF Run
  <2> QED
    BY <2>1, <2>2
<1>21. /\ \A i, j \in 1 .. Len(s) : \A x \in Run(m, s[i]) : x \in Run(m, s[j]) => i = j
       /\ \A x \in (0 .. n - 1) \ U : \E i \in 1 .. Len(s) : x \in Run(m, s[i])
  BY <1>5 DEF Chain
<1>23. Len(s) \in Nat /\ Len(s) >= 1
  BY <1>6
<1>22. 1 \in 1 .. Len(s) /\ \A i \in 2 .. Len(s) : i \in 1 .. Len(s) /\ i # 1
  BY <1>6
<1>11. rest \in Headers(n) /\ Overwritten \in Headers(n)
  BY <1>2, <1>8, <1>10 DEF Headers, Overwritten
<1>12. g \in [0 .. n - 1 -> Headers(n)]
  BY <1>2, <1>11
<1>13. /\ left > 0 => g[p + 1] = rest
       /\ \A a \in 0 .. n - 1 : a # p /\ (left > 0 => a # p + 1) => g[a] = h[a]
  BY <1>2, <1>10
<1>14. \A i \in 2 .. Len(s) : s[i] # p /\ (left > 0 => s[i] # p + 1)
  <2> SUFFICES ASSUME NEW i \in 2 .. Len(s) PROVE s[i] # p /\ (left > 0 => s[i] # p + 1)
    OBVIOUS
  <2>1. i \in 1 .. Len(s) /\ 1 \in 1 .. Len(s) /\ i # 1
    BY <1>6
  <2>2. s[i] \notin Run(m, s[1])
    BY <1>9, <1>21, <2>1
  <2> QED
    BY <1>8, <1>10, <2>2
<1> DEFINE V == U \cup {p}
<1>15. ASSUME left > 0 PROVE \E t : Chain(r, n, t, V)
  <2> DEFINE t == [s EXCEPT ![1] = p + 1]
  <2>1. /\ t \in Seq(0 .. n - 1) /\ Len(t) = Len(s) /\ t[1] = p + 1
        /\ \A i \in 2 .. Len(s) : t[i] = s[i]
    BY <1>6, <1>10, <1>15
  <2> HIDE DEF t
  <2>2. r.header = g /\ r.mp_freeptr = p + 1
    BY <1>1, <1>15
  <2>3. /\ r.header[t[1]] = rest
        /\ \A i \in 2 .. Len(s) : r.header[t[i]] = h[s[i]]
    BY <1>7, <1>13, <1>14, <1>15, <2>1, <2>2
  <2>4. /\ Run(r, t[1]) = Run(m, s[1]) \ {p}
        /\ \A i \in 2 .. Len(s) : Run(r, t[i]) = Run(m, s[i])
    <3>1. \A i \in 2 .. Len(s) : Run(r, t[i]) = Run(m, s[i])
      BY <2>1, <2>3 DEF Run
    <3>2. rest.mc_free_chunks = h[p].mc_free_chunks - 1
      OBVIOUS
    <3>3. Run(r, t[1]) = p + 1 .. p + 1 + (h[p].mc_free_chunks - 1) - 1
      BY <2>1, <2>3, <3>2 DEF Run
    <3>4. Run(m, s[1]) = p .. p + h[p].mc_free_chunks - 1
      BY <1>8 DEF Run
    <3>5. h[p].mc_free_chunks \in Nat
      BY <1>8, <1>9, <1>22
    <3>6. p \in Nat
      BY <1>8
    <3> HIDE DEF p, h
    <3>7. (p + 1 .. p + 1 + (h[p].mc_free_chunks - 1) - 1) = (p .. p + h[p].mc_free_chunks - 1) \ {p}
      BY <3>5, <3>6
    <3> QED
      BY <3>1, <3>3, <3>4, <3>7
  <2>5. \A i \in 1 .. Len(s) : i = 1 \/ i \in 2 .. Len(s)
    BY <1>6
  <2>6. \A i \in 2 .. Len(s) : p \notin Run(m, s[i])
    BY <1>8, <1>10, <1>21, <1>22
  <2>7. /\ r.mp_freeptr = IF Len(t) = 0 THEN None ELSE t[1]
        /\ \A i \in 1 .. Len(t) :
              /\ r.header[t[i]].mc_free_chunks > 0
              /\ r.header[t[i]].next = IF i = Len(t) THEN None ELSE t[i + 1]
    <3>1. r.mp_freeptr = IF Len(t) = 0 THEN None ELSE t[1]
      BY <1>6, <2>1, <2>2
    <3>2. ASSUME NEW i \in 2 .. Len(s)
          PROVE  /\ r.header[t[i]].mc_free_chunks > 0
                 /\ r.header[t[i]].next = IF i = Len(t) THEN None ELSE t[i + 1]
      <4>1. i \in 1 .. Len(s) /\ (i # Len(s) => i + 1 \in 2 .. Len(s))
        BY <1>6
      <4> QED
        BY <1>9, <2>1, <2>3, <4>1
    <3>3. /\ r.header[t[1]].mc_free_chunks > 0
          /\ r.header[t[1]].next = IF 1 = Len(t) THEN None ELSE t[1 + 1]
      <4> DEFINE L == Len(s)
      <4>3. L \in Nat /\ L >= 1
        BY <1>23
      <4> HIDE DEF L
      <4>4. L # 1 => 2 \in 2 .. L
        BY <4>3
      <4>1. 1 + 1 = 2 /\ (Len(s) # 1 => 2 \in 2 .. Len(s))
        BY <4>4 DEF L
      <4>2. rest.mc_free_chunks = left /\ rest.next = h[s[1]].next
        BY <1>8
      <4> QED
        BY <1>9, <1>15, <1>22, <2>1, <2>3, <4>1, <4>2
    <3> QED
      BY <2>1, <2>5, <3>1, <3>2, <3>3
  <2>8. \A i \in 1 .. Len(s) :
           /\ Run(r, t[i]) = Run(m, s[i]) \ {p}
           /\ Run(r, t[i]) \subseteq (0 .. n - 1) \ V
    <3>1. \A i \in 1 .. Len(s) : Run(r, t[i]) = Run(m, s[i]) \ {p}
      BY <2>4, <2>5, <2>6
    <3> QED
      BY <1>9, <3>1
  <2>9. \A i, j \in 1 .. Len(t) : \A x \in Run(r, t[i]) : x \in Run(r, t[j]) => i = j
    <3> SUFFICES ASSUME NEW i \in 1 .. Len(s), NEW j \in 1 .. Len(s),
                        NEW x \in Run(r, t[i]), x \in Run(r, t[j])
                 PROVE  i = j
      BY <2>1
    <3>1. x \in Run(m, s[i]) /\ x \in Run(m, s[j])
      BY <2>8
    <3> QED
      BY <1>21, <3>1
  <2>10. \A x \in (0 .. n - 1) \ V : \E i \in 1 .. Len(t) : x \in Run(r, t[i])
    <3> SUFFICES ASSUME NEW x \in (0 .. n - 1) \ V
                 PROVE  \E i \in 1 .. Len(t) : x \in Run(r, t[i])
      OBVIOUS
    <3>1. PICK i \in 1 .. Len(s) : x \in Run(m, s[i])
      BY <1>21
    <3> QED
      BY <2>1, <2>8, <3>1
  <2> HIDE DEF V, g
  <2> QED
    BY <2>1, <2>7, <2>8, <2>9, <2>10 DEF Chain
<1>16. ASSUME ~ left > 0 PROVE \E t : Chain(r, n, t, V)
  <2> DEFINE t == Tail(s)
  <2>1. /\ t \in Seq(0 .. n - 1) /\ Len(t) = Len(s) - 1
        /\ \A i \in 1 .. Len(t) : t[i] = s[i + 1]
    <3>1. s # << >>
      BY <1>6
    <3> QED
      BY <1>6, <3>1, HeadTailProperties
  <2> HIDE DEF t
  <2>2. r.header = g /\ r.mp_freeptr = h[p].next
    BY <1>1, <1>16
  <2>3. \A i \in 1 .. Len(t) : i + 1 \in 2 .. Len(s) /\ i + 1 \in 1 .. Len(s)
    BY <1>6, <2>1
  <2>4. \A i \in 1 .. Len(t) : r.header[t[i]] = h[s[i + 1]]
    BY <1>7, <1>13, <1>14, <1>16, <2>1, <2>2, <2>3
  <2>5. \A i \in 1 .. Len(t) : Run(r, t[i]) = Run(m, s[i + 1])
    BY <2>1, <2>4 DEF Run
  <2>6. Run(m, s[1]) = {p}
    <3>1. h[p].mc_free_chunks \in Nat /\ h[p].mc_free_chunks > 0
      BY <1>6, <1>8, <1>9
    <3>2. h[p].mc_free_chunks = 1
      BY <1>16, <3>1
    <3>3. Run(m, s[1]) = p .. p + h[p].mc_free_chunks - 1
      BY <1>8 DEF Run
    <3> QED
      BY <1>8, <3>2, <3>3
  <2>7. /\ r.mp_freeptr = IF Len(t) = 0 THEN None ELSE t[1]
        /\ \A i \in 1 .. Len(t) :
              /\ r.header[t[i]].mc_free_chunks > 0
              /\ r.header[t[i]].next = IF i = Len(t) THEN None ELSE t[i + 1]
    <3>1. r.mp_freeptr = IF Len(t) = 0 THEN None ELSE t[1]
      <4>1. 1 \in 1 .. Len(s) /\ (Len(t) # 0 => 1 \in 1 .. Len(t)) /\ (1 = Len(s) <=> Len(t) = 0)
        BY <1>6, <2>1
      <4> QED
        BY <1>8, <1>9, <2>1, <2>2, <4>1
    <3>2. ASSUME NEW i \in 1 .. Len(t)
          PROVE  /\ r.header[t[i]].mc_free_chunks > 0
                 /\ r.header[t[i]].next = IF i = Len(t) THEN None ELSE t[i + 1]
      <4>1. /\ i + 1 \in 1 .. Len(s) /\ (i = Len(t) <=> i + 1 = Len(s))
            /\ (i # Len(t) => i + 1 \in 1 .. Len(t))
        BY <1>6, <2>1, <2>3, SMTT(20)
      <4> QED
        BY <1>9, <2>1, <2>4, <4>1
    <3> QED
      BY <3>1, <3>2
  <2>8. \A i \in 1 .. Len(t) : Run(r, t[i]) \subseteq (0 .. n - 1) \ V
    <3> SUFFICES ASSUME NEW i \in 1 .. Len(t) PROVE Run(m, s[i + 1]) \subseteq (0 .. n - 1) \ V
      BY <2>5
    <3>1. p \notin Run(m, s[i + 1])
      <4>1. 1 \in 1 .. Len(s) /\ i + 1 # 1
        BY <1>6
      <4> QED
        BY <1>8, <1>10, <1>21, <2>3, <4>1
    <3> QED
      BY <1>9, <2>3, <3>1
  <2>9. \A i, j \in 1 .. Len(t) : \A x \in Run(r, t[i]) : x \in Run(r, t[j]) => i = j
    <3> SUFFICES ASSUME NEW i \in 1 .. Len(t), NEW j \in 1 .. Len(t),
                        NEW x \in Run(m, s[i + 1]), x \in Run(m, s[j + 1])
                 PROVE  i = j
      BY <2>5
    <3>1. i + 1 = j + 1
      BY <1>21, <2>3
    <3> QED
      BY <3>1
  <2>10. \A x \in (0 .. n - 1) \ V : \E i \in 1 .. Len(t) : x \in Run(r, t[i])
    <3> SUFFICES ASSUME NEW x \in (0 .. n - 1) \ V
                 PROVE  \E i \in 1 .. Len(t) : x \in Run(r, t[i])
      OBVIOUS
    <3>1. PICK i \in 1 .. Len(s) : x \in Run(m, s[i])
      BY <1>21
    <3>2. i # 1
      BY <2>6, <3>1
    <3>3. i - 1 \in 1 .. Len(t) /\ (i - 1) + 1 = i
      BY <1>6, <2>1, <3>2
    <3> QED
      BY <2>5, <3>1, <3>3
  <2> HIDE DEF V, g
  <2> QED
    BY <2>1, <2>7, <2>8, <2>9, <2>10 DEF Chain
<1>17. fp \in (0 .. n - 1) \cup {None}
  BY <1>2, <1>8, <1>10 DEF Headers
<1>18. m.mp_free_chunks - 1 \in Nat /\ m.mp_free_chunks - 1 = n - Cardinality(V)
  <2>1. Cardinality(V) = Cardinality(U) + 1
    BY <1>3, <1>10, FS_AddElement
  <2> QED
    BY <1>2, <1>3, <2>1
<1> HIDE DEF g, fp
<1>19. r \in PoolsOf(n) /\ r.mp_free_chunks = n - Cardinality(V)
  BY <1>1, <1>12, <1>17, <1>18 DEF PoolsOf
<1> HIDE DEF r
<1>20. GoodPool(r, n, V)
  BY <1>2, <1>8, <1>15, <1>16, <1>19 DEF GoodPool
<1> QED
  BY <1>1, <1>8, <1>10, <1>20 DEF r

\* What is freed was in use, and is free afterwards.
LEMMA PoolFree ==
    ASSUME NEW n \in Nat \ {0}, NEW m, NEW U, GoodPool(m, n, U), NEW p \in U
    PROVE  GoodPool(nty_mempool_free(m, p), n, U \ {p})
<1> DEFINE h == m.header
           one == [mc_free_chunks |-> 1, next |-> m.mp_freeptr]
           g == [h EXCEPT ![p] = one]
           r == nty_mempool_free(m, p)
           V == U \ {p}
<1>1. r = [header |-> g, mp_freeptr |-> p, mp_free_chunks |-> m.mp_free_chunks + 1]
  BY DEF nty_mempool_free
<1>2. /\ h \in [0 .. n - 1 -> Headers(n)] /\ m.mp_free_chunks \in Nat
      /\ m.mp_free_chunks = n - Cardinality(U) /\ U \subseteq 0 .. n - 1
      /\ m.mp_freeptr \in (0 .. n - 1) \cup {None}
  BY DEF GoodPool, PoolsOf
<1>3. p \in 0 .. n - 1 /\ p \in Nat /\ one \in Headers(n)
  BY <1>2 DEF Headers
<1>4. /\ g \in [0 .. n - 1 -> Headers(n)] /\ g[p] = one
      /\ \A a \in 0 .. n - 1 : a # p => g[a] = h[a]
  BY <1>2, <1>3
<1>5. Cardinality(V) = Cardinality(U) - 1 /\ Cardinality(U) \in Nat
  BY <1>2, PoolNumbers, FS_RemoveElement
<1>6. m.mp_free_chunks + 1 \in Nat /\ m.mp_free_chunks + 1 = n - Cardinality(V)
  BY <1>2, <1>5
<1>7. PICK s : Chain(m, n, s, U)
  BY DEF GoodPool
<1> HIDE DEF g, one
<1>8. r \in PoolsOf(n) /\ r.mp_free_chunks = n - Cardinality(V)
  BY <1>1, <1>3, <1>4, <1>6 DEF PoolsOf
<1>9. r.header = g /\ r.mp_freeptr = p
  BY <1>1
<1> HIDE DEF r
<1>10. s \in Seq(0 .. n - 1) /\ Len(s) \in Nat
  BY <1>7, LenProperties DEF Chain
<1>11. /\ m.mp_freeptr = IF Len(s) = 0 THEN None ELSE s[1]
       /\ \A i \in 1 .. Len(s) :
             /\ s[i] \in 0 .. n - 1
             /\ h[s[i]].mc_free_chunks > 0
             /\ h[s[i]].next = IF i = Len(s) THEN None ELSE s[i + 1]
             /\ Run(m, s[i]) \subseteq (0 .. n - 1) \ U
       /\ \A i, j \in 1 .. Len(s) : \A x \in Run(m, s[i]) : x \in Run(m, s[j]) => i = j
       /\ \A x \in (0 .. n - 1) \ U : \E i \in 1 .. Len(s) : x \in Run(m, s[i])
  BY <1>7, <1>10, ElementOfSeq DEF Chain
<1>12. \A i \in 1 .. Len(s) : s[i] # p
  <2> SUFFICES ASSUME NEW i \in 1 .. Len(s), s[i] = p PROVE FALSE
    OBVIOUS
  <2>1. h[p] \in Headers(n) /\ h[p].mc_free_chunks > 0
    BY <1>2, <1>3, <1>11
  <2>2. h[p].mc_free_chunks \in Nat
    BY <2>1 DEF Headers
  <2>3. p \in Run(m, p)
    BY <1>3, <2>1, <2>2 DEF Run
  <2> QED
    BY <1>11, <2>3
<1> DEFINE t == <<p>> \o s
<1>13. /\ t \in Seq(0 .. n - 1) /\ Len(t) = Len(s) + 1 /\ t[1] = p
       /\ \A i \in 1 .. Len(s) : t[i + 1] = s[i]
  <2>1. <<p>> \in Seq(0 .. n - 1) /\ Len(<<p>>) = 1 /\ <<p>>[1] = p
    BY <1>3
  <2>2. /\ t \in Seq(0 .. n - 1) /\ Len(t) = 1 + Len(s)
        /\ \A i \in 1 .. 1 + Len(s) : t[i] = IF i <= 1 THEN <<p>>[i] ELSE s[i - 1]
    BY <1>10, <2>1, ConcatProperties
  <2> HIDE DEF t
  <2>3. 1 \in 1 .. 1 + Len(s) /\ t[1] = p
    BY <1>10, <2>1, <2>2
  <2>4. ASSUME NEW i \in 1 .. Len(s) PROVE t[i + 1] = s[i]
    <3>1. i + 1 \in 1 .. 1 + Len(s) /\ ~ i + 1 <= 1 /\ (i + 1) - 1 = i
      BY <1>10
    <3> QED
      BY <2>2, <3>1
  <2> QED
    BY <1>10, <2>2, <2>3, <2>4
<1> HIDE DEF t
<1>14. \A i \in 1 .. Len(t) : i = 1 \/ \E j \in 1 .. Len(s) : i = j + 1
  <2> SUFFICES ASSUME NEW i \in 1 .. Len(t), i # 1 PROVE \E j \in 1 .. Len(s) : i = j + 1
    OBVIOUS
  <2>1. i - 1 \in 1 .. Len(s) /\ i = (i - 1) + 1
    BY <1>10, <1>13
  <2> QED
    BY <2>1
<1>15. /\ r.header[t[1]] = one
       /\ \A j \in 1 .. Len(s) : r.header[t[j + 1]] = h[s[j]]
  BY <1>4, <1>9, <1>11, <1>12, <1>13
<1>16. /\ Run(r, t[1]) = {p}
       /\ \A j \in 1 .. Len(s) : Run(r, t[j + 1]) = Run(m, s[j])
  <2>1. \A j \in 1 .. Len(s) : Run(r, t[j + 1]) = Run(m, s[j])
    BY <1>13, <1>15 DEF Run
  <2>2. Run(r, t[1]) = p .. p + 1 - 1
    BY <1>13, <1>15 DEF Run, one
  <2>3. (p .. p + 1 - 1) = {p}
    BY <1>3
  <2> QED
    BY <2>1, <2>2, <2>3
<1>17. r.mp_freeptr = IF Len(t) = 0 THEN None ELSE t[1]
  BY <1>9, <1>10, <1>13
<1>18. ASSUME NEW i \in 1 .. Len(t)
       PROVE  /\ r.header[t[i]].mc_free_chunks > 0
              /\ r.header[t[i]].next = IF i = Len(t) THEN None ELSE t[i + 1]
              /\ Run(r, t[i]) \subseteq (0 .. n - 1) \ V
  <2>1. CASE i = 1
    <3>1. one.mc_free_chunks = 1 /\ one.next = IF Len(s) = 0 THEN None ELSE s[1]
      BY <1>11 DEF one
    <3>2. Len(t) = 1 <=> Len(s) = 0
      BY <1>10, <1>13
    <3>3. Len(s) # 0 => t[1 + 1] = s[1]
      <4>1. Len(s) # 0 => 1 \in 1 .. Len(s)
        BY <1>10
      <4> QED
        BY <1>13, <4>1
    <3> QED
      BY <1>3, <1>15, <1>16, <2>1, <3>1, <3>2, <3>3
  <2>2. CASE i # 1
    <3>1. PICK j \in 1 .. Len(s) : i = j + 1
      BY <1>14, <2>2
    <3>2. j = Len(s) <=> i = Len(t)
      BY <1>10, <1>13, <3>1
    <3>3. j # Len(s) => j + 1 \in 1 .. Len(s)
      BY <1>10
    <3>4. j # Len(s) => t[i + 1] = s[j + 1]
      BY <1>13, <3>1, <3>3
    <3> QED
      BY <1>11, <1>15, <1>16, <3>1, <3>2, <3>4
  <2> QED
    BY <2>1, <2>2
<1>19. \A i \in 1 .. Len(s) : p \notin Run(m, s[i])
  BY <1>11
<1>20. ASSUME NEW i \in 1 .. Len(t), NEW j \in 1 .. Len(t), NEW x \in Run(r, t[i]),
              x \in Run(r, t[j])
       PROVE  i = j
  <2>1. CASE i = 1 \/ j = 1
    <3>1. x = p
      BY <1>16, <1>20, <2>1
    <3>2. \A k \in 1 .. Len(t) : x \in Run(r, t[k]) => k = 1
      BY <1>14, <1>16, <1>19, <3>1
    <3> QED
      BY <1>20, <3>2
  <2>2. CASE i # 1 /\ j # 1
    <3>1. PICK a \in 1 .. Len(s) : i = a + 1
      BY <1>14, <2>2
    <3>2. PICK b \in 1 .. Len(s) : j = b + 1
      BY <1>14, <2>2
    <3>3. x \in Run(m, s[a]) /\ x \in Run(m, s[b])
      BY <1>16, <1>20, <3>1, <3>2
    <3> QED
      BY <1>11, <3>1, <3>2, <3>3
  <2> QED
    BY <2>1, <2>2
<1>21. ASSUME NEW x \in (0 .. n - 1) \ V PROVE \E i \in 1 .. Len(t) : x \in Run(r, t[i])
  <2>1. CASE x = p
    <3>1. 1 \in 1 .. Len(t)
      BY <1>10, <1>13
    <3> QED
      BY <1>16, <2>1, <3>1
  <2>2. CASE x # p
    <3>1. PICK j \in 1 .. Len(s) : x \in Run(m, s[j])
      BY <1>11, <2>2
    <3>2. j + 1 \in 1 .. Len(t)
      BY <1>10, <1>13
    <3> QED
      BY <1>16, <3>1, <3>2
  <2> QED
    BY <2>1, <2>2
<1>22. V \subseteq 0 .. n - 1
  BY <1>2
<1> HIDE DEF V
<1>23. Chain(r, n, t, V)
  BY <1>13, <1>17, <1>18, <1>20, <1>21 DEF Chain
<1>24. GoodPool(r, n, V)
  BY <1>8, <1>22, <1>23 DEF GoodPool
<1> QED
  BY <1>24 DEF r, V

\* A set of natural numbers has a least one.
LEMMA LeastNumber ==
    ASSUME NEW T, T \subseteq Nat, T # {}
    PROVE  \E m \in T : \A k \in T : m <= k
<1> DEFINE R == {ss \in Nat \X Nat : ss[1] < ss[2]}
<1>1. IsWellFoundedOn(R, Nat)
  BY NatLessThanWellFounded DEF OpToRel
<1>2. PICK x \in T : \A y \in T : ~ (<<y, x>> \in R)
  BY <1>1, WFMin
<1>3. ASSUME NEW y \in T PROVE x <= y
  <2>1. <<y, x>> \in Nat \X Nat
    OBVIOUS
  <2>2. ~ (y < x)
    BY <1>2, <2>1
  <2> QED
    BY <2>2
<1> QED
  BY <1>3

\* Functions by recursion: F gives each value from the one before.
RecursiveUpto(g, z, F, n) == g[0] = z /\ \A k \in 0 .. n - 1 : g[k + 1] = F[k][g[k]]

\* A recursive definition over 0 .. n has a solution (by a least n without).
LEMMA Recursion ==
    ASSUME NEW S, NEW z \in S, NEW F \in [Nat -> [S -> S]], NEW n \in Nat
    PROVE  \E g \in [0 .. n -> S] : RecursiveUpto(g, z, F, n)
<1> DEFINE Upto(b, g) == g[0] = z /\ \A k \in 0 .. b - 1 : g[k + 1] = F[k][g[k]]
           T == {b \in Nat : ~ \E g \in [0 .. b -> S] : Upto(b, g)}
<1> SUFFICES ASSUME T # {} PROVE FALSE
  BY DEF RecursiveUpto
<1>1. PICK b \in T : \A k \in T : b <= k
  BY LeastNumber
<1>2. b \in Nat /\ ~ \E g \in [0 .. b -> S] : Upto(b, g)
  OBVIOUS
<1>3. b # 0
  <2>1. [k \in 0 .. 0 |-> z] \in [0 .. 0 -> S] /\ Upto(0, [k \in 0 .. 0 |-> z])
    OBVIOUS
  <2> QED
    BY <1>2, <2>1
<1>4. b - 1 \in Nat /\ ~ b <= b - 1
  BY <1>2, <1>3
<1>5. PICK g \in [0 .. b - 1 -> S] : Upto(b - 1, g)
  BY <1>1, <1>4
<1> DEFINE e == [k \in 0 .. b |-> IF k = b THEN F[b - 1][g[b - 1]] ELSE g[k]]
<1>6. g[b - 1] \in S /\ F[b - 1] \in [S -> S] /\ F[b - 1][g[b - 1]] \in S
  BY <1>4
<1>7. ASSUME NEW k \in 0 .. b PROVE (IF k = b THEN F[b - 1][g[b - 1]] ELSE g[k]) \in S
  BY <1>2, <1>6
<1>8. e \in [0 .. b -> S] /\ e[b] = F[b - 1][g[b - 1]]
  BY <1>2, <1>7
<1>9. \A k \in 0 .. b - 1 : e[k] = g[k]
  BY <1>2
<1> HIDE DEF e
<1>10. e[0] = z
  <2>1. 0 \in 0 .. b - 1
    BY <1>2, <1>3
  <2> QED
    BY <1>5, <1>9, <2>1
<1>11. ASSUME NEW k \in 0 .. b - 1 PROVE e[k + 1] = F[k][e[k]]
  <2>1. CASE k = b - 1
    <3>1. k + 1 = b
      BY <1>2, <2>1
    <3> QED
      BY <1>8, <1>9, <2>1, <3>1
  <2>2. CASE k # b - 1
    <3>1. k \in 0 .. (b - 1) - 1 /\ k + 1 \in 0 .. b - 1
      BY <1>2, <2>2
    <3> QED
      BY <1>5, <1>9, <3>1
  <2> QED
    BY <2>1, <2>2
<1>12. Upto(b, e)
  BY <1>10, <1>11
<1> QED
  BY <1>2, <1>8, <1>12

\* FreeFragmentContext frees the fragments of a list one by one.
LEMMA FreedSteps ==
    ASSUME NEW n \in Nat \ {0}, NEW pool \in PoolsOf(n), NEW frags \in Seq(0 .. n - 1)
    PROVE  /\ Freed(pool, frags)[0] = pool
           /\ \A k \in 0 .. Len(frags) - 1 : Freed(pool, frags)[k + 1] =
                 nty_mempool_free(Freed(pool, frags)[k], frags[k + 1])
<1> DEFINE L == Len(frags)
           S == PoolsOf(n)
           F == [k \in Nat |-> [m \in S |->
                   IF k < L THEN nty_mempool_free(m, frags[k + 1]) ELSE m]]
           Body(g) == [k \in 0 .. L |->
                         IF k = 0 THEN pool ELSE nty_mempool_free(g[k - 1], frags[k])]
           D == Freed(pool, frags)
<1>1. L \in Nat /\ \A k \in 1 .. L : frags[k] \in 0 .. n - 1
  BY LenProperties, ElementOfSeq
<1>2. ASSUME NEW m \in S, NEW p \in 0 .. n - 1 PROVE nty_mempool_free(m, p) \in S
  <2> DEFINE g == [m.header EXCEPT ![p] = [mc_free_chunks |-> 1, next |-> m.mp_freeptr]]
  <2>1. g \in [0 .. n - 1 -> Headers(n)] /\ m.mp_free_chunks + 1 \in Nat
    BY DEF PoolsOf, Headers
  <2>2. nty_mempool_free(m, p) = [header |-> g, mp_freeptr |-> p,
                                   mp_free_chunks |-> m.mp_free_chunks + 1]
    BY DEF nty_mempool_free
  <2> HIDE DEF g
  <2> QED
    BY <2>1, <2>2 DEF PoolsOf
<1>3. F \in [Nat -> [S -> S]]
  <2>1. ASSUME NEW k \in Nat, NEW m \in S
        PROVE  (IF k < L THEN nty_mempool_free(m, frags[k + 1]) ELSE m) \in S
    <3>1. k < L => k + 1 \in 1 .. L
      BY <1>1
    <3> HIDE DEF S, L
    <3> QED
      BY <1>1, <1>2, <3>1
  <2> HIDE DEF S, L
  <2> QED
    BY <2>1
<1>10. PICK g \in [0 .. L -> S] : RecursiveUpto(g, pool, F, L)
  <2> HIDE DEF S, F, L
  <2>1. pool \in S
    BY DEF S
  <2>2. L \in Nat
    BY <1>1
  <2> QED
    BY <1>3, <2>1, <2>2, Recursion, Zenon
<1>4. /\ g \in [0 .. L -> S] /\ g[0] = pool
      /\ \A k \in 0 .. L - 1 : g[k + 1] = F[k][g[k]]
  BY <1>10 DEF RecursiveUpto
<1>5. g = Body(g)
  <2>1. ASSUME NEW k \in 0 .. L PROVE g[k] = Body(g)[k]
    <3>1. CASE k = 0
      BY <1>4, <3>1
    <3>2. CASE k # 0
      <4>1. /\ k - 1 \in 0 .. L - 1 /\ (k - 1) + 1 = k /\ k - 1 < L /\ k - 1 \in Nat
            /\ k - 1 \in 0 .. L
        BY <1>1, <3>2
      <4>2. g[k] = F[k - 1][g[k - 1]] /\ g[k - 1] \in S
        BY <1>4, <4>1
      <4> QED
        BY <3>2, <4>1, <4>2
    <3> QED
      BY <3>1, <3>2
  <2>2. g = [k \in 0 .. L |-> g[k]]
    BY <1>4
  <2> HIDE DEF L
  <2> QED
    BY <2>1, <2>2
<1> HIDE DEF F, S
<1>6. D = Body(D)
  BY <1>5 DEF Freed
<1> HIDE DEF D
<1>7. \A k \in 0 .. L : D[k] = Body(D)[k]
  BY <1>6
<1>8. D[0] = pool
  BY <1>1, <1>7
<1>9. ASSUME NEW k \in 0 .. L - 1 PROVE D[k + 1] = nty_mempool_free(D[k], frags[k + 1])
  <2>1. k + 1 \in 0 .. L /\ k + 1 # 0 /\ (k + 1) - 1 = k
    BY <1>1
  <2> QED
    BY <1>7, <2>1
<1> QED
  BY <1>8, <1>9 DEF D

\* Different fragments that are in use are free afterwards.
LEMMA PoolFreeAll ==
    ASSUME NEW n \in Nat \ {0}, NEW m, NEW U, GoodPool(m, n, U), NEW frags \in Seq(U),
           \A i, j \in 1 .. Len(frags) : frags[i] = frags[j] => i = j
    PROVE  GoodPool(FreeFragmentContext(m, frags), n,
                    U \ {frags[i] : i \in 1 .. Len(frags)})
<1> DEFINE D == Freed(m, frags)
           L == Len(frags)
           Left(k) == U \ {frags[i] : i \in 1 .. k}
           T == {k \in Nat : k <= L /\ ~ GoodPool(D[k], n, Left(k))}
<1>1. m \in PoolsOf(n) /\ U \subseteq 0 .. n - 1
  BY DEF GoodPool
<1>2. L \in Nat /\ \A k \in 1 .. L : frags[k] \in U
  BY LenProperties, ElementOfSeq
<1>3. frags \in Seq(0 .. n - 1)
  <2>1. frags \in [1 .. Len(frags) -> 0 .. n - 1]
    BY <1>1, <1>2, LenProperties
  <2> QED
    BY <1>2, <2>1, SeqDef
<1>4. D[0] = m /\ \A k \in 0 .. L - 1 : D[k + 1] = nty_mempool_free(D[k], frags[k + 1])
  BY <1>1, <1>3, FreedSteps
<1> HIDE DEF D
<1>5. T = {}
  <2> SUFFICES ASSUME T # {} PROVE FALSE
    OBVIOUS
  <2>1. PICK k \in T : \A j \in T : k <= j
    BY LeastNumber
  <2>2. k \in Nat /\ k <= L /\ ~ GoodPool(D[k], n, Left(k))
    OBVIOUS
  <2>3. Left(0) = U
    OBVIOUS
  <2>4. k # 0
    BY <1>4, <2>2, <2>3
  <2>5. /\ k - 1 \in Nat /\ k - 1 <= L /\ ~ k <= k - 1 /\ k - 1 \in 0 .. L - 1
        /\ (k - 1) + 1 = k /\ k \in 1 .. L
    BY <1>2, <2>2, <2>4
  <2>6. GoodPool(D[k - 1], n, Left(k - 1))
    BY <2>1, <2>5
  <2>7. D[k] = nty_mempool_free(D[k - 1], frags[k])
    BY <1>4, <2>5
  <2>8. frags[k] \in Left(k - 1)
    <3>1. \A i \in 1 .. k - 1 : i \in 1 .. L /\ i # k
      BY <1>2, <2>5
    <3> QED
      BY <1>2, <2>5, <3>1
  <2>9. Left(k) = Left(k - 1) \ {frags[k]}
    <3>1. \A i \in 1 .. k : i \in 1 .. k - 1 \/ i = k
      BY <2>5
    <3>2. 1 .. k - 1 \subseteq 1 .. k /\ k \in 1 .. k
      BY <2>5
    <3> QED
      BY <3>1, <3>2
  <2> HIDE DEF Left
  <2>10. GoodPool(D[k], n, Left(k))
    BY <2>6, <2>7, <2>8, <2>9, PoolFree
  <2> QED
    BY <2>2, <2>10
<1>6. GoodPool(D[L], n, Left(L))
  <2>1. L \in Nat /\ L <= L
    BY <1>2
  <2> HIDE DEF L, Left
  <2> QED
    BY <1>5, <2>1
<1> QED
  BY <1>6 DEF FreeFragmentContext, D

\* Following the free list by one run.
LEMMA RunsSteps ==
    ASSUME NEW n \in Nat \ {0}, NEW m \in PoolsOf(n)
    PROVE  /\ \A k \in 0 .. n : Runs(m, n)[k][None] = {}
           /\ \A k \in 1 .. n, p \in 0 .. n - 1 :
                 Runs(m, n)[k][p] = Run(m, p) \cup Runs(m, n)[k - 1][m.header[p].next]
<1> DEFINE Q == (DOMAIN m.header) \cup {None}
           S == [Q -> SUBSET Int]
           On(u) == [p \in Q |-> IF p = None THEN {} ELSE Run(m, p) \cup u[m.header[p].next]]
           F == [k \in Nat |-> [u \in S |-> On(u)]]
           z == [p \in Q |-> {}]
           Body(g) == [k \in 0 .. n |-> [p \in Q |->
                         IF k = 0 \/ p = None THEN {}
                         ELSE (p .. p + m.header[p].mc_free_chunks - 1)
                                \cup g[k - 1][m.header[p].next]]]
           R == Runs(m, n)
<1>1. /\ DOMAIN m.header = 0 .. n - 1
      /\ \A p \in 0 .. n - 1 : /\ m.header[p].next \in Q
                               /\ p # None
                               /\ Run(m, p) \subseteq Int
  <2>1. m.header \in [0 .. n - 1 -> Headers(n)]
    BY DEF PoolsOf
  <2>2. \A p \in 0 .. n - 1 : m.header[p] \in Headers(n)
    BY <2>1
  <2> QED
    BY <2>1, <2>2, NoneAssumption DEF Headers, Run
<1> HIDE DEF Q
<1>2. ASSUME NEW u \in S PROVE On(u) \in S
  <2>1. ASSUME NEW p \in Q
        PROVE  (IF p = None THEN {} ELSE Run(m, p) \cup u[m.header[p].next]) \in SUBSET Int
    BY <1>1 DEF Q
  <2> QED
    BY <2>1
<1>3. F \in [Nat -> [S -> S]]
  <2> HIDE DEF S, On
  <2> QED
    BY <1>2
<1>4. z \in S
  OBVIOUS
<1>5. PICK g \in [0 .. n -> S] : RecursiveUpto(g, z, F, n)
  <2> HIDE DEF S, F, z
  <2> QED
    BY <1>3, <1>4, Recursion, Zenon
<1>6. g[0] = z /\ \A k \in 0 .. n - 1 : g[k + 1] = F[k][g[k]]
  BY <1>5 DEF RecursiveUpto
<1>7. g = Body(g)
  <2>1. ASSUME NEW k \in 0 .. n PROVE g[k] = Body(g)[k]
    <3>1. CASE k = 0
      <4>1. Body(g)[0] = z
        OBVIOUS
      <4> QED
        BY <1>6, <3>1, <4>1
    <3>2. CASE k # 0
      <4>1. k - 1 \in 0 .. n - 1 /\ (k - 1) + 1 = k /\ k - 1 \in Nat /\ k - 1 \in 0 .. n
        BY <3>2
      <4>2. g[k] = F[k - 1][g[k - 1]] /\ g[k - 1] \in S
        BY <1>5, <1>6, <4>1
      <4>3. g[k] = On(g[k - 1])
        <5> HIDE DEF S, On
        <5> QED
          BY <4>1, <4>2
      <4>4. Body(g)[k] = On(g[k - 1])
        BY <3>2, Zenon DEF Run
      <4> QED
        BY <4>3, <4>4
    <3> QED
      BY <3>1, <3>2
  <2>2. g = [k \in 0 .. n |-> g[k]]
    BY <1>5
  <2>3. [k \in 0 .. n |-> g[k]] = [k \in 0 .. n |-> Body(g)[k]]
    <3> HIDE DEF Body
    <3> QED
      BY <2>1
  <2>4. Body(g) = [k \in 0 .. n |-> Body(g)[k]]
    OBVIOUS
  <2> HIDE DEF Body
  <2> QED
    BY <2>2, <2>3, <2>4
<1> HIDE DEF F, S
<1>8. R = Body(R)
  BY <1>7, Zenon DEF Runs, Q
<1> HIDE DEF R
<1>9. \A k \in 0 .. n : R[k] = Body(R)[k]
  <2> DEFINE B == Body(R)
  <2>1. \A k \in 0 .. n : B[k] = [p \in Q |->
                         IF k = 0 \/ p = None THEN {}
                         ELSE (p .. p + m.header[p].mc_free_chunks - 1)
                                \cup R[k - 1][m.header[p].next]]
    OBVIOUS
  <2> HIDE DEF B
  <2>2. R = B
    BY <1>8 DEF B
  <2> QED
    BY <2>2 DEF B
<1>10. \A k \in 0 .. n : R[k][None] = {}
  BY <1>9 DEF Q
<1>11. ASSUME NEW k \in 1 .. n, NEW p \in 0 .. n - 1
       PROVE  R[k][p] = Run(m, p) \cup R[k - 1][m.header[p].next]
  <2>1. k \in 0 .. n /\ k # 0 /\ p \in Q /\ p # None
    BY <1>1 DEF Q
  <2>2. R[k] = Body(R)[k]
    BY <1>9, <2>1
  <2>3. Body(R)[k][p] = (p .. p + m.header[p].mc_free_chunks - 1) \cup R[k - 1][m.header[p].next]
    BY <2>1, Zenon
  <2> QED
    BY <2>2, <2>3 DEF Run
<1> QED
  BY <1>10, <1>11 DEF R

\* The free list has no more runs than there are chunks, so that a walk along it
\* finds every chunk that is not in use.
LEMMA PoolFreeChunks ==
    ASSUME NEW n \in Nat \ {0}, NEW m, NEW U, GoodPool(m, n, U)
    PROVE  FreeChunks(m, n) = (0 .. n - 1) \ U
<1> DEFINE R == Runs(m, n)
<1>1. m \in PoolsOf(n)
  BY DEF GoodPool
<1>2. PICK s : Chain(m, n, s, U)
  BY DEF GoodPool
<1> DEFINE L == Len(s)
<1>3. s \in Seq(0 .. n - 1) /\ L \in Nat
  BY <1>2, LenProperties DEF Chain
<1>4. /\ m.mp_freeptr = IF L = 0 THEN None ELSE s[1]
      /\ \A i \in 1 .. L :
            /\ s[i] \in 0 .. n - 1
            /\ m.header[s[i]].mc_free_chunks > 0
            /\ m.header[s[i]].next = IF i = L THEN None ELSE s[i + 1]
            /\ Run(m, s[i]) \subseteq (0 .. n - 1) \ U
      /\ \A i, j \in 1 .. L : \A x \in Run(m, s[i]) : x \in Run(m, s[j]) => i = j
      /\ \A x \in (0 .. n - 1) \ U : \E i \in 1 .. L : x \in Run(m, s[i])
  BY <1>2, <1>3, ElementOfSeq DEF Chain
<1>10. L \in Nat
  BY <1>3
<1> HIDE DEF L
<1>5. \A i \in 1 .. L : s[i] \in Run(m, s[i])
  <2> SUFFICES ASSUME NEW i \in 1 .. L PROVE s[i] \in Run(m, s[i])
    OBVIOUS
  <2>1. m.header \in [0 .. n - 1 -> Headers(n)] /\ s[i] \in 0 .. n - 1
    BY <1>1, <1>4 DEF PoolsOf
  <2>2. m.header[s[i]] \in Headers(n)
    BY <2>1
  <2>3. m.header[s[i]].mc_free_chunks \in Nat
    BY <2>2 DEF Headers
  <2> QED
    BY <1>4, <2>1, <2>3 DEF Run
<1>6. L <= n
  <2> SUFFICES ASSUME n < L PROVE FALSE
    BY <1>10
  <2> DEFINE f == [i \in 1 .. L |-> s[i]]
  <2>1. f \in [1 .. L -> 0 .. n - 1]
    BY <1>4
  <2>2. /\ IsFiniteSet(1 .. L) /\ Cardinality(1 .. L) = L
        /\ IsFiniteSet(0 .. n - 1) /\ Cardinality(0 .. n - 1) = n
    BY <1>10, FS_Interval
  <2>3. f \in Injection(1 .. L, 0 .. n - 1)
    BY <1>4, <1>5, <2>1 DEF Injection, IsInjective
  <2> HIDE DEF f
  <2>4. Cardinality(1 .. L) <= Cardinality(0 .. n - 1)
    BY <2>2, <2>3, FS_Injection
  <2> QED
    BY <1>10, <2>2, <2>4
<1>7. /\ \A k \in 0 .. n : R[k][None] = {}
      /\ \A k \in 1 .. n, p \in 0 .. n - 1 :
            R[k][p] = Run(m, p) \cup R[k - 1][m.header[p].next]
  BY <1>1, RunsSteps
<1> HIDE DEF R
<1> DEFINE From(j) == UNION {Run(m, s[i]) : i \in j .. L}
           Covers(k) == \A j \in 1 .. L : L - j + 1 <= k => R[k][s[j]] = From(j)
           T == {k \in Nat : k <= n /\ ~ Covers(k)}
<1>8. T = {}
  <2> SUFFICES ASSUME T # {} PROVE FALSE
    OBVIOUS
  <2>1. PICK k \in T : \A j \in T : k <= j
    BY LeastNumber
  <2>2. k \in Nat /\ k <= n
    OBVIOUS
  <2>3. PICK j \in 1 .. L : L - j + 1 <= k /\ R[k][s[j]] # From(j)
    OBVIOUS
  <2>4. /\ k \in 1 .. n /\ k - 1 \in Nat /\ k - 1 \in 0 .. n /\ k - 1 <= n
        /\ ~ k <= k - 1
    BY <1>10, <2>2, <2>3
  <2>5. Covers(k - 1)
    BY <2>1, <2>4
  <2>6. R[k][s[j]] = Run(m, s[j]) \cup R[k - 1][m.header[s[j]].next]
    BY <1>4, <1>7, <2>4
  <2>7. CASE j = L
    <3>1. m.header[s[j]].next = None
      BY <1>4, <2>7
    <3>2. R[k][s[j]] = Run(m, s[j])
      BY <1>7, <2>4, <2>6, <3>1
    <3>3. j .. L = {j}
      BY <1>10, <2>7
    <3>4. From(j) = Run(m, s[j])
      BY <3>3
    <3> QED
      BY <2>3, <3>2, <3>4
  <2>8. CASE j # L
    <3>1. j + 1 \in 1 .. L /\ L - (j + 1) + 1 <= k - 1
      BY <1>10, <2>2, <2>3, <2>8
    <3>2. m.header[s[j]].next = s[j + 1]
      BY <1>4, <2>8
    <3>3. R[k - 1][s[j + 1]] = From(j + 1)
      BY <2>5, <3>1
    <3>4. j .. L = {j} \cup (j + 1 .. L)
      BY <1>10
    <3>5. From(j) = Run(m, s[j]) \cup From(j + 1)
      BY <3>4
    <3> QED
      BY <2>3, <2>6, <3>2, <3>3, <3>5
  <2> QED
    BY <2>7, <2>8
<1>9. R[n][m.mp_freeptr] = (0 .. n - 1) \ U
  <2>1. CASE L = 0
    <3>1. R[n][m.mp_freeptr] = {}
      BY <1>4, <1>7, <2>1
    <3>2. (0 .. n - 1) \ U = {}
      BY <1>10, <1>4, <2>1
    <3> QED
      BY <3>1, <3>2
  <2>2. CASE L # 0
    <3>1. 1 \in 1 .. L /\ L - 1 + 1 <= n
      BY <1>10, <1>6, <2>2
    <3>2. Covers(n)
      BY <1>8
    <3>3. R[n][s[1]] = From(1)
      BY <3>1, <3>2
    <3>4. From(1) = (0 .. n - 1) \ U
      BY <1>4
    <3> QED
      BY <1>4, <2>2, <3>3, <3>4
  <2> QED
    BY <2>1, <2>2
<1> QED
  BY <1>9 DEF FreeChunks, R
-----------------------------------------------------------------------------
(***************************************************************************)
(* StreamPools: the memory of connections.                                 *)
(***************************************************************************)

\* the elements of a sequence
Members(list) == {list[i] : i \in 1 .. Len(list)}

\* a sequence has no element twice
Distinct(list) == \A i, j \in 1 .. Len(list) : list[i] = list[j] => i = j

\* The types of the variables, all but what a pool's record may hold.
PoolTypes ==
    /\ mp = [k \in Pools |-> mp[k]]
    /\ strm \in [Flows -> Streams \cup {None}]
    /\ ht_stream \in [0 .. Bins - 1 -> Seq(Flows)]
    /\ sock \subseteq Flows
    /\ app \in [Apps -> Loads \cup {None}]
    /\ freeq \in Seq(Nat) /\ free_fragq \in Seq(Nat) /\ free_fragq_int \in Seq(Nat)

\* The parts of streams are taken from their pools, each by one stream.
PartsInv ==
    /\ GoodPool(mp["flow"], MaxConcurrency, Live)
    /\ GoodPool(mp["rcv"], MaxConcurrency, {strm[f].rcv : f \in Live})
    /\ GoodPool(mp["snd"], MaxConcurrency, {strm[f].snd : f \in Live})
    /\ GoodPool(mp["rb"], NumBuffers, {strm[f].recvbuf : f \in Live} \ {None})
    /\ \A f, g \in Live :
          \/ strm[f].rcv = strm[g].rcv
          \/ strm[f].snd = strm[g].snd
          \/ strm[f].recvbuf = strm[g].recvbuf /\ strm[f].recvbuf # None
          => f = g

\* Each stream is in the bin of its tuple and nowhere else, and no two have the
\* same tuple.
TableInv ==
    /\ \A b \in 0 .. Bins - 1 :
          /\ Distinct(ht_stream[b])
          /\ \A i \in 1 .. Len(ht_stream[b]) :
                /\ ht_stream[b][i] \in Live
                /\ HashFlow(strm[ht_stream[b][i]].tuple) = b
    /\ \A f \in Live : f \in Members(ht_stream[HashFlow(strm[f].tuple)])
    /\ \A f, g \in Live : strm[f].tuple = strm[g].tuple => f = g
    /\ flow_cnt = Cardinality(Live)

\* the fragments in lists of streams and in queues
Fragments ==
    (UNION {Members(strm[f].fctx) : f \in Live})
       \cup Members(free_fragq) \cup Members(free_fragq_int)

\* the fragments of the pool, and those calloc can provide
AllFrags == NumBuffers + Heap

\* m is a pool, of which at least the fragments V are in use
Provides(m, V) == \E U : GoodPool(m, AllFrags, U) /\ V \subseteq U

\* Each fragment is once in one list of a stream or in one of the two queues, and
\* not on the free list of the pool.  What calloc can provide is in use from the
\* first; it and what a full queue did not take stay so until they are freed.
FragInv ==
    /\ Provides(mp["frag"], Fragments)
    /\ \A f \in Live :
          /\ Distinct(strm[f].fctx)
          /\ \A g \in Live : f # g => Members(strm[f].fctx) \cap Members(strm[g].fctx) = {}
          /\ Members(strm[f].fctx) \cap Members(free_fragq) = {}
          /\ Members(strm[f].fctx) \cap Members(free_fragq_int) = {}
    /\ Distinct(free_fragq) /\ Distinct(free_fragq_int)
    /\ Members(free_fragq) \cap Members(free_fragq_int) = {}

\* Send buffers come out of their pool and never go back.
BuffersAreChunks == \E U : GoodPool(mp["sb"], NumBuffers, U)

\* The inductive invariant, whatever the sending threads do.
PoolsInv == PoolTypes /\ PartsInv /\ TableInv /\ FragInv /\ BuffersAreChunks

-----------------------------------------------------------------------------
(* Lists without an element twice.                                          *)

LEMMA ListTail ==
    ASSUME NEW S, NEW s \in Seq(S), s # << >>, Distinct(s)
    PROVE  /\ Head(s) \in Members(s) /\ Head(s) \in S
           /\ Tail(s) \in Seq(S) /\ Distinct(Tail(s))
           /\ Members(Tail(s)) = Members(s) \ {Head(s)}
<1> DEFINE t == Tail(s)
           L == Len(s)
<1>1. /\ L \in Nat \ {0} /\ t \in Seq(S) /\ Len(t) = L - 1 /\ Head(s) \in S
      /\ \A i \in 1 .. Len(t) : t[i] = s[i + 1]
  BY EmptySeq, HeadTailProperties
<1>2. Head(s) = s[1]
  OBVIOUS
<1>3. \A i, j \in 1 .. L : s[i] = s[j] => i = j
  BY DEF Distinct
<1> HIDE DEF t, L
<1>4. \A i \in 1 .. Len(t) : i + 1 \in 1 .. L /\ i + 1 # 1 /\ 1 \in 1 .. L
  BY <1>1
<1>5. Distinct(t)
  <2> SUFFICES ASSUME NEW i \in 1 .. Len(t), NEW j \in 1 .. Len(t), t[i] = t[j] PROVE i = j
    BY DEF Distinct
  <2>1. i + 1 = j + 1
    BY <1>1, <1>3, <1>4
  <2> QED
    BY <2>1
<1>6. Members(t) = Members(s) \ {s[1]}
  <2>1. Members(t) \subseteq Members(s) \ {s[1]}
    BY <1>1, <1>3, <1>4 DEF Members, L
  <2>2. ASSUME NEW i \in 1 .. L, s[i] # s[1] PROVE s[i] \in Members(t)
    <3>1. i - 1 \in 1 .. Len(t) /\ (i - 1) + 1 = i
      BY <1>1, <2>2
    <3> QED
      BY <1>1, <3>1 DEF Members
  <2> QED
    BY <2>1, <2>2 DEF Members, L
<1>7. s[1] \in Members(s)
  BY <1>1 DEF Members, L
<1> QED
  BY <1>1, <1>2, <1>5, <1>6, <1>7 DEF t

\* Adding a new element at the end.
LEMMA ListAppend ==
    ASSUME NEW S, NEW s \in Seq(S), NEW x \in S, x \notin Members(s), Distinct(s)
    PROVE  /\ Append(s, x) \in Seq(S) /\ Distinct(Append(s, x))
           /\ Members(Append(s, x)) = Members(s) \cup {x}
<1> DEFINE t == Append(s, x)
           L == Len(s)
<1>1. /\ L \in Nat /\ t \in Seq(S) /\ Len(t) = L + 1 /\ t[L + 1] = x
      /\ \A i \in 1 .. L : t[i] = s[i]
  BY AppendProperties, LenProperties
<1>2. \A i, j \in 1 .. L : s[i] = s[j] => i = j
  BY DEF Distinct
<1>3. \A i \in 1 .. L : s[i] # x
  BY DEF Members
<1> HIDE DEF t, L
<1>4. 1 .. Len(t) = (1 .. L) \cup {L + 1} /\ L + 1 \notin 1 .. L
  BY <1>1
<1>5. Distinct(t)
  BY <1>1, <1>2, <1>3, <1>4 DEF Distinct
<1>6. Members(t) = Members(s) \cup {x}
  BY <1>1, <1>4 DEF Members, L
<1> QED
  BY <1>1, <1>5, <1>6 DEF t

\* the elements i .. j of a list
LEMMA ListSubSeq ==
    ASSUME NEW S, NEW s \in Seq(S), NEW i \in 1 .. Len(s) + 1, NEW j \in Nat,
           j <= Len(s), i <= j + 1
    PROVE  /\ SubSeq(s, i, j) \in Seq(S)
           /\ Len(SubSeq(s, i, j)) = j - i + 1
           /\ \A k \in 1 .. j - i + 1 : SubSeq(s, i, j)[k] = s[i + k - 1]
           /\ Members(SubSeq(s, i, j)) = {s[k] : k \in i .. j}
           /\ Distinct(s) => Distinct(SubSeq(s, i, j))
<1> DEFINE t == SubSeq(s, i, j)
           L == Len(s)
<1>1. L \in Nat /\ \A k \in 1 .. L : s[k] \in S
  BY LenProperties, ElementOfSeq
<1>2. \A k \in i .. j : s[k] \in S
  BY <1>1
<1>3. /\ t \in Seq(S) /\ Len(t) = (IF i <= j THEN j - i + 1 ELSE 0)
      /\ \A k \in 1 .. j - i + 1 : t[k] = s[i + k - 1]
  BY <1>1, <1>2, SubSeqProperties
<1>4. Len(t) = j - i + 1
  BY <1>1, <1>3
<1>8. i \in 1 .. L + 1 /\ j <= L
  OBVIOUS
<1> HIDE DEF t, L
<1>5. \A k \in 1 .. Len(t) : i + k - 1 \in i .. j /\ i + k - 1 \in 1 .. L
  BY <1>1, <1>4, <1>8
<1>6. Members(t) = {s[k] : k \in i .. j}
  <2>1. ASSUME NEW k \in i .. j PROVE s[k] \in Members(t)
    <3>1. k - i + 1 \in 1 .. Len(t) /\ i + (k - i + 1) - 1 = k
      BY <1>4, <1>8, <1>1
    <3>2. t[k - i + 1] = s[i + (k - i + 1) - 1]
      BY <1>3, <1>4, <3>1
    <3> QED
      BY <3>1, <3>2 DEF Members
  <2>2. ASSUME NEW k \in 1 .. Len(t) PROVE t[k] \in {s[m] : m \in i .. j}
    BY <1>3, <1>4, <1>5
  <2> QED
    BY <2>1, <2>2 DEF Members
<1>7. ASSUME Distinct(s) PROVE Distinct(t)
  <2>1. \A k, m \in 1 .. L : s[k] = s[m] => k = m
    BY <1>7 DEF Distinct, L
  <2> SUFFICES ASSUME NEW k \in 1 .. Len(t), NEW m \in 1 .. Len(t), t[k] = t[m] PROVE k = m
    BY DEF Distinct
  <2>2. i + k - 1 = i + m - 1
    <3>1. i + k - 1 \in 1 .. L /\ i + m - 1 \in 1 .. L
      BY <1>5
    <3>2. t[k] = s[i + k - 1] /\ t[m] = s[i + m - 1]
      BY <1>3, <1>4
    <3> QED
      BY <2>1, <3>1, <3>2
  <2> QED
    BY <2>2, <1>8
<1> QED
  BY <1>3, <1>4, <1>6, <1>7 DEF t

\* two lists with nothing in common, one behind the other
ConcatDistinct(s, t) ==
    Distinct(s) /\ Distinct(t) /\ Members(s) \cap Members(t) = {} => Distinct(s \o t)

\* What a concatenation holds.
LEMMA ListConcat ==
    ASSUME NEW S, NEW s \in Seq(S), NEW t \in Seq(S)
    PROVE  /\ s \o t \in Seq(S)
           /\ Members(s \o t) = Members(s) \cup Members(t)
           /\ ConcatDistinct(s, t)
<1> DEFINE u == s \o t
           L == Len(s)
           M == Len(t)
<1>1. /\ u \in Seq(S) /\ Len(u) = L + M /\ L \in Nat /\ M \in Nat
      /\ \A i \in 1 .. L + M : u[i] = IF i <= L THEN s[i] ELSE t[i - L]
  BY ConcatProperties, LenProperties
<1> HIDE DEF u
<1>2. /\ Members(s) = {s[i] : i \in 1 .. L} /\ Members(t) = {t[i] : i \in 1 .. M}
      /\ Distinct(s) <=> \A i, j \in 1 .. L : s[i] = s[j] => i = j
      /\ Distinct(t) <=> \A i, j \in 1 .. M : t[i] = t[j] => i = j
      /\ Members(u) = {u[i] : i \in 1 .. L + M}
      /\ Distinct(u) <=> \A i, j \in 1 .. L + M : u[i] = u[j] => i = j
  BY <1>1 DEF Members, Distinct
<1> HIDE DEF L, M
<1>3. /\ \A i \in 1 .. L : i \in 1 .. L + M /\ u[i] = s[i]
      /\ \A i \in 1 .. M : L + i \in 1 .. L + M /\ u[L + i] = t[i]
  <2>1. \A i \in 1 .. L : i \in 1 .. L + M /\ i <= L
    BY <1>1
  <2>2. \A i \in 1 .. M : L + i \in 1 .. L + M /\ ~ L + i <= L /\ (L + i) - L = i
    BY <1>1
  <2> QED
    BY <1>1, <2>1, <2>2
<1>4. \A i \in 1 .. L + M : i \in 1 .. L \/ \E k \in 1 .. M : i = L + k
  <2> SUFFICES ASSUME NEW i \in 1 .. L + M, i \notin 1 .. L PROVE \E k \in 1 .. M : i = L + k
    OBVIOUS
  <2>1. i - L \in 1 .. M /\ i = L + (i - L)
    BY <1>1
  <2> QED
    BY <2>1
<1>5. Members(u) = Members(s) \cup Members(t)
  <2>1. ASSUME NEW i \in 1 .. L + M PROVE u[i] \in Members(s) \cup Members(t)
    BY <1>2, <1>3, <1>4
  <2> QED
    BY <1>2, <1>3, <2>1
<1>6. ASSUME Distinct(s), Distinct(t), Members(s) \cap Members(t) = {} PROVE Distinct(u)
  <2> SUFFICES ASSUME NEW i \in 1 .. L + M, NEW j \in 1 .. L + M, u[i] = u[j] PROVE i = j
    BY <1>2
  <2>1. CASE i \in 1 .. L /\ j \in 1 .. L
    BY <1>2, <1>3, <1>6, <2>1
  <2>5. /\ \A k \in 1 .. L : u[k] \in Members(s)
        /\ \A k \in 1 .. M : u[L + k] \in Members(t)
    BY <1>2, <1>3
  <2>2. CASE i \in 1 .. L /\ j \notin 1 .. L
    <3>1. PICK k \in 1 .. M : j = L + k
      BY <1>4, <2>2
    <3> QED
      BY <1>6, <2>2, <2>5, <3>1
  <2>3. CASE i \notin 1 .. L /\ j \in 1 .. L
    <3>1. PICK k \in 1 .. M : i = L + k
      BY <1>4, <2>3
    <3> QED
      BY <1>6, <2>3, <2>5, <3>1
  <2>4. CASE i \notin 1 .. L /\ j \notin 1 .. L
    <3>1. PICK k \in 1 .. M : i = L + k
      BY <1>4, <2>4
    <3>2. PICK m \in 1 .. M : j = L + m
      BY <1>4, <2>4
    <3> QED
      BY <1>2, <1>3, <1>6, <3>1, <3>2
  <2> QED
    BY <2>1, <2>2, <2>3, <2>4
<1> QED
  BY <1>1, <1>5, <1>6 DEF u, ConcatDistinct

\* The last part of ListConcat, alone.
LEMMA ListConcatDistinct ==
    ASSUME NEW S, NEW s \in Seq(S), NEW t \in Seq(S), Distinct(s), Distinct(t),
           Members(s) \cap Members(t) = {}
    PROVE  Distinct(s \o t)
  BY ListConcat DEF ConcatDistinct

\* Removing one element, as StreamHTRemove does in a bin.
LEMMA ListRemoveAt ==
    ASSUME NEW S, NEW s \in Seq(S), NEW i \in 1 .. Len(s), Distinct(s)
    PROVE  /\ RemoveAt(s, i) \in Seq(S) /\ Distinct(RemoveAt(s, i))
           /\ Members(RemoveAt(s, i)) = Members(s) \ {s[i]}
<1> DEFINE a == SubSeq(s, 1, i - 1)
           b == SubSeq(s, i + 1, Len(s))
           L == Len(s)
<1>1. L \in Nat /\ i \in 1 .. L /\ \A k, m \in 1 .. L : s[k] = s[m] => k = m
  BY LenProperties DEF Distinct
<1>2. /\ 1 \in 1 .. L + 1 /\ i - 1 \in Nat /\ i - 1 <= L /\ 1 <= (i - 1) + 1
      /\ i + 1 \in 1 .. L + 1 /\ L \in Nat /\ L <= L /\ i + 1 <= L + 1
  <2> HIDE DEF L
  <2> QED
    BY <1>1
<1>3. a \in Seq(S) /\ Members(a) = {s[k] : k \in 1 .. i - 1} /\ Distinct(a)
  <2> DEFINE j == i - 1
  <2>1. j \in Nat /\ j <= Len(s) /\ 1 <= j + 1
    BY <1>2
  <2> HIDE DEF j
  <2>2. LET z == SubSeq(s, 1, j)
        IN  z \in Seq(S) /\ Members(z) = {s[k] : k \in 1 .. j} /\ Distinct(z)
    <3>1. 1 \in 1 .. Len(s) + 1
      BY <1>2
    <3> HIDE DEF L
    <3> QED
      BY <2>1, <3>1, ListSubSeq
  <2> QED
    BY <2>2 DEF j
<1>4. b \in Seq(S) /\ Members(b) = {s[k] : k \in i + 1 .. L} /\ Distinct(b)
  BY <1>2, ListSubSeq
<1>5. /\ \A k \in 1 .. i - 1 : k \in 1 .. L /\ k # i /\ k \notin i + 1 .. L
      /\ \A k \in i + 1 .. L : k \in 1 .. L /\ k # i
      /\ \A k \in 1 .. L : k \in 1 .. i - 1 \/ k = i \/ k \in i + 1 .. L
  <2> HIDE DEF L
  <2> QED
    BY <1>1
<1>6. Members(s) = {s[k] : k \in 1 .. L}
  BY DEF Members
<1> HIDE DEF a, b, L
<1>7. Members(a) \cap Members(b) = {}
  BY <1>1, <1>3, <1>4, <1>5
<1>8. Members(a) \cup Members(b) = Members(s) \ {s[i]}
  BY <1>1, <1>3, <1>4, <1>5, <1>6
<1>9. /\ a \o b \in Seq(S) /\ Members(a \o b) = Members(a) \cup Members(b)
      /\ Distinct(a \o b)
  <2>1. a \o b \in Seq(S) /\ Members(a \o b) = Members(a) \cup Members(b)
    BY <1>3, <1>4, ListConcat
  <2>2. Distinct(a \o b)
    BY <1>3, <1>4, <1>7, ListConcatDistinct
  <2> QED
    BY <2>1, <2>2
<1> QED
  BY <1>8, <1>9 DEF RemoveAt, a, b, L

\* What RBPut leaves of a list and a new fragment: the fragments of the list and
\* of those it frees are the old ones and the new one, each once.
PutFacts(put, list, n) ==
    /\ put.list \in Seq(Nat) /\ put.freed \in Seq(Nat)
    /\ Distinct(put.list) /\ Distinct(put.freed)
    /\ Members(put.list) \cap Members(put.freed) = {}
    /\ Members(put.list) \cup Members(put.freed) = Members(list) \cup {n}
    /\ put.list # << >>

\* RBPut links the new fragment somewhere in the list.
LEMMA LinkedFacts ==
    ASSUME NEW list \in Seq(Nat), NEW n \in Nat, Distinct(list), n \notin Members(list),
           NEW put \in Linked(list, n)
    PROVE  PutFacts(put, list, n)
<1> DEFINE L == Len(list)
<1>1. PICK i \in 1 .. L + 1 : put = [list |-> InsertAt(list, i, n), freed |-> << >>]
  BY DEF Linked
<1> DEFINE a == SubSeq(list, 1, i - 1)
           b == SubSeq(list, i, Len(list))
           c == <<n>>
<1>2. L \in Nat /\ \A k, m \in 1 .. L : list[k] = list[m] => k = m
  BY LenProperties DEF Distinct
<1>3. /\ 1 \in 1 .. L + 1 /\ i - 1 \in Nat /\ i - 1 <= L /\ 1 <= (i - 1) + 1
      /\ i \in 1 .. L + 1 /\ L \in Nat /\ L <= L /\ i <= L + 1
  <2> HIDE DEF L
  <2> QED
    BY <1>2
<1>4. a \in Seq(Nat) /\ Members(a) = {list[k] : k \in 1 .. i - 1} /\ Distinct(a)
  BY <1>3, ListSubSeq
<1>5. b \in Seq(Nat) /\ Members(b) = {list[k] : k \in i .. L} /\ Distinct(b)
  BY <1>3, ListSubSeq
<1>6. c \in Seq(Nat) /\ Members(c) = {n} /\ Distinct(c) /\ Len(c) = 1
  <2>1. c \in Seq(Nat) /\ Len(c) = 1 /\ c[1] = n
    OBVIOUS
  <2> HIDE DEF c
  <2>2. 1 .. 1 = {1}
    OBVIOUS
  <2> QED
    BY <2>1, <2>2 DEF Members, Distinct
<1>7. /\ \A k \in 1 .. i - 1 : k \in 1 .. L /\ k \notin i .. L
      /\ \A k \in i .. L : k \in 1 .. L
      /\ \A k \in 1 .. L : k \in 1 .. i - 1 \/ k \in i .. L
  <2> HIDE DEF L
  <2> QED
    BY <1>2
<1>8. Members(list) = {list[k] : k \in 1 .. L}
  BY DEF Members
<1> HIDE DEF a, b, c, L
<1>9. Members(a) \cap Members(b) = {} /\ Members(a) \cup Members(b) = Members(list)
  BY <1>2, <1>4, <1>5, <1>7, <1>8
<1>10. /\ a \o c \in Seq(Nat) /\ Members(a \o c) = Members(a) \cup {n}
       /\ Distinct(a \o c)
  <2>1. Members(a) \cap Members(c) = {}
    BY <1>6, <1>9
  <2> QED
    <3>1. a \o c \in Seq(Nat) /\ Members(a \o c) = Members(a) \cup Members(c)
      BY <1>4, <1>6, ListConcat, SMTT(20)
    <3>2. Distinct(a \o c)
      BY <1>4, <1>6, <2>1, ListConcatDistinct
    <3> QED
      BY <1>6, <3>1, <3>2
<1>11. /\ (a \o c) \o b \in Seq(Nat)
       /\ Members((a \o c) \o b) = Members(a) \cup {n} \cup Members(b)
       /\ Distinct((a \o c) \o b)
  <2>1. Members(a \o c) \cap Members(b) = {}
    BY <1>9, <1>10
  <2> QED
    <3> DEFINE e == a \o c
    <3>4. e \in Seq(Nat) /\ Distinct(e) /\ Members(e) \cap Members(b) = {}
      BY <1>10, <2>1
    <3>5. Members(e) = Members(a) \cup {n}
      BY <1>10
    <3> HIDE DEF e
    <3>1. e \o b \in Seq(Nat) /\ Members(e \o b) = Members(e) \cup Members(b)
      BY <1>5, <3>4, ListConcat
    <3>2. Distinct(e \o b)
      BY <1>5, <3>4, ListConcatDistinct
    <3>3. /\ e \o b \in Seq(Nat)
          /\ Members(e \o b) = Members(a) \cup {n} \cup Members(b)
          /\ Distinct(e \o b)
      BY <3>1, <3>2, <3>5
    <3> QED
      BY <3>3 DEF e
<1>12. put.list = (a \o c) \o b /\ put.freed = << >>
  BY <1>1 DEF InsertAt, a, b, c
<1>13. << >> \in Seq(Nat) /\ Members(<< >>) = {} /\ Distinct(<< >>)
  BY EmptySeq DEF Members, Distinct
<1>14. put.list # << >>
  BY <1>11, <1>12, <1>13
<1> QED
  BY <1>9, <1>11, <1>12, <1>13, <1>14 DEF PutFacts

\* RBPut merges the new fragment with a run of the list: they are freed.
LEMMA MergedFacts ==
    ASSUME NEW list \in Seq(Nat), NEW n \in Nat, Distinct(list), n \notin Members(list),
           NEW put \in Merged(list, n)
    PROVE  PutFacts(put, list, n)
<1> DEFINE L == Len(list)
<1>1. PICK i \in 1 .. L : \E j \in i .. L : put = MergedWith(list, n, i, j)
  BY LenProperties DEF Merged
<1>2. PICK j \in i .. L : put = MergedWith(list, n, i, j)
  BY <1>1
<1> DEFINE a == SubSeq(list, 1, i - 1)
           b == SubSeq(list, j, Len(list))
           c == <<n>>
           d == SubSeq(list, i, j - 1)
<1>3. L \in Nat /\ \A k, m \in 1 .. L : list[k] = list[m] => k = m
  BY LenProperties DEF Distinct
<1>4. /\ 1 \in 1 .. L + 1 /\ i - 1 \in Nat /\ i - 1 <= L /\ 1 <= (i - 1) + 1
      /\ j \in 1 .. L + 1 /\ L \in Nat /\ L <= L /\ j <= L + 1
      /\ i \in 1 .. L + 1 /\ j - 1 \in Nat /\ j - 1 <= L /\ i <= (j - 1) + 1
  <2> HIDE DEF L
  <2> QED
    BY <1>3
<1>5. a \in Seq(Nat) /\ Members(a) = {list[k] : k \in 1 .. i - 1} /\ Distinct(a)
  BY <1>4, ListSubSeq
<1>6. b \in Seq(Nat) /\ Members(b) = {list[k] : k \in j .. L} /\ Distinct(b)
  BY <1>4, ListSubSeq
<1>7. d \in Seq(Nat) /\ Members(d) = {list[k] : k \in i .. j - 1} /\ Distinct(d)
  BY <1>4, ListSubSeq, SMTT(20)
<1>8. c \in Seq(Nat) /\ Members(c) = {n} /\ Distinct(c) /\ Len(c) = 1
  <2>1. c \in Seq(Nat) /\ Len(c) = 1 /\ c[1] = n
    OBVIOUS
  <2> HIDE DEF c
  <2>2. 1 .. 1 = {1}
    OBVIOUS
  <2> QED
    BY <2>1, <2>2 DEF Members, Distinct
<1>9. /\ \A k \in 1 .. i - 1 : k \in 1 .. L /\ k \notin j .. L /\ k \notin i .. j - 1
      /\ \A k \in i .. j - 1 : k \in 1 .. L /\ k \notin j .. L
      /\ \A k \in j .. L : k \in 1 .. L
      /\ \A k \in 1 .. L : k \in 1 .. i - 1 \/ k \in i .. j - 1 \/ k \in j .. L
      /\ j \in j .. L
  <2> HIDE DEF L
  <2> QED
    BY <1>3
<1>10. Members(list) = {list[k] : k \in 1 .. L}
  BY DEF Members
<1>11. put.list = a \o b /\ put.freed = c \o d
  BY <1>2 DEF MergedWith
<1> HIDE DEF a, b, c, d, L
<1>12. /\ Members(a) \cap Members(b) = {} /\ Members(a) \cap Members(d) = {}
       /\ Members(d) \cap Members(b) = {}
       /\ Members(a) \cup Members(b) \cup Members(d) = Members(list)
       /\ list[j] \in Members(b)
  <2>3. Members(a) \cap Members(b) = {}
    BY <1>3, <1>5, <1>6, <1>9
  <2>4. Members(a) \cap Members(d) = {}
    BY <1>3, <1>5, <1>7, <1>9
  <2>5. Members(d) \cap Members(b) = {}
    BY <1>3, <1>6, <1>7, <1>9
  <2>1. /\ Members(a) \cap Members(b) = {} /\ Members(a) \cap Members(d) = {}
        /\ Members(d) \cap Members(b) = {}
    BY <2>3, <2>4, <2>5
  <2>2. Members(a) \cup Members(b) \cup Members(d) = Members(list)
    BY <1>5, <1>6, <1>7, <1>9, <1>10
  <2> QED
    BY <1>6, <1>9, <2>1, <2>2
<1>13. /\ a \o b \in Seq(Nat) /\ Members(a \o b) = Members(a) \cup Members(b)
       /\ Distinct(a \o b)
  <2>1. Members(a) \cap Members(b) = {}
    BY <1>12
  <2> QED
    <3>1. a \o b \in Seq(Nat) /\ Members(a \o b) = Members(a) \cup Members(b)
      <4>1. a \in Seq(Nat) /\ b \in Seq(Nat)
        BY <1>5, <1>6
      <4> QED
        BY <4>1, ListConcat
    <3>2. Distinct(a \o b)
      BY <1>5, <1>6, <2>1, ListConcatDistinct
    <3> QED
      BY <3>1, <3>2
<1>14. /\ c \o d \in Seq(Nat) /\ Members(c \o d) = {n} \cup Members(d)
       /\ Distinct(c \o d)
  <2>1. Members(c) \cap Members(d) = {}
    BY <1>8, <1>12
  <2> QED
    BY <1>7, <1>8, <2>1, ListConcat, ListConcatDistinct
<1>15. put.list # << >>
  <2>1. Members(<< >>) = {}
    BY EmptySeq DEF Members
  <2> QED
    BY <1>11, <1>12, <1>13, <2>1
<1> QED
  BY <1>11, <1>12, <1>13, <1>14, <1>15 DEF PutFacts

-----------------------------------------------------------------------------
(* Streams, and what keeps the parts of the invariant.                      *)

LEMMA Sizes ==
    /\ Bins \in Nat \ {0} /\ MaxConcurrency \in Nat \ {0} /\ NumBuffers \in Nat \ {0}
    /\ None \notin Nat /\ None \notin Streams /\ None \notin Loads
    /\ Flows \subseteq Nat /\ Flows = 0 .. MaxConcurrency - 1
    /\ IsFiniteSet(Flows)
<1>1. /\ Bins \in Nat \ {0} /\ MaxConcurrency \in Nat \ {0} /\ NumBuffers \in Nat \ {0}
  BY SizesAssumption
<1>2. IsFiniteSet(0 .. MaxConcurrency - 1)
  BY <1>1, FS_Interval
<1> QED
  BY <1>1, <1>2, NoneAssumption, NoStreamAssumption DEF Flows

\* The fields of a stream.
LEMMA StreamFields ==
    ASSUME NEW s \in Streams
    PROVE  /\ s.tuple \in Tuples /\ s.rcv \in Nat /\ s.snd \in Nat
           /\ s.recvbuf \in Nat \cup {None} /\ s.sndbuf \in Nat \cup {None}
           /\ s.fctx \in Seq(Nat) /\ s.accepted \in BOOLEAN
           /\ s.state \in {"SYN_RCVD", "ESTABLISHED", "FIN_WAIT", "CLOSED"}
  BY DEF Streams

\* The streams in use are finitely many.
LEMMA LiveStreams ==
    ASSUME PoolTypes
    PROVE  /\ Live \subseteq Flows /\ IsFiniteSet(Live) /\ None \notin Live
           /\ \A f \in Live : strm[f] \in Streams /\ strm[f] # None /\ f # None /\ f \in Nat
           /\ \A f \in Flows : f \in Live <=> strm[f] # None
<1>1. Live \subseteq Flows
  BY DEF Live
<1>2. IsFiniteSet(Live)
  BY <1>1, Sizes, FS_Subset
<1> QED
  BY <1>1, <1>2, Sizes DEF PoolTypes, Live

\* HashFlow names a bin.
LEMMA HashInRange ==
    ASSUME NEW t \in Tuples
    PROVE  HashFlow(t) \in 0 .. Bins - 1
<1>1. t[1] \in Nat /\ t[2] \in Nat
  BY SizesAssumption
<1>2. t[1] + t[2] \in Nat /\ Bins \in Nat \ {0}
  BY <1>1, Sizes
<1> DEFINE x == t[1] + t[2]
<1> HIDE DEF x
<1>3. x % Bins \in 0 .. Bins - 1
  BY <1>2 DEF x
<1> QED
  BY <1>3 DEF HashFlow, x

\* The search returns the stream that has the tuple, and None if none has.
LEMMA SearchFinds ==
    ASSUME PoolTypes, TableInv, NEW t \in Tuples
    PROVE  /\ StreamHTSearch(t) = None => \A f \in Live : strm[f].tuple # t
           /\ StreamHTSearch(t) # None =>
                 /\ StreamHTSearch(t) \in Live
                 /\ strm[StreamHTSearch(t)].tuple = t
<1> DEFINE bin == ht_stream[HashFlow(t)]
           hits == {i \in 1 .. Len(bin) : EqualFlow(strm[bin[i]].tuple, t)}
           first == CHOOSE i \in hits : \A j \in hits : i <= j
           F == StreamHTSearch(t)
<1>1. F = IF hits = {} THEN None ELSE bin[first]
  BY DEF StreamHTSearch
<1>2. bin \in Seq(Flows) /\ Len(bin) \in Nat
  BY HashInRange, LenProperties DEF PoolTypes
<1>3. \A i \in 1 .. Len(bin) : bin[i] \in Live
  BY HashInRange DEF TableInv
<1>4. CASE hits = {}
  <2>1. ASSUME NEW f \in Live, strm[f].tuple = t PROVE FALSE
    <3>1. f \in Members(bin)
      BY <2>1 DEF TableInv
    <3>2. PICK i \in 1 .. Len(bin) : bin[i] = f
      BY <3>1 DEF Members
    <3>3. i \in hits
      BY <2>1, <3>2 DEF EqualFlow
    <3> QED
      BY <1>4, <3>3
  <2>2. F = None
    BY <1>1, <1>4
  <2> QED
    BY <2>1, <2>2
<1>5. CASE hits # {}
  <2>1. hits \subseteq Nat
    OBVIOUS
  <2> HIDE DEF hits
  <2>2. \E i \in hits : \A j \in hits : i <= j
    BY <1>5, <2>1, LeastNumber
  <2>3. first \in hits
    BY <2>2
  <2>4. first \in 1 .. Len(bin) /\ strm[bin[first]].tuple = t
    BY <2>3 DEF hits, EqualFlow
  <2>5. F = bin[first]
    BY <1>1, <1>5
  <2> HIDE DEF first, bin, F
  <2>6. F \in Live /\ strm[F].tuple = t /\ F # None
    BY <1>3, <2>4, <2>5, LiveStreams
  <2> QED
    BY <2>6 DEF F
<1> QED
  BY <1>4, <1>5

\* What a step leaves of the streams: all of them, or but for some parts.
SameStreams ==
    /\ strm' \in [Flows -> Streams \cup {None}]
    /\ Live' = Live

\* the step leaves alone what PartsInv and TableInv speak of
SameParts ==
    /\ \A f \in Live : /\ strm'[f].tuple = strm[f].tuple
                       /\ strm'[f].rcv = strm[f].rcv
                       /\ strm'[f].snd = strm[f].snd
                       /\ strm'[f].recvbuf = strm[f].recvbuf
    /\ ht_stream' = ht_stream /\ flow_cnt' = flow_cnt
    /\ \A k \in {"flow", "rcv", "snd", "rb"} : mp'[k] = mp[k]

\* the step leaves alone what FragInv speaks of
SameFragments ==
    /\ \A f \in Live : strm'[f].fctx = strm[f].fctx
    /\ free_fragq' = free_fragq /\ free_fragq_int' = free_fragq_int
    /\ mp'["frag"] = mp["frag"]

\* the step leaves the send buffers alone
SameBuffers ==
    /\ \A f \in Live : strm'[f].sndbuf = strm[f].sndbuf
    /\ freeq' = freeq
    /\ mp'["sb"] = mp["sb"]

\* A step that leaves the parts alone keeps what is said of them.
LEMMA KeepsParts ==
    ASSUME PoolTypes, PartsInv, TableInv, SameStreams, SameParts
    PROVE  PartsInv' /\ TableInv'
<1>1. Live' = Live
  BY DEF SameStreams
<1>2. /\ {strm[f].rcv : f \in Live}' = {strm[f].rcv : f \in Live}
      /\ {strm[f].snd : f \in Live}' = {strm[f].snd : f \in Live}
      /\ {strm[f].recvbuf : f \in Live}' = {strm[f].recvbuf : f \in Live}
  BY <1>1 DEF SameParts
<1>3. /\ mp'["flow"] = mp["flow"] /\ mp'["rcv"] = mp["rcv"]
      /\ mp'["snd"] = mp["snd"] /\ mp'["rb"] = mp["rb"]
  BY DEF SameParts
<1>4. \A f, g \in Live :
         \/ strm'[f].rcv = strm'[g].rcv
         \/ strm'[f].snd = strm'[g].snd
         \/ strm'[f].recvbuf = strm'[g].recvbuf /\ strm'[f].recvbuf # None
         => f = g
  BY DEF PartsInv, SameParts
<1>5. PartsInv'
  BY <1>1, <1>2, <1>3, <1>4 DEF PartsInv
<1>6. TableInv'
  <2>1. \A b \in 0 .. Bins - 1 :
          /\ Distinct(ht_stream'[b])
          /\ \A i \in 1 .. Len(ht_stream'[b]) :
                /\ ht_stream'[b][i] \in Live'
                /\ HashFlow(strm'[ht_stream'[b][i]].tuple) = b
    BY <1>1 DEF TableInv, SameParts
  <2>2. \A f \in Live' : f \in Members(ht_stream'[HashFlow(strm'[f].tuple)])
    BY <1>1 DEF TableInv, SameParts
  <2>3. \A f, g \in Live' : strm'[f].tuple = strm'[g].tuple => f = g
    BY <1>1 DEF TableInv, SameParts
  <2>4. flow_cnt' = Cardinality(Live')
    BY <1>1 DEF TableInv, SameParts
  <2> QED
    BY <2>1, <2>2, <2>3, <2>4 DEF TableInv
<1> QED
  BY <1>5, <1>6

\* The same for the fragments.
LEMMA KeepsFragments ==
    ASSUME FragInv, SameStreams, SameFragments
    PROVE  FragInv'
<1>1. Live' = Live
  BY DEF SameStreams
<1>2. Fragments' = Fragments
  <2>1. {Members(strm[f].fctx) : f \in Live}' = {Members(strm[f].fctx) : f \in Live}
    BY <1>1 DEF SameFragments
  <2> QED
    BY <2>1 DEF Fragments, SameFragments
<1> QED
  BY <1>1, <1>2 DEF FragInv, SameFragments

-----------------------------------------------------------------------------
\* A step that replaces the record of one stream.
LEMMA StreamUpdated ==
    ASSUME PoolTypes, NEW f \in Live, NEW r \in Streams, strm' = [strm EXCEPT ![f] = r]
    PROVE  /\ SameStreams /\ strm'[f] = r
           /\ \A g \in Live : g # f => strm'[g] = strm[g]
<1>1. f \in Flows /\ strm[f] # None
  BY LiveStreams
<1>2. /\ strm' \in [Flows -> Streams \cup {None}] /\ strm'[f] = r
      /\ \A g \in Flows : g # f => strm'[g] = strm[g]
  BY <1>1 DEF PoolTypes
<1>3. r # None
  BY Sizes
<1>4. \A g \in Flows : strm'[g] # None <=> strm[g] # None
  BY <1>1, <1>2, <1>3
<1>5. Live' = Live
  BY <1>4 DEF Live
<1> QED
  BY <1>2, <1>5, LiveStreams DEF SameStreams

\* A step that changes the state of one stream.
LEMMA StateUpdated ==
    ASSUME PoolTypes, NEW f \in Live,
           NEW x \in {"SYN_RCVD", "ESTABLISHED", "FIN_WAIT", "CLOSED"},
           strm' = [strm EXCEPT ![f].state = x]
    PROVE  /\ SameStreams
           /\ \A g \in Live : /\ strm'[g].tuple = strm[g].tuple
                              /\ strm'[g].rcv = strm[g].rcv
                              /\ strm'[g].snd = strm[g].snd
                              /\ strm'[g].recvbuf = strm[g].recvbuf
                              /\ strm'[g].fctx = strm[g].fctx
                              /\ strm'[g].sndbuf = strm[g].sndbuf
                              /\ g # f => strm'[g].state = strm[g].state
<1> DEFINE r == [strm[f] EXCEPT !.state = x]
<1>1. strm[f] \in Streams
  BY LiveStreams
<1>2. /\ r \in Streams /\ r.tuple = strm[f].tuple /\ r.rcv = strm[f].rcv
      /\ r.snd = strm[f].snd /\ r.recvbuf = strm[f].recvbuf /\ r.fctx = strm[f].fctx
      /\ r.sndbuf = strm[f].sndbuf
  BY <1>1 DEF Streams
<1>3. strm' = [strm EXCEPT ![f] = r]
  OBVIOUS
<1> HIDE DEF r
<1>4. SameStreams /\ strm'[f] = r /\ \A g \in Live : g # f => strm'[g] = strm[g]
  BY <1>2, <1>3, StreamUpdated
<1> QED
  BY <1>2, <1>4

\* A step that leaves the pools and the parts of streams alone.
LEMMA KeepsAll ==
    ASSUME PoolsInv, SameStreams, SameParts, SameFragments, SameBuffers, mp' = mp,
           sock' \subseteq Flows,
           app' \in [Apps -> Loads \cup {None}]
    PROVE  PoolsInv'
<1>1. PartsInv' /\ TableInv'
  BY KeepsParts DEF PoolsInv
<1>2. FragInv'
  BY KeepsFragments DEF PoolsInv
<1>3. BuffersAreChunks'
  BY DEF PoolsInv, BuffersAreChunks
<1>4. PoolTypes'
  BY DEF PoolsInv, PoolTypes, SameStreams, SameParts, SameFragments, SameBuffers
<1> QED
  BY <1>1, <1>2, <1>3, <1>4 DEF PoolsInv

\* The handshake ends.
LEMMA EstablishedKeeps ==
    ASSUME PoolsInv, NEW t \in Tuples, Established(t)
    PROVE  PoolsInv'
<1> DEFINE f == StreamHTSearch(t)
<1>1. f \in Live /\ strm[f].state = "SYN_RCVD" /\ strm' = [strm EXCEPT ![f].state = "ESTABLISHED"]
  BY SearchFinds DEF PoolsInv, Established
<1>2. /\ mp' = mp /\ ht_stream' = ht_stream /\ flow_cnt' = flow_cnt /\ freeq' = freeq
      /\ free_fragq' = free_fragq /\ free_fragq_int' = free_fragq_int
      /\ sock' = sock /\ app' = app
  BY DEF Established, queues
<1> HIDE DEF f
<1>3. /\ SameStreams
      /\ \A g \in Live : /\ strm'[g].tuple = strm[g].tuple
                         /\ strm'[g].rcv = strm[g].rcv
                         /\ strm'[g].snd = strm[g].snd
                         /\ strm'[g].recvbuf = strm[g].recvbuf
                         /\ strm'[g].fctx = strm[g].fctx
                         /\ strm'[g].sndbuf = strm[g].sndbuf
                         /\ g # f => strm'[g].state = strm[g].state
  BY <1>1, StateUpdated DEF PoolsInv
<1>4. SameParts /\ SameFragments /\ SameBuffers
  BY <1>2, <1>3 DEF SameParts, SameFragments, SameBuffers
<1>5. PoolsInv'
  BY <1>2, <1>3, <1>4, KeepsAll DEF PoolsInv, PoolTypes
<1> QED
  BY <1>5

\* nty_accept marks the stream and gives it a socket.
LEMMA AcceptKeeps ==
    ASSUME PoolsInv, NEW f \in Flows, accept(f)
    PROVE  PoolsInv'
<1> DEFINE r == [strm[f] EXCEPT !.accepted = TRUE]
<1>1. /\ f \in Live /\ strm[f] \in Streams /\ strm' = [strm EXCEPT ![f] = r]
      /\ sock' = sock \cup {f}
  BY LiveStreams DEF PoolsInv, accept
<1>2. /\ mp' = mp /\ ht_stream' = ht_stream /\ flow_cnt' = flow_cnt /\ freeq' = freeq
      /\ free_fragq' = free_fragq /\ free_fragq_int' = free_fragq_int /\ app' = app
  BY DEF accept, queues
<1>3. /\ r \in Streams /\ r.tuple = strm[f].tuple /\ r.rcv = strm[f].rcv
      /\ r.snd = strm[f].snd /\ r.recvbuf = strm[f].recvbuf /\ r.fctx = strm[f].fctx
      /\ r.sndbuf = strm[f].sndbuf /\ r.state = strm[f].state
  BY <1>1 DEF Streams
<1> HIDE DEF r
<1>4. SameStreams /\ strm'[f] = r /\ \A g \in Live : g # f => strm'[g] = strm[g]
  BY <1>1, <1>3, StreamUpdated DEF PoolsInv
<1>5. SameParts /\ SameFragments /\ SameBuffers
  BY <1>2, <1>3, <1>4 DEF SameParts, SameFragments, SameBuffers
<1>6. sock' \subseteq Flows
  BY <1>1, StreamFields DEF PoolsInv, PoolTypes
<1>7. PoolsInv'
  BY <1>2, <1>4, <1>5, <1>6, KeepsAll DEF PoolsInv, PoolTypes
<1> QED
  BY <1>7

\* nty_close drops the socket.
LEMMA CloseKeeps ==
    ASSUME PoolsInv, NEW f \in sock, close(f)
    PROVE  PoolsInv'
<1>1. /\ f \in Flows
      /\ strm' = IF Usable(f) THEN [strm EXCEPT ![f].state = "FIN_WAIT"] ELSE strm
  BY DEF PoolsInv, PoolTypes, close
<1>2. /\ mp' = mp /\ ht_stream' = ht_stream /\ flow_cnt' = flow_cnt /\ freeq' = freeq
      /\ free_fragq' = free_fragq /\ free_fragq_int' = free_fragq_int
      /\ sock' \subseteq Flows /\ app' = app
  BY DEF PoolsInv, PoolTypes, close, queues
<1>3. /\ SameStreams
      /\ \A g \in Live : /\ strm'[g].tuple = strm[g].tuple
                         /\ strm'[g].rcv = strm[g].rcv
                         /\ strm'[g].snd = strm[g].snd
                         /\ strm'[g].recvbuf = strm[g].recvbuf
                         /\ strm'[g].fctx = strm[g].fctx
                         /\ strm'[g].sndbuf = strm[g].sndbuf
                         /\ g # f => strm'[g].state = strm[g].state
  <2>1. CASE Usable(f)
    <3>1. f \in Live
      BY <1>1, <2>1 DEF Usable, Live
    <3>2. strm' = [strm EXCEPT ![f].state = "FIN_WAIT"]
      BY <1>1, <2>1
    <3> QED
      BY <3>1, <3>2, StateUpdated DEF PoolsInv
  <2>2. CASE ~ Usable(f)
    <3>1. strm' = strm
      BY <1>1, <2>2
    <3>2. SameStreams
      BY <3>1 DEF SameStreams, Live, PoolsInv, PoolTypes
    <3> QED
      BY <3>1, <3>2
  <2> QED
    BY <2>1, <2>2
<1>4. SameParts /\ SameFragments /\ SameBuffers
  BY <1>2, <1>3 DEF SameParts, SameFragments, SameBuffers
<1>5. PoolsInv'
  BY <1>2, <1>3, <1>4, KeepsAll DEF PoolsInv, PoolTypes
<1> QED
  BY <1>5

\* SBDequeue loads the first buffer.
LEMMA LoadKeeps ==
    ASSUME PoolsInv, NEW f \in sock, NEW a \in Apps, SBDequeueLoad(a, f)
    PROVE  PoolsInv'
<1> DEFINE l == [stream |-> f, buf |-> Head(freeq)]
<1>1. /\ f \in Live /\ strm[f].sndbuf = None /\ freeq # << >>
      /\ strm[f].state = "ESTABLISHED"
      /\ app' = [app EXCEPT ![a] = l]
  BY DEF PoolsInv, PoolTypes, SBDequeueLoad, Usable, Live
<1>2. /\ mp' = mp /\ ht_stream' = ht_stream /\ flow_cnt' = flow_cnt /\ freeq' = freeq
      /\ free_fragq' = free_fragq /\ free_fragq_int' = free_fragq_int
      /\ sock' = sock /\ strm' = strm
  BY DEF SBDequeueLoad, queues
<1>3. Head(freeq) \in Nat
  BY <1>1, HeadTailProperties DEF PoolsInv, PoolTypes
<1>4. l \in Loads /\ l.stream = f /\ l.buf = Head(freeq)
  BY <1>1, <1>3, LiveStreams DEF Loads, PoolsInv
<1> HIDE DEF l
<1>5. app' \in [Apps -> Loads \cup {None}] /\ app'[a] = l
      /\ \A b \in Apps : b # a => app'[b] = app[b]
  BY <1>1, <1>4 DEF PoolsInv, PoolTypes
<1>6. SameStreams /\ SameParts /\ SameFragments /\ SameBuffers /\ Live' = Live
  BY <1>2 DEF SameStreams, SameParts, SameFragments, SameBuffers, Live, PoolsInv, PoolTypes
<1>7. PoolsInv'
  BY <1>2, <1>5, <1>6, KeepsAll DEF PoolsInv, PoolTypes
<1> QED
  BY <1>7

-----------------------------------------------------------------------------
\* A step that changes send buffers.
LEMMA KeepsButBuffers ==
    ASSUME PoolsInv, SameStreams, SameParts, SameFragments, BuffersAreChunks',
           mp' = [k \in Pools |-> mp'[k]], freeq' \in Seq(Nat),
           sock' = sock, app' \in [Apps -> Loads \cup {None}]
    PROVE  PoolsInv'
<1>1. PartsInv' /\ TableInv'
  BY KeepsParts DEF PoolsInv
<1>2. FragInv'
  BY KeepsFragments DEF PoolsInv
<1>4. PoolTypes'
  BY DEF PoolsInv, PoolTypes, SameStreams, SameParts, SameFragments
<1> QED
  BY <1>1, <1>2, <1>4 DEF PoolsInv

\* A step that gives one stream a send buffer.
LEMMA SndbufUpdated ==
    ASSUME PoolTypes, NEW f \in Live, NEW x \in Nat,
           strm' = [strm EXCEPT ![f].sndbuf = x]
    PROVE  /\ SameStreams /\ strm'[f].sndbuf = x
           /\ \A g \in Live : /\ strm'[g].tuple = strm[g].tuple
                              /\ strm'[g].rcv = strm[g].rcv
                              /\ strm'[g].snd = strm[g].snd
                              /\ strm'[g].recvbuf = strm[g].recvbuf
                              /\ strm'[g].fctx = strm[g].fctx
                              /\ strm'[g].state = strm[g].state
                              /\ g # f => strm'[g].sndbuf = strm[g].sndbuf
<1> DEFINE r == [strm[f] EXCEPT !.sndbuf = x]
<1>1. strm[f] \in Streams
  BY LiveStreams
<1>2. /\ r \in Streams /\ r.tuple = strm[f].tuple /\ r.rcv = strm[f].rcv
      /\ r.snd = strm[f].snd /\ r.recvbuf = strm[f].recvbuf /\ r.fctx = strm[f].fctx
      /\ r.state = strm[f].state /\ r.sndbuf = x
  BY <1>1 DEF Streams
<1>3. strm' = [strm EXCEPT ![f] = r]
  OBVIOUS
<1> HIDE DEF r
<1>4. SameStreams /\ strm'[f] = r /\ \A g \in Live : g # f => strm'[g] = strm[g]
  BY <1>2, <1>3, StreamUpdated
<1> QED
  BY <1>2, <1>4

\* SBDequeue advances _head, and the stream has the buffer loaded before.
LEMMA AdvanceKeeps ==
    ASSUME PoolsInv, NEW a \in Apps, SBDequeueAdvance(a)
    PROVE  PoolsInv'
<1> DEFINE f == app[a].stream
           x == app[a].buf
<1>1. f \in Flows /\ x \in Nat /\ app[a] # None
  BY DEF PoolsInv, PoolTypes, SBDequeueAdvance, Loads
<1>2. /\ freeq' \in {freeq, Tail(freeq)} /\ (freeq = << >> => freeq' = freeq)
      /\ strm' = IF strm[f] = None THEN strm ELSE [strm EXCEPT ![f].sndbuf = x]
      /\ app' = [app EXCEPT ![a] = None]
  BY DEF SBDequeueAdvance
<1>3. /\ mp' = mp /\ ht_stream' = ht_stream /\ flow_cnt' = flow_cnt
      /\ free_fragq' = free_fragq /\ free_fragq_int' = free_fragq_int /\ sock' = sock
  BY DEF SBDequeueAdvance
<1> HIDE DEF f, x
<1>4. freeq' \in Seq(Nat)
  BY <1>2, HeadTailProperties DEF PoolsInv, PoolTypes
<1>5. app' \in [Apps -> Loads \cup {None}] /\ app'[a] = None
  BY <1>2 DEF PoolsInv, PoolTypes
<1>6. SameStreams /\ SameParts /\ SameFragments
  <2>1. CASE strm[f] = None
    BY <1>2, <1>3, <2>1 DEF SameStreams, SameParts, SameFragments, Live, PoolsInv, PoolTypes
  <2>2. CASE strm[f] # None
    <3>1. f \in Live /\ strm' = [strm EXCEPT ![f].sndbuf = x]
      BY <1>1, <1>2, <2>2 DEF Live
    <3>2. /\ SameStreams
          /\ \A g \in Live : /\ strm'[g].tuple = strm[g].tuple
                             /\ strm'[g].rcv = strm[g].rcv
                             /\ strm'[g].snd = strm[g].snd
                             /\ strm'[g].recvbuf = strm[g].recvbuf
                             /\ strm'[g].fctx = strm[g].fctx
      BY <1>1, <3>1, SndbufUpdated DEF PoolsInv
    <3> QED
      BY <1>3, <3>2 DEF SameParts, SameFragments
  <2> QED
    BY <2>1, <2>2
<1>7. PoolsInv'
  <2>1. BuffersAreChunks'
    BY <1>3 DEF PoolsInv, BuffersAreChunks
  <2>2. mp' = [k \in Pools |-> mp'[k]]
    BY <1>3 DEF PoolsInv, PoolTypes
  <2> QED
    BY <1>3, <1>4, <1>5, <1>6, <2>1, <2>2, KeepsButBuffers
<1> QED
  BY <1>7

\* SBInit takes a buffer from the pool, as the queue is empty.
LEMMA SBInitKeeps ==
    ASSUME PoolsInv, NEW f \in sock, NEW a \in Apps, SBInit(a, f)
    PROVE  PoolsInv'
<1> DEFINE m == mp["sb"]
           x == Allocated(m)
<1>1. /\ f \in Live /\ strm[f].sndbuf = None /\ freeq = << >> /\ CanAlloc(m)
      /\ mp' = [mp EXCEPT !["sb"] = nty_mempool_alloc(m)]
      /\ strm' = [strm EXCEPT ![f].sndbuf = x]
  BY DEF PoolsInv, PoolTypes, SBInit, Usable, Live
<1>2. /\ ht_stream' = ht_stream /\ flow_cnt' = flow_cnt /\ freeq' = freeq
      /\ free_fragq' = free_fragq /\ free_fragq_int' = free_fragq_int
      /\ sock' = sock /\ app' = app
  BY DEF SBInit, queues
<1>3. /\ mp' = [k \in Pools |-> mp'[k]] /\ mp'["sb"] = nty_mempool_alloc(m)
      /\ \A k \in {"flow", "rcv", "snd", "rb"} : mp'[k] = mp[k]
      /\ mp'["frag"] = mp["frag"]
  <2>1. mp = [k \in Pools |-> mp[k]]
    BY DEF PoolsInv, PoolTypes
  <2> QED
    BY <1>1, <2>1 DEF Pools
<1> HIDE DEF m, x
<1>4. NumBuffers \in Nat \ {0}
  BY Sizes
<1>5. PICK U : GoodPool(m, NumBuffers, U)
  BY DEF PoolsInv, BuffersAreChunks, m
<1>6. x \in 0 .. NumBuffers - 1 /\ GoodPool(nty_mempool_alloc(m), NumBuffers, U \cup {x})
  BY <1>1, <1>4, <1>5, PoolAlloc DEF x
<1>7. x \in Nat
  BY <1>4, <1>6
<1>8. /\ SameStreams /\ strm'[f].sndbuf = x
      /\ \A g \in Live : /\ strm'[g].tuple = strm[g].tuple
                         /\ strm'[g].rcv = strm[g].rcv
                         /\ strm'[g].snd = strm[g].snd
                         /\ strm'[g].recvbuf = strm[g].recvbuf
                         /\ strm'[g].fctx = strm[g].fctx
                         /\ strm'[g].state = strm[g].state
                         /\ g # f => strm'[g].sndbuf = strm[g].sndbuf
  BY <1>1, <1>7, SndbufUpdated DEF PoolsInv
<1>9. SameParts /\ SameFragments
  BY <1>2, <1>3, <1>8 DEF SameParts, SameFragments
<1>10. BuffersAreChunks'
  BY <1>3, <1>6 DEF BuffersAreChunks
<1>11. PoolsInv'
  BY <1>2, <1>3, <1>8, <1>9, <1>10, KeepsButBuffers DEF PoolsInv, PoolTypes
<1> QED
  BY <1>11

-----------------------------------------------------------------------------
\* the fragments of the streams other than f
Others(f) == UNION {Members(strm[g].fctx) : g \in Live \ {f}}

\* three sets and the fragments of the other streams, all disjoint
Apart(f, A, B, C) ==
    /\ A \cap B = {} /\ A \cap C = {} /\ B \cap C = {}
    /\ Others(f) \cap A = {} /\ Others(f) \cap B = {} /\ Others(f) \cap C = {}

\* The fragments, seen from one stream.
LEMMA FragmentsOf ==
    ASSUME FragInv, NEW f \in Live
    PROVE  /\ Fragments = Others(f) \cup Members(strm[f].fctx) \cup Members(free_fragq)
                            \cup Members(free_fragq_int)
           /\ Apart(f, Members(strm[f].fctx), Members(free_fragq), Members(free_fragq_int))
           /\ Distinct(strm[f].fctx) /\ Distinct(free_fragq) /\ Distinct(free_fragq_int)
<1>1. UNION {Members(strm[g].fctx) : g \in Live} = Others(f) \cup Members(strm[f].fctx)
  BY DEF Others
<1>2. /\ Others(f) \cap Members(strm[f].fctx) = {}
      /\ Others(f) \cap Members(free_fragq) = {}
      /\ Others(f) \cap Members(free_fragq_int) = {}
  BY DEF FragInv, Others
<1>4. Fragments = Others(f) \cup Members(strm[f].fctx) \cup Members(free_fragq)
                    \cup Members(free_fragq_int)
  BY <1>1, Zenon DEF Fragments
<1>5. Apart(f, Members(strm[f].fctx), Members(free_fragq), Members(free_fragq_int))
  BY <1>2 DEF FragInv, Apart
<1> QED
  BY <1>4, <1>5 DEF FragInv

\* Fragments move between a stream, the queues and the pool.
LEMMA FragmentsMoved ==
    ASSUME FragInv, SameStreams, NEW f \in Live,
           \A g \in Live : g # f => strm'[g].fctx = strm[g].fctx,
           Distinct(strm'[f].fctx), Distinct(free_fragq'), Distinct(free_fragq_int'),
           Apart(f, Members(strm'[f].fctx), Members(free_fragq'), Members(free_fragq_int')),
           Provides(mp'["frag"],
                    Others(f) \cup Members(strm'[f].fctx) \cup Members(free_fragq')
                       \cup Members(free_fragq_int'))
    PROVE  FragInv'
<1>1. Live' = Live
  BY DEF SameStreams
<1>2. UNION {Members(strm'[g].fctx) : g \in Live} = Others(f) \cup Members(strm'[f].fctx)
  BY DEF Others
<1>3. Fragments' = Others(f) \cup Members(strm'[f].fctx) \cup Members(free_fragq')
                     \cup Members(free_fragq_int')
  <2>1. Fragments' = (UNION {Members(strm'[g].fctx) : g \in Live})
                       \cup Members(free_fragq') \cup Members(free_fragq_int')
    BY <1>1, Zenon DEF Fragments
  <2> QED
    BY <1>2, <2>1, Zenon
<1>4. \A g \in Live : g # f => Members(strm'[g].fctx) \subseteq Others(f)
  BY DEF Others
<1>5. ASSUME NEW g \in Live
      PROVE  /\ Distinct(strm'[g].fctx)
             /\ Members(strm'[g].fctx) \cap Members(free_fragq') = {}
             /\ Members(strm'[g].fctx) \cap Members(free_fragq_int') = {}
  <2>1. CASE g = f
    BY <2>1 DEF Apart
  <2>2. CASE g # f
    BY <1>4, <2>2 DEF Apart, FragInv
  <2> QED
    BY <2>1, <2>2
<1>6. ASSUME NEW g \in Live, NEW h \in Live, g # h
      PROVE  Members(strm'[g].fctx) \cap Members(strm'[h].fctx) = {}
  <2>1. CASE g = f
    BY <1>4, <1>6, <2>1 DEF Apart
  <2>2. CASE h = f
    BY <1>4, <1>6, <2>2 DEF Apart
  <2>3. CASE g # f /\ h # f
    <3>1. strm'[g].fctx = strm[g].fctx /\ strm'[h].fctx = strm[h].fctx
      BY <2>3
    <3> QED
      BY <1>6, <3>1 DEF FragInv
  <2> QED
    BY <2>1, <2>2, <2>3
<1>7. Members(free_fragq') \cap Members(free_fragq_int') = {}
  BY DEF Apart
<1> QED
  BY <1>1, <1>3, <1>5, <1>6, <1>7 DEF FragInv

\* A queue takes a fragment that is not in it, or has no room for it.
LEMMA FragEnqueued ==
    ASSUME NEW u \in Seq(Nat), Distinct(u), NEW x \in Nat, x \notin Members(u)
    PROVE  /\ RBFragEnqueue(u, x) \in Seq(Nat) /\ Distinct(RBFragEnqueue(u, x))
           /\ Members(RBFragEnqueue(u, x)) \subseteq Members(u) \cup {x}
<1>1. CASE Len(u) >= NumBuffers
  <2>1. RBFragEnqueue(u, x) = u
    BY <1>1 DEF RBFragEnqueue
  <2> QED
    BY <2>1
<1>2. CASE ~ Len(u) >= NumBuffers
  <2>1. RBFragEnqueue(u, x) = Append(u, x)
    BY <1>2 DEF RBFragEnqueue
  <2> QED
    BY <2>1, ListAppend
<1> QED
  BY <1>1, <1>2

\* A step that changes the list of fragments of one stream.
LEMMA FctxUpdated ==
    ASSUME PoolTypes, NEW f \in Live, NEW x \in Seq(Nat),
           strm' = [strm EXCEPT ![f].fctx = x]
    PROVE  /\ SameStreams /\ strm'[f].fctx = x
           /\ \A g \in Live : /\ strm'[g].tuple = strm[g].tuple
                              /\ strm'[g].rcv = strm[g].rcv
                              /\ strm'[g].snd = strm[g].snd
                              /\ strm'[g].recvbuf = strm[g].recvbuf
                              /\ strm'[g].sndbuf = strm[g].sndbuf
                              /\ strm'[g].state = strm[g].state
                              /\ g # f => strm'[g].fctx = strm[g].fctx
<1> DEFINE r == [strm[f] EXCEPT !.fctx = x]
<1>1. strm[f] \in Streams
  BY LiveStreams
<1>2. /\ r \in Streams /\ r.tuple = strm[f].tuple /\ r.rcv = strm[f].rcv
      /\ r.snd = strm[f].snd /\ r.recvbuf = strm[f].recvbuf /\ r.fctx = x
      /\ r.state = strm[f].state /\ r.sndbuf = strm[f].sndbuf
  BY <1>1 DEF Streams
<1>3. strm' = [strm EXCEPT ![f] = r]
  OBVIOUS
<1> HIDE DEF r
<1>4. SameStreams /\ strm'[f] = r /\ \A g \in Live : g # f => strm'[g] = strm[g]
  BY <1>2, <1>3, StreamUpdated
<1> QED
  BY <1>2, <1>4

\* A step that moves fragments only.
LEMMA KeepsButFragments ==
    ASSUME PoolsInv, SameStreams, SameParts, SameBuffers, FragInv',
           mp' = [k \in Pools |-> mp'[k]],
           free_fragq' \in Seq(Nat), free_fragq_int' \in Seq(Nat),
           sock' = sock, app' = app
    PROVE  PoolsInv'
<1>1. PartsInv' /\ TableInv'
  BY KeepsParts DEF PoolsInv
<1>2. PoolTypes'
  BY DEF PoolsInv, PoolTypes, SameStreams, SameParts, SameBuffers
<1>3. BuffersAreChunks'
  BY DEF PoolsInv, BuffersAreChunks, SameBuffers
<1> QED
  BY <1>1, <1>2, <1>3 DEF PoolsInv

\* RBRemove by the application puts the first fragment in its queue.
LEMMA RBRemoveKeeps ==
    ASSUME PoolsInv, NEW f \in sock, RBRemove(f)
    PROVE  PoolsInv'
<1> DEFINE l == strm[f].fctx
           x == Head(l)
<1>1. /\ f \in Live /\ l # << >> /\ strm' = [strm EXCEPT ![f].fctx = Tail(l)]
      /\ free_fragq' = RBFragEnqueue(free_fragq, x)
  BY DEF PoolsInv, PoolTypes, RBRemove, Usable, Live
<1>2. /\ mp' = mp /\ ht_stream' = ht_stream /\ flow_cnt' = flow_cnt /\ freeq' = freeq
      /\ free_fragq_int' = free_fragq_int /\ sock' = sock /\ app' = app
  BY DEF RBRemove
<1>3. l \in Seq(Nat) /\ free_fragq \in Seq(Nat) /\ free_fragq_int \in Seq(Nat)
  BY <1>1, LiveStreams, StreamFields DEF PoolsInv, PoolTypes
<1>4. /\ Fragments = Others(f) \cup Members(l) \cup Members(free_fragq)
                       \cup Members(free_fragq_int)
      /\ Apart(f, Members(l), Members(free_fragq), Members(free_fragq_int))
      /\ Distinct(l) /\ Distinct(free_fragq) /\ Distinct(free_fragq_int)
  BY <1>1, FragmentsOf DEF PoolsInv
<1> HIDE DEF l, x
<1>5. /\ x \in Members(l) /\ Tail(l) \in Seq(Nat) /\ Distinct(Tail(l))
      /\ Members(Tail(l)) = Members(l) \ {x}
  BY <1>1, <1>3, <1>4, ListTail DEF x
<1>6. x \in Nat /\ x \notin Members(free_fragq)
  <2>1. x \in Nat
    BY <1>1, <1>3, HeadTailProperties DEF x
  <2>2. Members(l) \cap Members(free_fragq) = {}
    BY <1>4 DEF Apart
  <2> QED
    BY <1>5, <2>1, <2>2
<1>7. /\ free_fragq' \in Seq(Nat) /\ Distinct(free_fragq')
      /\ Members(free_fragq') \subseteq Members(free_fragq) \cup {x}
  BY <1>1, <1>3, <1>4, <1>6, FragEnqueued
<1>8. /\ SameStreams /\ strm'[f].fctx = Tail(l)
      /\ \A g \in Live : /\ strm'[g].tuple = strm[g].tuple
                         /\ strm'[g].rcv = strm[g].rcv
                         /\ strm'[g].snd = strm[g].snd
                         /\ strm'[g].recvbuf = strm[g].recvbuf
                         /\ strm'[g].sndbuf = strm[g].sndbuf
                         /\ strm'[g].state = strm[g].state
                         /\ g # f => strm'[g].fctx = strm[g].fctx
  BY <1>1, <1>5, FctxUpdated DEF PoolsInv
<1>9. Apart(f, Members(strm'[f].fctx), Members(free_fragq'), Members(free_fragq_int'))
  BY <1>2, <1>4, <1>5, <1>7, <1>8 DEF Apart
<1>10. Others(f) \cup Members(strm'[f].fctx) \cup Members(free_fragq')
         \cup Members(free_fragq_int') \subseteq Fragments
  BY <1>2, <1>4, <1>5, <1>7, <1>8
<1>11. Provides(mp'["frag"],
                Others(f) \cup Members(strm'[f].fctx) \cup Members(free_fragq')
                   \cup Members(free_fragq_int'))
  BY <1>2, <1>10 DEF PoolsInv, FragInv, Provides
<1>12. FragInv'
  <2>1. Distinct(strm'[f].fctx) /\ Distinct(free_fragq') /\ Distinct(free_fragq_int')
    BY <1>2, <1>4, <1>5, <1>7, <1>8
  <2> QED
    BY <1>1, <1>8, <1>9, <1>11, <2>1, FragmentsMoved DEF PoolsInv
<1>13. SameParts /\ SameBuffers
  BY <1>2, <1>8 DEF SameParts, SameBuffers
<1>14. PoolsInv'
  BY <1>2, <1>3, <1>7, <1>8, <1>12, <1>13, KeepsButFragments DEF PoolsInv, PoolTypes
<1> QED
  BY <1>14

\* AllocateFragmentContext takes one fragment from a queue, the pool or the heap;
\* then it is nowhere.
Rest1 == IF Source = "fragq" THEN Tail(free_fragq) ELSE free_fragq

\* the same for the other queue
Rest2 == IF Source = "fragq_int" THEN Tail(free_fragq_int) ELSE free_fragq_int

\* What AllocateFragmentContext returns is in no list and no queue.
LEMMA FragmentTaken ==
    ASSUME PoolsInv, NEW f \in Live, NEW n \in AllocateFragmentContext
    PROVE  /\ n \in Nat /\ n \notin Members(strm[f].fctx)
           /\ Rest1 \in Seq(Nat) /\ Rest2 \in Seq(Nat)
           /\ Distinct(Rest1) /\ Distinct(Rest2)
           /\ Apart(f, Members(strm[f].fctx) \cup {n}, Members(Rest1), Members(Rest2))
           /\ Provides(FragPool,
                       Others(f) \cup (Members(strm[f].fctx) \cup {n}) \cup Members(Rest1)
                          \cup Members(Rest2))
<1> DEFINE A == Members(strm[f].fctx)
           O == Others(f)
<1>1. /\ Fragments = O \cup A \cup Members(free_fragq) \cup Members(free_fragq_int)
      /\ Apart(f, A, Members(free_fragq), Members(free_fragq_int))
      /\ Distinct(free_fragq) /\ Distinct(free_fragq_int)
  BY FragmentsOf DEF PoolsInv
<1>2. /\ A \cap Members(free_fragq) = {} /\ A \cap Members(free_fragq_int) = {}
      /\ Members(free_fragq) \cap Members(free_fragq_int) = {}
      /\ O \cap A = {} /\ O \cap Members(free_fragq) = {}
      /\ O \cap Members(free_fragq_int) = {}
  BY <1>1 DEF Apart
<1>3. /\ free_fragq \in Seq(Nat) /\ free_fragq_int \in Seq(Nat)
      /\ Provides(mp["frag"], Fragments) /\ AllFrags \in Nat \ {0}
      /\ NumBuffers \in Nat \ {0} /\ Heap \in Nat
  BY Sizes, SizesAssumption DEF PoolsInv, PoolTypes, FragInv, AllFrags
<1>4. PICK U : GoodPool(mp["frag"], AllFrags, U) /\ Fragments \subseteq U
  BY <1>3 DEF Provides
<1>5. Source \in {"fragq", "fragq_int", "pool", "heap"}
  BY DEF Source
<1> HIDE DEF A, O
<1>6. ASSUME n \in Nat, n \notin A, n \notin O,
             Rest1 \in Seq(Nat), Rest2 \in Seq(Nat), Distinct(Rest1), Distinct(Rest2),
             Members(Rest1) = Members(free_fragq) \ {n},
             Members(Rest2) = Members(free_fragq_int) \ {n},
             Provides(FragPool, Fragments \cup {n})
      PROVE  /\ Apart(f, A \cup {n}, Members(Rest1), Members(Rest2))
             /\ Provides(FragPool,
                         O \cup (A \cup {n}) \cup Members(Rest1) \cup Members(Rest2))
  <2>1. Apart(f, A \cup {n}, Members(Rest1), Members(Rest2))
    BY <1>2, <1>6 DEF Apart, O
  <2>2. O \cup (A \cup {n}) \cup Members(Rest1) \cup Members(Rest2) = Fragments \cup {n}
    BY <1>1, <1>6
  <2> QED
    BY <1>6, <2>1, <2>2
<1>7. CASE Source = "fragq"
  <2>1. free_fragq # << >> /\ n = Head(free_fragq)
    BY <1>7 DEF AllocateFragmentContext, Source
  <2>2. Rest1 = Tail(free_fragq) /\ Rest2 = free_fragq_int /\ FragPool = mp["frag"]
    BY <1>7 DEF Rest1, Rest2, FragPool
  <2>3. /\ n \in Members(free_fragq) /\ n \in Nat /\ Rest1 \in Seq(Nat) /\ Distinct(Rest1)
        /\ Members(Rest1) = Members(free_fragq) \ {n}
    BY <1>1, <1>3, <2>1, <2>2, ListTail
  <2>4. n \notin A /\ n \notin O /\ n \notin Members(free_fragq_int)
    BY <1>2, <2>3
  <2>5. Fragments \cup {n} = Fragments
    BY <1>1, <2>3
  <2>6. Members(Rest2) = Members(free_fragq_int) \ {n}
    BY <2>2, <2>4
  <2> QED
    BY <1>1, <1>3, <1>6, <2>2, <2>3, <2>4, <2>5, <2>6 DEF A, O
<1>8. CASE Source = "fragq_int"
  <2>1. free_fragq_int # << >> /\ n = Head(free_fragq_int)
    BY <1>8 DEF AllocateFragmentContext, Source
  <2>2. Rest2 = Tail(free_fragq_int) /\ Rest1 = free_fragq /\ FragPool = mp["frag"]
    BY <1>8 DEF Rest1, Rest2, FragPool
  <2>3. /\ n \in Members(free_fragq_int) /\ n \in Nat /\ Rest2 \in Seq(Nat)
        /\ Distinct(Rest2) /\ Members(Rest2) = Members(free_fragq_int) \ {n}
    BY <1>1, <1>3, <2>1, <2>2, ListTail
  <2>4. n \notin A /\ n \notin O /\ n \notin Members(free_fragq)
    BY <1>2, <2>3
  <2>5. Fragments \cup {n} = Fragments
    BY <1>1, <2>3
  <2>6. Members(Rest1) = Members(free_fragq) \ {n}
    BY <2>2, <2>4
  <2> QED
    BY <1>1, <1>3, <1>6, <2>2, <2>3, <2>4, <2>5, <2>6 DEF A, O
<1>9. CASE Source = "pool"
  <2>1. CanAlloc(mp["frag"]) /\ n = Allocated(mp["frag"])
    BY <1>9 DEF AllocateFragmentContext, Source
  <2>2. /\ Rest1 = free_fragq /\ Rest2 = free_fragq_int
        /\ FragPool = nty_mempool_alloc(mp["frag"])
    BY <1>9 DEF Rest1, Rest2, FragPool
  <2>3. /\ n \in 0 .. AllFrags - 1 /\ n \notin U
        /\ GoodPool(FragPool, AllFrags, U \cup {n})
    BY <1>3, <1>4, <2>1, <2>2, PoolAlloc
  <2>4. n \in Nat /\ n \notin Fragments /\ Provides(FragPool, Fragments \cup {n})
    BY <1>3, <1>4, <2>3 DEF Provides
  <2>5. /\ n \notin A /\ n \notin O /\ Members(Rest1) = Members(free_fragq) \ {n}
        /\ Members(Rest2) = Members(free_fragq_int) \ {n}
    BY <1>1, <2>2, <2>4
  <2> QED
    BY <1>1, <1>3, <1>6, <2>2, <2>4, <2>5 DEF A, O
<1>10. CASE Source = "heap"
  <2>1. /\ free_fragq = << >> /\ free_fragq_int = << >> /\ ~ CanAlloc(mp["frag"])
        /\ n \in Callocs
    BY <1>10 DEF AllocateFragmentContext, Source
  <2>2. /\ Rest1 = free_fragq /\ Rest2 = free_fragq_int /\ FragPool = mp["frag"]
    BY <1>10 DEF Rest1, Rest2, FragPool
  <2>3. n \in NumBuffers .. AllFrags - 1 /\ n \notin InUse
    <3>1. Size("frag") = NumBuffers
      BY DEF Size
    <3>2. Size("frag") + Heap - 1 = AllFrags - 1
      BY <1>3, <3>1 DEF AllFrags
    <3> QED
      BY <2>1, <3>1, <3>2 DEF Callocs
  <2>4. n \in Nat /\ n \in 0 .. AllFrags - 1
    BY <1>3, <2>3
  <2>5. n \in U
    <3>1. U \subseteq 0 .. AllFrags - 1
      BY <1>4 DEF GoodPool
    <3>2. /\ Cardinality(U) \in Nat
          /\ Cardinality(U) = AllFrags => U = 0 .. AllFrags - 1
      BY <1>3, <3>1, PoolNumbers
    <3>3. mp["frag"].mp_free_chunks = AllFrags - Cardinality(U)
          /\ mp["frag"].mp_free_chunks \in Nat
      BY <1>4 DEF GoodPool, PoolsOf
    <3>4. mp["frag"].mp_free_chunks = 0
      BY <2>1, <3>3 DEF CanAlloc
    <3> QED
      BY <1>3, <2>4, <3>2, <3>3, <3>4
  <2>6. ASSUME NEW g \in Live PROVE n \notin Members(strm[g].fctx)
    <3>1. strm[g].fctx \in Seq(Nat) /\ g \in Flows /\ strm[g] # None
      BY LiveStreams, StreamFields DEF PoolsInv
    <3>2. ToSet(strm[g].fctx) = Members(strm[g].fctx)
      BY <3>1, LenProperties DEF ToSet, Members
    <3> QED
      BY <2>3, <3>1, <3>2 DEF InUse
  <2>7. n \notin A /\ n \notin O
    BY <2>6 DEF A, O, Others
  <2>8. Members(free_fragq) = {} /\ Members(free_fragq_int) = {}
    BY <2>1, EmptySeq DEF Members
  <2>9. Provides(FragPool, Fragments \cup {n})
    BY <1>4, <2>2, <2>5 DEF Provides
  <2>10. /\ Members(Rest1) = Members(free_fragq) \ {n}
         /\ Members(Rest2) = Members(free_fragq_int) \ {n}
    BY <2>2, <2>8
  <2> QED
    BY <1>1, <1>3, <1>6, <2>2, <2>4, <2>7, <2>9, <2>10 DEF A, O
<1> QED
  BY <1>5, <1>7, <1>8, <1>9, <1>10

-----------------------------------------------------------------------------
\* What a stream keeps of the list, and the queue of the stack thread, after the
\* first out fragments (none or one) are taken out again.
KeptList(list, out) == SubSeq(list, out + 1, Len(list))

\* the queue of the stack thread then
StackQueue(u, list, out) == IF out = 0 THEN u ELSE RBFragEnqueue(u, Head(list))

\* Taking the first fragment out again moves it to the queue of the stack thread,
\* if that has room.
LEMMA TakenOut ==
    ASSUME NEW list \in Seq(Nat), Distinct(list), list # << >>,
           NEW u \in Seq(Nat), Distinct(u), Members(list) \cap Members(u) = {},
           NEW out \in {0, 1}
    PROVE  LET kept == KeptList(list, out)
               left == StackQueue(u, list, out)
           IN  /\ kept \in Seq(Nat) /\ Distinct(kept) /\ left \in Seq(Nat) /\ Distinct(left)
               /\ Members(kept) \cap Members(left) = {}
               /\ Members(kept) \cup Members(left) \subseteq Members(list) \cup Members(u)
<1> DEFINE kept == KeptList(list, out)
           left == StackQueue(u, list, out)
<1> SUFFICES /\ kept \in Seq(Nat) /\ Distinct(kept) /\ left \in Seq(Nat) /\ Distinct(left)
             /\ Members(kept) \cap Members(left) = {}
             /\ Members(kept) \cup Members(left) \subseteq Members(list) \cup Members(u)
  OBVIOUS
<1>1. CASE out = 0
  <2>1. left = u
    BY <1>1 DEF StackQueue
  <2>2. kept = list
    <3>1. out + 1 = 1
      BY <1>1
    <3> QED
      BY <3>1, SubSeqFull DEF KeptList
  <2> HIDE DEF kept, left
  <2> QED
    BY <2>1, <2>2
<1>2. CASE out = 1
  <2>1. left = RBFragEnqueue(u, Head(list))
    BY <1>2 DEF StackQueue
  <2>2. kept = Tail(list)
    <3>1. out + 1 = 2
      BY <1>2
    <3> QED
      BY <3>1, TailIsSubSeq DEF KeptList
  <2> HIDE DEF kept, left
  <2>3. /\ Head(list) \in Members(list) /\ kept \in Seq(Nat) /\ Distinct(kept)
        /\ Members(kept) = Members(list) \ {Head(list)}
    <3>1. /\ Head(list) \in Members(list) /\ Tail(list) \in Seq(Nat)
          /\ Distinct(Tail(list)) /\ Members(Tail(list)) = Members(list) \ {Head(list)}
      BY ListTail
    <3> QED
      BY <2>2, <3>1
  <2>4. Head(list) \in Nat /\ Head(list) \notin Members(u)
    BY <2>3, HeadTailProperties
  <2>5. /\ left \in Seq(Nat) /\ Distinct(left)
        /\ Members(left) \subseteq Members(u) \cup {Head(list)}
    BY <2>1, <2>4, FragEnqueued
  <2> QED
    BY <2>3, <2>5
<1> HIDE DEF kept, left
<1> QED
  BY <1>1, <1>2

\* FreeFragmentContext gives every fragment of a list back, and no other.
LEMMA PoolFreeList ==
    ASSUME NEW n \in Nat \ {0}, NEW m, NEW U, GoodPool(m, n, U),
           NEW frags \in Seq(Nat), Distinct(frags), Members(frags) \subseteq U
    PROVE  GoodPool(FreeFragmentContext(m, frags), n, U \ Members(frags))
<1>1. \A i \in 1 .. Len(frags) : frags[i] \in U
  BY DEF Members
<1>2. frags \in Seq(U)
  <2>1. Len(frags) \in Nat /\ DOMAIN frags = 1 .. Len(frags) /\ frags \in [1 .. Len(frags) -> Nat]
    BY LenProperties
  <2>2. frags \in [1 .. Len(frags) -> U]
    BY <1>1, <2>1
  <2> QED
    BY <2>1, <2>2, SeqDef
<1>3. \A i, j \in 1 .. Len(frags) : frags[i] = frags[j] => i = j
  BY DEF Distinct
<1>4. GoodPool(FreeFragmentContext(m, frags), n, U \ {frags[i] : i \in 1 .. Len(frags)})
  BY <1>2, <1>3, PoolFreeAll
<1> QED
  BY <1>4 DEF Members

\* RBPut: a fragment taken, linked or merged, and perhaps taken out again.
LEMMA PayloadKeeps ==
    ASSUME PoolsInv, NEW t \in Tuples, process_payload(t)
    PROVE  PoolsInv'
<1> DEFINE f == StreamHTSearch(t)
           l == strm[f].fctx
<1>1. f # None /\ f \in Live
  BY SearchFinds DEF PoolsInv, process_payload
<1>2. PICK n \in AllocateFragmentContext :
        \E put \in Linked(l, n) \cup Merged(l, n) :
          \E out \in IF strm[f].state = "FIN_WAIT" THEN {0, 1} ELSE {0} :
            /\ strm' = [strm EXCEPT
                  ![f].fctx = SubSeq(put.list, out + 1, Len(put.list))]
            /\ free_fragq' = Rest1
            /\ free_fragq_int' = IF out = 0 THEN Rest2
                                 ELSE RBFragEnqueue(Rest2, Head(put.list))
            /\ mp' = [mp EXCEPT
                        !["frag"] = FreeFragmentContext(FragPool, put.freed)]
  BY DEF process_payload, Rest1, Rest2
<1>3. PICK put \in Linked(l, n) \cup Merged(l, n) :
        \E out \in IF strm[f].state = "FIN_WAIT" THEN {0, 1} ELSE {0} :
          /\ strm' = [strm EXCEPT
                ![f].fctx = SubSeq(put.list, out + 1, Len(put.list))]
          /\ free_fragq' = Rest1
          /\ free_fragq_int' = IF out = 0 THEN Rest2
                               ELSE RBFragEnqueue(Rest2, Head(put.list))
          /\ mp' = [mp EXCEPT
                      !["frag"] = FreeFragmentContext(FragPool, put.freed)]
  BY <1>2
<1>4. PICK out \in {0, 1} :
          /\ strm' = [strm EXCEPT
                ![f].fctx = SubSeq(put.list, out + 1, Len(put.list))]
          /\ free_fragq' = Rest1
          /\ free_fragq_int' = IF out = 0 THEN Rest2
                               ELSE RBFragEnqueue(Rest2, Head(put.list))
          /\ mp' = [mp EXCEPT
                      !["frag"] = FreeFragmentContext(FragPool, put.freed)]
  BY <1>3
<1>5. /\ ht_stream' = ht_stream /\ flow_cnt' = flow_cnt /\ freeq' = freeq
      /\ sock' = sock /\ app' = app
  BY DEF process_payload
<1>6. /\ mp' = [k \in Pools |-> mp'[k]]
      /\ mp'["frag"] = FreeFragmentContext(FragPool, put.freed)
      /\ \A k \in {"flow", "rcv", "snd", "rb"} : mp'[k] = mp[k]
      /\ mp'["sb"] = mp["sb"]
  <2>1. mp = [k \in Pools |-> mp[k]]
    BY DEF PoolsInv, PoolTypes
  <2> DEFINE m == FreeFragmentContext(FragPool, put.freed)
  <2>2. mp' = [mp EXCEPT !["frag"] = m]
    BY <1>4
  <2> HIDE DEF m
  <2>3. /\ mp' = [k \in Pools |-> mp'[k]] /\ mp'["frag"] = m
        /\ \A k \in {"flow", "rcv", "snd", "rb"} : mp'[k] = mp[k]
        /\ mp'["sb"] = mp["sb"]
    BY <2>1, <2>2 DEF Pools
  <2> QED
    BY <2>3 DEF m
<1> DEFINE kept == KeptList(put.list, out)
           left == StackQueue(Rest2, put.list, out)
<1>7. strm' = [strm EXCEPT ![f].fctx = kept] /\ free_fragq_int' = left
  BY <1>4 DEF KeptList, StackQueue
<1> HIDE DEF f
<1>8. l \in Seq(Nat) /\ AllFrags \in Nat \ {0}
  BY <1>1, LiveStreams, StreamFields, Sizes, SizesAssumption DEF PoolsInv, AllFrags
<1>9. Distinct(l)
  BY <1>1, FragmentsOf DEF PoolsInv
<1> DEFINE O == Others(f)
           A == Members(l) \cup {n}
           W == O \cup A \cup Members(Rest1) \cup Members(Rest2)
<1>10. /\ n \in Nat /\ n \notin Members(l) /\ Rest1 \in Seq(Nat) /\ Rest2 \in Seq(Nat)
       /\ Distinct(Rest1) /\ Distinct(Rest2)
       /\ Apart(f, A, Members(Rest1), Members(Rest2))
       /\ Provides(FragPool, W)
  BY <1>1, FragmentTaken
<1> HIDE DEF l
<1>11. PutFacts(put, l, n)
  BY <1>8, <1>9, <1>10, LinkedFacts, MergedFacts
<1>12. /\ put.list \in Seq(Nat) /\ put.freed \in Seq(Nat)
       /\ Distinct(put.list) /\ Distinct(put.freed)
       /\ Members(put.list) \cap Members(put.freed) = {}
       /\ Members(put.list) \cup Members(put.freed) = A
       /\ put.list # << >>
  BY <1>11 DEF PutFacts
<1>13. /\ A \cap Members(Rest1) = {} /\ A \cap Members(Rest2) = {}
       /\ Members(Rest1) \cap Members(Rest2) = {}
       /\ O \cap A = {} /\ O \cap Members(Rest1) = {} /\ O \cap Members(Rest2) = {}
  BY <1>10 DEF Apart
<1> HIDE DEF O, A
<1>14. Provides(mp'["frag"],
                O \cup Members(put.list) \cup Members(Rest1) \cup Members(Rest2))
  <2> DEFINE frags == put.freed
             V == O \cup Members(put.list) \cup Members(Rest1) \cup Members(Rest2)
  <2>1. PICK U : GoodPool(FragPool, AllFrags, U) /\ W \subseteq U
    BY <1>10 DEF Provides
  <2>2. Members(frags) \subseteq U /\ Distinct(frags) /\ frags \in Seq(Nat)
    BY <1>12, <2>1
  <2>3. V \subseteq U \ Members(frags)
    BY <1>12, <1>13, <2>1
  <2>4. AllFrags \in Nat \ {0} /\ GoodPool(FragPool, AllFrags, U)
    BY <1>8, <2>1
  <2> HIDE DEF W, V, frags
  <2>5. GoodPool(FreeFragmentContext(FragPool, frags), AllFrags, U \ Members(frags))
    BY <2>2, <2>4, PoolFreeList
  <2>6. mp'["frag"] = FreeFragmentContext(FragPool, frags)
    BY <1>6 DEF frags
  <2>7. Provides(mp'["frag"], V)
    BY <2>3, <2>5, <2>6 DEF Provides
  <2> QED
    BY <2>7 DEF V
<1>15. Members(put.list) \cap Members(Rest2) = {} /\ Members(put.list) \subseteq A
  BY <1>12, <1>13
<1>16. /\ kept \in Seq(Nat) /\ Distinct(kept) /\ left \in Seq(Nat) /\ Distinct(left)
       /\ Members(kept) \cap Members(left) = {}
       /\ Members(kept) \cup Members(left) \subseteq Members(put.list) \cup Members(Rest2)
  <2> DEFINE pl == put.list
  <2>2. Rest2 \in Seq(Nat) /\ Distinct(Rest2)
    BY <1>10
  <2>3. /\ pl \in Seq(Nat) /\ Distinct(pl) /\ pl # << >>
        /\ Members(pl) \cap Members(Rest2) = {}
    BY <1>12, <1>15
  <2> HIDE DEF pl
  <2>4. LET k == KeptList(pl, out)
            j == StackQueue(Rest2, pl, out)
        IN  /\ k \in Seq(Nat) /\ Distinct(k) /\ j \in Seq(Nat) /\ Distinct(j)
            /\ Members(k) \cap Members(j) = {}
            /\ Members(k) \cup Members(j) \subseteq Members(pl) \cup Members(Rest2)
    BY <2>2, <2>3, TakenOut
  <2> QED
    BY <2>4 DEF pl
<1> HIDE DEF kept, left
<1>17. /\ SameStreams /\ strm'[f].fctx = kept
       /\ \A g \in Live : /\ strm'[g].tuple = strm[g].tuple
                          /\ strm'[g].rcv = strm[g].rcv
                          /\ strm'[g].snd = strm[g].snd
                          /\ strm'[g].recvbuf = strm[g].recvbuf
                          /\ strm'[g].sndbuf = strm[g].sndbuf
                          /\ strm'[g].state = strm[g].state
                          /\ g # f => strm'[g].fctx = strm[g].fctx
  BY <1>1, <1>7, <1>16, FctxUpdated DEF PoolsInv
<1>18. free_fragq' = Rest1 /\ free_fragq_int' = left
  BY <1>4, <1>7
<1>19. Apart(f, Members(kept), Members(Rest1), Members(left))
  <2>1. Members(kept) \cup Members(left) \subseteq A \cup Members(Rest2)
    BY <1>15, <1>16
  <2> QED
    BY <1>13, <1>16, <2>1 DEF Apart, O
<1>20. O \cup Members(kept) \cup Members(Rest1) \cup Members(left)
          \subseteq O \cup Members(put.list) \cup Members(Rest1) \cup Members(Rest2)
  BY <1>16
<1>21. FragInv'
  <2>1. Provides(mp'["frag"],
                 Others(f) \cup Members(strm'[f].fctx) \cup Members(free_fragq')
                    \cup Members(free_fragq_int'))
    BY <1>14, <1>17, <1>18, <1>20 DEF O, Provides
  <2>2. Distinct(strm'[f].fctx) /\ Distinct(free_fragq') /\ Distinct(free_fragq_int')
    BY <1>10, <1>16, <1>17, <1>18
  <2>3. Apart(f, Members(strm'[f].fctx), Members(free_fragq'), Members(free_fragq_int'))
    BY <1>17, <1>18, <1>19
  <2> QED
    BY <1>1, <1>17, <2>1, <2>2, <2>3, FragmentsMoved DEF PoolsInv
<1>22. SameParts /\ SameBuffers
  BY <1>5, <1>6, <1>17 DEF SameParts, SameBuffers
<1>23. PoolsInv'
  BY <1>5, <1>6, <1>10, <1>16, <1>17, <1>18, <1>21, <1>22, KeepsButFragments
<1> QED
  BY <1>23

-----------------------------------------------------------------------------
\* A new stream.
LEMMA StreamAdded ==
    ASSUME PoolTypes, NEW f \in Flows, f \notin Live, NEW r \in Streams,
           strm' = [strm EXCEPT ![f] = r]
    PROVE  /\ strm' \in [Flows -> Streams \cup {None}] /\ strm'[f] = r
           /\ Live' = Live \cup {f}
           /\ \A g \in Live : g # f /\ strm'[g] = strm[g]
<1>1. /\ strm' \in [Flows -> Streams \cup {None}] /\ strm'[f] = r
      /\ \A g \in Flows : g # f => strm'[g] = strm[g]
  BY DEF PoolTypes
<1>2. r # None
  BY Sizes
<1>3. Live' = Live \cup {f}
  BY <1>1, <1>2 DEF Live
<1> QED
  BY <1>1, <1>3, LiveStreams

\* The parts of a new stream come from the pools.
LEMMA NewStream ==
    ASSUME PoolsInv, NEW t \in Tuples, nty_create_stream(t)
    PROVE  /\ Allocated(mp["flow"]) \in Flows \ Live
           /\ Stream(t) \in Streams
           /\ Stream(t).tuple = t
           /\ Stream(t).rcv = Allocated(mp["rcv"])
           /\ Stream(t).snd = Allocated(mp["snd"])
           /\ Stream(t).recvbuf = (IF CanAlloc(mp["rb"]) THEN Allocated(mp["rb"]) ELSE None)
           /\ Stream(t).sndbuf = None /\ Stream(t).fctx = << >>
<1>1. CanAlloc(mp["flow"]) /\ CanAlloc(mp["rcv"]) /\ CanAlloc(mp["snd"])
  BY DEF nty_create_stream
<1>2. /\ GoodPool(mp["flow"], MaxConcurrency, Live)
      /\ GoodPool(mp["rcv"], MaxConcurrency, {strm[f].rcv : f \in Live})
      /\ GoodPool(mp["snd"], MaxConcurrency, {strm[f].snd : f \in Live})
      /\ GoodPool(mp["rb"], NumBuffers, {strm[f].recvbuf : f \in Live} \ {None})
  BY DEF PoolsInv, PartsInv
<1>3. MaxConcurrency \in Nat \ {0} /\ NumBuffers \in Nat \ {0} /\ Flows = 0 .. MaxConcurrency - 1
  BY Sizes
<1>4. Allocated(mp["flow"]) \in (0 .. MaxConcurrency - 1) \ Live
  BY <1>1, <1>2, <1>3, PoolAlloc
<1>5. Allocated(mp["rcv"]) \in 0 .. MaxConcurrency - 1
  BY <1>1, <1>2, <1>3, PoolAlloc
<1>6. Allocated(mp["snd"]) \in 0 .. MaxConcurrency - 1
  BY <1>1, <1>2, <1>3, PoolAlloc
<1>7. CanAlloc(mp["rb"]) => Allocated(mp["rb"]) \in 0 .. NumBuffers - 1
  BY <1>2, <1>3, PoolAlloc
<1>8. /\ Obtained("rcv") = Allocated(mp["rcv"]) /\ Obtained("snd") = Allocated(mp["snd"])
      /\ Obtained("rb") = IF CanAlloc(mp["rb"]) THEN Allocated(mp["rb"]) ELSE None
  BY <1>1 DEF Obtained
<1>9. /\ Obtained("rcv") \in Nat /\ Obtained("snd") \in Nat
      /\ Obtained("rb") \in Nat \cup {None}
  BY <1>3, <1>5, <1>6, <1>7, <1>8
<1>10. << >> \in Seq(Nat)
  BY EmptySeq
<1>11. /\ Stream(t) \in Streams /\ Stream(t).tuple = t
       /\ Stream(t).rcv = Obtained("rcv") /\ Stream(t).snd = Obtained("snd")
       /\ Stream(t).recvbuf = Obtained("rb")
       /\ Stream(t).sndbuf = None /\ Stream(t).fctx = << >>
  BY <1>9, <1>10 DEF Stream, Streams
<1> QED
  BY <1>3, <1>4, <1>8, <1>11

\* The parts of a new stream are chunks that no stream has.
LEMMA CreateParts ==
    ASSUME PoolsInv, NEW t \in Tuples, nty_create_stream(t)
    PROVE  PartsInv'
<1> DEFINE f == Allocated(mp["flow"])
           r == Stream(t)
<1>1. /\ f \in Flows /\ f \notin Live /\ r \in Streams /\ r.tuple = t
      /\ r.rcv = Allocated(mp["rcv"]) /\ r.snd = Allocated(mp["snd"])
      /\ r.recvbuf = (IF CanAlloc(mp["rb"]) THEN Allocated(mp["rb"]) ELSE None)
  BY NewStream
<1>2. strm' = [strm EXCEPT ![f] = r]
  BY DEF nty_create_stream
<1>3. /\ CanAlloc(mp["flow"]) /\ CanAlloc(mp["rcv"]) /\ CanAlloc(mp["snd"])
  BY DEF nty_create_stream
<1>4. /\ mp'["flow"] = nty_mempool_alloc(mp["flow"])
      /\ mp'["rcv"] = nty_mempool_alloc(mp["rcv"])
      /\ mp'["snd"] = nty_mempool_alloc(mp["snd"])
      /\ mp'["rb"] = IF CanAlloc(mp["rb"]) THEN nty_mempool_alloc(mp["rb"]) ELSE mp["rb"]
  BY <1>3 DEF nty_create_stream, Pools
<1> HIDE DEF f, r
<1>5. /\ strm'[f] = r /\ Live' = Live \cup {f}
      /\ \A g \in Live : g # f /\ strm'[g] = strm[g]
  BY <1>1, <1>2, StreamAdded DEF PoolsInv
<1>6. MaxConcurrency \in Nat \ {0} /\ NumBuffers \in Nat \ {0} /\ None \notin Nat
  BY Sizes
<1>7. GoodPool(mp'["flow"], MaxConcurrency, Live')
  <2>1. GoodPool(mp["flow"], MaxConcurrency, Live)
    BY DEF PoolsInv, PartsInv
  <2>2. GoodPool(nty_mempool_alloc(mp["flow"]), MaxConcurrency, Live \cup {f})
    BY <1>3, <1>6, <2>1, PoolAlloc DEF f
  <2> QED
    BY <1>4, <1>5, <2>2
<1>8. /\ GoodPool(mp'["rcv"], MaxConcurrency, {strm'[g].rcv : g \in Live'})
      /\ \A g \in Live : strm'[g].rcv # strm'[f].rcv
  <2> DEFINE U == {strm[g].rcv : g \in Live}
             x == Allocated(mp["rcv"])
  <2>1. GoodPool(mp["rcv"], MaxConcurrency, U)
    BY DEF PoolsInv, PartsInv
  <2>2. {strm'[g].rcv : g \in Live'} = U \cup {x}
    BY <1>1, <1>5
  <2>4. x \notin U => \A g \in Live : strm'[g].rcv # strm'[f].rcv
    BY <1>1, <1>5
  <2> HIDE DEF U
  <2>3. x \notin U /\ GoodPool(nty_mempool_alloc(mp["rcv"]), MaxConcurrency, U \cup {x})
    BY <1>3, <1>6, <2>1, PoolAlloc
  <2> QED
    BY <1>4, <2>2, <2>3, <2>4
<1>9. /\ GoodPool(mp'["snd"], MaxConcurrency, {strm'[g].snd : g \in Live'})
      /\ \A g \in Live : strm'[g].snd # strm'[f].snd
  <2> DEFINE U == {strm[g].snd : g \in Live}
             x == Allocated(mp["snd"])
  <2>1. GoodPool(mp["snd"], MaxConcurrency, U)
    BY DEF PoolsInv, PartsInv
  <2>2. {strm'[g].snd : g \in Live'} = U \cup {x}
    BY <1>1, <1>5
  <2>4. x \notin U => \A g \in Live : strm'[g].snd # strm'[f].snd
    BY <1>1, <1>5
  <2> HIDE DEF U
  <2>3. x \notin U /\ GoodPool(nty_mempool_alloc(mp["snd"]), MaxConcurrency, U \cup {x})
    BY <1>3, <1>6, <2>1, PoolAlloc
  <2> QED
    BY <1>4, <2>2, <2>3, <2>4
<1>10. /\ GoodPool(mp'["rb"], NumBuffers, {strm'[g].recvbuf : g \in Live'} \ {None})
       /\ \A g \in Live : strm'[f].recvbuf # None => strm'[g].recvbuf # strm'[f].recvbuf
  <2> DEFINE U == {strm[g].recvbuf : g \in Live} \ {None}
             x == Allocated(mp["rb"])
  <2>1. GoodPool(mp["rb"], NumBuffers, U)
    BY DEF PoolsInv, PartsInv
  <2>2. CASE CanAlloc(mp["rb"])
    <3>1. r.recvbuf = x
      BY <1>1, <2>2
    <3>4. x \notin U /\ x # None => \A g \in Live : strm'[g].recvbuf # strm'[f].recvbuf
      BY <1>5, <3>1
    <3>5. x # None => {strm'[g].recvbuf : g \in Live'} \ {None} = U \cup {x}
      BY <1>5, <3>1
    <3> HIDE DEF U, x
    <3>2. /\ x \in 0 .. NumBuffers - 1 /\ x \notin U
          /\ GoodPool(nty_mempool_alloc(mp["rb"]), NumBuffers, U \cup {x})
      BY <1>6, <2>1, <2>2, PoolAlloc DEF x
    <3>3. x # None
      BY <1>6, <3>2
    <3> QED
      BY <1>4, <2>2, <3>2, <3>3, <3>4, <3>5
  <2>3. CASE ~ CanAlloc(mp["rb"])
    <3>1. strm'[f].recvbuf = None
      BY <1>1, <1>5, <2>3
    <3>2. {strm'[g].recvbuf : g \in Live'} \ {None} = U
      BY <1>5, <3>1
    <3> QED
      BY <1>4, <2>1, <2>3, <3>1, <3>2
  <2> QED
    BY <2>2, <2>3
<1>11. ASSUME NEW g \in Live', NEW h \in Live',
              \/ strm'[g].rcv = strm'[h].rcv
              \/ strm'[g].snd = strm'[h].snd
              \/ strm'[g].recvbuf = strm'[h].recvbuf /\ strm'[g].recvbuf # None
       PROVE  g = h
  <2>1. CASE g \in Live /\ h \in Live
    <3>1. strm'[g] = strm[g] /\ strm'[h] = strm[h]
      BY <1>5, <2>1
    <3> QED
      BY <1>11, <2>1, <3>1 DEF PoolsInv, PartsInv
  <2>2. CASE g = f \/ h = f
    BY <1>5, <1>8, <1>9, <1>10, <1>11, <2>2
  <2> QED
    BY <1>5, <2>1, <2>2
<1> QED
  BY <1>7, <1>8, <1>9, <1>10, <1>11 DEF PartsInv

\* StreamHTInsert adds the new stream to its bin.
LEMMA CreateTable ==
    ASSUME PoolsInv, NEW t \in Tuples, nty_create_stream(t)
    PROVE  TableInv' /\ ht_stream' \in [0 .. Bins - 1 -> Seq(Flows)]
<1> DEFINE f == Allocated(mp["flow"])
           r == Stream(t)
           c == HashFlow(t)
<1>1. /\ f \in Flows /\ f \notin Live /\ r \in Streams /\ r.tuple = t
  BY NewStream
<1>2. /\ strm' = [strm EXCEPT ![f] = r] /\ flow_cnt' = flow_cnt + 1
      /\ ht_stream' = [ht_stream EXCEPT ![c] = Append(ht_stream[c], f)]
      /\ StreamHTSearch(t) = None
  BY DEF nty_create_stream, StreamHTInsert
<1> HIDE DEF f, r, c
<1>3. /\ strm'[f] = r /\ Live' = Live \cup {f}
      /\ \A g \in Live : g # f /\ strm'[g] = strm[g]
  BY <1>1, <1>2, StreamAdded DEF PoolsInv
<1>4. c \in 0 .. Bins - 1 /\ ht_stream \in [0 .. Bins - 1 -> Seq(Flows)]
  BY HashInRange DEF PoolsInv, PoolTypes, c
<1>5. \A b \in 0 .. Bins - 1 :
         /\ ht_stream[b] \in Seq(Flows) /\ Distinct(ht_stream[b])
         /\ \A g \in Members(ht_stream[b]) : g \in Live /\ HashFlow(strm[g].tuple) = b
  BY <1>4 DEF PoolsInv, TableInv, Members
<1>6. /\ Append(ht_stream[c], f) \in Seq(Flows) /\ Distinct(Append(ht_stream[c], f))
      /\ Members(Append(ht_stream[c], f)) = Members(ht_stream[c]) \cup {f}
  <2>1. ht_stream[c] \in Seq(Flows) /\ Distinct(ht_stream[c]) /\ f \notin Members(ht_stream[c])
    BY <1>1, <1>4, <1>5
  <2> QED
    BY <1>1, <2>1, ListAppend
<1>7. /\ ht_stream' \in [0 .. Bins - 1 -> Seq(Flows)]
      /\ ht_stream'[c] = Append(ht_stream[c], f)
      /\ \A b \in 0 .. Bins - 1 : b # c => ht_stream'[b] = ht_stream[b]
  BY <1>2, <1>4, <1>6
<1>8. \A b \in 0 .. Bins - 1 :
         /\ Distinct(ht_stream'[b])
         /\ \A g \in Members(ht_stream'[b]) : g \in Live' /\ HashFlow(strm'[g].tuple) = b
  <2> SUFFICES ASSUME NEW b \in 0 .. Bins - 1
               PROVE  /\ Distinct(ht_stream'[b])
                      /\ \A g \in Members(ht_stream'[b]) :
                            g \in Live' /\ HashFlow(strm'[g].tuple) = b
    OBVIOUS
  <2>1. CASE b = c
    <3>1. HashFlow(strm'[f].tuple) = c
      BY <1>1, <1>3 DEF c
    <3>2. /\ Distinct(ht_stream'[b])
          /\ Members(ht_stream'[b]) = Members(ht_stream[c]) \cup {f}
      BY <1>6, <1>7, <2>1
    <3>3. \A g \in Members(ht_stream[c]) : g \in Live' /\ HashFlow(strm'[g].tuple) = c
      BY <1>3, <1>4, <1>5
    <3>4. f \in Live'
      BY <1>3
    <3> QED
      BY <2>1, <3>1, <3>2, <3>3, <3>4
  <2>2. CASE b # c
    BY <1>3, <1>5, <1>7, <2>2
  <2> QED
    BY <2>1, <2>2
<1>9. \A g \in Live' : g \in Members(ht_stream'[HashFlow(strm'[g].tuple)])
  <2> SUFFICES ASSUME NEW g \in Live' PROVE g \in Members(ht_stream'[HashFlow(strm'[g].tuple)])
    OBVIOUS
  <2>1. CASE g = f
    <3>1. HashFlow(strm'[g].tuple) = c
      BY <1>1, <1>3, <2>1 DEF c
    <3> QED
      BY <1>6, <1>7, <2>1, <3>1
  <2>2. CASE g \in Live
    <3>1. /\ strm'[g] = strm[g] /\ HashFlow(strm[g].tuple) \in 0 .. Bins - 1
          /\ g \in Members(ht_stream[HashFlow(strm[g].tuple)])
      BY <1>3, <2>2, LiveStreams, StreamFields, HashInRange DEF PoolsInv, TableInv
    <3>2. CASE HashFlow(strm[g].tuple) = c
      BY <1>6, <1>7, <3>1, <3>2
    <3>3. CASE HashFlow(strm[g].tuple) # c
      BY <1>7, <3>1, <3>3
    <3> QED
      BY <3>2, <3>3
  <2> QED
    BY <1>3, <2>1, <2>2
<1>10. \A g \in Live : strm[g].tuple # t
  BY <1>2, SearchFinds DEF PoolsInv
<1>11. \A g, h \in Live' : strm'[g].tuple = strm'[h].tuple => g = h
  <2>1. \A g, h \in Live : strm[g].tuple = strm[h].tuple => g = h
    BY DEF PoolsInv, TableInv
  <2> QED
    BY <1>1, <1>3, <1>10, <2>1
<1>12. flow_cnt' = Cardinality(Live')
  <2>1. flow_cnt = Cardinality(Live) /\ IsFiniteSet(Live)
    BY LiveStreams DEF PoolsInv, TableInv
  <2>2. Cardinality(Live \cup {f}) = Cardinality(Live) + 1
    BY <1>1, <2>1, FS_AddElement
  <2> QED
    BY <1>2, <1>3, <2>1, <2>2
<1>13. \A b \in 0 .. Bins - 1 : \A i \in 1 .. Len(ht_stream'[b]) :
          ht_stream'[b][i] \in Members(ht_stream'[b])
  BY DEF Members
<1> QED
  BY <1>7, <1>8, <1>9, <1>11, <1>12, <1>13 DEF TableInv

\* CreateTcpStream keeps the invariant.
LEMMA CreateKeeps ==
    ASSUME PoolsInv, NEW t \in Tuples, nty_create_stream(t)
    PROVE  PoolsInv'
<1> DEFINE f == Allocated(mp["flow"])
           r == Stream(t)
<1>1. /\ f \in Flows /\ f \notin Live /\ r \in Streams /\ r.sndbuf = None /\ r.fctx = << >>
  BY NewStream
<1>2. strm' = [strm EXCEPT ![f] = r]
  BY DEF nty_create_stream
<1>3. /\ freeq' = freeq /\ free_fragq' = free_fragq /\ free_fragq_int' = free_fragq_int
      /\ sock' = sock /\ app' = app
  BY DEF nty_create_stream, queues
<1>4. /\ mp' = [k \in Pools |-> mp'[k]] /\ mp'["frag"] = mp["frag"] /\ mp'["sb"] = mp["sb"]
  BY DEF nty_create_stream, Pools
<1> HIDE DEF f, r
<1>5. /\ strm' \in [Flows -> Streams \cup {None}] /\ strm'[f] = r /\ Live' = Live \cup {f}
      /\ \A g \in Live : g # f /\ strm'[g] = strm[g]
  BY <1>1, <1>2, StreamAdded DEF PoolsInv
<1>6. Members(<< >>) = {} /\ Distinct(<< >>)
  BY EmptySeq DEF Members, Distinct
<1>7. FragInv'
  <2>1. UNION {Members(strm'[g].fctx) : g \in Live'} = UNION {Members(strm[g].fctx) : g \in Live}
    BY <1>1, <1>5, <1>6
  <2>2. Fragments' = Fragments
    BY <1>3, <2>1 DEF Fragments
  <2>3. ASSUME NEW g \in Live'
        PROVE  /\ Distinct(strm'[g].fctx)
               /\ \A h \in Live' : g # h => Members(strm'[g].fctx) \cap Members(strm'[h].fctx) = {}
               /\ Members(strm'[g].fctx) \cap Members(free_fragq) = {}
               /\ Members(strm'[g].fctx) \cap Members(free_fragq_int) = {}
    <3>1. CASE g = f
      BY <1>1, <1>5, <1>6, <3>1
    <3>2. CASE g \in Live
      <4>1. strm'[g] = strm[g] /\ Members(strm'[f].fctx) = {}
        BY <1>1, <1>5, <1>6, <3>2
      <4>2. \A h \in Live : strm'[h] = strm[h]
        BY <1>5
      <4>3. \A h \in Live : g # h => Members(strm'[g].fctx) \cap Members(strm'[h].fctx) = {}
        BY <3>2, <4>1, <4>2 DEF PoolsInv, FragInv
      <4>4. \A h \in Live' : g # h => Members(strm'[g].fctx) \cap Members(strm'[h].fctx) = {}
        BY <1>5, <4>1, <4>3
      <4> QED
        BY <3>2, <4>1, <4>4 DEF PoolsInv, FragInv
    <3> QED
      BY <1>5, <3>1, <3>2
  <2> QED
    BY <1>3, <1>4, <2>2, <2>3 DEF PoolsInv, FragInv
<1>8. PoolTypes'
  BY <1>3, <1>4, <1>5, CreateTable DEF PoolsInv, PoolTypes
<1>9. BuffersAreChunks'
  BY <1>4 DEF PoolsInv, BuffersAreChunks
<1>10. PoolsInv'
  BY <1>7, <1>8, <1>9, CreateParts, CreateTable DEF PoolsInv
<1> QED
  BY <1>10

-----------------------------------------------------------------------------
\* A stream is gone.
LEMMA StreamRemoved ==
    ASSUME PoolTypes, NEW f \in Live, strm' = [strm EXCEPT ![f] = None]
    PROVE  /\ strm' \in [Flows -> Streams \cup {None}]
           /\ Live' = Live \ {f}
           /\ \A g \in Live' : g \in Live /\ g # f /\ strm'[g] = strm[g]
<1>1. f \in Flows
  BY LiveStreams
<1>2. /\ strm' \in [Flows -> Streams \cup {None}] /\ strm'[f] = None
      /\ \A g \in Flows : g # f => strm'[g] = strm[g]
  BY <1>1 DEF PoolTypes
<1>3. Live' = Live \ {f}
  BY <1>2 DEF Live
<1> QED
  BY <1>2, <1>3, LiveStreams

\* What DestroyTcpStream does to each pool.
LEMMA DestroyPools ==
    ASSUME PoolTypes, NEW f, DestroyTcpStream(f)
    PROVE  /\ mp' = [k \in Pools |-> mp'[k]]
           /\ mp'["flow"] = nty_mempool_free(mp["flow"], f)
           /\ mp'["rcv"] = nty_mempool_free(mp["rcv"], strm[f].rcv)
           /\ mp'["snd"] = nty_mempool_free(mp["snd"], strm[f].snd)
           /\ mp'["rb"] = (IF strm[f].recvbuf = None THEN mp["rb"]
                           ELSE nty_mempool_free(mp["rb"], strm[f].recvbuf))
           /\ mp'["frag"] = FreeFragmentContext(mp["frag"], strm[f].fctx)
           /\ mp'["sb"] = mp["sb"]
<1> DEFINE a == FreeFragmentContext(mp["frag"], strm[f].fctx)
           b == IF strm[f].recvbuf = None THEN mp["rb"]
                ELSE nty_mempool_free(mp["rb"], strm[f].recvbuf)
           c == nty_mempool_free(mp["rcv"], strm[f].rcv)
           d == nty_mempool_free(mp["snd"], strm[f].snd)
           e == nty_mempool_free(mp["flow"], f)
<1>1. mp' = [mp EXCEPT !["frag"] = a, !["rb"] = b, !["rcv"] = c, !["snd"] = d, !["flow"] = e]
  BY DEF DestroyTcpStream
<1>2. mp = [k \in Pools |-> mp[k]]
  BY DEF PoolTypes
<1> HIDE DEF a, b, c, d, e
<1>3. /\ mp' = [k \in Pools |-> mp'[k]]
      /\ mp'["flow"] = e /\ mp'["rcv"] = c /\ mp'["snd"] = d /\ mp'["rb"] = b
      /\ mp'["frag"] = a /\ mp'["sb"] = mp["sb"]
  BY <1>1, <1>2 DEF Pools
<1> QED
  BY <1>3 DEF a, b, c, d, e

\* DestroyTcpStream gives back each part once.
LEMMA DestroyParts ==
    ASSUME PoolsInv, NEW f \in Live, DestroyTcpStream(f)
    PROVE  PartsInv'
<1>1. /\ mp'["flow"] = nty_mempool_free(mp["flow"], f)
      /\ mp'["rcv"] = nty_mempool_free(mp["rcv"], strm[f].rcv)
      /\ mp'["snd"] = nty_mempool_free(mp["snd"], strm[f].snd)
      /\ mp'["rb"] = IF strm[f].recvbuf = None THEN mp["rb"]
                     ELSE nty_mempool_free(mp["rb"], strm[f].recvbuf)
  BY DestroyPools DEF PoolsInv
<1>2. /\ Live' = Live \ {f}
      /\ \A g \in Live' : g \in Live /\ g # f /\ strm'[g] = strm[g]
  BY StreamRemoved DEF PoolsInv, DestroyTcpStream
<1>3. MaxConcurrency \in Nat \ {0} /\ NumBuffers \in Nat \ {0}
  BY Sizes
<1>4. \A g, h \in Live :
         \/ strm[g].rcv = strm[h].rcv
         \/ strm[g].snd = strm[h].snd
         \/ strm[g].recvbuf = strm[h].recvbuf /\ strm[g].recvbuf # None
         => g = h
  BY DEF PoolsInv, PartsInv
<1>5. GoodPool(mp'["flow"], MaxConcurrency, Live')
  <2>1. GoodPool(mp["flow"], MaxConcurrency, Live)
    BY DEF PoolsInv, PartsInv
  <2> QED
    BY <1>1, <1>2, <1>3, <2>1, PoolFree
<1>6. GoodPool(mp'["rcv"], MaxConcurrency, {strm'[g].rcv : g \in Live'})
  <2> DEFINE U == {strm[g].rcv : g \in Live}
             x == strm[f].rcv
  <2>1. GoodPool(mp["rcv"], MaxConcurrency, U)
    BY DEF PoolsInv, PartsInv
  <2>2. {strm'[g].rcv : g \in Live'} = U \ {x} /\ x \in U
    BY <1>2, <1>4
  <2> HIDE DEF U, x
  <2>3. GoodPool(nty_mempool_free(mp["rcv"], x), MaxConcurrency, U \ {x})
    BY <1>3, <2>1, <2>2, PoolFree
  <2> QED
    BY <1>1, <2>2, <2>3 DEF x
<1>7. GoodPool(mp'["snd"], MaxConcurrency, {strm'[g].snd : g \in Live'})
  <2> DEFINE U == {strm[g].snd : g \in Live}
             x == strm[f].snd
  <2>1. GoodPool(mp["snd"], MaxConcurrency, U)
    BY DEF PoolsInv, PartsInv
  <2>2. {strm'[g].snd : g \in Live'} = U \ {x} /\ x \in U
    BY <1>2, <1>4
  <2> HIDE DEF U, x
  <2>3. GoodPool(nty_mempool_free(mp["snd"], x), MaxConcurrency, U \ {x})
    BY <1>3, <2>1, <2>2, PoolFree
  <2> QED
    BY <1>1, <2>2, <2>3 DEF x
<1>8. GoodPool(mp'["rb"], NumBuffers, {strm'[g].recvbuf : g \in Live'} \ {None})
  <2> DEFINE U == {strm[g].recvbuf : g \in Live} \ {None}
             x == strm[f].recvbuf
  <2>1. GoodPool(mp["rb"], NumBuffers, U)
    BY DEF PoolsInv, PartsInv
  <2>2. CASE x = None
    <3>1. {strm'[g].recvbuf : g \in Live'} \ {None} = U
      BY <1>2, <2>2
    <3> QED
      BY <1>1, <2>1, <2>2, <3>1
  <2>3. CASE x # None
    <3>1. {strm'[g].recvbuf : g \in Live'} \ {None} = U \ {x} /\ x \in U
      BY <1>2, <1>4, <2>3
    <3> HIDE DEF U, x
    <3>2. GoodPool(nty_mempool_free(mp["rb"], x), NumBuffers, U \ {x})
      BY <1>3, <2>1, <3>1, PoolFree
    <3> QED
      BY <1>1, <2>3, <3>1, <3>2 DEF x
  <2> QED
    BY <2>2, <2>3
<1>9. \A g, h \in Live' :
         \/ strm'[g].rcv = strm'[h].rcv
         \/ strm'[g].snd = strm'[h].snd
         \/ strm'[g].recvbuf = strm'[h].recvbuf /\ strm'[g].recvbuf # None
         => g = h
  BY <1>2, <1>4
<1> QED
  BY <1>5, <1>6, <1>7, <1>8, <1>9 DEF PartsInv

\* StreamHTRemove takes the stream out of its bin, and no other.
LEMMA DestroyTable ==
    ASSUME PoolsInv, NEW f \in Live, DestroyTcpStream(f)
    PROVE  TableInv' /\ ht_stream' \in [0 .. Bins - 1 -> Seq(Flows)]
<1> DEFINE c == HashFlow(strm[f].tuple)
           bin == ht_stream[c]
           at == CHOOSE i \in DOMAIN bin : bin[i] = f
<1>1. /\ ht_stream' = [ht_stream EXCEPT ![c] = RemoveAt(bin, at)]
      /\ flow_cnt' = flow_cnt - 1
  BY DEF DestroyTcpStream, StreamHTRemove
<1>2. /\ Live' = Live \ {f}
      /\ \A g \in Live' : g \in Live /\ g # f /\ strm'[g] = strm[g]
  BY StreamRemoved DEF PoolsInv, DestroyTcpStream
<1>3. \A g \in Live : HashFlow(strm[g].tuple) \in 0 .. Bins - 1
  BY LiveStreams, StreamFields, HashInRange DEF PoolsInv
<1>4. c \in 0 .. Bins - 1 /\ ht_stream \in [0 .. Bins - 1 -> Seq(Flows)]
  BY <1>3 DEF PoolsInv, PoolTypes
<1>5. \A b \in 0 .. Bins - 1 :
         /\ ht_stream[b] \in Seq(Flows) /\ Distinct(ht_stream[b])
         /\ \A g \in Members(ht_stream[b]) : g \in Live /\ HashFlow(strm[g].tuple) = b
  BY <1>4 DEF PoolsInv, TableInv, Members
<1>6. bin \in Seq(Flows) /\ Distinct(bin) /\ f \in Members(bin) /\ DOMAIN bin = 1 .. Len(bin)
  BY <1>4, <1>5, LenProperties DEF PoolsInv, TableInv
<1> HIDE DEF c, bin
<1>7. at \in 1 .. Len(bin) /\ bin[at] = f
  <2>1. \E i \in DOMAIN bin : bin[i] = f
    BY <1>6 DEF Members
  <2> QED
    BY <1>6, <2>1
<1> HIDE DEF at
<1>8. /\ RemoveAt(bin, at) \in Seq(Flows) /\ Distinct(RemoveAt(bin, at))
      /\ Members(RemoveAt(bin, at)) = Members(bin) \ {f}
  BY <1>6, <1>7, ListRemoveAt
<1>9. /\ ht_stream' \in [0 .. Bins - 1 -> Seq(Flows)]
      /\ ht_stream'[c] = RemoveAt(bin, at)
      /\ \A b \in 0 .. Bins - 1 : b # c => ht_stream'[b] = ht_stream[b]
  BY <1>1, <1>4, <1>8
<1>10. \A b \in 0 .. Bins - 1 :
          /\ Distinct(ht_stream'[b])
          /\ Members(ht_stream'[b]) = Members(ht_stream[b]) \ {f}
  <2> SUFFICES ASSUME NEW b \in 0 .. Bins - 1
               PROVE  /\ Distinct(ht_stream'[b])
                      /\ Members(ht_stream'[b]) = Members(ht_stream[b]) \ {f}
    OBVIOUS
  <2>1. CASE b = c
    BY <1>8, <1>9, <2>1 DEF bin
  <2>2. CASE b # c
    BY <1>5, <1>9, <2>2 DEF c
  <2> QED
    BY <2>1, <2>2
<1>11. \A b \in 0 .. Bins - 1 : \A g \in Members(ht_stream'[b]) :
          g \in Live' /\ HashFlow(strm'[g].tuple) = b
  BY <1>2, <1>5, <1>10
<1>12. \A g \in Live' : g \in Members(ht_stream'[HashFlow(strm'[g].tuple)])
  <2> SUFFICES ASSUME NEW g \in Live' PROVE g \in Members(ht_stream'[HashFlow(strm'[g].tuple)])
    OBVIOUS
  <2>1. /\ g \in Live /\ g # f /\ strm'[g] = strm[g]
        /\ g \in Members(ht_stream[HashFlow(strm[g].tuple)])
    BY <1>2 DEF PoolsInv, TableInv
  <2> QED
    BY <1>3, <1>10, <2>1
<1>13. \A g, h \in Live' : strm'[g].tuple = strm'[h].tuple => g = h
  BY <1>2 DEF PoolsInv, TableInv
<1>14. flow_cnt' = Cardinality(Live')
  <2>1. flow_cnt = Cardinality(Live) /\ IsFiniteSet(Live)
    BY LiveStreams DEF PoolsInv, TableInv
  <2>2. Cardinality(Live \ {f}) = Cardinality(Live) - 1
    BY <2>1, FS_RemoveElement
  <2> QED
    BY <1>1, <1>2, <2>1, <2>2
<1>15. \A b \in 0 .. Bins - 1 : \A i \in 1 .. Len(ht_stream'[b]) :
          ht_stream'[b][i] \in Members(ht_stream'[b])
  BY DEF Members
<1> QED
  BY <1>9, <1>10, <1>11, <1>12, <1>13, <1>14, <1>15 DEF TableInv

\* RBFree gives back the fragments of the stream.
LEMMA DestroyFragments ==
    ASSUME PoolsInv, NEW f \in Live, DestroyTcpStream(f)
    PROVE  FragInv'
<1>1. mp'["frag"] = FreeFragmentContext(mp["frag"], strm[f].fctx)
  BY DestroyPools DEF PoolsInv
<1>2. /\ Live' = Live \ {f}
      /\ \A g \in Live' : g \in Live /\ g # f /\ strm'[g] = strm[g]
  BY StreamRemoved DEF PoolsInv, DestroyTcpStream
<1>3. free_fragq' = free_fragq /\ free_fragq_int' = free_fragq_int
  BY DEF DestroyTcpStream
<1> DEFINE l == strm[f].fctx
<1>4. l \in Seq(Nat) /\ AllFrags \in Nat \ {0}
  BY LiveStreams, StreamFields, Sizes, SizesAssumption DEF PoolsInv, AllFrags
<1>5. /\ Fragments = Others(f) \cup Members(l) \cup Members(free_fragq)
                       \cup Members(free_fragq_int)
      /\ Apart(f, Members(l), Members(free_fragq), Members(free_fragq_int))
      /\ Distinct(l)
  BY FragmentsOf DEF PoolsInv
<1>6. Provides(FreeFragmentContext(mp["frag"], l), Fragments \ Members(l))
  <2>1. PICK U : GoodPool(mp["frag"], AllFrags, U) /\ Fragments \subseteq U
    BY DEF PoolsInv, FragInv, Provides
  <2>2. Members(l) \subseteq U
    BY <1>5, <2>1
  <2> HIDE DEF l
  <2>3. GoodPool(FreeFragmentContext(mp["frag"], l), AllFrags, U \ Members(l))
    BY <1>4, <1>5, <2>1, <2>2, PoolFreeList
  <2> QED
    BY <2>1, <2>3 DEF Provides
<1>7. UNION {Members(strm'[g].fctx) : g \in Live'} = Others(f)
  BY <1>2 DEF Others
<1> HIDE DEF l
<1>8. Fragments' = Fragments \ Members(l)
  <2>1. Fragments' = Others(f) \cup Members(free_fragq) \cup Members(free_fragq_int)
    BY <1>3, <1>7 DEF Fragments
  <2> QED
    BY <1>5, <2>1 DEF Apart
<1>9. Provides(mp'["frag"], Fragments')
  BY <1>1, <1>6, <1>8 DEF l
<1> QED
  BY <1>2, <1>3, <1>9 DEF PoolsInv, FragInv

\* A stream that ends keeps the invariant.
LEMMA GoneKeeps ==
    ASSUME PoolsInv, NEW f \in Flows, Gone(f)
    PROVE  PoolsInv'
<1> DEFINE x == strm[f].sndbuf
<1>1. f \in Live /\ DestroyTcpStream(f)
  BY DEF Gone, Live
<1>2. /\ sock' = sock /\ app' = app /\ free_fragq' = free_fragq
      /\ free_fragq_int' = free_fragq_int
      /\ freeq' = IF x = None THEN freeq ELSE SBEnqueue(freeq, x)
  BY <1>1 DEF DestroyTcpStream
<1>3. /\ strm' \in [Flows -> Streams \cup {None}] /\ Live' = Live \ {f}
      /\ \A g \in Live' : g \in Live /\ g # f /\ strm'[g] = strm[g]
  BY <1>1, StreamRemoved DEF PoolsInv, DestroyTcpStream
<1>4. mp' = [k \in Pools |-> mp'[k]] /\ mp'["sb"] = mp["sb"]
  BY <1>1, DestroyPools DEF PoolsInv
<1>5. x \in Nat \cup {None} /\ freeq \in Seq(Nat)
  BY <1>1, LiveStreams, StreamFields DEF PoolsInv, PoolTypes
<1> HIDE DEF x
<1>6. freeq' \in Seq(Nat)
  BY <1>2, <1>5, AppendProperties DEF SBEnqueue
<1>7. TableInv' /\ ht_stream' \in [0 .. Bins - 1 -> Seq(Flows)] /\ PartsInv' /\ FragInv'
  BY <1>1, DestroyTable, DestroyParts, DestroyFragments
<1>8. PoolTypes'
  BY <1>2, <1>3, <1>4, <1>6, <1>7 DEF PoolsInv, PoolTypes
<1>9. BuffersAreChunks'
  BY <1>4 DEF PoolsInv, BuffersAreChunks
<1>10. PoolsInv'
  BY <1>7, <1>8, <1>9 DEF PoolsInv
<1> QED
  BY <1>10

-----------------------------------------------------------------------------
\* The invariant holds initially.
LEMMA PoolsInitially ==
    ASSUME PoolsInit
    PROVE  PoolsInv
<1>1. /\ MaxConcurrency \in Nat \ {0} /\ NumBuffers \in Nat \ {0} /\ Bins \in Nat \ {0}
      /\ Heap \in Nat
  BY Sizes, SizesAssumption
<1>2. /\ strm = [f \in Flows |-> None] /\ ht_stream = [b \in 0 .. Bins - 1 |-> << >>]
      /\ flow_cnt = 0 /\ freeq = << >> /\ free_fragq = << >> /\ free_fragq_int = << >>
      /\ sock = {} /\ app = [a \in Apps |-> None]
  BY DEF PoolsInit, CreateHashtable
<1>3. Live = {}
  BY <1>2 DEF Live
<1>4. /\ mp = [k \in Pools |-> mp[k]]
      /\ mp["flow"] = nty_mempool_create(MaxConcurrency, 0 .. MaxConcurrency - 1)
      /\ mp["rcv"] = nty_mempool_create(MaxConcurrency, 0 .. MaxConcurrency - 1)
      /\ mp["snd"] = nty_mempool_create(MaxConcurrency, 0 .. MaxConcurrency - 1)
      /\ mp["rb"] = nty_mempool_create(NumBuffers, 0 .. NumBuffers - 1)
      /\ mp["frag"] = nty_mempool_create(NumBuffers, 0 .. AllFrags - 1)
      /\ mp["sb"] = nty_mempool_create(NumBuffers, 0 .. NumBuffers - 1)
  <2> DEFINE F(k) == CASE k = "sb"           -> nty_sbmanager_create
                       [] k \in {"rb", "frag"} -> RBManagerCreate(k)
                       [] OTHER              -> nty_mempool_create(Size(k), Chunks(k))
  <2>1. mp = [k \in Pools |-> F(k)]
    BY DEF PoolsInit
  <2>2. /\ F("flow") = nty_mempool_create(Size("flow"), Chunks("flow"))
        /\ F("rcv") = nty_mempool_create(Size("rcv"), Chunks("rcv"))
        /\ F("snd") = nty_mempool_create(Size("snd"), Chunks("snd"))
        /\ F("rb") = RBManagerCreate("rb") /\ F("frag") = RBManagerCreate("frag")
        /\ F("sb") = nty_sbmanager_create
    OBVIOUS
  <2> HIDE DEF F
  <2>3. \A k \in Pools : mp[k] = F(k)
    BY <2>1
  <2>4. /\ Size("flow") = MaxConcurrency /\ Size("rcv") = MaxConcurrency
        /\ Size("snd") = MaxConcurrency /\ Size("rb") = NumBuffers
        /\ Size("frag") = NumBuffers /\ Size("sb") = NumBuffers
    BY DEF Size
  <2>5. Size("frag") + Heap - 1 = AllFrags - 1
    BY <1>1, <2>4 DEF AllFrags
  <2>6. /\ Addresses("frag") = 0 .. AllFrags - 1 /\ Addresses("rb") = 0 .. NumBuffers - 1
        /\ Chunks("sb") = 0 .. NumBuffers - 1 /\ Chunks("flow") = 0 .. MaxConcurrency - 1
        /\ Chunks("rcv") = 0 .. MaxConcurrency - 1 /\ Chunks("snd") = 0 .. MaxConcurrency - 1
    BY <2>4, <2>5 DEF Addresses, Chunks
  <2>7. mp = [k \in Pools |-> mp[k]]
    BY <2>1
  <2> QED
    BY <2>2, <2>3, <2>4, <2>6, <2>7 DEF Pools, RBManagerCreate, nty_sbmanager_create
<1>5. /\ GoodPool(nty_mempool_create(MaxConcurrency, 0 .. MaxConcurrency - 1), MaxConcurrency, {})
      /\ GoodPool(nty_mempool_create(NumBuffers, 0 .. NumBuffers - 1), NumBuffers, {})
      /\ GoodPool(nty_mempool_create(NumBuffers, 0 .. AllFrags - 1), AllFrags,
                  NumBuffers .. AllFrags - 1)
  <2>1. GoodPool(nty_mempool_create(NumBuffers, 0 .. NumBuffers + Heap - 1),
                 NumBuffers + Heap, NumBuffers .. NumBuffers + Heap - 1)
    BY <1>1, PoolCreated
  <2>2. GoodPool(nty_mempool_create(NumBuffers, 0 .. AllFrags - 1), AllFrags,
                 NumBuffers .. AllFrags - 1)
    <3>1. NumBuffers + Heap - 1 = AllFrags - 1 /\ NumBuffers + Heap = AllFrags
      BY <1>1 DEF AllFrags
    <3> QED
      BY <2>1, <3>1
  <2> QED
    BY <1>1, <2>2, PoolFull
<1>6. << >> \in Seq(Nat) /\ << >> \in Seq(Flows) /\ Members(<< >>) = {} /\ Distinct(<< >>)
      /\ Len(<< >>) = 0
  BY EmptySeq DEF Members, Distinct
<1>7. PoolTypes
  BY <1>2, <1>4, <1>6 DEF PoolTypes
<1>8. PartsInv
  <2>1. /\ {strm[f].rcv : f \in Live} = {} /\ {strm[f].snd : f \in Live} = {}
        /\ {strm[f].recvbuf : f \in Live} \ {None} = {}
    BY <1>3
  <2> QED
    BY <1>3, <1>4, <1>5, <2>1 DEF PartsInv
<1>9. TableInv
  <2>1. \A b \in 0 .. Bins - 1 : ht_stream[b] = << >>
    BY <1>2
  <2>2. Cardinality({}) = 0
    BY FS_EmptySet
  <2> QED
    BY <1>2, <1>3, <1>6, <2>1, <2>2 DEF TableInv
<1>10. FragInv
  <2>1. Fragments = {}
    BY <1>2, <1>3, <1>6 DEF Fragments
  <2>2. Provides(mp["frag"], Fragments)
    BY <1>4, <1>5, <2>1 DEF Provides
  <2> QED
    BY <1>2, <1>3, <1>6, <2>2 DEF FragInv
<1>11. BuffersAreChunks
  BY <1>4, <1>5 DEF BuffersAreChunks
<1> QED
  BY <1>7, <1>8, <1>9, <1>10, <1>11 DEF PoolsInv

\* Every step keeps the invariant.
LEMMA PoolsStep ==
    ASSUME PoolsInv, [PoolsNext]_poolsVars
    PROVE  PoolsInv'
<1>1. CASE \E t \in Tuples : nty_create_stream(t) \/ Established(t) \/ process_payload(t)
  BY <1>1, CreateKeeps, EstablishedKeeps, PayloadKeeps
<1>2. CASE \E f \in Flows : Gone(f) \/ accept(f)
  BY <1>2, GoneKeeps, AcceptKeeps
<1>3. CASE \E f \in sock : RBRemove(f) \/ close(f)
  BY <1>3, RBRemoveKeeps, CloseKeeps
<1>4. CASE \E f \in sock : \E a \in Apps : SBDequeueLoad(a, f) \/ SBInit(a, f)
  BY <1>4, LoadKeeps, SBInitKeeps
<1>5. CASE \E a \in Apps : SBDequeueAdvance(a)
  BY <1>5, AdvanceKeeps
<1>6. CASE UNCHANGED poolsVars
  <2>1. /\ mp' = mp /\ strm' = strm /\ ht_stream' = ht_stream /\ flow_cnt' = flow_cnt
        /\ freeq' = freeq /\ free_fragq' = free_fragq /\ free_fragq_int' = free_fragq_int
        /\ sock' = sock /\ app' = app
    BY <1>6 DEF poolsVars
  <2>2. /\ Live' = Live /\ strm' \in [Flows -> Streams \cup {None}]
    BY <2>1 DEF Live, PoolsInv, PoolTypes
  <2>3. SameStreams /\ SameParts /\ SameFragments /\ SameBuffers
    BY <2>1, <2>2 DEF SameStreams, SameParts, SameFragments, SameBuffers
  <2>4. PoolsInv'
    BY <2>1, <2>3, KeepsAll DEF PoolsInv, PoolTypes
  <2> QED
    BY <2>4
<1> QED
  BY <1>1, <1>2, <1>3, <1>4, <1>5, <1>6 DEF PoolsNext

\* The parts of streams and the fragments are taken from their pools, each by one
\* owner, and the flow table has each stream once, in the bin of its tuple
\* (nty_mempool.c, nty_hash.c, CreateTcpStream and DestroyTcpStream, RBPut and
\* RBRemove), whatever the numbers of threads, connections, chunks and bins, also
\* when timers give up connections in use and calloc provides fragments that are
\* put into the pool by mistake.
THEOREM PoolsInductive == PoolsSpec => []PoolsInv
<1>1. PoolsInit => PoolsInv
  BY PoolsInitially
<1>2. PoolsInv /\ [PoolsNext]_poolsVars => PoolsInv'
  BY PoolsStep
<1> QED
  BY <1>1, <1>2, PTL DEF PoolsSpec

\* A search for a tuple returns the one stream that has it, or none if none has,
\* and flow_cnt counts the streams (StreamHTSearch, StreamHTInsert and
\* StreamHTRemove of nty_hash.c).
THEOREM SearchFindsStreamHolds == PoolsSpec => []SearchFindsStream
<1>1. PoolsInv => SearchFindsStream
  <2> SUFFICES ASSUME PoolsInv PROVE SearchFindsStream
    OBVIOUS
  <2>1. flow_cnt = Cardinality(Live)
    BY DEF PoolsInv, TableInv
  <2>2. ASSUME NEW t \in Tuples
        PROVE  {f \in Live : strm[f].tuple = t} = {StreamHTSearch(t)} \ {None}
    <3> DEFINE F == StreamHTSearch(t)
    <3>1. /\ F = None => \A f \in Live : strm[f].tuple # t
          /\ F # None => F \in Live /\ strm[F].tuple = t
      BY SearchFinds DEF PoolsInv
    <3>2. \A f, g \in Live : strm[f].tuple = strm[g].tuple => f = g
      BY DEF PoolsInv, TableInv
    <3> HIDE DEF F
    <3>3. {f \in Live : strm[f].tuple = t} = {F} \ {None}
      BY <3>1, <3>2, LiveStreams DEF PoolsInv
    <3> QED
      BY <3>3 DEF F
  <2> QED
    BY <2>1, <2>2 DEF SearchFindsStream
<1> QED
  BY <1>1, PoolsInductive, PTL

-----------------------------------------------------------------------------
\* As many values as arguments at most.
LEMMA ImageBound ==
    ASSUME NEW S, IsFiniteSet(S), NEW F, DOMAIN F = S
    PROVE  Cardinality({F[g] : g \in S}) <= Cardinality(S)
<1> DEFINE T == {F[g] : g \in S}
           h == [g \in S |-> F[g]]
<1>1. h \in Surjection(S, T)
  BY DEF Surjection
<1> HIDE DEF h, T
<1>2. Cardinality(T) <= Cardinality(S)
  BY <1>1, FS_Surjection
<1> QED
  BY <1>2 DEF T

\* The invariant implies PoolsSuffice.
LEMMA PoolsAreEnough ==
    ASSUME PoolsInv, MaxConcurrency <= NumBuffers
    PROVE  PoolsSuffice
<1>1. /\ MaxConcurrency \in Nat \ {0} /\ NumBuffers \in Nat \ {0}
      /\ Flows = 0 .. MaxConcurrency - 1
  BY Sizes
<1>2. Live \subseteq Flows /\ IsFiniteSet(Live)
  BY LiveStreams DEF PoolsInv
<1>3. Cardinality(Live) \in Nat /\ Cardinality(Live) <= MaxConcurrency
  <2>1. IsFiniteSet(0 .. MaxConcurrency - 1) /\ Cardinality(0 .. MaxConcurrency - 1) = MaxConcurrency
    BY <1>1, FS_Interval
  <2> QED
    BY <1>1, <1>2, <2>1, FS_Subset, FS_CardinalityType
<1> DEFINE R == {strm[f].rcv : f \in Live}
           S == {strm[f].snd : f \in Live}
           B == {strm[f].recvbuf : f \in Live} \ {None}
<1>4. /\ GoodPool(mp["flow"], MaxConcurrency, Live)
      /\ GoodPool(mp["rcv"], MaxConcurrency, R)
      /\ GoodPool(mp["snd"], MaxConcurrency, S)
      /\ GoodPool(mp["rb"], NumBuffers, B)
  BY DEF PoolsInv, PartsInv
<1>5. Cardinality(R) <= Cardinality(Live)
  <2> DEFINE F == [f \in Live |-> strm[f].rcv]
  <2>1. {F[f] : f \in Live} = R
    OBVIOUS
  <2>2. DOMAIN F = Live
    OBVIOUS
  <2> HIDE DEF F, R
  <2>3. Cardinality({F[f] : f \in Live}) <= Cardinality(Live)
    BY <1>2, <2>2, ImageBound
  <2> QED
    BY <2>1, <2>3
<1>6. Cardinality(S) <= Cardinality(Live)
  <2> DEFINE F == [f \in Live |-> strm[f].snd]
  <2>1. {F[f] : f \in Live} = S
    OBVIOUS
  <2>2. DOMAIN F = Live
    OBVIOUS
  <2> HIDE DEF F, S
  <2>3. Cardinality({F[f] : f \in Live}) <= Cardinality(Live)
    BY <1>2, <2>2, ImageBound
  <2> QED
    BY <2>1, <2>3
<1>7. Cardinality(B) <= Cardinality(Live)
  <2> DEFINE G == {f \in Live : strm[f].recvbuf # None}
             F == [f \in G |-> strm[f].recvbuf]
  <2>1. {F[f] : f \in G} = B
    OBVIOUS
  <2>2. DOMAIN F = G /\ G \subseteq Live
    OBVIOUS
  <2> HIDE DEF F, B, G
  <2>3. IsFiniteSet(G) /\ Cardinality(G) <= Cardinality(Live)
    BY <1>2, <2>2, FS_Subset
  <2>4. Cardinality({F[f] : f \in G}) <= Cardinality(G)
    BY <2>2, <2>3, ImageBound
  <2>5. Cardinality(G) \in Nat /\ Cardinality(B) <= Cardinality(G)
    BY <2>1, <2>3, <2>4, FS_CardinalityType
  <2>6. B \subseteq 0 .. NumBuffers - 1
    BY <1>4 DEF GoodPool
  <2>7. Cardinality(B) \in Nat
    BY <1>1, <2>6, PoolNumbers
  <2> QED
    BY <1>3, <2>3, <2>5, <2>7
<1> HIDE DEF R, S, B
<1>8. /\ mp["flow"].mp_free_chunks = MaxConcurrency - Cardinality(Live)
      /\ mp["rcv"].mp_free_chunks = MaxConcurrency - Cardinality(R)
      /\ mp["snd"].mp_free_chunks = MaxConcurrency - Cardinality(S)
      /\ mp["rb"].mp_free_chunks = NumBuffers - Cardinality(B)
      /\ R \subseteq 0 .. MaxConcurrency - 1 /\ S \subseteq 0 .. MaxConcurrency - 1
      /\ B \subseteq 0 .. NumBuffers - 1
  BY <1>4 DEF GoodPool
<1>9. Cardinality(R) \in Nat /\ Cardinality(S) \in Nat /\ Cardinality(B) \in Nat
  BY <1>1, <1>8, PoolNumbers
<1>10. CanAlloc(mp["flow"]) =>
         CanAlloc(mp["rcv"]) /\ CanAlloc(mp["snd"]) /\ CanAlloc(mp["rb"])
  BY <1>1, <1>3, <1>5, <1>6, <1>7, <1>8, <1>9 DEF CanAlloc
<1> QED
  BY <1>10 DEF PoolsSuffice

\* CreateTcpStream and passive_open never fail half-way: where there is room for a
\* stream there is room for its parts and its receive buffer.  There are as many
\* receive buffers as there can be connections (nty_config.h: NTY_MAX_NUM_BUFFERS
\* and NTY_MAX_CONCURRENCY).
THEOREM PoolsSufficeHolds ==
    ASSUME MaxConcurrency <= NumBuffers
    PROVE  PoolsSpec => []PoolsSuffice
<1>1. PoolsInv => PoolsSuffice
  BY PoolsAreEnough
<1> QED
  BY <1>1, PoolsInductive, PTL

\* A pool and the places that hold its chunks agree.
LEMMA PoolConserved ==
    ASSUME NEW k \in Pools, NEW H, Held(k) = H, Size(k) \in Nat \ {0}, IsInjective(H),
           GoodPool(mp[k], Size(k), Range(H))
    PROVE  Conserved(k)
<1> DEFINE U == Range(H)
           D == DOMAIN H
           h == [p \in D |-> H[p]]
<1>1. FreeChunks(mp[k], Size(k)) = (0 .. Size(k) - 1) \ U
  BY PoolFreeChunks
<1>2. mp[k].mp_free_chunks = Size(k) - Cardinality(U) /\ U \subseteq 0 .. Size(k) - 1
  BY DEF GoodPool
<1>3. IsFiniteSet(U)
  BY <1>2, PoolNumbers
<1>4. h \in Injection(D, U) /\ h \in Surjection(D, U)
  <2>1. h \in [D -> U]
    BY DEF Range
  <2>2. IsInjective(h)
    BY DEF IsInjective
  <2>3. \A t \in U : \E p \in D : h[p] = t
    BY DEF Range
  <2> HIDE DEF h
  <2> QED
    BY <2>1, <2>2, <2>3 DEF Injection, Surjection
<1> HIDE DEF h, U, D
<1>5. Cardinality(D) = Cardinality(U)
  BY <1>3, <1>4, FS_Injection
<1> QED
  BY <1>1, <1>2, <1>5 DEF Conserved, Chunks, U, D

\* The four pools of which a stream has at most one chunk.
LEMMA PartsConserved ==
    ASSUME PoolsInv
    PROVE  Conserved("flow") /\ Conserved("rcv") /\ Conserved("snd") /\ Conserved("rb")
<1>1. /\ Size("flow") = MaxConcurrency /\ Size("rcv") = MaxConcurrency
      /\ Size("snd") = MaxConcurrency /\ Size("rb") = NumBuffers
      /\ MaxConcurrency \in Nat \ {0} /\ NumBuffers \in Nat \ {0}
      /\ "flow" \in Pools /\ "rcv" \in Pools /\ "snd" \in Pools /\ "rb" \in Pools
  BY Sizes DEF Size, Pools
<1>2. /\ GoodPool(mp["flow"], MaxConcurrency, Live)
      /\ GoodPool(mp["rcv"], MaxConcurrency, {strm[f].rcv : f \in Live})
      /\ GoodPool(mp["snd"], MaxConcurrency, {strm[f].snd : f \in Live})
      /\ GoodPool(mp["rb"], NumBuffers, {strm[f].recvbuf : f \in Live} \ {None})
      /\ \A f, g \in Live :
            \/ strm[f].rcv = strm[g].rcv
            \/ strm[f].snd = strm[g].snd
            \/ strm[f].recvbuf = strm[g].recvbuf /\ strm[f].recvbuf # None
            => f = g
  BY DEF PoolsInv, PartsInv
<1>3. Conserved("flow")
  <2> DEFINE H == [f \in Live |-> f]
  <2>1. Held("flow") = H
    BY DEF Held
  <2>2. IsInjective(H) /\ Range(H) = Live
    BY DEF IsInjective, Range
  <2> HIDE DEF H
  <2> QED
    BY <1>1, <1>2, <2>1, <2>2, PoolConserved
<1>4. Conserved("rcv")
  <2> DEFINE H == [f \in Live |-> strm[f].rcv]
  <2>1. Held("rcv") = H
    BY DEF Held
  <2>2. IsInjective(H) /\ Range(H) = {strm[f].rcv : f \in Live}
    BY <1>2 DEF IsInjective, Range
  <2> HIDE DEF H
  <2> QED
    BY <1>1, <1>2, <2>1, <2>2, PoolConserved
<1>5. Conserved("snd")
  <2> DEFINE H == [f \in Live |-> strm[f].snd]
  <2>1. Held("snd") = H
    BY DEF Held
  <2>2. IsInjective(H) /\ Range(H) = {strm[f].snd : f \in Live}
    BY <1>2 DEF IsInjective, Range
  <2> HIDE DEF H
  <2> QED
    BY <1>1, <1>2, <2>1, <2>2, PoolConserved
<1>6. Conserved("rb")
  <2> DEFINE H == [f \in {g \in Live : strm[g].recvbuf # None} |-> strm[f].recvbuf]
  <2>1. Held("rb") = H
    BY DEF Held
  <2>2. IsInjective(H) /\ Range(H) = {strm[f].recvbuf : f \in Live} \ {None}
    BY <1>2 DEF IsInjective, Range
  <2> HIDE DEF H
  <2> QED
    BY <1>1, <1>2, <2>1, <2>2, PoolConserved
<1> QED
  BY <1>3, <1>4, <1>5, <1>6

\* The pool of fragments: in lists of streams and in the two queues.
LEMMA FragmentsConserved ==
    ASSUME PoolsInv
    PROVE  HasOneOwner("frag", Size("frag") + Heap)
<1> DEFINE V(p) == CASE p[1] = "stream"    -> strm[p[2]].fctx[p[3]]
                     [] p[1] = "fragq"     -> free_fragq[p[2]]
                     [] p[1] = "fragq_int" -> free_fragq_int[p[2]]
           D1 == UNION {{"stream"} \X {f} \X DOMAIN strm[f].fctx : f \in Live}
           D2 == {"fragq"} \X DOMAIN free_fragq
           D3 == {"fragq_int"} \X DOMAIN free_fragq_int
           D == D1 \cup D2 \cup D3
           H == [p \in D |-> V(p)]
           I(f) == 1 .. Len(strm[f].fctx)
           J == 1 .. Len(free_fragq)
           K == 1 .. Len(free_fragq_int)
<1>1. Held("frag") = H
  BY DEF Held
<1>2. /\ \A f \in Live : DOMAIN strm[f].fctx = I(f)
      /\ DOMAIN free_fragq = J /\ DOMAIN free_fragq_int = K
  BY LenProperties, LiveStreams, StreamFields DEF PoolsInv, PoolTypes
<1>3. ASSUME NEW p \in D
      PROVE  \/ \E f \in Live : \E i \in I(f) : p = <<"stream", f, i>> /\ V(p) = strm[f].fctx[i]
             \/ \E i \in J : p = <<"fragq", i>> /\ V(p) = free_fragq[i]
             \/ \E i \in K : p = <<"fragq_int", i>> /\ V(p) = free_fragq_int[i]
  <2>1. CASE p \in D1
    <3>1. PICK f \in Live : p \in {"stream"} \X {f} \X DOMAIN strm[f].fctx
      BY <2>1
    <3>2. /\ p = <<"stream", f, p[3]>> /\ p[3] \in DOMAIN strm[f].fctx
          /\ p[1] = "stream" /\ p[2] = f
      BY <3>1
    <3>3. V(p) = strm[f].fctx[p[3]]
      BY <3>2
    <3> QED
      BY <1>2, <3>2, <3>3
  <2>2. CASE p \in D2
    <3>1. p = <<"fragq", p[2]>> /\ p[2] \in DOMAIN free_fragq /\ p[1] = "fragq"
      BY <2>2
    <3>2. V(p) = free_fragq[p[2]]
      BY <3>1
    <3> QED
      BY <1>2, <3>1, <3>2
  <2>3. CASE p \in D3
    <3>1. p = <<"fragq_int", p[2]>> /\ p[2] \in DOMAIN free_fragq_int /\ p[1] = "fragq_int"
      BY <2>3
    <3>2. V(p) = free_fragq_int[p[2]]
      BY <3>1
    <3> QED
      BY <1>2, <3>1, <3>2
  <2> QED
    BY <2>1, <2>2, <2>3
<1>4. /\ \A f \in Live : \A i \in I(f) :
            <<"stream", f, i>> \in D /\ V(<<"stream", f, i>>) = strm[f].fctx[i]
      /\ \A i \in J : <<"fragq", i>> \in D /\ V(<<"fragq", i>>) = free_fragq[i]
      /\ \A i \in K : <<"fragq_int", i>> \in D /\ V(<<"fragq_int", i>>) = free_fragq_int[i]
  <2>1. ASSUME NEW f \in Live, NEW i \in I(f)
        PROVE  <<"stream", f, i>> \in D /\ V(<<"stream", f, i>>) = strm[f].fctx[i]
    <3>1. <<"stream", f, i>> \in {"stream"} \X {f} \X DOMAIN strm[f].fctx
      BY <1>2
    <3> QED
      BY <3>1
  <2>2. ASSUME NEW i \in J
        PROVE  <<"fragq", i>> \in D /\ V(<<"fragq", i>>) = free_fragq[i]
    BY <1>2
  <2>3. ASSUME NEW i \in K
        PROVE  <<"fragq_int", i>> \in D /\ V(<<"fragq_int", i>>) = free_fragq_int[i]
    BY <1>2
  <2> QED
    BY <2>1, <2>2, <2>3
<1>5. /\ \A f \in Live : \A i \in I(f) : strm[f].fctx[i] \in Members(strm[f].fctx)
      /\ \A i \in J : free_fragq[i] \in Members(free_fragq)
      /\ \A i \in K : free_fragq_int[i] \in Members(free_fragq_int)
      /\ \A f \in Live : \A x \in Members(strm[f].fctx) : \E i \in I(f) : x = strm[f].fctx[i]
      /\ \A x \in Members(free_fragq) : \E i \in J : x = free_fragq[i]
      /\ \A x \in Members(free_fragq_int) : \E i \in K : x = free_fragq_int[i]
  BY DEF Members
<1>6. /\ \A f \in Live : \A i, j \in I(f) : strm[f].fctx[i] = strm[f].fctx[j] => i = j
      /\ \A i, j \in J : free_fragq[i] = free_fragq[j] => i = j
      /\ \A i, j \in K : free_fragq_int[i] = free_fragq_int[j] => i = j
      /\ \A f, g \in Live : f # g => Members(strm[f].fctx) \cap Members(strm[g].fctx) = {}
      /\ \A f \in Live : Members(strm[f].fctx) \cap Members(free_fragq) = {}
      /\ \A f \in Live : Members(strm[f].fctx) \cap Members(free_fragq_int) = {}
      /\ Members(free_fragq) \cap Members(free_fragq_int) = {}
  BY DEF PoolsInv, FragInv, Distinct
<1>7. DOMAIN H = D /\ \A p \in D : H[p] = V(p)
  OBVIOUS
<1> HIDE DEF D, D1, D2, D3, V, H, I, J, K
<1>8. IsInjective(H)
  <2> SUFFICES ASSUME NEW p \in D, NEW u \in D, V(p) = V(u) PROVE p = u
    BY <1>7 DEF IsInjective
  <2>1. CASE \E f \in Live : \E i \in I(f) : p = <<"stream", f, i>> /\ V(p) = strm[f].fctx[i]
    <3>7. PICK f \in Live : \E i \in I(f) : p = <<"stream", f, i>> /\ V(p) = strm[f].fctx[i]
      BY <2>1
    <3>1. PICK i \in I(f) : p = <<"stream", f, i>> /\ V(p) = strm[f].fctx[i]
      BY <3>7
    <3>2. V(p) \in Members(strm[f].fctx)
      BY <1>5, <3>1
    <3>3. V(u) \notin Members(free_fragq) /\ V(u) \notin Members(free_fragq_int)
      BY <1>6, <3>2
    <3>8. PICK g \in Live : \E j \in I(g) : u = <<"stream", g, j>> /\ V(u) = strm[g].fctx[j]
      BY <1>3, <1>5, <3>3
    <3>4. PICK j \in I(g) : u = <<"stream", g, j>> /\ V(u) = strm[g].fctx[j]
      BY <3>8
    <3>5. V(u) \in Members(strm[g].fctx)
      BY <1>5, <3>4
    <3>6. f = g
      BY <1>6, <3>2, <3>5
    <3> QED
      BY <1>6, <3>1, <3>4, <3>6
  <2>2. CASE \E i \in J : p = <<"fragq", i>> /\ V(p) = free_fragq[i]
    <3>1. V(p) \in Members(free_fragq)
      BY <1>5, <2>2
    <3>2. ~ \E f \in Live : \E i \in I(f) : u = <<"stream", f, i>> /\ V(u) = strm[f].fctx[i]
      BY <1>5, <1>6, <3>1
    <3>3. ~ \E i \in K : u = <<"fragq_int", i>> /\ V(u) = free_fragq_int[i]
      BY <1>5, <1>6, <3>1
    <3> QED
      BY <1>3, <1>6, <2>2, <3>2, <3>3
  <2>3. CASE \E i \in K : p = <<"fragq_int", i>> /\ V(p) = free_fragq_int[i]
    <3>1. V(p) \in Members(free_fragq_int)
      BY <1>5, <2>3
    <3>2. ~ \E f \in Live : \E i \in I(f) : u = <<"stream", f, i>> /\ V(u) = strm[f].fctx[i]
      BY <1>5, <1>6, <3>1
    <3>3. ~ \E i \in J : u = <<"fragq", i>> /\ V(u) = free_fragq[i]
      BY <1>5, <1>6, <3>1
    <3> QED
      BY <1>3, <1>6, <2>3, <3>2, <3>3
  <2> QED
    BY <1>3, <2>1, <2>2, <2>3
<1> DEFINE L == UNION {Members(strm[f].fctx) : f \in Live}
<1>12. Fragments = L \cup Members(free_fragq) \cup Members(free_fragq_int)
  BY DEF Fragments
<1>9. Range(H) = Fragments
  <2>1. ASSUME NEW p \in D PROVE H[p] \in Fragments
    BY <1>3, <1>5, <1>7, <1>12
  <2>2. ASSUME NEW x \in Fragments PROVE \E p \in D : H[p] = x
    <3>1. CASE x \in L
      <4>1. PICK f \in Live : x \in Members(strm[f].fctx)
        BY <3>1
      <4>2. PICK i \in I(f) : x = strm[f].fctx[i]
        BY <1>5, <4>1
      <4> QED
        BY <1>4, <1>7, <4>2
    <3>2. CASE x \in Members(free_fragq)
      <4>1. PICK i \in J : x = free_fragq[i]
        BY <1>5, <3>2
      <4>2. <<"fragq", i>> \in D /\ H[<<"fragq", i>>] = x
        BY <1>4, <1>7, <4>1
      <4> QED
        BY <4>2
    <3>3. CASE x \in Members(free_fragq_int)
      <4>1. PICK i \in K : x = free_fragq_int[i]
        BY <1>5, <3>3
      <4>2. <<"fragq_int", i>> \in D /\ H[<<"fragq_int", i>>] = x
        BY <1>4, <1>7, <4>1
      <4> QED
        BY <4>2
    <3> QED
      BY <1>12, <3>1, <3>2, <3>3
  <2> QED
    BY <1>7, <2>1, <2>2 DEF Range
<1>10. PICK U : GoodPool(mp["frag"], AllFrags, U) /\ Fragments \subseteq U
  BY DEF PoolsInv, FragInv, Provides
<1>11. Size("frag") + Heap = AllFrags /\ AllFrags \in Nat \ {0}
  BY SizesAssumption DEF Size, AllFrags
<1>13. /\ FreeChunks(mp["frag"], AllFrags) = (0 .. AllFrags - 1) \ U
       /\ mp["frag"].mp_free_chunks = AllFrags - Cardinality(U)
       /\ U \subseteq 0 .. AllFrags - 1
  BY <1>10, <1>11, PoolFreeChunks DEF GoodPool
<1>14. Cardinality((0 .. AllFrags - 1) \ U) = AllFrags - Cardinality(U)
  <2>1. IsFiniteSet(0 .. AllFrags - 1) /\ Cardinality(0 .. AllFrags - 1) = AllFrags
    BY <1>11, FS_Interval
  <2> DEFINE all == 0 .. AllFrags - 1
  <2>2. all \cap U = U
    BY <1>13
  <2>3. Cardinality(all \ U) = Cardinality(all) - Cardinality(all \cap U)
    BY <2>1, FS_Difference, Zenon
  <2> QED
    BY <2>1, <2>2, <2>3
<1> QED
  BY <1>1, <1>8, <1>9, <1>10, <1>11, <1>13, <1>14 DEF HasOneOwner

\* No chunk of a pool is in two places, through every order of connections coming
\* and going (nty_mempool.c, CreateTcpStream, DestroyTcpStream, RBPut, RBRemove):
\* a part of a stream is on its pool's free list or with one stream, and none is
\* lost; a fragment is in one stream, in one queue or on the free list.  Timers
\* may give up any connection, and calloc's fragments end up in the pool.
THEOREM ChunksConservedHolds == PoolsSpec => []ChunksConserved
<1>1. PoolsInv => ChunksConserved
  BY PartsConserved, FragmentsConserved DEF ChunksConserved
<1> QED
  BY <1>1, PoolsInductive, PTL
==============================================================================
