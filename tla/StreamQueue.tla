----------------------------- MODULE StreamQueue -----------------------------
(***************************************************************************)
(* The lock-free ring of nty_buffer.c: StreamEnqueue and StreamDequeue     *)
(* (sendq, ackq, closeq, destroyq, acceptq), with the same code repeated   *)
(* for send buffers (SBEnqueue, SBDequeue) and receive fragments           *)
(* (RBFragEnqueue, RBFragDequeue).  The ring has Capacity + 1 slots and    *)
(* holds Capacity elements; _head is written by the consumer and _tail by  *)
(* the producer.  No lock is taken: every read and write of a shared       *)
(* volatile field is a step of its own.  Stores become visible in program  *)
(* order (the barrier is a compiler barrier, the target is x86).           *)
(***************************************************************************)
EXTENDS Integers, Sequences, FiniteSets

CONSTANTS Elem,       \* the pointers that are queued
          NULL,       \* the null pointer
          Capacity,   \* _capacity
          Producers   \* the threads that call StreamEnqueue on this queue

ASSUME CapacityAssumption == Capacity \in Nat \ {0}
ASSUME NullAssumption == NULL \notin Elem
ASSUME ProducersAssumption == Producers # {}

VARIABLES q,        \* _q, the slots
          head,     \* _head
          tail,     \* _tail
          ppc,      \* where each producer is in StreamEnqueue
          item,     \* the argument of each producer's call
          ph, pt,   \* the local copies h and t of each producer
          cpc,      \* where the consumer is in StreamDequeue
          ch, ct,   \* the consumer's local copies h and t
          stream,   \* the consumer's local variable stream
          got       \* what the last successful StreamDequeue returned

prodVars == <<ppc, item, ph, pt>>
consVars == <<cpc, ch, ct, stream, got>>
vars == <<q, head, tail, prodVars, consVars>>

Slot == 0 .. Capacity

NextIndex(i) == IF i # Capacity THEN i + 1 ELSE 0

CreateStreamQueue ==
    /\ q = [i \in Slot |-> NULL]
    /\ head = 0
    /\ tail = 0

Init ==
    /\ CreateStreamQueue
    /\ ppc = [p \in Producers |-> "idle"]
    /\ item = [p \in Producers |-> NULL]
    /\ ph = [p \in Producers |-> 0]
    /\ pt = [p \in Producers |-> 0]
    /\ cpc = "idle"
    /\ ch = 0
    /\ ct = 0
    /\ stream = NULL
    /\ got = NULL
-----------------------------------------------------------------------------
(***************************************************************************)
(* StreamEnqueue: read _head, read _tail, and when the ring is not full    *)
(* store the element and then publish it by advancing _tail.               *)
(***************************************************************************)
EnqueueReadHead(p, x) ==
    /\ ppc[p] = "idle"
    /\ item' = [item EXCEPT ![p] = x]
    /\ ph' = [ph EXCEPT ![p] = head]
    /\ ppc' = [ppc EXCEPT ![p] = "readTail"]
    /\ UNCHANGED <<q, head, tail, pt, consVars>>

EnqueueReadTail_NoFullCheck(p) ==
    /\ ppc[p] = "readTail"
    /\ pt' = [pt EXCEPT ![p] = tail]
    /\ ppc' = [ppc EXCEPT ![p] = "store"]
    /\ UNCHANGED <<q, head, tail, item, ph, consVars>>

EnqueueReadTail(p) ==
    /\ ppc[p] = "readTail"
    /\ pt' = [pt EXCEPT ![p] = tail]
    /\ ppc' = [ppc EXCEPT ![p] =
                 IF NextIndex(tail) # ph[p] THEN "store" ELSE "idle"]
    /\ UNCHANGED <<q, head, tail, item, ph, consVars>>

EnqueueStore(p) ==
    /\ ppc[p] = "store"
    /\ q' = [q EXCEPT ![pt[p]] = item[p]]
    /\ ppc' = [ppc EXCEPT ![p] = "publish"]
    /\ UNCHANGED <<head, tail, item, ph, pt, consVars>>

EnqueuePublish(p) ==
    /\ ppc[p] = "publish"
    /\ tail' = NextIndex(pt[p])
    /\ ppc' = [ppc EXCEPT ![p] = "idle"]
    /\ UNCHANGED <<q, head, item, ph, pt, consVars>>
-----------------------------------------------------------------------------
(***************************************************************************)
(* StreamDequeue: read _head, read _tail, and when the ring is not empty   *)
(* load the slot and then release it by advancing _head.                   *)
(***************************************************************************)
DequeueReadHead ==
    /\ cpc = "idle"
    /\ ch' = head
    /\ cpc' = "readTail"
    /\ UNCHANGED <<q, head, tail, prodVars, ct, stream, got>>

DequeueReadTail_NoEmptyCheck ==
    /\ cpc = "readTail"
    /\ ct' = tail
    /\ cpc' = "load"
    /\ UNCHANGED <<q, head, tail, prodVars, ch, stream, got>>

DequeueReadTail ==
    /\ cpc = "readTail"
    /\ ct' = tail
    /\ cpc' = IF ch # tail THEN "load" ELSE "idle"
    /\ UNCHANGED <<q, head, tail, prodVars, ch, stream, got>>

DequeueLoad_NextSlot ==
    /\ cpc = "load"
    /\ stream' = q[NextIndex(ch)]
    /\ cpc' = "release"
    /\ UNCHANGED <<q, head, tail, prodVars, ch, ct, got>>

DequeueLoad ==
    /\ cpc = "load"
    /\ stream' = q[ch]
    /\ cpc' = "release"
    /\ UNCHANGED <<q, head, tail, prodVars, ch, ct, got>>

DequeueRelease_ToTail ==
    /\ cpc = "release"
    /\ head' = ct
    /\ got' = stream
    /\ cpc' = "idle"
    /\ UNCHANGED <<q, tail, prodVars, ch, ct, stream>>

DequeueRelease ==
    /\ cpc = "release"
    /\ head' = NextIndex(ch)
    /\ got' = stream
    /\ cpc' = "idle"
    /\ UNCHANGED <<q, tail, prodVars, ch, ct, stream>>
-----------------------------------------------------------------------------
Enqueue(p) ==
    \/ \E x \in Elem : EnqueueReadHead(p, x)
    \/ EnqueueReadTail(p)
    \/ EnqueueStore(p)
    \/ EnqueuePublish(p)

Dequeue ==
    \/ DequeueReadHead
    \/ DequeueReadTail
    \/ DequeueLoad
    \/ DequeueRelease

Next == Dequeue \/ \E p \in Producers : Enqueue(p)

Spec == Init /\ [][Next]_vars

(***************************************************************************)
(* Fairness: the consumer polls and its call never blocks                  *)
(* (nty_tcp_handle_apicall runs in every turn of the stack loop, accept in *)
(* every turn of a server).  Nothing is assumed of the producers.          *)
(***************************************************************************)
FairSpec == Spec /\ WF_vars(Dequeue)
-----------------------------------------------------------------------------
(***************************************************************************)
(* The abstract queue.  An element is in the FIFO from the moment _tail    *)
(* passes it until _head passes it.                                        *)
(***************************************************************************)
Count == IF head <= tail THEN tail - head ELSE tail - head + Capacity + 1

SlotOf(i) == IF head + i - 1 <= Capacity
             THEN head + i - 1
             ELSE head + i - 1 - (Capacity + 1)

fifo == [i \in 1 .. Count |-> q[SlotOf(i)]]

Abstract == INSTANCE Fifo WITH fifo <- fifo, got <- got

\* The ring implements the FIFO: StreamEnqueue's advance of _tail puts, and
\* StreamDequeue's advance of _head takes what StreamDequeue returns; every
\* other step, in any interleaving, leaves the abstract queue alone.
ImplementsFifo == Abstract!Spec

TypeOK ==
    /\ q \in [Slot -> Elem \cup {NULL}]
    /\ head \in Slot
    /\ tail \in Slot
    /\ ppc \in [Producers -> {"idle", "readTail", "store", "publish"}]
    /\ item \in [Producers -> Elem \cup {NULL}]
    /\ ph \in [Producers -> Slot]
    /\ pt \in [Producers -> Slot]
    /\ cpc \in {"idle", "readTail", "load", "release"}
    /\ ch \in Slot
    /\ ct \in Slot
    /\ stream \in Elem \cup {NULL}
    /\ got \in Elem \cup {NULL}

\* StreamDequeue's assert(stream): the slot it releases held an element.
AssertStream == cpc = "release" => stream # NULL

\* Neither side overruns the other: a slot the consumer is about to load or
\* has loaded and not released is never the slot the producer is storing to.
NoOverrun ==
    \A p \in Producers :
        ppc[p] \in {"store", "publish"} /\ cpc \in {"load", "release"}
            => pt[p] # ch

\* Every element that StreamEnqueue published is returned by StreamDequeue.
Delivered ==
    \A x \in Elem : (x \in {fifo[i] : i \in 1 .. Count}) ~> (got = x)
=============================================================================
