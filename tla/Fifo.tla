-------------------------------- MODULE Fifo --------------------------------
(***************************************************************************)
(* What a queue between the application thread and the stack thread        *)
(* promises: a FIFO of at most Capacity elements.  An element is taken in  *)
(* the order it was put, exactly once, and the value the consumer receives *)
(* is the element it removed.                                              *)
(***************************************************************************)
EXTENDS Naturals, Sequences

CONSTANTS Elem,      \* what is queued: streams, send buffers, fragments
          Capacity,  \* the number of elements the queue holds
          NULL       \* no element

VARIABLES fifo,      \* the queued elements, oldest first
          got        \* the element the consumer received last

Init ==
    /\ fifo = << >>
    /\ got = NULL

Put(x) ==
    /\ Len(fifo) < Capacity
    /\ fifo' = Append(fifo, x)
    /\ UNCHANGED got

Take ==
    /\ fifo # << >>
    /\ got' = Head(fifo)
    /\ fifo' = Tail(fifo)

Next == Take \/ \E x \in Elem : Put(x)

Spec == Init /\ [][Next]_<<fifo, got>>
=============================================================================
