------------------------------- MODULE Mempool -------------------------------
(***************************************************************************)
(* The pool of equal chunks behind streams, buffers and fragments          *)
(* (nty_mempool.c), as operators on a record.  A free chunk begins with a  *)
(* header: how many chunks from it on are free, and the next such run.     *)
(* The header is in the chunk's own memory, so that an owner destroys it:  *)
(* streams and fragments are zeroed when they are allocated.               *)
(***************************************************************************)
EXTENDS Naturals, FiniteSets

CONSTANT None  \* the null pointer

ASSUME NoneAssumption == None \notin Nat

\* what the owner of a chunk leaves of its header
Overwritten == [mc_free_chunks |-> 0, next |-> None]

\* nty_mempool_create: one run of the n chunks 0 .. n - 1.  Addresses that are
\* not of the pool have no header.
nty_mempool_create(n, addresses) ==
    [header |-> [a \in addresses |->
                   IF a = 0 THEN [mc_free_chunks |-> n, next |-> None]
                   ELSE Overwritten],
     mp_freeptr |-> 0,
     mp_free_chunks |-> n]

CanAlloc(mp) == mp.mp_free_chunks > 0

\* the chunk nty_mempool_alloc returns
Allocated(mp) == mp.mp_freeptr

nty_mempool_alloc_NoCopy(mp) ==
    LET p == mp.mp_freeptr
        left == mp.header[p].mc_free_chunks - 1
    IN  [header |-> [mp.header EXCEPT ![p] = Overwritten],
         mp_freeptr |-> IF left > 0 THEN p ELSE mp.header[p].next,
         mp_free_chunks |-> mp.mp_free_chunks - 1]

\* the first chunk of the first run goes; the rest of the run gets its header
nty_mempool_alloc(mp) ==
    LET p == mp.mp_freeptr
        left == mp.header[p].mc_free_chunks - 1
        rest == [mc_free_chunks |-> left, next |-> mp.header[p].next]
    IN  [header |-> IF left > 0
                    THEN [mp.header EXCEPT ![p] = Overwritten, ![p + 1] = rest]
                    ELSE [mp.header EXCEPT ![p] = Overwritten],
         mp_freeptr |-> IF left > 0 THEN p + 1 ELSE mp.header[p].next,
         mp_free_chunks |-> mp.mp_free_chunks - 1]

\* a run of one, in front
nty_mempool_free(mp, p) ==
    [header |-> [mp.header EXCEPT ![p] = [mc_free_chunks |-> 1,
                                          next |-> mp.mp_freeptr]],
     mp_freeptr |-> p,
     mp_free_chunks |-> mp.mp_free_chunks + 1]

\* by k: the chunks of the runs reached in at most k steps from p
Runs(mp, n) ==
    LET runs[k \in 0 .. n] ==
          [p \in (DOMAIN mp.header) \cup {None} |->
             IF k = 0 \/ p = None THEN {}
             ELSE (p .. p + mp.header[p].mc_free_chunks - 1)
                     \cup runs[k - 1][mp.header[p].next]]
    IN  runs

\* The chunks on the free list, of at most n runs.
FreeChunks(mp, n) == Runs(mp, n)[n][mp.mp_freeptr]
==============================================================================
