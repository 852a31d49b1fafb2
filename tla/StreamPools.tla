----------------------------- MODULE StreamPools -----------------------------
(***************************************************************************)
(* The memory of connections: the flow table (nty_hash.c), the pools of    *)
(* streams with their rcv and snd parts, and the managers of send buffers, *)
(* receive buffers and fragments (nty_buffer.c), as connections come, send *)
(* and receive, and go.                                                    *)
(*                                                                         *)
(* Three threads of control meet here: the stack thread creates and        *)
(* destroys streams and stores payload; an application thread takes a send *)
(* buffer in its first send and gives fragments back in recv.  The queues  *)
(* of free buffers and fragments are FIFOs, which is what StreamQueue      *)
(* shows of the same ring with one thread at each end; a dequeue is still  *)
(* two steps, the load of the slot and the advance of _head.               *)
(*                                                                         *)
(* A chunk is its number in its pool, and a stream is its flow chunk: the  *)
(* pools of flow, rcv and snd chunks go in step, so that the parts of a    *)
(* stream are at the same place in each.  A call of the application is one *)
(* step between those of the stack, but for SBDequeue; what a call still   *)
(* writes into a stream destroyed under it is not modelled.                *)
(***************************************************************************)
EXTENDS Mempool, Sequences, SequencesExt

CONSTANTS Tuples,          \* <<saddr, port>> of the peers, as numbers
          Bins,            \* NUM_BINS_FLOWS
          MaxConcurrency,  \* NTY_MAX_CONCURRENCY: streams
          NumBuffers,      \* NTY_MAX_NUM_BUFFERS: buffers of each kind
          MaxFrags,        \* bound on the fragments of a receive buffer
          Heap,            \* bound on the memory calloc provides fragments in
          Apps,            \* threads that send
          Abandon          \* do timers give up connections in use?

ASSUME SizesAssumption ==
    /\ {Bins, MaxConcurrency, NumBuffers, MaxFrags} \subseteq Nat \ {0}
    /\ Heap \in Nat
    /\ Abandon \in BOOLEAN
    /\ Tuples \subseteq Nat \X Nat

Flows == 0 .. MaxConcurrency - 1

\* the pools, and the chunks of each
Pools == {"flow", "rcv", "snd", "rb", "frag", "sb"}
Size(k) == IF k \in {"flow", "rcv", "snd"} THEN MaxConcurrency ELSE NumBuffers
Chunks(k) == 0 .. Size(k) - 1
Addresses(k) == IF k = "frag" THEN 0 .. Size(k) + Heap - 1 ELSE Chunks(k)

\* a stream, and what a sending thread has loaded for one
Streams ==
    [tuple : Tuples, rcv : Nat, snd : Nat, recvbuf : Nat \cup {None},
     sndbuf : Nat \cup {None}, fctx : Seq(Nat), accepted : BOOLEAN,
     state : {"SYN_RCVD", "ESTABLISHED", "FIN_WAIT", "CLOSED"}]

Loads == [stream : Flows, buf : Nat]

ASSUME NoStreamAssumption == None \notin Streams \cup Loads

VARIABLES mp,         \* the pools
          strm,       \* by flow chunk: the stream, or None
          ht_stream,  \* the bins of the flow table
          flow_cnt,   \* streams, as counted
          freeq,      \* free send buffers
          free_fragq, \* free fragments, given back by recv
          free_fragq_int, \* and by the stack thread
          sock,       \* the streams the sockets of the application point to
          app         \* what each sending thread has loaded from freeq

poolsVars == <<mp, strm, ht_stream, flow_cnt, freeq, free_fragq, free_fragq_int,
          sock, app>>

queues == <<freeq, free_fragq, free_fragq_int>>
-----------------------------------------------------------------------------
(* The flow table.                                                          *)

HashFlow(t) == (t[1] + t[2]) % Bins

EqualFlow_IgnoresPort(t, u) == t[1] = u[1]

EqualFlow(t, u) == t = u

\* the first stream of the bin that has the tuple, or None
StreamHTSearch(t) ==
    LET bin == ht_stream[HashFlow(t)]
        hits == {i \in 1 .. Len(bin) : EqualFlow(strm[bin[i]].tuple, t)}
    IN  IF hits = {} THEN None
        ELSE bin[CHOOSE i \in hits : \A j \in hits : i <= j]

StreamHTInsert(f, t) ==
    ht_stream' = [ht_stream EXCEPT ![HashFlow(t)] = Append(@, f)]

StreamHTRemove(f) ==
    ht_stream' = [ht_stream EXCEPT
                    ![HashFlow(strm[f].tuple)] =
                       RemoveAt(@, CHOOSE i \in DOMAIN @ : @[i] = f)]
-----------------------------------------------------------------------------
(* Fragments.  AllocateFragmentContext takes one from the queue recv fills, *)
(* the stack's own queue, the pool, or the heap.  The mark is_calloc of the *)
(* last is cleared with the rest of the fragment before it is returned, so  *)
(* that FreeFragmentContextSingle puts every fragment into the pool (where  *)
(* an address that is not a multiple of the chunk size ends in an assertion *)
(* of nty_mempool_free; the model goes on).                                 *)

Source ==
    IF free_fragq # << >> THEN "fragq"
    ELSE IF free_fragq_int # << >> THEN "fragq_int"
    ELSE IF CanAlloc(mp["frag"]) THEN "pool" ELSE "heap"

InUse == UNION {ToSet(strm[f].fctx) : f \in {g \in Flows : strm[g] # None}}

\* memory of the heap that is not in use; what is lost may be named again, as
\* nothing holds it
Callocs == {a \in Size("frag") .. Size("frag") + Heap - 1 : a \notin InUse}

\* the fragments AllocateFragmentContext can return: one, or what calloc has
AllocateFragmentContext ==
    CASE Source = "fragq"     -> {Head(free_fragq)}
      [] Source = "fragq_int" -> {Head(free_fragq_int)}
      [] Source = "pool"      -> {Allocated(mp["frag"])}
      [] OTHER                -> Callocs

\* the pool of fragments once one is allocated
FragPool ==
    IF Source = "pool" THEN nty_mempool_alloc(mp["frag"]) ELSE mp["frag"]

\* the pool after the first n fragments of a list are freed
Freed(pool, frags) ==
    LET freed[n \in 0 .. Len(frags)] ==
          IF n = 0 THEN pool ELSE nty_mempool_free(freed[n - 1], frags[n])
    IN  freed

FreeFragmentContext(pool, frags) == Freed(pool, frags)[Len(frags)]

\* RBPut links a fragment n into the list, or merges it with the fragments
\* i .. j of it: each is freed as it is merged into the next, and j is left.
Linked(list, n) ==
    {[list |-> InsertAt(list, i, n), freed |-> << >>] : i \in 1 .. Len(list) + 1}

MergedWith(list, n, i, j) ==
    [list |-> SubSeq(list, 1, i - 1) \o SubSeq(list, j, Len(list)),
     freed |-> <<n>> \o SubSeq(list, i, j - 1)]

Merged(list, n) ==
    UNION {{MergedWith(list, n, i, j) : j \in i .. Len(list)} : i \in DOMAIN list}
-----------------------------------------------------------------------------
CreateHashtable == [b \in 0 .. Bins - 1 |-> << >>]

\* the managers of buffers begin with full pools and empty queues
nty_sbmanager_create == nty_mempool_create(NumBuffers, Chunks("sb"))

RBManagerCreate(k) == nty_mempool_create(NumBuffers, Addresses(k))

\* the queues of free buffers and fragments, of NumBuffers: what finds no room
\* is not kept
SBEnqueue(q, buf) == IF Len(q) >= NumBuffers THEN q ELSE Append(q, buf)

RBFragEnqueue(q, frag) == IF Len(q) >= NumBuffers THEN q ELSE Append(q, frag)

PoolsInit ==
    /\ mp = [k \in Pools |->
               CASE k = "sb"           -> nty_sbmanager_create
                 [] k \in {"rb", "frag"} -> RBManagerCreate(k)
                 [] OTHER              -> nty_mempool_create(Size(k), Chunks(k))]
    /\ strm = [f \in Flows |-> None]
    /\ ht_stream = CreateHashtable
    /\ flow_cnt = 0
    /\ freeq = << >>
    /\ free_fragq = << >>
    /\ free_fragq_int = << >>
    /\ sock = {}
    /\ app = [a \in Apps |-> None]

\* CreateTcpStream allocates the parts in this order and gives back the
\* earlier ones when a later one fails; passive_open then takes a receive
\* buffer, and does without one (the stream is CLOSED) if there is none.
Obtained(k) == IF CanAlloc(mp[k]) THEN Allocated(mp[k]) ELSE None

Stream(t) ==
    [tuple |-> t, rcv |-> Obtained("rcv"), snd |-> Obtained("snd"),
     recvbuf |-> Obtained("rb"), sndbuf |-> None, fctx |-> << >>,
     accepted |-> FALSE, state |-> IF CanAlloc(mp["rb"]) THEN "SYN_RCVD" ELSE "CLOSED"]

\* a SYN that belongs to no stream
nty_create_stream(t) ==
    LET f == Allocated(mp["flow"])
    IN  /\ StreamHTSearch(t) = None
        /\ \A k \in {"flow", "rcv", "snd"} : CanAlloc(mp[k])
        /\ mp' = [k \in Pools |->
                    IF k \in {"flow", "rcv", "snd", "rb"} /\ CanAlloc(mp[k])
                    THEN nty_mempool_alloc(mp[k]) ELSE mp[k]]
        /\ strm' = [strm EXCEPT ![f] = Stream(t)]
        /\ StreamHTInsert(f, t)
        /\ flow_cnt' = flow_cnt + 1
        /\ UNCHANGED <<queues, sock, app>>

\* a segment finds its stream: the handshake ends, and accept can return it
Established(t) ==
    LET f == StreamHTSearch(t)
    IN  /\ f # None
        /\ strm[f].state = "SYN_RCVD"
        /\ strm' = [strm EXCEPT ![f].state = "ESTABLISHED"]
        /\ UNCHANGED <<mp, ht_stream, flow_cnt, queues, sock, app>>

\* payload of an open connection is stored; after close it is stored and taken
\* out again by the stack thread (FIN_WAIT_1 and FIN_WAIT_2)
process_payload(t) ==
    LET f == StreamHTSearch(t)
    IN  /\ f # None
        /\ strm[f].state \in {"ESTABLISHED", "FIN_WAIT"}
        /\ strm[f].recvbuf # None
        /\ Len(strm[f].fctx) < MaxFrags
        /\ \E n \in AllocateFragmentContext :
             \E put \in Linked(strm[f].fctx, n) \cup Merged(strm[f].fctx, n) :
               \E out \in IF strm[f].state = "FIN_WAIT" THEN {0, 1} ELSE {0} :
                 /\ strm' = [strm EXCEPT
                       ![f].fctx = SubSeq(put.list, out + 1, Len(put.list))]
                 /\ free_fragq' = IF Source = "fragq"
                                  THEN Tail(free_fragq) ELSE free_fragq
                 /\ free_fragq_int' =
                       LET left == IF Source = "fragq_int" THEN Tail(free_fragq_int)
                                   ELSE free_fragq_int
                       IN  IF out = 0 THEN left
                           ELSE RBFragEnqueue(left, Head(put.list))
                 /\ mp' = [mp EXCEPT
                             !["frag"] = FreeFragmentContext(FragPool, put.freed)]
        /\ UNCHANGED <<ht_stream, flow_cnt, freeq, sock, app>>

DestroyTcpStream_KeepsSnd(f) ==
    LET s == strm[f]
    IN  /\ mp' = [mp EXCEPT
                    !["frag"] = FreeFragmentContext(@, s.fctx),
                    !["rb"] = IF s.recvbuf = None THEN @
                              ELSE nty_mempool_free(@, s.recvbuf),
                    !["rcv"] = nty_mempool_free(@, s.rcv),
                    !["flow"] = nty_mempool_free(@, f)]
        /\ strm' = [strm EXCEPT ![f] = None]
        /\ StreamHTRemove(f)
        /\ flow_cnt' = flow_cnt - 1
        /\ freeq' = IF s.sndbuf = None THEN freeq ELSE SBEnqueue(freeq, s.sndbuf)
        /\ UNCHANGED <<free_fragq, free_fragq_int, sock, app>>

\* SBFree queues the send buffer, RBFree frees the fragments and the chunk
DestroyTcpStream(f) ==
    LET s == strm[f]
    IN  /\ mp' = [mp EXCEPT
                    !["frag"] = FreeFragmentContext(@, s.fctx),
                    !["rb"] = IF s.recvbuf = None THEN @
                              ELSE nty_mempool_free(@, s.recvbuf),
                    !["rcv"] = nty_mempool_free(@, s.rcv),
                    !["snd"] = nty_mempool_free(@, s.snd),
                    !["flow"] = nty_mempool_free(@, f)]
        /\ strm' = [strm EXCEPT ![f] = None]
        /\ StreamHTRemove(f)
        /\ flow_cnt' = flow_cnt - 1
        /\ freeq' = IF s.sndbuf = None THEN freeq ELSE SBEnqueue(freeq, s.sndbuf)
        /\ UNCHANGED <<free_fragq, free_fragq_int, sock, app>>

\* before the handshake ends (RST, retransmissions), after close, and, with
\* Abandon, also when a connection in use is idle or retransmits for too long:
\* HandleRTO and CheckConnectionTimeout do
Gone(f) ==
    /\ strm[f] # None
    /\ strm[f].state \in {"SYN_RCVD", "CLOSED", "FIN_WAIT"} \/ Abandon
    /\ DestroyTcpStream(f)
-----------------------------------------------------------------------------
(* The application.  A socket keeps the pointer to its stream, also when a  *)
(* timer destroys the stream and its chunk becomes another one.  Sockets    *)
(* that point to one chunk are one to the model.                            *)

accept(f) ==
    /\ strm[f] # None
    /\ strm[f].state = "ESTABLISHED"
    /\ ~strm[f].accepted
    /\ strm' = [strm EXCEPT ![f].accepted = TRUE]
    /\ sock' = sock \cup {f}
    /\ UNCHANGED <<mp, ht_stream, flow_cnt, queues, app>>

\* what a call sees of the stream of its socket
Usable(f) == strm[f] # None /\ strm[f].state = "ESTABLISHED"

\* the first send takes a buffer: SBInit looks at the queue of free ones,
\* under the lock of the stream ...
SBDequeueLoad(a, f) ==
    /\ app[a] = None
    /\ Usable(f)
    /\ strm[f].sndbuf = None
    /\ \A b \in Apps : app[b] # None => app[b].stream # f
    /\ freeq # << >>
    /\ app' = [app EXCEPT ![a] = [stream |-> f, buf |-> Head(freeq)]]
    /\ UNCHANGED <<mp, strm, ht_stream, flow_cnt, queues, sock>>

\* forgets to advance _head
SBDequeueAdvance_KeepsHead(a) ==
    /\ app[a] # None
    /\ strm' = IF strm[app[a].stream] = None THEN strm
               ELSE [strm EXCEPT ![app[a].stream].sndbuf = app[a].buf]
    /\ app' = [app EXCEPT ![a] = None]
    /\ UNCHANGED <<mp, ht_stream, flow_cnt, queues, sock>>

\* ... and takes what it loaded.  _head moves to the slot after the one loaded;
\* a thread that loaded the same one may have moved it there before.  (That a
\* third buffer is dequeued in between and _head moved back is left out.)
SBDequeueAdvance(a) ==
    /\ app[a] # None
    /\ freeq' = IF freeq # << >> /\ Head(freeq) = app[a].buf
                THEN Tail(freeq) ELSE freeq
    /\ strm' = IF strm[app[a].stream] = None THEN strm
               ELSE [strm EXCEPT ![app[a].stream].sndbuf = app[a].buf]
    /\ app' = [app EXCEPT ![a] = None]
    /\ UNCHANGED <<mp, ht_stream, flow_cnt, free_fragq, free_fragq_int, sock>>

\* or has the pool make a new one
SBInit(a, f) ==
    /\ app[a] = None
    /\ Usable(f)
    /\ strm[f].sndbuf = None
    /\ \A b \in Apps : app[b] # None => app[b].stream # f
    /\ freeq = << >>
    /\ CanAlloc(mp["sb"])
    /\ mp' = [mp EXCEPT !["sb"] = nty_mempool_alloc(@)]
    /\ strm' = [strm EXCEPT ![f].sndbuf = Allocated(mp["sb"])]
    /\ UNCHANGED <<ht_stream, flow_cnt, queues, sock, app>>

\* recv takes the first fragment as a whole: RBRemove queues it
RBRemove(f) ==
    /\ Usable(f)
    /\ strm[f].fctx # << >>
    /\ strm' = [strm EXCEPT ![f].fctx = Tail(@)]
    /\ free_fragq' = RBFragEnqueue(free_fragq, Head(strm[f].fctx))
    /\ UNCHANGED <<mp, ht_stream, flow_cnt, freeq, free_fragq_int, sock, app>>

\* Closing a socket whose stream is destroyed ends in the assertion of
\* DestroyTcpStream that the stream is in the table.
close(f) ==
    /\ strm[f] # None
    /\ \A a \in Apps : app[a] # None => app[a].stream # f
    /\ sock' = sock \ {f}
    /\ strm' = IF Usable(f) THEN [strm EXCEPT ![f].state = "FIN_WAIT"]
               ELSE strm
    /\ UNCHANGED <<mp, ht_stream, flow_cnt, queues, app>>

PoolsNext ==
    \/ \E t \in Tuples : \/ nty_create_stream(t)
                         \/ Established(t)
                         \/ process_payload(t)
    \/ \E f \in Flows : Gone(f) \/ accept(f)
    \/ \E f \in sock :
          \/ RBRemove(f)
          \/ close(f)
          \/ \E a \in Apps : SBDequeueLoad(a, f) \/ SBInit(a, f)
    \/ \E a \in Apps : SBDequeueAdvance(a)

PoolsSpec == PoolsInit /\ [][PoolsNext]_poolsVars
-----------------------------------------------------------------------------
Live == {f \in Flows : strm[f] # None}

\* what the places that can hold a chunk of each pool hold: parts of streams,
\* and queues of free buffers and fragments
Held(k) ==
    CASE k = "flow" -> [f \in Live |-> f]
      [] k = "rcv"  -> [f \in Live |-> strm[f].rcv]
      [] k = "snd"  -> [f \in Live |-> strm[f].snd]
      [] k = "rb"   -> [f \in {g \in Live : strm[g].recvbuf # None} |->
                          strm[f].recvbuf]
      [] k = "sb"   ->
           [p \in ({"stream"} \X {g \in Live : strm[g].sndbuf # None})
                    \cup ({"freeq"} \X DOMAIN freeq) |->
              IF p[1] = "stream" THEN strm[p[2]].sndbuf ELSE freeq[p[2]]]
      [] k = "frag" ->
           [p \in (UNION {{"stream"} \X {f} \X DOMAIN strm[f].fctx : f \in Live})
                    \cup ({"fragq"} \X DOMAIN free_fragq)
                    \cup ({"fragq_int"} \X DOMAIN free_fragq_int) |->
              CASE p[1] = "stream"    -> strm[p[2]].fctx[p[3]]
                [] p[1] = "fragq"     -> free_fragq[p[2]]
                [] p[1] = "fragq_int" -> free_fragq_int[p[2]]]

Conserved(k) ==
    /\ IsInjective(Held(k))
    /\ FreeChunks(mp[k], Size(k)) = Chunks(k) \ Range(Held(k))
    /\ mp[k].mp_free_chunks = Size(k) - Cardinality(DOMAIN Held(k))

\* n chunks at most: one place has what is not free, and free_chunks counts
HasOneOwner(k, n) ==
    /\ IsInjective(Held(k))
    /\ FreeChunks(mp[k], n) \cap Range(Held(k)) = {}
    /\ mp[k].mp_free_chunks = Cardinality(FreeChunks(mp[k], n))

\* Nothing is in two places, through every order of connections coming and going,
\* also when timers give up connections in use: each chunk of the pools a stream
\* is made from is on the pool's free list or with one stream, and none is lost.
\* A fragment is in the list of one stream, in one of the two queues or on the
\* pool's free list, though calloc's fragments find their way into queue and pool;
\* those may be lost, as the queues have room for those of the pool only.
ChunksConserved ==
    /\ \A k \in {"flow", "rcv", "snd", "rb"} : Conserved(k)
    /\ HasOneOwner("frag", Size("frag") + Heap)

\* No two streams send from one buffer, also when a stream goes while the
\* application takes a buffer for it.  With a second sending thread this fails.
BuffersHaveOneOwner == HasOneOwner("sb", Size("sb"))

\* The pools suffice for one another: where there is room for a stream there is
\* room for its parts and its receive buffer, so that CreateTcpStream and
\* passive_open never fail half-way.
PoolsSuffice ==
    CanAlloc(mp["flow"]) => \A k \in {"rcv", "snd", "rb"} : CanAlloc(mp[k])

\* A segment is given to the stream of its connection, and to no other, also
\* when connections share a bin and come and go around it: a search for a tuple
\* returns the one stream that has it, or none if none has.  flow_cnt, which
\* turns the timers and the calls of the application on, counts the streams.
SearchFindsStream ==
    /\ \A t \in Tuples :
          {f \in Live : strm[f].tuple = t} = {StreamHTSearch(t)} \ {None}
    /\ flow_cnt = Cardinality(Live)

\* Send buffers are not lost.
SendBuffersConserved == Conserved("sb")

\* The stream a socket points to is one that was accepted.
SocketHasItsStream ==
    \A f \in sock : strm[f] # None /\ strm[f].accepted

\* The pool of fragments holds fragments of the pool: what calloc provided is
\* marked, and returned to the heap.
CallocIsMarked == FreeChunks(mp["frag"], Size("frag") + Heap) \subseteq Chunks("frag")
==============================================================================
