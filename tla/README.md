# A TLA+ model of NtyTcp

NtyTcp is a TCP stack in user space. One *stack thread* (`nty_tcp_run`) polls the
network card, processes segments, runs timers and sends; *application threads* call
POSIX-like functions (`socket`, `bind`, `listen`, `accept`, `recv`, `send`, `close`,
`epoll_*`) that the stack interposes. The two sides share the socket table, the streams
with their buffers, a handful of queues without locks, and the ready list of epoll.

The repository has no tests, and its README only says how to build it. What the modules
say is translated from the C code, in the configuration that `include/nty_config.h`
builds: `NTY_ENABLE_POSIX_API`, `NTY_ENABLE_EPOLL_RB`, `NTY_ENABLE_SOCKET_C10M` and
`NTY_ENABLE_BLOCKING` are 1, `NTY_ENABLE_MULTI_NIC` is 0. Paths below are relative to the
repository; line numbers are in the `map` of `PROJECT.json`.

## 1. Inventory

| Component | State | Operations | What makes it correct |
|---|---|---|---|
| Stream queues (`nty_buffer.c`) | `_head`, `_tail`, `_q[]` | `StreamEnqueue`, `StreamDequeue` | a bounded FIFO, although neither side locks |
| Connection (`nty_tcp.c`, `nty_stream.c`) | `nty_tcp_stream` with `rcv`, `snd`; the control, send, ACK, timewait and timeout lists | one handler per TCP state, `handle_apicall`, `write_chunks`, `DestroyTcpStream` | lists, timers and buffers agree with the state; FINs come after data; a close is carried out; a stream is destroyed once |
| Receive buffer (`nty_buffer.c`) | data, offsets, fragment list | `RBPut`, `RBRemove`, `recv`, `process_payload` | what is acknowledged is stored; what is read is the stream; a reader wakes |
| Send buffer (`nty_buffer.c`) | data, offsets, `snd_wnd` | `SBPut`, `SBRemove`, `send`, `flush_sendbuffer`, `process_ack` | what is sent is the stream; a writer wakes |
| Timers (`nty_timer.c`) | RTO slots with `rto_now_idx` and `rto_list_cnt`; the timewait and timeout lists | `AddtoRTOList`, `RemoveFromRTOList`, `AddtoTimewaitList`, `UpdateTimeoutList`, the three `Check*` | a stream is where it says it is; what is due is handled |
| epoll (`nty_epoll_rb.c`) | tree of items, ready list, `rdnum` | `epoll_create`, `epoll_ctl`, `epoll_wait`, `epoll_event_callback` | a ready socket is on the list and is returned |
| Socket table (`nty_socket.c`, `nty_api.c`) | bitmap of ids, sockets, listeners | `socket`, `bind`, `listen`, `accept`, `close` | one socket per id; a connection wakes its acceptor |
| Memory pool (`nty_mempool.c`) | free list with its headers inside the chunks | create, alloc, free | no chunk is handed out twice or lost |
| Buffer managers (`nty_buffer.c`) | queues of free send buffers and fragments in front of the pools | `SBInit`, `SBFree`, `RBInit`, `RBFree`, `AllocateFragmentContext` | every chunk has one owner; where there is a stream there are its buffers |
| Flow table (`nty_hash.c`) | bins of streams | insert, remove, search | one stream per 4-tuple, and it is found |
| ARP (`nty_arp.c`) | table, pending requests | request, reply, `nty_arp_register_entry` | one entry per host; an answer ends the wait |
| IP, Ethernet, ICMP, UDP (`nty_ip.c`, `nty_eth.c`, `nty_icmp.c`, `nty_udp.c`) | none of their own | dispatch, address lookup, echo | a frame goes to its host |
| NIC (`nty_nic.c`) | the buffer `snd_pktbuf` | read, write, `nty_nic_send_pkts` | what is composed is sent |
| Earlier interface (`nty_*` in `nty_api.c`, `nty_epoll.c`) | `smap` with its free list, the event queue | `nty_socket` ... `nty_close`, `nty_epoll_create`, `_ctl`, `_wait` | not modelled: no connection ever reaches it (section 5) |
| Address pool, example servers, BSD macros | | | not reached, or not the stack's own |

How they interact:

- `send` puts bytes into the send buffer under `write_lock` and the stream on `sendq`;
  `close` puts it on `closeq` or `destroyq`; the stack thread drains these queues in
  `handle_apicall` once per loop. All of them are the same ring.
- The stack thread hands data to `recv` through the receive buffer (`read_lock`,
  `read_cond`), space to `send` (`write_lock`, `write_cond`), new connections to `accept`
  (`acceptq`, `accept_lock`, `accept_cond`) and events to `epoll_wait` (`epoll_event_callback`,
  with a spin lock for the list and `cdmtx`, `cond` for the waiter).
- Timers run in the stack thread and may destroy a stream the application still holds.
- Creating a stream takes from three pools and a buffer manager, `send` takes a send buffer
  in the application's thread, `recv` gives fragments back from it.
- Everything the stack sends is composed in one buffer; a stream whose host has no ARP entry
  stays on its list and a question goes out in its place.

What is hard: every pair of sides above is an interleaving; segments are lost, repeated
and reordered; retransmission, idle and timewait timeouts race with them; buffers move
their data; sequence numbers wrap. `hazards` in `PROJECT.json` lists each place with the
properties that watch it.

## 2. Modules

| Module | Models | Proofs | Run by |
|---|---|---|---|
| `StreamQueue`, abstract `Fifo` | the ring of `nty_buffer.c`, load by load and store by store | `StreamQueueProofs` | `MCStreamQueue` |
| `TcpStream` | the life of one connection against a peer and a network | `TcpStreamProofs` | `MCTcpStream` |
| `SendBuffer` | send buffer, `send`, acknowledgments, retransmission | `SendBufferProofs` | `MCSendBuffer` |
| `RecvBuffer` | receive buffer, `recv`, FIN and RST | `RecvBufferProofs` | `MCRecvBuffer` |
| `EpollRb` | epoll on the red-black tree | `EpollRbProofs` | `MCEpollRb` |
| `SocketApi` | ids, socket table, listeners, accept | `SocketApiProofs` | `MCSocketApi` |
| `Timers` | slots and lists of the timers, with time | `TimersProofs` | `MCTimers` |
| `StreamPools`, on `Mempool` | flow table, pools, buffer managers, as connections come and go | `StreamQueueProofs` | `MCStreamPools` |
| `NetPath` | the loop, ARP, address lookup, echoes, the outgoing buffer | `NetPathProofs` | `MCNetPath` |

`Fifo` is the abstract specification of the ring, and `StreamQueue` has its refinement
(`Abstract == INSTANCE Fifo WITH ...`, `ImplementsFifo`), checked by TLC and proved. `StreamPools` is a
composition: it uses `Mempool` for each of its pools, and the FIFO of `Fifo` for its queues.

### StreamQueue
`head`, `tail`, `q` are the fields of the ring; `ppc`, `ph`, `pt`, `item` and `cpc`, `ch`,
`stream` the program counters and locals of the producers and the consumer. Every load and store of
shared memory is a step, in program order (`volatile` fields on x86, as the code's
empty memory barriers assume). `Producers` is a constant: one application thread in the run,
two show what a second one does (departures, below). The abstract queue is in `Fifo`; the
refinement mapping takes the elements between `_head` and `_tail`.

### TcpStream
One passively opened connection, from the SYN to its destruction, as a record `cs` with
the fields of `nty_tcp_stream`. Membership in a list is a flag, as it is in the code.
The stack thread's loop is a program counter over its stages: timers, `sendq`, `closeq`,
`destroyq`, control list, ACK list, send list, packets. The peer is a sender of arbitrary
segments that are legal for what it has and has been sent; the network delivers any of
them at any time, any number of times or never, so loss, repetition and reordering are all there.

Abstractions: sequence numbers count segments relative to `iss` and `irs`; windows are
counted in segments, and the literal window of one byte after a timeout is 0 segments;
the flush length is an unsigned difference (`SeqSpace`), as in the code. Timestamps are reduced to "older than the last
one". RTO and idle timeouts may fire whenever the stream is on the list; *when* they
fire is the question of `Timers`. The address is resolved, the receive window is larger than what the peer
sends, and the send buffer does not fill (`RecvBuffer` and `SendBuffer` are about those).
Fast retransmit is left out: the test at `nty_tcp.c:1409` compares numbers of
different sequence spaces, and what it would set is covered by the retransmission timeout. SYN_SENT cannot be
reached through the POSIX calls. A failed assertion of the code sets `abort` and ends the
behaviour; the configurations therefore do not check for deadlock. The fields of a freed
stream keep their values, and there is one incarnation of the connection.

### RecvBuffer and SendBuffer
Byte *n* of the stream is the number *n*, so "the right bytes" can be said. `RecvBuffer`
has the fragment list, sequence numbers modulo `SeqSpace` that wrap in the middle of the run,
`recv` and its wait, FIN and RST. The loop of `RBPut` over the list is told by where it
stops: `Place` is the first fragment the new one touches or goes in front of, `Grown` what the new one has grown to after
each merge, and `Merges` how many fragments it swallows. `SizesAssumption` keeps the
stream shorter than half the sequence space, so that a comparison says which byte is first; where the numbers wrap is free.
`SendBuffer` has the moves of the data in `SBPut`, `send` with its wait, transmission,
retransmission and partial acknowledgments. What runs under `read_lock` or `write_lock`
is one step; spurious wakeups are left out (`recv` and `send` wait in loops).

### EpollRb
One instance, one waiting thread. What runs under `lock` or `cdmtx` is one step; the
callback's unlocked search and test of `rdy` is a step of its own. Items are addresses
that are allocated again after `EPOLL_CTL_DEL`. `QuietDeletes` restricts `EPOLL_CTL_DEL`
and `close` to moments when nothing is raised for the socket, `EarlyEvents` lets the
stack raise events for sockets that are not registered, `MaxEvents` is the size of the
caller's array. The departures below lift the restrictions one at a time.

### SocketApi
The bitmap of ids byte by byte, a byte being the set of its bits, the
table of sockets, the listeners by port, `acceptq` with its lock and condition. The
application is orderly: it binds only sockets it made, accepts only on listeners, and
does not close a listener in use. `Bits` is the width of a byte. `nty_socket_find_id` copies a byte to a signed
`char` and halves it while it is odd; `Shifts` says in terms of bits what that loop counts, and
`MCSocketApi` has the loop itself, on numbers with C's division, and an assumption
(`ShiftsAreHalvings`) that the two agree on every byte, which TLC evaluates. A byte with its
highest bit set is negative, and its halving rounds the other way. If it is odd as well the loop may stop at an id
in use: `OneSocketPerId` is violated with the code's eight bits. `FreshUnlessNegative` says
that nothing else goes wrong: in every other state a socket that is made or accepted takes an id nobody
has, whatever was closed before and wherever the search starts.

### Timers
The slots of `rto_list`, the slot of each stream, the count, the two lists in their order,
and time as a counter. A stream is free, open, closed or in TIME_WAIT: what the rest of the
connection does is reduced to arming and disarming the timer, being active, closing,
entering TIME_WAIT (again), and ending. A list from which streams are
taken (`Kept`) is the sequence of the places that stay, in their order. `Hash`, `Every` and `Thresh` stand for 3000, 1000 and
`NTY_MAX_CONCURRENCY`; the last is also the number of streams, and is in the run.
`CheckConnectionTimeout` and `HandleRTO` destroy the stream in this build, because the
POSIX calls never set `stream->socket`.

### StreamPools and Mempool
A pool is a record with the headers of its free runs, which are in the memory of the chunks: an
allocation destroys the header of what it takes. Six pools, the queues of free buffers and
fragments, the bins of the flow table and the streams with their parts; `process_payload`
covers every outcome of `RBPut` (linked at any place, or merged with any run of the
list). The hash of a tuple is a sum modulo the number of bins, so that it is known which tuples collide. A
dequeue of a send buffer is two steps, as the pool is shared with other threads.
`Apps` is the set of sending threads, `Heap` is what `calloc` provides when the fragments are used up, and
`Abandon` says whether timers give up connections the application uses, as those of the code do. `sock` has the
streams that sockets point to. When a stream is given up its socket stays, and its chunk may become another connection's: the
application then reads from, sends on and closes that one.
A fragment has one owner; it may be lost, when the queues in front of the pool are full of `calloc`'s. A send
buffer has one owner, too, and may be lost when its stream goes while `send` takes it.
An application call is one step between the stack thread's, but for the dequeue; a call that goes on writing into a
stream while that is destroyed, and entries of a listener's `acceptq` whose stream is gone, are uses
of freed memory and left out. So is the assertion on alignment that `nty_mempool_free` makes of addresses, which
`calloc`'s need not meet.

### NetPath
The loop of `nty_tcp_run` as a program counter: poll, the walks of the control, ACK and data
lists, then input or output. A walk is one step: it says how many streams are served and
which frame is left in `snd_pktbuf`. Hosts ask for us and for others, connect, send and reset; the
network loses frames. A host can send IP to us if it has our address: from our answer, from our question, or
(`Cached`) from before the stack began. What ICMP echoes is like UDP's, so that the run has only the latter.
Payload, checksums and lengths are left out, and so is what a segment says beyond the list
it puts its stream on.

## 3. Runs

Passing runs, one per module:

| Run | Properties | What it shows |
|---|---|---|
| `stream_queue` | `AssertStream`, `NoOverrun`, `ImplementsFifo`, `Delivered` | with one producer, no interleaving takes an empty slot or overwrites a full one; the ring is a FIFO; what is enqueued is dequeued |
| `tcp_stream` | `TimerLinkExclusive`, `DestroyedIsUnlinked`, `RtoIsImplemented` | the lists and timers of the stack thread are used consistently through every life of a stream |
| | `FinAfterAllData`, `RcvNxtMonotone` | the peer's FIN never overtakes its data, acknowledgments never go back |
| | `ClosedIsComplete`, `FlushableFromHead`, `WaitingCloseIsServed` | retransmission, partial acknowledgments, a close that waits for data |
| | `TimeWaitEnds`, `FinIsSent` | the FIN of a closed stream goes out, TIME_WAIT ends |
| `recv_buffer` | `FragmentsAreRuns`, `AckedIsStored`, `AccessInBounds`, `WindowFitsBuffer` | the fragment list for segments in every order, with overlaps and wrap; the assertions of `RBPut` hold and no access leaves the buffer |
| | `BlockedRecvWakes` | data and FIN wake a blocking `recv` |
| `send_buffer` | `BufferHoldsStream`, `WireIsStream`, `WindowHasSpace` | what goes on the wire is the stream |
| `epoll_rb` | `RdyIsListed`, `WaiterIsSignalled`, `ReadyIsReturned` | the ready list, its count and its waiter agree; a ready socket is returned unless newer events keep going in front of it |
| `socket_api` | `AcceptIsSignalled`, `FreshUnlessNegative` | a waiting `accept` is not forgotten; an id is handed out twice only from a byte whose lowest and highest ids are in use |
| `timers` | `IdxIsSlot`, `OneTimerLink` | a stream is in the slot it says, counted once, and never on the timewait list as well, whose link is the same |
| | `NoneOverdue` | the checks stop at the first stream that is not due, and still see every one that is |
| `stream_pools` | `ChunksConserved`, `BuffersHaveOneOwner` | no order of connections, fragments, reads, sends and timeouts gives a chunk two owners, and none that a stream is made of is lost |
| | `PoolsSuffice` | where a stream can be made its parts and its receive buffer can, with as many buffers as streams |
| | `SearchFindsStream` | a tuple finds its stream and no other, in shared bins |
| `net_path` | `OneEntryPerHost`, `NullOnlyForCached`, `FramesAreAddressed` | what ARP learns; where a missing address is dereferenced; where frames go |
| | `ReplyUnblocksHead`, `BufferDrains` | an answer lets the waiting stream go; a composed frame leaves the buffer |

Runs in which the code departs from what its comments or assertions say (`findings` in
`PROJECT.json` quotes the lines):

| Run | Property | What happens |
|---|---|---|
| `recv_buffer_order` | `DeliveredInOrder` | `head_offset = len` (for `+= len`): later reads return the wrong bytes |
| `send_buffer_wake` | `BlockedSendWakes` | `process_ack` locks `write_lock` twice when it wants to wake a `send` |
| `socket_api_ids` | `OneSocketPerId` | a byte with its eighth bit set is negative as a `char`; eight sockets opened and one closed, the next gets the id of an open one |

### Further departures

The modules state more properties that the code does not have. None of them has a
configuration of its own; each is found by TLC within seconds when the property is added to the module's
configuration with the constants given here.

| Property | Constants | What happens |
|---|---|---|
| `AssertStream` | `Producers = {app1, app2}`, `Capacity = 3` | two application threads on one queue: `assert(stream)` of `StreamDequeue` fails (`nty_buffer.c:807`) |
| `TimewaitListState` | as in `TcpStream.cfg` | `handle_fin_wait_1` sets the state to `NTY_TCP_TIMEWAIT`, a duration whose value is that of CLOSED (`nty_tcp.c:1140`) |
| `CloseTakesEffect` | `MaxSend = 0`, `MaxWnd = 1`, `TCP_MAX_RTX = 2`, `MaxPkts = 2`, `MaxRto = 1`, `IdleTimeout = FALSE`, `OtherFlows = FALSE`; `FairSpec` | a close that finds the stream on the control list is parked in `closeq_int`, which nobody reads (`nty_tcp.c:1965`) |
| `FinSeqIsSndNxt` | as in `TcpStream.cfg` | a FIN goes out as `fss` while data before it is unsent, and `snd_nxt + 1` counts it in place of data (`nty_tcp.c:551`) |
| `QueuedHasSendbuffer` | as in `TcpStream.cfg` | a stream destroyed while it is in `sendq` reaches `assert(0)` of `addto_sendlist` (`nty_tcp.c:299`) |
| `ResetRecvWakes` | as in `RecvBuffer.cfg`, `FairSpec` | `process_rst` does not signal `read_cond` (`nty_tcp.c:1390`) |
| `MergedIsListed` | `MaxEvents = 2` | the callback reads `rdy` without the lock; `epoll_wait` takes the item before the event is merged into it (`nty_epoll_rb.c:357`) |
| `RdyIsListed` | `QuietDeletes = FALSE` | `EPOLL_CTL_DEL` frees an item that is on the ready list (`nty_epoll_rb.c:211`) |
| `EventIsRegistered` | `EarlyEvents = TRUE`, `MaxEvents = 2` | data between `accept` and `EPOLL_CTL_ADD` reaches `assert(0)` of the callback (`nty_epoll_rb.c:355`) |
| `DestroyedOnce` | `MaxSend = 0`, `PeerData = 0`, `MaxWnd = 1`, `TCP_MAX_RTX = 2`, `MaxPkts = 2`, `MaxRto = 1` | a timer destroys a stream the application holds; its `close` destroys it again (`nty_stream.c:392`) |
| `DueIsHandled` | `FairSpec` | `AddtoRTOList` files under `ts_rto % RTO_HASH`, `CheckRtmTimeout` looks at `rto_now_idx`, which stays 0 (`nty_timer.c:99`) |
| `IdxIsSlot` | `Thresh = 1` | with streams left in a slot `RearrangeRTOStore` computes negative slots (`nty_timer.c:356`); the code's threshold is its number of streams |
| `CallocIsMarked` | as in `StreamPools.cfg` | `AllocateFragmentContext` clears the fragment after it has marked it as `calloc`ed: it is freed into the pool (`nty_buffer.c:444`) |
| `SocketHasItsStream` | as in `StreamPools.cfg` | a timer destroys the stream of a socket in use; the chunk becomes another connection's (`nty_timer.c:223`, `:476`) |
| `SendBuffersConserved` | as in `StreamPools.cfg` | a stream destroyed while `send` dequeues a buffer for it takes the buffer with it (`nty_buffer.c:242`) |
| `BuffersHaveOneOwner` | `Apps = {a1, a2}` | two threads in their first `send` load the same free buffer (`nty_buffer.c:242`) |
| `NothingOverwritten` | as in `NetPath.cfg` | the second frame composed in a round takes the place of the first (`nty_nic.c:127`) |
| `ControlIsServed` | as in `NetPath.cfg` | a lost question is not asked again: the stream, and those behind it on the control list, wait for ever (`nty_arp.c:298`) |
| `FramesAreAddressed` | `MCDests == {Self, Broadcast}` | the echo of a datagram sent to the broadcast address has it as its source (`nty_udp.c:68`) |

### Bounds
- `StreamQueue`: capacity 2 (3 slots) with three elements makes the ring full, empty and
  wrapped in every position; one application thread as producer.
- `TcpStream`: two segments of data sent, both of which fit the window, one received, four segments
  processed, one retransmission before giving up, two timeouts. That is enough for a gap
  in front of a FIN, a partial acknowledgment, a retransmission after the FIN was queued,
  and the active, passive and simultaneous close. The theorems are free of these bounds.
- `RecvBuffer`: 7 bytes through a buffer of 5 in segments of up to 3 bytes: three
  fragments, overlaps on both sides, a move to the front, and sequence numbers that wrap
  after three bytes. The first window is larger than the buffer, as 14600 and 8192 are.
- `SendBuffer`: 9 bytes through a buffer of 4: it fills, moves and empties repeatedly.
- `EpollRb`: two sockets, two items, `MaxEvents` 1 for safety, so that items stay on the
  list between two calls.
- `SocketApi`: two bytes of 3 bits and at most 4 open sockets, two ports, a backlog of 2. A byte fills, so that `cur_idx`
  moves to the second; it turns negative; and ids are handed out twice. The violation has the code's 8 bits, and
  9 open sockets. `FreshUnlessNegative` is proved for all sizes.
- `Timers`: two streams, two slots and the one for later, timeouts of up to two, three points of time:
  both lists and a slot hold two streams in either order, and the clock passes every time. The threshold is the number of streams, as in the code.
- `StreamPools`: two streams and two buffers of each kind (the code has 1024 of each) for two tuples, which share a bin (an
  ASSUME of `MCStreamPools`); two fragments in a receive buffer, and memory for one beyond the pool. All streams
  may be in use; fragments run out, are merged, queued and used again; timers give up connections in use. One thread sends, as in
  the programs of `app/`, which start no other. All but `BuffersHaveOneOwner` is proved without these bounds.
- `NetPath`: two hosts, four frames of their own accord: a question, a SYN, an acknowledgment and
  data, or a reset in between. `NetPathProofs` is free of these bounds.

### Fairness
- `StreamQueue`: the consumer keeps polling, as `handle_apicall` does once per loop.
- `TcpStream`: the stack thread keeps looping, and a `close` that has begun to enqueue
  its stream finishes. Nothing is assumed of the peer or the network.
- `RecvBuffer`: the stack thread finishes the handler it is in, its signal included. Nothing is assumed of
  the peer or the application.
- `SendBuffer`: both threads go on; the property asks only that a signalled or
  acknowledged `send` does not wait for ever.
- `EpollRb`: a callback that has begun finishes, and the application calls `epoll_wait` in a loop, as
  `app/nty_example_epoll_rb_server.c` does.
- `NetPath`: the stack thread keeps looping and the device has room again and again. Nothing is assumed of
  hosts, network and application; the bound on the hosts' frames makes the input end, as it does on a link
  that is not always full.
- `Timers` (for `DueIsHandled`): time passes and the loop calls `CheckRtmTimeout`.

## 4. Proofs

Every proof is for all values of the constants under the named assumptions of the modules
(sizes are positive, flags Boolean, `NULL` is no element).

**StreamQueueProofs.** `TypeCorrect` holds for any number of producers. With one producer
`RingInductive` proves `RingInv`: what the producer has read of `_head` is no further
on than `_head` itself, measured backwards from `_tail`; between its test and its
publication the slot at `_tail` is free and the ring not full; the consumer has read the current `_head`; and the
slots from `_head` to `_tail` hold elements. The plain invariants are not inductive: that a dequeue finds an
element needs the last conjunct, and that an enqueue does not overwrite one needs the
stale value of `_head` to be on the safe side. From it come `AssertStreamHolds`, `NoOverrunHolds` and
`RingImplementsFifo`, step by step: publishing `_tail` is `Put`, releasing `_head` is
`Take`, everything else stutters.

The second part of the module is about `StreamPools`, for all sizes of the pools and of the table. `GoodPool(m, n, U)` says
what a pool is when the chunks `U` are taken: the free list is a chain of runs (`Chain`) that are disjoint, whose headers hold
their lengths, whose union is everything but `U`, and whose length `mp_free_chunks` gives. Allocation takes
the first chunk of the first run, whose header moves on to the next chunk, and a free puts a run of one in front, so that `nty_mempool_alloc` adds
a chunk to `U` that was not in it and `nty_mempool_free` removes one. `PoolsInductive` proves `PoolsInv` on top of it: the parts of streams are
different chunks of their pools (`PartsInv`), a bin has the streams whose tuple it is for, each once (`TableInv`), and a fragment is in one list of a stream or in one of the two queues, once (`FragInv`). None of the
three properties is inductive: that a chunk is in one place needs the shape of the free list, in memory that the
owners overwrite; that a search finds the stream needs that it was not found before it was inserted.
No hypothesis is made: it holds for any number of threads, when timers give up connections in use, and for
any memory beyond the pool. The code clears the mark of a fragment that `calloc` provides and frees it into
the pool (`CallocIsMarked`, departures); `FragInv` therefore takes the pool of fragments as one of all addresses, in which what
`calloc` can still provide is in use from the first (`Provides`).
`SearchFindsStreamHolds` and `ChunksConservedHolds` follow, and, with at least as many buffers as connections
(both are 1024 in `nty_config.h`), `PoolsSufficeHolds`: the pool of streams is then used up first. `BuffersHaveOneOwner`, which
needs one sending thread, is model-checked only. That the search for the free chunks and the freeing of a list of fragments,
which are recursive functions, do what they should is shown by taking a least counterexample.

**TcpStreamProofs.** `StreamInductive` proves `IInv`. Its parts: the timers follow the
state (`TimerInv`), the send buffer ends where the FIN begins (`SendInv`), and `rcv_nxt`
is the first gap of what has arrived until the peer's FIN is taken, and past it afterwards
(`RecvInv`); a stream that is out of the hash table is on no list (`LinkInv`). Each
handler is a function from streams to streams, and `Preserves` is what each one guarantees;
the action proofs then only track who runs. `FinAfterAllData` needs `RecvInv`: the code
compares a FIN only with `rcv_nxt`, so the order of FIN and data rests on `rcv_nxt` being the
first gap. `TimerLinkExclusive` needs `TimerInv`: nothing tests the two lists against
each other, the state keeps them apart.

On top of `IInv`, `SendingInductive` proves `SendingInv`, about the sending side. `SeqInv` relates the
sequence numbers to what was on the wire: `snd_una` and `snd_nxt` are not behind the head of the buffer, the
FIN comes right after the data, and in FIN_WAIT_2 and TIME_WAIT everything up to the FIN was sent. None of the three
properties is inductive. `FlushableFromHead` needs that a stream on the send list has a send buffer (`FlushInv`), which holds
only until `abort` is set (a stream that leaves `sendq` after its destruction aborts), and that without a
buffer nothing was sent, because the first `send` creates the buffer at the start of the stream, wherever `snd_nxt` is.
`ClosedIsComplete` needs the FIN's number to be the end of the buffer in the states before: an acknowledgment
of the FIN then leaves the buffer empty. `WaitingCloseIsServed` needs every writer to move the close on when it takes the stream
off its last list (`WaitInv`). `CloseInv` says that only `close` leads to the closing states, and that it is called once.

**SendBufferProofs.** `SendInductive` proves that the buffer holds the stream from
`head_seq` on, that `snd_wnd` is *equal to* the free space (the property only says it is no
more), and that `snd_nxt` is inside the buffer. The equality is needed because
`send` computes the next window from the one before.

**RecvBufferProofs.** `RecvInductive` proves `Inv`, whose core is `GoodBuffer`: every byte below `cum_len` has arrived and
that one has not; the fragments are the runs of what has arrived from the head on (`RunsOf`: in order, no two touching), and all
of them lie in the `last_len` bytes from the head; `rcv_nxt` is the first missing byte, or one more
after the FIN; the advertised window is the room in the buffer from the first payload on. The four properties follow from it, and none is inductive: the window needs
`last_len`, `last_len` needs the runs, and the runs need that a stored fragment is never beyond the buffer. The proof is about numbers of
bytes. Two that are compared are less than half the sequence space apart (`Near`), so that
`GetMinSeq` and `GetMaxSeq` order them, and a list of fragments is a list of intervals; `RBPut` then replaces the
intervals the new one touches by their union. `Grown` is a recursive function: that it exists and obeys its equation
(`GrownSteps`) and what it is after each merge are shown by taking a least counterexample. `AccessInBoundsHolds` includes that no assertion of `RBPut` or `RBRemove`
fails.

**NetPathProofs.** `Invariance` proves `IInv`. A segment can come only from a host that has
our address, and such a host is in the table or was there from the start (`Reached`): an answer to us
enters it, and so does its question, which is answered only after it was entered. Every
stream, list and frame of the stack, and every segment that arrives, is therefore of a host that is reached, and the dereference in `EthernetOutput`
can only meet one of `Cached`. `OneEntryPerHost` is not inductive without the frames: that the
address entered is the host's own is a fact about what is in `net`. From it come `EntriesTheorem`, `NullTheorem` and, when hosts send to our
address only (`Dests = {Self}`), `AddressedTheorem`.

**EpollRbProofs.** `BaseInductive` proves `BaseInv` for every application: `rdnum` is the length of the list
(`CountIsLength`), and a waiter that sleeps over a ready item has a callback that has still to signal. The
list and its count change under the spin lock, the waiter sleeps under `cdmtx`; the invariant is what keeps a wakeup from
falling between the two. `RdyIsListedHolds` assumes `QuietDeletes`, as the run does: without it the property is false
(departures, above). Its invariant adds that sockets have different items, that the list has
registered items only, and that what the callback is about to insert is not ready (`QuietInv`).

**SocketApiProofs.** `SocketInductive` proves that the bits of `open_fds` are the sockets of the table
(`BitsAreSockets`) and that an acceptor is signalled, for every width of a byte and every
application; this holds even where `find_id` returns an id in use, so that `nty_socket_free`
never clears a foreign bit. `FreshUnlessNegativeHolds` has no hypothesis either: for every width, size and application,
a new socket takes a free id unless its byte is negative and odd. It needs that `Shifts` stops at a clear bit in
every other byte (`ShiftsIsClear`: a negative byte that is even stops at its lowest bit, which is clear), that a clear bit means that there is no socket
(`BitsAreSockets`), and that quotient and remainder by `Bits` are unique. With an odd negative byte
the id may be in use, as the run `socket_api_ids` shows.

**TimersProofs.** `ListsInductive` proves `ListsInv` for any threshold, and `OneTimerLinkHolds` follows. The two lists have no stream twice and are in
the order of their times; the times are not in the future (not more than `Timewait` ahead), so that what goes to the tail is the latest; the list
of idle connections has open streams only and that of TIME_WAIT only streams in TIME_WAIT.
The last is why `UpdateRetransmissionTimer` never arms a stream that is linked already. `IdxIsSlotHolds` and
`NoneOverdueHolds` assume `Cardinality(Streams) <= Thresh`. `nty_tcp_run` passes
`NTY_MAX_CONCURRENCY` to the checks, and the pool of streams has as many, so that the code meets the hypothesis with equality; with a
smaller threshold `IdxIsSlot` is false (departures). Under it a check empties its slot, and
the slot moves on only when there is no stream left in any. The lemmas about `Kept` (`RankSteps` to `KeptFacts`) are an
induction over the places of a list, done by taking the least counterexample.

Type correctness is proved for `StreamQueue`, `TcpStream`, `SendBuffer`, `RecvBuffer`, `EpollRb`, `SocketApi` and `Timers`
(`TypeCorrect`, `StreamTypeCorrect`, `SendTypeCorrect`, `RecvTypeCorrect`, `EpollTypeCorrect`, `SocketTypeCorrect`,
`TimersTypeCorrect`), so that no run checks it again.

For `NetPath` and `StreamPools` the inductive invariants hold the types that the proofs need. Every invariant and action property
that a run checks and that holds is also a theorem, `BuffersHaveOneOwner` excepted. Only model-checked are that and the temporal properties, because
fairness and ENABLED are out of the proof system's reach: `Delivered`, `TimeWaitEnds`, `FinIsSent`,
`BlockedRecvWakes`, `ReadyIsReturned`, `ReplyUnblocksHead` and `BufferDrains`. The violations of section 3 are counterexamples,
which TLC gives. Where a theorem has a hypothesis on the environment (one producer, `QuietDeletes`, `Dests = {Self}`), a
departure of section 3 shows that the code does not have the property without it; the hypotheses on sizes are those the code's configuration meets.

## 5. Not modelled

The address pool (`nty_addr.c`): nothing creates it or fetches from it, `nty_connect` is not compiled and
nothing sets `is_bound_addr`, so that an active open, SYN_SENT included, cannot happen. Checksums, and what is inside netmap.
The earlier interface (`nty_socket` ... `nty_close`, `nty_epoll.c`): `nty_listen` sets only `socket` of a zeroed listener
(`nty_api.c:357`), and inserting it in the table reads `listener->s->s_addr` (`nty_hash.c:93`) through the other
field, `s`, which is NULL. No socket of `smap` can listen, and none can connect, so that none ever has a stream or an event.
Functions without a caller: `Raise*Event`, `nty_nic_recv_pkts`, `nty_nic_select`, the `Destroy*` of queues and tables.
`nty_queue.h` and `nty_tree.h`: the BSD macros. Inside modelled components: congestion
window arithmetic beyond what decides whether a segment may go, TCP options, the
thresholds of delayed ACKs (an ACK may go at any time), more than one connection or
incarnation, use of memory after it was freed.

## 6. Plan

Done, in this order: the ring and its refinement; the connection; its proofs; receive and
send buffers; epoll; socket table; timers; pools, flow table and buffer managers; the path of frames with ARP, and its proofs.

Left open, and why: the unlocked test of `on_send_list` in `send` (`nty_api.c:1173`) and the race on `need_wnd_adv`
(`nty_tcp.c:579`) end in states that are legitimate for other reasons, so that no property
tells them apart; `cur_stream->s` between two loads of one handler (`nty_tcp.c:1011`) is a use of freed memory, which the
modules do not represent.

Theorems: every invariant of a passing run, and the refinement of the ring. Left for later: types of `NetPath` and `StreamPools`
as theorems of their own, `BuffersHaveOneOwner` with one sending thread, and liveness, should the proof system come to handle it.
