------------------------------ MODULE SocketApi ------------------------------
(***************************************************************************)
(* The socket table (nty_socket.c) and the calls on it: socket, bind,      *)
(* listen, accept and close, with the table of listeners and the stack     *)
(* thread that queues established connections for accept.                  *)
(*                                                                         *)
(* The ids in use are bits of the bytes open_fds; find_id searches them    *)
(* from byte cur_idx on.  The spin lock of the table makes allocation and  *)
(* release one step each.  A connection is a number in its listener's      *)
(* accept queue, and later a socket with conn set; what close does to the  *)
(* stream itself is in TcpStream.                                          *)
(***************************************************************************)
EXTENDS Integers, FiniteSets

CONSTANTS Bits,     \* bits of a byte
          Bytes,    \* bytes of open_fds
          Ports,    \* ports the application binds to
          Backlog,  \* backlog of listen
          MaxOpen,  \* sockets the application holds at a time
          None

ASSUME ConstantsAssumption ==
    /\ {Bits, Bytes, Backlog, MaxOpen} \subseteq Nat \ {0}
    /\ None \notin Ports

VARIABLES open_fds,  \* the bytes
          cur_idx,   \* byte the next search starts at
          sockfds,   \* id to socket, or None
          held,      \* sockets the application has been given and not closed
          listeners, \* by port: "none", "live", or "freed" and still found
          acceptq,   \* by port: connections to accept
          acceptor,  \* by port: where the thread in accept is
          stack      \* port whose accept event the stack is about to raise

vars == <<open_fds, cur_idx, sockfds, held, listeners, acceptq, acceptor,
          stack>>

Fds == 0 .. Bits * Bytes - 1
-----------------------------------------------------------------------------
(* The ids.                                                                 *)

\* A byte is the set of its bits.  The loop of find_id counts how often the
\* byte, copied to a (signed) char, is odd as it is halved.  The division is
\* C's: the halves of a negative number have the bits of the complement.
Odd(byte, k) ==
    IF k > 0 /\ Bits - 1 \in byte THEN k < Bits /\ k \notin byte ELSE k \in byte

Shifts(byte) ==
    CHOOSE k \in 0 .. Bits : ~ Odd(byte, k) /\ \A j \in 0 .. k - 1 : Odd(byte, j)

Full == 0 .. Bits - 1

find_id_FromZero(fds, start) ==
    LET free == {i \in 0 .. Bytes - 1 : fds[i] # Full}
    IN  IF free = {} THEN -1
        ELSE LET i == CHOOSE i \in free : \A k \in free : i <= k
             IN  i * Bits

find_id(fds, start) ==
    LET free == {i \in start .. Bytes - 1 : fds[i] # Full}
    IN  IF free = {} THEN -1
        ELSE LET i == CHOOSE i \in free : \A k \in free : i <= k
             IN  i * Bits + Shifts(fds[i])

Bit(fds, id) == id % Bits \in fds[id \div Bits]

use_id(fds, id) == [fds EXCEPT ![id \div Bits] = @ \cup {id % Bits}]

unuse_id(fds, id) == [fds EXCEPT ![id \div Bits] = @ \ {id % Bits}]

set_start(id) == id \div Bits

SocketSet ==
    [type : {"stream", "listener"}, port : Ports \cup {None},
     lst : Ports \cup {None}, conn : BOOLEAN]

\* NULL is no socket
ASSUME NoneAssumption == None \notin SocketSet

Socket(type, conn) == [type |-> type, port |-> None, lst |-> None, conn |-> conn]

\* nty_socket_allocate, when there is an id
Allocate(s) ==
    LET id == find_id(open_fds, cur_idx)
    IN  /\ id # -1
        /\ open_fds' = use_id(open_fds, id)
        /\ cur_idx' = set_start(id)
        /\ sockfds' = [sockfds EXCEPT ![id] = s]
        /\ held' = held + 1

\* nty_socket_free
socket_free(fd) ==
    /\ open_fds' = unuse_id(open_fds, fd)
    /\ cur_idx' = set_start(fd)
    /\ sockfds' = [sockfds EXCEPT ![fd] = None]
    /\ held' = held - 1

table == <<open_fds, cur_idx, sockfds, held>>
-----------------------------------------------------------------------------
Init ==
    /\ open_fds = [i \in 0 .. Bytes - 1 |-> {}]
    /\ cur_idx = 0
    /\ sockfds = [fd \in Fds |-> None]
    /\ held = 0
    /\ listeners = [p \in Ports |-> "none"]
    /\ acceptq = [p \in Ports |-> 0]
    /\ acceptor = [p \in Ports |-> "idle"]
    /\ stack = None

socket ==
    /\ held < MaxOpen
    /\ Allocate(Socket("stream", FALSE))
    /\ UNCHANGED <<listeners, acceptq, acceptor, stack>>

\* once per socket; the application binds sockets it made with socket
bind(fd, p) ==
    /\ sockfds[fd] # None
    /\ sockfds[fd].port = None
    /\ ~ sockfds[fd].conn
    /\ sockfds' = [sockfds EXCEPT ![fd].port = p]
    /\ UNCHANGED <<open_fds, cur_idx, held, listeners, acceptq, acceptor,
                   stack>>

\* the table of listeners: nothing ever removes one
ListenerHTSearch(p) == listeners[p] # "none"
ListenerHTInsert(p) == listeners' = [listeners EXCEPT ![p] = "live"]

\* the socket turns into a listener even if the port is taken (EADDRINUSE)
listen(fd) ==
    /\ sockfds[fd] # None
    /\ sockfds[fd].port # None
    /\ LET p == sockfds[fd].port
       IN  \/ /\ ListenerHTSearch(p)
              /\ sockfds' = [sockfds EXCEPT ![fd].type = "listener"]
              /\ UNCHANGED <<listeners, acceptq>>
           \/ /\ ~ ListenerHTSearch(p)
              /\ sockfds' = [sockfds EXCEPT ![fd].type = "listener",
                                            ![fd].lst = p]
              /\ acceptq' = [acceptq EXCEPT ![p] = 0]
              /\ ListenerHTInsert(p)
    /\ UNCHANGED <<open_fds, cur_idx, held, acceptor, stack>>

\* a dequeued connection gets its socket; without an id it is lost
Accepted(p) ==
    /\ acceptq' = [acceptq EXCEPT ![p] = @ - 1]
    /\ acceptor' = [acceptor EXCEPT ![p] = "idle"]
    /\ IF find_id(open_fds, cur_idx) = -1
       THEN UNCHANGED table
       ELSE Allocate(Socket("stream", TRUE))
    /\ UNCHANGED <<listeners, stack>>

\* accept looks at the queue without the lock first
AcceptFirst(fd) ==
    /\ sockfds[fd] # None
    /\ sockfds[fd].type = "listener"
    /\ sockfds[fd].lst # None
    /\ LET p == sockfds[fd].lst
       IN  /\ acceptor[p] = "idle"
           /\ held < MaxOpen
           /\ \/ acceptq[p] > 0 /\ Accepted(p)
              \/ /\ acceptq[p] = 0
                 /\ acceptor' = [acceptor EXCEPT ![p] = "locking"]
                 /\ UNCHANGED <<table, listeners, acceptq, stack>>

AcceptLocked_NoRecheck(p) ==
    /\ acceptor[p] = "locking"
    /\ held < MaxOpen
    /\ acceptor' = [acceptor EXCEPT ![p] = "waiting"]
    /\ UNCHANGED <<table, listeners, acceptq, stack>>

\* with accept_lock held: look again, or wait
AcceptLocked(p) ==
    /\ acceptor[p] = "locking"
    /\ held < MaxOpen
    /\ \/ acceptq[p] > 0 /\ Accepted(p)
       \/ /\ acceptq[p] = 0
          /\ acceptor' = [acceptor EXCEPT ![p] = "waiting"]
          /\ UNCHANGED <<table, listeners, acceptq, stack>>

\* the listener is freed and stays in the table of listeners; what is in its
\* queue is lost
close_listening(p) ==
    /\ listeners' = [listeners EXCEPT ![p] = "freed"]
    /\ acceptq' = [acceptq EXCEPT ![p] = 0]

\* nobody closes a listener that accept or the stack is using
close(fd) ==
    /\ sockfds[fd] # None
    /\ LET p == sockfds[fd].lst
       IN  \/ p = None /\ UNCHANGED <<listeners, acceptq>>
           \/ /\ p # None
              /\ acceptor[p] = "idle" /\ stack # p
              /\ close_listening(p)
    /\ socket_free(fd)
    /\ UNCHANGED <<acceptor, stack>>
-----------------------------------------------------------------------------
(* The stack thread.                                                        *)

\* a SYN is taken for a port with a listener
filter_synpkt(p) == ListenerHTSearch(p) /\ listeners[p] = "live"

\* handle_syn_rcvd: a connection is established and queued; a full queue
\* refuses it
Established(p) ==
    /\ stack = None
    /\ filter_synpkt(p)
    /\ acceptq' = [acceptq EXCEPT ![p] = IF @ < Backlog THEN @ + 1 ELSE @]
    /\ stack' = p
    /\ UNCHANGED <<table, listeners, acceptor>>

flush_accept_event(p) ==
    /\ stack = p
    /\ stack' = None
    /\ acceptor' = [acceptor EXCEPT
                      ![p] = IF @ = "waiting" /\ acceptq[p] > 0
                             THEN "locking" ELSE @]
    /\ UNCHANGED <<table, listeners, acceptq>>
-----------------------------------------------------------------------------
Next ==
    \/ socket
    \/ \E fd \in Fds :
          \/ \E p \in Ports : bind(fd, p)
          \/ listen(fd)
          \/ AcceptFirst(fd)
          \/ close(fd)
    \/ \E p \in Ports :
          \/ AcceptLocked(p)
          \/ Established(p)
          \/ flush_accept_event(p)

Spec == Init /\ [][Next]_vars
-----------------------------------------------------------------------------
TypeOK ==
    /\ open_fds \in [0 .. Bytes - 1 -> SUBSET Full]
    /\ cur_idx \in 0 .. Bytes - 1
    /\ sockfds \in [Fds -> SocketSet \cup {None}]
    /\ held \in Nat
    /\ listeners \in [Ports -> {"none", "live", "freed"}]
    /\ acceptq \in [Ports -> 0 .. Backlog]
    /\ acceptor \in [Ports -> {"idle", "locking", "waiting"}]
    /\ stack \in Ports \cup {None}

\* Every socket the application holds has an id of its own, and the bits of
\* open_fds are the sockets of the table, through every socket, accept and
\* close: find_id never returns an id that is in use.
OneSocketPerId ==
    /\ held = Cardinality({fd \in Fds : sockfds[fd] # None})
    /\ \A fd \in Fds : Bit(open_fds, fd) <=> sockfds[fd] # None

\* A new socket, and one that accept returns, takes an id nobody has, whichever
\* byte the search starts at and whatever was closed before.  The one case in
\* which it may take another socket's is a byte that is negative and odd as a
\* char: its lowest and its highest id are in use.  cur_idx is then the byte
\* the id is in.
FreshUnlessNegative ==
    [][held' > held =>
          \/ \E fd \in Fds : sockfds[fd] = None /\ sockfds'[fd] # None
          \/ {0, Bits - 1} \subseteq open_fds[cur_idx']]_vars

\* No wakeup of accept is lost between its look at the queue and its wait:
\* while it sleeps over a connection, the stack is about to signal it.
AcceptIsSignalled ==
    \A p \in Ports : acceptor[p] = "waiting" /\ acceptq[p] > 0 => stack = p
=============================================================================
