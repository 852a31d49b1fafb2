--------------------------- MODULE SocketApiProofs ---------------------------
(***************************************************************************)
(* Proofs about SocketApi for any width of a byte, any table and any       *)
(* ports.  The bits of open_fds are the sockets of the table, a wakeup of  *)
(* accept is never lost, and an id in use is handed out again only from a  *)
(* byte that is negative as a char, for every application.                 *)
(***************************************************************************)
EXTENDS SocketApi, FiniteSetTheorems, WellFoundedInduction, TLAPS

\* the ids in use
Used == {fd \in Fds : sockfds[fd] # None}

BitsAreSockets == \A fd \in Fds : Bit(open_fds, fd) <=> sockfds[fd] # None

TableInv ==
    /\ open_fds \in [0 .. Bytes - 1 -> SUBSET Full]
    /\ cur_idx \in 0 .. Bytes - 1
    /\ sockfds \in [Fds -> SocketSet \cup {None}]
    /\ held \in Nat
    /\ BitsAreSockets
    /\ Cardinality(Used) <= held

AcceptInv ==
    /\ listeners \in [Ports -> {"none", "live", "freed"}]
    /\ acceptq \in [Ports -> 0 .. Backlog]
    /\ acceptor \in [Ports -> {"idle", "locking", "waiting"}]
    /\ stack \in Ports \cup {None}
    /\ AcceptIsSignalled

IInv == TableInv /\ AcceptInv
-----------------------------------------------------------------------------
(* Numbers.                                                                 *)

\* A set of natural numbers has a least one.
LEMMA LeastNumber ==
    ASSUME NEW T, T \subseteq Nat, T # {}
    PROVE  \E m \in T : \A k \in T : m <= k
<1> DEFINE R == {ss \in Nat \X Nat : ss[1] < ss[2]}
<1>1. IsWellFoundedOn(R, Nat)
  BY NatLessThanWellFounded DEF OpToRel
<1>2. PICK x \in T : \A y \in T : ~ (<<y, x>> \in R)
  BY <1>1, WFMin
<1>3. ASSUME NEW y \in T PROVE x <= y
  <2>1. <<y, x>> \in Nat \X Nat
    OBVIOUS
  <2>2. ~ (y < x)
    BY <1>2, <2>1
  <2> QED
    BY <2>2
<1> QED
  BY <1>3

LEMMA Sizes ==
    /\ Bits \in Nat /\ Bits >= 1 /\ Bytes \in Nat /\ Bytes >= 1
    /\ Bits \in Nat \ {0}
  BY ConstantsAssumption

LEMMA MulMonotone ==
    ASSUME NEW a \in Int, NEW b \in Nat, a >= 1
    PROVE  a * b >= b
  OBVIOUS

\* Quotient and remainder are unique.
LEMMA DivModUnique ==
    ASSUME NEW b \in Nat \ {0}, NEW q \in Int, NEW r \in 0 .. b - 1,
           NEW s \in Int, NEW u \in 0 .. b - 1, b * q + r = b * s + u
    PROVE  q = s /\ r = u
<1>1. b * (q - s) = u - r
  OBVIOUS
<1>2. CASE q > s
  <2>1. (q - s) * b >= b
    BY <1>2, MulMonotone
  <2> QED
    BY <1>1, <2>1
<1>3. CASE q < s
  <2>1. (s - q) * b >= b
    BY <1>3, MulMonotone
  <2>2. (s - q) * b = r - u
    OBVIOUS
  <2> QED
    BY <2>1, <2>2
<1> QED
  BY <1>1, <1>2, <1>3

LEMMA DivMod ==
    ASSUME NEW n \in Nat, NEW b \in Nat \ {0}
    PROVE  /\ (n % b) \in 0 .. b - 1
           /\ (n \div b) \in Nat
           /\ n = b * (n \div b) + (n % b)
  OBVIOUS

\* An id is a byte and a bit.
LEMMA IdParts ==
    ASSUME NEW fd \in Fds
    PROVE  /\ fd \div Bits \in 0 .. Bytes - 1
           /\ fd % Bits \in Full
           /\ fd = Bits * (fd \div Bits) + (fd % Bits)
<1>1. fd \in Nat /\ fd < Bits * Bytes
  BY Sizes DEF Fds
<1>2. /\ (fd % Bits) \in 0 .. Bits - 1
      /\ (fd \div Bits) \in Nat
      /\ fd = Bits * (fd \div Bits) + (fd % Bits)
  BY <1>1, Sizes, DivMod, Zenon
<1>3. fd \div Bits < Bytes
  <2> SUFFICES ASSUME fd \div Bits >= Bytes PROVE FALSE
    BY <1>2, Sizes
  <2> DEFINE q == fd \div Bits
  <2>1. q \in Nat /\ q >= Bytes
    BY <1>2
  <2> HIDE DEF q
  <2>2. Bits * q >= Bits * Bytes
    BY <2>1, Sizes
  <2> QED
    BY <1>1, <1>2, <2>2, Sizes DEF q
<1> QED
  BY <1>2, <1>3, Sizes DEF Full

LEMMA IdOfParts ==
    ASSUME NEW i \in 0 .. Bytes - 1, NEW j \in Full
    PROVE  /\ i * Bits + j \in Fds
           /\ (i * Bits + j) \div Bits = i
           /\ (i * Bits + j) % Bits = j
<1> DEFINE fd == i * Bits + j
<1>1. fd \in Nat /\ fd = Bits * i + j
  BY Sizes DEF Full
<1>2. fd < Bits * Bytes
  <2>1. (Bytes - i) * Bits >= Bits
    BY Sizes, MulMonotone
  <2>2. (Bytes - i) * Bits = Bits * Bytes - i * Bits
    BY Sizes
  <2> QED
    BY <2>1, <2>2, Sizes DEF Full
<1>3. fd \in Fds
  BY <1>1, <1>2, Sizes DEF Fds
<1> HIDE DEF fd
<1>4. /\ (fd % Bits) \in 0 .. Bits - 1
      /\ (fd \div Bits) \in Nat
      /\ fd = Bits * (fd \div Bits) + (fd % Bits)
  BY <1>1, Sizes, DivMod, Zenon
<1>5. fd \div Bits = i /\ fd % Bits = j
  BY <1>1, <1>4, Sizes, DivModUnique DEF Full
<1> QED
  BY <1>3, <1>5 DEF fd
-----------------------------------------------------------------------------
(* The search for an id.                                                    *)

\* What the CHOOSE of Shifts picks exists.
LEMMA ShiftsChosen ==
    ASSUME NEW byte \in SUBSET Full
    PROVE  /\ Shifts(byte) \in 0 .. Bits
           /\ ~ Odd(byte, Shifts(byte))
           /\ \A j \in 0 .. Shifts(byte) - 1 : Odd(byte, j)
<1> DEFINE T == {k \in 0 .. Bits : ~ Odd(byte, k)}
<1>1. Bits \in T
  BY Sizes DEF Odd, Full
<1>2. T \subseteq Nat
  BY Sizes
<1>3. PICK m \in T : \A k \in T : m <= k
  BY <1>1, <1>2, LeastNumber
<1>4. m \in 0 .. Bits /\ ~ Odd(byte, m)
  OBVIOUS
<1>5. \A j \in 0 .. m - 1 : Odd(byte, j)
  <2> SUFFICES ASSUME NEW j \in 0 .. m - 1, ~ Odd(byte, j) PROVE FALSE
    OBVIOUS
  <2>1. j \in 0 .. Bits
    BY <1>4, Sizes
  <2>2. m <= j
    BY <2>1, <1>3
  <2> QED
    BY <1>4, <2>2, Sizes
<1> QED
  BY <1>4, <1>5 DEF Shifts

\* A byte that is not full gives one of its bits.
LEMMA ShiftsIsBit ==
    ASSUME NEW byte \in SUBSET Full, byte # Full
    PROVE  Shifts(byte) \in Full
<1>1. Shifts(byte) \in 0 .. Bits /\ \A j \in 0 .. Shifts(byte) - 1 : Odd(byte, j)
  BY ShiftsChosen
<1>2. ~ Odd(byte, Bits - 1)
  <2>1. CASE Bits - 1 \notin byte
    BY <2>1 DEF Odd
  <2>2. CASE Bits - 1 \in byte
    <3>1. Bits - 1 > 0
      <4> SUFFICES ASSUME Bits = 1 PROVE FALSE
        BY Sizes
      <4>1. Full = {0}
        BY Sizes DEF Full
      <4> QED
        BY <4>1, <2>2
    <3> QED
      BY <3>1, <2>2 DEF Odd
  <2> QED
    BY <2>1, <2>2
<1>3. Shifts(byte) # Bits
  BY <1>1, <1>2, Sizes
<1> QED
  BY <1>1, <1>3, Sizes DEF Full

\* A byte that is not negative as a char gives its lowest clear bit.
LEMMA ShiftsIsLowestClear ==
    ASSUME NEW byte \in SUBSET Full, Bits - 1 \notin byte
    PROVE  /\ Shifts(byte) \in Full
           /\ Shifts(byte) \notin byte
           /\ 0 .. Shifts(byte) - 1 \subseteq byte
<1>1. byte # Full
  BY Sizes DEF Full
<1>2. Shifts(byte) \in Full
  BY <1>1, ShiftsIsBit
<1>3. \A k : Odd(byte, k) <=> k \in byte
  BY DEF Odd
<1> QED
  BY <1>2, <1>3, ShiftsChosen

LEMMA FindIdIsBit ==
    ASSUME NEW fds \in [0 .. Bytes - 1 -> SUBSET Full],
           NEW start \in 0 .. Bytes - 1, find_id(fds, start) # -1
    PROVE  \E i \in 0 .. Bytes - 1 :
              /\ fds[i] # Full
              /\ find_id(fds, start) = i * Bits + Shifts(fds[i])
              /\ Shifts(fds[i]) \in Full
<1> DEFINE free == {i \in start .. Bytes - 1 : fds[i] # Full}
           i == CHOOSE x \in free : \A k \in free : x <= k
<1>1. free # {} /\ find_id(fds, start) = i * Bits + Shifts(fds[i])
  BY DEF find_id
<1>2. free \subseteq Nat
  BY Sizes
<1>3. \E x \in free : \A k \in free : x <= k
  BY <1>1, <1>2, LeastNumber
<1>4. i \in free
  BY <1>3
<1>5. i \in 0 .. Bytes - 1 /\ fds[i] # Full
  BY <1>4, Sizes
<1>6. Shifts(fds[i]) \in Full
  BY <1>5, ShiftsIsBit
<1> QED
  BY <1>1, <1>5, <1>6
-----------------------------------------------------------------------------
(* The table.                                                               *)

LEMMA UsedIsFinite == IsFiniteSet(Used) /\ Cardinality(Used) \in Nat
<1>1. IsFiniteSet(Fds)
  BY Sizes, FS_Interval DEF Fds
<1>2. Used \subseteq Fds
  BY DEF Used
<1> QED
  BY <1>1, <1>2, FS_Subset, FS_CardinalityType

LEMMA UseBit ==
    ASSUME NEW fds \in [0 .. Bytes - 1 -> SUBSET Full], NEW id \in Fds
    PROVE  /\ use_id(fds, id) \in [0 .. Bytes - 1 -> SUBSET Full]
           /\ \A fd \in Fds : Bit(use_id(fds, id), fd) <=> Bit(fds, fd) \/ fd = id
<1>1. id \div Bits \in 0 .. Bytes - 1 /\ id % Bits \in Full
  BY IdParts
<1>2. use_id(fds, id) \in [0 .. Bytes - 1 -> SUBSET Full]
  BY <1>1 DEF use_id
<1>3. ASSUME NEW fd \in Fds
      PROVE  Bit(use_id(fds, id), fd) <=> Bit(fds, fd) \/ fd = id
  <2>1. fd \div Bits \in 0 .. Bytes - 1
    BY IdParts
  <2>2. fd \div Bits = id \div Bits /\ fd % Bits = id % Bits => fd = id
    BY IdParts
  <2> QED
    BY <1>1, <2>1, <2>2 DEF use_id, Bit
<1> QED
  BY <1>2, <1>3

LEMMA UnuseBit ==
    ASSUME NEW fds \in [0 .. Bytes - 1 -> SUBSET Full], NEW id \in Fds
    PROVE  /\ unuse_id(fds, id) \in [0 .. Bytes - 1 -> SUBSET Full]
           /\ \A fd \in Fds : Bit(unuse_id(fds, id), fd) <=> Bit(fds, fd) /\ fd # id
<1>1. id \div Bits \in 0 .. Bytes - 1 /\ id % Bits \in Full
  BY IdParts
<1>2. unuse_id(fds, id) \in [0 .. Bytes - 1 -> SUBSET Full]
  BY <1>1 DEF unuse_id
<1>3. ASSUME NEW fd \in Fds
      PROVE  Bit(unuse_id(fds, id), fd) <=> Bit(fds, fd) /\ fd # id
  <2>1. fd \div Bits \in 0 .. Bytes - 1
    BY IdParts
  <2>2. fd \div Bits = id \div Bits /\ fd % Bits = id % Bits => fd = id
    BY IdParts
  <2> QED
    BY <1>1, <2>1, <2>2 DEF unuse_id, Bit
<1> QED
  BY <1>2, <1>3

\* nty_socket_allocate keeps the bits and the table together, whichever id
\* the search returns.
LEMMA AllocateTable ==
    ASSUME TableInv, NEW s \in SocketSet, Allocate(s)
    PROVE  TableInv'
<1> DEFINE id == find_id(open_fds, cur_idx)
<1>1. id \in Fds
  BY FindIdIsBit, IdOfParts DEF TableInv, Allocate
<1>2. open_fds' = use_id(open_fds, id) /\ cur_idx' = id \div Bits
      /\ sockfds' = [sockfds EXCEPT ![id] = s] /\ held' = held + 1
  BY DEF Allocate, set_start
<1> HIDE DEF id
<1>3. open_fds' \in [0 .. Bytes - 1 -> SUBSET Full] /\ cur_idx' \in 0 .. Bytes - 1
  BY <1>1, <1>2, UseBit, IdParts DEF TableInv
<1>4. sockfds' \in [Fds -> SocketSet \cup {None}]
  BY <1>1, <1>2 DEF TableInv
<1>5. \A fd \in Fds : sockfds'[fd] # None <=> sockfds[fd] # None \/ fd = id
  BY <1>1, <1>2, NoneAssumption DEF TableInv
<1>6. BitsAreSockets'
  BY <1>1, <1>2, <1>5, UseBit DEF TableInv, BitsAreSockets
<1>7. Used' = Used \cup {id}
  BY <1>1, <1>5 DEF Used
<1>8. Cardinality(Used') <= Cardinality(Used) + 1
  <2>1. Cardinality(Used \cup {id}) = IF id \in Used THEN Cardinality(Used)
                                      ELSE Cardinality(Used) + 1
    BY UsedIsFinite, FS_AddElement
  <2>2. /\ Cardinality(Used) <= Cardinality(Used) + 1
        /\ Cardinality(Used) + 1 <= Cardinality(Used) + 1
    BY UsedIsFinite
  <2> QED
    BY <1>7, <2>1, <2>2, Zenon
<1>9. held' \in Nat /\ Cardinality(Used') <= held'
  <2>1. Cardinality(Used') \in Nat
    BY <1>7, UsedIsFinite, FS_AddElement, FS_CardinalityType
  <2> QED
    BY <1>2, <1>8, <2>1, UsedIsFinite DEF TableInv
<1> QED
  BY <1>3, <1>4, <1>6, <1>9 DEF TableInv

LEMMA FreeTable ==
    ASSUME TableInv, NEW fd \in Fds, sockfds[fd] # None, socket_free(fd)
    PROVE  TableInv' /\ Used' = Used \ {fd}
                     /\ Cardinality(Used') = Cardinality(Used) - 1
<1>2. open_fds' = unuse_id(open_fds, fd) /\ cur_idx' = fd \div Bits
      /\ sockfds' = [sockfds EXCEPT ![fd] = None] /\ held' = held - 1
  BY DEF socket_free, set_start
<1>3. open_fds' \in [0 .. Bytes - 1 -> SUBSET Full] /\ cur_idx' \in 0 .. Bytes - 1
  BY <1>2, UnuseBit, IdParts DEF TableInv
<1>4. sockfds' \in [Fds -> SocketSet \cup {None}]
  BY <1>2 DEF TableInv
<1>5. \A x \in Fds : sockfds'[x] # None <=> sockfds[x] # None /\ x # fd
  BY <1>2 DEF TableInv
<1>6. BitsAreSockets'
  BY <1>2, <1>5, UnuseBit DEF TableInv, BitsAreSockets
<1>7. Used' = Used \ {fd} /\ fd \in Used
  BY <1>5 DEF Used
<1>8. Cardinality(Used') = Cardinality(Used) - 1 /\ Cardinality(Used') \in Nat
  BY <1>7, UsedIsFinite, FS_RemoveElement, FS_CardinalityType
<1>9. held' \in Nat /\ Cardinality(Used') <= held'
  BY <1>2, <1>8, UsedIsFinite DEF TableInv
<1> QED
  BY <1>3, <1>4, <1>6, <1>7, <1>8, <1>9 DEF TableInv

\* bind and listen change a socket in its place.
LEMMA EditTable ==
    ASSUME TableInv, NEW fd \in Fds, sockfds[fd] # None, NEW s \in SocketSet,
           sockfds' = [sockfds EXCEPT ![fd] = s],
           UNCHANGED <<open_fds, cur_idx, held>>
    PROVE  TableInv' /\ Used' = Used
<1>1. sockfds' \in [Fds -> SocketSet \cup {None}]
  BY DEF TableInv
<1>2. \A x \in Fds : sockfds'[x] # None <=> sockfds[x] # None
  BY NoneAssumption DEF TableInv
<1>3. Used' = Used
  BY <1>2 DEF Used
<1>4. BitsAreSockets'
  BY <1>2 DEF TableInv, BitsAreSockets, Bit
<1> QED
  BY <1>1, <1>3, <1>4 DEF TableInv

LEMMA SameTable ==
    ASSUME TableInv, UNCHANGED table
    PROVE  TableInv' /\ Used' = Used
  BY DEF TableInv, table, BitsAreSockets, Bit, Used
-----------------------------------------------------------------------------
(* Which ids are handed out.                                                *)

\* A byte that is not full gives a clear bit, unless its lowest and its
\* highest bit are set.
LEMMA ShiftsIsClear ==
    ASSUME NEW byte \in SUBSET Full, byte # Full, ~ ({0, Bits - 1} \subseteq byte)
    PROVE  Shifts(byte) \in Full /\ Shifts(byte) \notin byte
<1>1. CASE Bits - 1 \notin byte
  BY <1>1, ShiftsIsLowestClear
<1>2. CASE 0 \notin byte
  <2>1. ~ Odd(byte, 0)
    BY <1>2 DEF Odd
  <2>2. Shifts(byte) \in Full
    BY ShiftsIsBit
  <2>3. Shifts(byte) = 0
    <3> SUFFICES ASSUME Shifts(byte) # 0 PROVE FALSE
      OBVIOUS
    <3>1. 0 \in 0 .. Shifts(byte) - 1
      BY <2>2, Sizes DEF Full
    <3> QED
      BY <2>1, <3>1, ShiftsChosen
  <2> QED
    BY <1>2, <2>2, <2>3
<1> QED
  BY <1>1, <1>2

\* nty_socket_allocate takes an id without a socket, or one of a byte that is
\* negative and odd.
LEMMA AllocateFresh ==
    ASSUME TableInv, NEW s \in SocketSet, Allocate(s)
    PROVE  \/ \E fd \in Fds : sockfds[fd] = None /\ sockfds'[fd] # None
           \/ {0, Bits - 1} \subseteq open_fds[cur_idx']
<1> DEFINE id == find_id(open_fds, cur_idx)
<1>1. PICK i \in 0 .. Bytes - 1 : /\ open_fds[i] # Full
                                 /\ id = i * Bits + Shifts(open_fds[i])
                                 /\ Shifts(open_fds[i]) \in Full
  BY FindIdIsBit DEF TableInv, Allocate
<1>2. sockfds' = [sockfds EXCEPT ![id] = s] /\ cur_idx' = id \div Bits
  BY DEF Allocate, set_start
<1> DEFINE j == Shifts(open_fds[i])
<1>3. j \in Full /\ id = i * Bits + j
  BY <1>1
<1>4. open_fds[i] \in SUBSET Full
  BY DEF TableInv
<1> HIDE DEF id
<1>5. id \in Fds /\ id \div Bits = i /\ id % Bits = j
  BY <1>3, IdOfParts
<1>6. CASE {0, Bits - 1} \subseteq open_fds[i]
  BY <1>2, <1>5, <1>6
<1>7. CASE ~ ({0, Bits - 1} \subseteq open_fds[i])
  <2>1. j \notin open_fds[i]
    BY <1>1, <1>4, <1>7, ShiftsIsClear
  <2>2. sockfds[id] = None
    BY <1>5, <2>1 DEF TableInv, BitsAreSockets, Bit
  <2>3. sockfds'[id] # None
    BY <1>2, <1>5, NoneAssumption DEF TableInv
  <2> QED
    BY <1>5, <2>2, <2>3
<1> QED
  BY <1>6, <1>7
-----------------------------------------------------------------------------
(* The actions.                                                             *)

LEMMA NewSocketType ==
    ASSUME NEW t \in {"stream", "listener"}, NEW c \in BOOLEAN
    PROVE  Socket(t, c) \in SocketSet
  BY DEF Socket, SocketSet

\* Every step creates a socket, closes one, or leaves the ids alone.
TableStep ==
    \/ \E s \in SocketSet : Allocate(s)
    \/ \E fd \in Fds : sockfds[fd] # None /\ socket_free(fd)
    \/ \E fd \in Fds, s \in SocketSet :
          /\ sockfds[fd] # None
          /\ sockfds' = [sockfds EXCEPT ![fd] = s]
          /\ UNCHANGED <<open_fds, cur_idx, held>>
    \/ UNCHANGED table

LEMMA AcceptedTable ==
    ASSUME NEW p, Accepted(p)
    PROVE  TableStep
<1>1. CASE find_id(open_fds, cur_idx) = -1
  BY <1>1 DEF Accepted, TableStep
<1>2. CASE find_id(open_fds, cur_idx) # -1
  BY <1>2, NewSocketType DEF Accepted, TableStep
<1> QED
  BY <1>1, <1>2

LEMMA NextTable ==
    ASSUME TableInv, [Next]_vars
    PROVE  TableStep
<1>1. CASE socket
  BY <1>1, NewSocketType DEF socket, TableStep
<1>2. ASSUME NEW fd \in Fds, NEW p \in Ports, bind(fd, p) PROVE TableStep
  <2> DEFINE s == [sockfds[fd] EXCEPT !.port = p]
  <2>1. sockfds[fd] \in SocketSet
    BY <1>2 DEF bind, TableInv
  <2>2. s \in SocketSet
    BY <2>1 DEF SocketSet
  <2>3. sockfds' = [sockfds EXCEPT ![fd] = s]
    BY <1>2 DEF bind
  <2> HIDE DEF s
  <2> QED
    BY <1>2, <2>2, <2>3 DEF bind, TableStep
<1>3. ASSUME NEW fd \in Fds, listen(fd) PROVE TableStep
  <2>1. sockfds[fd] \in SocketSet /\ sockfds[fd] # None
    BY <1>3 DEF listen, TableInv
  <2>2. UNCHANGED <<open_fds, cur_idx, held>>
    BY <1>3 DEF listen
  <2> DEFINE p == sockfds[fd].port
             s == [sockfds[fd] EXCEPT !.type = "listener"]
             t == [sockfds[fd] EXCEPT !.type = "listener", !.lst = p]
  <2>3. p \in Ports
    BY <1>3, <2>1 DEF listen, SocketSet
  <2>4. s \in SocketSet /\ t \in SocketSet
    BY <2>1, <2>3 DEF SocketSet
  <2>5. \/ sockfds' = [sockfds EXCEPT ![fd] = s]
        \/ sockfds' = [sockfds EXCEPT ![fd] = t]
    BY <1>3, <2>1 DEF listen, TableInv, SocketSet
  <2> HIDE DEF s, t
  <2> QED
    BY <2>1, <2>2, <2>4, <2>5 DEF TableStep
<1>4. ASSUME NEW fd \in Fds, AcceptFirst(fd) PROVE TableStep
  BY <1>4, AcceptedTable DEF AcceptFirst, TableStep
<1>5. ASSUME NEW fd \in Fds, close(fd) PROVE TableStep
  BY <1>5 DEF close, TableStep
<1>6. ASSUME NEW p \in Ports, AcceptLocked(p) PROVE TableStep
  BY <1>6, AcceptedTable DEF AcceptLocked, TableStep
<1>7. ASSUME NEW p \in Ports, Established(p) PROVE TableStep
  BY <1>7 DEF Established, TableStep
<1>8. ASSUME NEW p \in Ports, flush_accept_event(p) PROVE TableStep
  BY <1>8 DEF flush_accept_event, TableStep
<1>9. CASE UNCHANGED vars
  BY <1>9 DEF vars, table, TableStep
<1> QED
  BY <1>1, <1>2, <1>3, <1>4, <1>5, <1>6, <1>7, <1>8, <1>9 DEF Next

LEMMA TableStepKeeps ==
    ASSUME TableInv, TableStep
    PROVE  TableInv'
  BY AllocateTable, FreeTable, EditTable, SameTable DEF TableStep

\* The application gets one more socket only from nty_socket_allocate.
LEMMA TableStepFresh ==
    ASSUME TableInv, TableStep, held' > held
    PROVE  \/ \E fd \in Fds : sockfds[fd] = None /\ sockfds'[fd] # None
           \/ {0, Bits - 1} \subseteq open_fds[cur_idx']
<1>1. ASSUME NEW s \in SocketSet, Allocate(s)
      PROVE  \/ \E fd \in Fds : sockfds[fd] = None /\ sockfds'[fd] # None
             \/ {0, Bits - 1} \subseteq open_fds[cur_idx']
  BY <1>1, AllocateFresh
<1>2. ASSUME NEW fd \in Fds, socket_free(fd) PROVE FALSE
  BY <1>2 DEF socket_free, TableInv
<1>3. ASSUME UNCHANGED held PROVE FALSE
  BY <1>3 DEF TableInv
<1> QED
  BY <1>1, <1>2, <1>3 DEF TableStep, table

\* A connection leaves the queue and the thread in accept is done with it.
LEMMA AcceptedAccept ==
    ASSUME AcceptInv, NEW p \in Ports, acceptq[p] > 0, Accepted(p)
    PROVE  AcceptInv'
<1>1. acceptq' = [acceptq EXCEPT ![p] = @ - 1]
      /\ acceptor' = [acceptor EXCEPT ![p] = "idle"]
      /\ UNCHANGED <<listeners, stack>>
  BY DEF Accepted
<1>2. acceptq' \in [Ports -> 0 .. Backlog]
  BY <1>1, ConstantsAssumption DEF AcceptInv
<1>3. acceptor' \in [Ports -> {"idle", "locking", "waiting"}]
  BY <1>1 DEF AcceptInv
<1>4. AcceptIsSignalled'
  BY <1>1 DEF AcceptInv, AcceptIsSignalled
<1> QED
  BY <1>1, <1>2, <1>3, <1>4 DEF AcceptInv

\* The queue of a listener is made empty: nothing there to be woken for.
LEMMA EmptiedAccept ==
    ASSUME AcceptInv, NEW p \in Ports, acceptq' = [acceptq EXCEPT ![p] = 0],
           listeners' \in [Ports -> {"none", "live", "freed"}],
           UNCHANGED <<acceptor, stack>>
    PROVE  AcceptInv'
<1>1. acceptq' \in [Ports -> 0 .. Backlog]
  BY ConstantsAssumption DEF AcceptInv
<1>2. AcceptIsSignalled'
  BY DEF AcceptInv, AcceptIsSignalled
<1> QED
  BY <1>1, <1>2 DEF AcceptInv

LEMMA SameAccept ==
    ASSUME AcceptInv, UNCHANGED <<listeners, acceptq, acceptor, stack>>
    PROVE  AcceptInv'
  BY DEF AcceptInv, AcceptIsSignalled

LEMMA NextAccept ==
    ASSUME TableInv, AcceptInv, [Next]_vars
    PROVE  AcceptInv'
<1>1. CASE socket
  BY <1>1, SameAccept DEF socket
<1>2. ASSUME NEW fd \in Fds, NEW p \in Ports, bind(fd, p) PROVE AcceptInv'
  BY <1>2, SameAccept DEF bind
<1>3. ASSUME NEW fd \in Fds, listen(fd) PROVE AcceptInv'
  <2> DEFINE p == sockfds[fd].port
  <2>1. p \in Ports
    BY <1>3 DEF listen, TableInv, SocketSet
  <2>2. CASE UNCHANGED <<listeners, acceptq>>
    BY <1>3, <2>2, SameAccept DEF listen
  <2>3. CASE acceptq' = [acceptq EXCEPT ![p] = 0] /\ ListenerHTInsert(p)
    <3>1. listeners' \in [Ports -> {"none", "live", "freed"}]
      BY <2>1, <2>3 DEF ListenerHTInsert, AcceptInv
    <3> QED
      BY <1>3, <2>1, <2>3, <3>1, EmptiedAccept DEF listen
  <2> QED
    BY <1>3, <2>2, <2>3 DEF listen
<1>4. ASSUME NEW fd \in Fds, AcceptFirst(fd) PROVE AcceptInv'
  <2> DEFINE p == sockfds[fd].lst
  <2>1. p \in Ports
    BY <1>4 DEF AcceptFirst, TableInv, SocketSet
  <2>2. CASE acceptq[p] > 0 /\ Accepted(p)
    BY <2>1, <2>2, AcceptedAccept
  <2>3. CASE /\ acceptor' = [acceptor EXCEPT ![p] = "locking"]
             /\ UNCHANGED <<listeners, acceptq, stack>>
    BY <2>1, <2>3 DEF AcceptInv, AcceptIsSignalled
  <2> QED
    BY <1>4, <2>2, <2>3 DEF AcceptFirst
<1>5. ASSUME NEW fd \in Fds, close(fd) PROVE AcceptInv'
  <2> DEFINE p == sockfds[fd].lst
  <2>1. CASE p = None
    BY <1>5, <2>1, SameAccept DEF close
  <2>2. CASE p # None
    <3>1. p \in Ports
      BY <1>5, <2>2 DEF close, TableInv, SocketSet
    <3>2. listeners' \in [Ports -> {"none", "live", "freed"}]
      BY <1>5, <2>2, <3>1 DEF close, close_listening, AcceptInv
    <3> QED
      BY <1>5, <2>2, <3>1, <3>2, EmptiedAccept DEF close, close_listening
  <2> QED
    BY <2>1, <2>2
<1>6. ASSUME NEW p \in Ports, AcceptLocked(p) PROVE AcceptInv'
  <2>1. CASE acceptq[p] > 0 /\ Accepted(p)
    BY <2>1, AcceptedAccept
  <2>2. CASE /\ acceptq[p] = 0
             /\ acceptor' = [acceptor EXCEPT ![p] = "waiting"]
             /\ UNCHANGED <<listeners, acceptq, stack>>
    BY <2>2 DEF AcceptInv, AcceptIsSignalled
  <2> QED
    BY <1>6, <2>1, <2>2 DEF AcceptLocked
<1>7. ASSUME NEW p \in Ports, Established(p) PROVE AcceptInv'
  <2>1. acceptq' \in [Ports -> 0 .. Backlog]
    BY <1>7, ConstantsAssumption DEF Established, AcceptInv
  <2>2. AcceptIsSignalled'
    BY <1>7, ConstantsAssumption DEF Established, AcceptInv, AcceptIsSignalled
  <2> QED
    BY <1>7, <2>1, <2>2 DEF Established, AcceptInv
<1>8. ASSUME NEW p \in Ports, flush_accept_event(p) PROVE AcceptInv'
  BY <1>8 DEF flush_accept_event, AcceptInv, AcceptIsSignalled
<1>9. CASE UNCHANGED vars
  BY <1>9, SameAccept DEF vars
<1> QED
  BY <1>1, <1>2, <1>3, <1>4, <1>5, <1>6, <1>7, <1>8, <1>9 DEF Next

LEMMA InitIsInv == Init => IInv
<1> SUFFICES ASSUME Init PROVE IInv
  OBVIOUS
<1>1. Used = {} /\ Cardinality(Used) = 0
  BY FS_EmptySet DEF Init, Used
<1>2. BitsAreSockets
  BY IdParts DEF Init, BitsAreSockets, Bit
<1>3. TableInv
  BY <1>1, <1>2, Sizes DEF Init, TableInv
<1>4. AcceptInv
  BY ConstantsAssumption DEF Init, AcceptInv, AcceptIsSignalled
<1> QED
  BY <1>3, <1>4 DEF IInv
-----------------------------------------------------------------------------
(* The theorems.                                                            *)

\* The table and its bits agree, and accept is signalled, whatever the
\* application does.
THEOREM SocketInductive == Spec => []IInv
<1>1. Init => IInv
  BY InitIsInv
<1>2. IInv /\ [Next]_vars => IInv'
  BY NextTable, TableStepKeeps, NextAccept DEF IInv
<1> QED
  BY <1>1, <1>2, PTL DEF Spec

\* Type correctness: the start of the next search (nty_socket_set_start) stays
\* in open_fds, every id in the table, and accept queues within the backlog.
THEOREM SocketTypeCorrect == Spec => []TypeOK
<1>1. IInv => TypeOK
  BY DEF IInv, TableInv, AcceptInv, TypeOK
<1> QED
  BY <1>1, SocketInductive, PTL

\* A bit of open_fds is set exactly while its id has a socket, even when
\* find_id returns an id that is in use.
THEOREM BitsAreSocketsHolds == Spec => []BitsAreSockets
<1>1. IInv => BitsAreSockets
  BY DEF IInv, TableInv
<1> QED
  BY <1>1, SocketInductive, PTL

\* accept looks at the queue again under accept_lock, so that no wakeup is
\* lost between its look and its wait.
THEOREM AcceptIsSignalledHolds == Spec => []AcceptIsSignalled
<1>1. IInv => AcceptIsSignalled
  BY DEF IInv, AcceptInv
<1> QED
  BY <1>1, SocketInductive, PTL

\* For every width of a byte, any table and any number of open sockets: an id in
\* use is handed out again only from a byte that is negative and odd as a char,
\* and from a byte whose top bit is clear it never is.
THEOREM FreshUnlessNegativeHolds == Spec => FreshUnlessNegative
<1>1. IInv /\ [Next]_vars =>
        [held' > held =>
            \/ \E fd \in Fds : sockfds[fd] = None /\ sockfds'[fd] # None
            \/ {0, Bits - 1} \subseteq open_fds[cur_idx']]_vars
  BY NextTable, TableStepFresh DEF IInv
<1> QED
  BY <1>1, SocketInductive, PTL DEF Spec, FreshUnlessNegative
=============================================================================
