--------------------------- MODULE TcpStreamProofs ---------------------------
(***************************************************************************)
(* The life of a connection, proved for every amount of data, every window *)
(* and every number of segments and retransmissions: the lists and timers  *)
(* of the stack thread are used consistently, a peer's FIN never overtakes *)
(* its data, and the acknowledgment number never moves back; then, on top  *)
(* of that, its sending side and its close.                                *)
(***************************************************************************)
EXTENDS TcpStream, FiniteSetTheorems, TLAPS

USE DEF CLOSED, LISTEN, SYN_RCVD, ESTABLISHED, CLOSE_WAIT, FIN_WAIT_1,
        CLOSING, LAST_ACK, FIN_WAIT_2, TIME_WAIT
-----------------------------------------------------------------------------
(* The invariant.                                                           *)

\* The stream is on no list of the stack thread.
Unlinked(s) ==
    ~ \/ s.on_control_list \/ s.on_send_list \/ s.on_ack_list
      \/ s.on_rto \/ s.on_timewait_list \/ s.on_timeout_list

LinkInv(s) == s.on_hash_table \/ Unlinked(s)

\* The retransmission timer and the timewait list follow the state.
TimerInv(s) ==
    /\ s.on_rto => /\ s.state \in RtoState
                   /\ s.state \in {ESTABLISHED, CLOSE_WAIT} => s.sndbuf
    /\ s.on_timewait_list => s.state \in {TIME_WAIT, CLOSED}
    /\ s.state = TIME_WAIT => s.on_timewait_list
    /\ ~ s.on_hash_table => s.state = CLOSED /\ ~ s.sndbuf

\* Only a send buffer holds data; from close() on the FIN comes right after
\* it, and when the FIN is acknowledged nothing is left.
SendInv(s) ==
    /\ s.on_hash_table /\ s.len > 0 => s.sndbuf
    /\ s.state = FIN_WAIT_1 /\ s.sndbuf => s.head_seq + s.len = s.fss
    /\ s.state = FIN_WAIT_2 => s.len = 0

\* Until the peer's FIN is taken rcv_nxt is the first number that is missing,
\* afterwards everything has arrived.
RecvInv(s) ==
    /\ s.state # LISTEN
    /\ s.state = SYN_RCVD => s.rcv_nxt = 1 /\ s.recvbuf = {}
    /\ s.state \in {ESTABLISHED, FIN_WAIT_1, FIN_WAIT_2} =>
         s.rcv_nxt = FirstGap(s.recvbuf)
    /\ (/\ ~ s.have_reset
        /\ s.state \in {CLOSE_WAIT, LAST_ACK, CLOSING, TIME_WAIT}) =>
         s.recvbuf = 1 .. PeerData /\ s.rcv_nxt = PeerData + 2

StreamInv(s) == TimerInv(s) /\ SendInv(s) /\ RecvInv(s)

IInv ==
    /\ TypeOK
    /\ StreamInv(cs)
    /\ abort = "none" => LinkInv(cs)
    /\ app = "destroying" \/ destroyq => cs.state = CLOSED
    /\ pc = "unlist" => cs.on_send_list

\* What a handler that turns stream s into u has to guarantee.
Preserves(s, u) ==
    /\ u \in Stream
    /\ StreamInv(u)
    /\ LinkInv(u)
    /\ u.rcv_nxt >= s.rcv_nxt
    /\ s.state = CLOSED => u.state = CLOSED
-----------------------------------------------------------------------------
(* The receive buffer.                                                      *)

\* The peer sends finitely many segments before its FIN.
LEMMA IntervalFinite ==
    \A n \in Nat : IsFiniteSet(1 .. n) /\ Cardinality(1 .. n) = n
  BY FS_Interval

\* The first gap of a receive buffer is a sequence number.
LEMMA FirstGapType ==
  ASSUME NEW r \in SUBSET (1 .. PeerData)
  PROVE  /\ IsFiniteSet(r)
         /\ FirstGap(r) \in Nat
<1>1. IsFiniteSet(1 .. PeerData)
  BY IntervalFinite, SizesAssumption
<1>2. IsFiniteSet({k \in r : 1 .. k \subseteq r}) /\ IsFiniteSet(r)
  BY <1>1, FS_Subset
<1> QED
  BY <1>2, FS_CardinalityType DEF FirstGap

\* Storing more never moves the first gap back.
LEMMA FirstGapMonotone ==
  ASSUME NEW r \in SUBSET (1 .. PeerData), NEW t \in SUBSET (1 .. PeerData),
         r \subseteq t
  PROVE  FirstGap(r) <= FirstGap(t)
<1> DEFINE A == {k \in r : 1 .. k \subseteq r}
           B == {k \in t : 1 .. k \subseteq t}
<1>1. A \subseteq B
  OBVIOUS
<1>2. IsFiniteSet(B)
  BY FirstGapType, FS_Subset
<1>3. /\ Cardinality(A) \in Nat /\ Cardinality(B) \in Nat
      /\ Cardinality(A) <= Cardinality(B)
  BY <1>1, <1>2, FS_Subset, FS_CardinalityType
<1> QED
  BY <1>3 DEF FirstGap

\* Without a gap before the FIN everything has arrived.
LEMMA FirstGapComplete ==
  ASSUME NEW r \in SUBSET (1 .. PeerData), FirstGap(r) = PeerData + 1
  PROVE  r = 1 .. PeerData
<1> DEFINE A == {k \in r : 1 .. k \subseteq r}
<1>1. IsFiniteSet(1 .. PeerData) /\ Cardinality(1 .. PeerData) = PeerData
  BY IntervalFinite, SizesAssumption
<1>2. A \subseteq 1 .. PeerData
  OBVIOUS
<1>3. Cardinality(A) \in Nat
  BY <1>1, <1>2, FS_Subset, FS_CardinalityType
<1>4. Cardinality(A) = PeerData
  BY <1>3, SizesAssumption DEF FirstGap
<1>5. A = 1 .. PeerData
  BY <1>1, <1>2, <1>4, FS_Subset
<1> QED
  BY <1>5

\* An empty receive buffer has its gap at the first data segment.
LEMMA FirstGapEmpty == FirstGap({}) = 1
<1>1. {k \in {} : 1 .. k \subseteq {}} = {}
  OBVIOUS
<1> QED
  BY <1>1, FS_EmptySet DEF FirstGap
-----------------------------------------------------------------------------
(* The segments the peer sends.                                             *)

\* A plain segment of the peer is a segment, and carries an ACK alone.
LEMMA PlainFacts ==
  ASSUME NEW q \in 0 .. PeerData + 2, NEW a \in Nat, NEW n \in 0 .. 1,
         NEW w \in 0 .. MaxWnd
  PROVE  LET p == Plain(q, a, n, w)
         IN  /\ p \in Segment
             /\ ~ p.syn /\ p.ack /\ ~ p.fin /\ p.seq = q /\ p.len = n
  BY DEF Segment, Plain

\* Setting a flag of a segment gives a segment.
LEMMA FlagFacts ==
  ASSUME NEW p \in Segment
  PROVE  /\ [p EXCEPT !.old_ts = TRUE] \in Segment
         /\ [p EXCEPT !.rst = TRUE] \in Segment
         /\ [p EXCEPT !.fin = TRUE] \in Segment
         /\ [p EXCEPT !.syn = TRUE, !.ack = FALSE] \in Segment
  BY Zenon DEF Segment

\* What the handlers need to know of a segment.
Sane(p) ==
    /\ p \in Segment
    /\ p.len > 0 => p.seq \in 1 .. PeerData
    /\ p.fin => p.ack /\ p.seq + p.len = PeerData + 1
    /\ p.syn => p.seq = 0 /\ p.len = 0
    /\ ~ p.syn => p.ack

\* Every segment the peer can send is well formed.
LEMMA SegmentsSane == ASSUME NEW p \in Segments PROVE Sane(p)
<1>1. Ackable \subseteq Nat /\ PeerData \in Nat /\ MaxWnd \in Nat
  BY SizesAssumption DEF Ackable
<1>2. /\ 0 \in 0 .. MaxWnd /\ MaxWnd \in 0 .. MaxWnd
      /\ 0 \in 0 .. 1 /\ 1 \in 0 .. 1
      /\ PeerData \in 0 .. PeerData + 2 /\ PeerData + 1 \in 0 .. PeerData + 2
      /\ 0 \in 0 .. PeerData + 2
      /\ 1 .. PeerData + 2 \subseteq 0 .. PeerData + 2
      /\ 1 .. PeerData \subseteq 0 .. PeerData + 2
  BY <1>1
<1>3. CASE p \in { [Plain(q, a, 0, MaxWnd) EXCEPT !.old_ts = TRUE]
                     : q \in 1 .. PeerData + 2, a \in Ackable }
  <2>1. PICK q \in 1 .. PeerData + 2, a \in Ackable :
           p = [Plain(q, a, 0, MaxWnd) EXCEPT !.old_ts = TRUE]
    BY <1>3
  <2>2. Plain(q, a, 0, MaxWnd) \in Segment
    BY <1>1, <1>2, PlainFacts
  <2>3. p \in Segment
    BY <2>1, <2>2, FlagFacts
  <2>4. ~ p.syn /\ p.ack /\ ~ p.fin /\ p.len = 0
    BY <2>1 DEF Plain
  <2> QED
    BY <2>3, <2>4 DEF Sane
<1>4. CASE p \in { Plain(q, a, 0, w) : q \in 1 .. PeerData + 2,
                                       a \in Ackable, w \in 0 .. MaxWnd }
  <2>1. PICK q \in 1 .. PeerData + 2, a \in Ackable, w \in 0 .. MaxWnd :
           p = Plain(q, a, 0, w)
    BY <1>4
  <2> QED
    BY <1>1, <1>2, <2>1, PlainFacts DEF Sane
<1>5. CASE p \in { Plain(q, a, 1, w) : q \in 1 .. PeerData,
                                       a \in Ackable, w \in 0 .. MaxWnd }
  <2>1. PICK q \in 1 .. PeerData, a \in Ackable, w \in 0 .. MaxWnd :
           p = Plain(q, a, 1, w)
    BY <1>5
  <2> QED
    BY <1>1, <1>2, <2>1, PlainFacts DEF Sane
<1>6. CASE p \in { [Plain(PeerData + 1, a, 0, MaxWnd) EXCEPT !.fin = TRUE]
                     : a \in Ackable }
  <2>1. PICK a \in Ackable :
           p = [Plain(PeerData + 1, a, 0, MaxWnd) EXCEPT !.fin = TRUE]
    BY <1>6
  <2>2. Plain(PeerData + 1, a, 0, MaxWnd) \in Segment
    BY <1>1, <1>2, PlainFacts
  <2>3. p \in Segment
    BY <2>1, <2>2, FlagFacts
  <2>4. ~ p.syn /\ p.ack /\ p.seq = PeerData + 1 /\ p.len = 0
    BY <2>1 DEF Plain
  <2> QED
    BY <1>1, <2>3, <2>4 DEF Sane
<1>7. CASE p \in { [Plain(PeerData, a, 1, MaxWnd) EXCEPT !.fin = TRUE]
                     : a \in IF PeerData > 0 THEN Ackable ELSE {} }
  <2>1. PICK a \in IF PeerData > 0 THEN Ackable ELSE {} :
           p = [Plain(PeerData, a, 1, MaxWnd) EXCEPT !.fin = TRUE]
    BY <1>7
  <2>2. a \in Nat /\ PeerData \in 1 .. PeerData
    BY <1>1
  <2>3. Plain(PeerData, a, 1, MaxWnd) \in Segment
    BY <1>1, <1>2, <2>2, PlainFacts
  <2>4. p \in Segment
    BY <2>1, <2>3, FlagFacts
  <2>5. ~ p.syn /\ p.ack /\ p.seq = PeerData /\ p.len = 1
    BY <2>1 DEF Plain
  <2> QED
    BY <1>1, <2>2, <2>4, <2>5 DEF Sane
<1>8. CASE p \in { [Plain(q, a, 0, 0) EXCEPT !.rst = TRUE]
                     : q \in 1 .. PeerData + 2, a \in Ackable }
  <2>1. PICK q \in 1 .. PeerData + 2, a \in Ackable :
           p = [Plain(q, a, 0, 0) EXCEPT !.rst = TRUE]
    BY <1>8
  <2>2. Plain(q, a, 0, 0) \in Segment
    BY <1>1, <1>2, PlainFacts
  <2>3. p \in Segment
    BY <2>1, <2>2, FlagFacts
  <2>4. ~ p.syn /\ p.ack /\ ~ p.fin /\ p.len = 0
    BY <2>1 DEF Plain
  <2> QED
    BY <2>3, <2>4 DEF Sane
<1>9. CASE p = [Plain(0, 0, 0, MaxWnd) EXCEPT !.syn = TRUE, !.ack = FALSE]
  <2>1. Plain(0, 0, 0, MaxWnd) \in Segment
    BY <1>1, <1>2, PlainFacts
  <2>2. p \in Segment
    BY <1>9, <2>1, FlagFacts
  <2>3. p.syn /\ ~ p.ack /\ ~ p.fin /\ p.seq = 0 /\ p.len = 0
    BY <1>9 DEF Plain
  <2> QED
    BY <2>2, <2>3 DEF Sane
<1> QED
  BY <1>3, <1>4, <1>5, <1>6, <1>7, <1>8, <1>9 DEF Segments
-----------------------------------------------------------------------------
(* What the basic operations change, and what they leave alone.             *)

SameState(s, u) ==
    /\ u.state = s.state /\ u.on_hash_table = s.on_hash_table
    /\ u.have_reset = s.have_reset

SameData(s, u) ==
    /\ u.sndbuf = s.sndbuf /\ u.head_seq = s.head_seq /\ u.len = s.len
    /\ u.fss = s.fss /\ u.is_fin_sent = s.is_fin_sent
    /\ u.rcv_nxt = s.rcv_nxt /\ u.recvbuf = s.recvbuf

SameTimers(s, u) ==
    u.on_rto = s.on_rto /\ u.on_timewait_list = s.on_timewait_list

Same(s, u) == SameState(s, u) /\ SameData(s, u) /\ SameTimers(s, u)

\* An operation that keeps the state, the data and the timers of a live
\* stream preserves the invariant.
LEMMA SamePreserves ==
  ASSUME NEW s \in Stream, NEW u \in Stream, StreamInv(s), s.on_hash_table,
         Same(s, u)
  PROVE  Preserves(s, u)
<1>1. u.rcv_nxt >= s.rcv_nxt
  BY DEF Stream, Same, SameData
<1>2. TimerInv(u) /\ SendInv(u) /\ RecvInv(u)
  BY DEF Same, SameState, SameData, SameTimers, StreamInv, TimerInv, SendInv,
         RecvInv
<1> QED
  BY <1>1, <1>2 DEF Preserves, LinkInv, Same, SameState, StreamInv

\* addto_controllist changes nothing but the control list.
LEMMA ControlEffect ==
  ASSUME NEW s \in Stream
  PROVE  addto_controllist(s) \in Stream /\ Same(s, addto_controllist(s))
<1>1. addto_controllist(s) \in Stream
  BY Zenon DEF addto_controllist, Stream
<1> QED
  BY <1>1 DEF addto_controllist, Stream, Same, SameState, SameData, SameTimers

\* enqueue_acklist changes nothing but the ack list.
LEMMA AcklistEffect ==
  ASSUME NEW s \in Stream
  PROVE  enqueue_acklist(s) \in Stream /\ Same(s, enqueue_acklist(s))
<1>1. enqueue_acklist(s) \in Stream
  BY Zenon DEF enqueue_acklist, Stream
<1> QED
  BY <1>1 DEF enqueue_acklist, Stream, Same, SameState, SameData, SameTimers

\* RemoveFromRTOList changes nothing but the RTO list.
LEMMA RemoveRTOEffect ==
  ASSUME NEW s \in Stream
  PROVE  LET u == RemoveFromRTOList(s)
         IN  /\ u \in Stream /\ SameState(s, u) /\ SameData(s, u)
             /\ u.on_rto = FALSE /\ u.on_timewait_list = s.on_timewait_list
<1>1. RemoveFromRTOList(s) \in Stream
  BY Zenon DEF RemoveFromRTOList, Stream
<1> QED
  BY <1>1 DEF RemoveFromRTOList, Stream, SameState, SameData

\* AddtoRTOList changes nothing but the RTO list.
LEMMA AddRTOEffect ==
  ASSUME NEW s \in Stream
  PROVE  LET u == AddtoRTOList(s)
         IN  /\ u \in Stream /\ SameState(s, u) /\ SameData(s, u)
             /\ u.on_rto = TRUE /\ u.on_timewait_list = s.on_timewait_list
<1>1. AddtoRTOList(s) \in Stream
  BY Zenon DEF AddtoRTOList, Stream
<1> QED
  BY <1>1 DEF AddtoRTOList, Stream, SameState, SameData

\* AddtoTimewaitList takes a stream it links off the RTO list.
LEMMA TimewaitEffect ==
  ASSUME NEW s \in Stream
  PROVE  LET u == AddtoTimewaitList(s)
         IN  /\ u \in Stream /\ SameState(s, u) /\ SameData(s, u)
             /\ u.on_timewait_list = TRUE
             /\ u.on_rto => s.on_rto /\ s.on_timewait_list
<1> DEFINE t == RemoveFromRTOList(s)
           u == [t EXCEPT !.on_timewait_list = TRUE]
<1>1. /\ t \in Stream /\ SameState(s, t) /\ SameData(s, t)
      /\ t.on_rto = FALSE
  BY RemoveRTOEffect
<1> HIDE DEF t
<1>2. u \in Stream
  BY <1>1, Zenon DEF Stream
<1>3. /\ SameState(t, u) /\ SameData(t, u) /\ u.on_timewait_list = TRUE
      /\ u.on_rto = t.on_rto
  BY <1>1 DEF Stream, SameState, SameData
<1> HIDE DEF u
<1>4. AddtoTimewaitList(s) = IF s.on_timewait_list THEN s ELSE u
  BY DEF AddtoTimewaitList, t, u
<1>5. s.on_timewait_list \in BOOLEAN
  BY DEF Stream
<1> QED
  BY <1>1, <1>2, <1>3, <1>4, <1>5 DEF SameState, SameData

\* UpdateRetransmissionTimer keeps the timer while data is in flight.
LEMMA UpdateRTOEffect ==
  ASSUME NEW s \in Stream
  PROVE  LET u == UpdateRetransmissionTimer(s)
         IN  /\ u \in Stream /\ SameState(s, u) /\ SameData(s, u)
             /\ u.on_rto = (s.snd_nxt > s.snd_una)
             /\ u.on_timewait_list = s.on_timewait_list
<1>1. (s.snd_nxt > s.snd_una) \in BOOLEAN /\ 0 \in Nat
  OBVIOUS
<1>2. UpdateRetransmissionTimer(s) \in Stream
  BY <1>1, Zenon DEF UpdateRetransmissionTimer, Stream
<1> QED
  BY <1>2 DEF UpdateRetransmissionTimer, Stream, SameState, SameData

\* A destroyed stream keeps its state and numbers, and is on no list.
LEMMA DestroyEffect ==
  ASSUME NEW s \in Stream
  PROVE  LET u == DestroyTcpStream(s)
         IN  /\ u \in Stream /\ Unlinked(u)
             /\ ~ u.on_hash_table /\ ~ u.sndbuf
             /\ u.state = s.state /\ u.rcv_nxt = s.rcv_nxt
<1>1. {} \in SUBSET (1 .. PeerData)
  OBVIOUS
<1>2. DestroyTcpStream(s) \in Stream
  BY <1>1, ZenonT(90) DEF DestroyTcpStream, Stream
<1> QED
  BY <1>2 DEF DestroyTcpStream, Stream, Unlinked

\* Destroying a closed stream leaves it consistent.
LEMMA DestroyClosedPreserves ==
  ASSUME NEW s \in Stream, s.state = CLOSED
  PROVE  Preserves(s, DestroyTcpStream(s))
<1> DEFINE u == DestroyTcpStream(s)
<1>1. /\ u \in Stream /\ Unlinked(u)
      /\ ~ u.on_hash_table /\ ~ u.sndbuf
      /\ u.state = CLOSED /\ u.rcv_nxt = s.rcv_nxt
  BY DestroyEffect
<1>2. s.rcv_nxt \in Nat
  BY DEF Stream
<1> HIDE DEF u
<1>3. TimerInv(u) /\ SendInv(u) /\ RecvInv(u)
  BY <1>1 DEF Unlinked, TimerInv, SendInv, RecvInv
<1>4. Preserves(s, u)
  BY <1>1, <1>2, <1>3 DEF Preserves, StreamInv, LinkInv
<1> QED
  BY <1>4 DEF u

\* A stream can be closed and destroyed in any state.
LEMMA CloseAndDestroyPreserves ==
  ASSUME NEW s \in Stream
  PROVE  Preserves(s, CloseAndDestroy(s))
<1> DEFINE t == [s EXCEPT !.state = CLOSED]
<1>1. CLOSED \in State
  BY DEF State
<1>2. t \in Stream
  BY <1>1, Zenon DEF Stream
<1>3. t.state = CLOSED /\ t.rcv_nxt = s.rcv_nxt
  BY DEF Stream
<1> HIDE DEF t
<1>4. Preserves(t, DestroyTcpStream(t))
  BY <1>2, <1>3, DestroyClosedPreserves
<1>5. Preserves(s, DestroyTcpStream(t))
  BY <1>3, <1>4 DEF Preserves
<1> QED
  BY <1>5 DEF CloseAndDestroy, t
-----------------------------------------------------------------------------
(* What an acknowledgment and a payload change.                             *)

\* process_ack moves the head of the send buffer, and keeps where it ends.
LEMMA AckEffect ==
  ASSUME NEW s \in Stream, NEW p \in Segment
  PROVE  LET u == process_ack(s, p)
         IN  /\ u \in Stream /\ SameState(s, u)
             /\ u.sndbuf = s.sndbuf /\ u.fss = s.fss
             /\ u.is_fin_sent = s.is_fin_sent
             /\ u.recvbuf = s.recvbuf /\ u.rcv_nxt = s.rcv_nxt
             /\ u.on_timewait_list = s.on_timewait_list
             /\ u.head_seq + u.len = s.head_seq + s.len
             /\ u.len <= s.len
             /\ u.on_rto => s.on_rto \/ s.len > 0
             /\ (/\ s.state = FIN_WAIT_1
                 /\ AcksFin(s, p)
                 /\ s.head_seq + s.len = s.fss) => u.len = 0
<1> DEFINE a == IF /\ s.state \in {FIN_WAIT_1, FIN_WAIT_2, CLOSING,
                                   CLOSE_WAIT, LAST_ACK}
                   /\ AcksFin(s, p)
                THEN p.ack_seq - 1
                ELSE p.ack_seq
           n == a - s.head_seq
           b == s.on_send_list /\ ~(a > s.snd_nxt /\ s.len = 0)
           t == [s EXCEPT !.snd_nxt = Max2(@, a),
                          !.on_send_list = @ /\ ~(a > s.snd_nxt /\ s.len = 0)]
           v == [t EXCEPT !.cwnd = IF @ < s.ssthresh THEN @ + n ELSE @,
                          !.head_seq = a, !.len = @ - n, !.snd_una = a]
           w == UpdateRetransmissionTimer(v)
<1>1. /\ s.len \in Nat /\ s.head_seq \in Nat /\ s.fss \in Nat
      /\ s.snd_nxt \in Nat /\ s.cwnd \in Nat /\ p.ack_seq \in Nat
      /\ s.on_rto \in BOOLEAN
  BY DEF Stream, Segment
<1>2. a \in Nat /\ n \in Int /\ Max2(s.snd_nxt, a) \in Nat
  BY <1>1 DEF AcksFin, Max2
<1>3. s.state = FIN_WAIT_1 /\ AcksFin(s, p) => a = s.fss
  BY <1>1 DEF AcksFin
<1>4. process_ack(s, p) = IF a > s.head_seq + s.len THEN s
                          ELSE IF n <= 0 THEN t ELSE w
  BY DEF process_ack
<1> HIDE DEF a
<1>5. /\ t \in Stream /\ SameState(s, t) /\ SameData(s, t)
      /\ SameTimers(s, t) /\ t.cwnd = s.cwnd
  <2>1. b \in BOOLEAN
    OBVIOUS
  <2>2. t \in Stream
    BY <1>2, <2>1, ZenonT(40) DEF Stream
  <2> QED
    BY <2>2 DEF Stream, SameState, SameData, SameTimers
<1> HIDE DEF t
<1>6. ASSUME a <= s.head_seq + s.len, n > 0
      PROVE  /\ w \in Stream /\ SameState(s, w)
             /\ w.sndbuf = s.sndbuf /\ w.fss = s.fss
             /\ w.is_fin_sent = s.is_fin_sent
             /\ w.recvbuf = s.recvbuf /\ w.rcv_nxt = s.rcv_nxt
             /\ w.on_timewait_list = s.on_timewait_list
             /\ w.head_seq = a /\ w.len = s.len - n /\ s.len > 0
  <2>1. /\ t.len - n \in Nat /\ s.len > 0
        /\ (IF t.cwnd < s.ssthresh THEN t.cwnd + n ELSE t.cwnd) \in Nat
    BY <1>1, <1>2, <1>5, <1>6 DEF SameData
  <2>2. v \in Stream
    <3> HIDE DEF n
    <3> QED
      BY <1>2, <1>5, <2>1, ZenonT(40) DEF Stream
  <2>3. /\ SameState(t, v) /\ v.sndbuf = t.sndbuf /\ v.fss = t.fss
        /\ v.is_fin_sent = t.is_fin_sent
        /\ v.recvbuf = t.recvbuf /\ v.rcv_nxt = t.rcv_nxt
        /\ v.on_timewait_list = t.on_timewait_list
        /\ v.head_seq = a /\ v.len = t.len - n
    <3> HIDE DEF n
    <3> QED
      BY <1>5 DEF Stream, SameState
  <2> HIDE DEF v
  <2>4. /\ w \in Stream /\ SameState(v, w) /\ SameData(v, w)
        /\ w.on_timewait_list = v.on_timewait_list
    BY <2>2, UpdateRTOEffect
  <2> HIDE DEF w
  <2> QED
    BY <1>5, <2>1, <2>3, <2>4 DEF SameState, SameData, SameTimers
<1> HIDE DEF w
<1>7. CASE a > s.head_seq + s.len
  BY <1>1, <1>2, <1>3, <1>4, <1>7 DEF SameState
<1>8. CASE a <= s.head_seq + s.len /\ n <= 0
  <2>1. process_ack(s, p) = t
    BY <1>1, <1>2, <1>4, <1>8
  <2>2. t.head_seq = s.head_seq /\ t.len = s.len /\ t.on_rto = s.on_rto
    BY <1>5 DEF SameData, SameTimers
  <2>3. /\ t.head_seq + t.len = s.head_seq + s.len /\ t.len <= s.len
        /\ a = s.fss /\ s.head_seq + s.len = s.fss => t.len = 0
    BY <1>1, <1>2, <1>8, <2>2
  <2> QED
    BY <1>3, <1>5, <2>1, <2>2, <2>3 DEF SameData, SameTimers
<1>9. CASE a <= s.head_seq + s.len /\ n > 0
  <2>1. process_ack(s, p) = w
    BY <1>1, <1>2, <1>4, <1>9
  <2>2. /\ w.head_seq + w.len = s.head_seq + s.len /\ w.len <= s.len
        /\ a = s.fss /\ s.head_seq + s.len = s.fss => w.len = 0
    <3>1. w.head_seq = a /\ w.len = s.len - n
      BY <1>6, <1>9
    <3> QED
      BY <1>1, <1>2, <1>9, <3>1
  <2>3. /\ w \in Stream /\ SameState(s, w)
        /\ w.sndbuf = s.sndbuf /\ w.fss = s.fss
        /\ w.is_fin_sent = s.is_fin_sent
        /\ w.recvbuf = s.recvbuf /\ w.rcv_nxt = s.rcv_nxt
        /\ w.on_timewait_list = s.on_timewait_list /\ s.len > 0
    BY <1>6, <1>9
  <2> QED
    BY <1>3, <2>1, <2>2, <2>3
<1> QED
  BY <1>1, <1>2, <1>7, <1>8, <1>9

\* A payload changes the receive buffer and rcv_nxt, and neither loses data.
LEMMA PayloadEffect ==
  ASSUME NEW s \in Stream, NEW p, Sane(p)
  PROVE  LET u == TakePayload(s, p)
         IN  /\ u \in Stream /\ SameState(s, u) /\ SameTimers(s, u)
             /\ u.sndbuf = s.sndbuf /\ u.head_seq = s.head_seq
             /\ u.len = s.len /\ u.fss = s.fss
             /\ u.is_fin_sent = s.is_fin_sent
             /\ s.rcv_nxt = FirstGap(s.recvbuf) =>
                  /\ u.rcv_nxt = FirstGap(u.recvbuf)
                  /\ u.rcv_nxt >= s.rcv_nxt
<1>1. s.recvbuf \in SUBSET (1 .. PeerData) /\ s.rcv_nxt \in Nat
  BY DEF Stream
<1>2. CASE p.len > 0 /\ ~ (p.seq + p.len < s.rcv_nxt)
  <2> DEFINE r == s.recvbuf \cup {p.seq}
             g == FirstGap(r)
             t == [s EXCEPT !.recvbuf = r, !.rcv_nxt = g]
  <2>1. r \in SUBSET (1 .. PeerData) /\ s.recvbuf \subseteq r
    BY <1>1, <1>2 DEF Sane
  <2>2. g \in Nat /\ FirstGap(s.recvbuf) <= g
    BY <1>1, <2>1, FirstGapType, FirstGapMonotone
  <2>3. TakePayload(s, p) = enqueue_acklist(t)
    BY <1>2 DEF TakePayload, process_payload
  <2>4. g = FirstGap(r)
    OBVIOUS
  <2> HIDE DEF r, g
  <2>5. t \in Stream
    BY <2>1, <2>2, Zenon DEF Stream
  <2>6. /\ SameState(s, t) /\ SameTimers(s, t)
        /\ t.sndbuf = s.sndbuf /\ t.head_seq = s.head_seq
        /\ t.len = s.len /\ t.fss = s.fss /\ t.is_fin_sent = s.is_fin_sent
        /\ t.recvbuf = r /\ t.rcv_nxt = g
    BY DEF Stream, SameState, SameTimers
  <2> HIDE DEF t
  <2>7. enqueue_acklist(t) \in Stream /\ Same(t, enqueue_acklist(t))
    BY <2>5, AcklistEffect
  <2> QED
    BY <1>1, <2>2, <2>3, <2>4, <2>6, <2>7
       DEF Same, SameState, SameData, SameTimers
<1>3. CASE ~ (p.len > 0 /\ ~ (p.seq + p.len < s.rcv_nxt))
  <2>1. TakePayload(s, p) \in {s, enqueue_acklist(s)}
    BY <1>3 DEF TakePayload, process_payload
  <2>2. enqueue_acklist(s) \in Stream /\ Same(s, enqueue_acklist(s))
    BY AcklistEffect
  <2> QED
    BY <1>1, <2>1, <2>2 DEF Same, SameState, SameData, SameTimers
<1> QED
  BY <1>2, <1>3

\* process_ack keeps a stream that has sent data consistent.
LEMMA ProcessAckInv ==
  ASSUME NEW s \in Stream, NEW p \in Segment, StreamInv(s), s.on_hash_table,
         s.sndbuf,
         s.state \in {ESTABLISHED, CLOSE_WAIT, LAST_ACK, FIN_WAIT_1,
                      FIN_WAIT_2, CLOSING}
  PROVE  LET u == process_ack(s, p)
         IN  /\ u \in Stream /\ StreamInv(u) /\ SameState(s, u)
             /\ u.sndbuf = s.sndbuf /\ u.fss = s.fss
             /\ u.is_fin_sent = s.is_fin_sent
             /\ u.recvbuf = s.recvbuf /\ u.rcv_nxt = s.rcv_nxt
             /\ u.on_timewait_list = s.on_timewait_list
             /\ s.state = FIN_WAIT_1 /\ AcksFin(s, p) => u.len = 0
<1> DEFINE u == process_ack(s, p)
<1>1. s.len \in Nat /\ s.head_seq \in Nat /\ s.on_rto \in BOOLEAN
  BY DEF Stream
<1>2. /\ u \in Stream /\ SameState(s, u)
      /\ u.sndbuf = s.sndbuf /\ u.fss = s.fss
      /\ u.is_fin_sent = s.is_fin_sent
      /\ u.recvbuf = s.recvbuf /\ u.rcv_nxt = s.rcv_nxt
      /\ u.on_timewait_list = s.on_timewait_list
      /\ u.head_seq + u.len = s.head_seq + s.len
      /\ u.len <= s.len
      /\ u.on_rto => s.on_rto \/ s.len > 0
      /\ (/\ s.state = FIN_WAIT_1
          /\ AcksFin(s, p)
          /\ s.head_seq + s.len = s.fss) => u.len = 0
  BY AckEffect
<1> HIDE DEF u
<1>3. u.len \in Nat
  BY <1>2 DEF Stream
<1>4. TimerInv(u)
  BY <1>1, <1>2 DEF StreamInv, TimerInv, SendInv, SameState, RtoState
<1>5. SendInv(u)
  BY <1>1, <1>2, <1>3 DEF StreamInv, SendInv, SameState
<1>6. RecvInv(u)
  BY <1>2 DEF StreamInv, RecvInv, SameState
<1>7. s.state = FIN_WAIT_1 => s.head_seq + s.len = s.fss
  BY DEF StreamInv, SendInv
<1>8. StreamInv(u)
  BY <1>4, <1>5, <1>6 DEF StreamInv
<1> QED
  BY <1>2, <1>7, <1>8 DEF u

\* The guarded call of process_ack keeps the stream consistent.
LEMMA TakeAckInv ==
  ASSUME NEW s \in Stream, NEW p \in Segment, StreamInv(s), s.on_hash_table,
         s.state \in {ESTABLISHED, CLOSE_WAIT, LAST_ACK, FIN_WAIT_1,
                      FIN_WAIT_2, CLOSING}
  PROVE  LET u == TakeAck(s, p)
         IN  /\ u \in Stream /\ StreamInv(u) /\ SameState(s, u)
             /\ u.sndbuf = s.sndbuf /\ u.fss = s.fss
             /\ u.is_fin_sent = s.is_fin_sent
             /\ u.recvbuf = s.recvbuf /\ u.rcv_nxt = s.rcv_nxt
             /\ u.on_timewait_list = s.on_timewait_list
             /\ s.state = FIN_WAIT_1 /\ p.ack /\ AcksFin(s, p) => u.len = 0
<1>1. s.len \in Nat /\ s.sndbuf \in BOOLEAN /\ p.ack \in BOOLEAN
  BY DEF Stream, Segment
<1>2. CASE ~ (p.ack /\ s.sndbuf)
  <2>1. TakeAck(s, p) = s
    BY <1>2 DEF TakeAck
  <2>2. ~ s.sndbuf => s.len = 0
    BY <1>1 DEF StreamInv, SendInv
  <2> QED
    BY <1>1, <1>2, <2>1, <2>2 DEF SameState
<1>3. CASE p.ack /\ s.sndbuf
  <2> DEFINE u == process_ack(s, p)
  <2>1. TakeAck(s, p) = u
    BY <1>3 DEF TakeAck
  <2>2. /\ u \in Stream /\ StreamInv(u) /\ SameState(s, u)
        /\ u.sndbuf = s.sndbuf /\ u.fss = s.fss
        /\ u.is_fin_sent = s.is_fin_sent
        /\ u.recvbuf = s.recvbuf /\ u.rcv_nxt = s.rcv_nxt
        /\ u.on_timewait_list = s.on_timewait_list
        /\ s.state = FIN_WAIT_1 /\ AcksFin(s, p) => u.len = 0
    BY <1>3, ProcessAckInv
  <2> HIDE DEF u
  <2> QED
    BY <2>1, <2>2
<1> QED
  BY <1>2, <1>3

\* A payload keeps a stream that still receives consistent.
LEMMA TakePayloadInv ==
  ASSUME NEW s \in Stream, NEW p, Sane(p), StreamInv(s), s.on_hash_table,
         s.state \in {ESTABLISHED, FIN_WAIT_1, FIN_WAIT_2}
  PROVE  LET u == TakePayload(s, p)
         IN  /\ u \in Stream /\ StreamInv(u) /\ SameState(s, u)
             /\ SameTimers(s, u)
             /\ u.sndbuf = s.sndbuf /\ u.head_seq = s.head_seq
             /\ u.len = s.len /\ u.fss = s.fss
             /\ u.is_fin_sent = s.is_fin_sent
             /\ u.rcv_nxt >= s.rcv_nxt
<1> DEFINE u == TakePayload(s, p)
<1>1. s.rcv_nxt = FirstGap(s.recvbuf)
  BY DEF StreamInv, RecvInv
<1>2. /\ u \in Stream /\ SameState(s, u) /\ SameTimers(s, u)
      /\ u.sndbuf = s.sndbuf /\ u.head_seq = s.head_seq
      /\ u.len = s.len /\ u.fss = s.fss
      /\ u.is_fin_sent = s.is_fin_sent
      /\ u.rcv_nxt = FirstGap(u.recvbuf)
      /\ u.rcv_nxt >= s.rcv_nxt
  BY <1>1, PayloadEffect
<1> HIDE DEF u
<1>3. TimerInv(u) /\ SendInv(u)
  BY <1>2 DEF StreamInv, TimerInv, SendInv, SameState, SameTimers
<1>4. RecvInv(u)
  BY <1>2 DEF StreamInv, RecvInv, SameState
<1>5. StreamInv(u)
  BY <1>3, <1>4 DEF StreamInv
<1> QED
  BY <1>2, <1>5 DEF u

\* A FIN in sequence comes when everything before it has arrived.
LEMMA FinComplete ==
  ASSUME NEW s \in Stream, NEW p, Sane(p), StreamInv(s), InSequenceFin(s, p),
         s.state \in {ESTABLISHED, FIN_WAIT_1, FIN_WAIT_2}
  PROVE  s.recvbuf = 1 .. PeerData /\ s.rcv_nxt = PeerData + 1
<1>1. s.rcv_nxt = PeerData + 1
  BY DEF InSequenceFin, Sane
<1>2. FirstGap(s.recvbuf) = PeerData + 1 /\ s.recvbuf \in SUBSET (1 .. PeerData)
  BY <1>1 DEF StreamInv, RecvInv, Stream
<1> QED
  BY <1>1, <1>2, FirstGapComplete

\* How a handler ends: with the stream as it is, or on the control list or
\* the ack list.
LEMMA HandlerEnds ==
  ASSUME NEW s \in Stream, NEW u \in Stream, StreamInv(u), u.on_hash_table,
         u.rcv_nxt >= s.rcv_nxt, s.state = CLOSED => u.state = CLOSED
  PROVE  /\ Preserves(s, u)
         /\ Preserves(s, addto_controllist(u))
         /\ Preserves(s, enqueue_acklist(u))
<1>1. Preserves(s, u)
  BY DEF Preserves, LinkInv
<1>2. /\ Preserves(u, addto_controllist(u))
      /\ addto_controllist(u).rcv_nxt = u.rcv_nxt
  BY ControlEffect, SamePreserves DEF Same, SameData
<1>3. /\ Preserves(u, enqueue_acklist(u))
      /\ enqueue_acklist(u).rcv_nxt = u.rcv_nxt
  BY AcklistEffect, SamePreserves DEF Same, SameData
<1> QED
  BY <1>1, <1>2, <1>3 DEF Preserves
-----------------------------------------------------------------------------
(* Changes of state.                                                        *)

\* A change of state changes nothing else.
LEMMA MoveEffect ==
  ASSUME NEW s \in Stream, NEW st \in State
  PROVE  LET u == [s EXCEPT !.state = st]
         IN  /\ u \in Stream /\ u.state = st
             /\ u.on_hash_table = s.on_hash_table
             /\ u.have_reset = s.have_reset
             /\ SameData(s, u) /\ SameTimers(s, u)
<1>1. [s EXCEPT !.state = st] \in Stream
  BY Zenon DEF Stream
<1> QED
  BY <1>1 DEF Stream, SameData, SameTimers

\* Taking a FIN counts it and changes the state, and nothing else.
LEMMA FinEffect ==
  ASSUME NEW s \in Stream, NEW st \in State
  PROVE  LET u == TakeFin(s, st)
         IN  /\ u \in Stream /\ u.state = st
             /\ u.on_hash_table = s.on_hash_table
             /\ u.rcv_nxt = s.rcv_nxt + 1 /\ u.recvbuf = s.recvbuf
             /\ u.sndbuf = s.sndbuf /\ u.len = s.len
             /\ u.head_seq = s.head_seq /\ u.fss = s.fss
             /\ SameTimers(s, u)
<1>1. s.rcv_nxt + 1 \in Nat
  BY DEF Stream
<1>2. TakeFin(s, st) \in Stream
  BY <1>1, Zenon DEF Stream, TakeFin
<1> QED
  BY <1>2 DEF Stream, SameTimers, TakeFin

\* A FIN in sequence moves the stream on.
LEMMA FinPreserves ==
  ASSUME NEW s \in Stream, NEW p, Sane(p), StreamInv(s), s.on_hash_table,
         InSequenceFin(s, p)
  PROVE  /\ s.state = ESTABLISHED =>
              Preserves(s, addto_controllist(TakeFin(s, CLOSE_WAIT)))
         /\ s.state = FIN_WAIT_1 =>
              Preserves(s, addto_controllist(TakeFin(s, CLOSING)))
         /\ s.state = FIN_WAIT_2 => \A st \in {TIME_WAIT, CLOSED} :
              Preserves(s, addto_controllist(AddtoTimewaitList(TakeFin(s, st))))
<1>1. s.rcv_nxt \in Nat /\ s.rcv_nxt + 1 >= s.rcv_nxt /\ s.on_rto \in BOOLEAN
  BY DEF Stream
<1>2. s.state \in {ESTABLISHED, FIN_WAIT_1, FIN_WAIT_2} =>
        s.recvbuf = 1 .. PeerData /\ s.rcv_nxt + 1 = PeerData + 2
  <2>1. s.state \in {ESTABLISHED, FIN_WAIT_1, FIN_WAIT_2} =>
          s.recvbuf = 1 .. PeerData /\ s.rcv_nxt = PeerData + 1
    BY FinComplete
  <2> QED
    BY <1>1, <2>1, SizesAssumption
<1>3. /\ CLOSE_WAIT \in State /\ CLOSING \in State
      /\ TIME_WAIT \in State /\ CLOSED \in State
  BY DEF State
<1>4. ASSUME s.state = ESTABLISHED
      PROVE  Preserves(s, addto_controllist(TakeFin(s, CLOSE_WAIT)))
  <2> DEFINE u == TakeFin(s, CLOSE_WAIT)
  <2>1. /\ u \in Stream /\ u.state = CLOSE_WAIT
        /\ u.on_hash_table = s.on_hash_table
        /\ u.rcv_nxt = s.rcv_nxt + 1 /\ u.recvbuf = s.recvbuf
        /\ u.sndbuf = s.sndbuf /\ u.len = s.len
        /\ SameTimers(s, u)
    BY <1>3, FinEffect
  <2> HIDE DEF u
  <2>2. TimerInv(u) /\ SendInv(u)
    BY <1>4, <2>1 DEF StreamInv, TimerInv, SendInv, RtoState, SameTimers
  <2>3. RecvInv(u)
    BY <1>2, <1>4, <2>1 DEF RecvInv
  <2>4. Preserves(s, addto_controllist(u))
    BY <1>1, <1>4, <2>1, <2>2, <2>3, HandlerEnds DEF StreamInv
  <2> QED
    BY <2>4 DEF u
<1>5. ASSUME s.state = FIN_WAIT_1
      PROVE  Preserves(s, addto_controllist(TakeFin(s, CLOSING)))
  <2> DEFINE u == TakeFin(s, CLOSING)
  <2>1. /\ u \in Stream /\ u.state = CLOSING
        /\ u.on_hash_table = s.on_hash_table
        /\ u.rcv_nxt = s.rcv_nxt + 1 /\ u.recvbuf = s.recvbuf
        /\ u.sndbuf = s.sndbuf /\ u.len = s.len
        /\ SameTimers(s, u)
    BY <1>3, FinEffect
  <2> HIDE DEF u
  <2>2. TimerInv(u) /\ SendInv(u)
    BY <1>5, <2>1 DEF StreamInv, TimerInv, SendInv, RtoState, SameTimers
  <2>3. RecvInv(u)
    BY <1>2, <1>5, <2>1 DEF RecvInv
  <2>4. Preserves(s, addto_controllist(u))
    BY <1>1, <1>5, <2>1, <2>2, <2>3, HandlerEnds DEF StreamInv
  <2> QED
    BY <2>4 DEF u
<1>6. ASSUME s.state = FIN_WAIT_2, NEW st \in {TIME_WAIT, CLOSED}
      PROVE  Preserves(s, addto_controllist(AddtoTimewaitList(TakeFin(s, st))))
  <2> DEFINE t == TakeFin(s, st)
             u == AddtoTimewaitList(t)
  <2>0. st \in State
    BY <1>3
  <2>1. /\ t \in Stream /\ t.state = st
        /\ t.on_hash_table = s.on_hash_table
        /\ t.rcv_nxt = s.rcv_nxt + 1 /\ t.recvbuf = s.recvbuf
        /\ t.sndbuf = s.sndbuf /\ t.len = s.len
        /\ SameTimers(s, t)
    BY <2>0, FinEffect
  <2> HIDE DEF t
  <2>2. /\ u \in Stream /\ SameState(t, u) /\ SameData(t, u)
        /\ u.on_timewait_list = TRUE
        /\ u.on_rto => t.on_rto
    BY <2>1, TimewaitEffect
  <2> HIDE DEF u
  <2>3. ~ u.on_rto
    BY <1>6, <2>1, <2>2 DEF StreamInv, TimerInv, RtoState, SameTimers
  <2>4. TimerInv(u) /\ SendInv(u)
    BY <1>6, <2>1, <2>2, <2>3
       DEF StreamInv, TimerInv, SendInv, SameState, SameData
  <2>5. RecvInv(u)
    BY <1>2, <1>6, <2>1, <2>2 DEF RecvInv, SameState, SameData
  <2>6. u.on_hash_table /\ u.rcv_nxt >= s.rcv_nxt
    BY <1>1, <2>1, <2>2 DEF SameState, SameData
  <2>7. Preserves(s, addto_controllist(u))
    BY <1>6, <2>2, <2>4, <2>5, <2>6, HandlerEnds DEF StreamInv
  <2> QED
    BY <2>7 DEF u, t
<1> QED
  BY <1>4, <1>5, <1>6
-----------------------------------------------------------------------------
(* The handlers of nty_tcp_process.                                         *)

\* A repeated SYN in SYN_RCVD keeps the stream consistent.
LEMMA ListenPreserves ==
  ASSUME NEW s \in Stream, StreamInv(s), s.on_hash_table, s.state = SYN_RCVD
  PROVE  Preserves(s, handle_listen(s))
<1> DEFINE t == [s EXCEPT !.state = SYN_RCVD,
                          !.rcv_nxt = IF s.state = LISTEN THEN @ + 1 ELSE @]
<1>1. SYN_RCVD \in State
  BY DEF State
<1>2. (IF s.state = LISTEN THEN s.rcv_nxt + 1 ELSE s.rcv_nxt) = s.rcv_nxt
  OBVIOUS
<1>3. t \in Stream
  BY <1>1, <1>2, Zenon DEF Stream
<1>4. Same(s, t)
  BY DEF Stream, Same, SameState, SameData, SameTimers
<1>5. handle_listen(s) = addto_controllist(t)
  BY DEF handle_listen
<1> HIDE DEF t
<1>6. Preserves(s, t)
  BY <1>3, <1>4, SamePreserves
<1> QED
  BY <1>3, <1>4, <1>5, <1>6, HandlerEnds
     DEF Preserves, Same, SameState, SameData

\* handle_established keeps the stream consistent.
LEMMA EstablishedPreserves ==
  ASSUME NEW s \in Stream, NEW p, Sane(p), StreamInv(s), s.on_hash_table,
         s.state = ESTABLISHED
  PROVE  Preserves(s, handle_established(s, p))
<1>0. p \in Segment /\ p.syn \in BOOLEAN /\ p.fin \in BOOLEAN
  BY DEF Sane, Segment
<1>1. CASE p.syn
  <2> DEFINE t == [s EXCEPT !.snd_nxt = p.ack_seq]
  <2>1. p.ack_seq \in Nat
    BY <1>0 DEF Segment
  <2>2. t \in Stream
    BY <2>1, Zenon DEF Stream
  <2>3. Same(s, t)
    BY DEF Stream, Same, SameState, SameData, SameTimers
  <2>4. handle_established(s, p) = addto_controllist(t)
    BY <1>1 DEF handle_established
  <2> HIDE DEF t
  <2>5. Preserves(s, t)
    BY <2>2, <2>3, SamePreserves
  <2> QED
    BY <2>2, <2>3, <2>4, <2>5, HandlerEnds DEF Preserves, Same, SameState
<1>2. CASE ~ p.syn
  <2> DEFINE q == TakePayload(s, p)
             t == TakeAck(q, p)
  <2>1. /\ q \in Stream /\ StreamInv(q) /\ SameState(s, q)
        /\ q.rcv_nxt >= s.rcv_nxt
    BY TakePayloadInv
  <2> HIDE DEF q
  <2>2. q.state = ESTABLISHED /\ q.on_hash_table
    BY <2>1 DEF SameState
  <2>3. /\ t \in Stream /\ StreamInv(t) /\ SameState(q, t)
        /\ t.rcv_nxt = q.rcv_nxt
    BY <1>0, <2>1, <2>2, TakeAckInv
  <2> HIDE DEF t
  <2>4. t.state = ESTABLISHED /\ t.on_hash_table /\ t.rcv_nxt >= s.rcv_nxt
    BY <2>1, <2>2, <2>3 DEF SameState
  <2>5. /\ Preserves(s, t) /\ Preserves(s, enqueue_acklist(t))
    BY <2>3, <2>4, HandlerEnds
  <2>6. InSequenceFin(t, p) =>
          Preserves(s, addto_controllist(TakeFin(t, CLOSE_WAIT)))
    <3>1. SUFFICES ASSUME InSequenceFin(t, p)
                   PROVE  Preserves(s, addto_controllist(TakeFin(t, CLOSE_WAIT)))
      OBVIOUS
    <3> DEFINE u == addto_controllist(TakeFin(t, CLOSE_WAIT))
    <3>2. Preserves(t, u)
      BY <2>3, <2>4, <3>1, FinPreserves
    <3> HIDE DEF u
    <3>3. t.rcv_nxt \in Nat /\ s.rcv_nxt \in Nat /\ u.rcv_nxt \in Nat
      BY <2>3, <3>2 DEF Preserves, Stream
    <3>4. Preserves(s, u)
      BY <2>4, <3>2, <3>3 DEF Preserves
    <3> QED
      BY <3>4 DEF u
  <2>7. handle_established(s, p) =
          IF ~ p.fin THEN t
          ELSE IF InSequenceFin(t, p)
          THEN addto_controllist(TakeFin(t, CLOSE_WAIT))
          ELSE enqueue_acklist(t)
    BY <1>2 DEF handle_established, t, q
  <2> QED
    BY <1>0, <2>5, <2>6, <2>7
<1> QED
  BY <1>0, <1>1, <1>2

\* The SYN_RCVD case of nty_tcp_process keeps the stream consistent.
LEMMA SynRcvdPreserves ==
  ASSUME NEW s \in Stream, NEW p, Sane(p), NEW full \in BOOLEAN,
         StreamInv(s), s.on_hash_table, s.state = SYN_RCVD
  PROVE  Preserves(s, process_syn_rcvd(s, p, full))
<1>0. /\ p \in Segment /\ p.ack_seq \in Nat /\ p.ack \in BOOLEAN
      /\ p.syn \in BOOLEAN /\ s.snd_una \in Nat /\ s.len \in Nat
  BY DEF Sane, Segment, Stream
<1>1. CASE p.syn
  BY <1>1, ListenPreserves DEF process_syn_rcvd
<1>2. CASE ~ p.syn
  <2> DEFINE r == [s EXCEPT !.snd_una = @ + 1, !.snd_nxt = p.ack_seq,
                            !.cwnd = IF @ = 0 THEN 2 ELSE 1, !.nrtx = 0,
                            !.rcv_nxt = 1, !.state = ESTABLISHED,
                            !.on_timeout_list = TRUE]
             t == RemoveFromRTOList(r)
             c == [t EXCEPT !.state = CLOSED]
  <2>1. /\ p.ack /\ s.snd_una + 1 \in Nat /\ 0 \in Nat /\ 1 \in Nat
        /\ (IF s.cwnd = 0 THEN 2 ELSE 1) \in Nat
        /\ ESTABLISHED \in State /\ CLOSED \in State
    BY <1>0, <1>2 DEF Sane, State
  <2>2. r \in Stream
    BY <1>0, <2>1, ZenonT(40) DEF Stream
  <2>3. /\ r.state = ESTABLISHED /\ r.on_hash_table
        /\ r.have_reset = s.have_reset /\ r.sndbuf = s.sndbuf
        /\ r.len = s.len /\ r.recvbuf = s.recvbuf /\ r.rcv_nxt = 1
        /\ r.on_timewait_list = s.on_timewait_list
    BY DEF Stream
  <2> HIDE DEF r
  <2>4. /\ t \in Stream /\ SameState(r, t) /\ SameData(r, t)
        /\ t.on_rto = FALSE /\ t.on_timewait_list = r.on_timewait_list
    BY <2>2, RemoveRTOEffect
  <2> HIDE DEF t
  <2>5. TimerInv(t) /\ SendInv(t)
    BY <2>3, <2>4
       DEF StreamInv, TimerInv, SendInv, SameState, SameData
  <2>6. RecvInv(t)
    BY <2>3, <2>4, FirstGapEmpty
       DEF StreamInv, RecvInv, SameState, SameData
  <2>7. /\ t.state = ESTABLISHED /\ t.on_hash_table
        /\ t.rcv_nxt = 1 /\ s.rcv_nxt = 1
    BY <2>3, <2>4 DEF SameState, SameData, StreamInv, RecvInv
  <2>8. Preserves(s, addto_controllist(c))
    <3>1. /\ c \in Stream /\ c.state = CLOSED
          /\ c.on_hash_table = t.on_hash_table
          /\ SameData(t, c) /\ SameTimers(t, c)
      BY <2>1, <2>4, MoveEffect
    <3> HIDE DEF c
    <3>2. TimerInv(c) /\ SendInv(c) /\ RecvInv(c)
      BY <2>4, <2>5, <2>7, <3>1
         DEF TimerInv, SendInv, RecvInv, SameData, SameTimers
    <3>3. c.rcv_nxt >= s.rcv_nxt
      BY <2>7, <3>1 DEF SameData
    <3> QED
      BY <2>7, <3>1, <3>2, <3>3, HandlerEnds DEF StreamInv
  <2>9. Preserves(s, t) /\ Preserves(s, handle_established(t, p))
    <3>1. Preserves(s, t)
      BY <2>4, <2>5, <2>6, <2>7, HandlerEnds DEF StreamInv
    <3>2. Preserves(t, handle_established(t, p))
      BY <2>4, <2>5, <2>6, <2>7, EstablishedPreserves DEF StreamInv
    <3> QED
      BY <2>7, <3>1, <3>2 DEF Preserves
  <2>10. handle_syn_rcvd(s, p, full) =
           IF full THEN addto_controllist(c) ELSE t
    BY <2>1 DEF handle_syn_rcvd, c, t, r
  <2>11. addto_controllist(c).state = CLOSED
    <3>1. c \in Stream /\ c.state = CLOSED
      BY <2>1, <2>4, MoveEffect
    <3> HIDE DEF c
    <3> QED
      BY <3>1, ControlEffect DEF Same, SameState
  <2> QED
    BY <1>2, <2>8, <2>9, <2>10, <2>11 DEF process_syn_rcvd
<1> QED
  BY <1>0, <1>1, <1>2

\* handle_close_wait keeps the stream consistent.
LEMMA CloseWaitPreserves ==
  ASSUME NEW s \in Stream, NEW p, Sane(p), StreamInv(s), s.on_hash_table,
         s.state = CLOSE_WAIT
  PROVE  Preserves(s, handle_close_wait(s, p))
<1> DEFINE u == process_ack(s, p)
<1>1. s.rcv_nxt \in Nat /\ s.sndbuf \in BOOLEAN /\ p \in Segment
  BY DEF Stream, Sane
<1>2. Preserves(s, s) /\ Preserves(s, addto_controllist(s))
  BY <1>1, HandlerEnds
<1>3. ASSUME s.sndbuf PROVE Preserves(s, u)
  <2>1. /\ u \in Stream /\ StreamInv(u) /\ SameState(s, u)
        /\ u.rcv_nxt = s.rcv_nxt
    BY <1>1, <1>3, ProcessAckInv
  <2> HIDE DEF u
  <2>2. u.on_hash_table /\ u.rcv_nxt >= s.rcv_nxt
    BY <1>1, <2>1 DEF SameState
  <2> QED
    BY <2>1, <2>2, HandlerEnds
<1> HIDE DEF u
<1>4. handle_close_wait(s, p) =
        IF p.seq < s.rcv_nxt THEN addto_controllist(s)
        ELSE IF s.sndbuf THEN u ELSE s
  BY DEF handle_close_wait, u
<1> QED
  BY <1>1, <1>2, <1>3, <1>4

\* handle_last_ack keeps the stream consistent.
LEMMA LastAckPreserves ==
  ASSUME NEW s \in Stream, NEW p, Sane(p), StreamInv(s), s.on_hash_table,
         s.state = LAST_ACK
  PROVE  Preserves(s, handle_last_ack(s, p))
<1> DEFINE t == TakeAck(s, p)
<1>1. s.rcv_nxt \in Nat /\ p \in Segment
  BY DEF Stream, Sane
<1>2. Preserves(s, s) /\ Preserves(s, addto_controllist(s))
  BY <1>1, HandlerEnds
<1>3. /\ t \in Stream /\ StreamInv(t) /\ SameState(s, t)
      /\ t.rcv_nxt = s.rcv_nxt
  BY <1>1, TakeAckInv
<1>4. handle_last_ack(s, p) \in
        {s, addto_controllist(s), t, CloseAndDestroy(t), addto_controllist(t)}
  BY DEF handle_last_ack
<1> HIDE DEF t
<1>5. Preserves(s, t) /\ Preserves(s, addto_controllist(t))
  <2>1. t.on_hash_table /\ t.rcv_nxt >= s.rcv_nxt
    BY <1>1, <1>3 DEF SameState
  <2> QED
    BY <1>3, <2>1, HandlerEnds
<1>6. Preserves(s, CloseAndDestroy(t))
  <2>1. Preserves(t, CloseAndDestroy(t))
    BY <1>3, CloseAndDestroyPreserves
  <2> QED
    BY <1>3, <2>1 DEF Preserves, SameState
<1> QED
  BY <1>2, <1>4, <1>5, <1>6

\* handle_fin_wait_1 keeps the stream consistent.
LEMMA FinWait1Preserves ==
  ASSUME NEW s \in Stream, NEW p, Sane(p), StreamInv(s), s.on_hash_table,
         s.state = FIN_WAIT_1
  PROVE  Preserves(s, handle_fin_wait_1(s, p))
<1> DEFINE t == TakeAck(s, p)
           m == [t EXCEPT !.snd_una = p.ack_seq,
                          !.snd_nxt = Max2(@, p.ack_seq), !.nrtx = 0,
                          !.state = FIN_WAIT_2]
           r == RemoveFromRTOList(m)
           u == IF AcksFin(t, p) THEN r ELSE t
           v == TakePayload(u, p)
<1>1. /\ s.rcv_nxt \in Nat /\ p \in Segment /\ p.ack_seq \in Nat
      /\ p.ack \in BOOLEAN
  BY DEF Stream, Sane, Segment
<1>2. Preserves(s, s) /\ Preserves(s, addto_controllist(s))
  BY <1>1, HandlerEnds
<1>3. handle_fin_wait_1(s, p) =
        IF p.seq < s.rcv_nxt THEN addto_controllist(s)
        ELSE IF ~ p.ack THEN s
        ELSE IF ~ InSequenceFin(v, p) THEN v
        ELSE addto_controllist(
               IF v.state = FIN_WAIT_1 THEN TakeFin(v, CLOSING)
               ELSE AddtoTimewaitList(TakeFin(v, CLOSED)))
  BY DEF handle_fin_wait_1, NTY_TCP_TIMEWAIT
<1>4. /\ t \in Stream /\ StreamInv(t) /\ SameState(s, t)
      /\ t.sndbuf = s.sndbuf /\ t.fss = s.fss
      /\ t.is_fin_sent = s.is_fin_sent
      /\ t.recvbuf = s.recvbuf /\ t.rcv_nxt = s.rcv_nxt
      /\ t.on_timewait_list = s.on_timewait_list
      /\ p.ack /\ AcksFin(s, p) => t.len = 0
  BY <1>1, TakeAckInv
<1> HIDE DEF t
<1>5. ASSUME p.ack, AcksFin(t, p)
      PROVE  /\ r \in Stream /\ StreamInv(r) /\ r.on_hash_table
             /\ r.state = FIN_WAIT_2 /\ r.rcv_nxt = s.rcv_nxt
  <2>1. AcksFin(s, p)
    BY <1>4, <1>5 DEF AcksFin
  <2>2. /\ FIN_WAIT_2 \in State /\ 0 \in Nat /\ t.snd_nxt \in Nat
        /\ t.len = 0 /\ t.on_hash_table /\ t.state = FIN_WAIT_1
    BY <1>4, <1>5, <2>1 DEF Stream, State, SameState
  <2>3. Max2(t.snd_nxt, p.ack_seq) \in Nat
    BY <1>1, <2>2 DEF Max2
  <2>4. m \in Stream
    BY <1>1, <1>4, <2>2, <2>3, ZenonT(40) DEF Stream
  <2>5. /\ m.state = FIN_WAIT_2 /\ m.on_hash_table = t.on_hash_table
        /\ m.have_reset = t.have_reset
        /\ m.len = t.len /\ m.recvbuf = t.recvbuf /\ m.rcv_nxt = t.rcv_nxt
        /\ m.on_timewait_list = t.on_timewait_list
    BY <1>4 DEF Stream
  <2> HIDE DEF m
  <2>6. /\ r \in Stream /\ SameState(m, r) /\ SameData(m, r)
        /\ r.on_rto = FALSE /\ r.on_timewait_list = m.on_timewait_list
    BY <2>4, RemoveRTOEffect
  <2> HIDE DEF r
  <2>7. TimerInv(r) /\ SendInv(r)
    BY <1>4, <2>2, <2>5, <2>6
       DEF StreamInv, TimerInv, SendInv, SameState, SameData
  <2>8. RecvInv(r)
    BY <1>4, <2>2, <2>5, <2>6 DEF StreamInv, RecvInv, SameState, SameData
  <2> QED
    BY <1>4, <2>2, <2>5, <2>6, <2>7, <2>8 DEF StreamInv, SameState, SameData
<1> HIDE DEF r
<1>6. ASSUME p.ack
      PROVE  /\ u \in Stream /\ StreamInv(u) /\ u.on_hash_table
             /\ u.state \in {FIN_WAIT_1, FIN_WAIT_2}
             /\ u.rcv_nxt = s.rcv_nxt
  BY <1>4, <1>5, <1>6 DEF SameState
<1> HIDE DEF u
<1>7. ASSUME p.ack
      PROVE  /\ v \in Stream /\ StreamInv(v) /\ v.on_hash_table
             /\ v.state \in {FIN_WAIT_1, FIN_WAIT_2}
             /\ v.rcv_nxt >= s.rcv_nxt
  <2>1. /\ v \in Stream /\ StreamInv(v) /\ SameState(u, v)
        /\ v.rcv_nxt >= u.rcv_nxt
    BY <1>6, <1>7, TakePayloadInv
  <2> QED
    BY <1>6, <1>7, <2>1 DEF SameState
<1> HIDE DEF v
<1>8. ASSUME p.ack PROVE Preserves(s, v)
  BY <1>7, <1>8, HandlerEnds
<1>9. ASSUME p.ack, InSequenceFin(v, p)
      PROVE  /\ v.state = FIN_WAIT_1 =>
                  Preserves(s, addto_controllist(TakeFin(v, CLOSING)))
             /\ v.state = FIN_WAIT_2 => Preserves(s,
                  addto_controllist(AddtoTimewaitList(TakeFin(v, CLOSED))))
  <2> DEFINE x == addto_controllist(TakeFin(v, CLOSING))
             y == addto_controllist(AddtoTimewaitList(TakeFin(v, CLOSED)))
  <2>1. /\ v.state = FIN_WAIT_1 => Preserves(v, x)
        /\ v.state = FIN_WAIT_2 => Preserves(v, y)
    BY <1>7, <1>9, FinPreserves
  <2> HIDE DEF x, y
  <2>2. v.rcv_nxt \in Nat /\ v.rcv_nxt >= s.rcv_nxt
    BY <1>7, <1>9 DEF Stream
  <2>3. ASSUME NEW z, Preserves(v, z) PROVE Preserves(s, z)
    <3>1. z.rcv_nxt \in Nat
      BY <2>3 DEF Preserves, Stream
    <3> QED
      BY <1>1, <2>2, <2>3, <3>1 DEF Preserves
  <2>4. /\ v.state = FIN_WAIT_1 => Preserves(s, x)
        /\ v.state = FIN_WAIT_2 => Preserves(s, y)
    BY <2>1, <2>3
  <2> QED
    BY <2>4 DEF x, y
<1>10. CASE p.ack /\ InSequenceFin(v, p)
  BY <1>2, <1>3, <1>7, <1>9, <1>10
<1>11. CASE ~ (p.ack /\ InSequenceFin(v, p))
  BY <1>1, <1>2, <1>3, <1>8, <1>11
<1> QED
  BY <1>10, <1>11

\* handle_fin_wait_2 keeps the stream consistent.
LEMMA FinWait2Preserves ==
  ASSUME NEW s \in Stream, NEW p, Sane(p), StreamInv(s), s.on_hash_table,
         s.state = FIN_WAIT_2
  PROVE  Preserves(s, handle_fin_wait_2(s, p))
<1> DEFINE t == TakeAck(s, p)
           v == TakePayload(t, p)
           y == addto_controllist(AddtoTimewaitList(TakeFin(v, TIME_WAIT)))
<1>1. s.rcv_nxt \in Nat /\ p \in Segment /\ p.ack \in BOOLEAN
  BY DEF Stream, Sane, Segment
<1>2. Preserves(s, s)
  BY <1>1, HandlerEnds
<1>3. handle_fin_wait_2(s, p) = IF ~ p.ack THEN s
                                ELSE IF ~ InSequenceFin(v, p) THEN v ELSE y
  BY DEF handle_fin_wait_2
<1>4. /\ t \in Stream /\ StreamInv(t) /\ SameState(s, t)
      /\ t.rcv_nxt = s.rcv_nxt
  BY <1>1, TakeAckInv
<1> HIDE DEF t
<1>5. t.state = FIN_WAIT_2 /\ t.on_hash_table
  BY <1>4 DEF SameState
<1>6. /\ v \in Stream /\ StreamInv(v) /\ SameState(t, v)
      /\ v.rcv_nxt >= t.rcv_nxt
  BY <1>4, <1>5, TakePayloadInv
<1> HIDE DEF v
<1>7. /\ v.state = FIN_WAIT_2 /\ v.on_hash_table
      /\ v.rcv_nxt >= s.rcv_nxt /\ v.rcv_nxt \in Nat
  BY <1>4, <1>5, <1>6 DEF SameState, Stream
<1>8. Preserves(s, v)
  BY <1>6, <1>7, HandlerEnds
<1>9. ASSUME InSequenceFin(v, p) PROVE Preserves(s, y)
  <2>1. Preserves(v, y)
    BY <1>6, <1>7, <1>9, FinPreserves
  <2> HIDE DEF y
  <2>2. y.rcv_nxt \in Nat
    BY <2>1 DEF Preserves, Stream
  <2> QED
    BY <1>1, <1>7, <2>1, <2>2 DEF Preserves
<1> HIDE DEF y
<1> QED
  BY <1>1, <1>2, <1>3, <1>8, <1>9

\* handle_closing keeps the stream consistent.
LEMMA ClosingPreserves ==
  ASSUME NEW s \in Stream, NEW p, Sane(p), StreamInv(s), s.on_hash_table,
         s.state = CLOSING
  PROVE  Preserves(s, handle_closing(s, p))
<1> DEFINE t == TakeAck(s, p)
           m == [t EXCEPT !.snd_una = p.ack_seq, !.snd_nxt = p.ack_seq]
           w == UpdateRetransmissionTimer(m)
           x == [w EXCEPT !.state = TIME_WAIT]
           y == AddtoTimewaitList(x)
<1>1. s.rcv_nxt \in Nat /\ p \in Segment /\ p.ack_seq \in Nat
  BY DEF Stream, Sane, Segment
<1>2. handle_closing(s, p) = IF ~ AcksFin(t, p) THEN t ELSE y
  BY DEF handle_closing
<1>3. /\ t \in Stream /\ StreamInv(t) /\ SameState(s, t)
      /\ t.rcv_nxt = s.rcv_nxt
  BY <1>1, TakeAckInv
<1> HIDE DEF t
<1>4. t.state = CLOSING /\ t.on_hash_table /\ t.rcv_nxt >= s.rcv_nxt
  BY <1>1, <1>3 DEF SameState
<1>5. m \in Stream
  BY <1>1, <1>3, Zenon DEF Stream
<1>6. Same(t, m) /\ m.snd_nxt = m.snd_una /\ m.snd_nxt \in Nat
  BY <1>1, <1>3 DEF Stream, Same, SameState, SameData, SameTimers
<1> HIDE DEF m
<1>7. /\ w \in Stream /\ SameState(m, w) /\ SameData(m, w)
      /\ w.on_rto = (m.snd_nxt > m.snd_una)
      /\ w.on_timewait_list = m.on_timewait_list
  BY <1>5, UpdateRTOEffect
<1> HIDE DEF w
<1>8. /\ x \in Stream /\ x.state = TIME_WAIT
      /\ x.on_hash_table = w.on_hash_table
      /\ x.have_reset = w.have_reset
      /\ SameData(w, x) /\ SameTimers(w, x)
  <2>1. TIME_WAIT \in State
    BY DEF State
  <2> QED
    BY <1>7, <2>1, MoveEffect
<1> HIDE DEF x
<1>9. /\ y \in Stream /\ SameState(x, y) /\ SameData(x, y)
      /\ y.on_timewait_list = TRUE
      /\ y.on_rto => x.on_rto
  BY <1>8, TimewaitEffect
<1> HIDE DEF y
<1>10. ~ y.on_rto
  <2>1. ~ (m.snd_nxt > m.snd_una)
    BY <1>6
  <2> QED
    BY <1>7, <1>8, <1>9, <2>1 DEF SameTimers
<1>11. SameData(t, y) /\ y.have_reset = t.have_reset
  BY <1>6, <1>7, <1>8, <1>9 DEF Same, SameState, SameData
<1>12. y.on_hash_table /\ y.state = TIME_WAIT
  BY <1>4, <1>6, <1>7, <1>8, <1>9 DEF Same, SameState
<1>13. TimerInv(y) /\ SendInv(y)
  BY <1>3, <1>4, <1>9, <1>10, <1>11, <1>12
     DEF StreamInv, TimerInv, SendInv, SameData
<1>14. RecvInv(y)
  BY <1>3, <1>4, <1>11, <1>12 DEF StreamInv, RecvInv, SameData
<1>15. Preserves(s, y)
  <2>1. y.rcv_nxt >= s.rcv_nxt
    BY <1>4, <1>11 DEF SameData
  <2> QED
    BY <1>9, <1>12, <1>13, <1>14, <2>1, HandlerEnds DEF StreamInv
<1>16. Preserves(s, t)
  BY <1>3, <1>4, HandlerEnds
<1> QED
  BY <1>2, <1>15, <1>16

\* A segment in TIME_WAIT keeps the stream on the timewait list.
LEMMA TimeWaitPreserves ==
  ASSUME NEW s \in Stream, StreamInv(s), s.on_hash_table, s.state = TIME_WAIT
  PROVE  /\ Preserves(s, addto_controllist(RestartTimewait(s)))
         /\ AddtoTimewaitList(s) = s
<1> DEFINE t == [s EXCEPT !.on_timewait_list = FALSE]
           u == AddtoTimewaitList(t)
<1>1. t \in Stream
  BY Zenon DEF Stream
<1>2. /\ SameState(s, t) /\ SameData(s, t) /\ ~ t.on_timewait_list
  BY DEF Stream, SameState, SameData
<1>3. s.on_timewait_list /\ s.rcv_nxt \in Nat
  BY DEF StreamInv, TimerInv, Stream
<1>4. RestartTimewait(s) = u
  BY <1>3 DEF RestartTimewait
<1>5. AddtoTimewaitList(s) = s
  BY <1>3 DEF AddtoTimewaitList
<1> HIDE DEF t
<1>6. /\ u \in Stream /\ SameState(t, u) /\ SameData(t, u)
      /\ u.on_timewait_list = TRUE /\ ~ u.on_rto
  BY <1>1, <1>2, TimewaitEffect
<1> HIDE DEF u
<1>7. TimerInv(u) /\ SendInv(u) /\ RecvInv(u)
  BY <1>2, <1>6
     DEF StreamInv, TimerInv, SendInv, RecvInv, SameState, SameData
<1>8. u.on_hash_table /\ u.rcv_nxt >= s.rcv_nxt
  BY <1>2, <1>3, <1>6 DEF SameState, SameData
<1>9. Preserves(s, addto_controllist(u))
  BY <1>6, <1>7, <1>8, HandlerEnds DEF StreamInv
<1> QED
  BY <1>4, <1>5, <1>9

\* process_rst keeps the stream consistent.
LEMMA RstPreserves ==
  ASSUME NEW s \in Stream, NEW p, StreamInv(s), s.on_hash_table, s.have_reset,
         s.state \notin {CLOSED, LISTEN}
  PROVE  Preserves(s, process_rst(s, p))
<1> DEFINE u == [s EXCEPT !.state = CLOSE_WAIT]
<1>1. s.rcv_nxt \in Nat /\ CLOSE_WAIT \in State
  BY DEF Stream, State
<1>2. Preserves(s, s)
  BY <1>1, HandlerEnds
<1>3. Preserves(s, CloseAndDestroy(s))
  BY CloseAndDestroyPreserves
<1>4. ASSUME s.state \in {ESTABLISHED, CLOSE_WAIT} PROVE Preserves(s, u)
  <2>1. /\ u \in Stream /\ u.state = CLOSE_WAIT
        /\ u.on_hash_table = s.on_hash_table
        /\ u.have_reset = s.have_reset
        /\ SameData(s, u) /\ SameTimers(s, u)
    BY <1>1, MoveEffect
  <2> HIDE DEF u
  <2>2. TimerInv(u) /\ SendInv(u) /\ RecvInv(u)
    BY <1>4, <2>1 DEF StreamInv, TimerInv, SendInv, RecvInv, RtoState,
                      SameData, SameTimers
  <2>3. u.rcv_nxt >= s.rcv_nxt
    BY <1>1, <2>1 DEF SameData
  <2> QED
    BY <1>4, <2>1, <2>2, <2>3, HandlerEnds DEF StreamInv
<1>5. s.state \in State
  BY DEF Stream
<1>6. \/ process_rst(s, p) \in {s, CloseAndDestroy(s)}
      \/ s.state \in {ESTABLISHED, CLOSE_WAIT} /\ process_rst(s, p) = u
  <2> HIDE DEF u
  <2>1. CASE s.state = SYN_RCVD
    BY <2>1 DEF process_rst
  <2>2. CASE s.state \in {FIN_WAIT_1, FIN_WAIT_2, LAST_ACK, CLOSING, TIME_WAIT}
    BY <2>2 DEF process_rst
  <2>3. CASE s.state \in {ESTABLISHED, CLOSE_WAIT}
    BY <2>3 DEF process_rst, u
  <2> QED
    BY <1>5, <2>1, <2>2, <2>3 DEF State
<1> HIDE DEF u
<1> QED
  BY <1>2, <1>3, <1>4, <1>6

\* A segment validseq rejects keeps the stream consistent.
LEMMA RejectPreserves ==
  ASSUME NEW s \in Stream, NEW p, StreamInv(s), s.on_hash_table
  PROVE  Preserves(s, RejectSeq(s, p))
<1>1. s.rcv_nxt \in Nat
  BY DEF Stream
<1>2. /\ Preserves(s, s) /\ Preserves(s, addto_controllist(s))
      /\ Preserves(s, enqueue_acklist(s))
  BY <1>1, HandlerEnds
<1>3. s.state = TIME_WAIT => AddtoTimewaitList(s) = s
  BY TimeWaitPreserves
<1>4. RejectSeq(s, p) \in {s, addto_controllist(s), enqueue_acklist(s)}
  BY <1>3 DEF RejectSeq
<1> QED
  BY <1>2, <1>4

\* Each state handles its segments consistently.
LEMMA DispatchPreserves ==
  ASSUME NEW s \in Stream, NEW p, Sane(p), NEW full \in BOOLEAN,
         StreamInv(s), s.on_hash_table
  PROVE  Preserves(s, Dispatch(s, p, full))
<1>1. s.state \in State \ {LISTEN} /\ s.rcv_nxt \in Nat
  BY DEF Stream, StreamInv, RecvInv
<1>2. Preserves(s, s)
  BY <1>1, HandlerEnds
<1>3. CASE s.state = SYN_RCVD
  BY <1>3, SynRcvdPreserves DEF Dispatch
<1>4. CASE s.state = ESTABLISHED
  BY <1>4, EstablishedPreserves DEF Dispatch
<1>5. CASE s.state = CLOSE_WAIT
  BY <1>5, CloseWaitPreserves DEF Dispatch
<1>6. CASE s.state = LAST_ACK
  BY <1>6, LastAckPreserves DEF Dispatch
<1>7. CASE s.state = FIN_WAIT_1
  BY <1>7, FinWait1Preserves DEF Dispatch
<1>8. CASE s.state = FIN_WAIT_2
  BY <1>8, FinWait2Preserves DEF Dispatch
<1>9. CASE s.state = CLOSING
  BY <1>9, ClosingPreserves DEF Dispatch
<1>10. CASE s.state = TIME_WAIT
  BY <1>10, TimeWaitPreserves DEF Dispatch
<1>11. CASE s.state = CLOSED
  BY <1>2, <1>11 DEF Dispatch
<1> QED
  BY <1>1, <1>3, <1>4, <1>5, <1>6, <1>7, <1>8, <1>9, <1>10, <1>11 DEF State

\* Whatever segment arrives, a live stream stays consistent.
LEMMA ProcessPreserves ==
  ASSUME NEW s \in Stream, NEW p, Sane(p), NEW full \in BOOLEAN,
         StreamInv(s), s.on_hash_table
  PROVE  Preserves(s, nty_tcp_process(CheckTimestamp(s, p), p, full))
<1> DEFINE c == CheckTimestamp(s, p)
           t == [c EXCEPT !.peer_wnd = p.window, !.have_reset = @ \/ p.rst]
           u == nty_tcp_process(c, p, full)
<1>1. /\ p \in Segment /\ p.window \in Nat /\ p.rst \in BOOLEAN
      /\ s.rcv_nxt \in Nat
  BY SizesAssumption DEF Sane, Segment, Stream
<1>2. c \in Stream /\ Same(s, c) /\ StreamInv(c)
  <2>1. enqueue_acklist(s) \in Stream /\ Same(s, enqueue_acklist(s))
    BY AcklistEffect
  <2>2. Same(s, s)
    BY DEF Same, SameState, SameData, SameTimers
  <2>3. c \in Stream /\ Same(s, c)
    BY <2>1, <2>2 DEF CheckTimestamp
  <2> QED
    BY <2>3, SamePreserves DEF Preserves
<1>3. \/ u \in {RejectSeq(c, p), Dispatch(t, p, full)}
      \/ u = process_rst(t, p) /\ p.rst /\ c.state \notin {CLOSED, LISTEN}
  BY DEF nty_tcp_process
<1> HIDE DEF c
<1>4. c.on_hash_table /\ c.rcv_nxt = s.rcv_nxt /\ c.state = s.state
  BY <1>2 DEF Same, SameState, SameData
<1>5. t \in Stream
  <2>1. (c.have_reset \/ p.rst) \in BOOLEAN
    OBVIOUS
  <2> QED
    BY <1>1, <1>2, <2>1, Zenon DEF Stream
<1>6. /\ t.state = c.state /\ t.on_hash_table = c.on_hash_table
      /\ t.have_reset = (c.have_reset \/ p.rst)
      /\ SameData(c, t) /\ SameTimers(c, t)
  BY <1>2 DEF Stream, SameData, SameTimers
<1> HIDE DEF t, u
<1>7. StreamInv(t)
  <2>1. TimerInv(t) /\ SendInv(t)
    BY <1>2, <1>6 DEF StreamInv, TimerInv, SendInv, SameData, SameTimers
  <2>2. RecvInv(t)
    <3>1. ~ t.have_reset => ~ c.have_reset
      BY <1>2, <1>6 DEF Stream
    <3> QED
      BY <1>2, <1>6, <3>1 DEF StreamInv, RecvInv, SameData
  <2> QED
    BY <2>1, <2>2 DEF StreamInv
<1>8. t.on_hash_table /\ t.rcv_nxt = s.rcv_nxt /\ t.state = s.state
  BY <1>4, <1>6 DEF SameData
<1>9. Preserves(c, RejectSeq(c, p)) /\ Preserves(t, Dispatch(t, p, full))
  BY <1>2, <1>4, <1>5, <1>7, <1>8, RejectPreserves, DispatchPreserves
<1>10. p.rst /\ c.state \notin {CLOSED, LISTEN} => Preserves(t, process_rst(t, p))
  BY <1>4, <1>5, <1>6, <1>7, <1>8, RstPreserves
<1>11. Preserves(c, u) \/ Preserves(t, u)
  BY <1>3, <1>9, <1>10
<1>12. Preserves(s, u)
  BY <1>4, <1>8, <1>11 DEF Preserves
<1> QED
  BY <1>12 DEF u, c
-----------------------------------------------------------------------------
(* Timeouts, the API queues and the write lists.                            *)

\* Nothing the invariant speaks of changes, except that the retransmission
\* timer may be stopped, or started where HandleRTO can serve it.
LEMMA TimerPreserves ==
  ASSUME NEW s \in Stream, NEW u \in Stream, StreamInv(s), s.on_hash_table,
         SameState(s, u),
         u.sndbuf = s.sndbuf, u.head_seq = s.head_seq, u.len = s.len,
         u.fss = s.fss, u.rcv_nxt = s.rcv_nxt, u.recvbuf = s.recvbuf,
         u.on_timewait_list = s.on_timewait_list,
         u.on_rto => /\ s.state \in RtoState
                     /\ s.state \in {ESTABLISHED, CLOSE_WAIT} => s.sndbuf
  PROVE  Preserves(s, u)
<1>1. u.rcv_nxt >= s.rcv_nxt
  BY DEF Stream
<1>2. TimerInv(u) /\ SendInv(u) /\ RecvInv(u)
  BY DEF SameState, StreamInv, TimerInv, SendInv, RecvInv
<1> QED
  BY <1>1, <1>2 DEF Preserves, LinkInv, SameState, StreamInv

\* A retransmission timeout keeps the stream consistent.
LEMMA RtoPreserves ==
  ASSUME NEW s \in Stream, StreamInv(s), s.on_hash_table
  PROVE  Preserves(s, HandleRTO(s))
<1> DEFINE w == Max2(2, Window(s) \div 2)
           t == [s EXCEPT !.on_rto = FALSE, !.nrtx = @ + 1, !.cwnd = 1,
                          !.ssthresh = Max2(2, Window(s) \div 2),
                          !.snd_nxt = s.snd_una]
           c == [t EXCEPT !.on_control_list = FALSE,
                          !.control_list_waiting = TRUE]
<1>1. /\ s.nrtx + 1 \in Nat /\ 1 \in Nat /\ s.snd_una \in Nat
      /\ s.cwnd \in Nat /\ s.peer_wnd \in Nat
  BY DEF Stream
<1>2. w \in Nat
  BY <1>1 DEF Max2, Window, Min2
<1>3. HandleRTO(s) \in {CloseAndDestroy(s), addto_sendlist(t),
                        addto_sendlist(c), addto_controllist(t)}
  BY DEF HandleRTO
<1>4. t \in Stream
  <2> HIDE DEF w
  <2>1. t = [s EXCEPT !.on_rto = FALSE, !.nrtx = @ + 1, !.cwnd = 1,
                      !.ssthresh = w, !.snd_nxt = s.snd_una]
    BY DEF w
  <2> HIDE DEF t
  <2> QED
    BY <1>1, <1>2, <2>1, Zenon DEF Stream
<1>5. /\ SameState(s, t) /\ SameData(s, t) /\ ~ t.on_rto
      /\ t.on_timewait_list = s.on_timewait_list
  BY DEF Stream, SameState, SameData
<1> HIDE DEF t
<1>6. c \in Stream
  BY <1>4, Zenon DEF Stream
<1>7. Same(t, c)
  BY <1>4 DEF Stream, Same, SameState, SameData, SameTimers
<1> HIDE DEF c
<1>8. ASSUME NEW x \in Stream
      PROVE  addto_sendlist(x) \in Stream /\ Same(x, addto_sendlist(x))
  <2>1. addto_sendlist(x) \in Stream
    BY Zenon DEF addto_sendlist, Stream
  <2> QED
    BY <2>1 DEF addto_sendlist, Stream, Same, SameState, SameData, SameTimers
<1>9. ASSUME NEW x \in Stream, Same(t, x) PROVE Preserves(s, x)
  <2>1. /\ SameState(s, x) /\ SameData(s, x) /\ ~ x.on_rto
        /\ x.on_timewait_list = s.on_timewait_list
    BY <1>5, <1>9 DEF Same, SameState, SameData, SameTimers
  <2> QED
    BY <2>1, TimerPreserves DEF SameData
<1>10. /\ addto_sendlist(t) \in Stream /\ Same(t, addto_sendlist(t))
       /\ addto_sendlist(c) \in Stream /\ Same(t, addto_sendlist(c))
       /\ addto_controllist(t) \in Stream /\ Same(t, addto_controllist(t))
  BY <1>4, <1>6, <1>7, <1>8, ControlEffect
     DEF Same, SameState, SameData, SameTimers
<1>11. Preserves(s, CloseAndDestroy(s))
  BY CloseAndDestroyPreserves
<1> QED
  BY <1>3, <1>9, <1>10, <1>11

\* The timers of one loop: retransmission, timewait, idle connections.
LEMMA TimersPreserve ==
  ASSUME NEW s \in Stream, StreamInv(s), LinkInv(s), NEW rto \in BOOLEAN,
         NEW idle \in BOOLEAN, rto => s.on_rto
  PROVE  LET u == CheckTimewaitExpire(IF rto THEN HandleRTO(s) ELSE s)
         IN  Preserves(s, IF idle /\ u.on_timeout_list
                          THEN CloseAndDestroy(u) ELSE u)
<1> DEFINE t == IF rto THEN HandleRTO(s) ELSE s
           u == CheckTimewaitExpire(t)
           v == IF idle /\ u.on_timeout_list THEN CloseAndDestroy(u) ELSE u
<1>1. s.rcv_nxt \in Nat
  BY DEF Stream
<1>2. Preserves(s, t)
  <2>1. rto => s.on_hash_table
    BY DEF LinkInv, Unlinked
  <2>2. rto => Preserves(s, HandleRTO(s))
    BY <2>1, RtoPreserves
  <2>3. Preserves(s, s)
    BY <1>1 DEF Preserves
  <2> QED
    BY <2>2, <2>3
<1> HIDE DEF t
<1>3. ASSUME NEW x \in Stream, Preserves(s, x)
      PROVE  Preserves(s, CloseAndDestroy(x))
  <2>1. Preserves(x, CloseAndDestroy(x))
    BY CloseAndDestroyPreserves
  <2>2. x.rcv_nxt \in Nat /\ CloseAndDestroy(x).rcv_nxt \in Nat
    BY <2>1 DEF Preserves, Stream
  <2> QED
    BY <1>1, <1>3, <2>1, <2>2 DEF Preserves
<1>4. Preserves(s, u)
  <2>1. u \in {t, CloseAndDestroy(t)}
    BY DEF CheckTimewaitExpire
  <2>2. t \in Stream
    BY <1>2 DEF Preserves
  <2> QED
    BY <1>2, <1>3, <2>1, <2>2
<1> HIDE DEF u
<1>5. Preserves(s, v)
  <2>1. u \in Stream
    BY <1>4 DEF Preserves
  <2> QED
    BY <1>3, <1>4, <2>1
<1> QED
  BY <1>5 DEF v, u, t

\* The closeq case of handle_apicall keeps the stream consistent.
LEMMA ClosePreserves ==
  ASSUME NEW s \in Stream, StreamInv(s), LinkInv(s)
  PROVE  Preserves(s, CloseStream(s))
<1> DEFINE f == IF s.sndbuf THEN s.head_seq + s.len ELSE s.snd_nxt
           t == [s EXCEPT !.on_closeq = FALSE, !.fss = f,
                          !.on_timeout_list = FALSE]
           u == [t EXCEPT !.state = CloseState(t.state)]
           i == [t EXCEPT !.on_closeq_int = TRUE]
           w == [u EXCEPT !.control_list_waiting = TRUE]
<1>1. /\ f \in Nat /\ s.rcv_nxt \in Nat /\ s.state \in State
      /\ s.on_hash_table \in BOOLEAN
  BY DEF Stream
<1>2. CloseStream(s) =
        IF s.have_reset
        THEN IF s.state # CLOSED THEN CloseAndDestroy(t) ELSE t
        ELSE IF s.on_control_list THEN i
        ELSE IF s.on_send_list \/ s.on_ack_list THEN w
        ELSE IF s.state # CLOSED THEN addto_controllist(u) ELSE t
  BY DEF CloseStream
<1>3. s.sndbuf => f = s.head_seq + s.len
  OBVIOUS
<1> HIDE DEF f
<1>4. t \in Stream
  BY <1>1, Zenon DEF Stream
<1>5. /\ SameState(s, t) /\ SameTimers(s, t) /\ t.fss = f
      /\ t.sndbuf = s.sndbuf /\ t.head_seq = s.head_seq /\ t.len = s.len
      /\ t.recvbuf = s.recvbuf /\ t.rcv_nxt = s.rcv_nxt
      /\ Unlinked(s) => Unlinked(t)
  BY DEF Stream, SameState, SameTimers, Unlinked
<1> HIDE DEF t
<1>6. StreamInv(t) /\ LinkInv(t)
  <2>1. TimerInv(t) /\ RecvInv(t) /\ LinkInv(t)
    BY <1>5
       DEF StreamInv, TimerInv, RecvInv, LinkInv, SameState, SameTimers
  <2>2. SendInv(t)
    BY <1>3, <1>5 DEF StreamInv, SendInv, SameState
  <2> QED
    BY <2>1, <2>2 DEF StreamInv
<1>7. Preserves(s, t)
  BY <1>1, <1>4, <1>5, <1>6 DEF Preserves, SameState
<1>8. Preserves(s, CloseAndDestroy(t))
  <2>1. Preserves(t, CloseAndDestroy(t))
    BY <1>4, CloseAndDestroyPreserves
  <2> QED
    BY <1>5, <2>1 DEF Preserves, SameState
<1>9. CASE ~ s.on_hash_table
  <2>1. /\ s.state = CLOSED /\ ~ s.on_control_list
        /\ ~ s.on_send_list /\ ~ s.on_ack_list
    BY <1>9 DEF StreamInv, TimerInv, LinkInv, Unlinked
  <2>2. CloseStream(s) = t
    BY <1>2, <2>1
  <2> QED
    BY <1>7, <2>2
<1>10. CASE s.on_hash_table
  <2>1. t.on_hash_table
    BY <1>5, <1>10 DEF SameState
  <2>2. /\ CloseState(t.state) \in State
        /\ s.state = CLOSED => CloseState(t.state) = CLOSED
    BY <1>1, <1>5 DEF State, CloseState, SameState
  <2>3. i \in Stream
    BY <1>4, Zenon DEF Stream
  <2>4. Same(t, i)
    BY <1>4 DEF Stream, Same, SameState, SameData, SameTimers
  <2> HIDE DEF i
  <2>5. Preserves(s, i)
    <3>1. Preserves(t, i)
      BY <1>4, <1>6, <2>1, <2>3, <2>4, SamePreserves
    <3> QED
      BY <1>5, <3>1 DEF Preserves, SameState
  <2>6. /\ u \in Stream /\ u.state = CloseState(t.state)
        /\ u.on_hash_table = t.on_hash_table
        /\ u.have_reset = t.have_reset
        /\ SameData(t, u) /\ SameTimers(t, u)
    BY <1>4, <2>2, MoveEffect
  <2> HIDE DEF u
  <2>7. /\ u.rcv_nxt >= s.rcv_nxt /\ u.on_hash_table
        /\ s.state = CLOSED => u.state = CLOSED
    BY <1>1, <1>5, <2>1, <2>2, <2>6 DEF SameData
  <2>8. StreamInv(u)
    <3>1. \/ u.state = t.state
          \/ t.state = ESTABLISHED /\ u.state = FIN_WAIT_1
          \/ t.state = CLOSE_WAIT /\ u.state = LAST_ACK
      BY <2>6 DEF CloseState
    <3>2. TimerInv(u)
      BY <1>6, <2>1, <2>6, <3>1
         DEF StreamInv, TimerInv, RtoState, SameData, SameTimers
    <3>3. SendInv(u)
      BY <1>3, <1>5, <1>6, <2>1, <2>6, <3>1 DEF StreamInv, SendInv, SameData
    <3>4. RecvInv(u)
      BY <1>6, <2>6, <3>1 DEF StreamInv, RecvInv, SameData
    <3> QED
      BY <3>2, <3>3, <3>4 DEF StreamInv
  <2>9. Preserves(s, addto_controllist(u))
    BY <2>6, <2>7, <2>8, HandlerEnds
  <2>10. w \in Stream
    BY <2>6, Zenon DEF Stream
  <2>11. Same(u, w)
    BY <2>6 DEF Stream, Same, SameState, SameData, SameTimers
  <2> HIDE DEF w
  <2>12. Preserves(s, w)
    <3>1. Preserves(u, w)
      BY <2>6, <2>7, <2>8, <2>10, <2>11, SamePreserves
    <3>2. w.rcv_nxt = u.rcv_nxt
      BY <2>11 DEF Same, SameData
    <3> QED
      BY <2>7, <3>1, <3>2 DEF Preserves
  <2> QED
    BY <1>2, <1>7, <1>8, <2>5, <2>9, <2>12
<1> QED
  BY <1>1, <1>9, <1>10

\* A control packet keeps the stream consistent.
LEMMA ControlPktPreserves ==
  ASSUME NEW s \in Stream, StreamInv(s), s.on_hash_table
  PROVE  Preserves(s, send_controlpkt(s)) /\ ControlSeqs(s) \subseteq Nat
<1> DEFINE y == [s EXCEPT !.snd_nxt = 1]
           f == [s EXCEPT !.is_fin_sent = TRUE, !.snd_nxt = @ + 1]
<1>1. s.snd_nxt + 1 \in Nat /\ 1 \in Nat /\ s.fss \in Nat /\ s.rcv_nxt \in Nat
  BY DEF Stream
<1>2. y \in Stream /\ f \in Stream
  BY <1>1, Zenon DEF Stream
<1>3. /\ SameState(s, y) /\ SameData(s, y) /\ SameTimers(s, y)
      /\ SameState(s, f) /\ SameTimers(s, f)
      /\ f.sndbuf = s.sndbuf /\ f.head_seq = s.head_seq /\ f.len = s.len
      /\ f.fss = s.fss /\ f.rcv_nxt = s.rcv_nxt /\ f.recvbuf = s.recvbuf
  BY DEF Stream, SameState, SameData, SameTimers
<1>4. send_syn(s) = AddtoRTOList(y) /\ send_fin(s) = AddtoRTOList(f)
  BY DEF send_syn, send_fin
<1> HIDE DEF y, f
<1>5. ASSUME s.state = SYN_RCVD PROVE Preserves(s, send_syn(s))
  <2> DEFINE u == AddtoRTOList(y)
  <2>1. /\ u \in Stream /\ SameState(y, u) /\ SameData(y, u)
        /\ u.on_timewait_list = y.on_timewait_list
    BY <1>2, AddRTOEffect
  <2> HIDE DEF u
  <2>2. /\ SameState(s, u) /\ SameData(s, u)
        /\ u.on_timewait_list = s.on_timewait_list
    BY <1>3, <2>1 DEF SameState, SameData, SameTimers
  <2>3. s.state \in RtoState
    BY <1>5 DEF RtoState
  <2>4. Preserves(s, u)
    BY <1>5, <2>1, <2>2, <2>3, TimerPreserves DEF SameData
  <2> QED
    BY <1>4, <2>4 DEF u
<1>6. ASSUME ControlIsFin(s) PROVE Preserves(s, send_fin(s))
  <2> DEFINE u == AddtoRTOList(f)
  <2>1. /\ u \in Stream /\ SameState(f, u) /\ SameData(f, u)
        /\ u.on_timewait_list = f.on_timewait_list
    BY <1>2, AddRTOEffect
  <2> HIDE DEF u
  <2>2. /\ SameState(s, u) /\ u.on_timewait_list = s.on_timewait_list
        /\ u.sndbuf = s.sndbuf /\ u.head_seq = s.head_seq /\ u.len = s.len
        /\ u.fss = s.fss /\ u.rcv_nxt = s.rcv_nxt /\ u.recvbuf = s.recvbuf
    BY <1>3, <2>1 DEF SameState, SameData, SameTimers
  <2>3. s.state \in RtoState \ {ESTABLISHED, CLOSE_WAIT}
    BY <1>6 DEF RtoState, ControlIsFin
  <2>4. Preserves(s, u)
    BY <2>1, <2>2, <2>3, TimerPreserves
  <2> QED
    BY <1>4, <2>4 DEF u
<1>7. s.state = CLOSED => Preserves(s, DestroyTcpStream(s))
  BY DestroyClosedPreserves
<1>8. Preserves(s, s)
  BY <1>1, HandlerEnds
<1>9. \/ s.state = SYN_RCVD /\ send_controlpkt(s) = send_syn(s)
      \/ ControlIsFin(s) /\ send_controlpkt(s) = send_fin(s)
      \/ s.state = CLOSED /\ send_controlpkt(s) = DestroyTcpStream(s)
      \/ send_controlpkt(s) = s
  BY DEF send_controlpkt
<1>10. ControlSeqs(s) \subseteq Nat
  BY <1>1 DEF ControlSeqs
<1> QED
  BY <1>5, <1>6, <1>7, <1>8, <1>9, <1>10

\* Moving a waiting close to the control list keeps the stream consistent.
LEMMA EndWaitingPreserves ==
  ASSUME NEW s \in Stream, StreamInv(s), s.on_hash_table
  PROVE  Preserves(s, EndWaiting(s))
<1> DEFINE t == [s EXCEPT !.control_list_waiting = FALSE]
<1>1. s.rcv_nxt \in Nat
  BY DEF Stream
<1>2. t \in Stream
  BY Zenon DEF Stream
<1>3. Same(s, t)
  BY DEF Stream, Same, SameState, SameData, SameTimers
<1>4. EndWaiting(s) \in {s, addto_controllist(t)}
  BY DEF EndWaiting
<1> HIDE DEF t
<1>5. Preserves(s, s)
  BY <1>1, HandlerEnds
<1>6. Preserves(s, t)
  BY <1>2, <1>3, SamePreserves
<1>7. Preserves(s, addto_controllist(t))
  BY <1>2, <1>3, <1>6, HandlerEnds DEF Preserves, Same, SameState
<1> QED
  BY <1>4, <1>5, <1>7

\* A flush sends a number of segments, and none from an empty buffer.
LEMMA FlushedType ==
  ASSUME NEW s \in Stream
  PROVE  Flushed(s) \in Nat /\ (Flushed(s) # 0 => s.len > 0)
<1> DEFINE J == {j \in 0 .. MaxWnd : Fits(s, j)}
<1>1. IsFiniteSet(0 .. MaxWnd)
  BY SizesAssumption, FS_Interval
<1>2. IsFiniteSet(J)
  BY <1>1, FS_Subset
<1>3. Cardinality(J) \in Nat
  BY <1>2, FS_CardinalityType
<1>4. Flushed(s) = IF s.len = 0 THEN 0 ELSE Cardinality(J)
  BY DEF Flushed
<1>5. s.len \in Nat
  BY DEF Stream
<1> HIDE DEF J
<1> QED
  BY <1>3, <1>4, <1>5

\* What is flushed is data, so there is a send buffer to retransmit from.
LEMMA FlushPreserves ==
  ASSUME NEW s \in Stream, StreamInv(s), s.on_hash_table,
         s.state \in FlushState
  PROVE  LET u == send_data(s, Flushed(s))
         IN  /\ Preserves(s, u) /\ Preserves(s, enqueue_acklist(u))
             /\ u.on_send_list = s.on_send_list
             /\ enqueue_acklist(u).on_send_list = s.on_send_list
             /\ s.snd_nxt .. s.snd_nxt + Flushed(s) - 1 \subseteq Nat
<1> DEFINE n == Flushed(s)
           t == [s EXCEPT !.snd_nxt = @ + n]
           d == AddtoRTOList(t)
           u == send_data(s, n)
<1>1. n \in Nat /\ (n # 0 => s.len > 0)
  BY FlushedType
<1>2. u = IF n = 0 THEN s ELSE d
  BY DEF send_data
<1> HIDE DEF n
<1>3. s.snd_nxt \in Nat /\ s.snd_nxt + n \in Nat /\ s.rcv_nxt \in Nat
  BY <1>1 DEF Stream
<1>4. t \in Stream
  BY <1>3, Zenon DEF Stream
<1>5. Same(s, t) /\ t.on_send_list = s.on_send_list
  BY DEF Stream, Same, SameState, SameData, SameTimers
<1> HIDE DEF t
<1>6. /\ d \in Stream /\ SameState(t, d) /\ SameData(t, d)
      /\ d.on_timewait_list = t.on_timewait_list
  BY <1>4, AddRTOEffect
<1>7. d.on_send_list = s.on_send_list
  BY <1>4, <1>5 DEF AddtoRTOList, Stream
<1> HIDE DEF d
<1>8. n # 0 => Preserves(s, d)
  <2>1. /\ SameState(s, d) /\ SameData(s, d)
        /\ d.on_timewait_list = s.on_timewait_list
    BY <1>5, <1>6 DEF Same, SameState, SameData, SameTimers
  <2>2. s.state \in RtoState
    BY DEF RtoState, FlushState
  <2>3. n # 0 => s.sndbuf
    BY <1>1 DEF StreamInv, SendInv
  <2> QED
    BY <1>6, <2>1, <2>2, <2>3, TimerPreserves DEF SameData
<1>9. SameState(s, u) /\ Preserves(s, u) /\ u.on_send_list = s.on_send_list
  <2>1. Preserves(s, s)
    BY <1>3, HandlerEnds
  <2>2. SameState(s, s) /\ SameState(s, d)
    BY <1>5, <1>6 DEF Same, SameState
  <2> QED
    BY <1>2, <1>7, <1>8, <2>1, <2>2
<1> HIDE DEF u
<1>10. /\ Preserves(s, enqueue_acklist(u))
       /\ enqueue_acklist(u).on_send_list = s.on_send_list
  <2>1. u.on_hash_table /\ u \in Stream
    BY <1>9 DEF SameState, Preserves
  <2>2. Preserves(s, enqueue_acklist(u))
    BY <1>9, <2>1, HandlerEnds DEF Preserves
  <2> QED
    BY <1>9, <2>1, <2>2 DEF enqueue_acklist, Stream
<1>11. s.snd_nxt .. s.snd_nxt + n - 1 \subseteq Nat
  BY <1>1, <1>3
<1> QED
  BY <1>9, <1>10, <1>11 DEF u, n
-----------------------------------------------------------------------------
(* The invariant holds initially and is preserved by every step.            *)

\* A stream the first SYN has created is consistent.
LEMMA InitInv == Init => IInv
<1> SUFFICES ASSUME Init PROVE IInv
  OBVIOUS
<1> DEFINE c == [CreateTcpStream EXCEPT !.peer_wnd = MaxWnd]
           t == [c EXCEPT !.state = SYN_RCVD,
                          !.rcv_nxt = IF c.state = LISTEN THEN @ + 1 ELSE @]
<1>1. c \in Stream
  <2>1. /\ MaxWnd \in Nat /\ 0 \in Nat /\ 1 \in Nat
        /\ {} \in SUBSET (1 .. PeerData) /\ LISTEN \in State
    BY SizesAssumption DEF State
  <2> QED
    BY <2>1 DEF CreateTcpStream, Stream
<1>2. /\ c.state = LISTEN /\ c.on_hash_table /\ ~ c.on_rto
      /\ ~ c.on_timewait_list /\ c.len = 0 /\ c.recvbuf = {} /\ c.rcv_nxt = 0
  BY DEF CreateTcpStream
<1>3. cs = addto_controllist(t)
  BY DEF Init, handle_listen
<1> HIDE DEF c
<1>4. t \in Stream
  <2>1. /\ SYN_RCVD \in State
        /\ (IF c.state = LISTEN THEN c.rcv_nxt + 1 ELSE c.rcv_nxt) \in Nat
    BY <1>2 DEF State
  <2> QED
    BY <1>1, <2>1, Zenon DEF Stream
<1>5. /\ t.state = SYN_RCVD /\ t.on_hash_table = c.on_hash_table
      /\ t.on_rto = c.on_rto /\ t.on_timewait_list = c.on_timewait_list
      /\ t.len = c.len /\ t.recvbuf = c.recvbuf
      /\ t.rcv_nxt = c.rcv_nxt + 1
  BY <1>1, <1>2 DEF Stream
<1> HIDE DEF t
<1>6. TimerInv(t) /\ SendInv(t) /\ RecvInv(t)
  BY <1>2, <1>5 DEF TimerInv, SendInv, RecvInv
<1>7. Preserves(t, cs)
  <2>1. addto_controllist(t) \in Stream /\ Same(t, addto_controllist(t))
    BY <1>4, ControlEffect
  <2> QED
    BY <1>2, <1>3, <1>4, <1>5, <1>6, <2>1, SamePreserves DEF StreamInv
<1>8. TypeOK
  BY <1>7 DEF Init, TypeOK, Preserves
<1> QED
  BY <1>7, <1>8 DEF Init, IInv, Preserves

\* A step that keeps the stream consistent, or stops the process on an
\* assertion, preserves the invariant.
LEMMA StepInv ==
  ASSUME IInv, cs' \in Stream, StreamInv(cs'),
         abort' = "none" => LinkInv(cs'),
         cs.state = CLOSED => cs'.state = CLOSED,
         destroyq' \in BOOLEAN, acceptq' \in BOOLEAN,
         sent' \subseteq Nat, npkts' \in Nat,
         app' = "destroying" \/ destroyq' =>
           app = "destroying" \/ destroyq \/ cs'.state = CLOSED,
         app' \in {"none", "open", "sending", "closing", "destroying", "closed"},
         pc' \in {"timer", "sendq", "closeq", "destroyq", "control", "ack",
                  "data", "unlist", "io"},
         abort' \in {"none", "HandleRTO", "addto_sendlist",
                     "DestroyTcpStream", "flush_sendbuffer"},
         pc' = "unlist" => cs'.on_send_list
  PROVE  IInv'
<1>1. TypeOK'
  BY DEF TypeOK
<1>2. app' = "destroying" \/ destroyq' => cs'.state = CLOSED
  BY DEF IInv
<1> QED
  BY <1>1, <1>2 DEF IInv

\* The part of a step that is about the stream.
Good == /\ cs' \in Stream /\ StreamInv(cs')
        /\ abort' = "none" => LinkInv(cs')
        /\ cs'.rcv_nxt >= cs.rcv_nxt
        /\ cs.state = CLOSED => cs'.state = CLOSED

\* An operation that preserves the invariant is a good step.
LEMMA PreservesGood == Preserves(cs, cs') => Good
  BY DEF Preserves, Good

\* A step that leaves the stream alone is a good step.
LEMMA UnchangedGood == IInv /\ abort = "none" /\ cs' = cs => Good
<1> SUFFICES ASSUME IInv, abort = "none", cs' = cs PROVE Good
  OBVIOUS
<1>1. cs.rcv_nxt \in Nat
  BY DEF IInv, TypeOK, Stream
<1> QED
  BY <1>1 DEF IInv, TypeOK, Good

\* Every step of the stack thread, whether it processes a segment or a stage
\* of its loop.
LEMMA StackInv ==
  ASSUME IInv, StackLoop \/ Network
  PROVE  IInv' /\ cs'.rcv_nxt >= cs.rcv_nxt
<1>0. /\ cs \in Stream /\ StreamInv(cs) /\ (abort = "none" => LinkInv(cs))
      /\ acceptq \in BOOLEAN /\ destroyq \in BOOLEAN /\ sent \subseteq Nat
      /\ npkts \in Nat /\ cs.rcv_nxt \in Nat /\ cs.on_hash_table \in BOOLEAN
      /\ cs.on_control_list \in BOOLEAN /\ cs.on_send_list \in BOOLEAN
      /\ cs.on_ack_list \in BOOLEAN
  BY DEF IInv, TypeOK, Stream
<1>1. CASE NoFlows
  <2>1. Good
    BY <1>1, UnchangedGood DEF NoFlows, Stage
  <2> QED
    BY <1>0, <1>1, <2>1, StepInv DEF NoFlows, Stage, Good, IInv, TypeOK
<1>2. ASSUME NEW rto \in BOOLEAN, NEW idle \in BOOLEAN, CheckTimers(rto, idle)
      PROVE  IInv' /\ cs'.rcv_nxt >= cs.rcv_nxt
  <2>1. LinkInv(cs) /\ (rto => cs.on_rto)
    BY <1>0, <1>2 DEF CheckTimers, Stage
  <2>2. Preserves(cs, cs')
    BY <1>0, <1>2, <2>1, TimersPreserve DEF CheckTimers
  <2>3. Good
    BY <2>2, PreservesGood
  <2> QED
    BY <1>0, <1>2, <2>3, StepInv
       DEF CheckTimers, Stage, Assert, Good, IInv, TypeOK
<1>3. CASE HandleSendq
  <2> DEFINE t == [cs EXCEPT !.on_sendq = FALSE]
             u == addto_sendlist(t)
  <2>1. abort = "none" /\ LinkInv(cs)
    BY <1>0, <1>3 DEF HandleSendq, Stage
  <2>2. cs' = IF cs.on_sendq THEN u ELSE cs
    BY <1>3 DEF HandleSendq
  <2>3. u \in Stream
    <3>1. t \in Stream
      BY <1>0, Zenon DEF Stream
    <3> HIDE DEF t
    <3> QED
      BY <3>1, Zenon DEF Stream, addto_sendlist
  <2>4. Same(cs, u)
    BY <1>0 DEF Stream, Same, SameState, SameData, SameTimers, addto_sendlist
  <2> HIDE DEF t, u
  <2>5. TimerInv(u) /\ SendInv(u) /\ RecvInv(u)
    BY <1>0, <2>4 DEF Same, SameState, SameData, SameTimers,
                      StreamInv, TimerInv, SendInv, RecvInv
  <2>6. cs.sndbuf => cs.on_hash_table /\ LinkInv(u)
    BY <1>0, <2>4 DEF StreamInv, TimerInv, LinkInv, Same, SameState
  <2>7. cs.on_sendq /\ abort' = "none" => cs.sndbuf
    BY <1>3 DEF HandleSendq, Assert
  <2>8. u.rcv_nxt = cs.rcv_nxt /\ u.state = cs.state
    BY <2>4 DEF Same, SameState, SameData
  <2>9. Good
    BY <1>0, <2>1, <2>2, <2>3, <2>5, <2>6, <2>7, <2>8 DEF Good, StreamInv
  <2> QED
    BY <1>0, <1>3, <2>9, StepInv
       DEF HandleSendq, Stage, Assert, Good, IInv, TypeOK
<1>4. CASE HandleCloseq
  <2>1. LinkInv(cs)
    BY <1>0, <1>4 DEF HandleCloseq, Stage
  <2>2. Preserves(cs, CloseStream(cs)) /\ Preserves(cs, cs)
    BY <1>0, <2>1, ClosePreserves DEF Preserves
  <2>3. Good
    BY <1>4, <2>2, PreservesGood DEF HandleCloseq
  <2> QED
    BY <1>0, <1>4, <2>3, StepInv DEF HandleCloseq, Stage, Good, IInv, TypeOK
<1>5. CASE HandleDestroyq
  <2>1. LinkInv(cs) /\ (destroyq => cs.state = CLOSED)
    BY <1>0, <1>5 DEF HandleDestroyq, Stage, IInv
  <2>2. /\ destroyq => Preserves(cs, DestroyTcpStream(cs))
        /\ Preserves(cs, cs)
    BY <1>0, <2>1, DestroyClosedPreserves DEF Preserves
  <2>3. Good
    BY <1>5, <2>2, PreservesGood DEF HandleDestroyq
  <2> QED
    BY <1>0, <1>5, <2>3, StepInv
       DEF HandleDestroyq, Stage, Assert, Good, IInv, TypeOK
<1>6. CASE WriteControllist
  <2> DEFINE s == [cs EXCEPT !.on_control_list = FALSE]
  <2>1. LinkInv(cs)
    BY <1>0, <1>6 DEF WriteControllist, Stage
  <2>2. \/ /\ cs.on_control_list /\ cs' = send_controlpkt(s)
           /\ sent' = sent \cup ControlSeqs(s)
        \/ cs' = cs /\ sent' = sent
    BY <1>6 DEF WriteControllist
  <2>3. s \in Stream
    BY <1>0, Zenon DEF Stream
  <2>4. Same(cs, s)
    BY <1>0 DEF Stream, Same, SameState, SameData, SameTimers
  <2> HIDE DEF s
  <2>5. ASSUME cs.on_control_list
        PROVE  /\ Preserves(cs, send_controlpkt(s))
               /\ ControlSeqs(s) \subseteq Nat
    <3>1. cs.on_hash_table
      BY <2>1, <2>5 DEF LinkInv, Unlinked
    <3>2. Preserves(cs, s) /\ s.on_hash_table
      BY <1>0, <2>3, <2>4, <3>1, SamePreserves DEF Same, SameState
    <3>3. Preserves(s, send_controlpkt(s)) /\ ControlSeqs(s) \subseteq Nat
      BY <2>3, <3>2, ControlPktPreserves DEF Preserves
    <3>4. s.rcv_nxt = cs.rcv_nxt /\ s.state = cs.state
      BY <2>4 DEF Same, SameState, SameData
    <3> QED
      BY <3>3, <3>4 DEF Preserves
  <2>6. Preserves(cs, cs)
    BY <1>0, <2>1 DEF Preserves
  <2>7. Good /\ sent' \subseteq Nat
    BY <1>0, <2>2, <2>5, <2>6, PreservesGood
  <2> QED
    BY <1>0, <1>6, <2>7, StepInv
       DEF WriteControllist, Stage, Good, IInv, TypeOK
<1>7. CASE WriteAcklist
  <2> DEFINE s == [cs EXCEPT !.on_ack_list = FALSE]
  <2>1. LinkInv(cs)
    BY <1>0, <1>7 DEF WriteAcklist, Stage
  <2>2. cs' = IF cs.on_ack_list THEN EndWaiting(s) ELSE cs
    BY <1>7 DEF WriteAcklist
  <2>3. s \in Stream
    BY <1>0, Zenon DEF Stream
  <2>4. Same(cs, s)
    BY <1>0 DEF Stream, Same, SameState, SameData, SameTimers
  <2> HIDE DEF s
  <2>5. ASSUME cs.on_ack_list PROVE Preserves(cs, EndWaiting(s))
    <3>1. cs.on_hash_table
      BY <2>1, <2>5 DEF LinkInv, Unlinked
    <3>2. Preserves(cs, s) /\ s.on_hash_table
      BY <1>0, <2>3, <2>4, <3>1, SamePreserves DEF Same, SameState
    <3>3. Preserves(s, EndWaiting(s))
      BY <2>3, <3>2, EndWaitingPreserves DEF Preserves
    <3>4. s.rcv_nxt = cs.rcv_nxt /\ s.state = cs.state
      BY <2>4 DEF Same, SameState, SameData
    <3> QED
      BY <3>3, <3>4 DEF Preserves
  <2>6. Preserves(cs, cs)
    BY <1>0, <2>1 DEF Preserves
  <2>7. Good
    BY <1>0, <2>2, <2>5, <2>6, PreservesGood
  <2> QED
    BY <1>0, <1>7, <2>7, StepInv DEF WriteAcklist, Stage, Good, IInv, TypeOK
<1>8. ASSUME NEW wack \in BOOLEAN, FlushSendbuffer(wack)
      PROVE  IInv' /\ cs'.rcv_nxt >= cs.rcv_nxt
  <2> DEFINE u == send_data(cs, Flushed(cs))
  <2>1. /\ cs.on_send_list /\ cs.state \in FlushState
        /\ cs' \in {u, enqueue_acklist(u)}
        /\ sent' = sent \cup (cs.snd_nxt .. cs.snd_nxt + Flushed(cs) - 1)
    BY <1>8 DEF FlushSendbuffer
  <2>2. cs.on_hash_table
    BY <1>0, <1>8, <2>1 DEF FlushSendbuffer, Stage, LinkInv, Unlinked
  <2>3. /\ Preserves(cs, u) /\ Preserves(cs, enqueue_acklist(u))
        /\ u.on_send_list = cs.on_send_list
        /\ enqueue_acklist(u).on_send_list = cs.on_send_list
        /\ cs.snd_nxt .. cs.snd_nxt + Flushed(cs) - 1 \subseteq Nat
    BY <1>0, <2>1, <2>2, FlushPreserves
  <2> HIDE DEF u
  <2>4. Good /\ cs'.on_send_list /\ sent' \subseteq Nat
    BY <1>0, <2>1, <2>3, PreservesGood
  <2> QED
    BY <1>0, <1>8, <2>4, StepInv
       DEF FlushSendbuffer, Stage, Assert, Good, IInv, TypeOK
<1>9. CASE SkipSendlist
  <2>1. Good
    BY <1>9, UnchangedGood DEF SkipSendlist, Stage
  <2> QED
    BY <1>0, <1>9, <2>1, StepInv DEF SkipSendlist, Stage, Good, IInv, TypeOK
<1>10. CASE LeaveSendlist
  <2> DEFINE s == [cs EXCEPT !.on_send_list = FALSE]
  <2>1. cs.on_hash_table
    BY <1>0, <1>10 DEF LeaveSendlist, Stage, IInv, LinkInv, Unlinked
  <2>2. cs' = EndWaiting(s)
    BY <1>10 DEF LeaveSendlist
  <2>3. s \in Stream
    BY <1>0, Zenon DEF Stream
  <2>4. Same(cs, s)
    BY <1>0 DEF Stream, Same, SameState, SameData, SameTimers
  <2> HIDE DEF s
  <2>5. Preserves(cs, s) /\ s.on_hash_table
    BY <1>0, <2>1, <2>3, <2>4, SamePreserves DEF Same, SameState
  <2>6. Preserves(s, EndWaiting(s))
    BY <2>3, <2>5, EndWaitingPreserves DEF Preserves
  <2>7. s.rcv_nxt = cs.rcv_nxt /\ s.state = cs.state
    BY <2>4 DEF Same, SameState, SameData
  <2>8. Preserves(cs, cs')
    BY <2>2, <2>6, <2>7 DEF Preserves
  <2>9. Good
    BY <2>8, PreservesGood
  <2> QED
    BY <1>0, <1>10, <2>9, StepInv DEF LeaveSendlist, Stage, Good, IInv, TypeOK
<1>11. CASE NoReceive
  <2>1. Good
    BY <1>11, UnchangedGood DEF NoReceive, Stage
  <2> QED
    BY <1>0, <1>11, <2>1, StepInv DEF NoReceive, Stage, Good, IInv, TypeOK
<1>12. ASSUME NEW p \in Segments, NEW full \in BOOLEAN, Receive(p, full)
       PROVE  IInv' /\ cs'.rcv_nxt >= cs.rcv_nxt
  <2>1. /\ cs.on_hash_table
        /\ cs' = nty_tcp_process(CheckTimestamp(cs, p), p, full)
        /\ npkts' = npkts + 1
    BY <1>12 DEF Receive
  <2>2. Preserves(cs, cs')
    BY <1>0, <1>12, <2>1, SegmentsSane, ProcessPreserves
  <2>3. Good /\ npkts' \in Nat
    BY <1>0, <2>1, <2>2, PreservesGood
  <2>4. acceptq' \in BOOLEAN
    BY <1>12 DEF Receive
  <2> QED
    BY <1>0, <1>12, <2>3, <2>4, StepInv DEF Receive, Stage, Good, IInv, TypeOK
<1> QED
  BY <1>1, <1>2, <1>3, <1>4, <1>5, <1>6, <1>7, <1>8, <1>9, <1>10, <1>11,
     <1>12 DEF StackLoop, Network

\* Every step of the application thread.
LEMMA AppInv ==
  ASSUME IInv, Application
  PROVE  IInv' /\ cs'.rcv_nxt >= cs.rcv_nxt
<1>0. /\ cs \in Stream /\ StreamInv(cs)
      /\ acceptq \in BOOLEAN /\ destroyq \in BOOLEAN /\ sent \subseteq Nat
      /\ npkts \in Nat /\ cs.rcv_nxt \in Nat
  BY DEF IInv, TypeOK, Stream
<1>1. /\ abort = "none" /\ abort' = abort /\ pc' = pc /\ sent' = sent
      /\ npkts' = npkts /\ LinkInv(cs)
  BY DEF Application, Accept, SendCopy, SendEnqueue, CloseCheck, CloseEnqueue,
         DestroyEnqueue, AppStep, IInv
\* a step that touches only what the invariant does not speak of
<1>2. ASSUME cs' \in Stream, Same(cs, cs'), Unlinked(cs) => Unlinked(cs'),
             cs'.on_send_list = cs.on_send_list
      PROVE  Good /\ cs'.on_send_list = cs.on_send_list
  <2>1. TimerInv(cs') /\ SendInv(cs') /\ RecvInv(cs')
    BY <1>0, <1>2 DEF Same, SameState, SameData, SameTimers, StreamInv,
                      TimerInv, SendInv, RecvInv
  <2>2. cs'.rcv_nxt = cs.rcv_nxt /\ cs'.state = cs.state /\ LinkInv(cs')
    BY <1>1, <1>2 DEF Same, SameState, SameData, LinkInv
  <2> QED
    BY <1>0, <1>2, <2>1, <2>2 DEF Good, StreamInv
<1>3. CASE Accept
  <2>1. Good
    BY <1>1, <1>3, UnchangedGood DEF Accept
  <2> QED
    BY <1>0, <1>1, <1>3, <2>1, StepInv DEF Accept, AppStep, Good, IInv, TypeOK
<1>4. CASE SendCopy
  <2> DEFINE u == [cs EXCEPT !.sndbuf = TRUE, !.len = @ + 1]
  <2>1. cs' = u /\ cs.state \in {ESTABLISHED, CLOSE_WAIT}
    BY <1>4 DEF SendCopy
  <2>2. cs.len + 1 \in Nat /\ cs.on_hash_table
    BY <1>0, <2>1 DEF Stream, StreamInv, TimerInv
  <2>3. u \in Stream
    BY <1>0, <2>2, Zenon DEF Stream
  <2>4. /\ SameState(cs, u) /\ SameTimers(cs, u) /\ u.sndbuf
        /\ u.recvbuf = cs.recvbuf /\ u.rcv_nxt = cs.rcv_nxt
        /\ u.on_send_list = cs.on_send_list
    BY <1>0 DEF Stream, SameState, SameTimers
  <2> HIDE DEF u
  <2>5. TimerInv(u) /\ SendInv(u) /\ RecvInv(u)
    BY <1>0, <2>1, <2>2, <2>4 DEF SameState, SameTimers, StreamInv,
                                  TimerInv, SendInv, RecvInv
  <2>6. Good
    BY <1>0, <2>1, <2>2, <2>3, <2>4, <2>5
       DEF Good, StreamInv, LinkInv, SameState
  <2> QED
    BY <1>0, <1>1, <1>4, <2>1, <2>4, <2>6, StepInv
       DEF SendCopy, AppStep, Good, IInv, TypeOK
<1>5. CASE SendEnqueue
  <2> DEFINE u == [cs EXCEPT !.on_sendq = @ \/ ~ cs.on_send_list]
  <2>1. cs' = u
    BY <1>5 DEF SendEnqueue
  <2>2. (cs.on_sendq \/ ~ cs.on_send_list) \in BOOLEAN
    OBVIOUS
  <2>3. u \in Stream
    BY <1>0, <2>2, Zenon DEF Stream
  <2>4. /\ Same(cs, u) /\ u.on_send_list = cs.on_send_list
        /\ Unlinked(cs) => Unlinked(u)
    BY <1>0 DEF Stream, Same, SameState, SameData, SameTimers, Unlinked
  <2> HIDE DEF u
  <2>5. Good /\ cs'.on_send_list = cs.on_send_list
    BY <1>2, <2>1, <2>3, <2>4
  <2> QED
    BY <1>0, <1>1, <1>5, <2>5, StepInv
       DEF SendEnqueue, AppStep, Good, IInv, TypeOK
<1>6. CASE CloseCheck
  <2> DEFINE u == [cs EXCEPT !.closed = TRUE]
  <2>1. cs' = u
    BY <1>6 DEF CloseCheck
  <2>2. u \in Stream
    BY <1>0, Zenon DEF Stream
  <2>3. /\ Same(cs, u) /\ u.on_send_list = cs.on_send_list
        /\ Unlinked(cs) => Unlinked(u)
    BY <1>0 DEF Stream, Same, SameState, SameData, SameTimers, Unlinked
  <2> HIDE DEF u
  <2>4. Good /\ cs'.on_send_list = cs.on_send_list
    BY <1>2, <2>1, <2>2, <2>3
  <2>5. cs'.state = cs.state
    BY <2>1, <2>3 DEF Same, SameState
  <2>6. /\ app' = "destroying" => cs'.state = CLOSED
        /\ app' \in {"destroying", "closing", "closed"}
        /\ acceptq' = acceptq /\ destroyq' = destroyq
    BY <1>6, <2>5 DEF CloseCheck, AppStep
  <2> QED
    BY <1>0, <1>1, <2>4, <2>6, StepInv DEF Good, IInv, TypeOK
<1>7. CASE CloseEnqueue
  <2> DEFINE u == [cs EXCEPT !.on_closeq = TRUE]
  <2>1. cs' = u
    BY <1>7 DEF CloseEnqueue
  <2>2. u \in Stream
    BY <1>0, Zenon DEF Stream
  <2>3. /\ Same(cs, u) /\ u.on_send_list = cs.on_send_list
        /\ Unlinked(cs) => Unlinked(u)
    BY <1>0 DEF Stream, Same, SameState, SameData, SameTimers, Unlinked
  <2> HIDE DEF u
  <2>4. Good /\ cs'.on_send_list = cs.on_send_list
    BY <1>2, <2>1, <2>2, <2>3
  <2> QED
    BY <1>0, <1>1, <1>7, <2>4, StepInv
       DEF CloseEnqueue, AppStep, Good, IInv, TypeOK
<1>8. CASE DestroyEnqueue
  <2>1. Good
    BY <1>1, <1>8, UnchangedGood DEF DestroyEnqueue
  <2> QED
    BY <1>0, <1>1, <1>8, <2>1, StepInv
       DEF DestroyEnqueue, AppStep, Good, IInv, TypeOK
<1> QED
  BY <1>3, <1>4, <1>5, <1>6, <1>7, <1>8 DEF Application

\* Every step preserves the invariant and never moves rcv_nxt back.
LEMMA NextInv ==
  ASSUME IInv, [Next]_vars
  PROVE  IInv' /\ (cs' = cs \/ cs'.rcv_nxt >= cs.rcv_nxt)
<1>1. CASE Next
  BY <1>1, StackInv, AppInv DEF Next
<1>2. CASE UNCHANGED vars
  <2>1. /\ cs' = cs /\ acceptq' = acceptq /\ destroyq' = destroyq
        /\ app' = app /\ pc' = pc /\ sent' = sent /\ npkts' = npkts
        /\ abort' = abort
    BY <1>2 DEF vars
  <2>2. TypeOK'
    BY <2>1 DEF IInv, TypeOK
  <2> QED
    BY <2>1, <2>2 DEF IInv
<1> QED
  BY <1>1, <1>2
-----------------------------------------------------------------------------
(* The theorems.                                                            *)

\* The invariant is inductive, whatever the amounts of data and the windows,
\* and however often segments are repeated and timers expire.
THEOREM StreamInductive == Spec => []IInv
<1>1. Init => IInv
  BY InitInv
<1>2. IInv /\ [Next]_vars => IInv'
  BY NextInv
<1> QED
  BY <1>1, <1>2, PTL DEF Spec

\* The handlers, timers and API calls keep every field of the stream in its
\* type: no sequence number and no length of the send buffer underflows.
THEOREM StreamTypeCorrect == Spec => []TypeOK
<1>1. IInv => TypeOK
  BY DEF IInv
<1> QED
  BY <1>1, StreamInductive, PTL

\* AddtoTimewaitList and the retransmission timer never link a stream twice
\* through timer_link.
THEOREM TimerLinkExclusiveHolds == Spec => []TimerLinkExclusive
<1>1. IInv => TimerLinkExclusive
  BY DEF IInv, StreamInv, TimerInv, TimerLinkExclusive, RtoState
<1> QED
  BY <1>1, StreamInductive, PTL

\* HandleRTO is only reached in a state it implements and, where it resends
\* data, with a send buffer: its assertions hold.
THEOREM RtoIsImplementedHolds == Spec => []RtoIsImplemented
<1>1. IInv => RtoIsImplemented
  BY DEF IInv, StreamInv, TimerInv, RtoIsImplemented
<1> QED
  BY <1>1, StreamInductive, PTL

\* Every way into TIME_WAIT puts the stream on the timewait list, and it stays
\* there until CheckTimewaitExpire destroys it.
THEOREM TimeWaitIsReclaimedHolds == Spec => []TimeWaitIsReclaimed
<1>1. IInv => TimeWaitIsReclaimed
  BY DEF IInv, StreamInv, TimerInv, TimeWaitIsReclaimed
<1> QED
  BY <1>1, StreamInductive, PTL

\* A stream DestroyTcpStream has freed is on no list of the stack thread.
THEOREM DestroyedIsUnlinkedHolds == Spec => []DestroyedIsUnlinked
<1>1. IInv => DestroyedIsUnlinked
  BY DEF IInv, LinkInv, Unlinked, DestroyedIsUnlinked
<1> QED
  BY <1>1, StreamInductive, PTL

\* In whatever order the peer's segments arrive, and however often, its FIN
\* moves the stream on only after all of its data.
THEOREM FinAfterAllDataHolds == Spec => []FinAfterAllData
<1>1. IInv => FinAfterAllData
  BY DEF IInv, StreamInv, RecvInv, FinAfterAllData
<1> QED
  BY <1>1, StreamInductive, PTL

\* No step moves the acknowledgment number back.
THEOREM RcvNxtMonotoneHolds == Spec => RcvNxtMonotone
<1>1. IInv /\ [Next]_vars => [cs'.rcv_nxt >= cs.rcv_nxt]_vars
  <2> SUFFICES ASSUME IInv, [Next]_vars
               PROVE  cs'.rcv_nxt >= cs.rcv_nxt
    OBVIOUS
  <2>1. cs.rcv_nxt \in Nat
    BY DEF IInv, TypeOK, Stream
  <2>2. cs' = cs \/ cs'.rcv_nxt >= cs.rcv_nxt
    BY NextInv
  <2> QED
    BY <2>1, <2>2
<1> QED
  BY <1>1, StreamInductive, PTL DEF Spec, RcvNxtMonotone
-----------------------------------------------------------------------------
(***************************************************************************)
(* The sending side of a connection and its close: flush_sendbuffer never  *)
(* starts behind what the peer has acknowledged, a close that waits for a  *)
(* list is served, and an active close is over only when the peer has      *)
(* everything.                                                             *)
(***************************************************************************)

\* the states after the application's close
ClosingState == {FIN_WAIT_1, FIN_WAIT_2, CLOSING, LAST_ACK, TIME_WAIT}

\* The sequence numbers of a stream, when w has been on the wire.  snd_nxt and
\* snd_una follow head_seq; the FIN comes right after the data; without a send
\* buffer nothing was sent; and what an active close waits for was sent.
SeqInv(s, w) ==
    /\ s.state = SYN_RCVD =>
         /\ s.snd_una = 0 /\ s.head_seq = 1 /\ s.len = 0 /\ ~ s.sndbuf
         /\ w \subseteq {0}
    /\ s.on_hash_table /\ s.state # SYN_RCVD =>
         s.snd_una >= s.head_seq /\ s.snd_nxt >= s.head_seq
    /\ s.state \in {ESTABLISHED, CLOSE_WAIT} /\ ~ s.sndbuf =>
         s.snd_nxt = s.head_seq /\ s.len = 0
    /\ s.state \in {FIN_WAIT_1, CLOSING, LAST_ACK} => s.head_seq + s.len = s.fss
    /\ s.state \in {FIN_WAIT_2, TIME_WAIT} => s.len = 0 /\ 0 .. s.fss \subseteq w

\* A close waits for a list the stream is on.
WaitInv(s) ==
    s.on_hash_table /\ s.control_list_waiting => s.on_send_list \/ s.on_ack_list

\* A stream on the send list has a send buffer.
FlushInv(s) == s.on_send_list => s.sndbuf

\* Only close() leads to the closing states, and it is called once.
CloseInv ==
    /\ cs.state \in ClosingState => ~ cs.on_closeq /\ app = "closed"
    /\ cs.on_closeq => app = "closed"

SendingInv ==
    /\ SeqInv(cs, sent)
    /\ WaitInv(cs)
    /\ abort = "none" => FlushInv(cs)
    /\ CloseInv

\* What a handler that turns stream s into u has to guarantee.
Keeps(s, u, w) ==
    /\ SeqInv(u, w)
    /\ WaitInv(u)
    /\ FlushInv(s) => FlushInv(u)
    /\ u.on_closeq = s.on_closeq
    /\ u.state \in ClosingState => s.state \in ClosingState
-----------------------------------------------------------------------------
(* What the basic operations leave alone.                                   *)

SameSnd(s, u) ==
    /\ u.snd_nxt = s.snd_nxt /\ u.snd_una = s.snd_una
    /\ u.head_seq = s.head_seq /\ u.len = s.len /\ u.sndbuf = s.sndbuf
    /\ u.fss = s.fss /\ u.is_fin_sent = s.is_fin_sent

SameLists(s, u) ==
    /\ u.on_send_list = s.on_send_list
    /\ u.control_list_waiting = s.control_list_waiting
    /\ u.on_closeq = s.on_closeq
    /\ s.on_ack_list => u.on_ack_list

\* The stream moves to state st, and its sending side is left alone.
Moved(s, u, st) ==
    /\ u.state = st /\ u.on_hash_table = s.on_hash_table
    /\ SameSnd(s, u) /\ SameLists(s, u)

Quiet(s, u) == Moved(s, u, s.state)

LEMMA MovedCompose ==
  ASSUME NEW s, NEW t, NEW u, NEW x, NEW y, Moved(s, t, x), Moved(t, u, y)
  PROVE  Moved(s, u, y)
  BY DEF Moved, SameSnd, SameLists

LEMMA QuietOperations ==
  ASSUME NEW s \in Stream
  PROVE  /\ Quiet(s, s)
         /\ Quiet(s, addto_controllist(s))
         /\ Quiet(s, enqueue_acklist(s))
         /\ Quiet(s, RemoveFromRTOList(s))
         /\ Quiet(s, AddtoRTOList(s))
         /\ Quiet(s, UpdateRetransmissionTimer(s))
<1>1. Quiet(s, s)
  BY DEF Quiet, Moved, SameSnd, SameLists
<1>2. Quiet(s, addto_controllist(s))
  BY DEF Quiet, Moved, SameSnd, SameLists, Stream, addto_controllist
<1>3. Quiet(s, enqueue_acklist(s))
  BY DEF Quiet, Moved, SameSnd, SameLists, Stream, enqueue_acklist
<1>4. Quiet(s, RemoveFromRTOList(s))
  BY DEF Quiet, Moved, SameSnd, SameLists, Stream, RemoveFromRTOList
<1>5. Quiet(s, AddtoRTOList(s))
  BY DEF Quiet, Moved, SameSnd, SameLists, Stream, AddtoRTOList
<1>6. Quiet(s, UpdateRetransmissionTimer(s))
  BY DEF Quiet, Moved, SameSnd, SameLists, Stream, UpdateRetransmissionTimer
<1> QED
  BY <1>1, <1>2, <1>3, <1>4, <1>5, <1>6

LEMMA QuietTimewait ==
  ASSUME NEW s \in Stream
  PROVE  /\ Quiet(s, AddtoTimewaitList(s))
         /\ Quiet(s, RestartTimewait(s))
<1>1. ASSUME NEW x \in Stream PROVE Quiet(x, AddtoTimewaitList(x))
  <2> DEFINE t == RemoveFromRTOList(x)
             u == [t EXCEPT !.on_timewait_list = TRUE]
  <2>1. t \in Stream /\ Quiet(x, t)
    BY RemoveRTOEffect, QuietOperations
  <2> HIDE DEF t
  <2>2. Quiet(t, u)
    BY <2>1 DEF Quiet, Moved, SameSnd, SameLists, Stream
  <2>3. Quiet(x, x)
    BY QuietOperations
  <2>4. AddtoTimewaitList(x) \in {x, u}
    BY DEF AddtoTimewaitList, t
  <2> HIDE DEF u
  <2>5. Quiet(x, u)
    BY <2>1, <2>2 DEF Quiet, Moved, SameSnd, SameLists
  <2> QED
    BY <2>3, <2>4, <2>5
<1>2. Quiet(s, RestartTimewait(s))
  <2> DEFINE t == [s EXCEPT !.on_timewait_list = FALSE]
             u == AddtoTimewaitList(t)
  <2>1. t \in Stream
    BY Zenon DEF Stream
  <2>2. Quiet(s, t)
    BY DEF Quiet, Moved, SameSnd, SameLists, Stream
  <2>3. RestartTimewait(s) \in {s, u}
    BY DEF RestartTimewait
  <2> HIDE DEF t
  <2>4. Quiet(t, u)
    BY <1>1, <2>1
  <2> HIDE DEF u
  <2>5. Quiet(s, u) /\ Quiet(s, s)
    BY <2>2, <2>4, QuietOperations DEF Quiet, Moved, SameSnd, SameLists
  <2> QED
    BY <2>3, <2>5
<1> QED
  BY <1>1, <1>2

LEMMA QuietPayload ==
  ASSUME NEW s \in Stream, NEW p, Sane(p)
  PROVE  Quiet(s, TakePayload(s, p))
<1> DEFINE r == s.recvbuf \cup {p.seq}
           g == FirstGap(r)
           t == [s EXCEPT !.recvbuf = r, !.rcv_nxt = g]
<1>1. \/ TakePayload(s, p) \in {s, enqueue_acklist(s)}
      \/ p.len > 0 /\ TakePayload(s, p) = enqueue_acklist(t)
  BY DEF TakePayload, process_payload
<1>2. Quiet(s, s) /\ Quiet(s, enqueue_acklist(s))
  BY QuietOperations
<1>3. ASSUME p.len > 0 PROVE Quiet(s, enqueue_acklist(t))
  <2>1. s.recvbuf \in SUBSET (1 .. PeerData)
    BY DEF Stream
  <2>2. r \in SUBSET (1 .. PeerData)
    BY <1>3, <2>1 DEF Sane
  <2>3. g \in Nat
    BY <2>2, FirstGapType
  <2> HIDE DEF r, g
  <2>4. t \in Stream
    BY <2>2, <2>3, Zenon DEF Stream
  <2>5. Quiet(s, t)
    BY DEF Quiet, Moved, SameSnd, SameLists, Stream
  <2> HIDE DEF t
  <2>6. Quiet(t, enqueue_acklist(t))
    BY <2>4, QuietOperations
  <2> QED
    BY <2>5, <2>6 DEF Quiet, Moved, SameSnd, SameLists
<1> HIDE DEF t
<1> QED
  BY <1>1, <1>2, <1>3

LEMMA MovedFin ==
  ASSUME NEW s \in Stream, NEW st
  PROVE  Moved(s, TakeFin(s, st), st) /\ Moved(s, [s EXCEPT !.state = st], st)
  BY DEF Moved, SameSnd, SameLists, Stream, TakeFin

\* The moves that keep the sending side consistent.
LEMMA MovedKeeps ==
  ASSUME NEW s \in Stream, NEW u, NEW w, NEW st, SeqInv(s, w), WaitInv(s),
         Moved(s, u, st),
         \/ st = s.state
         \/ st = CLOSED /\ s.state # SYN_RCVD
         \/ s.state = ESTABLISHED /\ st = CLOSE_WAIT
         \/ s.state = FIN_WAIT_1 /\ st = CLOSING
         \/ s.state = FIN_WAIT_2 /\ st = TIME_WAIT
  PROVE  Keeps(s, u, w)
<1>1. SeqInv(u, w)
  BY DEF SeqInv, Moved, SameSnd
<1>2. WaitInv(u)
  BY DEF WaitInv, Moved, SameLists
<1>3. FlushInv(s) => FlushInv(u)
  BY DEF FlushInv, Moved, SameSnd, SameLists
<1> QED
  BY <1>1, <1>2, <1>3 DEF Keeps, Moved, SameLists, ClosingState

LEMMA KeepsCompose ==
  ASSUME NEW s, NEW t, NEW u, NEW w, Keeps(s, t, w), Keeps(t, u, w)
  PROVE  Keeps(s, u, w)
  BY DEF Keeps

LEMMA KeepsQuiet ==
  ASSUME NEW s, NEW t \in Stream, NEW u, NEW w, Keeps(s, t, w), Quiet(t, u)
  PROVE  Keeps(s, u, w)
<1>1. Keeps(t, u, w)
  BY MovedKeeps DEF Keeps, Quiet
<1> QED
  BY <1>1, KeepsCompose

\* A destroyed stream has nothing to send.
LEMMA DestroyKeeps ==
  ASSUME NEW s \in Stream, NEW w
  PROVE  /\ s.state = CLOSED => Keeps(s, DestroyTcpStream(s), w)
         /\ Keeps(s, CloseAndDestroy(s), w)
<1>1. ASSUME NEW x \in Stream, x.state = CLOSED
      PROVE  Keeps(x, DestroyTcpStream(x), w)
  <2> DEFINE u == DestroyTcpStream(x)
  <2>1. /\ u.state = CLOSED /\ ~ u.on_hash_table /\ ~ u.on_send_list
        /\ u.on_closeq = x.on_closeq
    BY <1>1 DEF DestroyTcpStream, Stream
  <2> HIDE DEF u
  <2>2. Keeps(x, u, w)
    BY <2>1 DEF Keeps, SeqInv, WaitInv, FlushInv, ClosingState
  <2> QED
    BY <2>2 DEF u
<1>2. Keeps(s, CloseAndDestroy(s), w)
  <2> DEFINE t == [s EXCEPT !.state = CLOSED]
  <2>1. CLOSED \in State
    BY DEF State
  <2>2. t \in Stream
    BY <2>1, Zenon DEF Stream
  <2>3. t.state = CLOSED /\ t.on_closeq = s.on_closeq
    BY DEF Stream
  <2> HIDE DEF t
  <2>4. Keeps(t, DestroyTcpStream(t), w) /\ ~ DestroyTcpStream(t).on_send_list
    BY <1>1, <2>2, <2>3, DestroyEffect DEF Unlinked
  <2>5. Keeps(s, DestroyTcpStream(t), w)
    BY <2>3, <2>4 DEF Keeps, ClosingState, FlushInv
  <2> QED
    BY <2>5 DEF CloseAndDestroy, t
<1> QED
  BY <1>1, <1>2
-----------------------------------------------------------------------------
(* Acknowledgments.                                                         *)

\* The peer acknowledges what was on the wire.
Acks(p, w) ==
    /\ p.ack => p.ack_seq >= 1 /\ 0 .. p.ack_seq - 1 \subseteq w
    /\ ~ p.ack => p.ack_seq = 0

LEMMA SegmentsAcked == ASSUME NEW p \in Segments PROVE Acks(p, sent)
<1>1. \A a \in Ackable : a \in Nat /\ a >= 1 /\ 0 .. a - 1 \subseteq sent
  BY SizesAssumption DEF Ackable
<1>2. \/ ~ p.ack /\ p.ack_seq = 0
      \/ p.ack /\ p.ack_seq \in Ackable
  <2>1. CASE p \in { [Plain(q, a, 0, MaxWnd) EXCEPT !.old_ts = TRUE]
                       : q \in 1 .. PeerData + 2, a \in Ackable }
    <3>1. PICK q \in 1 .. PeerData + 2, a \in Ackable :
             p = [Plain(q, a, 0, MaxWnd) EXCEPT !.old_ts = TRUE]
      BY <2>1
    <3> QED
      BY <3>1 DEF Plain
  <2>2. CASE p \in { Plain(q, a, 0, w) : q \in 1 .. PeerData + 2,
                                         a \in Ackable, w \in 0 .. MaxWnd }
    BY <2>2 DEF Plain
  <2>3. CASE p \in { Plain(q, a, 1, w) : q \in 1 .. PeerData,
                                         a \in Ackable, w \in 0 .. MaxWnd }
    BY <2>3 DEF Plain
  <2>4. CASE p \in { [Plain(PeerData + 1, a, 0, MaxWnd) EXCEPT !.fin = TRUE]
                       : a \in Ackable }
    BY <2>4 DEF Plain
  <2>5. CASE p \in { [Plain(PeerData, a, 1, MaxWnd) EXCEPT !.fin = TRUE]
                       : a \in IF PeerData > 0 THEN Ackable ELSE {} }
    BY <2>5 DEF Plain
  <2>6. CASE p \in { [Plain(q, a, 0, 0) EXCEPT !.rst = TRUE]
                       : q \in 1 .. PeerData + 2, a \in Ackable }
    <3>1. PICK q \in 1 .. PeerData + 2, a \in Ackable :
             p = [Plain(q, a, 0, 0) EXCEPT !.rst = TRUE]
      BY <2>6
    <3> QED
      BY <3>1 DEF Plain
  <2>7. CASE p = [Plain(0, 0, 0, MaxWnd) EXCEPT !.syn = TRUE, !.ack = FALSE]
    BY <2>7 DEF Plain
  <2> QED
    BY <2>1, <2>2, <2>3, <2>4, <2>5, <2>6, <2>7 DEF Segments
<1> QED
  BY <1>1, <1>2 DEF Acks

\* process_ack never leaves snd_nxt or snd_una behind head_seq, and takes the
\* stream off no list: with nothing buffered there is no ack beyond snd_nxt.
LEMMA AckSeqEffect ==
  ASSUME NEW s \in Stream, NEW p \in Segment,
         s.snd_una >= s.head_seq, s.snd_nxt >= s.head_seq
  PROVE  LET u == process_ack(s, p)
         IN  /\ SameLists(s, u)
             /\ u.snd_una >= u.head_seq /\ u.snd_nxt >= u.head_seq
             /\ (/\ s.state \in {FIN_WAIT_1, CLOSING}
                 /\ AcksFin(s, p)
                 /\ s.head_seq + s.len = s.fss) => u.len = 0
<1> DEFINE a == IF /\ s.state \in {FIN_WAIT_1, FIN_WAIT_2, CLOSING,
                                   CLOSE_WAIT, LAST_ACK}
                   /\ AcksFin(s, p)
                THEN p.ack_seq - 1
                ELSE p.ack_seq
           n == a - s.head_seq
           b == s.on_send_list /\ ~(a > s.snd_nxt /\ s.len = 0)
           t == [s EXCEPT !.snd_nxt = Max2(@, a),
                          !.on_send_list = @ /\ ~(a > s.snd_nxt /\ s.len = 0)]
           v == [t EXCEPT !.cwnd = IF @ < s.ssthresh THEN @ + n ELSE @,
                          !.head_seq = a, !.len = @ - n, !.snd_una = a]
           x == UpdateRetransmissionTimer(v)
<1>1. /\ s.len \in Nat /\ s.head_seq \in Nat /\ s.fss \in Nat
      /\ s.snd_nxt \in Nat /\ s.snd_una \in Nat /\ p.ack_seq \in Nat
      /\ s.on_send_list \in BOOLEAN /\ s.cwnd \in Nat
  BY DEF Stream, Segment
<1>2. a \in Nat /\ n \in Int /\ Max2(s.snd_nxt, a) \in Nat
  BY <1>1 DEF AcksFin, Max2
<1>3. s.state \in {FIN_WAIT_1, CLOSING} /\ AcksFin(s, p) => a = s.fss
  BY <1>1 DEF AcksFin
<1>4. process_ack(s, p) = IF a > s.head_seq + s.len THEN s
                          ELSE IF n <= 0 THEN t ELSE x
  BY DEF process_ack
<1> HIDE DEF a
<1>5. CASE a > s.head_seq + s.len
  BY <1>1, <1>2, <1>3, <1>4, <1>5 DEF SameLists
<1>6. ASSUME a <= s.head_seq + s.len
      PROVE  /\ t \in Stream /\ SameLists(s, t)
             /\ t.snd_nxt = Max2(s.snd_nxt, a) /\ t.snd_una = s.snd_una
             /\ t.head_seq = s.head_seq /\ t.len = s.len /\ t.cwnd = s.cwnd
  <2>1. ~ (a > s.snd_nxt /\ s.len = 0)
    BY <1>1, <1>2, <1>6
  <2>2. b \in BOOLEAN /\ b = s.on_send_list
    BY <1>1, <2>1
  <2>3. t \in Stream
    BY <1>2, <2>2, ZenonT(40) DEF Stream
  <2> QED
    BY <2>2, <2>3 DEF Stream, SameLists
<1> HIDE DEF t
<1>7. CASE a <= s.head_seq + s.len /\ n <= 0
  <2>1. process_ack(s, p) = t
    BY <1>1, <1>2, <1>4, <1>7
  <2>2. t.snd_una >= t.head_seq /\ t.snd_nxt >= t.head_seq
    BY <1>1, <1>2, <1>6, <1>7 DEF Max2
  <2>3. a = s.fss /\ s.head_seq + s.len = s.fss => t.len = 0
    BY <1>1, <1>2, <1>6, <1>7
  <2> QED
    BY <1>3, <1>6, <1>7, <2>1, <2>2, <2>3
<1>8. CASE a <= s.head_seq + s.len /\ n > 0
  <2>1. process_ack(s, p) = x
    BY <1>1, <1>2, <1>4, <1>8
  <2>2. /\ t.len - n \in Nat
        /\ (IF t.cwnd < s.ssthresh THEN t.cwnd + n ELSE t.cwnd) \in Nat
    BY <1>1, <1>2, <1>6, <1>8
  <2>3. v \in Stream
    <3> HIDE DEF n
    <3> QED
      BY <1>2, <1>6, <1>8, <2>2, Zenon DEF Stream
  <2>4. /\ SameLists(t, v) /\ v.snd_una = a /\ v.head_seq = a
        /\ v.snd_nxt = t.snd_nxt /\ v.len = t.len - n
    <3> HIDE DEF n
    <3> QED
      BY <1>6, <1>8 DEF Stream, SameLists
  <2> HIDE DEF v
  <2>5. Quiet(v, x)
    BY <2>3, QuietOperations
  <2> HIDE DEF x
  <2>6. SameLists(s, x)
    BY <1>6, <1>8, <2>4, <2>5 DEF SameLists, Quiet, Moved
  <2>7. /\ x.snd_una = a /\ x.head_seq = a /\ x.snd_nxt = Max2(s.snd_nxt, a)
        /\ x.len = s.len - n
    BY <1>6, <1>8, <2>4, <2>5 DEF Quiet, Moved, SameSnd
  <2>8. /\ x.snd_una >= x.head_seq /\ x.snd_nxt >= x.head_seq
        /\ a = s.fss /\ s.head_seq + s.len = s.fss => x.len = 0
    BY <1>1, <1>2, <2>7 DEF Max2
  <2> QED
    BY <1>3, <2>1, <2>6, <2>8
<1> QED
  BY <1>1, <1>2, <1>5, <1>7, <1>8

LEMMA ProcessAckKeeps ==
  ASSUME NEW s \in Stream, NEW p \in Segment, NEW w, SeqInv(s, w), WaitInv(s),
         s.on_hash_table, s.sndbuf, s.state \in State \ {SYN_RCVD}
  PROVE  LET u == process_ack(s, p)
         IN  /\ Keeps(s, u, w)
             /\ s.state \in {FIN_WAIT_1, CLOSING} /\ AcksFin(s, p) => u.len = 0
<1> DEFINE u == process_ack(s, p)
<1>1. s.snd_una >= s.head_seq /\ s.snd_nxt >= s.head_seq
  BY DEF SeqInv
<1>2. /\ SameLists(s, u)
      /\ u.snd_una >= u.head_seq /\ u.snd_nxt >= u.head_seq
      /\ (/\ s.state \in {FIN_WAIT_1, CLOSING}
          /\ AcksFin(s, p)
          /\ s.head_seq + s.len = s.fss) => u.len = 0
  BY <1>1, AckSeqEffect
<1>3. /\ u \in Stream /\ SameState(s, u) /\ u.sndbuf = s.sndbuf
      /\ u.fss = s.fss /\ u.head_seq + u.len = s.head_seq + s.len
      /\ u.len <= s.len
  BY AckEffect
<1> HIDE DEF u
<1>4. u.len \in Nat /\ s.len \in Nat
  BY <1>3 DEF Stream
<1>5. SeqInv(u, w)
  BY <1>2, <1>3, <1>4 DEF SeqInv, SameState
<1>6. WaitInv(u) /\ (FlushInv(s) => FlushInv(u))
  BY <1>2, <1>3 DEF WaitInv, FlushInv, SameState, SameLists
<1>7. Keeps(s, u, w)
  BY <1>2, <1>3, <1>5, <1>6 DEF Keeps, SameState, SameLists
<1>8. s.state \in {FIN_WAIT_1, CLOSING} => s.head_seq + s.len = s.fss
  BY DEF SeqInv
<1> QED
  BY <1>2, <1>7, <1>8 DEF u

LEMMA TakeAckKeeps ==
  ASSUME NEW s \in Stream, NEW p \in Segment, NEW w, StreamInv(s),
         SeqInv(s, w), WaitInv(s), s.on_hash_table,
         s.state \in State \ {SYN_RCVD}
  PROVE  LET u == TakeAck(s, p)
         IN  /\ Keeps(s, u, w)
             /\ s.state \in {FIN_WAIT_1, CLOSING} /\ p.ack /\ AcksFin(s, p) =>
                  u.len = 0
<1>1. s.len \in Nat /\ s.sndbuf \in BOOLEAN /\ p.ack \in BOOLEAN
  BY DEF Stream, Segment
<1>2. CASE ~ (p.ack /\ s.sndbuf)
  <2>1. TakeAck(s, p) = s
    BY <1>2 DEF TakeAck
  <2>2. ~ s.sndbuf => s.len = 0
    BY <1>1 DEF StreamInv, SendInv
  <2>3. Keeps(s, s, w)
    BY DEF Keeps
  <2> QED
    BY <1>1, <1>2, <2>1, <2>2, <2>3
<1>3. CASE p.ack /\ s.sndbuf
  <2>1. TakeAck(s, p) = process_ack(s, p)
    BY <1>3 DEF TakeAck
  <2> QED
    BY <1>3, <2>1, ProcessAckKeeps
<1> QED
  BY <1>2, <1>3
-----------------------------------------------------------------------------
(* The handlers of nty_tcp_process.                                         *)

\* A stream that can be handed to a handler.
Live(s, w) ==
    /\ s \in Stream /\ StreamInv(s) /\ SeqInv(s, w) /\ WaitInv(s)
    /\ s.on_hash_table

\* How a handler ends: with the stream as it is, or on the control list or
\* the ack list.
LEMMA HandlerKeeps ==
  ASSUME NEW s, NEW t \in Stream, NEW w, Keeps(s, t, w)
  PROVE  /\ Keeps(s, addto_controllist(t), w)
         /\ Keeps(s, enqueue_acklist(t), w)
  BY QuietOperations, KeepsQuiet

LEMMA SelfKeeps ==
  ASSUME NEW s, NEW w, Live(s, w)
  PROVE  /\ Keeps(s, s, w)
         /\ Keeps(s, addto_controllist(s), w)
         /\ Keeps(s, enqueue_acklist(s), w)
<1>1. Keeps(s, s, w)
  BY DEF Keeps, Live
<1> QED
  BY <1>1, HandlerKeeps DEF Live

\* handle_established takes acknowledgments, data and the peer's FIN.
LEMMA EstablishedKeeps ==
  ASSUME NEW s, NEW w, Live(s, w), NEW p, Sane(p), ~ p.syn,
         s.state = ESTABLISHED
  PROVE  Keeps(s, handle_established(s, p), w)
<1> DEFINE q == TakePayload(s, p)
           t == TakeAck(q, p)
           f == TakeFin(t, CLOSE_WAIT)
<1>1. s \in Stream /\ p \in Segment
  BY DEF Live, Sane
<1>2. q \in Stream /\ StreamInv(q) /\ SameState(s, q)
  BY TakePayloadInv DEF Live
<1>3. Quiet(s, q)
  BY <1>1, QuietPayload
<1> HIDE DEF q
<1>4. Keeps(s, q, w)
  BY <1>1, <1>3, SelfKeeps, KeepsQuiet
<1>5. q.state = ESTABLISHED /\ q.on_hash_table
  BY <1>2 DEF SameState, Live
<1>6. t \in Stream /\ SameState(q, t)
  BY <1>1, <1>2, <1>5, TakeAckInv
<1>7. Keeps(q, t, w)
  BY <1>1, <1>2, <1>4, <1>5, TakeAckKeeps DEF Keeps, State
<1>8. handle_established(s, p) =
        IF ~ p.fin THEN t
        ELSE IF InSequenceFin(t, p) THEN addto_controllist(f)
        ELSE enqueue_acklist(t)
  BY DEF handle_established, q
<1> HIDE DEF t
<1>9. Keeps(s, t, w) /\ Keeps(s, enqueue_acklist(t), w)
  BY <1>4, <1>6, <1>7, KeepsCompose, HandlerKeeps
<1>10. Keeps(s, addto_controllist(f), w)
  <2>1. t.state = ESTABLISHED
    BY <1>5, <1>6 DEF SameState
  <2>2. f \in Stream /\ Moved(t, f, CLOSE_WAIT)
    BY <1>6, FinEffect, MovedFin DEF State
  <2> HIDE DEF f
  <2>3. Keeps(t, f, w)
    BY <1>6, <1>9, <2>1, <2>2, MovedKeeps DEF Keeps
  <2> QED
    BY <1>9, <2>2, <2>3, KeepsCompose, HandlerKeeps
<1> HIDE DEF f
<1> QED
  BY <1>8, <1>9, <1>10

\* An ACK of our SYN is all the peer can acknowledge in SYN_RCVD.
LEMMA SynRcvdKeeps ==
  ASSUME NEW s, NEW w, Live(s, w), NEW p, Sane(p), Acks(p, w),
         NEW full \in BOOLEAN, s.state = SYN_RCVD
  PROVE  Keeps(s, process_syn_rcvd(s, p, full), w)
<1>0. /\ s \in Stream /\ p \in Segment /\ p.ack_seq \in Nat
      /\ p.syn \in BOOLEAN /\ s.snd_una \in Nat
  BY DEF Live, Sane, Segment, Stream
<1>1. CASE p.syn
  <2> DEFINE t == [s EXCEPT !.state = SYN_RCVD,
                            !.rcv_nxt = IF s.state = LISTEN THEN @ + 1 ELSE @]
  <2>1. SYN_RCVD \in State
    BY DEF State
  <2>2. (IF s.state = LISTEN THEN s.rcv_nxt + 1 ELSE s.rcv_nxt) = s.rcv_nxt
    OBVIOUS
  <2>3. t \in Stream
    BY <1>0, <2>1, <2>2, Zenon DEF Stream
  <2>4. Quiet(s, t)
    BY <1>0 DEF Stream, Quiet, Moved, SameSnd, SameLists
  <2>5. process_syn_rcvd(s, p, full) = addto_controllist(t)
    BY <1>1 DEF process_syn_rcvd, handle_listen
  <2> HIDE DEF t
  <2>6. Keeps(s, t, w)
    BY <1>0, <2>4, SelfKeeps, KeepsQuiet
  <2> QED
    BY <2>3, <2>5, <2>6, HandlerKeeps
<1>2. CASE ~ p.syn
  <2> DEFINE r == [s EXCEPT !.snd_una = @ + 1, !.snd_nxt = p.ack_seq,
                            !.cwnd = IF @ = 0 THEN 2 ELSE 1, !.nrtx = 0,
                            !.rcv_nxt = 1, !.state = ESTABLISHED,
                            !.on_timeout_list = TRUE]
             t == RemoveFromRTOList(r)
             c == [t EXCEPT !.state = CLOSED]
  <2>1. /\ p.ack /\ s.snd_una + 1 \in Nat /\ 0 \in Nat /\ 1 \in Nat
        /\ (IF s.cwnd = 0 THEN 2 ELSE 1) \in Nat
        /\ ESTABLISHED \in State /\ CLOSED \in State
    BY <1>0, <1>2 DEF Sane, State
  <2>2. p.ack_seq = 1
    <3>1. w \subseteq {0}
      BY DEF Live, SeqInv
    <3>2. p.ack_seq >= 1 /\ 0 .. p.ack_seq - 1 \subseteq {0}
      BY <2>1, <3>1 DEF Acks
    <3>3. p.ack_seq > 1 => 1 \in 0 .. p.ack_seq - 1
      BY <1>0
    <3> QED
      BY <1>0, <3>2, <3>3
  <2>3. r \in Stream
    BY <1>0, <2>1, Zenon DEF Stream
  <2>4. /\ r.state = ESTABLISHED /\ r.on_hash_table = s.on_hash_table
        /\ r.snd_nxt = p.ack_seq /\ r.snd_una = s.snd_una + 1
        /\ r.head_seq = s.head_seq /\ r.len = s.len /\ r.sndbuf = s.sndbuf
        /\ SameLists(s, r)
        /\ r.on_timewait_list = s.on_timewait_list
        /\ r.have_reset = s.have_reset
        /\ r.recvbuf = s.recvbuf /\ r.rcv_nxt = 1
    BY <1>0 DEF Stream, SameLists
  <2> HIDE DEF r
  <2>5. Keeps(s, r, w)
    <3>1. SeqInv(r, w)
      BY <1>0, <2>2, <2>4 DEF Live, SeqInv
    <3> QED
      BY <2>4, <3>1 DEF Live, Keeps, SameLists, WaitInv, FlushInv, ClosingState
  <2>6. /\ t \in Stream /\ SameState(r, t) /\ SameData(r, t)
        /\ t.on_rto = FALSE /\ t.on_timewait_list = r.on_timewait_list
        /\ Quiet(r, t)
    BY <2>3, RemoveRTOEffect, QuietOperations
  <2> HIDE DEF t
  <2>7. Keeps(s, t, w)
    BY <2>3, <2>5, <2>6, KeepsQuiet
  <2>8. t.state = ESTABLISHED /\ t.on_hash_table
    BY <2>4, <2>6 DEF SameState, Live
  <2>9. StreamInv(t)
    <3>1. TimerInv(t) /\ SendInv(t)
      BY <2>4, <2>6, <2>8
         DEF Live, StreamInv, TimerInv, SendInv, SameState, SameData
    <3>2. RecvInv(t)
      BY <2>4, <2>6, <2>8, FirstGapEmpty
         DEF Live, StreamInv, RecvInv, SameState, SameData
    <3> QED
      BY <3>1, <3>2 DEF StreamInv
  <2>10. Keeps(s, handle_established(t, p), w)
    <3>1. Live(t, w)
      BY <2>6, <2>7, <2>8, <2>9 DEF Live, Keeps
    <3> QED
      BY <1>2, <2>7, <2>8, <3>1, EstablishedKeeps, KeepsCompose
  <2>11. Keeps(s, addto_controllist(c), w) /\ addto_controllist(c).state = CLOSED
    <3>1. c \in Stream /\ c.state = CLOSED /\ Moved(t, c, CLOSED)
      BY <2>1, <2>6, MoveEffect, MovedFin
    <3> HIDE DEF c
    <3>2. Keeps(t, c, w)
      BY <2>6, <2>7, <2>8, <3>1, MovedKeeps DEF Keeps
    <3> QED
      BY <2>7, <3>1, <3>2, KeepsCompose, HandlerKeeps, ControlEffect
         DEF Same, SameState
  <2>12. handle_syn_rcvd(s, p, full) =
           IF full THEN addto_controllist(c) ELSE t
    BY <2>1 DEF handle_syn_rcvd, c, t, r
  <2> HIDE DEF c
  <2> QED
    BY <1>2, <2>7, <2>10, <2>11, <2>12 DEF process_syn_rcvd
<1> QED
  BY <1>0, <1>1, <1>2

LEMMA CloseWaitKeeps ==
  ASSUME NEW s, NEW w, Live(s, w), NEW p, Sane(p), s.state = CLOSE_WAIT
  PROVE  Keeps(s, handle_close_wait(s, p), w)
<1>1. /\ s \in Stream /\ p \in Segment /\ s.sndbuf \in BOOLEAN
      /\ CLOSE_WAIT \in State \ {SYN_RCVD}
  BY DEF Live, Sane, Stream, State
<1>2. s.sndbuf => Keeps(s, process_ack(s, p), w)
  BY <1>1, ProcessAckKeeps DEF Live
<1> QED
  BY <1>1, <1>2, SelfKeeps DEF handle_close_wait

LEMMA LastAckKeeps ==
  ASSUME NEW s, NEW w, Live(s, w), NEW p, Sane(p), s.state = LAST_ACK
  PROVE  Keeps(s, handle_last_ack(s, p), w)
<1> DEFINE t == TakeAck(s, p)
<1>1. s \in Stream /\ p \in Segment /\ LAST_ACK \in State \ {SYN_RCVD}
  BY DEF Live, Sane, State
<1>2. t \in Stream /\ Keeps(s, t, w)
  BY <1>1, TakeAckInv, TakeAckKeeps DEF Live
<1>3. handle_last_ack(s, p) \in
        {s, addto_controllist(s), t, CloseAndDestroy(t), addto_controllist(t)}
  BY DEF handle_last_ack
<1> HIDE DEF t
<1>4. Keeps(s, CloseAndDestroy(t), w) /\ Keeps(s, addto_controllist(t), w)
  BY <1>2, DestroyKeeps, KeepsCompose, HandlerKeeps
<1> QED
  BY <1>2, <1>3, <1>4, SelfKeeps

\* The FIN is acknowledged when everything was on the wire and nothing is left
\* in the send buffer.
LEMMA FinWait1Keeps ==
  ASSUME NEW s, NEW w, Live(s, w), NEW p, Sane(p), Acks(p, w),
         s.state = FIN_WAIT_1
  PROVE  Keeps(s, handle_fin_wait_1(s, p), w)
<1> DEFINE t == TakeAck(s, p)
           m == [t EXCEPT !.snd_una = p.ack_seq,
                          !.snd_nxt = Max2(@, p.ack_seq), !.nrtx = 0,
                          !.state = FIN_WAIT_2]
           r == RemoveFromRTOList(m)
           u == IF AcksFin(t, p) THEN r ELSE t
           v == TakePayload(u, p)
           x == TakeFin(v, CLOSING)
           f == TakeFin(v, CLOSED)
           y == AddtoTimewaitList(f)
<1>1. /\ s \in Stream /\ p \in Segment /\ p.ack_seq \in Nat
      /\ p.ack \in BOOLEAN /\ FIN_WAIT_1 \in State \ {SYN_RCVD}
      /\ CLOSING \in State /\ CLOSED \in State /\ FIN_WAIT_2 \in State
  BY DEF Live, Sane, Segment, State
<1>2. handle_fin_wait_1(s, p) =
        IF p.seq < s.rcv_nxt THEN addto_controllist(s)
        ELSE IF ~ p.ack THEN s
        ELSE IF ~ InSequenceFin(v, p) THEN v
        ELSE addto_controllist(IF v.state = FIN_WAIT_1 THEN x ELSE y)
  BY DEF handle_fin_wait_1, NTY_TCP_TIMEWAIT
<1>3. /\ t \in Stream /\ SameState(s, t) /\ t.fss = s.fss
      /\ t.is_fin_sent = s.is_fin_sent
  BY <1>1, TakeAckInv DEF Live
<1>4. Keeps(s, t, w) /\ (p.ack /\ AcksFin(s, p) => t.len = 0)
  BY <1>1, TakeAckKeeps DEF Live
<1> HIDE DEF t
<1>5. ASSUME p.ack, AcksFin(t, p)
      PROVE  r \in Stream /\ r.state = FIN_WAIT_2 /\ Keeps(s, r, w)
  <2>1. AcksFin(s, p)
    BY <1>3, <1>5 DEF AcksFin
  <2>2. /\ t.snd_nxt \in Nat /\ t.head_seq \in Nat /\ t.len = 0
        /\ t.fss \in Nat /\ t.state = FIN_WAIT_1 /\ 0 \in Nat
        /\ t.on_hash_table
    BY <1>3, <1>4, <1>5, <2>1 DEF Stream, SameState, Live
  <2>3. Max2(t.snd_nxt, p.ack_seq) \in Nat
    BY <1>1, <2>2 DEF Max2
  <2>4. m \in Stream
    BY <1>1, <1>3, <2>2, <2>3, ZenonT(40) DEF Stream
  <2>5. /\ m.state = FIN_WAIT_2 /\ m.on_hash_table = t.on_hash_table
        /\ m.len = t.len /\ m.head_seq = t.head_seq /\ m.fss = t.fss
        /\ m.sndbuf = t.sndbuf
        /\ m.snd_una = p.ack_seq /\ m.snd_nxt = Max2(t.snd_nxt, p.ack_seq)
        /\ SameLists(t, m)
    BY <1>3 DEF Stream, SameLists
  <2> HIDE DEF m
  <2>6. p.ack_seq = t.fss + 1 /\ t.head_seq = t.fss
    BY <1>4, <1>5, <2>2 DEF AcksFin, Keeps, SeqInv
  <2>7. 0 .. t.fss \subseteq w
    BY <1>5, <2>2, <2>6 DEF Acks
  <2>8. m.snd_una >= m.head_seq /\ m.snd_nxt >= m.head_seq
    BY <1>1, <2>2, <2>5, <2>6 DEF Max2
  <2>9. SeqInv(m, w)
    BY <2>2, <2>5, <2>7, <2>8 DEF SeqInv
  <2>10. Keeps(t, m, w)
    BY <1>4, <2>2, <2>5, <2>9
       DEF Keeps, SameLists, WaitInv, FlushInv, ClosingState
  <2>11. /\ r \in Stream /\ SameState(m, r) /\ Quiet(m, r)
    BY <2>4, RemoveRTOEffect, QuietOperations
  <2> HIDE DEF r
  <2> QED
    BY <1>4, <2>4, <2>5, <2>10, <2>11, KeepsCompose, KeepsQuiet DEF SameState
<1> HIDE DEF r
<1>6. ASSUME p.ack
      PROVE  /\ u \in Stream /\ Keeps(s, u, w)
             /\ u.state \in {FIN_WAIT_1, FIN_WAIT_2}
  BY <1>3, <1>4, <1>5, <1>6 DEF SameState
<1> HIDE DEF u
<1>7. ASSUME p.ack
      PROVE  /\ v \in Stream /\ Keeps(s, v, w)
             /\ v.state \in {FIN_WAIT_1, FIN_WAIT_2}
  <2>1. v \in Stream /\ SameState(u, v) /\ Quiet(u, v)
    BY <1>6, <1>7, PayloadEffect, QuietPayload
  <2> HIDE DEF v
  <2> QED
    BY <1>6, <1>7, <2>1, KeepsQuiet DEF SameState
<1> HIDE DEF v
<1>8. ASSUME p.ack, v.state = FIN_WAIT_1 PROVE Keeps(s, addto_controllist(x), w)
  <2>1. x \in Stream /\ Moved(v, x, CLOSING)
    BY <1>1, <1>7, <1>8, FinEffect, MovedFin
  <2> HIDE DEF x
  <2>2. Keeps(v, x, w)
    BY <1>7, <1>8, <2>1, MovedKeeps DEF Keeps
  <2> QED
    BY <1>7, <1>8, <2>1, <2>2, KeepsCompose, HandlerKeeps
<1>9. ASSUME p.ack, v.state = FIN_WAIT_2 PROVE Keeps(s, addto_controllist(y), w)
  <2>1. f \in Stream /\ Moved(v, f, CLOSED)
    BY <1>1, <1>7, <1>9, FinEffect, MovedFin
  <2> HIDE DEF f
  <2>2. Keeps(v, f, w)
    BY <1>7, <1>9, <2>1, MovedKeeps DEF Keeps
  <2>3. y \in Stream /\ Quiet(f, y)
    BY <2>1, TimewaitEffect, QuietTimewait
  <2> HIDE DEF y
  <2> QED
    BY <1>7, <1>9, <2>1, <2>2, <2>3, KeepsCompose, KeepsQuiet, HandlerKeeps
<1> HIDE DEF x, y
<1> QED
  BY <1>1, <1>2, <1>7, <1>8, <1>9, SelfKeeps

LEMMA FinWait2Keeps ==
  ASSUME NEW s, NEW w, Live(s, w), NEW p, Sane(p), s.state = FIN_WAIT_2
  PROVE  Keeps(s, handle_fin_wait_2(s, p), w)
<1> DEFINE t == TakeAck(s, p)
           v == TakePayload(t, p)
           f == TakeFin(v, TIME_WAIT)
           y == AddtoTimewaitList(f)
<1>1. /\ s \in Stream /\ p \in Segment /\ FIN_WAIT_2 \in State \ {SYN_RCVD}
      /\ TIME_WAIT \in State
  BY DEF Live, Sane, State
<1>2. handle_fin_wait_2(s, p) = IF ~ p.ack THEN s
                                ELSE IF ~ InSequenceFin(v, p) THEN v
                                ELSE addto_controllist(y)
  BY DEF handle_fin_wait_2
<1>3. t \in Stream /\ SameState(s, t) /\ Keeps(s, t, w)
  BY <1>1, TakeAckInv, TakeAckKeeps DEF Live
<1> HIDE DEF t
<1>4. v \in Stream /\ SameState(t, v) /\ Quiet(t, v)
  BY <1>3, PayloadEffect, QuietPayload
<1> HIDE DEF v
<1>5. Keeps(s, v, w) /\ v.state = FIN_WAIT_2
  BY <1>3, <1>4, KeepsQuiet DEF SameState
<1>6. f \in Stream /\ Moved(v, f, TIME_WAIT)
  BY <1>1, <1>4, FinEffect, MovedFin
<1> HIDE DEF f
<1>7. Keeps(v, f, w)
  BY <1>4, <1>5, <1>6, MovedKeeps DEF Keeps
<1>8. y \in Stream /\ Quiet(f, y)
  BY <1>6, TimewaitEffect, QuietTimewait
<1> HIDE DEF y
<1>9. Keeps(s, addto_controllist(y), w)
  BY <1>5, <1>6, <1>7, <1>8, KeepsCompose, KeepsQuiet, HandlerKeeps
<1> QED
  BY <1>2, <1>5, <1>9, SelfKeeps

LEMMA ClosingKeeps ==
  ASSUME NEW s, NEW w, Live(s, w), NEW p, Sane(p), Acks(p, w),
         s.state = CLOSING
  PROVE  Keeps(s, handle_closing(s, p), w)
<1> DEFINE t == TakeAck(s, p)
           m == [t EXCEPT !.snd_una = p.ack_seq, !.snd_nxt = p.ack_seq]
           k == UpdateRetransmissionTimer(m)
           x == [k EXCEPT !.state = TIME_WAIT]
           y == AddtoTimewaitList(x)
<1>1. /\ s \in Stream /\ p \in Segment /\ p.ack_seq \in Nat /\ p.ack \in BOOLEAN
      /\ CLOSING \in State \ {SYN_RCVD} /\ TIME_WAIT \in State
  BY DEF Live, Sane, Segment, State
<1>2. handle_closing(s, p) = IF ~ AcksFin(t, p) THEN t ELSE y
  BY DEF handle_closing
<1>3. /\ t \in Stream /\ SameState(s, t) /\ t.fss = s.fss
      /\ t.is_fin_sent = s.is_fin_sent
  BY <1>1, TakeAckInv DEF Live
<1>4. Keeps(s, t, w) /\ (p.ack /\ AcksFin(s, p) => t.len = 0)
  BY <1>1, TakeAckKeeps DEF Live
<1> HIDE DEF t
<1>5. ASSUME AcksFin(t, p) PROVE Keeps(s, y, w)
  <2>1. AcksFin(s, p)
    BY <1>3, <1>5 DEF AcksFin
  <2>0. p.ack
    BY <1>1, <1>3, <1>5 DEF AcksFin, Acks, Stream
  <2>2. /\ t.head_seq \in Nat /\ t.len = 0 /\ t.fss \in Nat
        /\ t.state = CLOSING /\ t.on_hash_table
    BY <1>3, <1>4, <2>0, <2>1 DEF Stream, SameState, Live
  <2>3. p.ack_seq = t.fss + 1 /\ t.head_seq = t.fss
    BY <1>4, <1>5, <2>2 DEF AcksFin, Keeps, SeqInv
  <2>4. 0 .. t.fss \subseteq w
    BY <1>1, <2>0, <2>2, <2>3 DEF Acks
  <2>5. m \in Stream
    BY <1>1, <1>3, Zenon DEF Stream
  <2>6. /\ m.state = t.state /\ m.on_hash_table = t.on_hash_table
        /\ m.len = t.len /\ m.head_seq = t.head_seq /\ m.fss = t.fss
        /\ m.sndbuf = t.sndbuf
        /\ m.snd_una = p.ack_seq /\ m.snd_nxt = p.ack_seq
        /\ SameLists(t, m)
    BY <1>3 DEF Stream, SameLists
  <2> HIDE DEF m
  <2>7. k \in Stream /\ Quiet(m, k)
    BY <2>5, UpdateRTOEffect, QuietOperations
  <2> HIDE DEF k
  <2>8. x \in Stream /\ Moved(k, x, TIME_WAIT)
    BY <1>1, <2>7, MoveEffect, MovedFin
  <2> HIDE DEF x
  <2>9. /\ x.state = TIME_WAIT /\ x.on_hash_table /\ x.sndbuf = t.sndbuf
        /\ x.len = 0 /\ x.head_seq = t.head_seq /\ x.fss = t.fss
        /\ x.snd_una = p.ack_seq /\ x.snd_nxt = p.ack_seq
        /\ SameLists(t, x)
    BY <2>2, <2>6, <2>7, <2>8 DEF Quiet, Moved, SameSnd, SameLists
  <2>10. x.snd_una >= x.head_seq /\ x.snd_nxt >= x.head_seq
    BY <1>1, <2>2, <2>3, <2>9
  <2>11. SeqInv(x, w)
    BY <2>4, <2>9, <2>10 DEF SeqInv
  <2>12. Keeps(t, x, w)
    BY <1>4, <2>2, <2>9, <2>11
       DEF Keeps, SameLists, WaitInv, FlushInv, ClosingState
  <2>13. Quiet(x, y)
    BY <2>8, QuietTimewait
  <2> HIDE DEF y
  <2> QED
    BY <1>4, <2>8, <2>12, <2>13, KeepsCompose, KeepsQuiet
<1> QED
  BY <1>2, <1>4, <1>5

LEMMA RstKeeps ==
  ASSUME NEW s, NEW w, Live(s, w), NEW p, s.state \notin {CLOSED, LISTEN}
  PROVE  Keeps(s, process_rst(s, p), w)
<1> DEFINE u == [s EXCEPT !.state = CLOSE_WAIT]
<1>1. s \in Stream /\ s.state \in State
  BY DEF Live, Stream
<1>2. Keeps(s, s, w) /\ Keeps(s, CloseAndDestroy(s), w)
  BY <1>1, SelfKeeps, DestroyKeeps
<1>3. Moved(s, u, CLOSE_WAIT)
  BY <1>1, MovedFin
<1>4. \/ process_rst(s, p) \in {s, CloseAndDestroy(s)}
      \/ s.state \in {ESTABLISHED, CLOSE_WAIT} /\ process_rst(s, p) = u
  <2> HIDE DEF u
  <2>1. CASE s.state = SYN_RCVD
    BY <2>1 DEF process_rst
  <2>2. CASE s.state \in {FIN_WAIT_1, FIN_WAIT_2, LAST_ACK, CLOSING, TIME_WAIT}
    BY <2>2 DEF process_rst
  <2>3. CASE s.state \in {ESTABLISHED, CLOSE_WAIT}
    BY <2>3 DEF process_rst, u
  <2> QED
    BY <1>1, <2>1, <2>2, <2>3 DEF State
<1> HIDE DEF u
<1>5. s.state \in {ESTABLISHED, CLOSE_WAIT} => Keeps(s, u, w)
  BY <1>1, <1>3, MovedKeeps DEF Live
<1> QED
  BY <1>2, <1>4, <1>5

LEMMA RejectKeeps ==
  ASSUME NEW s, NEW w, Live(s, w), NEW p
  PROVE  Keeps(s, RejectSeq(s, p), w)
<1>1. s.state = TIME_WAIT => AddtoTimewaitList(s) = s
  BY TimeWaitPreserves DEF Live
<1>2. RejectSeq(s, p) \in {s, addto_controllist(s), enqueue_acklist(s)}
  BY <1>1 DEF RejectSeq
<1> QED
  BY <1>2, SelfKeeps

\* A SYN comes too early in the sequence for every state but SYN_RCVD.
LEMMA DispatchKeeps ==
  ASSUME NEW s, NEW w, Live(s, w), NEW p, Sane(p), Acks(p, w),
         NEW full \in BOOLEAN,
         s.state = ESTABLISHED => ~ p.syn
  PROVE  Keeps(s, Dispatch(s, p, full), w)
<1>1. s.state \in State \ {LISTEN} /\ s \in Stream
  BY DEF Live, Stream, StreamInv, RecvInv
<1>3. CASE s.state = SYN_RCVD
  BY <1>3, SynRcvdKeeps DEF Dispatch
<1>4. CASE s.state = ESTABLISHED
  BY <1>4, EstablishedKeeps DEF Dispatch
<1>5. CASE s.state = CLOSE_WAIT
  BY <1>5, CloseWaitKeeps DEF Dispatch
<1>6. CASE s.state = LAST_ACK
  BY <1>6, LastAckKeeps DEF Dispatch
<1>7. CASE s.state = FIN_WAIT_1
  BY <1>7, FinWait1Keeps DEF Dispatch
<1>8. CASE s.state = FIN_WAIT_2
  BY <1>8, FinWait2Keeps DEF Dispatch
<1>9. CASE s.state = CLOSING
  BY <1>9, ClosingKeeps DEF Dispatch
<1>10. CASE s.state = TIME_WAIT
  <2>1. Quiet(s, RestartTimewait(s)) /\ RestartTimewait(s) \in Stream
    <3> DEFINE t == [s EXCEPT !.on_timewait_list = FALSE]
    <3>1. t \in Stream
      BY <1>1, Zenon DEF Stream
    <3>2. RestartTimewait(s) \in {s, AddtoTimewaitList(t)}
      BY DEF RestartTimewait
    <3> HIDE DEF t
    <3> QED
      BY <1>1, <3>1, <3>2, TimewaitEffect, QuietTimewait
  <2>2. Keeps(s, RestartTimewait(s), w)
    BY <1>1, <2>1, SelfKeeps, KeepsQuiet
  <2> QED
    BY <1>10, <2>1, <2>2, HandlerKeeps DEF Dispatch
<1>11. CASE s.state = CLOSED
  BY <1>11, SelfKeeps DEF Dispatch
<1> QED
  BY <1>1, <1>3, <1>4, <1>5, <1>6, <1>7, <1>8, <1>9, <1>10, <1>11 DEF State

\* Whatever segment arrives, the sending side of a live stream stays
\* consistent.
LEMMA ProcessKeeps ==
  ASSUME NEW s, NEW w, Live(s, w), NEW p, Sane(p), Acks(p, w),
         NEW full \in BOOLEAN
  PROVE  Keeps(s, nty_tcp_process(CheckTimestamp(s, p), p, full), w)
<1> DEFINE c == CheckTimestamp(s, p)
           t == [c EXCEPT !.peer_wnd = p.window, !.have_reset = @ \/ p.rst]
           u == nty_tcp_process(c, p, full)
<1>1. /\ s \in Stream /\ p \in Segment /\ p.window \in Nat
      /\ p.rst \in BOOLEAN /\ p.seq \in Nat /\ p.len \in Nat
  BY SizesAssumption DEF Live, Sane, Segment
<1>2. c \in Stream /\ Same(s, c) /\ Keeps(s, c, w) /\ StreamInv(c)
  <2>1. /\ enqueue_acklist(s) \in Stream /\ Same(s, enqueue_acklist(s))
        /\ Keeps(s, s, w) /\ Keeps(s, enqueue_acklist(s), w)
    BY <1>1, AcklistEffect, SelfKeeps
  <2>2. Same(s, s)
    BY DEF Same, SameState, SameData, SameTimers
  <2>3. c \in Stream /\ Same(s, c) /\ Keeps(s, c, w)
    BY <1>1, <2>1, <2>2 DEF CheckTimestamp
  <2> QED
    BY <1>1, <2>3, SamePreserves DEF Preserves, Live
<1>3. \/ u = RejectSeq(c, p)
      \/ /\ u = Dispatch(t, p, full)
         /\ c.state = ESTABLISHED => p.seq + p.len >= c.rcv_nxt
      \/ u = process_rst(t, p) /\ c.state \notin {CLOSED, LISTEN}
  BY DEF nty_tcp_process, SeqIsValid
<1> HIDE DEF c
<1>4. Live(c, w)
  BY <1>2 DEF Live, Keeps, Same, SameState
<1>5. t \in Stream
  <2>1. (c.have_reset \/ p.rst) \in BOOLEAN
    OBVIOUS
  <2> QED
    BY <1>1, <1>2, <2>1, Zenon DEF Stream
<1>6. /\ t.state = c.state /\ t.on_hash_table = c.on_hash_table
      /\ t.have_reset = (c.have_reset \/ p.rst)
      /\ SameData(c, t) /\ SameTimers(c, t) /\ Quiet(c, t)
  BY <1>2
     DEF Stream, SameData, SameTimers, Quiet, Moved, SameSnd, SameLists
<1> HIDE DEF t, u
<1>7. StreamInv(t)
  <2>1. TimerInv(t) /\ SendInv(t)
    BY <1>2, <1>6 DEF StreamInv, TimerInv, SendInv, SameData, SameTimers
  <2>2. RecvInv(t)
    <3>1. ~ t.have_reset => ~ c.have_reset
      BY <1>2, <1>6 DEF Stream
    <3> QED
      BY <1>2, <1>6, <3>1 DEF StreamInv, RecvInv, SameData
  <2> QED
    BY <2>1, <2>2 DEF StreamInv
<1>8. Keeps(s, t, w)
  BY <1>2, <1>6, KeepsQuiet
<1>9. Live(t, w)
  BY <1>4, <1>5, <1>6, <1>7, <1>8 DEF Live, Keeps
<1>10. c.state = ESTABLISHED /\ p.seq + p.len >= c.rcv_nxt => ~ p.syn
  <2>1. c.state = ESTABLISHED => c.rcv_nxt = FirstGap(c.recvbuf)
    BY <1>2 DEF StreamInv, RecvInv
  <2>2. FirstGap(c.recvbuf) >= 1
    <3> DEFINE A == {k \in c.recvbuf : 1 .. k \subseteq c.recvbuf}
    <3>1. c.recvbuf \in SUBSET (1 .. PeerData)
      BY <1>2 DEF Stream
    <3>2. IsFiniteSet(A)
      BY <3>1, FirstGapType, FS_Subset
    <3>3. Cardinality(A) \in Nat
      BY <3>2, FS_CardinalityType
    <3> HIDE DEF A
    <3> QED
      BY <3>3 DEF FirstGap, A
  <2>3. FirstGap(c.recvbuf) \in Nat
    BY <1>2, FirstGapType DEF Stream
  <2>4. p.syn => p.seq = 0 /\ p.len = 0
    BY DEF Sane
  <2> QED
    BY <2>1, <2>2, <2>3, <2>4
<1>11. ASSUME u = RejectSeq(c, p) PROVE Keeps(s, u, w)
  BY <1>2, <1>4, <1>11, RejectKeeps, KeepsCompose
<1>12. ASSUME u = Dispatch(t, p, full),
              c.state = ESTABLISHED => p.seq + p.len >= c.rcv_nxt
       PROVE  Keeps(s, u, w)
  <2>1. t.state = ESTABLISHED => ~ p.syn
    BY <1>6, <1>10, <1>12
  <2> QED
    BY <1>8, <1>9, <1>12, <2>1, DispatchKeeps, KeepsCompose
<1>13. ASSUME u = process_rst(t, p), c.state \notin {CLOSED, LISTEN}
       PROVE  Keeps(s, u, w)
  BY <1>6, <1>8, <1>9, <1>13, RstKeeps, KeepsCompose
<1>14. Keeps(s, u, w)
  BY <1>3, <1>11, <1>12, <1>13
<1> QED
  BY <1>14 DEF u, c
-----------------------------------------------------------------------------
(* Timeouts, the API queues and the write lists.                            *)

\* A retransmission starts from snd_una, and puts the stream on the send list
\* only where it has a send buffer.
LEMMA RtoKeeps ==
  ASSUME NEW s, NEW w, Live(s, w), s.on_rto
  PROVE  Keeps(s, HandleRTO(s), w)
<1> DEFINE k == Max2(2, Window(s) \div 2)
           t == [s EXCEPT !.on_rto = FALSE, !.nrtx = @ + 1, !.cwnd = 1,
                          !.ssthresh = Max2(2, Window(s) \div 2),
                          !.snd_nxt = s.snd_una]
           c == [t EXCEPT !.on_control_list = FALSE,
                          !.control_list_waiting = TRUE]
<1>1. /\ s \in Stream /\ s.nrtx + 1 \in Nat /\ 1 \in Nat /\ s.snd_una \in Nat
      /\ s.cwnd \in Nat /\ s.peer_wnd \in Nat /\ s.nrtx \in Nat
      /\ s.head_seq \in Nat /\ s.len \in Nat /\ s.fss \in Nat
      /\ s.on_hash_table
  BY DEF Live, Stream
<1>2. k \in Nat
  BY <1>1 DEF Max2, Window, Min2
<1>3. t.snd_nxt = s.snd_una
  BY <1>1 DEF Stream
<1>4. \/ HandleRTO(s) = CloseAndDestroy(s)
      \/ /\ s.state \in {ESTABLISHED, CLOSE_WAIT}
         /\ HandleRTO(s) = addto_sendlist(t)
      \/ /\ s.state \in {FIN_WAIT_1, CLOSING, LAST_ACK} /\ s.snd_una < s.fss
         /\ HandleRTO(s) = addto_sendlist(c)
      \/ /\ s.state \notin {ESTABLISHED, CLOSE_WAIT}
         /\ HandleRTO(s) = addto_controllist(t)
  <2> HIDE DEF t
  <2>1. CASE s.nrtx >= TCP_MAX_RTX
    BY <1>1, <2>1, SizesAssumption DEF HandleRTO
  <2>2. CASE s.nrtx < TCP_MAX_RTX
    <3>1. ~ (s.nrtx >= TCP_MAX_RTX)
      BY <1>1, <2>2, SizesAssumption
    <3>2. CASE s.state \in {ESTABLISHED, CLOSE_WAIT}
      BY <2>2, <3>1, <3>2 DEF HandleRTO, t
    <3>3. CASE s.state \in {FIN_WAIT_1, CLOSING, LAST_ACK}
      BY <1>3, <2>2, <3>1, <3>3 DEF HandleRTO, t
    <3>4. CASE s.state \notin {ESTABLISHED, CLOSE_WAIT, FIN_WAIT_1, CLOSING,
                               LAST_ACK}
      BY <3>1, <3>4 DEF HandleRTO, t
    <3> QED
      BY <3>2, <3>3, <3>4
  <2> QED
    BY <1>1, <2>1, <2>2, SizesAssumption
<1>5. t \in Stream
  <2> HIDE DEF k
  <2>1. t = [s EXCEPT !.on_rto = FALSE, !.nrtx = @ + 1, !.cwnd = 1,
                      !.ssthresh = k, !.snd_nxt = s.snd_una]
    BY DEF k
  <2> HIDE DEF t
  <2> QED
    BY <1>1, <1>2, <2>1, Zenon DEF Stream
<1>6. /\ t.state = s.state /\ t.on_hash_table = s.on_hash_table
      /\ t.snd_una = s.snd_una /\ t.head_seq = s.head_seq /\ t.len = s.len
      /\ t.sndbuf = s.sndbuf /\ t.fss = s.fss /\ SameLists(s, t)
  BY <1>1 DEF Stream, SameLists
<1> HIDE DEF t
<1>7. s.state \in {ESTABLISHED, CLOSE_WAIT} => s.sndbuf
  BY DEF Live, StreamInv, TimerInv
<1>8. Keeps(s, t, w)
  <2>1. SeqInv(t, w)
    BY <1>1, <1>3, <1>6, <1>7 DEF Live, SeqInv
  <2> QED
    BY <1>6, <2>1 DEF Live, Keeps, SameLists, WaitInv, FlushInv
\* a stream with a send buffer goes to the send list
<1>9. ASSUME NEW x \in Stream, x.state = s.state, x.on_hash_table,
             x.on_closeq = s.on_closeq, SameSnd(t, x), s.sndbuf
      PROVE  Keeps(s, addto_sendlist(x), w)
  <2> DEFINE u == addto_sendlist(x)
  <2>1. /\ u.state = x.state /\ u.on_hash_table = x.on_hash_table
        /\ u.on_closeq = x.on_closeq /\ SameSnd(x, u) /\ u.on_send_list = TRUE
    BY <1>9 DEF addto_sendlist, Stream, SameSnd
  <2> HIDE DEF u
  <2>2. u.sndbuf /\ SeqInv(u, w)
    <3>1. /\ SameSnd(t, u) /\ u.state = t.state
          /\ u.on_hash_table /\ t.on_hash_table
      BY <1>1, <1>6, <1>9, <2>1 DEF SameSnd
    <3>2. SeqInv(t, w)
      BY <1>8 DEF Keeps
    <3>3. SeqInv(u, w)
      BY <3>1, <3>2 DEF SeqInv, SameSnd
    <3> QED
      BY <1>6, <1>9, <3>1, <3>3 DEF SameSnd
  <2>3. Keeps(s, u, w)
    BY <1>9, <2>1, <2>2 DEF Keeps, WaitInv, FlushInv
  <2> QED
    BY <2>3 DEF u
<1>10. s.state \in {ESTABLISHED, CLOSE_WAIT} => Keeps(s, addto_sendlist(t), w)
  <2>1. SameSnd(t, t)
    BY DEF SameSnd
  <2> QED
    BY <1>1, <1>5, <1>6, <1>7, <1>9, <2>1 DEF SameLists
<1>11. s.state \in {FIN_WAIT_1, CLOSING, LAST_ACK} /\ s.snd_una < s.fss =>
         Keeps(s, addto_sendlist(c), w)
  <2> SUFFICES ASSUME s.state \in {FIN_WAIT_1, CLOSING, LAST_ACK},
                      s.snd_una < s.fss
               PROVE  Keeps(s, addto_sendlist(c), w)
    OBVIOUS
  <2>1. c \in Stream
    BY <1>5, Zenon DEF Stream
  <2>2. /\ c.state = t.state /\ c.on_hash_table = t.on_hash_table
        /\ c.on_closeq = t.on_closeq /\ SameSnd(t, c)
    BY <1>5 DEF Stream, SameSnd
  <2> HIDE DEF c
  <2>3. s.head_seq + s.len = s.fss /\ s.snd_una >= s.head_seq
    BY DEF Live, SeqInv
  <2>4. s.len > 0
    BY <1>1, <2>3
  <2>5. s.sndbuf
    BY <2>4 DEF Live, StreamInv, SendInv
  <2> QED
    BY <1>1, <1>6, <1>9, <2>1, <2>2, <2>5 DEF SameLists
<1>12. Keeps(s, addto_controllist(t), w) /\ Keeps(s, CloseAndDestroy(s), w)
  BY <1>1, <1>5, <1>8, HandlerKeeps, DestroyKeeps
<1> HIDE DEF c
<1> QED
  BY <1>4, <1>10, <1>11, <1>12

LEMMA TimersKeep ==
  ASSUME NEW s \in Stream, NEW w, StreamInv(s), LinkInv(s), SeqInv(s, w),
         WaitInv(s), NEW rto \in BOOLEAN, NEW idle \in BOOLEAN,
         rto => s.on_rto
  PROVE  LET u == CheckTimewaitExpire(IF rto THEN HandleRTO(s) ELSE s)
         IN  Keeps(s, IF idle /\ u.on_timeout_list
                      THEN CloseAndDestroy(u) ELSE u, w)
<1> DEFINE t == IF rto THEN HandleRTO(s) ELSE s
           u == CheckTimewaitExpire(t)
           v == IF idle /\ u.on_timeout_list THEN CloseAndDestroy(u) ELSE u
<1>1. t \in Stream /\ Keeps(s, t, w)
  <2>1. CASE rto
    <3>1. Live(s, w) /\ s.on_rto
      BY <2>1 DEF Live, LinkInv, Unlinked
    <3> QED
      BY <2>1, <3>1, RtoKeeps, RtoPreserves DEF Live, Preserves
  <2>2. CASE ~ rto
    BY <2>2 DEF Keeps
  <2> QED
    BY <2>1, <2>2
<1> HIDE DEF t
<1>2. ASSUME NEW x \in Stream, Keeps(s, x, w)
      PROVE  CloseAndDestroy(x) \in Stream /\ Keeps(s, CloseAndDestroy(x), w)
  BY <1>2, CloseAndDestroyPreserves, DestroyKeeps, KeepsCompose DEF Preserves
<1>3. u \in Stream /\ Keeps(s, u, w)
  <2>1. u \in {t, CloseAndDestroy(t)}
    BY DEF CheckTimewaitExpire
  <2> QED
    BY <1>1, <1>2, <2>1
<1> HIDE DEF u
<1>4. Keeps(s, v, w)
  BY <1>2, <1>3
<1> QED
  BY <1>4 DEF v, u, t

\* From close() on the FIN comes right after the data, and a close that has to
\* wait is on the list it waits for.
LEMMA CloseStreamKeeps ==
  ASSUME NEW s \in Stream, NEW w, StreamInv(s), SeqInv(s, w), WaitInv(s),
         s.state \notin ClosingState
  PROVE  LET u == CloseStream(s)
         IN  /\ SeqInv(u, w) /\ WaitInv(u) /\ (FlushInv(s) => FlushInv(u))
             /\ ~ u.on_closeq
<1> DEFINE f == IF s.sndbuf THEN s.head_seq + s.len ELSE s.snd_nxt
           t == [s EXCEPT !.on_closeq = FALSE, !.fss = f,
                          !.on_timeout_list = FALSE]
           u == [t EXCEPT !.state = CloseState(t.state)]
           i == [t EXCEPT !.on_closeq_int = TRUE]
           k == [u EXCEPT !.control_list_waiting = TRUE]
           Done(x) == /\ SeqInv(x, w) /\ WaitInv(x)
                      /\ (FlushInv(s) => FlushInv(x)) /\ ~ x.on_closeq
<1>1. /\ f \in Nat /\ s.state \in State /\ s.head_seq \in Nat /\ s.len \in Nat
      /\ s.snd_nxt \in Nat
  BY DEF Stream
<1>2. CloseStream(s) =
        IF s.have_reset
        THEN IF s.state # CLOSED THEN CloseAndDestroy(t) ELSE t
        ELSE IF s.on_control_list THEN i
        ELSE IF s.on_send_list \/ s.on_ack_list THEN k
        ELSE IF s.state # CLOSED THEN addto_controllist(u) ELSE t
  BY DEF CloseStream
<1>3. s.state \in {ESTABLISHED, CLOSE_WAIT} => f = s.head_seq + s.len
  BY <1>1 DEF SeqInv
<1> HIDE DEF f
<1>4. t \in Stream
  BY <1>1, Zenon DEF Stream
<1>5. /\ t.state = s.state /\ t.on_hash_table = s.on_hash_table
      /\ t.snd_nxt = s.snd_nxt /\ t.snd_una = s.snd_una
      /\ t.head_seq = s.head_seq /\ t.len = s.len /\ t.sndbuf = s.sndbuf
      /\ t.fss = f /\ ~ t.on_closeq
      /\ t.on_send_list = s.on_send_list /\ t.on_ack_list = s.on_ack_list
      /\ t.control_list_waiting = s.control_list_waiting
  BY DEF Stream
<1> HIDE DEF t
<1>6. Done(t)
  BY <1>5 DEF SeqInv, WaitInv, FlushInv, ClosingState
<1>7. Done(CloseAndDestroy(t))
  <2>1. Keeps(t, CloseAndDestroy(t), w)
    BY <1>4, DestroyKeeps
  <2> QED
    BY <1>6, <2>1 DEF Keeps
<1>8. Done(i)
  <2>1. Quiet(t, i)
    BY <1>4 DEF Stream, Quiet, Moved, SameSnd, SameLists
  <2> HIDE DEF i
  <2>2. Keeps(t, i, w)
    BY <1>4, <1>6, <2>1, MovedKeeps DEF Quiet
  <2> QED
    BY <1>6, <2>2 DEF Keeps
<1>9. CloseState(t.state) \in State
  BY <1>1, <1>5 DEF State, CloseState
<1>10. u \in Stream /\ Moved(t, u, CloseState(t.state))
  BY <1>4, <1>9, MoveEffect, MovedFin
<1>11. u.on_ack_list = t.on_ack_list
  BY <1>4 DEF Stream
<1> HIDE DEF u
<1>12. SeqInv(u, w)
  <2>1. \/ u.state = t.state
        \/ t.state = ESTABLISHED /\ u.state = FIN_WAIT_1
        \/ t.state = CLOSE_WAIT /\ u.state = LAST_ACK
    BY <1>10 DEF CloseState, Moved
  <2> QED
    BY <1>3, <1>5, <1>6, <1>10, <2>1 DEF SeqInv, Moved, SameSnd
<1>13. Done(u)
  BY <1>5, <1>6, <1>10, <1>12 DEF WaitInv, FlushInv, Moved, SameSnd, SameLists
<1>14. Done(addto_controllist(u))
  <2>1. Keeps(u, addto_controllist(u), w)
    BY <1>10, <1>13, QuietOperations, MovedKeeps DEF Quiet
  <2> QED
    BY <1>13, <2>1 DEF Keeps
<1>15. ASSUME s.on_send_list \/ s.on_ack_list PROVE Done(k)
  <2>1. /\ k.state = u.state /\ k.on_hash_table = u.on_hash_table
        /\ SameSnd(u, k) /\ k.on_send_list = u.on_send_list
        /\ k.on_ack_list = u.on_ack_list /\ k.on_closeq = u.on_closeq
    BY <1>10 DEF Stream, SameSnd
  <2> HIDE DEF k
  <2>2. SeqInv(k, w)
    BY <1>13, <2>1 DEF SeqInv, SameSnd
  <2>3. k.on_send_list \/ k.on_ack_list
    BY <1>5, <1>10, <1>11, <1>15, <2>1 DEF Moved, SameLists
  <2> QED
    BY <1>13, <2>1, <2>2, <2>3 DEF WaitInv, FlushInv, SameSnd
<1> HIDE DEF i, k
<1>16. Done(CloseStream(s))
  <2> HIDE DEF Done
  <2> QED
    BY <1>2, <1>6, <1>7, <1>8, <1>14, <1>15
<1> QED
  BY <1>16
\* A SYN and a FIN are sent with numbers that are recorded as sent.
LEMMA ControlKeeps ==
  ASSUME NEW s, NEW w, Live(s, w)
  PROVE  Keeps(s, send_controlpkt(s), w \cup ControlSeqs(s))
<1> DEFINE x == w \cup ControlSeqs(s)
           y == [s EXCEPT !.snd_nxt = 1]
           f == [s EXCEPT !.is_fin_sent = TRUE, !.snd_nxt = @ + 1]
<1>1. /\ s \in Stream /\ s.snd_nxt \in Nat /\ s.snd_nxt + 1 \in Nat
      /\ s.head_seq \in Nat /\ s.on_hash_table
  BY DEF Live, Stream
<1>2. \/ /\ s.state = SYN_RCVD /\ ControlSeqs(s) = {0}
         /\ send_controlpkt(s) = AddtoRTOList(y)
      \/ /\ ControlIsFin(s) /\ send_controlpkt(s) = AddtoRTOList(f)
      \/ s.state = CLOSED /\ send_controlpkt(s) = DestroyTcpStream(s)
      \/ s.state # SYN_RCVD /\ send_controlpkt(s) = s
  BY DEF send_controlpkt, ControlSeqs, ControlIsFin, send_syn, send_fin
<1>3. y \in Stream /\ f \in Stream
  BY <1>1, Zenon DEF Stream
<1>4. /\ y.state = s.state /\ y.on_hash_table = s.on_hash_table
      /\ y.snd_una = s.snd_una /\ y.head_seq = s.head_seq /\ y.len = s.len
      /\ y.sndbuf = s.sndbuf /\ y.fss = s.fss /\ SameLists(s, y)
  BY <1>1 DEF Stream, SameLists
<1>5. /\ f.state = s.state /\ f.on_hash_table = s.on_hash_table
      /\ f.snd_nxt = s.snd_nxt + 1
      /\ f.snd_una = s.snd_una /\ f.head_seq = s.head_seq /\ f.len = s.len
      /\ f.sndbuf = s.sndbuf /\ f.fss = s.fss /\ SameLists(s, f)
  BY <1>1 DEF Stream, SameLists
<1> HIDE DEF y, f
<1>6. ASSUME s.state = SYN_RCVD, ControlSeqs(s) = {0}
      PROVE  Keeps(s, AddtoRTOList(y), x)
  <2>1. SeqInv(y, x)
    BY <1>4, <1>6 DEF Live, SeqInv
  <2>2. Keeps(s, y, x)
    BY <1>4, <2>1 DEF Live, Keeps, SameLists, WaitInv, FlushInv
  <2> QED
    BY <1>3, <2>2, QuietOperations, KeepsQuiet
<1>7. ASSUME ControlIsFin(s) PROVE Keeps(s, AddtoRTOList(f), x)
  <2>1. s.state \in {LAST_ACK, FIN_WAIT_1, CLOSING}
    BY <1>7 DEF ControlIsFin
  <2>2. SeqInv(f, x)
    BY <1>1, <1>5, <2>1 DEF Live, SeqInv
  <2>3. Keeps(s, f, x)
    BY <1>5, <2>2 DEF Live, Keeps, SameLists, WaitInv, FlushInv
  <2> QED
    BY <1>3, <2>3, QuietOperations, KeepsQuiet
<1>8. ASSUME s.state # SYN_RCVD PROVE Keeps(s, s, x)
  <2>1. SeqInv(s, x)
    BY <1>8 DEF Live, SeqInv
  <2> QED
    BY <2>1 DEF Live, Keeps
<1>9. s.state = CLOSED => Keeps(s, DestroyTcpStream(s), x)
  BY <1>1, DestroyKeeps
<1> HIDE DEF x
<1>10. Keeps(s, send_controlpkt(s), x)
  BY <1>2, <1>6, <1>7, <1>8, <1>9
<1> QED
  BY <1>10 DEF x

\* A stream that has left its last list has no close waiting.
LEMMA EndWaitingKeeps ==
  ASSUME NEW s \in Stream, NEW w, SeqInv(s, w)
  PROVE  Keeps(s, EndWaiting(s), w)
<1> DEFINE t == [s EXCEPT !.control_list_waiting = FALSE]
<1>1. t \in Stream
  BY Zenon DEF Stream
<1>2. /\ t.state = s.state /\ t.on_hash_table = s.on_hash_table
      /\ SameSnd(s, t) /\ t.on_send_list = s.on_send_list
      /\ t.on_closeq = s.on_closeq /\ ~ t.control_list_waiting
  BY DEF Stream, SameSnd
<1>3. EndWaiting(s) = IF /\ s.control_list_waiting /\ ~ s.on_send_list
                         /\ ~ s.on_ack_list
                      THEN addto_controllist(t) ELSE s
  BY DEF EndWaiting
<1> HIDE DEF t
<1>4. Keeps(s, t, w)
  <2>1. SeqInv(t, w)
    BY <1>2 DEF SeqInv, SameSnd
  <2> QED
    BY <1>2, <2>1 DEF Keeps, WaitInv, FlushInv, SameSnd
<1>5. Keeps(s, addto_controllist(t), w)
  BY <1>1, <1>4, HandlerKeeps
<1>6. ~ (s.control_list_waiting /\ ~ s.on_send_list /\ ~ s.on_ack_list)
        => Keeps(s, s, w)
  BY DEF Keeps, WaitInv
<1> QED
  BY <1>3, <1>5, <1>6

\* What is flushed is data of a send buffer, and is recorded as sent.
LEMMA FlushKeeps ==
  ASSUME NEW s, NEW w, Live(s, w), s.state \in FlushState
  PROVE  LET n == Flushed(s)
             u == send_data(s, n)
             x == w \cup (s.snd_nxt .. s.snd_nxt + n - 1)
         IN  Keeps(s, u, x) /\ Keeps(s, enqueue_acklist(u), x)
<1> DEFINE n == Flushed(s)
           t == [s EXCEPT !.snd_nxt = @ + n]
           d == AddtoRTOList(t)
           u == send_data(s, n)
           x == w \cup (s.snd_nxt .. s.snd_nxt + n - 1)
<1>1. /\ s \in Stream /\ s.snd_nxt \in Nat /\ s.head_seq \in Nat
      /\ s.on_hash_table
  BY DEF Live, Stream
<1>2. n \in Nat /\ (n # 0 => s.len > 0)
  BY <1>1, FlushedType
<1>3. u = IF n = 0 THEN s ELSE d
  BY DEF send_data
<1> HIDE DEF n
<1>4. s.snd_nxt + n \in Nat
  BY <1>1, <1>2
<1>5. t \in Stream
  BY <1>1, <1>4, Zenon DEF Stream
<1>6. /\ t.state = s.state /\ t.on_hash_table = s.on_hash_table
      /\ t.snd_nxt = s.snd_nxt + n
      /\ t.snd_una = s.snd_una /\ t.head_seq = s.head_seq /\ t.len = s.len
      /\ t.sndbuf = s.sndbuf /\ t.fss = s.fss /\ SameLists(s, t)
  BY <1>1 DEF Stream, SameLists
<1> HIDE DEF t, x
<1>7. s.state # SYN_RCVD /\ s.state \notin {FIN_WAIT_2, TIME_WAIT}
  BY DEF FlushState
<1>8. Keeps(s, s, x)
  <2>1. SeqInv(s, x)
    BY <1>7 DEF Live, SeqInv
  <2> QED
    BY <2>1 DEF Live, Keeps
<1>9. ASSUME n # 0 PROVE Keeps(s, d, x)
  <2>1. s.sndbuf
    BY <1>1, <1>2, <1>9 DEF Live, StreamInv, SendInv
  <2>2. t.snd_nxt >= t.head_seq
    BY <1>1, <1>2, <1>6, <1>7 DEF Live, SeqInv
  <2>3. SeqInv(t, x)
    BY <1>6, <1>7, <2>1, <2>2 DEF Live, SeqInv
  <2>4. Keeps(s, t, x)
    BY <1>6, <2>3 DEF Live, Keeps, SameLists, WaitInv, FlushInv
  <2> QED
    BY <1>5, <2>4, QuietOperations, KeepsQuiet
<1>10. u \in Stream /\ Keeps(s, u, x)
  BY <1>1, <1>3, <1>5, <1>8, <1>9, AddRTOEffect
<1> HIDE DEF u
<1>11. Keeps(s, enqueue_acklist(u), x)
  BY <1>10, HandlerKeeps
<1> QED
  BY <1>10, <1>11 DEF u, x, n
-----------------------------------------------------------------------------
(* The invariant holds initially and is preserved by every step.            *)

\* A stream the first SYN has created has sent nothing and waits for nothing.
LEMMA SendingInit == Init => SendingInv
<1> SUFFICES ASSUME Init PROVE SendingInv
  OBVIOUS
<1> DEFINE c == [CreateTcpStream EXCEPT !.peer_wnd = MaxWnd]
           r == IF c.state = LISTEN THEN c.rcv_nxt + 1 ELSE c.rcv_nxt
           t == [c EXCEPT !.state = SYN_RCVD,
                          !.rcv_nxt = IF c.state = LISTEN THEN @ + 1 ELSE @]
<1>1. c \in Stream
  <2>1. /\ MaxWnd \in Nat /\ 0 \in Nat /\ 1 \in Nat
        /\ {} \in SUBSET (1 .. PeerData) /\ LISTEN \in State
    BY SizesAssumption DEF State
  <2> QED
    BY <2>1 DEF CreateTcpStream, Stream
<1>2. /\ c.state = LISTEN /\ c.rcv_nxt = 0 /\ c.snd_una = 0 /\ c.head_seq = 1
      /\ c.len = 0 /\ ~ c.sndbuf /\ ~ c.on_send_list
      /\ ~ c.control_list_waiting /\ ~ c.on_closeq
  BY DEF CreateTcpStream
<1>3. cs = addto_controllist(t) /\ sent = {} /\ abort = "none"
  BY DEF Init, handle_listen
<1> HIDE DEF c
<1>4. t \in Stream
  <2>1. SYN_RCVD \in State /\ r \in Nat
    BY <1>2 DEF State
  <2> HIDE DEF r
  <2>2. t = [c EXCEPT !.state = SYN_RCVD, !.rcv_nxt = r]
    BY DEF r
  <2> HIDE DEF t
  <2> QED
    BY <1>1, <2>1, <2>2, Zenon DEF Stream
<1>5. Moved(c, t, SYN_RCVD)
  BY <1>1 DEF Stream, Moved, SameSnd, SameLists
<1> HIDE DEF t
<1>6. SeqInv(t, sent) /\ WaitInv(t) /\ FlushInv(t) /\ ~ t.on_closeq
  BY <1>2, <1>3, <1>5
     DEF Moved, SameSnd, SameLists, SeqInv, WaitInv, FlushInv
<1>7. Quiet(t, cs)
  BY <1>3, <1>4, QuietOperations
<1>8. Keeps(t, cs, sent)
  BY <1>4, <1>6, <1>7, MovedKeeps DEF Quiet
<1>9. cs.state = SYN_RCVD
  BY <1>5, <1>7 DEF Quiet, Moved
<1> QED
  BY <1>6, <1>8, <1>9 DEF Keeps, SendingInv, CloseInv, ClosingState

\* A step of the stack thread that keeps the sending side consistent
\* preserves the invariant.
LEMMA KeepsStep ==
  ASSUME SendingInv, Keeps(cs, cs', sent'), app' = app, abort = "none"
  PROVE  SendingInv'
  BY DEF SendingInv, Keeps, CloseInv

\* Every step of the stack thread.
LEMMA StackSending ==
  ASSUME IInv, SendingInv, StackLoop \/ Network
  PROVE  SendingInv'
<1>0. /\ cs \in Stream /\ StreamInv(cs)
      /\ SeqInv(cs, sent) /\ WaitInv(cs)
  BY DEF IInv, TypeOK, SendingInv
<1>1. abort = "none" /\ app' = app
  BY DEF StackLoop, Network, NoFlows, CheckTimers, HandleSendq, HandleCloseq,
         HandleDestroyq, WriteControllist, WriteAcklist, FlushSendbuffer,
         SkipSendlist, LeaveSendlist, NoReceive, Receive, Stage
<1>2. LinkInv(cs) /\ FlushInv(cs)
  BY <1>1 DEF IInv, SendingInv
<1>3. cs.on_hash_table => Live(cs, sent)
  BY <1>0 DEF Live
<1>4. Keeps(cs, cs, sent)
  BY <1>0 DEF Keeps
<1>5. cs' = cs /\ sent' = sent => SendingInv'
  BY <1>1, <1>4, KeepsStep
<1>6. CASE NoFlows \/ SkipSendlist \/ NoReceive
  BY <1>5, <1>6 DEF NoFlows, SkipSendlist, NoReceive
<1>7. ASSUME NEW rto \in BOOLEAN, NEW idle \in BOOLEAN, CheckTimers(rto, idle)
      PROVE  SendingInv'
  <2>1. Keeps(cs, cs', sent) /\ sent' = sent
    BY <1>0, <1>2, <1>7, TimersKeep DEF CheckTimers
  <2> QED
    BY <1>1, <2>1, KeepsStep
<1>8. CASE HandleSendq
  <2> DEFINE t == [cs EXCEPT !.on_sendq = FALSE]
             u == addto_sendlist(t)
  <2>1. /\ cs' = IF cs.on_sendq THEN u ELSE cs
        /\ sent' = sent
        /\ cs.on_sendq /\ abort' = "none" => cs.sndbuf
    BY <1>8 DEF HandleSendq, Assert
  <2>2. /\ u.state = cs.state /\ u.on_hash_table = cs.on_hash_table
        /\ SameSnd(cs, u) /\ u.on_send_list = TRUE
        /\ u.on_closeq = cs.on_closeq
    BY <1>0 DEF addto_sendlist, Stream, SameSnd
  <2> HIDE DEF t, u
  <2>3. SeqInv(u, sent)
    BY <1>0, <2>2 DEF SeqInv, SameSnd
  <2>4. WaitInv(u) /\ (cs.sndbuf => FlushInv(u))
    BY <2>2 DEF WaitInv, FlushInv, SameSnd
  <2>5. CASE cs.on_sendq
    <3>1. cs' = u
      BY <2>1, <2>5
    <3>2. CloseInv'
      BY <1>1, <2>2, <3>1 DEF SendingInv, CloseInv
    <3> QED
      BY <2>1, <2>3, <2>4, <2>5, <3>1, <3>2 DEF SendingInv
  <2> QED
    BY <1>5, <2>1, <2>5
<1>9. CASE HandleCloseq
  <2>1. cs' = (IF cs.on_closeq THEN CloseStream(cs) ELSE cs) /\ sent' = sent
    BY <1>9 DEF HandleCloseq
  <2>2. CASE cs.on_closeq
    <3>1. app = "closed" /\ cs.state \notin ClosingState
      BY <2>2 DEF SendingInv, CloseInv
    <3>2. /\ SeqInv(cs', sent) /\ WaitInv(cs') /\ FlushInv(cs')
          /\ ~ cs'.on_closeq
      BY <1>0, <1>2, <2>1, <2>2, <3>1, CloseStreamKeeps
    <3> QED
      BY <1>1, <2>1, <3>1, <3>2 DEF SendingInv, CloseInv
  <2> QED
    BY <1>5, <2>1, <2>2
<1>10. CASE HandleDestroyq
  <2>1. /\ cs' = (IF destroyq THEN DestroyTcpStream(cs) ELSE cs)
        /\ sent' = sent /\ (destroyq => cs.state = CLOSED)
    BY <1>10 DEF HandleDestroyq, IInv
  <2>2. Keeps(cs, cs', sent)
    BY <1>0, <1>4, <2>1, DestroyKeeps
  <2> QED
    BY <1>1, <2>1, <2>2, KeepsStep
<1>11. CASE WriteControllist
  <2> DEFINE s == [cs EXCEPT !.on_control_list = FALSE]
  <2>1. \/ /\ cs.on_control_list /\ cs' = send_controlpkt(s)
           /\ sent' = sent \cup ControlSeqs(s)
        \/ cs' = cs /\ sent' = sent
    BY <1>11 DEF WriteControllist
  <2>2. s \in Stream
    BY <1>0, Zenon DEF Stream
  <2>3. Same(cs, s) /\ Quiet(cs, s)
    BY <1>0 DEF Stream, Same, SameState, SameData, SameTimers, Quiet, Moved,
                SameSnd, SameLists
  <2> HIDE DEF s
  <2>4. ASSUME cs.on_control_list, cs' = send_controlpkt(s),
               sent' = sent \cup ControlSeqs(s)
        PROVE  Keeps(cs, cs', sent')
    <3>1. cs.on_hash_table
      BY <1>2, <2>4 DEF LinkInv, Unlinked
    <3>2. Keeps(cs, s, sent)
      BY <1>0, <2>3, MovedKeeps DEF Quiet
    <3>3. Live(s, sent)
      <4>1. StreamInv(s) /\ s.on_hash_table
        BY <1>0, <2>2, <2>3, <3>1, SamePreserves
           DEF Same, SameState, Preserves
      <4> QED
        BY <2>2, <3>2, <4>1 DEF Live, Keeps
    <3>4. Keeps(s, cs', sent')
      BY <2>4, <3>3, ControlKeeps
    <3> QED
      BY <3>2, <3>4 DEF Keeps
  <2> QED
    BY <1>1, <1>5, <2>1, <2>4, KeepsStep
\* a stream that leaves a list
<1>12. ASSUME NEW s \in Stream, s.state = cs.state,
              s.on_hash_table = cs.on_hash_table, SameSnd(cs, s),
              s.on_send_list => cs.on_send_list, s.on_closeq = cs.on_closeq
       PROVE  Keeps(cs, EndWaiting(s), sent)
  <2>1. SeqInv(s, sent)
    BY <1>0, <1>12 DEF SeqInv, SameSnd
  <2>2. Keeps(s, EndWaiting(s), sent)
    BY <1>12, <2>1, EndWaitingKeeps
  <2>3. FlushInv(cs) => FlushInv(s)
    BY <1>12 DEF FlushInv, SameSnd
  <2> QED
    BY <1>12, <2>2, <2>3 DEF Keeps
<1>13. CASE WriteAcklist
  <2> DEFINE s == [cs EXCEPT !.on_ack_list = FALSE]
  <2>1. cs' = (IF cs.on_ack_list THEN EndWaiting(s) ELSE cs) /\ sent' = sent
    BY <1>13 DEF WriteAcklist
  <2>2. s \in Stream
    BY <1>0, Zenon DEF Stream
  <2>3. /\ s.state = cs.state /\ s.on_hash_table = cs.on_hash_table
        /\ SameSnd(cs, s) /\ (s.on_send_list => cs.on_send_list)
        /\ s.on_closeq = cs.on_closeq
    BY <1>0 DEF Stream, SameSnd
  <2> HIDE DEF s
  <2>4. Keeps(cs, EndWaiting(s), sent)
    BY <1>12, <2>2, <2>3
  <2> QED
    BY <1>1, <1>5, <2>1, <2>4, KeepsStep
<1>14. CASE LeaveSendlist
  <2> DEFINE s == [cs EXCEPT !.on_send_list = FALSE]
  <2>1. cs' = EndWaiting(s) /\ sent' = sent
    BY <1>14 DEF LeaveSendlist
  <2>2. s \in Stream
    BY <1>0, Zenon DEF Stream
  <2>3. /\ s.state = cs.state /\ s.on_hash_table = cs.on_hash_table
        /\ SameSnd(cs, s) /\ (s.on_send_list => cs.on_send_list)
        /\ s.on_closeq = cs.on_closeq
    BY <1>0 DEF Stream, SameSnd
  <2> HIDE DEF s
  <2>4. Keeps(cs, EndWaiting(s), sent)
    BY <1>12, <2>2, <2>3
  <2> QED
    BY <1>1, <2>1, <2>4, KeepsStep
<1>15. ASSUME NEW wack \in BOOLEAN, FlushSendbuffer(wack) PROVE SendingInv'
  <2>1. /\ cs.on_send_list /\ cs.state \in FlushState
        /\ \/ cs' = send_data(cs, Flushed(cs))
           \/ cs' = enqueue_acklist(send_data(cs, Flushed(cs)))
        /\ sent' = sent \cup (cs.snd_nxt .. cs.snd_nxt + Flushed(cs) - 1)
    BY <1>15 DEF FlushSendbuffer
  <2>2. Live(cs, sent)
    BY <1>2, <1>3, <2>1 DEF LinkInv, Unlinked
  <2>3. Keeps(cs, cs', sent')
    BY <2>1, <2>2, FlushKeeps
  <2> QED
    BY <1>1, <2>3, KeepsStep
<1>16. ASSUME NEW p \in Segments, NEW full \in BOOLEAN, Receive(p, full)
       PROVE  SendingInv'
  <2>1. /\ cs.on_hash_table /\ sent' = sent
        /\ cs' = nty_tcp_process(CheckTimestamp(cs, p), p, full)
    BY <1>16 DEF Receive
  <2>2. Keeps(cs, cs', sent')
    BY <1>3, <1>16, <2>1, SegmentsSane, SegmentsAcked, ProcessKeeps
  <2> QED
    BY <1>1, <2>2, KeepsStep
<1> QED
  BY <1>6, <1>7, <1>8, <1>9, <1>10, <1>11, <1>13, <1>14, <1>15, <1>16
     DEF StackLoop, Network

\* Every step of the application thread.  close() is called once, and leads
\* to the close queue in a state that is not yet closing, or already past it.
LEMMA AppSending ==
  ASSUME IInv, SendingInv, Application
  PROVE  SendingInv'
<1>0. cs \in Stream /\ StreamInv(cs) /\ SeqInv(cs, sent) /\ WaitInv(cs)
  BY DEF IInv, TypeOK, SendingInv
<1>1. abort = "none" /\ abort' = abort /\ sent' = sent /\ FlushInv(cs)
  BY DEF Application, Accept, SendCopy, SendEnqueue, CloseCheck, CloseEnqueue,
         DestroyEnqueue, AppStep, SendingInv
\* a step that leaves the sending side alone
<1>2. ASSUME cs'.state = cs.state, cs'.on_hash_table = cs.on_hash_table,
             SameSnd(cs, cs'), cs'.on_send_list = cs.on_send_list,
             cs'.on_ack_list = cs.on_ack_list,
             cs'.control_list_waiting = cs.control_list_waiting, CloseInv'
      PROVE  SendingInv'
  <2>1. SeqInv(cs', sent)
    BY <1>0, <1>2 DEF SeqInv, SameSnd
  <2>2. WaitInv(cs') /\ FlushInv(cs')
    BY <1>0, <1>1, <1>2 DEF WaitInv, FlushInv, SameSnd
  <2> QED
    BY <1>1, <1>2, <2>1, <2>2 DEF SendingInv
<1>3. app # "closed" => cs.state \notin ClosingState /\ ~ cs.on_closeq
  BY DEF SendingInv, CloseInv
<1>4. CASE Accept \/ DestroyEnqueue
  <2>1. cs' = cs /\ app # "closed"
    BY <1>4 DEF Accept, DestroyEnqueue, AppStep
  <2>2. CloseInv'
    BY <1>3, <2>1 DEF CloseInv
  <2> QED
    BY <1>2, <2>1, <2>2 DEF SameSnd
<1>5. CASE SendCopy
  <2> DEFINE u == [cs EXCEPT !.sndbuf = TRUE, !.len = @ + 1]
  <2>1. /\ cs' = u /\ cs.state \in {ESTABLISHED, CLOSE_WAIT}
        /\ app # "closed"
    BY <1>5 DEF SendCopy, AppStep
  <2>2. /\ u.state = cs.state /\ u.on_hash_table = cs.on_hash_table
        /\ u.sndbuf = TRUE /\ u.snd_nxt = cs.snd_nxt /\ u.snd_una = cs.snd_una
        /\ u.head_seq = cs.head_seq /\ u.on_send_list = cs.on_send_list
        /\ u.on_ack_list = cs.on_ack_list /\ u.on_closeq = cs.on_closeq
        /\ u.control_list_waiting = cs.control_list_waiting
    BY <1>0 DEF Stream
  <2> HIDE DEF u
  <2>3. SeqInv(u, sent)
    BY <1>0, <2>1, <2>2 DEF SeqInv
  <2>4. WaitInv(u) /\ FlushInv(u)
    BY <1>0, <2>2 DEF WaitInv, FlushInv
  <2>5. CloseInv'
    BY <1>3, <2>1, <2>2 DEF CloseInv
  <2> QED
    BY <1>1, <2>1, <2>3, <2>4, <2>5 DEF SendingInv
<1>6. CASE SendEnqueue
  <2>1. cs' = [cs EXCEPT !.on_sendq = @ \/ ~ cs.on_send_list]
    BY <1>6 DEF SendEnqueue
  <2>2. app # "closed"
    BY <1>6 DEF SendEnqueue, AppStep
  <2>3. /\ cs'.state = cs.state /\ cs'.on_hash_table = cs.on_hash_table
        /\ SameSnd(cs, cs') /\ cs'.on_send_list = cs.on_send_list
        /\ cs'.on_ack_list = cs.on_ack_list
        /\ cs'.control_list_waiting = cs.control_list_waiting
        /\ cs'.on_closeq = cs.on_closeq
    BY <1>0, <2>1 DEF Stream, SameSnd
  <2>4. CloseInv'
    BY <1>3, <2>2, <2>3 DEF CloseInv
  <2> QED
    BY <1>2, <2>3, <2>4
<1>7. CASE CloseCheck
  <2>1. cs' = [cs EXCEPT !.closed = TRUE] /\ app # "closed"
    BY <1>7 DEF CloseCheck, AppStep
  <2>2. /\ cs'.state = cs.state /\ cs'.on_hash_table = cs.on_hash_table
        /\ SameSnd(cs, cs') /\ cs'.on_send_list = cs.on_send_list
        /\ cs'.on_ack_list = cs.on_ack_list
        /\ cs'.control_list_waiting = cs.control_list_waiting
        /\ cs'.on_closeq = cs.on_closeq
    BY <1>0, <2>1 DEF Stream, SameSnd
  <2>3. CloseInv'
    BY <1>3, <2>1, <2>2 DEF CloseInv
  <2> QED
    BY <1>2, <2>2, <2>3
<1>8. CASE CloseEnqueue
  <2>1. /\ cs' = [cs EXCEPT !.on_closeq = TRUE] /\ app # "closed"
        /\ app' = "closed"
    BY <1>8 DEF CloseEnqueue, AppStep
  <2>2. /\ cs'.state = cs.state /\ cs'.on_hash_table = cs.on_hash_table
        /\ SameSnd(cs, cs') /\ cs'.on_send_list = cs.on_send_list
        /\ cs'.on_ack_list = cs.on_ack_list
        /\ cs'.control_list_waiting = cs.control_list_waiting
    BY <1>0, <2>1 DEF Stream, SameSnd
  <2>3. CloseInv'
    BY <1>3, <2>1, <2>2 DEF CloseInv
  <2> QED
    BY <1>2, <2>2, <2>3
<1> QED
  BY <1>4, <1>5, <1>6, <1>7, <1>8 DEF Application

\* Every step preserves the invariant.
LEMMA NextSending ==
  ASSUME IInv, SendingInv, [Next]_vars
  PROVE  SendingInv'
<1>1. CASE Next
  BY <1>1, StackSending, AppSending DEF Next
<1>2. CASE UNCHANGED vars
  <2>1. cs' = cs /\ sent' = sent /\ app' = app /\ abort' = abort
    BY <1>2 DEF vars
  <2> QED
    BY <2>1 DEF SendingInv, CloseInv
<1> QED
  BY <1>1, <1>2
-----------------------------------------------------------------------------
(* The theorems.                                                            *)

\* The invariant of the sending side is inductive relative to the stream's.
THEOREM SendingInductive == Spec => []SendingInv
<1>1. Init => SendingInv
  BY SendingInit
<1>2. IInv /\ SendingInv /\ [Next]_vars => SendingInv'
  BY NextSending
<1> QED
  BY <1>1, <1>2, StreamInductive, PTL DEF Spec

\* Whenever close() finds the stream on the send list or the ack list, the
\* writer that takes it off the last of them moves the close on: it never
\* waits for a list the stream has left.
THEOREM WaitingCloseIsServedHolds == Spec => []WaitingCloseIsServed
<1>1. SendingInv => WaitingCloseIsServed
  BY DEF SendingInv, WaitInv, WaitingCloseIsServed
<1> QED
  BY <1>1, SendingInductive, PTL

\* Both assertions of flush_sendbuffer hold for every stream write_datalist
\* hands to it, after any retransmission, acknowledgment and close.
THEOREM FlushableFromHeadHolds == Spec => []FlushableFromHead
<1>1. IInv /\ SendingInv => FlushableFromHead
  <2> SUFFICES ASSUME IInv, SendingInv, cs.on_send_list,
                      cs.state \in FlushState, abort = "none"
               PROVE  cs.sndbuf /\ cs.snd_nxt >= cs.head_seq
    BY DEF FlushableFromHead
  <2>1. cs.on_hash_table
    BY DEF IInv, LinkInv, Unlinked
  <2>2. cs.state # SYN_RCVD
    BY DEF FlushState
  <2> QED
    BY <2>1, <2>2 DEF SendingInv, FlushInv, SeqInv
<1> QED
  BY <1>1, StreamInductive, SendingInductive, PTL

\* A stream whose FIN is acknowledged has put every number up to the FIN's on
\* the wire and has nothing left in its send buffer.
THEOREM ClosedIsCompleteHolds == Spec => []ClosedIsComplete
<1>1. SendingInv => ClosedIsComplete
  BY DEF SendingInv, SeqInv, ClosedIsComplete
<1> QED
  BY <1>1, SendingInductive, PTL
=============================================================================
