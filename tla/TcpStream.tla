------------------------------ MODULE TcpStream ------------------------------
(***************************************************************************)
(* The life of one passively opened connection: the stack thread           *)
(* (nty_tcp_run) that processes segments, timers, API queues and the       *)
(* control, ack and send lists, and the application thread that accepts,   *)
(* sends and closes.                                                       *)
(*                                                                         *)
(* The stream and its snd and rcv parts are one record, cs; the handlers   *)
(* are operators from stream to stream, composed as the C functions call   *)
(* one another.  Sequence numbers are relative to iss and irs, so that our *)
(* SYN and the peer's have number 0 and data starts at 1; data and windows *)
(* are counted in segments of one mss.  Membership of a TAILQ is its flag: *)
(* on_control_list, on_send_list, on_ack_list, on_timewait_list,           *)
(* on_timeout_list, and on_rto for on_rto_idx >= 0.                        *)
(***************************************************************************)
EXTENDS Integers, FiniteSets

CONSTANTS MaxSend,      \* segments the application sends
          PeerData,     \* segments the peer sends before its FIN
          MaxWnd,       \* the largest window the peer advertises
          TCP_MAX_RTX,  \* retransmissions before the connection is given up
          MaxPkts,      \* bound on the number of segments received
          MaxRto,       \* bound on consecutive retransmission timeouts
          IdleTimeout,  \* can the connection be idle for NTY_TCP_TIMEOUT?
          OtherFlows    \* can other connections keep flow_cnt above 0?

ASSUME SizesAssumption ==
    {MaxSend, PeerData, MaxWnd, TCP_MAX_RTX, MaxPkts, MaxRto} \subseteq Nat
ASSUME FlagsAssumption == {IdleTimeout, OtherFlows} \subseteq BOOLEAN

VARIABLES cs,       \* the stream
          acceptq,  \* is the stream in the listener's acceptq?
          destroyq, \* is the stream in tcp->destroyq?
          app,      \* where the application thread is
          pc,       \* where the stack thread is in the loop of nty_tcp_run
          sent,     \* the sequence numbers put on the wire so far
          npkts,    \* segments received so far
          abort     \* the assertion that stopped the process, or "none"

vars == <<cs, acceptq, destroyq, app, pc, sent, npkts, abort>>

CLOSED == "CLOSED"
LISTEN == "LISTEN"
SYN_RCVD == "SYN_RCVD"
ESTABLISHED == "ESTABLISHED"
CLOSE_WAIT == "CLOSE_WAIT"
FIN_WAIT_1 == "FIN_WAIT_1"
CLOSING == "CLOSING"
LAST_ACK == "LAST_ACK"
FIN_WAIT_2 == "FIN_WAIT_2"
TIME_WAIT == "TIME_WAIT"

State == {CLOSED, LISTEN, SYN_RCVD, ESTABLISHED, CLOSE_WAIT, FIN_WAIT_1,
          CLOSING, LAST_ACK, FIN_WAIT_2, TIME_WAIT}

\* NTY_TCP_TIMEWAIT is a duration, 0; as a state it is NTY_TCP_CLOSED.
NTY_TCP_TIMEWAIT == CLOSED

\* The differences of flush_sendbuffer are unsigned: a negative one is a huge
\* number.  SeqSpace stands for 2^32.
SeqSpace == 2^16

Max2(a, b) == IF a >= b THEN a ELSE b
Min2(a, b) == IF a <= b THEN a ELSE b
-----------------------------------------------------------------------------
(* The segments a peer can send.  Its SYN is number 0, its data 1..PeerData *)
(* and its FIN PeerData + 1.  Old and duplicated segments are among them,   *)
(* and it acknowledges any prefix of what was put on the wire.              *)

Segment == [syn : BOOLEAN, ack : BOOLEAN, fin : BOOLEAN, rst : BOOLEAN,
            seq : 0 .. PeerData + 2, ack_seq : Nat, len : 0 .. 1,
            window : 0 .. MaxWnd, old_ts : BOOLEAN]

Ackable == {k \in 1 .. MaxSend + 2 : 0 .. k - 1 \subseteq sent}

Plain(q, a, n, w) ==
    [syn |-> FALSE, ack |-> TRUE, fin |-> FALSE, rst |-> FALSE,
     seq |-> q, ack_seq |-> a, len |-> n, window |-> w, old_ts |-> FALSE]

\* old_ts: an ACK that was delayed and carries an older timestamp
Segments ==
    UNION {
      { [Plain(q, a, 0, MaxWnd) EXCEPT !.old_ts = TRUE]
                          : q \in 1 .. PeerData + 2, a \in Ackable },
      { Plain(q, a, 0, w) : q \in 1 .. PeerData + 2,
                            a \in Ackable, w \in 0 .. MaxWnd },
      { Plain(q, a, 1, w) : q \in 1 .. PeerData,
                            a \in Ackable, w \in 0 .. MaxWnd },
      { [Plain(PeerData + 1, a, 0, MaxWnd) EXCEPT !.fin = TRUE]
                          : a \in Ackable },
      { [Plain(PeerData, a, 1, MaxWnd) EXCEPT !.fin = TRUE]
                          : a \in IF PeerData > 0 THEN Ackable ELSE {} },
      { [Plain(q, a, 0, 0) EXCEPT !.rst = TRUE] : q \in 1 .. PeerData + 2,
                                                  a \in Ackable },
      { [Plain(0, 0, 0, MaxWnd) EXCEPT !.syn = TRUE, !.ack = FALSE] } }
-----------------------------------------------------------------------------
(* Lists, timers and destruction.                                           *)

addto_controllist(s) == [s EXCEPT !.on_control_list = TRUE]

addto_sendlist(s) == [s EXCEPT !.on_send_list = TRUE]

enqueue_acklist(s) == [s EXCEPT !.on_ack_list = TRUE]

AddtoRTOList(s) == [s EXCEPT !.on_rto = TRUE]

RemoveFromRTOList_Forgotten(s) == s

RemoveFromRTOList(s) == [s EXCEPT !.on_rto = FALSE]

AddtoTimewaitList(s) ==
    IF s.on_timewait_list
    THEN s
    ELSE [RemoveFromRTOList(s) EXCEPT !.on_timewait_list = TRUE]

\* a segment in TIME_WAIT restarts the wait of a stream that is waiting
RestartTimewait(s) ==
    IF s.on_timewait_list
    THEN AddtoTimewaitList([s EXCEPT !.on_timewait_list = FALSE])
    ELSE s

UpdateRetransmissionTimer(s) ==
    [s EXCEPT !.nrtx = 0, !.on_rto = s.snd_nxt > s.snd_una]

DestroyTcpStream_KeepsTimeout(s) ==
    [s EXCEPT !.on_control_list = FALSE, !.on_send_list = FALSE,
              !.on_ack_list = FALSE, !.on_rto = FALSE,
              !.on_timewait_list = FALSE,
              !.sndbuf = FALSE, !.recvbuf = {}, !.on_hash_table = FALSE]

DestroyTcpStream(s) ==
    [s EXCEPT !.on_control_list = FALSE, !.on_send_list = FALSE,
              !.on_ack_list = FALSE, !.on_rto = FALSE,
              !.on_timewait_list = FALSE, !.on_timeout_list = FALSE,
              !.sndbuf = FALSE, !.recvbuf = {}, !.on_hash_table = FALSE]

CloseAndDestroy(s) == DestroyTcpStream([s EXCEPT !.state = CLOSED])
-----------------------------------------------------------------------------
(* Sending.  send_tcppkt stamps a FIN with fss and everything else with     *)
(* snd_nxt, and arms the retransmission timer for what occupies sequence    *)
(* space.                                                                   *)

send_syn(s) == AddtoRTOList([s EXCEPT !.snd_nxt = 1])

send_fin(s) ==
    AddtoRTOList([s EXCEPT !.is_fin_sent = TRUE, !.snd_nxt = @ + 1])

\* n segments of data
send_data(s, n) ==
    IF n = 0 THEN s ELSE AddtoRTOList([s EXCEPT !.snd_nxt = @ + n])

\* send_controlpkt returns a negative value: the control packet has to wait
ControlMustWait(s) ==
    /\ s.state \in {LAST_ACK, FIN_WAIT_1, CLOSED}
    /\ s.on_send_list \/ s.on_ack_list

ControlIsFin_InTimeWait(s) ==
    \/ s.state \in {LAST_ACK, FIN_WAIT_1, TIME_WAIT}
    \/ s.state = CLOSING /\ (s.is_fin_sent => s.snd_nxt = s.fss)

ControlIsFin(s) ==
    \/ s.state \in {LAST_ACK, FIN_WAIT_1}
    \/ s.state = CLOSING /\ (s.is_fin_sent => s.snd_nxt = s.fss)

send_controlpkt(s) ==
    CASE s.state = SYN_RCVD -> send_syn(s)
      [] ControlIsFin(s)    -> send_fin(s)
      [] s.state = CLOSED   -> DestroyTcpStream(s)
      [] OTHER              -> s

ControlSeqs(s) ==
    CASE s.state = SYN_RCVD -> {0}
      [] ControlIsFin(s)    -> {s.fss}
      [] OTHER              -> {}

(* flush_sendbuffer: the j-th segment of a call (from 0) sees the window    *)
(* reduced by j, and has to fit it together with what is in flight.         *)

Window(s) == Min2(s.cwnd, s.peer_wnd)
Buffered(s) == (s.head_seq + s.len - s.snd_nxt) % SeqSpace
InFlight(s) == (s.snd_nxt - s.snd_una) % SeqSpace

Fits(s, j) ==
    /\ j < Buffered(s)
    /\ j < Window(s)
    /\ InFlight(s) + j + 1 <= Window(s) - j

Flushed(s) ==
    IF s.len = 0 THEN 0 ELSE Cardinality({j \in 0 .. MaxWnd : Fits(s, j)})

\* the call ends with packets = -3: there is more, and in-flight data
\* leaves no room for it
FlushBlocked(s) ==
    LET n == Flushed(s)
    IN  s.len > 0 /\ n < Buffered(s) /\ n < Window(s)

PeerWindowFull(s) == InFlight(s) + Flushed(s) + 1 > s.peer_wnd
-----------------------------------------------------------------------------
(* nty_tcp_process and its handlers.                                        *)

\* The receive buffer as the set of segments it has stored: the number of the
\* first one that is missing, head_seq + merged_len.
FirstGap(r) == 1 + Cardinality({k \in r : 1 .. k \subseteq r})

process_payload_ByNewData(s, p) ==
    IF p.seq + p.len < s.rcv_nxt
    THEN s
    ELSE [s EXCEPT !.recvbuf = @ \cup {p.seq},
                   !.rcv_nxt = IF p.seq \in s.recvbuf THEN p.seq ELSE p.seq + p.len]

process_payload(s, p) ==
    IF p.seq + p.len < s.rcv_nxt
    THEN s
    ELSE LET r == s.recvbuf \cup {p.seq}
         IN  [s EXCEPT !.recvbuf = r, !.rcv_nxt = FirstGap(r)]

\* a segment with data is stored and acknowledged, at once or aggregated
TakePayload(s, p) ==
    IF p.len > 0 THEN enqueue_acklist(process_payload(s, p)) ELSE s

AcksFin_OffByOne(s, p) == p.ack_seq >= s.fss

AcksFin(s, p) == s.is_fin_sent /\ p.ack_seq = s.fss + 1

process_ack_KeepsSndNxt(s, p) ==
    LET n == p.ack_seq - s.head_seq
    IN  IF n <= 0 \/ n > s.len
        THEN s
        ELSE UpdateRetransmissionTimer(
               [s EXCEPT !.head_seq = p.ack_seq, !.len = @ - n,
                         !.snd_una = p.ack_seq])

process_ack(s, p) ==
    LET a == IF /\ s.state \in {FIN_WAIT_1, FIN_WAIT_2, CLOSING, CLOSE_WAIT,
                                LAST_ACK}
                /\ AcksFin(s, p)
             THEN p.ack_seq - 1
             ELSE p.ack_seq
        n == a - s.head_seq
        t == [s EXCEPT !.snd_nxt = Max2(@, a),
                       !.on_send_list = @ /\ ~(a > s.snd_nxt /\ s.len = 0)]
    IN  IF a > s.head_seq + s.len
        THEN s
        ELSE IF n <= 0
        THEN t
        ELSE UpdateRetransmissionTimer(
               [t EXCEPT !.cwnd = IF @ < s.ssthresh THEN @ + n ELSE @,
                         !.head_seq = a, !.len = @ - n, !.snd_una = a])

\* the calls of process_ack are guarded by the presence of a send buffer
TakeAck(s, p) == IF p.ack /\ s.sndbuf THEN process_ack(s, p) ELSE s

InSequenceFin_AnyOrder(s, p) == p.fin

InSequenceFin(s, p) == p.fin /\ p.seq + p.len = s.rcv_nxt

\* the FIN is counted and the stream moves on
TakeFin(s, st) == [s EXCEPT !.state = st, !.rcv_nxt = @ + 1]

handle_listen(s) ==
    addto_controllist(
      [s EXCEPT !.state = SYN_RCVD,
                !.rcv_nxt = IF s.state = LISTEN THEN @ + 1 ELSE @])

handle_established(s, p) ==
    IF p.syn
    THEN addto_controllist([s EXCEPT !.snd_nxt = p.ack_seq])
    ELSE LET t == TakeAck(TakePayload(s, p), p)
         IN  IF ~ p.fin
             THEN t
             ELSE IF InSequenceFin(t, p)
             THEN addto_controllist(TakeFin(t, CLOSE_WAIT))
             ELSE enqueue_acklist(t)

\* full: StreamEnqueue found the listener's acceptq full
handle_syn_rcvd(s, p, full) ==
    IF p.ack
    THEN LET t == RemoveFromRTOList(
                    [s EXCEPT !.snd_una = @ + 1, !.snd_nxt = p.ack_seq,
                              !.cwnd = IF @ = 0 THEN 2 ELSE 1, !.nrtx = 0,
                              !.rcv_nxt = 1, !.state = ESTABLISHED,
                              !.on_timeout_list = TRUE])
         IN  IF full
             THEN addto_controllist([t EXCEPT !.state = CLOSED])
             ELSE t
    ELSE addto_controllist([s EXCEPT !.snd_nxt = 0])

process_syn_rcvd(s, p, full) ==
    IF p.syn
    THEN handle_listen(s)
    ELSE LET t == handle_syn_rcvd(s, p, full)
         IN  IF p.len > 0 /\ t.state = ESTABLISHED
             THEN handle_established(t, p)
             ELSE t

handle_close_wait(s, p) ==
    IF p.seq < s.rcv_nxt
    THEN addto_controllist(s)
    ELSE IF s.sndbuf THEN process_ack(s, p) ELSE s

handle_last_ack(s, p) ==
    LET t == TakeAck(s, p)
    IN  IF p.seq < s.rcv_nxt
        THEN s
        ELSE IF ~ p.ack
        THEN addto_controllist(s)
        ELSE IF ~ t.is_fin_sent
        THEN t
        ELSE IF AcksFin(t, p)
        THEN CloseAndDestroy(t)
        ELSE addto_controllist(t)

handle_fin_wait_1(s, p) ==
    LET t == TakeAck(s, p)
        u == IF AcksFin(t, p)
             THEN RemoveFromRTOList(
                    [t EXCEPT !.snd_una = p.ack_seq,
                              !.snd_nxt = Max2(@, p.ack_seq), !.nrtx = 0,
                              !.state = FIN_WAIT_2])
             ELSE t
        v == TakePayload(u, p)
    IN  IF p.seq < s.rcv_nxt
        THEN addto_controllist(s)
        ELSE IF ~ p.ack
        THEN s
        ELSE IF ~ InSequenceFin(v, p)
        THEN v
        ELSE addto_controllist(
               IF v.state = FIN_WAIT_1
               THEN TakeFin(v, CLOSING)
               ELSE AddtoTimewaitList(TakeFin(v, NTY_TCP_TIMEWAIT)))

handle_fin_wait_2(s, p) ==
    LET v == TakePayload(TakeAck(s, p), p)
    IN  IF ~ p.ack
        THEN s
        ELSE IF ~ InSequenceFin(v, p)
        THEN v
        ELSE addto_controllist(AddtoTimewaitList(TakeFin(v, TIME_WAIT)))

handle_closing(s, p) ==
    LET t == TakeAck(s, p)
    IN  IF ~ AcksFin(t, p)
        THEN t
        ELSE AddtoTimewaitList(
               [UpdateRetransmissionTimer(
                  [t EXCEPT !.snd_una = p.ack_seq, !.snd_nxt = p.ack_seq])
                EXCEPT !.state = TIME_WAIT])

process_rst(s, p) ==
    CASE s.state = SYN_RCVD ->
           IF p.ack_seq = s.snd_nxt THEN CloseAndDestroy(s) ELSE s
      [] s.state \in {FIN_WAIT_1, FIN_WAIT_2, LAST_ACK, CLOSING, TIME_WAIT} ->
           CloseAndDestroy(s)
      [] OTHER ->
           IF s.on_closeq \/ s.on_closeq_int
           THEN s
           ELSE [s EXCEPT !.state = CLOSE_WAIT]

(* validseq: the end of the segment lies in the receive window, which is    *)
(* larger than what the peer sends.                                         *)
SeqIsValid(s, p) == p.seq + p.len >= s.rcv_nxt

RejectSeq(s, p) ==
    CASE p.rst                  -> s
      [] s.state = ESTABLISHED  -> enqueue_acklist(s)
      [] s.state = TIME_WAIT    -> addto_controllist(AddtoTimewaitList(s))
      [] OTHER                  -> addto_controllist(s)

Dispatch(s, p, full) ==
    CASE s.state = LISTEN      -> handle_listen(s)
      [] s.state = SYN_RCVD    -> process_syn_rcvd(s, p, full)
      [] s.state = ESTABLISHED -> handle_established(s, p)
      [] s.state = CLOSE_WAIT  -> handle_close_wait(s, p)
      [] s.state = LAST_ACK    -> handle_last_ack(s, p)
      [] s.state = FIN_WAIT_1  -> handle_fin_wait_1(s, p)
      [] s.state = FIN_WAIT_2  -> handle_fin_wait_2(s, p)
      [] s.state = CLOSING     -> handle_closing(s, p)
      [] s.state = TIME_WAIT   -> addto_controllist(RestartTimewait(s))
      [] s.state = CLOSED      -> s

nty_tcp_process(s, p, full) ==
    LET t == [s EXCEPT !.peer_wnd = p.window, !.have_reset = @ \/ p.rst]
    IN  IF s.state \notin {CLOSED, LISTEN, SYN_RCVD} /\ ~ SeqIsValid(s, p)
        THEN RejectSeq(s, p)
        ELSE IF p.rst /\ s.state \notin {CLOSED, LISTEN}
        THEN process_rst(t, p)
        ELSE Dispatch(t, p, full)

\* A timestamp older than the last one is acknowledged at once, before the
\* sequence number is looked at.
CheckTimestamp(s, p) ==
    IF p.old_ts /\ s.state \notin {CLOSED, LISTEN, SYN_RCVD}
    THEN enqueue_acklist(s)
    ELSE s
-----------------------------------------------------------------------------
(* The retransmission timeout.                                              *)

HandleRTO(s) ==
    LET t == [s EXCEPT !.on_rto = FALSE, !.nrtx = @ + 1, !.cwnd = 1,
                       !.ssthresh = Max2(2, Window(s) \div 2),
                       !.snd_nxt = s.snd_una]
    IN  CASE s.nrtx >= TCP_MAX_RTX -> CloseAndDestroy(s)
          [] s.nrtx < TCP_MAX_RTX /\ s.state \in {ESTABLISHED, CLOSE_WAIT} ->
               addto_sendlist(t)
          [] s.nrtx < TCP_MAX_RTX /\ s.state \in {FIN_WAIT_1, CLOSING, LAST_ACK} ->
               IF t.snd_nxt < s.fss
               THEN addto_sendlist([t EXCEPT !.on_control_list = FALSE,
                                             !.control_list_waiting = TRUE])
               ELSE addto_controllist(t)
          [] OTHER -> addto_controllist(t)

\* the states HandleRTO implements; in the others it asserts
RtoState == {SYN_RCVD, ESTABLISHED, CLOSE_WAIT, LAST_ACK, FIN_WAIT_1, CLOSING}

CheckTimewaitExpire_Unlinks(s) ==
    IF s.on_timewait_list /\ s.on_control_list
    THEN [s EXCEPT !.on_timewait_list = FALSE]
    ELSE IF s.on_timewait_list THEN CloseAndDestroy(s) ELSE s

CheckTimewaitExpire(s) ==
    IF s.on_timewait_list /\ ~ s.on_control_list THEN CloseAndDestroy(s) ELSE s
-----------------------------------------------------------------------------
CreateTcpStream ==
    [state |-> LISTEN, on_hash_table |-> TRUE, closed |-> FALSE,
     have_reset |-> FALSE, on_control_list |-> FALSE, on_send_list |-> FALSE,
     on_ack_list |-> FALSE, control_list_waiting |-> FALSE, on_rto |-> FALSE,
     on_timewait_list |-> FALSE, on_timeout_list |-> FALSE,
     on_sendq |-> FALSE, on_closeq |-> FALSE, on_closeq_int |-> FALSE,
     sndbuf |-> FALSE, head_seq |-> 1, len |-> 0, snd_nxt |-> 0,
     snd_una |-> 0, peer_wnd |-> 0, cwnd |-> 0, ssthresh |-> 0, nrtx |-> 0,
     fss |-> 0, is_fin_sent |-> FALSE, rcv_nxt |-> 0, recvbuf |-> {}]

\* The first SYN has just created the stream and handle_listen has run.
Init ==
    /\ cs = handle_listen([CreateTcpStream EXCEPT !.peer_wnd = MaxWnd])
    /\ acceptq = FALSE
    /\ destroyq = FALSE
    /\ app = "none"
    /\ pc = "timer"
    /\ sent = {}
    /\ npkts = 0
    /\ abort = "none"

\* a step of the stack thread from one stage of its loop to the next
Stage(from, to) ==
    /\ abort = "none"
    /\ pc = from
    /\ pc' = to

Assert(cond, name) == abort' = IF cond THEN abort ELSE name

(* The timers run, and the API queues are served, while flow_cnt > 0; other *)
(* connections, which come and go, may keep it there.                       *)
flow_cnt_positive == cs.on_hash_table \/ OtherFlows

NoFlows ==
    /\ Stage("timer", "control")
    /\ ~ cs.on_hash_table
    /\ UNCHANGED <<cs, acceptq, destroyq, app, sent, npkts, abort>>

CheckTimers(rto, idle) ==
    /\ Stage("timer", "sendq")
    /\ flow_cnt_positive
    /\ rto => cs.on_rto /\ cs.nrtx < MaxRto
    /\ idle => IdleTimeout /\ cs.on_timeout_list
    /\ LET s == CheckTimewaitExpire(IF rto THEN HandleRTO(cs) ELSE cs)
       IN  cs' = IF idle /\ s.on_timeout_list THEN CloseAndDestroy(s) ELSE s
    /\ Assert(rto => \/ cs.nrtx >= TCP_MAX_RTX
                     \/ /\ cs.state \in RtoState
                        /\ cs.state \in {ESTABLISHED, CLOSE_WAIT} => cs.sndbuf,
              "HandleRTO")
    /\ UNCHANGED <<acceptq, destroyq, app, sent, npkts>>

(* nty_tcp_handle_apicall: sendq, then closeq, then destroyq.               *)
HandleSendq ==
    /\ Stage("sendq", "closeq")
    /\ cs' = IF cs.on_sendq
             THEN addto_sendlist([cs EXCEPT !.on_sendq = FALSE])
             ELSE cs
    /\ Assert(cs.on_sendq => cs.sndbuf, "addto_sendlist")
    /\ UNCHANGED <<acceptq, destroyq, app, sent, npkts>>

CloseState(st) ==
    CASE st = ESTABLISHED -> FIN_WAIT_1
      [] st = CLOSE_WAIT  -> LAST_ACK
      [] OTHER            -> st

CloseStream(s) ==
    LET t == [s EXCEPT !.on_closeq = FALSE,
                       !.fss = IF s.sndbuf THEN s.head_seq + s.len ELSE s.snd_nxt,
                       !.on_timeout_list = FALSE]
        u == [t EXCEPT !.state = CloseState(@)]
    IN  IF s.have_reset
        THEN IF s.state # CLOSED THEN CloseAndDestroy(t) ELSE t
        ELSE IF s.on_control_list
        THEN [t EXCEPT !.on_closeq_int = TRUE]
        ELSE IF s.on_send_list \/ s.on_ack_list
        THEN [u EXCEPT !.control_list_waiting = TRUE]
        ELSE IF s.state # CLOSED
        THEN addto_controllist(u)
        ELSE t

HandleCloseq ==
    /\ Stage("closeq", "destroyq")
    /\ cs' = IF cs.on_closeq THEN CloseStream(cs) ELSE cs
    /\ UNCHANGED <<acceptq, destroyq, app, sent, npkts, abort>>

HandleDestroyq ==
    /\ Stage("destroyq", "control")
    /\ destroyq' = FALSE
    /\ cs' = IF destroyq THEN DestroyTcpStream(cs) ELSE cs
    /\ Assert(destroyq => cs.on_hash_table, "DestroyTcpStream")
    /\ UNCHANGED <<acceptq, app, sent, npkts>>

(* nty_tcp_write_chunks: the control list, the ack list, the send list.     *)
WriteControllist ==
    /\ Stage("control", "ack")
    /\ LET s == [cs EXCEPT !.on_control_list = FALSE]
       IN  IF cs.on_control_list /\ ~ ControlMustWait(s)
           THEN /\ cs' = send_controlpkt(s)
                /\ sent' = sent \cup ControlSeqs(s)
           ELSE UNCHANGED <<cs, sent>>
    /\ UNCHANGED <<acceptq, destroyq, app, npkts, abort>>

\* A close that waited for the ack list and the send list gets its turn.
EndWaiting(s) ==
    IF s.control_list_waiting /\ ~ s.on_send_list /\ ~ s.on_ack_list
    THEN addto_controllist([s EXCEPT !.control_list_waiting = FALSE])
    ELSE s

\* The pending ACKs are sent, or dropped in a state that sends none.
WriteAcklist ==
    /\ Stage("ack", "data")
    /\ cs' = IF cs.on_ack_list
             THEN EndWaiting([cs EXCEPT !.on_ack_list = FALSE])
             ELSE cs
    /\ UNCHANGED <<acceptq, destroyq, app, sent, npkts, abort>>

FlushState == {ESTABLISHED, CLOSE_WAIT, FIN_WAIT_1, LAST_ACK}

\* write_datalist, up to the return of flush_sendbuffer; wack: the last ACK is
\* old enough to ask a peer whose window is full for an update
FlushSendbuffer(wack) ==
    /\ cs.on_send_list
    /\ cs.state = ESTABLISHED => ~ cs.on_control_list
    /\ cs.state \in FlushState
    /\ Stage("data", IF FlushBlocked(cs) THEN "io" ELSE "unlist")
    /\ wack => FlushBlocked(cs) /\ PeerWindowFull(cs)
    /\ LET t == send_data(cs, Flushed(cs))
       IN  cs' = IF wack THEN enqueue_acklist(t) ELSE t
    /\ sent' = sent \cup (cs.snd_nxt .. cs.snd_nxt + Flushed(cs) - 1)
    /\ Assert(cs.sndbuf /\ (cs.len > 0 => cs.snd_nxt >= cs.head_seq),
              "flush_sendbuffer")
    /\ UNCHANGED <<acceptq, destroyq, app, npkts>>

SkipSendlist ==
    /\ Stage("data", IF cs.on_send_list /\ cs.state # ESTABLISHED
                     THEN "unlist" ELSE "io")
    /\ \/ ~ cs.on_send_list
       \/ cs.state = ESTABLISHED /\ cs.on_control_list
       \/ cs.state \notin FlushState
    /\ UNCHANGED <<cs, acceptq, destroyq, app, sent, npkts, abort>>

LeaveSendlist_NoControl ==
    /\ Stage("unlist", "io")
    /\ cs' = [cs EXCEPT !.on_send_list = FALSE]
    /\ UNCHANGED <<acceptq, destroyq, app, sent, npkts, abort>>

\* write_datalist after flush_sendbuffer has released the write lock
LeaveSendlist ==
    /\ Stage("unlist", "io")
    /\ cs' = EndWaiting([cs EXCEPT !.on_send_list = FALSE])
    /\ UNCHANGED <<acceptq, destroyq, app, sent, npkts, abort>>

(* One segment is read and processed, or the NIC is only written to.        *)
Receive(p, full) ==
    /\ Stage("io", "timer")
    /\ npkts < MaxPkts
    /\ cs.on_hash_table
    /\ p \in Segments
    /\ cs' = nty_tcp_process(CheckTimestamp(cs, p), p, full)
    /\ acceptq' = (acceptq \/ (cs.state = SYN_RCVD /\ cs'.state \in {ESTABLISHED, CLOSE_WAIT}))
    /\ npkts' = npkts + 1
    /\ UNCHANGED <<destroyq, app, sent, abort>>

NoReceive ==
    /\ Stage("io", "timer")
    /\ UNCHANGED <<cs, acceptq, destroyq, app, sent, npkts, abort>>
-----------------------------------------------------------------------------
(* The application thread.                                                  *)

AppStep(from, to) ==
    /\ abort = "none"
    /\ app = from
    /\ app' = to
    /\ UNCHANGED <<pc, sent, npkts, abort>>

Accept ==
    /\ AppStep("none", "open")
    /\ acceptq
    /\ acceptq' = FALSE
    /\ UNCHANGED <<cs, destroyq>>

\* send copies into the buffer under the write lock ...
SendCopy ==
    /\ AppStep("open", "sending")
    /\ cs.state \in {ESTABLISHED, CLOSE_WAIT}
    /\ cs.head_seq + cs.len <= MaxSend
    /\ cs' = [cs EXCEPT !.sndbuf = TRUE, !.len = @ + 1]
    /\ UNCHANGED <<acceptq, destroyq>>

\* ... and, the lock released, queues the stream if no one else did
SendEnqueue ==
    /\ AppStep("sending", "open")
    /\ cs' = [cs EXCEPT !.on_sendq = @ \/ ~ cs.on_send_list]
    /\ UNCHANGED <<acceptq, destroyq>>

\* close marks the stream and reads its state ...
CloseCheck ==
    /\ AppStep("open", IF cs.state = CLOSED THEN "destroying"
                       ELSE IF cs.state \in {ESTABLISHED, CLOSE_WAIT}
                            THEN "closing" ELSE "closed")
    /\ cs' = [cs EXCEPT !.closed = TRUE]
    /\ UNCHANGED <<acceptq, destroyq>>

\* ... and then queues it
CloseEnqueue ==
    /\ AppStep("closing", "closed")
    /\ cs' = [cs EXCEPT !.on_closeq = TRUE]
    /\ UNCHANGED <<acceptq, destroyq>>

DestroyEnqueue ==
    /\ AppStep("destroying", "closed")
    /\ destroyq' = TRUE
    /\ UNCHANGED <<cs, acceptq>>
-----------------------------------------------------------------------------
StackLoop ==
    \/ NoFlows
    \/ \E rto, idle \in BOOLEAN : CheckTimers(rto, idle)
    \/ HandleSendq
    \/ HandleCloseq
    \/ HandleDestroyq
    \/ WriteControllist
    \/ WriteAcklist
    \/ \E wack \in BOOLEAN : FlushSendbuffer(wack)
    \/ SkipSendlist
    \/ LeaveSendlist
    \/ NoReceive

Network == \E p \in Segments, full \in BOOLEAN : Receive(p, full)

Application ==
    \/ Accept
    \/ SendCopy
    \/ SendEnqueue
    \/ CloseCheck
    \/ CloseEnqueue
    \/ DestroyEnqueue

Next == StackLoop \/ Network \/ Application

Spec == Init /\ [][Next]_vars

(***************************************************************************)
(* Fairness: the stack thread never stops looping (its poll waits for      *)
(* POLLOUT too, which the NIC ring raises), and close, once called, runs   *)
(* to its end.  Nothing is assumed of the network or of the peer.          *)
(***************************************************************************)
FairSpec == Spec /\ WF_vars(StackLoop) /\ WF_vars(CloseEnqueue)
-----------------------------------------------------------------------------
Stream ==
    [state : State, on_hash_table : BOOLEAN, closed : BOOLEAN,
     have_reset : BOOLEAN, on_control_list : BOOLEAN, on_send_list : BOOLEAN,
     on_ack_list : BOOLEAN, control_list_waiting : BOOLEAN, on_rto : BOOLEAN,
     on_timewait_list : BOOLEAN, on_timeout_list : BOOLEAN,
     on_sendq : BOOLEAN, on_closeq : BOOLEAN, on_closeq_int : BOOLEAN,
     sndbuf : BOOLEAN, head_seq : Nat, len : Nat, snd_nxt : Nat,
     snd_una : Nat, peer_wnd : Nat, cwnd : Nat, ssthresh : Nat, nrtx : Nat,
     fss : Nat, is_fin_sent : BOOLEAN, rcv_nxt : Nat,
     recvbuf : SUBSET (1 .. PeerData)]

TypeOK ==
    /\ cs \in Stream
    /\ acceptq \in BOOLEAN
    /\ destroyq \in BOOLEAN
    /\ app \in {"none", "open", "sending", "closing", "destroying", "closed"}
    /\ pc \in {"timer", "sendq", "closeq", "destroyq", "control", "ack",
               "data", "unlist", "io"}
    /\ sent \subseteq Nat
    /\ npkts \in Nat
    /\ abort \in {"none", "HandleRTO", "addto_sendlist", "DestroyTcpStream",
                  "flush_sendbuffer"}

\* The RTO list and the timewait list are chained through the same link
\* (timer_link): a stream is never on both.
TimerLinkExclusive == ~ (cs.on_rto /\ cs.on_timewait_list)

\* A stream on the RTO list is one HandleRTO can retransmit: it is in a state
\* that HandleRTO implements, and has a send buffer where it resends data.
RtoIsImplemented ==
    cs.on_rto => /\ cs.state \in RtoState
                 /\ cs.state \in {ESTABLISHED, CLOSE_WAIT} => cs.sndbuf

\* A stream in TIME_WAIT is on the timewait list, from where alone it is
\* reclaimed.
TimeWaitIsReclaimed == cs.state = TIME_WAIT => cs.on_timewait_list

\* DestroyTcpStream leaves the freed stream on no list of the stack thread,
\* and no handler puts it back.
DestroyedIsUnlinked ==
    ~ cs.on_hash_table /\ abort = "none" =>
        ~ \/ cs.on_control_list \/ cs.on_send_list \/ cs.on_ack_list
          \/ cs.on_rto \/ cs.on_timewait_list \/ cs.on_timeout_list

\* No truncation on receive: the peer's FIN counts only after everything
\* before it, whatever the order of arrival.
FinAfterAllData ==
    (/\ cs.on_hash_table
     /\ ~ cs.have_reset
     /\ cs.state \in {CLOSE_WAIT, LAST_ACK, CLOSING, TIME_WAIT})
        => cs.recvbuf = 1 .. PeerData /\ cs.rcv_nxt = PeerData + 2

\* An active close is over only when the peer has everything: all data and
\* the FIN were on the wire and nothing is left in the buffer.
ClosedIsComplete ==
    cs.state \in {FIN_WAIT_2, TIME_WAIT} =>
        0 .. cs.fss \subseteq sent /\ cs.len = 0

\* A close that waits for the send list or the ack list is never left
\* waiting for a list the stream is not on.
WaitingCloseIsServed ==
    cs.on_hash_table /\ cs.control_list_waiting =>
        cs.on_send_list \/ cs.on_ack_list

\* flush_sendbuffer's two assertions: a stream it is called for has a send
\* buffer, and snd_nxt has not fallen behind what the peer acknowledged.
FlushableFromHead ==
    cs.on_send_list /\ cs.state \in FlushState /\ abort = "none" =>
        cs.sndbuf /\ cs.snd_nxt >= cs.head_seq

\* The acknowledgment number never moves back.
RcvNxtMonotone == [][cs'.rcv_nxt >= cs.rcv_nxt]_vars

\* A stream in TIME_WAIT is reclaimed once no more segments arrive for it.
TimeWaitEnds == cs.state = TIME_WAIT ~> ~ cs.on_hash_table

\* A stream whose close has begun sends its FIN, unless it is destroyed first
\* or data in flight leaves no room in the window for the data before the FIN.
FinIsSent ==
    cs.state \in {FIN_WAIT_1, LAST_ACK} ~>
        \/ cs.is_fin_sent
        \/ ~ cs.on_hash_table
        \/ cs.on_send_list /\ FlushBlocked(cs)

\* close() takes effect: the stream leaves the states in which the
\* application had it open.
CloseTakesEffect ==
    app = "closed" ~> cs.state \notin {ESTABLISHED, CLOSE_WAIT}

\* A stream is on the timewait list only in TIME_WAIT.
TimewaitListState == cs.on_timewait_list => cs.state = TIME_WAIT

\* The FIN continues the sequence: it is sent with the sequence number
\* snd_nxt, after all data before it.
FinSeqIsSndNxt ==
    pc = "control" /\ cs.on_control_list /\ ControlIsFin(cs)
        /\ ~ ControlMustWait(cs) => cs.snd_nxt = cs.fss

\* DestroyTcpStream's assertion: it is called once for a stream.
DestroyedOnce == abort # "DestroyTcpStream"

\* addto_sendlist's assertion: a stream taken from sendq has a send buffer.
QueuedHasSendbuffer == abort # "addto_sendlist"
=============================================================================
