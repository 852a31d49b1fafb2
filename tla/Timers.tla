-------------------------------- MODULE Timers --------------------------------
(***************************************************************************)
(* The timers of the stack thread (nty_timer.c) and the lists they keep    *)
(* streams on.  The store of retransmission timers has Hash slots of       *)
(* streams by the time they are due, one slot for those due later, and a   *)
(* current slot that CheckRtmTimeout handles on every loop.  The list of   *)
(* TIME_WAIT and the list of idle connections are kept in the order of     *)
(* their times, so that a check ends at the first stream that is not due.  *)
(* TcpStream lets a timer that is set expire at any time; this module is   *)
(* about when it does.                                                     *)
(***************************************************************************)
EXTENDS Integers, Sequences, FiniteSets, SequencesExt

CONSTANTS Streams,   \* the streams
          Hash,      \* RTO_HASH
          Every,     \* slots after which the store is rearranged
          Thresh,    \* streams a check handles at a time
          MaxRto,    \* longest retransmission timeout
          Timewait,  \* NTY_TCP_TIMEWAIT
          Timeout,   \* NTY_TCP_TIMEOUT
          MaxTs      \* bound on the time

ASSUME ConstantsAssumption ==
    /\ {Hash, Every, Thresh, MaxRto, Timeout} \subseteq Nat \ {0}
    /\ {Timewait, MaxTs} \subseteq Nat
    /\ IsFiniteSet(Streams)

VARIABLES cur_ts,       \* time
          ts_rto,       \* when each stream is due
          on_rto_idx,   \* slot each stream is on, or -1
          rto_list,     \* the slots
          rto_list_cnt, \* streams on them
          rto_now_idx,  \* the current slot
          rto_now_ts,   \* the time it is for
          state,        \* of each stream: free, open, closed or TIME_WAIT
          ts_tw_expire, \* when TIME_WAIT ends
          timewait_list,
          last_active_ts, \* when the peer or an acknowledgment was last seen
          timeout_list, \* connections by the time they were last active
          on_control    \* streams on the control list

store == <<ts_rto, on_rto_idx, rto_list, rto_list_cnt, rto_now_idx, rto_now_ts>>
waits == <<ts_tw_expire, timewait_list>>
idles == <<last_active_ts, timeout_list>>

vars == <<cur_ts, store, state, waits, idles, on_control>>

\* what the lists of the store hold, as one value
Store == [idx |-> on_rto_idx, list |-> rto_list, cnt |-> rto_list_cnt,
          now_idx |-> rto_now_idx, now_ts |-> rto_now_ts]

StoreIs(st) ==
    /\ on_rto_idx' = st.idx
    /\ rto_list' = st.list
    /\ rto_list_cnt' = st.cnt
    /\ rto_now_idx' = st.now_idx
    /\ rto_now_ts' = st.now_ts
-----------------------------------------------------------------------------
\* the streams of a list that are in S, in the order of their places
Rank(places, i) == Cardinality({j \in places : j <= i})

Kept(list, S) ==
    LET places == {i \in 1 .. Len(list) : list[i] \in S}
    IN  [k \in 1 .. Cardinality(places) |->
           list[CHOOSE i \in places : Rank(places, i) = k]]

Without(list, streams) == Kept(list, Streams \ streams)

RemoveFromRTOList(st, s) ==
    IF st.idx[s] < 0 THEN st
    ELSE [st EXCEPT !.list[st.idx[s]] = Without(@, {s}),
                    !.idx[s] = -1,
                    !.cnt = @ - 1]

AddtoRTOList_RelativeIdx(st, s, ts) ==
    LET r == IF st.cnt = 0 THEN [st EXCEPT !.now_idx = 0, !.now_ts = ts] ELSE st
        near == ts - r.now_ts < Hash
    IN  IF r.idx[s] >= 0 THEN r
        ELSE [r EXCEPT !.list[IF near THEN ts % Hash ELSE Hash] = Append(@, s),
                       !.idx[s] = IF near
                                  THEN (ts - r.now_ts + r.now_idx) % Hash
                                  ELSE Hash,
                       !.cnt = @ + 1]

\* the first stream of an empty store sets its time; the slot is that of the
\* absolute time ts
AddtoRTOList(st, s, ts) ==
    LET r == IF st.cnt = 0 THEN [st EXCEPT !.now_idx = 0, !.now_ts = ts] ELSE st
        slot == IF ts - r.now_ts < Hash THEN ts % Hash ELSE Hash
    IN  IF r.idx[s] >= 0 THEN r
        ELSE [r EXCEPT !.list[slot] = Append(@, s), !.idx[s] = slot,
                       !.cnt = @ + 1]

\* the remainder as C computes it
CRem(a, b) == IF a >= 0 THEN a % b ELSE - ((- a) % b)

\* the streams due later are moved to a slot, if one is there for them
RearrangeRTOStore(st) ==
    LET Offset(s) == CRem((st.now_ts - ts_rto[s]) + st.now_idx, Hash)
        moved == {s \in Streams : /\ st.idx[s] = Hash
                                  /\ st.now_ts - ts_rto[s] < Hash}
    IN  [st EXCEPT
           !.idx = [s \in Streams |-> IF s \in moved THEN Offset(s) ELSE @[s]],
           !.list = [k \in 0 .. Hash |->
                       IF k = Hash
                       THEN Without(@[k], moved)
                       ELSE @[k] \o Kept(@[Hash],
                                         {s \in moved : Offset(s) = k})]]

\* the current slot moves on to time ts, handling nothing
MovedTo(st, ts) ==
    [st EXCEPT !.now_idx = (@ + (ts - st.now_ts)) % Hash, !.now_ts = ts]

\* it moves on to the time after cur_ts, and the store is rearranged where it
\* passes a multiple of Every (a second time finds nothing to move)
Advanced(st) ==
    LET stops == {ts \in st.now_ts + 1 .. cur_ts + 1 :
                     MovedTo(st, ts).now_idx % Every = 0}
        first == CHOOSE ts \in stops : \A t \in stops : ts <= t
        r == IF stops = {} THEN st ELSE RearrangeRTOStore(MovedTo(st, first))
    IN  MovedTo(r, cur_ts + 1)
-----------------------------------------------------------------------------
(* The lists of TIME_WAIT and of idle connections.                          *)

ToTail(list, s) == Append(Without(list, {s}), s)

UpdateTimeoutList_KeepsPlace(s) == UNCHANGED timeout_list

\* a stream that is not on the list (closed by the application) stays off it
UpdateTimeoutList(s) ==
    timeout_list' = IF s \in ToSet(timeout_list) THEN ToTail(timeout_list, s)
                    ELSE timeout_list

AddtoTimewaitList_KeepsRto(s) ==
    /\ ts_tw_expire' = [ts_tw_expire EXCEPT ![s] = cur_ts + Timewait]
    /\ timewait_list' = ToTail(timewait_list, s)
    /\ UNCHANGED store

\* The link of the list is the one of the slots.  A stream that is on the list
\* moves to the tail; one that is not leaves its slot.
AddtoTimewaitList(s) ==
    /\ ts_tw_expire' = [ts_tw_expire EXCEPT ![s] = cur_ts + Timewait]
    /\ timewait_list' = ToTail(timewait_list, s)
    /\ UNCHANGED ts_rto
    /\ StoreIs(IF s \in ToSet(timewait_list) THEN Store
               ELSE RemoveFromRTOList(Store, s))

\* DestroyTcpStream: each stream leaves every list it is on
DestroyTcpStream(streams) ==
    /\ state' = [s \in Streams |-> IF s \in streams THEN "free" ELSE state[s]]
    /\ StoreIs([Store EXCEPT
                   !.list = [k \in 0 .. Hash |-> Without(@[k], streams)],
                   !.idx = [s \in Streams |-> IF s \in streams THEN -1 ELSE @[s]],
                   !.cnt = @ - Cardinality({s \in streams : on_rto_idx[s] >= 0})])
    /\ timewait_list' = Without(timewait_list, streams)
    /\ timeout_list' = Without(timeout_list, streams)
    /\ on_control' = on_control \ streams
    /\ UNCHANGED <<cur_ts, ts_rto, ts_tw_expire, last_active_ts>>

\* the streams of a list that a check handles: it looks at Thresh of them, and
\* no further than the first that is not due
Checked(list, Due(_)) ==
    {list[i] : i \in {k \in 1 .. Len(list) :
                        k <= Thresh /\ \A j \in 1 .. k : Due(list[j])}}
-----------------------------------------------------------------------------
Init ==
    /\ cur_ts = 0
    /\ ts_rto = [s \in Streams |-> 0]
    /\ on_rto_idx = [s \in Streams |-> -1]
    /\ rto_list = [k \in 0 .. Hash |-> <<>>]
    /\ rto_list_cnt = 0
    /\ rto_now_idx = 0
    /\ rto_now_ts = 0
    /\ state = [s \in Streams |-> "free"]
    /\ ts_tw_expire = [s \in Streams |-> 0]
    /\ timewait_list = << >>
    /\ last_active_ts = [s \in Streams |-> 0]
    /\ timeout_list = << >>
    /\ on_control = {}

\* the handshake ends: the stream is idle from now on, and its timer is off
AddtoTimeoutList(s) ==
    /\ state[s] = "free"
    /\ state' = [state EXCEPT ![s] = "open"]
    /\ last_active_ts' = [last_active_ts EXCEPT ![s] = cur_ts]
    /\ timeout_list' = Append(timeout_list, s)
    /\ UNCHANGED <<cur_ts, store, waits, on_control>>

\* a segment arrives (nty_tcp_process), or one with an acknowledgment is sent
\* (nty_tcp_send_tcppkt)
Active(s) ==
    /\ state[s] # "free"
    /\ last_active_ts' = [last_active_ts EXCEPT ![s] = cur_ts]
    /\ UpdateTimeoutList(s)
    /\ UNCHANGED <<cur_ts, store, state, waits, on_control>>

\* the application closes: nty_tcp_handle_apicall (RemoveFromTimeoutList) and
\* the control packet
Close(s) ==
    /\ state[s] = "open"
    /\ state' = [state EXCEPT ![s] = "closed"]
    /\ timeout_list' = Without(timeout_list, {s})
    /\ on_control' = on_control \cup {s}
    /\ UNCHANGED <<cur_ts, store, waits, last_active_ts>>

\* the control packet is sent
Written(s) ==
    /\ s \in on_control
    /\ on_control' = on_control \ {s}
    /\ UNCHANGED <<cur_ts, store, state, waits, idles>>

\* the peer's FIN after ours, and again if it is repeated; it is answered with
\* a control packet
EnterTimewait(s) ==
    /\ state[s] \in {"closed", "TIME_WAIT"}
    /\ state' = [state EXCEPT ![s] = "TIME_WAIT"]
    /\ AddtoTimewaitList(s)
    /\ on_control' = on_control \cup {s}
    /\ UNCHANGED <<cur_ts, idles>>

\* UpdateRetransmissionTimer, with data in flight
UpdateRetransmissionTimer(s, rto) ==
    /\ state[s] \in {"open", "closed"}
    /\ ts_rto' = [ts_rto EXCEPT ![s] = cur_ts + rto]
    /\ StoreIs(AddtoRTOList(RemoveFromRTOList(Store, s), s, cur_ts + rto))
    /\ UNCHANGED <<cur_ts, state, waits, idles, on_control>>

\* all packets are acknowledged
Disarm(s) ==
    /\ on_rto_idx[s] >= 0
    /\ StoreIs(RemoveFromRTOList(Store, s))
    /\ UNCHANGED <<cur_ts, ts_rto, state, waits, idles, on_control>>

\* a reset, or the last acknowledgment, ends the connection
Gone(s) ==
    /\ state[s] # "free"
    /\ DestroyTcpStream({s})

Tick ==
    /\ cur_ts < MaxTs
    /\ cur_ts' = cur_ts + 1
    /\ UNCHANGED <<store, state, waits, idles, on_control>>

\* the streams of the current slot are taken off and handed to HandleRTO; the
\* slot moves on only if there were Thresh of them
CheckRtmTimeout ==
    LET due == rto_list[rto_now_idx]
        n == IF Len(due) < Thresh THEN Len(due) ELSE Thresh
        handled == {due[k] : k \in 1 .. n}
        st == [Store EXCEPT
                 !.list[rto_now_idx] = SubSeq(due, n + 1, Len(due)),
                 !.idx = [s \in Streams |->
                            IF s \in handled THEN -1 ELSE @[s]],
                 !.cnt = @ - n]
    IN  /\ rto_list_cnt > 0
        /\ cur_ts >= rto_now_ts
        /\ StoreIs(IF n < Thresh THEN st ELSE Advanced(st))
        /\ UNCHANGED <<cur_ts, ts_rto, state, waits, idles, on_control>>

TimewaitDue(s) == cur_ts - ts_tw_expire[s] >= 0

IdleDue(s) == cur_ts - last_active_ts[s] >= Timeout

\* a stream whose control packet is not sent is passed over
CheckTimewaitExpire ==
    DestroyTcpStream(Checked(timewait_list, TimewaitDue) \ on_control)

\* an idle connection is destroyed: stream->socket is not set in this build
CheckConnectionTimeout == DestroyTcpStream(Checked(timeout_list, IdleDue))

Next ==
    \/ \E s \in Streams :
          \/ \E rto \in 1 .. MaxRto : UpdateRetransmissionTimer(s, rto)
          \/ Disarm(s)
          \/ AddtoTimeoutList(s)
          \/ Active(s)
          \/ Close(s)
          \/ Written(s)
          \/ EnterTimewait(s)
          \/ Gone(s)
    \/ Tick
    \/ CheckRtmTimeout
    \/ CheckTimewaitExpire
    \/ CheckConnectionTimeout

Spec == Init /\ [][Next]_vars
-----------------------------------------------------------------------------
\* on_rto_idx tells where a stream is, which RemoveFromRTOList relies on: a
\* stream is on the list of its slot, once, and on no other.  rto_list_cnt
\* counts them: AddtoRTOList resets the current slot only when there is none.
IdxIsSlot ==
    /\ \A k \in 0 .. Hash :
          /\ IsInjective(rto_list[k])
          /\ ToSet(rto_list[k]) = {s \in Streams : on_rto_idx[s] = k}
    /\ rto_list_cnt = Cardinality({s \in Streams : on_rto_idx[s] >= 0})

\* The slots and the list of TIME_WAIT link streams by the same field,
\* timer_link: a stream is on one of them at most, in every order in which
\* acknowledgments, closing and timers come.
OneTimerLink ==
    \A s \in Streams : s \in ToSet(timewait_list) => on_rto_idx[s] < 0

\* A check ends at the first stream that is not due, and still sees every one
\* that is: the two lists stay in the order of their times although streams
\* become active, enter TIME_WAIT again, close and go at any time.
NoneOverdue ==
    /\ \A s \in ToSet(timeout_list) :
          IdleDue(s) => s \in Checked(timeout_list, IdleDue)
    /\ \A s \in ToSet(timewait_list) :
          TimewaitDue(s) => s \in Checked(timewait_list, TimewaitDue)

\* A stream that is due is handled (or acknowledged, or given a new time).  The
\* code does not have this: see the README.
DueIsHandled ==
    \A s \in Streams :
       on_rto_idx[s] >= 0 /\ cur_ts >= ts_rto[s]
          ~> on_rto_idx[s] < 0 \/ cur_ts < ts_rto[s]

\* time passes, and the stack thread keeps looping
FairSpec == Spec /\ WF_vars(Tick) /\ WF_vars(CheckRtmTimeout)
=============================================================================
