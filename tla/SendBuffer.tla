------------------------------ MODULE SendBuffer ------------------------------
(***************************************************************************)
(* The send buffer of a stream (SBPut, SBRemove), which the application    *)
(* fills in send and the stack thread sends from in flush_sendbuffer and   *)
(* empties in process_ack, each under write_lock, with the condition       *)
(* variable write_cond that a blocking send waits on.                      *)
(*                                                                         *)
(* The bytes the application sends are numbered 0, 1, ... and byte n has   *)
(* the sequence number n, relative to iss + 1.  A cell of the buffer holds *)
(* the number of a byte or None.  write_lock is a default mutex: a thread  *)
(* that locks it twice blocks for ever.                                    *)
(***************************************************************************)
EXTENDS Integers

CONSTANTS Size,    \* bytes of the buffer
          Total,   \* bytes the application sends
          MaxLen   \* bytes of the largest send

ASSUME SizesAssumption == {Size, Total, MaxLen} \subseteq Nat \ {0}

VARIABLES sndbuf,       \* the send buffer
          snd_wnd,      \* free space, as send sees it
          snd_nxt,      \* next sequence number to send
          on_sendq,     \* is the stream in sendq?
          on_send_list, \* is the stream on the send list?
          write_lock,   \* "free", "app" or "stack"
          app,          \* where the application thread is
          stack,        \* where the stack thread is
          wire          \* sequence number and byte of everything sent

vars == <<sndbuf, snd_wnd, snd_nxt, on_sendq, on_send_list, write_lock, app,
          stack, wire>>

None == -1

Min2(a, b) == IF a <= b THEN a ELSE b
Max2(a, b) == IF a >= b THEN a ELSE b
-----------------------------------------------------------------------------
(* The buffer: len bytes from head_off on, of which the first one has the   *)
(* sequence number head_seq.  The bytes put are the next of the stream.     *)

SBInit ==
    [data |-> [k \in 0 .. Size - 1 |-> None], head_off |-> 0, tail_off |-> 0,
     len |-> 0, cum_len |-> 0, head_seq |-> 0]

\* room behind the tail
Appended(b, n) ==
    [b EXCEPT !.data = [k \in 0 .. Size - 1 |->
                           IF k \in b.tail_off .. b.tail_off + n - 1
                           THEN b.cum_len + (k - b.tail_off)
                           ELSE b.data[k]],
              !.tail_off = @ + n]

Compacted_KeepsHead(b) ==
    [b EXCEPT !.data = [k \in 0 .. Size - 1 |->
                           IF k < b.len THEN b.data[b.head_off + k]
                                        ELSE b.data[k]],
              !.tail_off = b.len]

\* no room: the data moves to the front first
Compacted(b) ==
    [b EXCEPT !.data = [k \in 0 .. Size - 1 |->
                           IF k < b.len THEN b.data[b.head_off + k]
                                        ELSE b.data[k]],
              !.head_off = 0, !.tail_off = b.len]

SBPut(b, n) ==
    LET to_put == Min2(n, Size - b.len)
        c == Appended(IF b.tail_off + to_put < Size THEN b ELSE Compacted(b),
                      to_put)
    IN  [c EXCEPT !.len = @ + to_put, !.cum_len = @ + to_put]

\* an empty buffer starts again at the front
SBRemove(b, n) ==
    LET to_remove == Min2(n, b.len)
        empty == b.len = to_remove
    IN  [b EXCEPT !.head_off = IF empty THEN 0 ELSE @ + to_remove,
                  !.tail_off = IF empty THEN 0 ELSE @,
                  !.head_seq = @ + to_remove,
                  !.len = @ - to_remove]

ByteAt_FromData(b, q) == b.data[q - b.head_seq]

\* the byte flush_sendbuffer sends with sequence number q
ByteAt(b, q) == b.data[b.head_off + (q - b.head_seq)]
Space_OneMore(b) == Size - b.len + 1

\* snd_wnd: what send may still put
Space(b) == Size - b.len
-----------------------------------------------------------------------------
Init ==
    /\ sndbuf = SBInit
    /\ snd_wnd = Size
    /\ snd_nxt = 0
    /\ on_sendq = FALSE
    /\ on_send_list = FALSE
    /\ write_lock = "free"
    /\ app = "idle"
    /\ stack = "idle"
    /\ wire = {}

(* The application thread: a blocking send.  What a thread does with the    *)
(* lock held is one step.                                                   *)
copy_from_user(n) ==
    /\ app = "idle"
    /\ write_lock = "free"
    /\ snd_wnd > 0
    /\ sndbuf.cum_len + n <= Total
    /\ sndbuf' = SBPut(sndbuf, Min2(snd_wnd, n))
    /\ snd_wnd' = Space(sndbuf')
    /\ app' = "enqueue"
    /\ UNCHANGED <<snd_nxt, on_sendq, on_send_list, write_lock, stack, wire>>

\* pthread_cond_wait, while the buffer is full
SendWait ==
    /\ app = "idle"
    /\ write_lock = "free"
    /\ snd_wnd = 0
    /\ app' = "waiting"
    /\ UNCHANGED <<sndbuf, snd_wnd, snd_nxt, on_sendq, on_send_list,
                   write_lock, stack, wire>>

\* the lock released, the stream is queued if no one else did
SendEnqueue ==
    /\ app = "enqueue"
    /\ on_sendq' = (on_sendq \/ ~ on_send_list)
    /\ app' = "idle"
    /\ UNCHANGED <<sndbuf, snd_wnd, snd_nxt, on_send_list, write_lock, stack,
                   wire>>

(* The stack thread.                                                        *)
HandleSendq ==
    /\ stack = "idle"
    /\ on_sendq
    /\ on_sendq' = FALSE
    /\ on_send_list' = TRUE
    /\ UNCHANGED <<sndbuf, snd_wnd, snd_nxt, write_lock, app, stack, wire>>

\* n bytes fit the windows; with more to send the stream stays on the list,
\* unless the window was used up to the last byte
flush_sendbuffer(n, stay) ==
    /\ stack = "idle"
    /\ write_lock = "free"
    /\ on_send_list
    /\ n <= sndbuf.head_seq + sndbuf.len - snd_nxt
    /\ stay => n < sndbuf.head_seq + sndbuf.len - snd_nxt
    /\ wire' = wire \cup {<<q, ByteAt(sndbuf, q)>> :
                             q \in snd_nxt .. snd_nxt + n - 1}
    /\ snd_nxt' = snd_nxt + n
    /\ stack' = IF stay THEN "idle" ELSE "unlist"
    /\ UNCHANGED <<sndbuf, snd_wnd, on_sendq, on_send_list, write_lock, app>>

LeaveSendlist ==
    /\ stack = "unlist"
    /\ on_send_list' = FALSE
    /\ stack' = "idle"
    /\ UNCHANGED <<sndbuf, snd_wnd, snd_nxt, on_sendq, write_lock, app, wire>>

(***************************************************************************)
(* What the peer acknowledges is removed.  If the buffer was full,         *)
(* flush_send_event is called to wake a waiting send: it locks write_lock, *)
(* which this thread holds, and neither the signal nor the unlock follows. *)
(***************************************************************************)
process_ack(a) ==
    /\ stack = "idle"
    /\ write_lock = "free"
    /\ a \in sndbuf.head_seq + 1 .. sndbuf.head_seq + sndbuf.len
    /\ \E x \in wire : x[1] = a - 1
    /\ snd_nxt' = Max2(snd_nxt, a)
    /\ sndbuf' = SBRemove(sndbuf, a - sndbuf.head_seq)
    /\ snd_wnd' = Space(sndbuf')
    /\ stack' = IF snd_wnd = 0 THEN "relock" ELSE "idle"
    /\ write_lock' = IF snd_wnd = 0 THEN "stack" ELSE "free"
    /\ UNCHANGED <<on_sendq, on_send_list, app, wire>>

\* a retransmission timeout: everything unacknowledged is sent again
HandleRTO ==
    /\ stack = "idle"
    /\ snd_nxt > sndbuf.head_seq
    /\ snd_nxt' = sndbuf.head_seq
    /\ on_send_list' = TRUE
    /\ UNCHANGED <<sndbuf, snd_wnd, on_sendq, write_lock, app, stack, wire>>
-----------------------------------------------------------------------------
Application ==
    \/ \E n \in 1 .. MaxLen : copy_from_user(n)
    \/ SendWait
    \/ SendEnqueue

Stack ==
    \/ HandleSendq
    \/ \E n \in 0 .. Size, stay \in BOOLEAN : flush_sendbuffer(n, stay)
    \/ LeaveSendlist
    \/ \E a \in 1 .. Total : process_ack(a)
    \/ HandleRTO

Next == Application \/ Stack

Spec == Init /\ [][Next]_vars

\* the stack thread keeps looping, and a send that is not blocked goes on
FairSpec == Spec /\ WF_vars(Stack) /\ WF_vars(Application)
-----------------------------------------------------------------------------
Buffer ==
    [data : [0 .. Size - 1 -> Nat \cup {None}], head_off : 0 .. Size,
     tail_off : 0 .. Size, len : 0 .. Size, cum_len : Nat, head_seq : Nat]

TypeOK ==
    /\ sndbuf \in Buffer
    /\ snd_wnd \in 0 .. Size
    /\ snd_nxt \in Nat
    /\ on_sendq \in BOOLEAN
    /\ on_send_list \in BOOLEAN
    /\ write_lock \in {"free", "stack"}
    /\ app \in {"idle", "waiting", "enqueue"}
    /\ stack \in {"idle", "unlist", "relock"}
    /\ wire \subseteq Nat \X (Nat \cup {None})

HoldsStream(b) ==
    /\ b.tail_off = b.head_off + b.len
    /\ b.cum_len = b.head_seq + b.len
    /\ \A k \in 0 .. b.len - 1 : b.data[b.head_off + k] = b.head_seq + k

\* The buffer holds the stream: its cells from head_off on are the bytes from
\* head_seq on, through every move of the data and every partial
\* acknowledgment, and they end where the next byte is put.
BufferHoldsStream == HoldsStream(sndbuf)

\* What is sent, or sent again after a timeout, with sequence number q is
\* byte q.
WireIsStream == \A x \in wire : x[2] = x[1]

\* snd_wnd is never more than the free space: SBPut puts what send asks for,
\* as copy_from_user asserts.
WindowHasSpace == snd_wnd <= Size - sndbuf.len

\* flush_sendbuffer sends from inside the buffer.
SendsFromBuffer ==
    snd_nxt \in sndbuf.head_seq .. sndbuf.head_seq + sndbuf.len

\* A send that waits for space is woken when there is some.
BlockedSendWakes == app = "waiting" /\ snd_wnd > 0 ~> app # "waiting"
=============================================================================
