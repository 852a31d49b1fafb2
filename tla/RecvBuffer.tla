------------------------------ MODULE RecvBuffer ------------------------------
(***************************************************************************)
(* The receive buffer of a stream (RBPut, RBRemove), as the stack thread   *)
(* fills it in nty_tcp_process_payload and the application thread empties  *)
(* it in recv, both under read_lock, with the condition variable read_cond *)
(* that a blocking recv waits on.                                          *)
(*                                                                         *)
(* The peer's bytes are numbered 0, 1, ... and byte n has the sequence     *)
(* number (InitSeq + n) % SeqSpace, SeqSpace standing for 2^32, so that        *)
(* sequence numbers wrap.  A cell of the buffer holds the number of a byte *)
(* or None.  The fragment list is the sequence fctx.                       *)
(***************************************************************************)
EXTENDS Integers, Sequences, SequencesExt

CONSTANTS Size,        \* bytes of the buffer
          Total,       \* bytes the peer sends before its FIN
          MaxSegLen,   \* bytes of the largest segment, and of the largest recv
          SeqSpace,    \* size of the sequence space
          InitSeq,     \* irs + 1
          InitialWnd   \* TCP_INITIAL_WINDOW

ASSUME SizesAssumption ==
    /\ {Size, Total, MaxSegLen, InitialWnd} \subseteq Nat \ {0}
    /\ SeqSpace \in Nat /\ SeqSpace > 2 * (Total + InitialWnd + MaxSegLen)
    /\ InitSeq \in 0 .. SeqSpace - 1

VARIABLES buff,     \* the ring buffer
          rcv_nxt,  \* next sequence number expected
          rcv_wnd,  \* window advertised
          state,    \* state of the stream
          signal,   \* has the stack thread still to raise the read event?
          app,      \* where the application thread is
          arrived,  \* bytes RBPut has stored
          read,     \* what recv returned so far
          abort     \* has an assertion of RBPut or RBRemove failed?

vars == <<buff, rcv_nxt, rcv_wnd, state, signal, app, arrived, read, abort>>

None == -1

ByteSeq(n) == (InitSeq + n) % SeqSpace
-----------------------------------------------------------------------------
(* Comparing sequence numbers.                                              *)

MAXSEQ == SeqSpace - 1

GetMinSeq(a, b) ==
    IF a < b THEN IF b - a <= MAXSEQ \div 2 THEN a ELSE b
             ELSE IF a - b <= MAXSEQ \div 2 THEN b ELSE a

GetMaxSeq(a, b) == IF GetMinSeq(a, b) = a THEN b ELSE a

EndSeq(f) == (f.seq + f.len) % SeqSpace

CanMerge_NotAdjacent(f, g) ==
    /\ GetMinSeq(EndSeq(f), g.seq) # EndSeq(f)
    /\ GetMinSeq(EndSeq(g), f.seq) # EndSeq(g)

CanMerge(f, g) ==
    LET f_end == (f.seq + f.len + 1) % SeqSpace
        g_end == (g.seq + g.len + 1) % SeqSpace
    IN  GetMinSeq(f_end, g.seq) # f_end /\ GetMinSeq(g_end, f.seq) # g_end

MergeFragments(f, g) ==
    LET min_seq == GetMinSeq(f.seq, g.seq)
        max_seq == GetMaxSeq(EndSeq(f), EndSeq(g))
    IN  [seq |-> min_seq, len |-> (max_seq - min_seq) % SeqSpace]
-----------------------------------------------------------------------------
(* The traversal of the fragment list.                                      *)

\* iter at place i, with nothing merged yet: merge there, stop there, or go on
Meets(fctx, new, i) ==
    i <= Len(fctx) => \/ CanMerge(new, fctx[i])
                      \/ GetMaxSeq(EndSeq(new), fctx[i].seq) = fctx[i].seq

Place(fctx, new) ==
    CHOOSE i \in 1 .. Len(fctx) + 1 :
        Meets(fctx, new, i) /\ \A j \in 1 .. i - 1 : ~ Meets(fctx, new, j)

\* what the new fragment has become after k merges, the first one at place i
Grown(fctx, i, new) ==
    LET m[k \in Nat] == IF k = 0 THEN new
                        ELSE MergeFragments(m[k - 1], fctx[i + (k - 1)])
    IN  m

\* the number of merges: up to the first fragment that it cannot merge with
Merges(fctx, i, new) ==
    LET m == Grown(fctx, i, new)
        Goes(k) == i + k <= Len(fctx) /\ CanMerge(m[k], fctx[i + k])
    IN  CHOOSE k \in 0 .. Len(fctx) + 1 - i :
            ~ Goes(k) /\ \A j \in 0 .. k - 1 : Goes(j)

\* it goes in front, or after the fragment where the traversal stopped
GoesFirst(fctx, new) ==
    fctx = <<>> \/ GetMinSeq(new.seq, Head(fctx).seq) = new.seq

InsertFragment(fctx, new) ==
    LET i == Place(fctx, new)
        k == Merges(fctx, i, new)
    IN  IF k > 0
        THEN SubSeq(fctx, 1, i - 1) \o <<Grown(fctx, i, new)[k]>>
               \o SubSeq(fctx, i + k, Len(fctx))
        ELSE InsertAt(fctx, IF GoesFirst(fctx, new) THEN 1 ELSE i, new)

\* the assertion of RBPut: a fragment goes in after the end of the one before
InsertsInOrder(fctx, new) ==
    LET i == Place(fctx, new)
        prev == fctx[i - 1]
    IN  \/ Merges(fctx, i, new) > 0
        \/ GoesFirst(fctx, new)
        \/ i > 1 /\ GetMinSeq(new.seq, EndSeq(prev)) = EndSeq(prev)
-----------------------------------------------------------------------------
RBInit ==
    [head_offset |-> 0, tail_offset |-> 0, merged_len |-> 0, cum_len |-> 0,
     last_len |-> 0, head_seq |-> InitSeq, fctx |-> <<>>,
     data |-> [k \in 0 .. Size - 1 |-> None]]

\* move the data to the front when the new data would reach the end
MoveToFront(b, end_off) ==
    IF Size <= b.head_offset + end_off
    THEN [b EXCEPT !.data = [k \in 0 .. Size - 1 |->
                                IF k < b.last_len
                                THEN b.data[b.head_offset + k]
                                ELSE b.data[k]],
                   !.tail_offset = @ - b.head_offset,
                   !.head_offset = 0]
    ELSE b

\* len bytes from byte n on, at the offset putx of the head
Store(b, putx, n, len) ==
    LET at == b.head_offset + putx
    IN  [b EXCEPT !.data = [k \in 0 .. Size - 1 |->
                               IF k \in at .. at + len - 1
                               THEN n + (k - at) ELSE b.data[k]],
                  !.tail_offset = IF @ < at + len THEN at + len ELSE @]

Merged_OverGap(b) ==
    [b EXCEPT !.cum_len = @ + Head(b.fctx).len - b.merged_len,
              !.merged_len = Head(b.fctx).len]

\* the prefix of the stream that is complete
Merged(b) ==
    IF b.head_seq = Head(b.fctx).seq
    THEN [b EXCEPT !.cum_len = @ + Head(b.fctx).len - b.merged_len,
                   !.merged_len = Head(b.fctx).len]
    ELSE b

\* dropped: it starts before the head, or does not fit
RBDrops(b, n, len) ==
    LET putx == (ByteSeq(n) - b.head_seq) % SeqSpace
    IN  \/ GetMinSeq(b.head_seq, ByteSeq(n)) # b.head_seq
        \/ Size < putx + len

RBPut(b, n, len) ==
    LET putx == (ByteSeq(n) - b.head_seq) % SeqSpace
        c == Store(MoveToFront(b, putx + len), putx, n, len)
    IN  IF RBDrops(b, n, len)
        THEN b
        ELSE Merged([c EXCEPT !.last_len = c.tail_offset - c.head_offset,
                              !.fctx = InsertFragment(@, [seq |-> ByteSeq(n),
                                                          len |-> len])])

RBRemove_KeepsLastLen(b, len) ==
    LET f == Head(b.fctx)
    IN  IF len = 0
        THEN b
        ELSE [b EXCEPT !.head_offset = len,
                       !.head_seq = (@ + len) % SeqSpace,
                       !.merged_len = @ - len,
                       !.fctx = IF len = f.len
                                THEN Tail(@)
                                ELSE [@ EXCEPT ![1] =
                                        [seq |-> (f.seq + len) % SeqSpace,
                                         len |-> f.len - len]]]

\* of the first len bytes, which are merged
RBRemove(b, len) ==
    LET f == Head(b.fctx)
    IN  IF len = 0
        THEN b
        ELSE [b EXCEPT !.head_offset = len,
                       !.head_seq = (@ + len) % SeqSpace,
                       !.merged_len = @ - len, !.last_len = @ - len,
                       !.fctx = IF len = f.len
                                THEN Tail(@)
                                ELSE [@ EXCEPT ![1] =
                                        [seq |-> (f.seq + len) % SeqSpace,
                                         len |-> f.len - len]]]

Window_Whole(b) == Size

\* the window to advertise
Window(b) == Size - b.merged_len
-----------------------------------------------------------------------------
Init ==
    /\ buff = RBInit
    /\ rcv_nxt = InitSeq
    /\ rcv_wnd = InitialWnd
    /\ state = "ESTABLISHED"
    /\ signal = FALSE
    /\ app = "idle"
    /\ arrived = {}
    /\ read = <<>>
    /\ abort = FALSE

\* What validseq and process_payload let through: the segment ends in the
\* window.
InWindow(n, len) == (ByteSeq(n + len) - rcv_nxt) % SeqSpace <= rcv_wnd

(* The stack thread.                                                        *)
process_payload(n, len) ==
    LET put == RBPut(buff, n, len)
        b == IF state = "FIN_WAIT" THEN RBRemove(put, put.merged_len) ELSE put
        nxt == (b.head_seq + b.merged_len) % SeqSpace
    IN  /\ ~ abort
        /\ ~ signal
        /\ state \in {"ESTABLISHED", "FIN_WAIT"}
        /\ InWindow(n, len)
        /\ buff' = b
        /\ rcv_nxt' = nxt
        /\ rcv_wnd' = Window(b)
        /\ signal' = (state = "ESTABLISHED" /\ nxt # rcv_nxt
                        /\ GetMaxSeq(nxt, rcv_nxt) = nxt)
        /\ arrived' = IF RBDrops(buff, n, len)
                      THEN arrived ELSE arrived \cup (n .. n + len - 1)
        /\ abort' = ~ \/ RBDrops(buff, n, len)
                      \/ InsertsInOrder(buff.fctx, [seq |-> ByteSeq(n), len |-> len])
        /\ UNCHANGED <<state, app, read>>

handle_fin ==
    /\ ~ abort
    /\ ~ signal
    /\ state = "ESTABLISHED"
    /\ rcv_nxt = ByteSeq(Total)
    /\ state' = "CLOSE_WAIT"
    /\ rcv_nxt' = (rcv_nxt + 1) % SeqSpace
    /\ signal' = TRUE
    /\ UNCHANGED <<buff, rcv_wnd, app, arrived, read, abort>>

flush_read_event_Unheard ==
    /\ ~ abort
    /\ signal
    /\ signal' = FALSE
    /\ app' = IF app = "waiting" /\ buff.merged_len > 0 THEN "recv" ELSE app
    /\ UNCHANGED <<buff, rcv_nxt, rcv_wnd, state, arrived, read, abort>>

\* the read event: pthread_cond_signal under read_lock
flush_read_event ==
    /\ ~ abort
    /\ signal
    /\ signal' = FALSE
    /\ app' = IF app = "waiting" THEN "recv" ELSE app
    /\ UNCHANGED <<buff, rcv_nxt, rcv_wnd, state, arrived, read, abort>>

process_rst ==
    /\ ~ abort
    /\ ~ signal
    /\ state = "ESTABLISHED"
    /\ state' = "CLOSE_WAIT"
    /\ UNCHANGED <<buff, rcv_nxt, rcv_wnd, signal, app, arrived, read, abort>>

\* the close of the application has reached the stack thread
handle_close ==
    /\ ~ abort
    /\ ~ signal
    /\ app = "closed"
    /\ state = "ESTABLISHED"
    /\ state' = "FIN_WAIT"
    /\ UNCHANGED <<buff, rcv_nxt, rcv_wnd, signal, app, arrived, read, abort>>

(* The application thread.  recv looks at the stream without the lock ...   *)
RecvCheck ==
    /\ ~ abort
    /\ app = "idle"
    /\ app' = IF state = "CLOSE_WAIT" /\ buff.merged_len = 0
              THEN "eof" ELSE "recv"
    /\ UNCHANGED <<buff, rcv_nxt, rcv_wnd, state, signal, arrived, read, abort>>

\* ... and, with the lock, waits while there is nothing to read ...
RecvWait ==
    /\ ~ abort
    /\ app = "recv"
    /\ buff.merged_len = 0
    /\ app' = IF state = "ESTABLISHED" THEN "waiting" ELSE "eof"
    /\ UNCHANGED <<buff, rcv_nxt, rcv_wnd, state, signal, arrived, read, abort>>

\* ... or copies to the user and removes what it copied.
copy_to_user(len) ==
    LET copylen == IF buff.merged_len < len THEN buff.merged_len ELSE len
    IN  /\ ~ abort
        /\ app = "recv"
        /\ buff.merged_len > 0
        /\ read' = read \o [k \in 1 .. copylen |->
                              buff.data[buff.head_offset + k - 1]]
        /\ abort' = (copylen > Head(buff.fctx).len)
        /\ buff' = RBRemove(buff, copylen)
        /\ rcv_wnd' = Window(buff')
        /\ app' = "idle"
        /\ UNCHANGED <<rcv_nxt, state, signal, arrived>>

close ==
    /\ ~ abort
    /\ app \in {"idle", "eof"}
    /\ app' = "closed"
    /\ UNCHANGED <<buff, rcv_nxt, rcv_wnd, state, signal, arrived, read, abort>>
-----------------------------------------------------------------------------
Stack ==
    \/ \E n \in 0 .. Total - 1, len \in 1 .. MaxSegLen :
         n + len <= Total /\ process_payload(n, len)
    \/ handle_fin
    \/ flush_read_event
    \/ process_rst
    \/ handle_close

Application ==
    \/ RecvCheck
    \/ RecvWait
    \/ \E len \in 1 .. MaxSegLen : copy_to_user(len)
    \/ close

Next == Stack \/ Application

Spec == Init /\ [][Next]_vars

(***************************************************************************)
(* Fairness: the stack thread finishes the handler it is in.  Nothing is   *)
(* assumed of the peer or of the application.                              *)
(***************************************************************************)
FairSpec == Spec /\ WF_vars(flush_read_event)
-----------------------------------------------------------------------------
TypeOK ==
    /\ buff.head_offset \in 0 .. Size
    /\ buff.tail_offset \in 0 .. Size
    /\ buff.merged_len \in 0 .. Size
    /\ buff.cum_len \in 0 .. Total
    /\ buff.last_len \in 0 .. Size
    /\ buff.head_seq \in 0 .. SeqSpace - 1
    /\ buff.fctx \in Seq([seq : 0 .. SeqSpace - 1, len : 1 .. Size])
    /\ buff.data \in [0 .. Size - 1 -> None .. Total - 1]
    /\ rcv_nxt \in 0 .. SeqSpace - 1
    /\ rcv_wnd \in 0 .. InitialWnd \cup 0 .. Size
    /\ state \in {"ESTABLISHED", "CLOSE_WAIT", "FIN_WAIT"}
    /\ signal \in BOOLEAN
    /\ app \in {"idle", "recv", "waiting", "eof", "closed"}
    /\ arrived \subseteq 0 .. Total - 1
    /\ read \in Seq(None .. Total - 1)
    /\ abort \in BOOLEAN

HeadByte == (buff.head_seq - InitSeq) % SeqSpace

\* The maximal runs of the bytes that arrived and were not taken yet.
Runs ==
    LET kept == {n \in arrived : n >= HeadByte}
    IN  {r \in kept \X kept :
            /\ r[1] .. r[2] # {} /\ r[1] .. r[2] \subseteq kept
            /\ r[1] - 1 \notin kept /\ r[2] + 1 \notin kept}

\* The fragment list is the runs of what arrived, in order, whatever the order
\* of arrival and wherever the sequence numbers wrap: RBPut merges every
\* fragment that touches the new one, and only those.
FragmentsAreRuns ==
    /\ ToSet(buff.fctx) = {[seq |-> ByteSeq(r[1]), len |-> r[2] - r[1] + 1] : r \in Runs}
    /\ \A i \in 1 .. Len(buff.fctx) - 1 :
          (buff.fctx[i].seq - InitSeq) % SeqSpace
            < (buff.fctx[i + 1].seq - InitSeq) % SeqSpace

\* What is acknowledged is what arrived: rcv_nxt, less the FIN it may count, is
\* the first byte missing, and it is what recv has taken or can take.
AckedIsStored ==
    LET nxt == buff.cum_len
    IN  /\ 0 .. nxt - 1 \subseteq arrived /\ nxt \notin arrived
        /\ HeadByte + buff.merged_len = nxt
        /\ rcv_nxt \in {ByteSeq(nxt), ByteSeq(nxt + 1)}
        /\ rcv_nxt = ByteSeq(nxt + 1) => state # "ESTABLISHED" /\ nxt = Total

\* RBPut's memmove and recv's memcpy stay inside the chunk: the last_len bytes
\* from head on are in it, and cover what recv can take.  The assertions of
\* RBPut and RBRemove, on the order of fragments and on their length, hold.
AccessInBounds ==
    /\ ~ abort
    /\ buff.head_offset + buff.last_len <= Size
    /\ buff.merged_len <= buff.last_len
    /\ buff.head_offset <= buff.tail_offset

\* The window promises no more than the buffer holds: from the first payload
\* on, RBPut stores every segment that ends in the window and does not start
\* before the head.
WindowFitsBuffer ==
    arrived # {} /\ state # "CLOSE_WAIT" =>
        \A n \in HeadByte .. Total - 1, len \in 1 .. MaxSegLen :
            InWindow(n, len) => ~ RBDrops(buff, n, len)

\* A recv that waits is woken by data it can read and by the peer's FIN.
BlockedRecvWakes ==
    app = "waiting" /\ (buff.merged_len > 0 \/ rcv_nxt = ByteSeq(Total + 1))
        ~> app # "waiting"

\* A recv that waits is woken by everything that takes the stream out of
\* ESTABLISHED, where its loop would end.  process_rst does not signal it.
ResetRecvWakes == app = "waiting" /\ state # "ESTABLISHED" ~> app # "waiting"

\* recv returns the peer's bytes in the order they were sent.
DeliveredInOrder == \A k \in 1 .. Len(read) : read[k] = k - 1
=============================================================================
