--------------------------- MODULE SendBufferProofs ---------------------------
(***************************************************************************)
(* Proofs about SendBuffer, for every size of the buffer and of the sends: *)
(* what flush_sendbuffer puts on the wire, first or again, is the stream.  *)
(*                                                                         *)
(* The invariant adds to the properties that snd_wnd is exactly the free   *)
(* space and that snd_nxt is inside the buffer, which is what makes each   *)
(* cell that is read one that holds a byte of the stream.                  *)
(***************************************************************************)
EXTENDS SendBuffer, TLAPS

Inv ==
    /\ TypeOK
    /\ BufferHoldsStream
    /\ snd_wnd = Size - sndbuf.len
    /\ SendsFromBuffer
    /\ WireIsStream
-----------------------------------------------------------------------------
(* The buffer.                                                              *)

\* Moving the data to the front keeps the stream.
LEMMA CompactedHolds ==
  ASSUME NEW b \in Buffer, HoldsStream(b)
  PROVE  LET c == Compacted(b)
         IN  /\ c \in Buffer /\ HoldsStream(c)
             /\ c.head_off = 0 /\ c.tail_off = b.len /\ c.len = b.len
             /\ c.cum_len = b.cum_len /\ c.head_seq = b.head_seq
<1> DEFINE d == [k \in 0 .. Size - 1 |->
                   IF k < b.len THEN b.data[b.head_off + k] ELSE b.data[k]]
           c == Compacted(b)
<1>1. /\ Size \in Nat /\ b.len \in 0 .. Size /\ b.head_off \in 0 .. Size
      /\ b.tail_off \in 0 .. Size /\ b.head_seq \in Nat
      /\ b.data \in [0 .. Size - 1 -> Nat \cup {None}]
      /\ b.tail_off = b.head_off + b.len
  BY SizesAssumption DEF Buffer, HoldsStream
<1>2. d \in [0 .. Size - 1 -> Nat \cup {None}]
  BY <1>1
<1>3. /\ c.data = d /\ c.head_off = 0 /\ c.tail_off = b.len
      /\ c.len = b.len /\ c.cum_len = b.cum_len /\ c.head_seq = b.head_seq
  BY DEF Compacted, Buffer
<1>4. 0 \in 0 .. Size
  BY <1>1
<1>5. c \in Buffer
  BY <1>1, <1>2, <1>4, Zenon DEF Compacted, Buffer
<1>6. ASSUME NEW k \in 0 .. b.len - 1
      PROVE  d[0 + k] = b.head_seq + k
  <2>1. k \in 0 .. Size - 1 /\ k < b.len /\ 0 + k = k
    BY <1>1
  <2>2. d[k] = b.data[b.head_off + k]
    BY <2>1
  <2> QED
    BY <2>1, <2>2 DEF HoldsStream
<1> HIDE DEF d, c
<1>7. HoldsStream(c)
  BY <1>1, <1>3, <1>6 DEF HoldsStream
<1> QED
  BY <1>3, <1>5, <1>7 DEF c

\* Appending behind the tail adds the next bytes of the stream.
LEMMA AppendedHolds ==
  ASSUME NEW b \in Buffer, HoldsStream(b), NEW n \in Nat, b.tail_off + n <= Size
  PROVE  LET c == Appended(b, n)
             u == [c EXCEPT !.len = @ + n, !.cum_len = @ + n]
         IN  /\ u \in Buffer /\ HoldsStream(u)
             /\ u.len = b.len + n /\ u.head_seq = b.head_seq
<1> DEFINE d == [k \in 0 .. Size - 1 |->
                   IF k \in b.tail_off .. b.tail_off + n - 1
                   THEN b.cum_len + (k - b.tail_off) ELSE b.data[k]]
           c == Appended(b, n)
           u == [c EXCEPT !.len = @ + n, !.cum_len = @ + n]
<1>1. /\ Size \in Nat /\ b.len \in 0 .. Size /\ b.head_off \in 0 .. Size
      /\ b.tail_off \in 0 .. Size /\ b.head_seq \in Nat /\ b.cum_len \in Nat
      /\ b.data \in [0 .. Size - 1 -> Nat \cup {None}]
      /\ b.tail_off = b.head_off + b.len
      /\ b.cum_len = b.head_seq + b.len
      /\ n \in Nat /\ b.tail_off + n <= Size
  BY SizesAssumption DEF Buffer, HoldsStream
<1>0. /\ b.tail_off + n \in 0 .. Size /\ b.len + n \in 0 .. Size
      /\ b.cum_len + n \in Nat
      /\ b.tail_off + n = b.head_off + (b.len + n)
      /\ b.cum_len + n = b.head_seq + (b.len + n)
      /\ \A k \in b.tail_off .. b.tail_off + n - 1 :
            b.cum_len + (k - b.tail_off) \in Nat
      /\ \A k \in Nat :
            b.cum_len + ((b.head_off + k) - b.tail_off) = b.head_seq + k
  <2> DEFINE t == b.tail_off
             h == b.head_off
             l == b.len
             m == b.cum_len
             q == b.head_seq
  <2>1. /\ Size \in Nat /\ t \in 0 .. Size /\ h \in 0 .. Size /\ l \in 0 .. Size
        /\ m \in Nat /\ q \in Nat /\ n \in Nat
        /\ t = h + l /\ m = q + l /\ t + n <= Size
    BY <1>1
  <2> HIDE DEF t, h, l, m, q
  <2>2. /\ t + n \in 0 .. Size /\ l + n \in 0 .. Size /\ m + n \in Nat
        /\ t + n = h + (l + n) /\ m + n = q + (l + n)
        /\ \A k \in t .. t + n - 1 : m + (k - t) \in Nat
        /\ \A k \in Nat : m + ((h + k) - t) = q + k
    BY <2>1, SMT
  <2> QED
    BY <2>2, Zenon DEF t, h, l, m, q
<1>2. d \in [0 .. Size - 1 -> Nat \cup {None}]
  <2>1. ASSUME NEW k \in 0 .. Size - 1
        PROVE  (IF k \in b.tail_off .. b.tail_off + n - 1
                THEN b.cum_len + (k - b.tail_off) ELSE b.data[k])
                 \in Nat \cup {None}
    <3>1. CASE k \in b.tail_off .. b.tail_off + n - 1
      <4>1. b.cum_len + (k - b.tail_off) \in Nat
        BY <1>0, <3>1, Zenon
      <4> QED
        BY <3>1, <4>1
    <3>2. CASE k \notin b.tail_off .. b.tail_off + n - 1
      BY <1>1, <3>2
    <3> QED
      BY <3>1, <3>2
  <2> QED
    BY <2>1, Zenon
<1>3. /\ u.data = d /\ u.head_off = b.head_off /\ u.tail_off = b.tail_off + n
      /\ u.len = b.len + n /\ u.cum_len = b.cum_len + n
      /\ u.head_seq = b.head_seq
  BY DEF Appended, Buffer
<1>4. b.tail_off + n \in 0 .. Size /\ b.len + n \in 0 .. Size /\ b.cum_len + n \in Nat
  BY <1>0
<1>5. u \in Buffer
  <2>1. c \in Buffer
    BY <1>1, <1>2, <1>4, Zenon DEF Appended, Buffer
  <2>2. c.len = b.len /\ c.cum_len = b.cum_len
    BY DEF Appended, Buffer
  <2> HIDE DEF c
  <2> QED
    BY <1>4, <2>1, <2>2, Zenon DEF Buffer
<1>6. ASSUME NEW k \in 0 .. (b.len + n) - 1
      PROVE  d[b.head_off + k] = b.head_seq + k
  <2>1. b.head_off + k \in 0 .. Size - 1
    BY <1>1, SMTT(30)
  <2>2. CASE k < b.len
    <3>1. b.head_off + k \notin b.tail_off .. b.tail_off + n - 1
      BY <1>1, <2>2
    <3>2. d[b.head_off + k] = b.data[b.head_off + k]
      BY <2>1, <3>1
    <3>3. k \in 0 .. b.len - 1
      BY <1>1, <2>2
    <3> QED
      BY <3>2, <3>3 DEF HoldsStream
  <2>3. CASE k >= b.len
    <3>1. b.head_off + k \in b.tail_off .. b.tail_off + n - 1
      BY <1>1, <2>3, SMTT(30)
    <3>2. d[b.head_off + k] = b.cum_len + ((b.head_off + k) - b.tail_off)
      BY <2>1, <3>1
    <3>3. b.cum_len + ((b.head_off + k) - b.tail_off) = b.head_seq + k
      BY <1>0, <1>1
    <3> QED
      BY <3>2, <3>3
  <2>4. k < b.len \/ k >= b.len
    BY <1>1
  <2> QED
    BY <2>2, <2>3, <2>4, Zenon
<1> HIDE DEF d, c, u
<1>7. HoldsStream(u)
  <2>1. /\ b.tail_off + n = b.head_off + (b.len + n)
        /\ b.cum_len + n = b.head_seq + (b.len + n)
    BY <1>0
  <2>2. \A k \in 0 .. (b.len + n) - 1 : d[b.head_off + k] = b.head_seq + k
    BY <1>6
  <2> QED
    BY <1>3, <2>1, <2>2 DEF HoldsStream
<1> QED
  BY <1>3, <1>5, <1>7 DEF u, c

\* SBPut adds the next bytes, as many as there is room for.
LEMMA PutHolds ==
  ASSUME NEW b \in Buffer, HoldsStream(b), NEW n \in Nat
  PROVE  LET u == SBPut(b, n)
         IN  /\ u \in Buffer /\ HoldsStream(u)
             /\ u.len = b.len + Min2(n, Size - b.len)
             /\ u.head_seq = b.head_seq
<1> DEFINE m == Min2(n, Size - b.len)
           e == IF b.tail_off + m < Size THEN b ELSE Compacted(b)
           c == Appended(e, m)
           u == [c EXCEPT !.len = @ + m, !.cum_len = @ + m]
<1>1. /\ Size \in Nat /\ b.len \in 0 .. Size /\ b.tail_off \in 0 .. Size
  BY SizesAssumption DEF Buffer
<1>2. m \in Nat /\ m <= Size - b.len
  BY <1>1 DEF Min2
<1> HIDE DEF m
<1>3. /\ e \in Buffer /\ HoldsStream(e) /\ e.tail_off + m <= Size
      /\ e.len = b.len /\ e.head_seq = b.head_seq
  <2>1. CASE b.tail_off + m < Size
    BY <2>1, <1>1, <1>2
  <2>2. CASE ~ (b.tail_off + m < Size)
    <3>1. /\ Compacted(b) \in Buffer /\ HoldsStream(Compacted(b))
          /\ Compacted(b).tail_off = b.len /\ Compacted(b).len = b.len
          /\ Compacted(b).head_seq = b.head_seq
      BY CompactedHolds
    <3> QED
      BY <3>1, <2>2, <1>1, <1>2
  <2> QED
    BY <2>1, <2>2
<1> HIDE DEF e
<1>4. u \in Buffer /\ HoldsStream(u) /\ u.len = e.len + m /\ u.head_seq = e.head_seq
  BY <1>2, <1>3, AppendedHolds
<1>5. SBPut(b, n) = u
  BY Zenon DEF SBPut, u, c, e, m
<1> HIDE DEF u
<1> QED
  BY <1>3, <1>4, <1>5 DEF m

\* SBRemove takes bytes off the head and moves head_seq by as many.
LEMMA RemoveHolds ==
  ASSUME NEW b \in Buffer, HoldsStream(b), NEW n \in 1 .. b.len
  PROVE  LET u == SBRemove(b, n)
         IN  /\ u \in Buffer /\ HoldsStream(u)
             /\ u.len = b.len - n /\ u.head_seq = b.head_seq + n
<1> DEFINE u == SBRemove(b, n)
           h == IF b.len = n THEN 0 ELSE b.head_off + n
           t == IF b.len = n THEN 0 ELSE b.tail_off
<1>1. /\ Size \in Nat /\ b.len \in 0 .. Size /\ b.head_off \in 0 .. Size
      /\ b.tail_off \in 0 .. Size /\ b.head_seq \in Nat
      /\ b.tail_off = b.head_off + b.len /\ b.cum_len = b.head_seq + b.len
  BY SizesAssumption DEF Buffer, HoldsStream
<1>2. Min2(n, b.len) = n
  BY <1>1 DEF Min2
<1>3. u = [b EXCEPT !.head_off = h, !.tail_off = t,
                    !.head_seq = b.head_seq + n, !.len = b.len - n]
  BY <1>2, Zenon DEF SBRemove
<1>4. /\ h \in 0 .. Size /\ t \in 0 .. Size
      /\ b.len - n \in 0 .. Size /\ b.head_seq + n \in Nat
  BY <1>1
<1>5. /\ u.head_off = h /\ u.tail_off = t /\ u.head_seq = b.head_seq + n
      /\ u.len = b.len - n /\ u.cum_len = b.cum_len /\ u.data = b.data
  BY <1>3 DEF Buffer
<1>6. u \in Buffer
  <2> HIDE DEF h, t, u
  <2> QED
    BY <1>3, <1>4, Zenon DEF Buffer
<1>7. t = h + (b.len - n)
  BY <1>1
<1>8. ASSUME NEW k \in 0 .. (b.len - n) - 1
      PROVE  b.data[h + k] = (b.head_seq + n) + k
  <2>1. h + k = b.head_off + (n + k) /\ n + k \in 0 .. b.len - 1
    BY <1>1
  <2>2. b.data[b.head_off + (n + k)] = b.head_seq + (n + k)
    BY <2>1 DEF HoldsStream
  <2> QED
    BY <2>1, <2>2, <1>1
<1> HIDE DEF u, h, t
<1>9. HoldsStream(u)
  BY <1>1, <1>5, <1>7, <1>8 DEF HoldsStream
<1> QED
  BY <1>5, <1>6, <1>9 DEF u
-----------------------------------------------------------------------------
(* The steps.                                                               *)

\* An empty buffer holds the (empty) stream.
LEMMA InitInv == Init => Inv
<1> SUFFICES ASSUME Init PROVE Inv
  OBVIOUS
<1>1. Size \in Nat /\ Size > 0 /\ 0 \in 0 .. Size /\ Size \in 0 .. Size
  BY SizesAssumption
<1>2. [k \in 0 .. Size - 1 |-> None] \in [0 .. Size - 1 -> Nat \cup {None}]
  OBVIOUS
<1>3. SBInit \in Buffer
  BY <1>1, <1>2, Zenon DEF SBInit, Buffer
<1>4. SBInit.head_off = 0 /\ SBInit.tail_off = 0 /\ SBInit.len = 0
      /\ SBInit.cum_len = 0 /\ SBInit.head_seq = 0
  BY DEF SBInit
<1>5. HoldsStream(SBInit)
  BY <1>4 DEF HoldsStream
<1>6. TypeOK
  BY <1>1, <1>3 DEF Init, TypeOK
<1> QED
  BY <1>1, <1>4, <1>5, <1>6
     DEF Init, Inv, BufferHoldsStream, SendsFromBuffer, WireIsStream

\* copy_from_user puts no more than the free space.
LEMMA CopyInv ==
  ASSUME Inv, NEW n \in 1 .. MaxLen, copy_from_user(n)
  PROVE  Inv'
<1> DEFINE m == Min2(snd_wnd, n)
           u == SBPut(sndbuf, m)
<1>1. /\ Size \in Nat /\ sndbuf \in Buffer /\ HoldsStream(sndbuf)
      /\ snd_wnd = Size - sndbuf.len /\ snd_nxt \in Nat
      /\ sndbuf.len \in 0 .. Size /\ sndbuf.head_seq \in Nat
      /\ snd_nxt \in sndbuf.head_seq .. sndbuf.head_seq + sndbuf.len
  BY SizesAssumption
     DEF Inv, TypeOK, Buffer, BufferHoldsStream, SendsFromBuffer
<1>2. m \in Nat /\ Min2(m, Size - sndbuf.len) \in Nat
  BY <1>1 DEF Min2
<1>3. sndbuf' = u /\ snd_wnd' = Size - sndbuf'.len
  BY DEF copy_from_user, Space
<1> HIDE DEF m
<1>4. /\ u \in Buffer /\ HoldsStream(u) /\ u.head_seq = sndbuf.head_seq
      /\ u.len = sndbuf.len + Min2(m, Size - sndbuf.len)
  BY <1>1, <1>2, PutHolds
<1> HIDE DEF u
<1>5. u.len \in 0 .. Size
  BY <1>4 DEF Buffer
<1>6. /\ snd_nxt' = snd_nxt /\ wire' = wire
      /\ snd_nxt \in u.head_seq .. u.head_seq + u.len
  BY <1>1, <1>2, <1>4 DEF copy_from_user
<1>7. snd_wnd' \in 0 .. Size
  BY <1>1, <1>3, <1>5
<1>8. TypeOK'
  BY <1>3, <1>4, <1>6, <1>7 DEF Inv, TypeOK, copy_from_user
<1> QED
  BY <1>3, <1>4, <1>6, <1>8
     DEF Inv, BufferHoldsStream, SendsFromBuffer, WireIsStream

\* A byte read from inside the buffer is the byte of its sequence number.
LEMMA ByteAtIsStream ==
  ASSUME NEW b \in Buffer, HoldsStream(b),
         NEW q \in b.head_seq .. b.head_seq + b.len - 1
  PROVE  ByteAt(b, q) = q
<1>1. b.head_seq \in Nat /\ b.len \in Nat
  BY SizesAssumption DEF Buffer
<1>2. q - b.head_seq \in 0 .. b.len - 1 /\ b.head_seq + (q - b.head_seq) = q
  BY <1>1
<1>3. b.data[b.head_off + (q - b.head_seq)] = b.head_seq + (q - b.head_seq)
  BY <1>2, Zenon DEF HoldsStream
<1> QED
  BY <1>2, <1>3 DEF ByteAt

\* flush_sendbuffer reads only cells inside the buffer.
LEMMA FlushInv ==
  ASSUME Inv, NEW n \in 0 .. Size, NEW stay \in BOOLEAN,
         flush_sendbuffer(n, stay)
  PROVE  Inv'
<1> DEFINE new == {<<q, ByteAt(sndbuf, q)>> : q \in snd_nxt .. snd_nxt + n - 1}
<1>1. /\ sndbuf \in Buffer /\ HoldsStream(sndbuf)
      /\ sndbuf.len \in Nat /\ sndbuf.head_seq \in Nat /\ snd_nxt \in Nat
      /\ snd_nxt \in sndbuf.head_seq .. sndbuf.head_seq + sndbuf.len
      /\ n \in Nat
  BY SizesAssumption
     DEF Inv, TypeOK, Buffer, BufferHoldsStream, SendsFromBuffer
<1>2. n <= sndbuf.head_seq + sndbuf.len - snd_nxt
  BY DEF flush_sendbuffer
<1>3. ASSUME NEW q \in snd_nxt .. snd_nxt + n - 1
      PROVE  q \in Nat /\ ByteAt(sndbuf, q) = q
  <2>1. q \in Nat /\ q \in sndbuf.head_seq .. sndbuf.head_seq + sndbuf.len - 1
    BY <1>1, <1>2
  <2> QED
    BY <1>1, <2>1, ByteAtIsStream
<1>4. new \subseteq Nat \X (Nat \cup {None}) /\ \A x \in new : x[2] = x[1]
  BY <1>3
<1> HIDE DEF new
<1>5. /\ sndbuf' = sndbuf /\ snd_wnd' = snd_wnd /\ wire' = wire \cup new
      /\ snd_nxt' = snd_nxt + n
  BY DEF flush_sendbuffer, new
<1>6. snd_nxt' \in Nat
      /\ snd_nxt' \in sndbuf.head_seq .. sndbuf.head_seq + sndbuf.len
  BY <1>1, <1>2, <1>5
<1>7. wire' \subseteq Nat \X (Nat \cup {None}) /\ WireIsStream'
  BY <1>4, <1>5 DEF Inv, TypeOK, WireIsStream
<1>8. stack' \in {"idle", "unlist", "relock"}
  BY DEF flush_sendbuffer
<1>9. TypeOK'
  BY <1>5, <1>6, <1>7, <1>8 DEF Inv, TypeOK, flush_sendbuffer
<1> QED
  BY <1>5, <1>6, <1>7, <1>9 DEF Inv, BufferHoldsStream, SendsFromBuffer

\* process_ack removes at most what is in the buffer, and snd_nxt follows.
LEMMA AckInv ==
  ASSUME Inv, NEW a \in 1 .. Total, process_ack(a)
  PROVE  Inv'
<1> DEFINE n == a - sndbuf.head_seq
           u == SBRemove(sndbuf, n)
<1>1. /\ Size \in Nat /\ sndbuf \in Buffer /\ HoldsStream(sndbuf)
      /\ sndbuf.len \in 0 .. Size /\ sndbuf.head_seq \in Nat
      /\ snd_nxt \in Nat /\ a \in Nat
      /\ snd_nxt \in sndbuf.head_seq .. sndbuf.head_seq + sndbuf.len
  BY SizesAssumption
     DEF Inv, TypeOK, Buffer, BufferHoldsStream, SendsFromBuffer
<1>2. /\ a \in sndbuf.head_seq + 1 .. sndbuf.head_seq + sndbuf.len
      /\ sndbuf' = u /\ snd_wnd' = Size - sndbuf'.len
      /\ snd_nxt' = Max2(snd_nxt, a) /\ wire' = wire
  BY DEF process_ack, Space
<1>3. n \in 1 .. sndbuf.len /\ sndbuf.head_seq + n = a
  BY <1>1, <1>2
<1> HIDE DEF n
<1>4. /\ u \in Buffer /\ HoldsStream(u)
      /\ u.len = sndbuf.len - n /\ u.head_seq = sndbuf.head_seq + n
  BY <1>1, <1>3, RemoveHolds
<1> HIDE DEF u
<1>5. u.len \in 0 .. Size
  BY <1>4 DEF Buffer
<1>6. snd_wnd' \in 0 .. Size
  BY <1>1, <1>2, <1>5
<1>7. u.head_seq = a /\ u.head_seq + u.len = sndbuf.head_seq + sndbuf.len
  BY <1>1, <1>3, <1>4
<1>8. Max2(snd_nxt, a) \in Nat
      /\ Max2(snd_nxt, a) \in a .. sndbuf.head_seq + sndbuf.len
  BY <1>1, <1>2 DEF Max2
<1>9. /\ stack' \in {"idle", "unlist", "relock"}
      /\ write_lock' \in {"free", "stack"}
  BY DEF process_ack
<1>10. TypeOK'
  BY <1>2, <1>4, <1>6, <1>8, <1>9 DEF Inv, TypeOK, process_ack
<1> QED
  BY <1>2, <1>4, <1>7, <1>8, <1>10
     DEF Inv, BufferHoldsStream, SendsFromBuffer, WireIsStream

\* HandleRTO goes back to the head of the buffer.
LEMMA RtoInv == ASSUME Inv, HandleRTO PROVE Inv'
<1>1. /\ sndbuf' = sndbuf /\ snd_wnd' = snd_wnd /\ wire' = wire
      /\ snd_nxt' = sndbuf.head_seq
  BY DEF HandleRTO
<1>2. sndbuf.head_seq \in Nat /\ sndbuf.len \in Nat
  BY SizesAssumption DEF Inv, TypeOK, Buffer
<1>3. TypeOK'
  BY <1>1, <1>2 DEF Inv, TypeOK, HandleRTO
<1> QED
  BY <1>1, <1>2, <1>3
     DEF Inv, BufferHoldsStream, SendsFromBuffer, WireIsStream

\* The steps that touch neither the buffer nor the sequence numbers.
LEMMA OtherInv ==
  ASSUME Inv,
         \/ SendWait
         \/ SendEnqueue
         \/ HandleSendq
         \/ LeaveSendlist
         \/ UNCHANGED vars
  PROVE  Inv'
<1>1. /\ sndbuf' = sndbuf /\ snd_wnd' = snd_wnd /\ snd_nxt' = snd_nxt
      /\ wire' = wire
  BY DEF SendWait, SendEnqueue, HandleSendq, LeaveSendlist, vars
<1>2. TypeOK'
  BY <1>1 DEF Inv, TypeOK, SendWait, SendEnqueue, HandleSendq, LeaveSendlist,
              vars
<1> QED
  BY <1>1, <1>2 DEF Inv, BufferHoldsStream, SendsFromBuffer, WireIsStream
-----------------------------------------------------------------------------
\* The invariant holds in every reachable state, for every size of the buffer,
\* of the stream and of a send.
THEOREM SendInductive == Spec => []Inv
<1>1. ASSUME Inv, [Next]_vars PROVE Inv'
  BY <1>1, CopyInv, FlushInv, AckInv, RtoInv, OtherInv, Zenon
     DEF Next, Application, Stack
<1> QED
  BY InitInv, <1>1, PTL DEF Spec

\* The offsets of the buffer stay inside it, and no length or sequence number
\* of SBPut, SBRemove or process_ack underflows.
THEOREM SendTypeCorrect == Spec => []TypeOK
<1>1. Inv => TypeOK
  BY DEF Inv
<1> QED
  BY SendInductive, <1>1, PTL

\* The cells from head_off on are the bytes from head_seq on, through every
\* move of the data in SBPut and every SBRemove.
THEOREM BufferHoldsStreamHolds == Spec => []BufferHoldsStream
<1>1. Inv => BufferHoldsStream
  BY DEF Inv
<1> QED
  BY SendInductive, <1>1, PTL

\* flush_sendbuffer sends byte q with sequence number q, the first time and
\* after every timeout.
THEOREM WireIsStreamHolds == Spec => []WireIsStream
<1>1. Inv => WireIsStream
  BY DEF Inv
<1> QED
  BY SendInductive, <1>1, PTL

\* send never finds less room than snd_wnd: the assertion of copy_from_user
\* does not fail.
THEOREM WindowHasSpaceHolds == Spec => []WindowHasSpace
<1>1. Inv => WindowHasSpace
  BY SizesAssumption DEF Inv, WindowHasSpace, TypeOK, Buffer
<1> QED
  BY SendInductive, <1>1, PTL

\* snd_nxt stays between the head and the end of the buffer.
THEOREM SendsFromBufferHolds == Spec => []SendsFromBuffer
<1>1. Inv => SendsFromBuffer
  BY DEF Inv
<1> QED
  BY SendInductive, <1>1, PTL
=============================================================================
