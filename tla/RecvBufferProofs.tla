--------------------------- MODULE RecvBufferProofs ---------------------------
(***************************************************************************)
(* The receive buffer, proved for every size of the buffer, every segment  *)
(* and every place where the sequence numbers wrap.  The argument is about *)
(* the numbers of bytes: no two that are compared are half the sequence    *)
(* space apart, so the comparisons of sequence numbers order them, and the *)
(* fragment list is a list of intervals.  RBPut keeps it the list of the   *)
(* runs of what has arrived.                                               *)
(***************************************************************************)
EXTENDS RecvBuffer, SequenceTheorems, WellFoundedInduction, TLAPS

\* the first and the last byte of a fragment, and the fragment they make
Lo(f) == (f.seq - InitSeq) % SeqSpace
Hi(f) == Lo(f) + f.len - 1
Frag(a, b) == [seq |-> ByteSeq(a), len |-> b - a + 1]

Fragments ==
    {f \in [seq : 0 .. SeqSpace - 1, len : Nat \ {0}] : Hi(f) < Total}

\* list is the runs of the set S, in order: no two of them touch
RunsOf(list, S) ==
    /\ list \in Seq(Fragments)
    /\ \A i, j \in 1 .. Len(list) : i < j => Hi(list[i]) + 1 < Lo(list[j])
    /\ \A n \in Nat : n \in S <=>
          \E i \in 1 .. Len(list) : Lo(list[i]) <= n /\ n <= Hi(list[i])

Buffers ==
    [head_offset : Nat, tail_offset : 0 .. Size, merged_len : Nat,
     cum_len : Nat, last_len : Nat, head_seq : 0 .. SeqSpace - 1,
     fctx : Seq(Fragments), data : [0 .. Size - 1 -> None .. Total - 1]]

HeadOf(b) == (b.head_seq - InitSeq) % SeqSpace
Kept(b, arr) == {n \in arr : n >= HeadOf(b)}

\* A buffer that has taken in the bytes arr: what is before the head and what
\* is merged is the prefix that is complete, the fragments are the runs of the
\* rest, and all of it is in the last_len bytes from the head on.
GoodBuffer(b, arr) ==
    /\ b \in Buffers
    /\ b.head_offset + b.last_len <= b.tail_offset
    /\ arr \subseteq 0 .. Total - 1
    /\ HeadOf(b) + b.merged_len = b.cum_len
    /\ 0 .. b.cum_len - 1 \subseteq arr /\ b.cum_len \notin arr
    /\ RunsOf(b.fctx, Kept(b, arr))
    /\ \A n \in Kept(b, arr) : n < HeadOf(b) + b.last_len

\* The inductive invariant.  Without the FIN rcv_nxt is the first byte that is
\* missing; the window follows the buffer from the first byte on.
Inv ==
    /\ GoodBuffer(buff, arrived)
    /\ state \in {"ESTABLISHED", "CLOSE_WAIT", "FIN_WAIT"}
    /\ signal \in BOOLEAN
    /\ app \in {"idle", "recv", "waiting", "eof", "closed"}
    /\ read \in Seq(None .. Total - 1)
    /\ abort = FALSE
    /\ \/ rcv_nxt = ByteSeq(buff.cum_len)
       \/ /\ rcv_nxt = ByteSeq(buff.cum_len + 1)
          /\ state = "CLOSE_WAIT" /\ buff.cum_len = Total
    /\ \/ rcv_wnd = Window(buff)
       \/ arrived = {} /\ rcv_wnd = InitialWnd
-----------------------------------------------------------------------------
(* Numbers.                                                                 *)

\* A set of natural numbers has a least one.
LEMMA LeastNumber ==
    ASSUME NEW T, T \subseteq Nat, T # {}
    PROVE  \E m \in T : \A k \in T : m <= k
<1> DEFINE R == {ss \in Nat \X Nat : ss[1] < ss[2]}
<1>1. IsWellFoundedOn(R, Nat)
  BY NatLessThanWellFounded DEF OpToRel
<1>2. PICK x \in T : \A y \in T : ~ (<<y, x>> \in R)
  BY <1>1, WFMin
<1>3. ASSUME NEW y \in T PROVE x <= y
  <2>1. <<y, x>> \in Nat \X Nat
    OBVIOUS
  <2>2. ~ (y < x)
    BY <1>2, <2>1
  <2> QED
    BY <2>2
<1> QED
  BY <1>3

LEMMA Sizes ==
    /\ Size \in Nat /\ Size > 0 /\ Total \in Nat /\ Total > 0
    /\ MaxSegLen \in Nat /\ MaxSegLen > 0
    /\ InitialWnd \in Nat /\ InitialWnd > 0
    /\ SeqSpace \in Nat /\ SeqSpace > 2 * (Total + InitialWnd + MaxSegLen)
    /\ InitSeq \in Int /\ 0 <= InitSeq /\ InitSeq < SeqSpace
  BY SizesAssumption

\* A remainder is the one number of the space a multiple of its size away;
\* for a number at most one space away that leaves three cases.
LEMMA ModCases ==
    ASSUME NEW n \in Int, NEW m \in Nat \ {0}
    PROVE  /\ 0 <= n /\ n < m => n % m = n
           /\ m <= n /\ n < 2 * m => n % m = n - m
           /\ 0 - m <= n /\ n < 0 => n % m = n + m
           /\ n % m \in 0 .. m - 1
<1>1. n % m \in 0 .. m - 1
  OBVIOUS
<1>2. n \div m \in Int /\ n = m * (n \div m) + (n % m)
  OBVIOUS
<1> DEFINE q == n \div m
           r == n % m
<1>3. q \in Int /\ r \in 0 .. m - 1 /\ n = m * q + r
  BY <1>1, <1>2
<1> HIDE DEF q, r
<1>4. ASSUME 0 <= n, n < m PROVE r = n
  BY <1>3, <1>4
<1>5. ASSUME m <= n, n < 2 * m PROVE r = n - m
  BY <1>3, <1>5
<1>6. ASSUME 0 - m <= n, n < 0 PROVE r = n + m
  BY <1>3, <1>6
<1> QED
  BY <1>3, <1>4, <1>5, <1>6 DEF r

LEMMA SeqCases ==
    ASSUME NEW n \in Int
    PROVE  /\ 0 <= n /\ n < SeqSpace => n % SeqSpace = n
           /\ SeqSpace <= n /\ n < 2 * SeqSpace => n % SeqSpace = n - SeqSpace
           /\ 0 - SeqSpace <= n /\ n < 0 => n % SeqSpace = n + SeqSpace
           /\ n % SeqSpace \in 0 .. SeqSpace - 1
<1>1. SeqSpace \in Nat \ {0}
  BY Sizes
<1> QED
  BY <1>1, ModCases

\* The numbers of bytes that are ever compared.
Near == 0 .. Total + InitialWnd + MaxSegLen

LEMMA ByteSeqs ==
    ASSUME NEW a \in Near
    PROVE  /\ ByteSeq(a) \in 0 .. SeqSpace - 1
           /\ ByteSeq(a) = InitSeq + a \/ ByteSeq(a) = InitSeq + a - SeqSpace
           /\ (ByteSeq(a) - InitSeq) % SeqSpace = a
<1>1. a \in Int /\ 0 <= a /\ 2 * a < SeqSpace
  BY Sizes DEF Near
<1>2. ByteSeq(a) = InitSeq + a \/ ByteSeq(a) = InitSeq + a - SeqSpace
  <2>1. InitSeq + a \in Int /\ InitSeq + a < 2 * SeqSpace /\ 0 <= InitSeq + a
    BY <1>1, Sizes
  <2> DEFINE d == InitSeq + a
  <2> HIDE DEF d
  <2>2. /\ 0 <= d /\ d < SeqSpace => d % SeqSpace = d
        /\ SeqSpace <= d /\ d < 2 * SeqSpace => d % SeqSpace = d - SeqSpace
        /\ 0 - SeqSpace <= d /\ d < 0 => d % SeqSpace = d + SeqSpace
    BY <2>1, SeqCases DEF d
  <2>3. d % SeqSpace = d \/ d % SeqSpace = d - SeqSpace
    BY <2>1, <2>2, Sizes DEF d
  <2>4. ByteSeq(a) = d % SeqSpace
    BY DEF ByteSeq, d
  <2>5. d - SeqSpace = InitSeq + a - SeqSpace
    BY <1>1, Sizes DEF d
  <2> QED
    BY <2>3, <2>4, <2>5, Zenon DEF d
<1>3. ByteSeq(a) \in 0 .. SeqSpace - 1
  BY <1>1, Sizes, SeqCases DEF ByteSeq
<1>4. (ByteSeq(a) - InitSeq) % SeqSpace = a
  <2> DEFINE d == ByteSeq(a) - InitSeq
  <2>1. d = a \/ d = a - SeqSpace
    BY <1>1, <1>2, Sizes
  <2>2. d \in Int
    BY <2>1, <1>1, Sizes
  <2> HIDE DEF d
  <2>3. /\ 0 <= d /\ d < SeqSpace => d % SeqSpace = d
        /\ SeqSpace <= d /\ d < 2 * SeqSpace => d % SeqSpace = d - SeqSpace
        /\ 0 - SeqSpace <= d /\ d < 0 => d % SeqSpace = d + SeqSpace
    BY <2>2, SeqCases
  <2>4. d % SeqSpace = a
    BY <1>1, <2>1, <2>2, <2>3, Sizes
  <2> QED
    BY <2>4 DEF d
<1> QED
  BY <1>2, <1>3, <1>4

\* From one byte on to another, and the distance between two.
LEMMA SeqShift ==
    ASSUME NEW a \in Near, NEW k \in Int, a + k \in Near
    PROVE  (ByteSeq(a) + k) % SeqSpace = ByteSeq(a + k)
<1> DEFINE d == ByteSeq(a) + k
<1>1. a \in Int /\ 0 <= a /\ 2 * a < SeqSpace /\ 0 <= a + k /\ 2 * (a + k) < SeqSpace
  BY Sizes DEF Near
<1>2. ByteSeq(a) = InitSeq + a \/ ByteSeq(a) = InitSeq + a - SeqSpace
  BY ByteSeqs
<1>3. d \in Int /\ (d = InitSeq + (a + k) \/ d = InitSeq + (a + k) - SeqSpace)
  BY <1>1, <1>2, Sizes
<1> HIDE DEF d
<1>4. /\ ByteSeq(a + k) = InitSeq + (a + k) \/ ByteSeq(a + k) = InitSeq + (a + k) - SeqSpace
      /\ ByteSeq(a + k) \in 0 .. SeqSpace - 1
  BY ByteSeqs
<1>5. /\ 0 <= d /\ d < SeqSpace => d % SeqSpace = d
      /\ SeqSpace <= d /\ d < 2 * SeqSpace => d % SeqSpace = d - SeqSpace
      /\ 0 - SeqSpace <= d /\ d < 0 => d % SeqSpace = d + SeqSpace
  BY <1>3, SeqCases
<1>6. d % SeqSpace = ByteSeq(a + k)
  <2> DEFINE e == ByteSeq(a + k)
  <2> HIDE DEF e
  <2>1. /\ e = InitSeq + (a + k) \/ e = InitSeq + (a + k) - SeqSpace
        /\ e \in 0 .. SeqSpace - 1
    BY <1>4 DEF e
  <2>2. d % SeqSpace = e
    BY <1>1, <1>3, <1>5, <2>1, Sizes
  <2> QED
    BY <2>2 DEF e
<1> QED
  BY <1>6 DEF d

LEMMA SeqDistance ==
    ASSUME NEW a \in Near, NEW b \in Near
    PROVE  /\ a <= b => (ByteSeq(b) - ByteSeq(a)) % SeqSpace = b - a
           /\ b < a => (ByteSeq(b) - ByteSeq(a)) % SeqSpace = b - a + SeqSpace
<1> DEFINE d == ByteSeq(b) - ByteSeq(a)
<1>1. /\ a \in Int /\ 0 <= a /\ 2 * a < SeqSpace
      /\ b \in Int /\ 0 <= b /\ 2 * b < SeqSpace
  BY Sizes DEF Near
<1>2. /\ ByteSeq(a) = InitSeq + a \/ ByteSeq(a) = InitSeq + a - SeqSpace
      /\ ByteSeq(b) = InitSeq + b \/ ByteSeq(b) = InitSeq + b - SeqSpace
  BY ByteSeqs
<1>3. d \in Int /\ d \in {b - a, b - a - SeqSpace, b - a + SeqSpace}
  BY <1>1, <1>2, Sizes
<1>4. 0 - SeqSpace < d /\ d < SeqSpace
  BY <1>1, ByteSeqs, Sizes
<1> HIDE DEF d
<1>5. /\ 0 <= d /\ d < SeqSpace => d % SeqSpace = d
      /\ SeqSpace <= d /\ d < 2 * SeqSpace => d % SeqSpace = d - SeqSpace
      /\ 0 - SeqSpace <= d /\ d < 0 => d % SeqSpace = d + SeqSpace
  BY <1>3, SeqCases
<1>6. /\ a <= b => d % SeqSpace = b - a
      /\ b < a => d % SeqSpace = b - a + SeqSpace
  BY <1>1, <1>3, <1>4, <1>5, Sizes
<1> QED
  BY <1>6 DEF d

\* GetMinSeq and GetMaxSeq order the bytes.
LEMMA SeqOrder ==
    ASSUME NEW a \in Near, NEW b \in Near
    PROVE  /\ ByteSeq(a) = ByteSeq(b) => a = b
           /\ a <= b => GetMinSeq(ByteSeq(a), ByteSeq(b)) = ByteSeq(a)
           /\ b <= a => GetMinSeq(ByteSeq(a), ByteSeq(b)) = ByteSeq(b)
           /\ a <= b => GetMaxSeq(ByteSeq(a), ByteSeq(b)) = ByteSeq(b)
           /\ b <= a => GetMaxSeq(ByteSeq(a), ByteSeq(b)) = ByteSeq(a)
<1>1. /\ a \in Int /\ 0 <= a /\ 2 * a < SeqSpace
      /\ b \in Int /\ 0 <= b /\ 2 * b < SeqSpace
  BY Sizes DEF Near
<1> DEFINE x == ByteSeq(a)
           y == ByteSeq(b)
           half == MAXSEQ \div 2
<1>2. /\ x \in 0 .. SeqSpace - 1 /\ y \in 0 .. SeqSpace - 1
      /\ x = InitSeq + a \/ x = InitSeq + a - SeqSpace
      /\ y = InitSeq + b \/ y = InitSeq + b - SeqSpace
  BY ByteSeqs
<1>3. half \in Int /\ 2 * half <= SeqSpace - 1 /\ SeqSpace - 2 <= 2 * half
  BY Sizes DEF MAXSEQ
<1> HIDE DEF x, y, half
<1>4. x = y => a = b
  BY <1>1, <1>2, Sizes
<1>5. \/ y - x = b - a
      \/ a < b /\ y - x = b - a - SeqSpace
      \/ b < a /\ y - x = b - a + SeqSpace
  BY <1>1, <1>2, Sizes
<1>6. GetMinSeq(x, y) = IF x < y THEN IF y - x <= half THEN x ELSE y
                        ELSE IF x - y <= half THEN y ELSE x
  BY DEF GetMinSeq, half
<1>7. /\ 2 * (b - a) <= SeqSpace - 2 \/ 2 * (b - a) = SeqSpace - 1
      /\ 2 * (a - b) <= SeqSpace - 2 \/ 2 * (a - b) = SeqSpace - 1
  BY <1>1, Sizes
<1>8. b - a <= half /\ a - b <= half
  BY <1>1, <1>3, Sizes
<1>9. /\ a <= b => GetMinSeq(x, y) = x
      /\ b <= a => GetMinSeq(x, y) = y
  BY <1>1, <1>2, <1>3, <1>5, <1>6, <1>8, Sizes
<1>10. GetMaxSeq(x, y) = IF GetMinSeq(x, y) = x THEN y ELSE x
  BY DEF GetMaxSeq
<1>11. /\ a <= b => GetMaxSeq(x, y) = y
       /\ b <= a => GetMaxSeq(x, y) = x
  BY <1>1, <1>4, <1>9, <1>10
<1> QED
  BY <1>4, <1>9, <1>11 DEF x, y
-----------------------------------------------------------------------------
(* Fragments as intervals of bytes.                                         *)

LEMMA FragmentForm ==
    ASSUME NEW f \in Fragments
    PROVE  /\ Lo(f) \in Nat /\ Hi(f) \in Nat /\ Lo(f) <= Hi(f) /\ Hi(f) < Total
           /\ f.seq = ByteSeq(Lo(f)) /\ f.len = Hi(f) - Lo(f) + 1
           /\ f = Frag(Lo(f), Hi(f))
<1>1. /\ f \in [seq : 0 .. SeqSpace - 1, len : Nat \ {0}]
      /\ Hi(f) < Total
      /\ f.seq \in Int /\ 0 <= f.seq /\ f.seq < SeqSpace
      /\ f.len \in Nat /\ f.len > 0
  BY Sizes DEF Fragments
<1> DEFINE d == f.seq - InitSeq
<1>2. d \in Int /\ 0 - SeqSpace <= d /\ d < SeqSpace
  BY <1>1, Sizes
<1>3. /\ 0 <= d /\ d < SeqSpace => d % SeqSpace = d
      /\ 0 - SeqSpace <= d /\ d < 0 => d % SeqSpace = d + SeqSpace
  <2> HIDE DEF d
  <2> QED
    BY <1>2, SeqCases
<1>4. Lo(f) \in Nat /\ (Lo(f) = d \/ Lo(f) = d + SeqSpace)
  <2>1. Lo(f) = d % SeqSpace
    BY DEF Lo
  <2> HIDE DEF d
  <2> QED
    BY <1>2, <1>3, <2>1, Sizes
<1>5. Hi(f) = Lo(f) + f.len - 1 /\ Hi(f) \in Nat /\ Lo(f) <= Hi(f)
  BY <1>1, <1>4 DEF Hi
<1>6. f.seq = ByteSeq(Lo(f))
  <2>1. Lo(f) \in Near
    BY <1>1, <1>4, <1>5, Sizes DEF Near
  <2>2. /\ ByteSeq(Lo(f)) \in 0 .. SeqSpace - 1
        /\ \/ ByteSeq(Lo(f)) = InitSeq + Lo(f)
           \/ ByteSeq(Lo(f)) = InitSeq + Lo(f) - SeqSpace
    BY <2>1, ByteSeqs
  <2> QED
    BY <1>1, <1>4, <2>2, Sizes
<1>7. f.len = Hi(f) - Lo(f) + 1
  BY <1>1, <1>4, <1>5
<1>8. f = [seq |-> f.seq, len |-> f.len]
  BY <1>1
<1>9. f = Frag(Lo(f), Hi(f))
  BY <1>6, <1>7, <1>8, Zenon DEF Frag
<1> QED
  BY <1>1, <1>4, <1>5, <1>6, <1>7, <1>9

LEMMA FragmentOf ==
    ASSUME NEW a \in Nat, NEW b \in Nat, a <= b, b < Total
    PROVE  Frag(a, b) \in Fragments /\ Lo(Frag(a, b)) = a /\ Hi(Frag(a, b)) = b
<1>1. a \in Near
  BY Sizes DEF Near
<1>2. /\ ByteSeq(a) \in 0 .. SeqSpace - 1
      /\ (ByteSeq(a) - InitSeq) % SeqSpace = a
  BY <1>1, ByteSeqs
<1>3. Frag(a, b).seq = ByteSeq(a) /\ Frag(a, b).len = b - a + 1
  BY DEF Frag
<1>4. Lo(Frag(a, b)) = a
  BY <1>2, <1>3 DEF Lo
<1>5. Hi(Frag(a, b)) = b
  BY <1>3, <1>4 DEF Hi
<1>6. b - a + 1 \in Nat \ {0}
  OBVIOUS
<1>7. Frag(a, b) \in [seq : 0 .. SeqSpace - 1, len : Nat \ {0}]
  BY <1>2, <1>6, Zenon DEF Frag
<1> QED
  BY <1>4, <1>5, <1>7 DEF Fragments

\* The sequence numbers that are compared are those of bytes that are near.
LEMMA EndForm ==
    ASSUME NEW f \in Fragments
    PROVE  /\ Lo(f) \in Near /\ Hi(f) + 1 \in Near /\ Hi(f) + 2 \in Near
           /\ EndSeq(f) = ByteSeq(Hi(f) + 1)
           /\ (f.seq + f.len + 1) % SeqSpace = ByteSeq(Hi(f) + 2)
<1>1. /\ Lo(f) \in Nat /\ Hi(f) \in Nat /\ Lo(f) <= Hi(f) /\ Hi(f) < Total
      /\ f.seq = ByteSeq(Lo(f)) /\ f.len = Hi(f) - Lo(f) + 1
  BY FragmentForm
<1>2. Lo(f) \in Near /\ Hi(f) + 1 \in Near /\ Hi(f) + 2 \in Near
  BY <1>1, Sizes DEF Near
<1>3. Lo(f) + f.len = Hi(f) + 1 /\ Lo(f) + (f.len + 1) = Hi(f) + 2
      /\ f.len \in Int /\ f.len + 1 \in Int
  BY <1>1
<1>4. (ByteSeq(Lo(f)) + f.len) % SeqSpace = ByteSeq(Hi(f) + 1)
  BY <1>2, <1>3, SeqShift
<1>5. (ByteSeq(Lo(f)) + (f.len + 1)) % SeqSpace = ByteSeq(Hi(f) + 2)
  BY <1>2, <1>3, SeqShift
<1>6. f.seq + f.len + 1 = ByteSeq(Lo(f)) + (f.len + 1)
  BY <1>1, <1>2, <1>3, ByteSeqs
<1> QED
  BY <1>1, <1>2, <1>4, <1>5, <1>6 DEF EndSeq

\* CanMerge: the two overlap or touch.
LEMMA CanMergeTouches ==
    ASSUME NEW f \in Fragments, NEW g \in Fragments
    PROVE  CanMerge(f, g) <=> Lo(g) <= Hi(f) + 1 /\ Lo(f) <= Hi(g) + 1
<1>1. /\ Lo(f) \in Nat /\ Hi(f) \in Nat /\ f.seq = ByteSeq(Lo(f))
      /\ Lo(g) \in Nat /\ Hi(g) \in Nat /\ g.seq = ByteSeq(Lo(g))
  BY FragmentForm
<1>2. /\ Lo(f) \in Near /\ Hi(f) + 2 \in Near
      /\ Lo(g) \in Near /\ Hi(g) + 2 \in Near
      /\ (f.seq + f.len + 1) % SeqSpace = ByteSeq(Hi(f) + 2)
      /\ (g.seq + g.len + 1) % SeqSpace = ByteSeq(Hi(g) + 2)
  BY EndForm
<1>3. ASSUME NEW a \in Near, NEW b \in Near
      PROVE  GetMinSeq(ByteSeq(a), ByteSeq(b)) # ByteSeq(a) <=> b < a
  <2>1. a \in Int /\ b \in Int
    BY DEF Near
  <2> QED
    BY <2>1, SeqOrder
<1>4. CanMerge(f, g) <=>
        /\ GetMinSeq(ByteSeq(Hi(f) + 2), ByteSeq(Lo(g))) # ByteSeq(Hi(f) + 2)
        /\ GetMinSeq(ByteSeq(Hi(g) + 2), ByteSeq(Lo(f))) # ByteSeq(Hi(g) + 2)
  BY <1>1, <1>2, Zenon DEF CanMerge
<1>5. CanMerge(f, g) <=> Lo(g) < Hi(f) + 2 /\ Lo(f) < Hi(g) + 2
  BY <1>2, <1>3, <1>4
<1> QED
  BY <1>1, <1>5

\* MergeFragments: the interval that covers both.
LEMMA MergeSpan ==
    ASSUME NEW f \in Fragments, NEW g \in Fragments
    PROVE  LET m == MergeFragments(f, g)
           IN  /\ m \in Fragments
               /\ Lo(m) = IF Lo(f) <= Lo(g) THEN Lo(f) ELSE Lo(g)
               /\ Hi(m) = IF Hi(f) <= Hi(g) THEN Hi(g) ELSE Hi(f)
<1>1. /\ Lo(f) \in Nat /\ Hi(f) \in Nat /\ f.seq = ByteSeq(Lo(f))
      /\ Lo(g) \in Nat /\ Hi(g) \in Nat /\ g.seq = ByteSeq(Lo(g))
      /\ Lo(f) <= Hi(f) /\ Lo(g) <= Hi(g) /\ Hi(f) < Total /\ Hi(g) < Total
  BY FragmentForm
<1>2. /\ Lo(f) \in Near /\ Hi(f) + 1 \in Near /\ EndSeq(f) = ByteSeq(Hi(f) + 1)
      /\ Lo(g) \in Near /\ Hi(g) + 1 \in Near /\ EndSeq(g) = ByteSeq(Hi(g) + 1)
  BY EndForm
<1> DEFINE a == IF Lo(f) <= Lo(g) THEN Lo(f) ELSE Lo(g)
           b == IF Hi(f) <= Hi(g) THEN Hi(g) ELSE Hi(f)
<1>3. GetMinSeq(f.seq, g.seq) = ByteSeq(a)
  BY <1>1, <1>2, SeqOrder
<1>4. GetMaxSeq(EndSeq(f), EndSeq(g)) = ByteSeq(b + 1)
  <2>1. CASE Hi(f) <= Hi(g)
    <3>1. Hi(f) + 1 <= Hi(g) + 1
      BY <1>1, <2>1
    <3> QED
      BY <1>2, <2>1, <3>1, SeqOrder
  <2>2. CASE ~ Hi(f) <= Hi(g)
    <3>1. Hi(g) + 1 <= Hi(f) + 1
      BY <1>1, <2>2
    <3> QED
      BY <1>2, <2>2, <3>1, SeqOrder
  <2> QED
    BY <2>1, <2>2
<1>5. a \in Nat /\ b \in Nat /\ a <= b /\ b < Total
  BY <1>1
<1>6. a \in Near /\ b + 1 \in Near
  BY <1>2
<1> HIDE DEF a, b
<1>7. (ByteSeq(b + 1) - ByteSeq(a)) % SeqSpace = b - a + 1
  <2>1. a <= b + 1 /\ (b + 1) - a = b - a + 1
    BY <1>5
  <2> QED
    BY <1>6, <2>1, SeqDistance
<1>8. MergeFragments(f, g) = Frag(a, b)
  BY <1>3, <1>4, <1>7, Zenon DEF MergeFragments, Frag
<1>9. Frag(a, b) \in Fragments /\ Lo(Frag(a, b)) = a /\ Hi(Frag(a, b)) = b
  BY <1>5, FragmentOf
<1>10. /\ MergeFragments(f, g) \in Fragments
       /\ Lo(MergeFragments(f, g)) = a /\ Hi(MergeFragments(f, g)) = b
  BY <1>8, <1>9
<1> QED
  BY <1>10 DEF a, b

\* The comparisons of RBPut.
LEMMA Comparisons ==
    ASSUME NEW f \in Fragments, NEW g \in Fragments
    PROVE  /\ GetMaxSeq(EndSeq(f), g.seq) = g.seq <=> Hi(f) + 1 <= Lo(g)
           /\ GetMinSeq(f.seq, g.seq) = f.seq <=> Lo(f) <= Lo(g)
           /\ GetMinSeq(f.seq, EndSeq(g)) = EndSeq(g) <=> Hi(g) + 1 <= Lo(f)
<1>1. /\ Lo(f) \in Nat /\ Hi(f) \in Nat /\ f.seq = ByteSeq(Lo(f))
      /\ Lo(g) \in Nat /\ Hi(g) \in Nat /\ g.seq = ByteSeq(Lo(g))
  BY FragmentForm
<1>2. /\ Lo(f) \in Near /\ Hi(f) + 1 \in Near /\ EndSeq(f) = ByteSeq(Hi(f) + 1)
      /\ Lo(g) \in Near /\ Hi(g) + 1 \in Near /\ EndSeq(g) = ByteSeq(Hi(g) + 1)
  BY EndForm
<1>3. ASSUME NEW a \in Near, NEW b \in Near
      PROVE  /\ GetMaxSeq(ByteSeq(a), ByteSeq(b)) = ByteSeq(b) <=> a <= b
             /\ GetMinSeq(ByteSeq(a), ByteSeq(b)) = ByteSeq(a) <=> a <= b
             /\ GetMinSeq(ByteSeq(a), ByteSeq(b)) = ByteSeq(b) <=> b <= a
  <2>1. a \in Int /\ b \in Int
    BY DEF Near
  <2> QED
    BY <2>1, SeqOrder
<1> QED
  BY <1>1, <1>2, <1>3
-----------------------------------------------------------------------------
(* The traversal of the fragment list.                                      *)

\* The recursion of Grown: a function that satisfies it up to n exists for
\* every n, any two agree as far as both do, and so there is one that
\* satisfies it everywhere.
LEMMA GrownSteps ==
    ASSUME NEW fctx, NEW i \in Int, NEW new
    PROVE  /\ Grown(fctx, i, new)[0] = new
           /\ \A k \in Nat : Grown(fctx, i, new)[k + 1] =
                 MergeFragments(Grown(fctx, i, new)[k], fctx[i + k])
<1> DEFINE Step(g, k) == IF k = 0 THEN new
                         ELSE MergeFragments(g[k - 1], fctx[i + (k - 1)])
           Upto(n, g) == \A k \in 0 .. n : g[k] = Step(g, k)
<1>1. ASSUME NEW n \in Nat, NEW p \in Nat, NEW g, NEW h, Upto(n, g), Upto(p, h)
      PROVE  \A k \in Nat : k <= n /\ k <= p => g[k] = h[k]
  <2> DEFINE T == {k \in Nat : k <= n /\ k <= p /\ g[k] # h[k]}
  <2> SUFFICES ASSUME T # {} PROVE FALSE
    OBVIOUS
  <2>1. PICK k \in T : \A j \in T : k <= j
    BY LeastNumber
  <2>2. k \in Nat /\ k \in 0 .. n /\ k \in 0 .. p /\ g[k] # h[k]
    OBVIOUS
  <2>3. g[k] = Step(g, k) /\ h[k] = Step(h, k)
    BY <1>1, <2>2
  <2>4. k # 0
    BY <2>2, <2>3
  <2>5. k - 1 \in Nat /\ ~ k <= k - 1 /\ k - 1 <= n /\ k - 1 <= p
    BY <2>2, <2>4
  <2>6. g[k - 1] = h[k - 1]
    BY <2>1, <2>5
  <2> QED
    BY <2>2, <2>3, <2>6
<1>2. ASSUME NEW n \in Nat PROVE \E g : Upto(n, g)
  <2> DEFINE T == {q \in Nat : ~ \E g : Upto(q, g)}
  <2> SUFFICES ASSUME T # {} PROVE FALSE
    OBVIOUS
  <2>1. PICK q \in T : \A j \in T : q <= j
    BY LeastNumber
  <2>2. q \in Nat /\ ~ \E g : Upto(q, g)
    OBVIOUS
  <2>3. q # 0
    <3>1. Upto(0, [k \in Nat |-> new])
      OBVIOUS
    <3> QED
      BY <2>2, <3>1
  <2>4. q - 1 \in Nat /\ ~ q <= q - 1
    BY <2>2, <2>3
  <2>5. PICK h : Upto(q - 1, h)
    BY <2>1, <2>4
  <2> DEFINE g == [k \in Nat |-> IF k = q THEN Step(h, q) ELSE h[k]]
  <2>6. ASSUME NEW k \in 0 .. q PROVE g[k] = Step(g, k)
    <3>1. CASE k = q
      <4>1. g[q] = Step(h, q) /\ g[q - 1] = h[q - 1]
        BY <2>2, <2>4
      <4> QED
        BY <3>1, <4>1, <2>3
    <3>2. CASE k # q
      <4>1. k \in 0 .. q - 1 /\ k \in Nat
        BY <2>2, <3>2
      <4>2. g[k] = h[k] /\ h[k] = Step(h, k)
        BY <2>5, <3>2, <4>1
      <4>3. k # 0 => k - 1 \in Nat /\ k - 1 # q
        BY <2>2, <4>1
      <4>4. k # 0 => g[k - 1] = h[k - 1]
        BY <4>3
      <4> QED
        BY <4>2, <4>4
    <3> QED
      BY <3>1, <3>2
  <2> QED
    BY <2>2, <2>6
<1> DEFINE Pick(n) == CHOOSE g : Upto(n, g)
           G == [n \in Nat |-> Pick(n)[n]]
<1>3. \A n \in Nat : Upto(n, Pick(n))
  BY <1>2
<1>4. ASSUME NEW k \in Nat PROVE G[k] = Step(G, k)
  <2>1. Pick(k)[k] = Step(Pick(k), k)
    BY <1>3
  <2>2. CASE k = 0
    BY <2>1, <2>2
  <2>3. CASE k # 0
    <3>1. k - 1 \in Nat /\ k - 1 <= k /\ k - 1 <= k - 1
      BY <2>3
    <3>2. Upto(k, Pick(k)) /\ Upto(k - 1, Pick(k - 1))
      BY <1>3, <3>1
    <3> HIDE DEF Pick, Upto
    <3>3. Pick(k)[k - 1] = Pick(k - 1)[k - 1]
      BY <1>1, <3>1, <3>2
    <3>4. G[k - 1] = Pick(k - 1)[k - 1]
      BY <3>1
    <3> QED
      BY <2>1, <2>3, <3>3, <3>4
  <2> QED
    BY <2>2, <2>3
<1>5. G = [k \in Nat |-> Step(G, k)]
  <2> HIDE DEF Pick
  <2>1. \A k \in Nat : G[k] = [j \in Nat |-> Step(G, j)][k]
    BY <1>4
  <2> QED
    BY <2>1
<1> HIDE DEF G
<1> DEFINE M == Grown(fctx, i, new)
<1>6. M = [k \in Nat |-> Step(M, k)]
  BY <1>5 DEF Grown
<1> HIDE DEF M
<1>7. \A k \in Nat : M[k] = Step(M, k)
  BY <1>6
<1>8. M[0] = new
  BY <1>7
<1>9. ASSUME NEW k \in Nat PROVE M[k + 1] = MergeFragments(M[k], fctx[i + k])
  <2>1. k + 1 \in Nat /\ k + 1 # 0 /\ (k + 1) - 1 = k
    OBVIOUS
  <2> QED
    BY <1>7, <2>1
<1> QED
  BY <1>8, <1>9 DEF M
\* The traversal ends: what the CHOOSE of Place and of Merges pick exists.
LEMMA PlaceChosen ==
    ASSUME NEW list \in Seq(Fragments), NEW new
    PROVE  /\ Place(list, new) \in 1 .. Len(list) + 1
           /\ Meets(list, new, Place(list, new))
           /\ \A j \in 1 .. Place(list, new) - 1 : ~ Meets(list, new, j)
<1>1. Len(list) \in Nat
  BY LenProperties
<1> DEFINE T == {i \in 1 .. Len(list) + 1 : Meets(list, new, i)}
<1>2. Len(list) + 1 \in T
  BY <1>1 DEF Meets
<1>3. T \subseteq Nat
  BY <1>1
<1>4. PICK p \in T : \A j \in T : p <= j
  BY <1>2, <1>3, LeastNumber
<1>5. p \in 1 .. Len(list) + 1 /\ Meets(list, new, p)
  OBVIOUS
<1>6. ASSUME NEW j \in 1 .. p - 1, Meets(list, new, j) PROVE FALSE
  <2>1. j \in 1 .. Len(list) + 1 /\ ~ p <= j
    BY <1>1, <1>5
  <2> QED
    BY <1>4, <1>6, <2>1
<1> QED
  BY <1>5, <1>6 DEF Place

GoesOn(list, i, new, k) ==
    i + k <= Len(list) /\ CanMerge(Grown(list, i, new)[k], list[i + k])

LEMMA MergesChosen ==
    ASSUME NEW list \in Seq(Fragments), NEW new, NEW i \in 1 .. Len(list) + 1
    PROVE  /\ Merges(list, i, new) \in 0 .. Len(list) + 1 - i
           /\ ~ GoesOn(list, i, new, Merges(list, i, new))
           /\ \A j \in 0 .. Merges(list, i, new) - 1 : GoesOn(list, i, new, j)
<1>1. Len(list) \in Nat /\ i \in Nat
  BY LenProperties
<1> DEFINE T == {k \in 0 .. Len(list) + 1 - i : ~ GoesOn(list, i, new, k)}
<1>2. Len(list) + 1 - i \in T
  BY <1>1 DEF GoesOn
<1>3. T \subseteq Nat
  BY <1>1
<1>4. PICK p \in T : \A j \in T : p <= j
  BY <1>2, <1>3, LeastNumber
<1>5. p \in 0 .. Len(list) + 1 - i /\ ~ GoesOn(list, i, new, p)
  OBVIOUS
<1>6. ASSUME NEW j \in 0 .. p - 1, ~ GoesOn(list, i, new, j) PROVE FALSE
  <2>1. j \in 0 .. Len(list) + 1 - i /\ ~ p <= j
    BY <1>1, <1>5
  <2> QED
    BY <1>4, <1>6, <2>1
<1>7. Merges(list, i, new) =
        CHOOSE k \in 0 .. Len(list) + 1 - i :
          ~ GoesOn(list, i, new, k) /\ \A j \in 0 .. k - 1 : GoesOn(list, i, new, j)
  BY Zenon DEF Merges, GoesOn
<1> QED
  BY <1>5, <1>6, <1>7

\* The fragments of a list are apart from each other and in order.
Sorted(list) ==
    \A i, j \in 1 .. Len(list) : i < j => Hi(list[i]) + 1 < Lo(list[j])

\* The new fragment after k merges spans itself and the fragments it has met.
LEMMA GrownSpan ==
    ASSUME NEW list \in Seq(Fragments), Sorted(list), NEW new \in Fragments,
           NEW i \in 1 .. Len(list) + 1, NEW k \in 0 .. Len(list) + 1 - i
    PROVE  LET m == Grown(list, i, new)[k]
           IN  /\ m \in Fragments
               /\ k = 0 => m = new
               /\ k > 0 =>
                    /\ Lo(m) = IF Lo(new) <= Lo(list[i]) THEN Lo(new) ELSE Lo(list[i])
                    /\ Hi(m) = IF Hi(new) <= Hi(list[i + (k - 1)])
                               THEN Hi(list[i + (k - 1)]) ELSE Hi(new)
<1>1. Len(list) \in Nat /\ i \in Nat /\ \A j \in 1 .. Len(list) : list[j] \in Fragments
  BY LenProperties, ElementOfSeq
<1> DEFINE M == Grown(list, i, new)
           Spans(q) ==
             /\ M[q] \in Fragments
             /\ q = 0 => M[q] = new
             /\ q > 0 =>
                  /\ Lo(M[q]) = IF Lo(new) <= Lo(list[i]) THEN Lo(new) ELSE Lo(list[i])
                  /\ Hi(M[q]) = IF Hi(new) <= Hi(list[i + (q - 1)])
                                THEN Hi(list[i + (q - 1)]) ELSE Hi(new)
           T == {q \in 0 .. Len(list) + 1 - i : ~ Spans(q)}
<1> SUFFICES ASSUME T # {} PROVE FALSE
  <2>1. Spans(k)
    OBVIOUS
  <2> QED
    BY <2>1
<1>2. T \subseteq Nat
  BY <1>1
<1>3. PICK q \in T : \A j \in T : q <= j
  BY <1>2, LeastNumber
<1>4. M[0] = new /\ \A j \in Nat : M[j + 1] = MergeFragments(M[j], list[i + j])
  <2> HIDE DEF T, Spans, M
  <2>1. /\ Grown(list, i, new)[0] = new
        /\ \A j \in Nat : Grown(list, i, new)[j + 1] =
              MergeFragments(Grown(list, i, new)[j], list[i + j])
    BY <1>1, GrownSteps
  <2> QED
    BY <2>1, Zenon DEF M
<1> HIDE DEF M
<1>5. /\ q \in 0 .. Len(list) + 1 - i /\ ~ Spans(q)
      /\ \A j \in 0 .. Len(list) + 1 - i : ~ q <= j => Spans(j)
  BY <1>3
<1> HIDE DEF T
<1> DEFINE h == q - 1
<1>6. /\ h \in 0 .. Len(list) + 1 - i /\ h \in Nat /\ q = h + 1
      /\ i + h \in 1 .. Len(list) /\ ~ q <= h /\ i \in 1 .. Len(list)
  <2>1. Spans(0)
    BY <1>4
  <2> HIDE DEF Spans
  <2>2. q # 0
    BY <1>5, <2>1
  <2> QED
    BY <1>1, <1>5, <2>2
<1> HIDE DEF Spans, h
<1>7. Spans(h)
  BY <1>5, <1>6
<1>8. M[q] = MergeFragments(M[h], list[i + h])
  BY <1>4, <1>6
<1>9. M[h] \in Fragments /\ list[i + h] \in Fragments /\ list[i] \in Fragments
  BY <1>1, <1>6, <1>7 DEF Spans
<1>10. /\ M[q] \in Fragments
       /\ Lo(M[q]) = IF Lo(M[h]) <= Lo(list[i + h]) THEN Lo(M[h]) ELSE Lo(list[i + h])
       /\ Hi(M[q]) = IF Hi(M[h]) <= Hi(list[i + h]) THEN Hi(list[i + h]) ELSE Hi(M[h])
  BY <1>8, <1>9, MergeSpan
<1>11. /\ Lo(new) \in Nat /\ Hi(new) \in Nat
       /\ Lo(list[i]) \in Nat /\ Hi(list[i]) \in Nat /\ Lo(list[i]) <= Hi(list[i])
       /\ Lo(list[i + h]) \in Nat /\ Hi(list[i + h]) \in Nat
       /\ Lo(list[i + h]) <= Hi(list[i + h])
  BY <1>9, FragmentForm
<1>12. q - 1 = h /\ q > 0
  BY <1>6
<1>13. CASE h = 0
  <2>1. M[h] = new /\ i + h = i
    BY <1>1, <1>4, <1>13
  <2>2. Spans(q)
    BY <1>10, <1>11, <1>12, <2>1 DEF Spans
  <2> QED
    BY <1>5, <2>2
<1>14. CASE h > 0
  <2> DEFINE e == i + (h - 1)
  <2>1. e \in 1 .. Len(list) /\ e < i + h /\ i < i + h /\ (e = i \/ i < e)
    BY <1>1, <1>6, <1>14
  <2> HIDE DEF e
  <2>2. /\ Lo(M[h]) = IF Lo(new) <= Lo(list[i]) THEN Lo(new) ELSE Lo(list[i])
        /\ Hi(M[h]) = IF Hi(new) <= Hi(list[e]) THEN Hi(list[e]) ELSE Hi(new)
    BY <1>7, <1>14 DEF e, Spans
  <2>3. Hi(list[e]) + 1 < Lo(list[i + h]) /\ Hi(list[i]) + 1 < Lo(list[i + h])
    BY <2>1, <1>6 DEF Sorted
  <2>4. Lo(list[e]) \in Nat /\ Hi(list[e]) \in Nat
    BY <1>1, <2>1, FragmentForm
  <2>5. /\ Lo(M[q]) = IF Lo(new) <= Lo(list[i]) THEN Lo(new) ELSE Lo(list[i])
        /\ Hi(M[q]) = IF Hi(new) <= Hi(list[i + h]) THEN Hi(list[i + h]) ELSE Hi(new)
    <3>1. Lo(list[i]) < Lo(list[i + h]) /\ Hi(list[e]) < Hi(list[i + h])
      BY <1>11, <2>3, <2>4
    <3>2. Lo(M[h]) \in Nat /\ Hi(M[h]) \in Nat
      BY <1>11, <2>2, <2>4
    <3>3. Lo(M[q]) = IF Lo(new) <= Lo(list[i]) THEN Lo(new) ELSE Lo(list[i])
      BY <1>10, <1>11, <2>2, <3>1, <3>2
    <3>4. Hi(M[q]) = IF Hi(new) <= Hi(list[i + h]) THEN Hi(list[i + h]) ELSE Hi(new)
      BY <1>10, <1>11, <2>2, <2>4, <3>1, <3>2
    <3> QED
      BY <3>3, <3>4
  <2>6. Spans(q)
    BY <1>10, <1>12, <2>5 DEF Spans
  <2> QED
    BY <1>5, <2>6
<1> QED
  BY <1>6, <1>13, <1>14
\* What the traversal leaves: the fragments before the place are before the
\* new one, those it was merged with make one interval with it, and the rest
\* come after.
LEMMA TraverseFacts ==
    ASSUME NEW list \in Seq(Fragments), Sorted(list), NEW new \in Fragments,
           NEW i \in 1 .. Len(list) + 1, Meets(list, new, i),
           \A j \in 1 .. i - 1 : ~ Meets(list, new, j),
           NEW k \in 0 .. Len(list) + 1 - i, ~ GoesOn(list, i, new, k),
           \A j \in 0 .. k - 1 : GoesOn(list, i, new, j),
           NEW m, m = Grown(list, i, new)[k]
    PROVE  /\ m \in Fragments
           /\ k = 0 => m = new
           /\ \A j \in 1 .. i - 1 :
                 Hi(list[j]) + 1 < Lo(new) /\ Hi(list[j]) + 1 < Lo(m)
           /\ \A j \in i + k .. Len(list) : Hi(m) + 1 < Lo(list[j])
           /\ \A n \in Nat : Lo(m) <= n /\ n <= Hi(m) <=>
                 \/ Lo(new) <= n /\ n <= Hi(new)
                 \/ \E j \in i .. i + k - 1 : Lo(list[j]) <= n /\ n <= Hi(list[j])
<1>1. Len(list) \in Nat /\ \A j \in 1 .. Len(list) : list[j] \in Fragments
  BY LenProperties, ElementOfSeq
<1>2. /\ i \in 1 .. Len(list) + 1 /\ Meets(list, new, i)
      /\ \A j \in 1 .. i - 1 : ~ Meets(list, new, j)
  OBVIOUS
<1>3. /\ k \in 0 .. Len(list) + 1 - i /\ ~ GoesOn(list, i, new, k)
      /\ \A j \in 0 .. k - 1 : GoesOn(list, i, new, j)
  OBVIOUS
<1>4. /\ i \in Int /\ 1 <= i /\ k \in Nat /\ i + k <= Len(list) + 1
      /\ Grown(list, i, new)[0] = new
  <2>1. i \in Int /\ 1 <= i /\ k \in Nat /\ i + k <= Len(list) + 1
    BY <1>1, <1>2, <1>3
  <2>2. Grown(list, i, new)[0] = new
    BY GrownSteps
  <2> QED
    BY <2>1, <2>2
<1>5. /\ Lo(new) \in Nat /\ Hi(new) \in Nat /\ Lo(new) <= Hi(new)
      /\ \A j \in 1 .. Len(list) :
            Lo(list[j]) \in Nat /\ Hi(list[j]) \in Nat /\ Lo(list[j]) <= Hi(list[j])
  BY <1>1, FragmentForm
<1>6. \A j \in 1 .. Len(list) :
        /\ CanMerge(new, list[j]) <=>
             Lo(list[j]) <= Hi(new) + 1 /\ Lo(new) <= Hi(list[j]) + 1
        /\ Meets(list, new, j) <=>
             CanMerge(new, list[j]) \/ Hi(new) + 1 <= Lo(list[j])
  BY <1>1, CanMergeTouches, Comparisons DEF Meets
<1>7. ASSUME NEW j \in 1 .. i - 1 PROVE Hi(list[j]) + 1 < Lo(new)
  <2>1. j \in 1 .. Len(list) /\ ~ Meets(list, new, j)
    BY <1>1, <1>2
  <2> QED
    BY <1>5, <1>6, <2>1
<1>8. \A a, b \in 1 .. Len(list) : a < b => Hi(list[a]) + 1 < Lo(list[b])
  BY DEF Sorted
<1>9. CASE k = 0
  <2>1. m = new
    BY <1>2, <1>3, <1>9, GrownSpan
  <2>2. ASSUME NEW j \in i + k .. Len(list) PROVE Hi(new) + 1 < Lo(list[j])
    <3>1. i \in 1 .. Len(list) /\ i + 0 = i /\ j \in 1 .. Len(list) /\ (j = i \/ i < j)
      BY <1>1, <1>2, <1>9
    <3>2. ~ CanMerge(new, list[i])
      <4>1. ~ GoesOn(list, i, new, 0)
        BY <1>3, <1>9
      <4> QED
        BY <1>4, <3>1, <4>1 DEF GoesOn
    <3>3. Hi(new) + 1 < Lo(list[i])
      BY <1>2, <1>5, <1>6, <3>1, <3>2
    <3>4. Lo(list[i]) <= Lo(list[j])
      BY <1>5, <1>8, <3>1
    <3> QED
      BY <1>5, <3>1, <3>3, <3>4
  <2>3. i .. i + k - 1 = {}
    BY <1>4, <1>9
  <2> QED
    BY <1>2, <1>3, <1>7, <2>1, <2>2, <2>3
<1>10. CASE k > 0
  <2> DEFINE e == i + (k - 1)
  <2>1. /\ i \in 1 .. Len(list) /\ e \in 1 .. Len(list) /\ (e = i \/ i < e)
        /\ i + k - 1 = e /\ e < i + k
    BY <1>1, <1>4, <1>10
  <2>2. /\ m \in Fragments
        /\ Lo(m) = IF Lo(new) <= Lo(list[i]) THEN Lo(new) ELSE Lo(list[i])
        /\ Hi(m) = IF Hi(new) <= Hi(list[e]) THEN Hi(list[e]) ELSE Hi(new)
    BY <1>2, <1>3, <1>10, GrownSpan
  <2> HIDE DEF e
  <2>3. Lo(list[i]) <= Hi(new) + 1 /\ Lo(new) <= Hi(list[i]) + 1
    <3>1. GoesOn(list, i, new, 0)
      BY <1>3, <1>4, <1>10
    <3>2. i + 0 = i
      BY <1>4
    <3> QED
      BY <1>4, <1>6, <2>1, <3>1, <3>2 DEF GoesOn
  <2>4. Lo(list[e]) <= Hi(new) + 1
    <3>1. CASE e = i
      BY <2>3, <3>1
    <3>2. CASE i < e
      <4> DEFINE h == k - 1
                 g == i + (h - 1)
      <4>1. /\ h \in 0 .. k - 1 /\ h > 0 /\ h \in 0 .. Len(list) + 1 - i
            /\ i + h = e
        BY <1>1, <1>2, <1>3, <1>4, <1>10, <3>2 DEF e
      <4>2. g \in 1 .. Len(list) /\ g < e
        BY <1>1, <1>4, <2>1, <4>1
      <4> HIDE DEF h, g
      <4>3. CanMerge(Grown(list, i, new)[h], list[e])
        BY <1>3, <4>1 DEF GoesOn
      <4> DEFINE u == Grown(list, i, new)[h]
      <4>4. /\ u \in Fragments
            /\ Hi(u) = IF Hi(new) <= Hi(list[g]) THEN Hi(list[g]) ELSE Hi(new)
        BY <1>2, <4>1, GrownSpan DEF g
      <4> HIDE DEF u
      <4>5. Lo(list[e]) <= Hi(u) + 1
        BY <1>1, <2>1, <4>3, <4>4, CanMergeTouches DEF u
      <4>6. Hi(list[g]) + 1 < Lo(list[e])
        BY <1>8, <2>1, <4>2
      <4> QED
        BY <1>5, <2>1, <4>2, <4>4, <4>5, <4>6
    <3> QED
      BY <2>1, <3>1, <3>2
  <2>5. Hi(list[i]) <= Hi(list[e]) /\ Lo(list[i]) <= Lo(list[e])
    BY <1>5, <1>8, <2>1
  <2>6. Lo(m) \in Nat /\ Hi(m) \in Nat /\ Lo(m) <= Lo(list[i])
    <3>1. Lo(m) \in Nat /\ Hi(m) \in Nat
      BY <2>2, FragmentForm
    <3> QED
      BY <1>5, <2>1, <2>2, <3>1
  <2>7. ASSUME NEW j \in 1 .. i - 1
        PROVE  Hi(list[j]) + 1 < Lo(new) /\ Hi(list[j]) + 1 < Lo(m)
    <3>1. j \in 1 .. Len(list) /\ j < i
      BY <1>1, <1>2
    <3>2. Hi(list[j]) + 1 < Lo(list[i])
      BY <1>8, <2>1, <3>1
    <3> QED
      BY <1>7, <2>2, <3>2
  <2>8. ASSUME NEW j \in i + k .. Len(list) PROVE Hi(m) + 1 < Lo(list[j])
    <3> DEFINE f == i + k
    <3>1. f \in 1 .. Len(list) /\ j \in 1 .. Len(list) /\ (j = f \/ f < j)
          /\ e < f /\ i < f
      <4>1. Len(list) \in Nat /\ k \in Nat /\ i \in Nat /\ 1 <= i /\ k > 0
        BY <1>1, <1>4, <1>10, <2>1
      <4>2. f \in 1 .. Len(list) /\ j \in 1 .. Len(list) /\ (j = f \/ f < j)
        BY <4>1
      <4> QED
        BY <4>1, <4>2 DEF e
    <3>2. ~ CanMerge(m, list[f])
      BY <1>3, <3>1 DEF GoesOn
    <3> HIDE DEF f
    <3>3. ~ (Lo(list[f]) <= Hi(m) + 1 /\ Lo(m) <= Hi(list[f]) + 1)
      BY <1>1, <2>2, <3>1, <3>2, CanMergeTouches
    <3>4. Hi(list[e]) + 1 < Lo(list[f]) /\ Hi(list[i]) + 1 < Lo(list[f])
      BY <1>8, <2>1, <3>1
    <3>5. Lo(m) <= Hi(list[f]) + 1
      <4>1. /\ Lo(list[i]) \in Nat /\ Hi(list[i]) \in Nat
            /\ Lo(list[i]) <= Hi(list[i])
            /\ Lo(list[f]) \in Nat /\ Hi(list[f]) \in Nat
            /\ Lo(list[f]) <= Hi(list[f])
        BY <1>5, <2>1, <3>1
      <4> QED
        BY <2>6, <3>4, <4>1
    <3>6. Hi(m) + 1 < Lo(list[f])
      BY <1>5, <2>6, <3>1, <3>3, <3>5
    <3>7. Lo(list[f]) <= Lo(list[j])
      BY <1>5, <1>8, <3>1
    <3> QED
      BY <1>5, <2>6, <3>1, <3>6, <3>7
  <2>9. ASSUME NEW n \in Nat, Lo(m) <= n, n <= Hi(m)
        PROVE  \/ Lo(new) <= n /\ n <= Hi(new)
               \/ \E j \in i .. i + k - 1 : Lo(list[j]) <= n /\ n <= Hi(list[j])
    <3>1. i \in i .. i + k - 1 /\ e \in i .. i + k - 1
      BY <1>4, <1>10 DEF e
    <3>2. CASE n < Lo(new)
      <4>1. Lo(list[i]) <= n /\ n <= Hi(list[i])
        BY <1>5, <2>1, <2>2, <2>3, <2>9, <3>2
      <4> QED
        BY <3>1, <4>1
    <3>3. CASE n > Hi(new)
      <4>1. Lo(list[e]) <= n /\ n <= Hi(list[e])
        BY <1>5, <2>1, <2>2, <2>4, <2>9, <3>3
      <4> QED
        BY <3>1, <4>1
    <3> QED
      BY <1>5, <3>2, <3>3
  <2>10. ASSUME NEW n \in Nat,
                \/ Lo(new) <= n /\ n <= Hi(new)
                \/ \E j \in i .. i + k - 1 : Lo(list[j]) <= n /\ n <= Hi(list[j])
         PROVE  Lo(m) <= n /\ n <= Hi(m)
    <3>1. CASE Lo(new) <= n /\ n <= Hi(new)
      BY <1>5, <2>1, <2>2, <2>6, <3>1
    <3>2. ASSUME NEW j \in i .. i + k - 1, Lo(list[j]) <= n, n <= Hi(list[j])
          PROVE  Lo(m) <= n /\ n <= Hi(m)
      <4>1. j \in 1 .. Len(list) /\ (j = i \/ i < j) /\ (j = e \/ j < e)
        BY <1>1, <1>4, <2>1
      <4>2. /\ Lo(list[j]) \in Nat /\ Hi(list[j]) \in Nat /\ Lo(list[j]) <= Hi(list[j])
            /\ Lo(list[i]) \in Nat /\ Hi(list[i]) \in Nat /\ Lo(list[i]) <= Hi(list[i])
            /\ Lo(list[e]) \in Nat /\ Hi(list[e]) \in Nat /\ Lo(list[e]) <= Hi(list[e])
        BY <1>5, <2>1, <4>1
      <4>3. /\ j = i \/ Hi(list[i]) + 1 < Lo(list[j])
            /\ j = e \/ Hi(list[j]) + 1 < Lo(list[e])
        BY <1>8, <2>1, <4>1
      <4>4. Lo(list[i]) <= Lo(list[j])
        BY <4>2, <4>3
      <4>5. Hi(list[j]) <= Hi(list[e])
        BY <4>2, <4>3
      <4>6. Hi(list[e]) <= Hi(m)
        BY <1>5, <2>2, <4>2
      <4>7. Lo(m) <= n
        BY <2>6, <3>2, <4>2, <4>4
      <4>8. n <= Hi(m)
        BY <2>6, <3>2, <4>2, <4>5, <4>6
      <4> QED
        BY <4>7, <4>8
    <3> QED
      BY <2>10, <3>1, <3>2
  <2> QED
    BY <1>2, <1>3, <1>10, <2>2, <2>7, <2>8, <2>9, <2>10
<1> QED
  BY <1>4, <1>9, <1>10
\* m in the place of the k items from i on.
Spliced(list, i, k, m) ==
    SubSeq(list, 1, i - 1) \o <<m>> \o SubSeq(list, i + k, Len(list))

LEMMA SpliceFacts ==
    ASSUME NEW S, NEW list \in Seq(S), NEW m \in S,
           NEW i \in 1 .. Len(list) + 1, NEW k \in 0 .. Len(list) + 1 - i
    PROVE  /\ Spliced(list, i, k, m) \in Seq(S)
           /\ Len(Spliced(list, i, k, m)) = Len(list) - k + 1
           /\ \A p \in 1 .. i - 1 : Spliced(list, i, k, m)[p] = list[p]
           /\ Spliced(list, i, k, m)[i] = m
           /\ \A p \in i + 1 .. Len(list) - k + 1 :
                 Spliced(list, i, k, m)[p] = list[p + k - 1]
<1>1. /\ Len(list) \in Nat /\ \A j \in 1 .. Len(list) : list[j] \in S
      /\ i \in Int /\ 1 <= i /\ k \in Int /\ 0 <= k /\ i + k <= Len(list) + 1
  BY LenProperties, ElementOfSeq
<1> DEFINE a == SubSeq(list, 1, i - 1)
           b == <<m>>
           c == SubSeq(list, i + k, Len(list))
<1>2. /\ a \in Seq(S) /\ Len(a) = i - 1
      /\ \A p \in 1 .. i - 1 : a[p] = list[p]
  <2> DEFINE e == i - 1
  <2>1. e \in Int /\ 0 <= e /\ e <= Len(list) /\ \A p \in 1 .. e : list[p] \in S
    BY <1>1
  <2> HIDE DEF e
  <2>2. /\ SubSeq(list, 1, e) \in Seq(S)
        /\ Len(SubSeq(list, 1, e)) = IF 1 <= e THEN e - 1 + 1 ELSE 0
        /\ \A p \in 1 .. e - 1 + 1 : SubSeq(list, 1, e)[p] = list[1 + p - 1]
    BY <2>1, SubSeqProperties
  <2>3. e - 1 + 1 = e /\ \A p \in 1 .. e : 1 + p - 1 = p
    BY <2>1
  <2>4. Len(SubSeq(list, 1, e)) = e
    BY <2>1, <2>2
  <2> QED
    BY <2>2, <2>3, <2>4 DEF e
<1>3. b \in Seq(S) /\ Len(b) = 1 /\ b[1] = m
  OBVIOUS
<1>4. /\ c \in Seq(S) /\ Len(c) = Len(list) + 1 - (i + k)
      /\ \A p \in 1 .. Len(list) + 1 - (i + k) : c[p] = list[i + k + p - 1]
  <2> DEFINE e == i + k
  <2>1. e \in Int /\ 1 <= e /\ e <= Len(list) + 1
        /\ \A p \in e .. Len(list) : list[p] \in S
    BY <1>1
  <2> HIDE DEF e
  <2>2. /\ SubSeq(list, e, Len(list)) \in Seq(S)
        /\ Len(SubSeq(list, e, Len(list))) =
             IF e <= Len(list) THEN Len(list) - e + 1 ELSE 0
        /\ \A p \in 1 .. Len(list) - e + 1 :
              SubSeq(list, e, Len(list))[p] = list[e + p - 1]
    BY <1>1, <2>1, SubSeqProperties
  <2>3. Len(list) - e + 1 = Len(list) + 1 - e
    BY <1>1, <2>1
  <2>4. Len(SubSeq(list, e, Len(list))) = Len(list) + 1 - e
    BY <1>1, <2>1, <2>2
  <2> QED
    BY <2>2, <2>3, <2>4 DEF e
<1> HIDE DEF a, b, c
<1>5. /\ a \o b \in Seq(S) /\ Len(a \o b) = i
      /\ \A p \in 1 .. i : (a \o b)[p] = IF p <= i - 1 THEN a[p] ELSE b[p - (i - 1)]
  <2>1. /\ a \o b \in Seq(S) /\ Len(a \o b) = Len(a) + Len(b)
        /\ \A p \in 1 .. Len(a) + Len(b) :
              (a \o b)[p] = IF p <= Len(a) THEN a[p] ELSE b[p - Len(a)]
    BY <1>2, <1>3, ConcatProperties
  <2>2. Len(a) + Len(b) = i
    BY <1>1, <1>2, <1>3
  <2> QED
    BY <1>2, <2>1, <2>2
<1> DEFINE ab == a \o b
<1>6. /\ ab \in Seq(S) /\ Len(ab) = i
      /\ \A p \in 1 .. i - 1 : ab[p] = list[p]
      /\ ab[i] = m
  <2>1. \A p \in 1 .. i - 1 : ab[p] = list[p]
    BY <1>1, <1>2, <1>5
  <2>2. i \in 1 .. i /\ ~ i <= i - 1 /\ i - (i - 1) = 1
    BY <1>1
  <2>3. ab[i] = m
    BY <1>3, <1>5, <2>2
  <2> QED
    BY <1>5, <2>1, <2>3
<1> HIDE DEF ab
<1>7. /\ ab \o c \in Seq(S) /\ Len(ab \o c) = Len(list) - k + 1
      /\ \A p \in 1 .. Len(list) - k + 1 :
            (ab \o c)[p] = IF p <= i THEN ab[p] ELSE c[p - i]
  <2>1. /\ ab \o c \in Seq(S) /\ Len(ab \o c) = Len(ab) + Len(c)
        /\ \A p \in 1 .. Len(ab) + Len(c) :
              (ab \o c)[p] = IF p <= Len(ab) THEN ab[p] ELSE c[p - Len(ab)]
    BY <1>4, <1>6, ConcatProperties
  <2>2. Len(ab) + Len(c) = Len(list) - k + 1
    BY <1>1, <1>4, <1>6
  <2> QED
    BY <1>6, <2>1, <2>2
<1> DEFINE r == ab \o c
<1>8. \A p \in 1 .. i - 1 : r[p] = list[p]
  <2>1. \A p \in 1 .. i - 1 : p \in 1 .. Len(list) - k + 1 /\ p <= i
    BY <1>1
  <2> QED
    BY <1>6, <1>7, <2>1
<1>9. r[i] = m
  <2>1. i \in 1 .. Len(list) - k + 1 /\ i <= i
    BY <1>1
  <2> QED
    BY <1>6, <1>7, <2>1
<1>10. ASSUME NEW p \in i + 1 .. Len(list) - k + 1 PROVE r[p] = list[p + k - 1]
  <2>1. /\ p \in 1 .. Len(list) - k + 1 /\ ~ p <= i
        /\ p - i \in 1 .. Len(list) + 1 - (i + k)
        /\ i + k + (p - i) - 1 = p + k - 1
    BY <1>1
  <2>2. r[p] = c[p - i]
    BY <1>7, <2>1
  <2>3. c[p - i] = list[i + k + (p - i) - 1]
    <3> DEFINE q == p - i
    <3> HIDE DEF q
    <3>1. q \in 1 .. Len(list) + 1 - (i + k)
      BY <2>1 DEF q
    <3>2. c[q] = list[i + k + q - 1]
      BY <1>4, <3>1
    <3> QED
      BY <3>2 DEF q
  <2> QED
    BY <2>1, <2>2, <2>3
<1>11. Spliced(list, i, k, m) = r
  BY DEF Spliced, a, b, c, ab
<1> HIDE DEF r
<1>12. r \in Seq(S) /\ Len(r) = Len(list) - k + 1
  BY <1>7 DEF r
<1> QED
  BY <1>8, <1>9, <1>10, <1>11, <1>12
\* RBPut's insertion: the list of the runs of S becomes the list of the runs of
\* S and the new fragment, and the assertion on the order holds.
LEMMA InsertRuns ==
    ASSUME NEW list, NEW S, RunsOf(list, S), NEW new \in Fragments
    PROVE  /\ RunsOf(InsertFragment(list, new), S \cup (Lo(new) .. Hi(new)))
           /\ InsertsInOrder(list, new)
<1>1. /\ list \in Seq(Fragments) /\ Sorted(list)
      /\ \A n \in Nat : n \in S <=>
            \E p \in 1 .. Len(list) : Lo(list[p]) <= n /\ n <= Hi(list[p])
  BY DEF RunsOf, Sorted
<1>2. Len(list) \in Nat /\ \A j \in 1 .. Len(list) : list[j] \in Fragments
  BY <1>1, LenProperties, ElementOfSeq
<1> DEFINE i == Place(list, new)
           k == Merges(list, i, new)
           m == Grown(list, i, new)[k]
           r == Spliced(list, i, k, m)
<1>3. /\ i \in 1 .. Len(list) + 1 /\ Meets(list, new, i)
      /\ \A j \in 1 .. i - 1 : ~ Meets(list, new, j)
  BY <1>1, PlaceChosen
<1> HIDE DEF i
<1>4. /\ k \in 0 .. Len(list) + 1 - i /\ ~ GoesOn(list, i, new, k)
      /\ \A j \in 0 .. k - 1 : GoesOn(list, i, new, j)
  BY <1>1, <1>3, MergesChosen
<1> HIDE DEF k
<1>5. m = Grown(list, i, new)[k]
  OBVIOUS
<1> HIDE DEF m
<1>6. /\ m \in Fragments
      /\ k = 0 => m = new
      /\ \A j \in 1 .. i - 1 :
            Hi(list[j]) + 1 < Lo(new) /\ Hi(list[j]) + 1 < Lo(m)
      /\ \A j \in i + k .. Len(list) : Hi(m) + 1 < Lo(list[j])
      /\ \A n \in Nat : Lo(m) <= n /\ n <= Hi(m) <=>
            \/ Lo(new) <= n /\ n <= Hi(new)
            \/ \E j \in i .. i + k - 1 : Lo(list[j]) <= n /\ n <= Hi(list[j])
  BY <1>1, <1>3, <1>4, <1>5, TraverseFacts, SMTT(40)
<1>7. /\ r \in Seq(Fragments) /\ Len(r) = Len(list) - k + 1
      /\ \A p \in 1 .. i - 1 : r[p] = list[p]
      /\ r[i] = m
      /\ \A p \in i + 1 .. Len(list) - k + 1 : r[p] = list[p + k - 1]
  <2>1. /\ list \in Seq(Fragments) /\ m \in Fragments
        /\ i \in 1 .. Len(list) + 1 /\ k \in 0 .. Len(list) + 1 - i
    BY <1>1, <1>3, <1>4, <1>6
  <2>2. r \in Seq(Fragments)
    BY <2>1, SpliceFacts
  <2>3. Len(r) = Len(list) - k + 1
    BY <2>1, SpliceFacts
  <2>4. r[i] = m
    BY <2>1, SpliceFacts
  <2>5. \A p \in 1 .. i - 1 : r[p] = list[p]
    BY <2>1, SpliceFacts
  <2>6. \A p \in i + 1 .. Len(list) - k + 1 : r[p] = list[p + k - 1]
    BY <2>1, SpliceFacts
  <2> HIDE DEF r
  <2> QED
    BY <2>2, <2>3, <2>4, <2>5, <2>6
<1> HIDE DEF r
<1>8. i \in Int /\ 1 <= i /\ k \in Int /\ 0 <= k /\ i + k <= Len(list) + 1
  BY <1>2, <1>3, <1>4
<1>9. /\ Lo(new) \in Nat /\ Hi(new) \in Nat /\ Lo(new) <= Hi(new)
      /\ Lo(m) \in Nat /\ Hi(m) \in Nat /\ Lo(m) <= Hi(m)
      /\ \A j \in 1 .. Len(list) :
            Lo(list[j]) \in Nat /\ Hi(list[j]) \in Nat /\ Lo(list[j]) <= Hi(list[j])
  BY <1>2, <1>6, FragmentForm
<1>10. GoesFirst(list, new) => i = 1
  <2> SUFFICES ASSUME GoesFirst(list, new), i # 1 PROVE FALSE
    OBVIOUS
  <2>1. 1 \in 1 .. i - 1 /\ 1 \in 1 .. Len(list)
    BY <1>2, <1>3
  <2>2. list # <<>> /\ Head(list) = list[1]
    BY <1>1, <2>1
  <2>3. GetMinSeq(new.seq, list[1].seq) = new.seq
    BY <2>2 DEF GoesFirst
  <2>4. Lo(new) <= Lo(list[1])
    BY <1>2, <2>1, <2>3, Comparisons
  <2>5. Hi(list[1]) + 1 < Lo(new)
    BY <1>6, <2>1
  <2> QED
    BY <1>9, <2>1, <2>4, <2>5
<1>11. InsertFragment(list, new) = r
  <2>1. InsertFragment(list, new) =
          IF k > 0
          THEN SubSeq(list, 1, i - 1) \o <<m>> \o SubSeq(list, i + k, Len(list))
          ELSE InsertAt(list, IF GoesFirst(list, new) THEN 1 ELSE i, new)
    BY DEF InsertFragment, i, k, m
  <2>2. CASE k > 0
    BY <2>1, <2>2 DEF r, Spliced
  <2>3. CASE ~ k > 0
    <3>1. k = 0 /\ i + k = i
      BY <1>8, <2>3
    <3>2. InsertFragment(list, new) = InsertAt(list, i, m)
      BY <1>6, <1>10, <2>1, <2>3, <3>1
    <3>3. InsertAt(list, i, m) = SubSeq(list, 1, i - 1) \o <<m>> \o SubSeq(list, i, Len(list))
      BY DEF InsertAt
    <3> QED
      BY <3>1, <3>2, <3>3 DEF r, Spliced
  <2> QED
    BY <2>2, <2>3
<1>12. ASSUME NEW p \in 1 .. Len(r)
       PROVE  \/ p < i /\ p \in 1 .. Len(list) /\ p \in 1 .. i - 1 /\ r[p] = list[p]
              \/ p = i /\ r[p] = m
              \/ /\ p > i /\ p + k - 1 \in 1 .. Len(list)
                 /\ p + k - 1 \in i + k .. Len(list) /\ r[p] = list[p + k - 1]
  <2>1. p \in 1 .. Len(list) - k + 1 /\ p \in Int
    BY <1>7
  <2>2. CASE p < i
    <3>1. p \in 1 .. Len(list) /\ p \in 1 .. i - 1
      BY <1>2, <1>3, <2>1, <2>2
    <3> QED
      BY <1>7, <2>2, <3>1
  <2>3. CASE p = i
    BY <1>7, <2>3
  <2>4. CASE p > i
    <3>1. /\ p \in i + 1 .. Len(list) - k + 1
          /\ p + k - 1 \in 1 .. Len(list) /\ p + k - 1 \in i + k .. Len(list)
      BY <1>2, <1>8, <2>1, <2>4
    <3> QED
      BY <1>7, <2>4, <3>1
  <2> QED
    BY <1>8, <2>1, <2>2, <2>3, <2>4
<1>13. ASSUME NEW p \in 1 .. Len(r), NEW q \in 1 .. Len(r), p < q
       PROVE  Hi(r[p]) + 1 < Lo(r[q])
  <2>1. p \in Int /\ q \in Int
    OBVIOUS
  <2>2. CASE p < i /\ q < i
    <3>1. /\ p \in 1 .. Len(list) /\ r[p] = list[p]
          /\ q \in 1 .. Len(list) /\ r[q] = list[q]
      BY <1>8, <1>12, <2>1, <2>2
    <3> QED
      BY <1>1, <1>13, <3>1 DEF Sorted
  <2>3. CASE p < i /\ q = i
    BY <1>6, <1>12, <2>3
  <2>4. CASE p < i /\ q > i
    <3>1. p < q + k - 1
      BY <1>8, <2>1, <2>4
    <3>2. /\ p \in 1 .. Len(list) /\ r[p] = list[p]
          /\ q + k - 1 \in 1 .. Len(list) /\ r[q] = list[q + k - 1]
      BY <1>8, <1>12, <2>1, <2>4
    <3> QED
      BY <1>1, <3>1, <3>2 DEF Sorted
  <2>5. CASE p = i
    BY <1>6, <1>8, <1>12, <1>13, <2>1, <2>5
  <2>6. CASE p > i
    <3>1. q > i /\ p + k - 1 < q + k - 1
      BY <1>8, <1>13, <2>1, <2>6
    <3>2. /\ p + k - 1 \in 1 .. Len(list) /\ r[p] = list[p + k - 1]
          /\ q + k - 1 \in 1 .. Len(list) /\ r[q] = list[q + k - 1]
      BY <1>8, <1>12, <2>1, <2>6, <3>1
    <3> QED
      BY <1>1, <3>1, <3>2 DEF Sorted
  <2> QED
    BY <1>8, <1>13, <2>1, <2>2, <2>3, <2>4, <2>5, <2>6
<1>14. ASSUME NEW n \in Nat
       PROVE  n \in S \cup (Lo(new) .. Hi(new)) <=>
                \E p \in 1 .. Len(r) : Lo(r[p]) <= n /\ n <= Hi(r[p])
  <2>1. ASSUME NEW p \in 1 .. Len(r), Lo(r[p]) <= n, n <= Hi(r[p])
        PROVE  n \in S \cup (Lo(new) .. Hi(new))
    <3>1. CASE p < i
      <4>1. p \in 1 .. Len(list) /\ r[p] = list[p]
        BY <1>8, <1>12, <3>1
      <4> QED
        BY <1>1, <2>1, <4>1
    <3>2. CASE p = i
      <4>1. \/ Lo(new) <= n /\ n <= Hi(new)
            \/ \E j \in i .. i + k - 1 : Lo(list[j]) <= n /\ n <= Hi(list[j])
        BY <1>6, <1>7, <2>1, <3>2
      <4>2. \A j \in i .. i + k - 1 : j \in 1 .. Len(list)
        BY <1>2, <1>8
      <4> QED
        BY <1>1, <1>9, <4>1, <4>2
    <3>3. CASE p > i
      <4>1. p + k - 1 \in 1 .. Len(list) /\ r[p] = list[p + k - 1]
        BY <1>8, <1>12, <3>3
      <4> QED
        BY <1>1, <2>1, <4>1
    <3>4. p \in Int
      OBVIOUS
    <3> QED
      BY <1>8, <3>1, <3>2, <3>3, <3>4
  <2>2. i \in 1 .. Len(r) /\ Len(r) = Len(list) - k + 1
    BY <1>2, <1>7, <1>8
  <2>3. ASSUME n \in Lo(new) .. Hi(new)
        PROVE  \E p \in 1 .. Len(r) : Lo(r[p]) <= n /\ n <= Hi(r[p])
    <3>1. Lo(m) <= n /\ n <= Hi(m)
      BY <1>6, <1>9, <2>3
    <3> QED
      BY <1>7, <2>2, <3>1
  <2>4. ASSUME n \in S
        PROVE  \E p \in 1 .. Len(r) : Lo(r[p]) <= n /\ n <= Hi(r[p])
    <3>1. PICK j \in 1 .. Len(list) : Lo(list[j]) <= n /\ n <= Hi(list[j])
      BY <1>1, <2>4
    <3>2. CASE j < i
      <4>1. j \in 1 .. i - 1 /\ j \in 1 .. Len(r)
        BY <1>2, <1>8, <2>2, <3>2
      <4> QED
        BY <1>7, <3>1, <4>1
    <3>3. CASE i <= j /\ j <= i + k - 1
      <4>1. j \in i .. i + k - 1
        BY <1>8, <3>3
      <4>2. Lo(m) <= n /\ n <= Hi(m)
        BY <1>6, <3>1, <4>1
      <4> QED
        BY <1>7, <2>2, <4>2
    <3>4. CASE j > i + k - 1
      <4> DEFINE p == j - k + 1
      <4>1. /\ p \in i + 1 .. Len(list) - k + 1 /\ p \in 1 .. Len(r)
            /\ p + k - 1 = j
        BY <1>2, <1>8, <2>2, <3>4
      <4> HIDE DEF p
      <4>2. r[p] = list[j]
        BY <1>7, <4>1
      <4> QED
        BY <3>1, <4>1, <4>2
    <3>5. j \in Int
      OBVIOUS
    <3> QED
      BY <1>8, <3>2, <3>3, <3>4, <3>5
  <2> QED
    BY <2>1, <2>3, <2>4
<1>15. InsertsInOrder(list, new)
  <2>1. InsertsInOrder(list, new) <=>
          \/ k > 0
          \/ GoesFirst(list, new)
          \/ /\ i > 1
             /\ GetMinSeq(new.seq, EndSeq(list[i - 1])) = EndSeq(list[i - 1])
    BY DEF InsertsInOrder, i, k
  <2>2. CASE k > 0
    BY <2>1, <2>2
  <2>3. CASE k = 0 /\ i > 1
    <3>1. i - 1 \in 1 .. Len(list) /\ i - 1 \in 1 .. i - 1
      BY <1>2, <1>3, <2>3
    <3>2. Hi(list[i - 1]) + 1 < Lo(new) /\ list[i - 1] \in Fragments
      BY <1>2, <1>6, <3>1
    <3>3. Hi(list[i - 1]) + 1 <= Lo(new)
      BY <1>9, <3>1, <3>2
    <3>4. GetMinSeq(new.seq, EndSeq(list[i - 1])) = EndSeq(list[i - 1])
      BY <3>2, <3>3, Comparisons
    <3> QED
      BY <2>1, <2>3, <3>4
  <2>4. CASE k = 0 /\ i = 1
    <3>1. CASE list = <<>>
      BY <2>1, <3>1 DEF GoesFirst
    <3>2. CASE list # <<>>
      <4>1. 1 \in 1 .. Len(list) /\ 1 \in i + k .. Len(list) /\ Head(list) = list[1]
        BY <1>1, <1>2, <2>4, <3>2
      <4>2. Lo(new) <= Lo(list[1])
        BY <1>6, <1>9, <2>4, <4>1
      <4>3. GetMinSeq(new.seq, list[1].seq) = new.seq
        BY <1>2, <4>1, <4>2, Comparisons
      <4> QED
        BY <2>1, <4>1, <4>3 DEF GoesFirst
    <3> QED
      BY <3>1, <3>2
  <2> QED
    BY <1>8, <2>2, <2>3, <2>4
<1> QED
  BY <1>7, <1>11, <1>13, <1>14, <1>15 DEF RunsOf
-----------------------------------------------------------------------------
(* The buffer.                                                              *)

LEMMA SeqBack ==
    ASSUME NEW s \in 0 .. SeqSpace - 1, (s - InitSeq) % SeqSpace <= Total
    PROVE  /\ (s - InitSeq) % SeqSpace \in Near
           /\ s = ByteSeq((s - InitSeq) % SeqSpace)
<1>1. s \in Int /\ 0 <= s /\ s < SeqSpace
  BY Sizes
<1> DEFINE d == s - InitSeq
           w == d % SeqSpace
<1>2. d \in Int /\ 0 - SeqSpace <= d /\ d < SeqSpace
  BY <1>1, Sizes
<1>3. w <= Total
  OBVIOUS
<1> HIDE DEF d
<1>4. /\ 0 <= d /\ d < SeqSpace => w = d
      /\ 0 - SeqSpace <= d /\ d < 0 => w = d + SeqSpace
  BY <1>2, SeqCases
<1> HIDE DEF w
<1>5. w \in Int /\ 0 <= w /\ (w = d \/ w = d + SeqSpace)
  BY <1>2, <1>4, Sizes
<1>6. w \in Near
  BY <1>3, <1>5, Sizes DEF Near
<1>7. /\ ByteSeq(w) \in 0 .. SeqSpace - 1
      /\ ByteSeq(w) = InitSeq + w \/ ByteSeq(w) = InitSeq + w - SeqSpace
  BY <1>6, ByteSeqs
<1>8. s = InitSeq + d
  BY <1>1, Sizes DEF d
<1>9. s = ByteSeq(w)
  BY <1>1, <1>2, <1>5, <1>7, <1>8, Sizes
<1> QED
  BY <1>6, <1>9 DEF w, d

\* The first run of a set that starts at its least element.
LEMMA FirstRun ==
    ASSUME NEW list, NEW S, RunsOf(list, S), S \subseteq Nat,
           NEW h \in Nat, \A n \in S : h <= n
    PROVE  /\ h \in S <=> list # <<>> /\ Lo(list[1]) = h
           /\ h \in S => /\ list[1] \in Fragments
                         /\ h .. Hi(list[1]) \subseteq S
                         /\ Hi(list[1]) + 1 \notin S
<1>1. /\ list \in Seq(Fragments)
      /\ \A i, j \in 1 .. Len(list) : i < j => Hi(list[i]) + 1 < Lo(list[j])
      /\ \A n \in Nat : n \in S <=>
            \E i \in 1 .. Len(list) : Lo(list[i]) <= n /\ n <= Hi(list[i])
  BY DEF RunsOf
<1>2. Len(list) \in Nat /\ \A j \in 1 .. Len(list) : list[j] \in Fragments
  BY <1>1, LenProperties, ElementOfSeq
<1>3. \A j \in 1 .. Len(list) :
        Lo(list[j]) \in Nat /\ Hi(list[j]) \in Nat /\ Lo(list[j]) <= Hi(list[j])
  BY <1>2, FragmentForm
<1>4. \A j \in 1 .. Len(list) : Lo(list[j]) \in S
  <2> SUFFICES ASSUME NEW j \in 1 .. Len(list) PROVE Lo(list[j]) \in S
    OBVIOUS
  <2> DEFINE n == Lo(list[j])
  <2>1. n \in Nat /\ Lo(list[j]) <= n /\ n <= Hi(list[j])
    BY <1>3
  <2> QED
    BY <1>1, <2>1
<1>5. ASSUME list # <<>>, Lo(list[1]) = h PROVE h \in S
  <2>1. 1 \in 1 .. Len(list)
    BY <1>1, <1>5, EmptySeq
  <2> QED
    BY <1>4, <1>5, <2>1
<1>6. ASSUME h \in S
      PROVE  /\ list # <<>> /\ Lo(list[1]) = h /\ list[1] \in Fragments
             /\ h .. Hi(list[1]) \subseteq S /\ Hi(list[1]) + 1 \notin S
  <2>1. PICK j \in 1 .. Len(list) : Lo(list[j]) <= h /\ h <= Hi(list[j])
    BY <1>1, <1>6
  <2>2. 1 \in 1 .. Len(list) /\ (j = 1 \/ 1 < j) /\ list # <<>>
    BY <1>1, <1>2, EmptySeq
  <2>3. j = 1
    <3> SUFFICES ASSUME 1 < j PROVE FALSE
      BY <2>2
    <3>1. Hi(list[1]) + 1 < Lo(list[j]) /\ h <= Lo(list[1])
      BY <1>1, <1>4, <2>2
    <3> QED
      BY <1>3, <2>1, <2>2, <3>1
  <2>4. Lo(list[1]) = h
    BY <1>3, <1>4, <2>1, <2>2, <2>3
  <2>5. ASSUME NEW n \in h .. Hi(list[1]) PROVE n \in S
    BY <1>1, <1>3, <2>2, <2>4
  <2>6. Hi(list[1]) + 1 \notin S
    <3> SUFFICES ASSUME Hi(list[1]) + 1 \in S PROVE FALSE
      OBVIOUS
    <3> DEFINE n == Hi(list[1]) + 1
    <3>1. n \in Nat /\ n \in S
      BY <1>3, <2>2
    <3>2. PICK q \in 1 .. Len(list) : Lo(list[q]) <= n /\ n <= Hi(list[q])
      BY <1>1, <3>1
    <3>3. q # 1
      BY <1>3, <2>2, <3>2
    <3>4. 1 < q
      BY <1>2, <3>3
    <3>5. n < Lo(list[q])
      BY <1>1, <2>2, <3>4
    <3> QED
      BY <1>3, <3>1, <3>2, <3>5
  <2> QED
    BY <1>2, <2>2, <2>4, <2>5, <2>6
<1> QED
  BY <1>5, <1>6
\* The part of GoodBuffer that RBPut restores before it looks for the prefix.
StoredBuffer(b, arr) ==
    /\ b \in Buffers
    /\ b.head_offset + b.last_len <= b.tail_offset
    /\ arr \subseteq 0 .. Total - 1
    /\ RunsOf(b.fctx, Kept(b, arr))
    /\ \A n \in Kept(b, arr) : n < HeadOf(b) + b.last_len

LEMMA BufferTypes ==
    ASSUME NEW b \in Buffers
    PROVE  /\ b.head_offset \in Nat /\ b.merged_len \in Nat /\ b.cum_len \in Nat
           /\ b.last_len \in Nat /\ b.head_seq \in 0 .. SeqSpace - 1
           /\ b.tail_offset \in 0 .. Size /\ b.tail_offset \in Nat
           /\ b.tail_offset <= Size
           /\ b.fctx \in Seq(Fragments)
           /\ b.data \in [0 .. Size - 1 -> None .. Total - 1]
           /\ HeadOf(b) \in Nat
<1>1. /\ b.head_offset \in Nat /\ b.merged_len \in Nat /\ b.cum_len \in Nat
      /\ b.last_len \in Nat /\ b.head_seq \in 0 .. SeqSpace - 1
      /\ b.tail_offset \in 0 .. Size /\ b.fctx \in Seq(Fragments)
      /\ b.data \in [0 .. Size - 1 -> None .. Total - 1]
  BY DEF Buffers
<1>2. b.tail_offset \in Nat /\ b.tail_offset <= Size
  BY <1>1, Sizes
<1>3. b.head_seq - InitSeq \in Int
  BY <1>1, Sizes
<1>4. HeadOf(b) \in Nat
  <2> DEFINE d == b.head_seq - InitSeq
  <2> HIDE DEF d
  <2>1. d \in Int
    BY <1>3 DEF d
  <2>2. d % SeqSpace \in 0 .. SeqSpace - 1
    BY <2>1, SeqCases
  <2> QED
    BY <2>2, Sizes DEF HeadOf, d
<1> QED
  BY <1>1, <1>2, <1>4

LEMMA KeptBytes ==
    ASSUME NEW b, NEW arr, arr \subseteq 0 .. Total - 1
    PROVE  Kept(b, arr) \subseteq Nat
<1>1. 0 .. Total - 1 \subseteq Nat
  BY Sizes
<1>2. Kept(b, arr) \subseteq arr
  BY DEF Kept
<1> QED
  BY <1>1, <1>2

\* The head is a byte, and what is merged is the first fragment.
LEMMA GoodFacts ==
    ASSUME NEW b, NEW arr, GoodBuffer(b, arr)
    PROVE  /\ HeadOf(b) \in 0 .. Total /\ HeadOf(b) \in Near
           /\ b.head_seq = ByteSeq(HeadOf(b))
           /\ b.cum_len \in 0 .. Total /\ HeadOf(b) + b.merged_len = b.cum_len
           /\ b.merged_len <= b.last_len
           /\ b.merged_len > 0 =>
                /\ b.fctx # <<>> /\ Head(b.fctx) = b.fctx[1]
                /\ b.fctx[1] \in Fragments
                /\ Lo(b.fctx[1]) = HeadOf(b)
                /\ b.fctx[1].len = b.merged_len
<1>1. /\ b.head_offset \in Nat /\ b.merged_len \in Nat /\ b.cum_len \in Nat
      /\ b.last_len \in Nat /\ b.head_seq \in 0 .. SeqSpace - 1
      /\ b.fctx \in Seq(Fragments) /\ HeadOf(b) \in Nat
  BY BufferTypes DEF GoodBuffer
<1>2. /\ arr \subseteq 0 .. Total - 1
      /\ HeadOf(b) + b.merged_len = b.cum_len
      /\ 0 .. b.cum_len - 1 \subseteq arr /\ b.cum_len \notin arr
      /\ RunsOf(b.fctx, Kept(b, arr))
      /\ \A n \in Kept(b, arr) : n < HeadOf(b) + b.last_len
  BY DEF GoodBuffer
<1>3. b.cum_len <= Total
  <2> SUFFICES ASSUME b.cum_len > Total PROVE FALSE
    BY <1>1, Sizes
  <2>1. Total \in 0 .. b.cum_len - 1 /\ Total \notin 0 .. Total - 1
    BY <1>1, Sizes
  <2> QED
    BY <1>2, <2>1
<1>4. HeadOf(b) <= Total /\ b.cum_len \in 0 .. Total /\ HeadOf(b) \in 0 .. Total
  BY <1>1, <1>2, <1>3, Sizes
<1>5. HeadOf(b) \in Near /\ b.head_seq = ByteSeq(HeadOf(b))
  BY <1>1, <1>4, SeqBack DEF HeadOf
<1>6. ASSUME b.merged_len > 0
      PROVE  /\ b.merged_len <= b.last_len
             /\ b.fctx # <<>> /\ Head(b.fctx) = b.fctx[1]
             /\ b.fctx[1] \in Fragments
             /\ Lo(b.fctx[1]) = HeadOf(b)
             /\ b.fctx[1].len = b.merged_len
  <2> DEFINE h == HeadOf(b)
             K == Kept(b, arr)
             c == b.cum_len
             f == b.fctx[1]
  <2>1. h \in Nat /\ c \in Nat /\ h < c /\ h + b.merged_len = c
    BY <1>1, <1>2, <1>6
  <2>2. K \subseteq Nat /\ (\A n \in K : h <= n) /\ h .. c - 1 \subseteq K /\ c \notin K
    <3>1. K \subseteq Nat
      BY <1>2, KeptBytes
    <3>2. \A n \in K : h <= n
      BY <1>1, <3>1 DEF Kept
    <3>3. ASSUME NEW n \in h .. c - 1 PROVE n \in K
      <4>1. n \in 0 .. c - 1 /\ n >= h
        BY <2>1
      <4> QED
        BY <1>2, <4>1 DEF Kept
    <3>4. c \notin K
      BY <1>2 DEF Kept
    <3> QED
      BY <3>1, <3>2, <3>3, <3>4
  <2>3. RunsOf(b.fctx, K) /\ \A n \in K : n < h + b.last_len
    BY <1>2
  <2> HIDE DEF h, K, c
  <2>4. h \in K /\ c - 1 \in K
    BY <2>1, <2>2
  <2>5. /\ b.fctx # <<>> /\ Lo(f) = h /\ f \in Fragments
        /\ h .. Hi(f) \subseteq K /\ Hi(f) + 1 \notin K
    BY <2>1, <2>2, <2>3, <2>4, FirstRun
  <2>6. Head(b.fctx) = f
    BY <1>1, <2>5
  <2> HIDE DEF f
  <2>7. Lo(f) \in Nat /\ Hi(f) \in Nat /\ Lo(f) <= Hi(f) /\ f.len = Hi(f) - Lo(f) + 1
    BY <2>5, FragmentForm
  <2>8. Hi(f) + 1 = c
    <3>1. ~ Hi(f) >= c
      <4> SUFFICES ASSUME Hi(f) >= c PROVE FALSE
        OBVIOUS
      <4>1. c \in h .. Hi(f)
        BY <2>1, <2>7
      <4> QED
        BY <2>2, <2>5, <4>1
    <3>2. ~ Hi(f) + 1 < c
      <4> SUFFICES ASSUME Hi(f) + 1 < c PROVE FALSE
        OBVIOUS
      <4>1. Hi(f) + 1 \in h .. c - 1
        BY <2>1, <2>5, <2>7
      <4> QED
        BY <2>2, <2>5, <4>1
    <3> QED
      BY <2>1, <2>7, <3>1, <3>2
  <2>9. f.len = b.merged_len
    <3>1. b.merged_len \in Nat /\ Lo(f) = h
      BY <1>1, <2>5
    <3> QED
      BY <2>1, <2>7, <2>8, <3>1
  <2>10. b.merged_len <= b.last_len
    <3>1. c - 1 < h + b.last_len
      BY <2>3, <2>4
    <3> QED
      BY <1>1, <2>1, <3>1
  <2> QED
    BY <2>5, <2>6, <2>9, <2>10 DEF h, f
<1> QED
  BY <1>1, <1>2, <1>4, <1>5, <1>6

SetMerged(b, x, y) == [b EXCEPT !.cum_len = x, !.merged_len = y]

LEMMA SetMergedFacts ==
    ASSUME NEW b \in Buffers, NEW x \in Nat, NEW y \in Nat
    PROVE  /\ SetMerged(b, x, y) \in Buffers
           /\ SetMerged(b, x, y).cum_len = x /\ SetMerged(b, x, y).merged_len = y
           /\ SetMerged(b, x, y).head_offset = b.head_offset
           /\ SetMerged(b, x, y).tail_offset = b.tail_offset
           /\ SetMerged(b, x, y).last_len = b.last_len
           /\ SetMerged(b, x, y).head_seq = b.head_seq
           /\ SetMerged(b, x, y).fctx = b.fctx
<1>1. SetMerged(b, x, y) \in Buffers
  BY Zenon DEF Buffers, SetMerged
<1> QED
  BY <1>1 DEF Buffers, SetMerged

\* RBPut's last step finds the prefix that is complete.
LEMMA MergedGood ==
    ASSUME NEW b, NEW arr, StoredBuffer(b, arr), b.fctx # <<>>,
           HeadOf(b) + b.merged_len = b.cum_len,
           0 .. b.cum_len - 1 \subseteq arr
    PROVE  GoodBuffer(Merged(b), arr) /\ HeadOf(Merged(b)) = HeadOf(b)
<1>1. /\ b.head_offset \in Nat /\ b.merged_len \in Nat /\ b.cum_len \in Nat
      /\ b.last_len \in Nat /\ b.head_seq \in 0 .. SeqSpace - 1
      /\ b.fctx \in Seq(Fragments) /\ HeadOf(b) \in Nat /\ b \in Buffers
  BY BufferTypes DEF StoredBuffer
<1>2. /\ arr \subseteq 0 .. Total - 1
      /\ RunsOf(b.fctx, Kept(b, arr))
      /\ \A n \in Kept(b, arr) : n < HeadOf(b) + b.last_len
      /\ b.head_offset + b.last_len <= b.tail_offset
  BY DEF StoredBuffer
<1> DEFINE h == HeadOf(b)
           K == Kept(b, arr)
           c == b.cum_len
           f == b.fctx[1]
<1>3. K \subseteq Nat /\ (\A n \in K : h <= n) /\ \A n \in Nat : n \in K <=> n \in arr /\ h <= n
  <2>1. K \subseteq Nat
    BY <1>2, KeptBytes
  <2> QED
    BY <1>1, <2>1 DEF Kept
<1>4. /\ h \in K <=> Lo(f) = h
      /\ h \in K => /\ f \in Fragments /\ h .. Hi(f) \subseteq K /\ Hi(f) + 1 \notin K
  <2> HIDE DEF h, K
  <2>1. RunsOf(b.fctx, K) /\ h \in Nat
    BY <1>1, <1>2 DEF K, h
  <2> QED
    BY <1>3, <2>1, FirstRun
<1>5. f \in Fragments /\ Head(b.fctx) = f
  <2>1. 1 \in 1 .. Len(b.fctx)
    BY <1>1, EmptySeq
  <2> QED
    BY <1>1, <2>1, ElementOfSeq
<1>6. /\ Lo(f) \in Nat /\ Hi(f) \in Nat /\ Lo(f) <= Hi(f) /\ Hi(f) < Total
      /\ f.seq = ByteSeq(Lo(f)) /\ f.len = Hi(f) - Lo(f) + 1 /\ Lo(f) \in Near
      /\ f.len \in Nat
  BY <1>5, FragmentForm, EndForm
<1>7. h <= Total
  <2> SUFFICES ASSUME h > Total PROVE FALSE
    BY <1>1, Sizes
  <2>1. Total \in 0 .. c - 1 /\ Total \notin 0 .. Total - 1
    BY <1>1, Sizes
  <2> QED
    BY <1>2, <2>1
<1>8. h \in Near /\ b.head_seq = ByteSeq(h)
  BY <1>1, <1>7, SeqBack DEF HeadOf
<1>9. b.head_seq = Head(b.fctx).seq <=> h \in K
  <2> HIDE DEF h, K, f
  <2>1. ByteSeq(h) = ByteSeq(Lo(f)) <=> h = Lo(f)
    BY <1>6, <1>8, SeqOrder
  <2> QED
    BY <1>4, <1>5, <1>6, <1>8, <2>1
<1>10. CASE h \in K
  <2> DEFINE x == b.cum_len + f.len - b.merged_len
             y == f.len
             d == SetMerged(b, x, y)
  <2>1. Merged(b) = d
    BY <1>5, <1>9, <1>10 DEF Merged, SetMerged
  <2>2. x = Hi(f) + 1 /\ h + f.len = Hi(f) + 1
    BY <1>1, <1>4, <1>6, <1>10
  <2>3. /\ d \in Buffers
        /\ d.cum_len = Hi(f) + 1 /\ d.merged_len = f.len
        /\ d.head_offset = b.head_offset /\ d.tail_offset = b.tail_offset
        /\ d.last_len = b.last_len /\ d.head_seq = b.head_seq
        /\ d.fctx = b.fctx
    <3>1. x \in Nat /\ y \in Nat
      BY <1>6, <2>2
    <3> HIDE DEF x, y
    <3>2. /\ d \in Buffers
          /\ d.cum_len = x /\ d.merged_len = y
          /\ d.head_offset = b.head_offset /\ d.tail_offset = b.tail_offset
          /\ d.last_len = b.last_len /\ d.head_seq = b.head_seq
          /\ d.fctx = b.fctx
      <4>1. b \in Buffers
        BY <1>1
      <4> HIDE DEF h, K, c, f
      <4> QED
        BY <3>1, <4>1, SetMergedFacts, ZenonT(40)
    <3> QED
      BY <2>2, <3>2 DEF y
  <2> HIDE DEF d
  <2>4. HeadOf(d) = h /\ Kept(d, arr) = K
    BY <2>3 DEF HeadOf, Kept
  <2>5. 0 .. Hi(f) \subseteq arr
    <3> SUFFICES ASSUME NEW n \in 0 .. Hi(f) PROVE n \in arr
      OBVIOUS
    <3>1. CASE n < h
      <4>1. n \in 0 .. c - 1
        BY <1>1, <3>1
      <4> QED
        BY <4>1
    <3>2. CASE h <= n
      <4>1. n \in h .. Hi(f)
        BY <1>1, <1>6, <3>2
      <4> QED
        BY <1>4, <1>10, <4>1 DEF Kept
    <3> QED
      BY <1>1, <3>1, <3>2
  <2>6. Hi(f) + 1 \notin arr
    BY <1>1, <1>3, <1>4, <1>6, <1>10
  <2>7. 0 .. (Hi(f) + 1) - 1 = 0 .. Hi(f)
    BY <1>6
  <2> QED
    BY <1>2, <2>1, <2>2, <2>3, <2>4, <2>5, <2>6, <2>7 DEF GoodBuffer
<1>11. CASE h \notin K
  <2>1. Merged(b) = b
    BY <1>9, <1>11 DEF Merged
  <2>2. h \notin arr
    BY <1>1, <1>3, <1>11
  <2>3. c = h
    <3> SUFFICES ASSUME c # h PROVE FALSE
      OBVIOUS
    <3>1. h \in 0 .. c - 1
      BY <1>1
    <3> QED
      BY <2>2, <3>1
  <2> QED
    BY <1>1, <1>2, <2>1, <2>2, <2>3 DEF GoodBuffer
<1> QED
  BY <1>10, <1>11
\* The data moves to the front within the chunk, and then there is room for
\* what goes up to the offset e.
LEMMA MoveFacts ==
    ASSUME NEW b \in Buffers, b.head_offset + b.last_len <= b.tail_offset,
           NEW e \in Nat, e <= Size
    PROVE  /\ MoveToFront(b, e) \in Buffers
           /\ MoveToFront(b, e).merged_len = b.merged_len
           /\ MoveToFront(b, e).cum_len = b.cum_len
           /\ MoveToFront(b, e).last_len = b.last_len
           /\ MoveToFront(b, e).head_seq = b.head_seq
           /\ MoveToFront(b, e).fctx = b.fctx
           /\ MoveToFront(b, e).head_offset + e <= Size
           /\ MoveToFront(b, e).head_offset + b.last_len <= MoveToFront(b, e).tail_offset
<1>1. /\ b.head_offset \in Nat /\ b.last_len \in Nat
      /\ b.tail_offset \in Nat /\ b.tail_offset <= Size
      /\ b.data \in [0 .. Size - 1 -> None .. Total - 1]
  BY BufferTypes
<1>2. CASE Size <= b.head_offset + e
  <2> DEFINE D == [k \in 0 .. Size - 1 |-> IF k < b.last_len
                                           THEN b.data[b.head_offset + k]
                                           ELSE b.data[k]]
             t == b.tail_offset - b.head_offset
             c == [b EXCEPT !.data = D, !.tail_offset = t, !.head_offset = 0]
  <2>1. MoveToFront(b, e) = c
    BY <1>2 DEF MoveToFront
  <2>2. D \in [0 .. Size - 1 -> None .. Total - 1]
    <3>1. ASSUME NEW k \in 0 .. Size - 1
          PROVE  (IF k < b.last_len THEN b.data[b.head_offset + k] ELSE b.data[k])
                    \in None .. Total - 1
      <4>1. CASE k < b.last_len
        <5> HIDE DEF D, t, c
        <5>1. k \in Int /\ 0 <= k /\ Size \in Int
          BY Sizes
        <5>2. b.head_offset + k < b.tail_offset
          BY <1>1, <4>1, <5>1
        <5>3. b.head_offset + k \in 0 .. Size - 1
          BY <1>1, <5>1, <5>2
        <5> QED
          BY <1>1, <4>1, <5>3
      <4>2. CASE ~ k < b.last_len
        BY <1>1, <4>2
      <4> QED
        BY <4>1, <4>2
    <3> QED
      BY <3>1
  <2>3. t \in 0 .. Size /\ 0 \in Nat /\ 0 + b.last_len <= t
    BY <1>1, Sizes
  <2> HIDE DEF D, t
  <2>4. c \in Buffers
    BY <2>2, <2>3, Zenon DEF Buffers
  <2>5. /\ c.merged_len = b.merged_len /\ c.cum_len = b.cum_len
        /\ c.last_len = b.last_len /\ c.head_seq = b.head_seq /\ c.fctx = b.fctx
        /\ c.head_offset = 0 /\ c.tail_offset = t
    BY DEF Buffers
  <2> HIDE DEF c
  <2>6. c.head_offset + e <= Size
    BY <2>5
  <2> QED
    BY <2>1, <2>3, <2>4, <2>5, <2>6
<1>3. CASE ~ Size <= b.head_offset + e
  <2>1. MoveToFront(b, e) = b
    BY <1>3 DEF MoveToFront
  <2>2. b.head_offset + e <= Size
    BY <1>1, <1>3, Sizes
  <2> QED
    BY <2>1, <2>2
<1> QED
  BY <1>2, <1>3

LEMMA StoreFacts ==
    ASSUME NEW b \in Buffers, NEW putx \in Nat, NEW n \in Nat, NEW len \in Nat,
           n + len <= Total, b.head_offset + (putx + len) <= Size
    PROVE  /\ Store(b, putx, n, len) \in Buffers
           /\ Store(b, putx, n, len).merged_len = b.merged_len
           /\ Store(b, putx, n, len).cum_len = b.cum_len
           /\ Store(b, putx, n, len).head_offset = b.head_offset
           /\ Store(b, putx, n, len).head_seq = b.head_seq
           /\ Store(b, putx, n, len).fctx = b.fctx
           /\ Store(b, putx, n, len).tail_offset >= b.tail_offset
           /\ Store(b, putx, n, len).tail_offset >= b.head_offset + (putx + len)
<1>1. /\ b.head_offset \in Nat
      /\ b.tail_offset \in Nat /\ b.tail_offset <= Size
      /\ b.data \in [0 .. Size - 1 -> None .. Total - 1]
  BY BufferTypes
<1> DEFINE at == b.head_offset + putx
           D == [k \in 0 .. Size - 1 |-> IF k \in at .. at + len - 1
                                         THEN n + (k - at) ELSE b.data[k]]
           t == IF b.tail_offset < at + len THEN at + len ELSE b.tail_offset
           c == [b EXCEPT !.data = D, !.tail_offset = t]
<1>2. Store(b, putx, n, len) = c
  BY DEF Store
<1>3. D \in [0 .. Size - 1 -> None .. Total - 1]
  <2>1. ASSUME NEW k \in 0 .. Size - 1
        PROVE  (IF k \in at .. at + len - 1 THEN n + (k - at) ELSE b.data[k])
                  \in None .. Total - 1
    <3>1. CASE k \in at .. at + len - 1
      <4>1. at \in Nat
        BY <1>1
      <4> HIDE DEF at
      <4>2. n + (k - at) \in None .. Total - 1
        BY <3>1, <4>1, Sizes DEF None
      <4> QED
        BY <3>1, <4>2
    <3>2. CASE k \notin at .. at + len - 1
      BY <1>1, <3>2
    <3> QED
      BY <3>1, <3>2
  <2> QED
    BY <2>1
<1>4. t \in 0 .. Size /\ t >= b.tail_offset /\ t >= b.head_offset + (putx + len)
  BY <1>1, Sizes
<1> HIDE DEF D, t
<1>5. c \in Buffers
  BY <1>3, <1>4, Zenon DEF Buffers
<1>6. /\ c.merged_len = b.merged_len /\ c.cum_len = b.cum_len
      /\ c.head_offset = b.head_offset /\ c.head_seq = b.head_seq
      /\ c.fctx = b.fctx /\ c.tail_offset = t
  BY DEF Buffers
<1> HIDE DEF c
<1> QED
  BY <1>2, <1>4, <1>5, <1>6
\* RBPut drops what starts before the head, and what does not fit.
LEMMA DropsIff ==
    ASSUME NEW b, NEW arr, GoodBuffer(b, arr),
           NEW n \in 0 .. Total - 1, NEW len \in Nat
    PROVE  /\ RBDrops(b, n, len) <=> n < HeadOf(b) \/ Size < n - HeadOf(b) + len
           /\ HeadOf(b) <= n => (ByteSeq(n) - b.head_seq) % SeqSpace = n - HeadOf(b)
<1> DEFINE h == HeadOf(b)
<1>1. h \in Nat /\ h \in Near /\ b.head_seq = ByteSeq(h)
  BY GoodFacts, Sizes
<1>2. n \in Nat /\ n \in Near
  BY Sizes DEF Near
<1> HIDE DEF h
<1>3. h <= n => (ByteSeq(n) - ByteSeq(h)) % SeqSpace = n - h
  BY <1>1, <1>2, SeqDistance
<1>4. GetMinSeq(ByteSeq(h), ByteSeq(n)) # ByteSeq(h) <=> n < h
  BY <1>1, <1>2, SeqOrder
<1>5. RBDrops(b, n, len) <=>
        \/ GetMinSeq(ByteSeq(h), ByteSeq(n)) # ByteSeq(h)
        \/ Size < ((ByteSeq(n) - ByteSeq(h)) % SeqSpace) + len
  BY <1>1 DEF RBDrops
<1>6. CASE n < h
  BY <1>1, <1>2, <1>4, <1>5, <1>6 DEF h
<1>7. CASE h <= n
  BY <1>1, <1>2, <1>3, <1>4, <1>5, <1>7 DEF h
<1> QED
  BY <1>1, <1>2, <1>6, <1>7

\* The new fragment in the list, last_len up to date.
Linked(c, f) ==
    [c EXCEPT !.last_len = c.tail_offset - c.head_offset,
              !.fctx = InsertFragment(@, f)]

LEMMA LinkedFacts ==
    ASSUME NEW c \in Buffers, c.head_offset <= c.tail_offset, NEW f,
           InsertFragment(c.fctx, f) \in Seq(Fragments)
    PROVE  /\ Linked(c, f) \in Buffers
           /\ Linked(c, f).merged_len = c.merged_len
           /\ Linked(c, f).cum_len = c.cum_len
           /\ Linked(c, f).head_offset = c.head_offset
           /\ Linked(c, f).tail_offset = c.tail_offset
           /\ Linked(c, f).head_seq = c.head_seq
           /\ Linked(c, f).last_len = c.tail_offset - c.head_offset
           /\ Linked(c, f).fctx = InsertFragment(c.fctx, f)
<1> DEFINE l == c.tail_offset - c.head_offset
           F == InsertFragment(c.fctx, f)
           d == [c EXCEPT !.last_len = l, !.fctx = F]
<1>1. Linked(c, f) = d
  BY DEF Linked
<1>2. l \in Nat /\ F \in Seq(Fragments)
  BY BufferTypes
<1> HIDE DEF l, F
<1>3. d \in Buffers
  BY <1>2, Zenon DEF Buffers
<1>4. /\ d.merged_len = c.merged_len /\ d.cum_len = c.cum_len
      /\ d.head_offset = c.head_offset /\ d.tail_offset = c.tail_offset
      /\ d.head_seq = c.head_seq /\ d.last_len = l /\ d.fctx = F
  BY DEF Buffers
<1> HIDE DEF d
<1> QED
  BY <1>1, <1>3, <1>4 DEF l, F

\* RBPut takes in a segment that it does not drop.
LEMMA PutGood ==
    ASSUME NEW b, NEW arr, GoodBuffer(b, arr),
           NEW n \in 0 .. Total - 1, NEW len \in Nat, len > 0, n + len <= Total,
           ~ RBDrops(b, n, len)
    PROVE  /\ GoodBuffer(RBPut(b, n, len), arr \cup (n .. n + len - 1))
           /\ InsertsInOrder(b.fctx, [seq |-> ByteSeq(n), len |-> len])
<1> DEFINE h == HeadOf(b)
           f == Frag(n, n + len - 1)
           putx == n - h
           c == MoveToFront(b, putx + len)
           s == Store(c, putx, n, len)
           d == Linked(s, f)
           arr2 == arr \cup (n .. n + len - 1)
<1>1. /\ b \in Buffers /\ b.head_offset + b.last_len <= b.tail_offset
      /\ arr \subseteq 0 .. Total - 1
      /\ h + b.merged_len = b.cum_len
      /\ 0 .. b.cum_len - 1 \subseteq arr
      /\ RunsOf(b.fctx, Kept(b, arr))
      /\ \A k \in Kept(b, arr) : k < h + b.last_len
  BY DEF GoodBuffer
<1>2. b.last_len \in Nat /\ h \in Nat /\ n \in Nat
  BY <1>1, BufferTypes, Sizes
<1>3. h <= n /\ n - h + len <= Size /\ (ByteSeq(n) - b.head_seq) % SeqSpace = putx
  BY <1>2, DropsIff, Sizes
<1>4. putx \in Nat /\ putx + len \in Nat /\ putx + len <= Size
  BY <1>2, <1>3
<1>5. f = [seq |-> ByteSeq(n), len |-> len]
  <2>1. (n + len - 1) - n + 1 = len
    BY <1>2
  <2> QED
    BY <2>1 DEF Frag
<1>6. f \in Fragments /\ Lo(f) = n /\ Hi(f) = n + len - 1
  <2> DEFINE e == n + len - 1
  <2>1. e \in Nat /\ n <= e /\ e < Total
    BY <1>2, Sizes
  <2> HIDE DEF e
  <2>2. Frag(n, e) \in Fragments /\ Lo(Frag(n, e)) = n /\ Hi(Frag(n, e)) = e
    BY <1>2, <2>1, FragmentOf
  <2> QED
    BY <2>2 DEF e
<1>7. RBPut(b, n, len) = Merged(d)
  BY <1>3, <1>5 DEF RBPut, Linked
<1> HIDE DEF f, putx
<1>8. /\ c \in Buffers /\ c.merged_len = b.merged_len /\ c.cum_len = b.cum_len
      /\ c.head_seq = b.head_seq /\ c.fctx = b.fctx
      /\ c.head_offset + (putx + len) <= Size
      /\ c.head_offset + b.last_len <= c.tail_offset
  <2> DEFINE e == putx + len
  <2> HIDE DEF e
  <2>1. e \in Nat /\ e <= Size
    BY <1>4 DEF e
  <2> HIDE DEF h
  <2>2. /\ MoveToFront(b, e) \in Buffers
        /\ MoveToFront(b, e).merged_len = b.merged_len
        /\ MoveToFront(b, e).cum_len = b.cum_len
        /\ MoveToFront(b, e).head_seq = b.head_seq
        /\ MoveToFront(b, e).fctx = b.fctx
        /\ MoveToFront(b, e).head_offset + e <= Size
        /\ MoveToFront(b, e).head_offset + b.last_len <= MoveToFront(b, e).tail_offset
    BY <1>1, <2>1, MoveFacts
  <2> QED
    BY <2>2 DEF e
<1> HIDE DEF c
<1>9. /\ s \in Buffers /\ s.merged_len = b.merged_len /\ s.cum_len = b.cum_len
      /\ s.head_seq = b.head_seq /\ s.fctx = b.fctx
      /\ s.head_offset = c.head_offset
      /\ s.tail_offset >= c.tail_offset
      /\ s.tail_offset >= c.head_offset + (putx + len)
  BY <1>2, <1>4, <1>8, StoreFacts
<1> HIDE DEF s
<1>10. /\ s.head_offset \in Nat /\ s.tail_offset \in Nat /\ c.tail_offset \in Nat
       /\ s.head_offset + b.last_len <= s.tail_offset
       /\ s.head_offset + (putx + len) <= s.tail_offset
       /\ s.head_offset <= s.tail_offset
  <2>1. /\ s.head_offset \in Nat /\ s.tail_offset \in Nat
        /\ c.tail_offset \in Nat /\ c.head_offset \in Nat
    BY <1>8, <1>9, BufferTypes
  <2> QED
    BY <1>2, <1>4, <1>8, <1>9, <2>1
<1>11. /\ RunsOf(InsertFragment(b.fctx, f), Kept(b, arr) \cup (n .. n + len - 1))
       /\ InsertsInOrder(b.fctx, f)
  BY <1>1, <1>6, InsertRuns
<1>12. InsertFragment(s.fctx, f) \in Seq(Fragments)
  BY <1>9, <1>11 DEF RunsOf
<1>13. /\ d \in Buffers /\ d.merged_len = b.merged_len /\ d.cum_len = b.cum_len
       /\ d.head_offset = s.head_offset /\ d.tail_offset = s.tail_offset
       /\ d.head_seq = b.head_seq
       /\ d.last_len = s.tail_offset - s.head_offset
       /\ d.fctx = InsertFragment(b.fctx, f)
  BY <1>9, <1>10, <1>12, LinkedFacts
<1> HIDE DEF d
<1>14. HeadOf(d) = h
  BY <1>13 DEF HeadOf
<1>15. Kept(d, arr2) = Kept(b, arr) \cup (n .. n + len - 1)
  <2>1. \A k \in n .. n + len - 1 : k >= h
    BY <1>2, <1>3
  <2> QED
    BY <1>14, <2>1 DEF Kept
<1>16. arr2 \subseteq 0 .. Total - 1
  <2>1. n .. n + len - 1 \subseteq 0 .. Total - 1
    BY <1>2, Sizes
  <2> QED
    BY <1>1, <2>1
<1>17. ASSUME NEW k \in Kept(d, arr2) PROVE k < HeadOf(d) + d.last_len
  <2>1. k \in Int /\ d.last_len \in Nat /\ b.last_len <= d.last_len
        /\ putx + len <= d.last_len
    <3>1. k \in Nat
      BY <1>16, KeptBytes
    <3> QED
      BY <1>2, <1>4, <1>10, <1>13, <3>1
  <2>2. CASE k \in Kept(b, arr)
    <3>1. k < h + b.last_len
      BY <1>1, <2>2
    <3> HIDE DEF h
    <3> QED
      BY <1>2, <1>14, <2>1, <3>1
  <2>3. CASE k \in n .. n + len - 1
    <3>1. k < h + (putx + len)
      <4> HIDE DEF h
      <4> QED
        BY <1>2, <1>3, <2>3 DEF putx
    <3> HIDE DEF h
    <3> QED
      BY <1>2, <1>4, <1>14, <2>1, <3>1
  <2> QED
    BY <1>15, <2>2, <2>3
<1>18. d.head_offset + d.last_len <= d.tail_offset
  BY <1>10, <1>13
<1>19. StoredBuffer(d, arr2)
  BY <1>11, <1>13, <1>15, <1>16, <1>17, <1>18 DEF StoredBuffer
<1>20. d.fctx # <<>>
  <2>1. n \in Kept(d, arr2)
    <3>1. n \in n .. n + len - 1
      BY <1>2
    <3> QED
      BY <1>15, <3>1
  <2>2. \E i \in 1 .. Len(d.fctx) : TRUE
    BY <1>2, <1>19, <2>1 DEF StoredBuffer, RunsOf
  <2>3. Len(<<>>) = 0
    OBVIOUS
  <2> QED
    BY <2>2, <2>3
<1>21. HeadOf(d) + d.merged_len = d.cum_len /\ 0 .. d.cum_len - 1 \subseteq arr2
  BY <1>1, <1>13, <1>14
<1>22. GoodBuffer(Merged(d), arr2)
  BY <1>19, <1>20, <1>21, MergedGood
<1> QED
  BY <1>5, <1>7, <1>11, <1>22
\* The list without the first len bytes of its first run.
Shortened(list, len) ==
    IF len = list[1].len
    THEN Tail(list)
    ELSE [list EXCEPT ![1] = [seq |-> (list[1].seq + len) % SeqSpace,
                              len |-> list[1].len - len]]

LEMMA ShortenedRuns ==
    ASSUME NEW list, NEW S, RunsOf(list, S), list # <<>>,
           NEW len \in Nat, len > 0, len <= list[1].len
    PROVE  RunsOf(Shortened(list, len), {n \in S : n >= Lo(list[1]) + len})
<1>1. /\ list \in Seq(Fragments)
      /\ \A i, j \in 1 .. Len(list) : i < j => Hi(list[i]) + 1 < Lo(list[j])
      /\ \A n \in Nat : n \in S <=>
            \E i \in 1 .. Len(list) : Lo(list[i]) <= n /\ n <= Hi(list[i])
  BY DEF RunsOf
<1>2. /\ Len(list) \in Nat /\ \A j \in 1 .. Len(list) : list[j] \in Fragments
      /\ 1 \in 1 .. Len(list)
  BY <1>1, LenProperties, ElementOfSeq, EmptySeq
<1>3. \A j \in 1 .. Len(list) :
        Lo(list[j]) \in Nat /\ Hi(list[j]) \in Nat /\ Lo(list[j]) <= Hi(list[j])
  BY <1>2, FragmentForm
<1> DEFINE f == list[1]
           new == Shortened(list, len)
<1>4. /\ f \in Fragments /\ f.len = Hi(f) - Lo(f) + 1 /\ f.seq = ByteSeq(Lo(f))
      /\ Lo(f) \in Nat /\ Hi(f) \in Nat /\ Hi(f) < Total
  BY <1>2, FragmentForm
<1>5. CASE len = f.len
  <2>1. new = Tail(list)
    BY <1>5 DEF Shortened
  <2>2. /\ new \in Seq(Fragments) /\ Len(new) = Len(list) - 1
        /\ \A i \in 1 .. Len(new) : new[i] = list[i + 1]
    BY <1>1, <2>1, HeadTailProperties
  <2> HIDE DEF new
  <2>3. \A i \in 1 .. Len(new) : i + 1 \in 1 .. Len(list) /\ 1 < i + 1
    BY <1>2, <2>2
  <2>4. ASSUME NEW i \in 1 .. Len(new), NEW j \in 1 .. Len(new), i < j
        PROVE  Hi(new[i]) + 1 < Lo(new[j])
    <3>1. i + 1 < j + 1 /\ i + 1 \in 1 .. Len(list) /\ j + 1 \in 1 .. Len(list)
      BY <2>3, <2>4
    <3> QED
      BY <1>1, <2>2, <3>1
  <2>5. Lo(f) + len = Hi(f) + 1
    BY <1>4, <1>5
  <2>6. ASSUME NEW n \in Nat, n \in S, n >= Lo(f) + len
        PROVE  \E i \in 1 .. Len(new) : Lo(new[i]) <= n /\ n <= Hi(new[i])
    <3>1. PICK j \in 1 .. Len(list) : Lo(list[j]) <= n /\ n <= Hi(list[j])
      BY <1>1, <2>6
    <3>2. j # 1
      BY <1>4, <2>5, <2>6, <3>1
    <3> DEFINE i == j - 1
    <3>3. i \in 1 .. Len(new) /\ i + 1 = j
      BY <1>2, <2>2, <3>2
    <3> HIDE DEF i
    <3>4. new[i] = list[j]
      BY <2>2, <3>3
    <3> QED
      BY <3>1, <3>3, <3>4
  <2>7. ASSUME NEW n \in Nat, NEW i \in 1 .. Len(new), Lo(new[i]) <= n, n <= Hi(new[i])
        PROVE  n \in S /\ n >= Lo(f) + len
    <3>1. new[i] = list[i + 1] /\ i + 1 \in 1 .. Len(list) /\ 1 < i + 1
      BY <2>2, <2>3
    <3>2. Hi(f) + 1 < Lo(list[i + 1])
      BY <1>1, <1>2, <3>1
    <3>3. n \in S
      BY <1>1, <2>7, <3>1
    <3> QED
      BY <1>3, <1>4, <2>5, <2>7, <3>1, <3>2, <3>3
  <2>8. RunsOf(new, {n \in S : n >= Lo(f) + len})
    BY <2>2, <2>4, <2>6, <2>7 DEF RunsOf
  <2> QED
    BY <2>8 DEF new
<1>6. CASE len # f.len
  <2> DEFINE a == Lo(f) + len
             g == Frag(a, Hi(f))
  <2>1. a \in Nat /\ a <= Hi(f) /\ f.len - len = Hi(f) - a + 1
    BY <1>4, <1>6
  <2>2. g \in Fragments /\ Lo(g) = a /\ Hi(g) = Hi(f)
    BY <1>4, <2>1, FragmentOf
  <2>3. (f.seq + len) % SeqSpace = ByteSeq(a)
    <3>1. Lo(f) \in Near /\ a \in Near
      BY <1>4, <2>1, Sizes DEF Near
    <3> QED
      BY <1>4, <3>1, SeqShift
  <2>4. new = [list EXCEPT ![1] = g]
    BY <1>6, <2>1, <2>3 DEF Shortened, Frag
  <2> HIDE DEF g, a
  <2>5. /\ new \in Seq(Fragments) /\ Len(new) = Len(list)
        /\ \A i \in 1 .. Len(list) : new[i] = IF i = 1 THEN g ELSE list[i]
    <3> HIDE DEF new
    <3> QED
      BY <1>1, <1>2, <2>2, <2>4, ExceptSeq
  <2> HIDE DEF new
  <2>6. /\ \A i \in 1 .. Len(list) : Hi(new[i]) = Hi(list[i])
        /\ \A i \in 1 .. Len(list) : i # 1 => Lo(new[i]) = Lo(list[i])
        /\ Lo(new[1]) = a
    BY <1>2, <2>2, <2>5
  <2>7. ASSUME NEW i \in 1 .. Len(new), NEW j \in 1 .. Len(new), i < j
        PROVE  Hi(new[i]) + 1 < Lo(new[j])
    <3>1. i \in 1 .. Len(list) /\ j \in 1 .. Len(list) /\ j # 1
      BY <2>5, <2>7
    <3> QED
      BY <1>1, <2>6, <2>7, <3>1
  <2>8. ASSUME NEW n \in Nat, n \in S, n >= a
        PROVE  \E i \in 1 .. Len(new) : Lo(new[i]) <= n /\ n <= Hi(new[i])
    <3>1. PICK j \in 1 .. Len(list) : Lo(list[j]) <= n /\ n <= Hi(list[j])
      BY <1>1, <2>8
    <3>2. Lo(new[j]) <= n /\ n <= Hi(new[j])
      BY <2>1, <2>6, <2>8, <3>1
    <3> QED
      BY <2>5, <3>2
  <2>9. ASSUME NEW n \in Nat, NEW i \in 1 .. Len(new), Lo(new[i]) <= n, n <= Hi(new[i])
        PROVE  n \in S /\ n >= a
    <3>1. i \in 1 .. Len(list)
      BY <2>5
    <3>2. CASE i = 1
      <4>1. a <= n /\ n <= Hi(f) /\ Lo(f) <= n
        BY <1>4, <2>1, <2>2, <2>5, <2>6, <2>9, <3>1, <3>2 DEF a
      <4> QED
        BY <1>1, <1>2, <2>1, <4>1
    <3>3. CASE i # 1
      <4>1. Lo(list[i]) <= n /\ n <= Hi(list[i]) /\ 1 < i
        BY <2>6, <2>9, <3>1, <3>3
      <4>2. Hi(f) + 1 < Lo(list[i]) /\ n \in S
        BY <1>1, <1>2, <3>1, <4>1
      <4> QED
        BY <1>3, <1>4, <2>1, <3>1, <4>1, <4>2
    <3> QED
      BY <3>2, <3>3
  <2>10. RunsOf(new, {n \in S : n >= a})
    BY <2>5, <2>7, <2>8, <2>9 DEF RunsOf
  <2> QED
    BY <2>10 DEF a, new
<1> QED
  BY <1>5, <1>6

LEMMA RemoveGood ==
    ASSUME NEW b, NEW arr, GoodBuffer(b, arr), NEW len \in Nat, len <= b.merged_len
    PROVE  /\ GoodBuffer(RBRemove(b, len), arr)
           /\ RBRemove(b, len).cum_len = b.cum_len
           /\ RBRemove(b, len).merged_len = b.merged_len - len
           /\ len > 0 => Head(b.fctx).len = b.merged_len
<1>1. /\ b \in Buffers /\ b.head_offset + b.last_len <= b.tail_offset
      /\ arr \subseteq 0 .. Total - 1
      /\ HeadOf(b) + b.merged_len = b.cum_len
      /\ 0 .. b.cum_len - 1 \subseteq arr /\ b.cum_len \notin arr
      /\ RunsOf(b.fctx, Kept(b, arr))
      /\ \A k \in Kept(b, arr) : k < HeadOf(b) + b.last_len
  BY DEF GoodBuffer
<1>2. /\ b.head_offset \in Nat /\ b.last_len \in Nat /\ b.merged_len \in Nat
      /\ b.cum_len \in Nat /\ b.tail_offset \in Nat /\ HeadOf(b) \in Nat
      /\ b.fctx \in Seq(Fragments)
  BY <1>1, BufferTypes
<1>3. CASE len = 0
  <2>1. RBRemove(b, len) = b
    BY <1>3 DEF RBRemove
  <2> QED
    BY <1>2, <1>3, <2>1
<1>4. CASE len > 0
  <2> DEFINE h == HeadOf(b)
             F == Shortened(b.fctx, len)
             q == (b.head_seq + len) % SeqSpace
             m == b.merged_len - len
             l == b.last_len - len
             d == [b EXCEPT !.head_offset = len, !.head_seq = q, !.merged_len = m,
                            !.last_len = l, !.fctx = F]
  <2>1. /\ h \in Near /\ b.head_seq = ByteSeq(h) /\ b.cum_len \in 0 .. Total
        /\ b.merged_len <= b.last_len
        /\ b.fctx # <<>> /\ Head(b.fctx) = b.fctx[1]
        /\ Lo(b.fctx[1]) = h /\ b.fctx[1].len = b.merged_len
    BY <1>2, <1>4, GoodFacts
  <2>2. RBRemove(b, len) = d
    <3> DEFINE p == Head(b.fctx)
               T == IF len = p.len
                    THEN Tail(b.fctx)
                    ELSE [b.fctx EXCEPT ![1] = [seq |-> (p.seq + len) % SeqSpace,
                                                len |-> p.len - len]]
    <3>1. F = T
      <4>1. p = b.fctx[1]
        BY <2>1
      <4> HIDE DEF p
      <4> QED
        BY <4>1, Zenon DEF Shortened
    <3>2. len # 0
      BY <1>4
    <3>3. RBRemove(b, len) =
            [b EXCEPT !.head_offset = len, !.head_seq = q, !.merged_len = m,
                      !.last_len = l, !.fctx = T]
      BY <3>2, Zenon DEF RBRemove
    <3> HIDE DEF T, F
    <3> QED
      BY <3>1, <3>3, Zenon
  <2>3. q = ByteSeq(h + len) /\ h + len \in Near
    <3>1. h + len \in Near /\ h \in Near
      BY <1>1, <1>2, <2>1, Sizes, SMTT(40) DEF Near
    <3> QED
      BY <2>1, <3>1, SeqShift
  <2>4. q \in 0 .. SeqSpace - 1 /\ (q - InitSeq) % SeqSpace = h + len
    BY <2>3, ByteSeqs
  <2>5. RunsOf(F, {n \in Kept(b, arr) : n >= h + len})
    BY <1>1, <1>4, <2>1, ShortenedRuns
  <2>6. F \in Seq(Fragments) /\ m \in Nat /\ l \in Nat
    BY <1>2, <2>1, <2>5 DEF RunsOf
  <2> HIDE DEF F, q, m, l
  <2>7. d \in Buffers
    BY <1>1, <2>4, <2>6, Zenon DEF Buffers
  <2>8. /\ d.head_offset = len /\ d.head_seq = q /\ d.merged_len = m
        /\ d.last_len = l /\ d.fctx = F /\ d.cum_len = b.cum_len
        /\ d.tail_offset = b.tail_offset
    BY <1>1 DEF Buffers
  <2> HIDE DEF d
  <2>9. HeadOf(d) = h + len
    BY <2>4, <2>8 DEF HeadOf
  <2>10. Kept(d, arr) = {n \in Kept(b, arr) : n >= h + len}
    <3>1. \A n \in arr : n \in Int
      BY <1>1, Sizes
    <3>2. \A n \in arr : n >= h + len => n >= h
      BY <1>2, <3>1
    <3> QED
      BY <2>9, <3>2 DEF Kept
  <2>11. ASSUME NEW n \in Kept(d, arr) PROVE n < HeadOf(d) + d.last_len
    <3>1. n \in Kept(b, arr) /\ n \in Nat
      BY <1>1, <2>10, KeptBytes
    <3>2. n < h + b.last_len
      BY <1>1, <3>1
    <3> HIDE DEF h
    <3>3. h \in Nat
      BY <1>2 DEF h
    <3> QED
      BY <1>2, <2>8, <2>9, <3>1, <3>2, <3>3 DEF l
  <2>12. d.head_offset + d.last_len <= d.tail_offset
    BY <1>1, <1>2, <2>8 DEF l
  <2>13. HeadOf(d) + d.merged_len = d.cum_len
    BY <1>1, <1>2, <2>8, <2>9 DEF m
  <2>14. GoodBuffer(d, arr)
    BY <1>1, <2>5, <2>7, <2>8, <2>10, <2>11, <2>12, <2>13 DEF GoodBuffer
  <2> QED
    BY <2>1, <2>2, <2>8, <2>14 DEF m
<1> QED
  BY <1>3, <1>4
-----------------------------------------------------------------------------
(* The invariant.                                                           *)

\* The empty buffer of a new stream has taken in nothing.
LEMMA InitGood == GoodBuffer(RBInit, {}) /\ ByteSeq(0) = InitSeq
<1> DEFINE b == RBInit
           D == [k \in 0 .. Size - 1 |-> None]
<1>1. 0 \in Near /\ 0 \in Nat /\ 0 \in 0 .. Size
  BY Sizes DEF Near
<1>2. ByteSeq(0) = InitSeq
  <2>1. /\ ByteSeq(0) \in 0 .. SeqSpace - 1
        /\ ByteSeq(0) = InitSeq + 0 \/ ByteSeq(0) = InitSeq + 0 - SeqSpace
    BY <1>1, ByteSeqs
  <2> QED
    BY <2>1, Sizes
<1>3. D \in [0 .. Size - 1 -> None .. Total - 1]
  <2>1. None \in None .. Total - 1
    BY Sizes DEF None
  <2> QED
    BY <2>1
<1>4. <<>> \in Seq(Fragments) /\ Len(<<>>) = 0
  OBVIOUS
<1>5. InitSeq \in 0 .. SeqSpace - 1
  BY SizesAssumption
<1>6. /\ b.head_offset = 0 /\ b.tail_offset = 0 /\ b.merged_len = 0 /\ b.cum_len = 0
      /\ b.last_len = 0 /\ b.head_seq = InitSeq /\ b.fctx = <<>>
  BY DEF RBInit
<1>7. b \in Buffers
  <2> HIDE DEF D
  <2>1. b = [head_offset |-> 0, tail_offset |-> 0, merged_len |-> 0, cum_len |-> 0,
             last_len |-> 0, head_seq |-> InitSeq, fctx |-> <<>>, data |-> D]
    BY DEF RBInit, D
  <2> HIDE DEF b
  <2> QED
    BY <1>1, <1>3, <1>4, <1>5, <2>1 DEF Buffers
<1> HIDE DEF b, D
<1>8. HeadOf(b) = 0
  <2>1. (ByteSeq(0) - InitSeq) % SeqSpace = 0
    BY <1>1, ByteSeqs
  <2> QED
    BY <1>2, <1>6, <2>1 DEF HeadOf
<1>9. Kept(b, {}) = {}
  BY DEF Kept
<1>10. RunsOf(b.fctx, Kept(b, {}))
  <2>1. 1 .. Len(<<>>) = {}
    BY <1>4
  <2> QED
    BY <1>4, <1>6, <1>9, <2>1, Zenon DEF RunsOf
<1>11. 0 .. 0 - 1 \subseteq {}
  OBVIOUS
<1>12. GoodBuffer(b, {})
  BY <1>6, <1>7, <1>8, <1>9, <1>10, <1>11 DEF GoodBuffer
<1> QED
  BY <1>2, <1>12 DEF b

\* What is missing first, as the buffer counts it.
LEMMA NextByte ==
    ASSUME NEW b, NEW arr, GoodBuffer(b, arr)
    PROVE  (b.head_seq + b.merged_len) % SeqSpace = ByteSeq(b.cum_len)
<1> DEFINE h == HeadOf(b)
<1>1. /\ h \in Near /\ b.head_seq = ByteSeq(h)
      /\ b.cum_len \in 0 .. Total /\ h + b.merged_len = b.cum_len
  BY GoodFacts
<1>2. b.merged_len \in Int
  BY BufferTypes DEF GoodBuffer
<1>3. h + b.merged_len \in Near
  BY <1>1, Sizes DEF Near
<1> HIDE DEF h
<1>4. (ByteSeq(h) + b.merged_len) % SeqSpace = ByteSeq(h + b.merged_len)
  BY <1>1, <1>2, <1>3, SeqShift
<1> QED
  BY <1>1, <1>4

LEMMA InitInv == Init => Inv
<1> SUFFICES ASSUME Init PROVE Inv
  OBVIOUS
<1>1. GoodBuffer(buff, arrived) /\ ByteSeq(0) = InitSeq
  BY InitGood DEF Init
<1>2. buff.cum_len = 0
  BY DEF Init, RBInit
<1>3. read \in Seq(None .. Total - 1)
  BY DEF Init
<1>4. rcv_nxt = ByteSeq(buff.cum_len)
  BY <1>1, <1>2 DEF Init
<1>5. arrived = {} /\ rcv_wnd = InitialWnd
  BY DEF Init
<1>6. /\ state \in {"ESTABLISHED", "CLOSE_WAIT", "FIN_WAIT"}
      /\ signal \in BOOLEAN
      /\ app \in {"idle", "recv", "waiting", "eof", "closed"}
      /\ abort = FALSE
  BY DEF Init
<1> QED
  BY <1>1, <1>3, <1>4, <1>5, <1>6 DEF Inv

\* A segment: RBPut takes it in or drops it, and after close the bytes that are
\* complete are thrown away at once.
LEMMA PayloadStep ==
    ASSUME Inv, NEW n \in 0 .. Total - 1, NEW len \in 1 .. MaxSegLen,
           n + len <= Total, process_payload(n, len)
    PROVE  Inv'
<1> DEFINE put == RBPut(buff, n, len)
           b == IF state = "FIN_WAIT" THEN RBRemove(put, put.merged_len) ELSE put
           arr == IF RBDrops(buff, n, len)
                  THEN arrived ELSE arrived \cup (n .. n + len - 1)
           nxt == (b.head_seq + b.merged_len) % SeqSpace
           orders == InsertsInOrder(buff.fctx, [seq |-> ByteSeq(n), len |-> len])
<1>1. GoodBuffer(buff, arrived)
  BY DEF Inv
<1>2. len \in Nat /\ len > 0
  BY Sizes
<1>3. GoodBuffer(put, arr) /\ (RBDrops(buff, n, len) \/ orders)
  <2>1. CASE RBDrops(buff, n, len)
    <3>1. put = buff /\ arr = arrived
      BY <2>1 DEF RBPut
    <3> QED
      BY <1>1, <2>1, <3>1
  <2>2. CASE ~ RBDrops(buff, n, len)
    <3>1. arr = arrived \cup (n .. n + len - 1)
      BY <2>2
    <3>2. GoodBuffer(put, arrived \cup (n .. n + len - 1)) /\ orders
      BY <1>1, <1>2, <2>2, PutGood
    <3> HIDE DEF arr, put, orders
    <3> QED
      BY <3>1, <3>2
  <2> QED
    BY <2>1, <2>2
<1>4. GoodBuffer(b, arr)
  <2> HIDE DEF put, arr
  <2>1. put.merged_len \in Nat /\ put.merged_len <= put.merged_len
    BY <1>3, BufferTypes DEF GoodBuffer
  <2>2. GoodBuffer(RBRemove(put, put.merged_len), arr)
    BY <1>3, <2>1, RemoveGood
  <2> QED
    BY <1>3, <2>2
<1>5. /\ buff' = b /\ rcv_nxt' = nxt /\ rcv_wnd' = Window(b) /\ arrived' = arr
      /\ abort' = ~ (RBDrops(buff, n, len) \/ orders)
      /\ UNCHANGED <<state, app, read>>
  BY DEF process_payload
<1>6. signal' \in BOOLEAN
  BY DEF process_payload
<1> HIDE DEF b, arr, orders
<1>7. abort' = FALSE
  BY <1>3, <1>5
<1>8. rcv_nxt' = ByteSeq(b.cum_len)
  BY <1>4, <1>5, NextByte
<1>9. GoodBuffer(buff, arrived)' /\ (rcv_nxt = ByteSeq(buff.cum_len))'
        /\ (rcv_wnd = Window(buff))'
  BY <1>4, <1>5, <1>8 DEF GoodBuffer, Window, RunsOf, Kept, HeadOf, ByteSeq
<1>10. /\ (state \in {"ESTABLISHED", "CLOSE_WAIT", "FIN_WAIT"})'
       /\ (app \in {"idle", "recv", "waiting", "eof", "closed"})'
       /\ (read \in Seq(None .. Total - 1))'
  BY <1>5 DEF Inv
<1> QED
  BY <1>6, <1>7, <1>9, <1>10 DEF Inv

\* The FIN counts for one sequence number, after the last byte.
LEMMA FinStep ==
    ASSUME Inv, handle_fin
    PROVE  Inv'
<1> DEFINE c == buff.cum_len
<1>1. GoodBuffer(buff, arrived) /\ state = "ESTABLISHED" /\ rcv_nxt = ByteSeq(Total)
  BY DEF Inv, handle_fin
<1>2. c \in 0 .. Total
  BY <1>1, GoodFacts
<1>3. rcv_nxt = ByteSeq(c)
  BY <1>1 DEF Inv
<1>4. c \in Near /\ Total \in Near /\ Total + 1 \in Near
  BY <1>2, Sizes DEF Near
<1>5. c = Total
  BY <1>1, <1>3, <1>4, SeqOrder
<1>6. (ByteSeq(Total) + 1) % SeqSpace = ByteSeq(Total + 1)
  BY <1>4, SeqShift
<1>7. rcv_nxt' = ByteSeq(c + 1) /\ state' = "CLOSE_WAIT" /\ signal' = TRUE
  BY <1>1, <1>5, <1>6 DEF handle_fin
<1>8. UNCHANGED <<buff, rcv_wnd, app, arrived, read, abort>>
  BY DEF handle_fin
<1>9. GoodBuffer(buff, arrived)'
  BY <1>1, <1>8 DEF GoodBuffer, RunsOf, Kept, HeadOf
<1> QED
  BY <1>5, <1>7, <1>8, <1>9 DEF Inv, Window, ByteSeq

\* recv copies from inside the chunk and removes no more than what is merged.
LEMMA CopyStep ==
    ASSUME Inv, NEW len \in 1 .. MaxSegLen, copy_to_user(len)
    PROVE  Inv'
<1> DEFINE copylen == IF buff.merged_len < len THEN buff.merged_len ELSE len
           copied == [k \in 1 .. copylen |-> buff.data[buff.head_offset + k - 1]]
           b == RBRemove(buff, copylen)
<1>1. GoodBuffer(buff, arrived) /\ buff.merged_len > 0
  BY DEF Inv, copy_to_user
<1>2. /\ buff \in Buffers /\ buff.merged_len \in Nat /\ buff.head_offset \in Nat
      /\ buff.last_len \in Nat /\ buff.tail_offset \in Nat /\ buff.tail_offset <= Size
      /\ buff.data \in [0 .. Size - 1 -> None .. Total - 1]
      /\ buff.head_offset + buff.last_len <= buff.tail_offset
  BY <1>1, BufferTypes DEF GoodBuffer
<1>3. copylen \in Nat /\ copylen > 0 /\ copylen <= buff.merged_len
  BY <1>1, <1>2, Sizes
<1>4. buff.merged_len <= buff.last_len
  BY <1>1, GoodFacts
<1>5. /\ read' = read \o copied
      /\ abort' = (copylen > Head(buff.fctx).len)
      /\ buff' = b
      /\ rcv_wnd' = Window(buff')
      /\ app' = "idle"
      /\ UNCHANGED <<rcv_nxt, state, signal, arrived>>
  BY DEF copy_to_user
<1> HIDE DEF copylen
<1>6. copied \in Seq(None .. Total - 1)
  <2>1. ASSUME NEW k \in 1 .. copylen
        PROVE  buff.data[buff.head_offset + k - 1] \in None .. Total - 1
    <3>1. k \in Int /\ 1 <= k /\ k <= buff.last_len
      BY <1>2, <1>3, <1>4
    <3>2. 0 <= buff.head_offset + k - 1 /\ buff.head_offset + k <= Size
      BY <1>2, <3>1, Sizes
    <3>3. buff.head_offset + k - 1 \in 0 .. Size - 1
      BY <1>2, <3>1, <3>2, Sizes
    <3> QED
      BY <1>2, <3>3
  <2>2. copied \in [1 .. copylen -> None .. Total - 1]
    BY <2>1
  <2> HIDE DEF copied
  <2> QED
    BY <1>3, <2>2, SeqDef
<1> HIDE DEF copied, b
<1>7. (read \in Seq(None .. Total - 1))'
  <2>1. read \in Seq(None .. Total - 1)
    BY DEF Inv
  <2> QED
    BY <1>5, <1>6, <2>1, ConcatProperties
<1>8. /\ GoodBuffer(b, arrived) /\ b.cum_len = buff.cum_len
      /\ Head(buff.fctx).len = buff.merged_len
  BY <1>1, <1>3, RemoveGood DEF b
<1>9. abort' = FALSE
  <2> DEFINE over == copylen > Head(buff.fctx).len
  <2>1. abort' = over /\ over \in BOOLEAN
    BY <1>5
  <2>2. ~ over
    BY <1>2, <1>3, <1>8
  <2> HIDE DEF over
  <2> QED
    BY <2>1, <2>2
<1>10. GoodBuffer(buff, arrived)'
  BY <1>5, <1>8 DEF GoodBuffer, RunsOf, Kept, HeadOf
<1>11. rcv_wnd' = Window(buff')
  BY <1>5
<1>12. (buff.cum_len)' = buff.cum_len
  BY <1>5, <1>8
<1> QED
  BY <1>5, <1>7, <1>9, <1>10, <1>11, <1>12 DEF Inv, Window, ByteSeq

\* The other steps leave the buffer, the window and rcv_nxt alone.
LEMMA OtherStep ==
    ASSUME Inv, UNCHANGED <<buff, rcv_nxt, rcv_wnd, arrived, read, abort>>,
           signal' \in BOOLEAN,
           state' \in {"ESTABLISHED", "CLOSE_WAIT", "FIN_WAIT"},
           state = "CLOSE_WAIT" => state' = "CLOSE_WAIT",
           app' \in {"idle", "recv", "waiting", "eof", "closed"}
    PROVE  Inv'
<1>1. GoodBuffer(buff, arrived)'
  BY DEF Inv, GoodBuffer, RunsOf, Kept, HeadOf
<1> QED
  BY <1>1 DEF Inv, Window, ByteSeq

LEMMA NextInv == Inv /\ [Next]_vars => Inv'
<1> SUFFICES ASSUME Inv, [Next]_vars PROVE Inv'
  OBVIOUS
<1>1. /\ state \in {"ESTABLISHED", "CLOSE_WAIT", "FIN_WAIT"} /\ signal \in BOOLEAN
      /\ app \in {"idle", "recv", "waiting", "eof", "closed"}
  BY DEF Inv
<1>2. ASSUME NEW n \in 0 .. Total - 1, NEW len \in 1 .. MaxSegLen,
             n + len <= Total, process_payload(n, len)
      PROVE  Inv'
  BY <1>2, PayloadStep
<1>3. CASE handle_fin
  BY <1>3, FinStep
<1>4. CASE flush_read_event
  BY <1>1, <1>4, OtherStep DEF flush_read_event
<1>5. CASE process_rst
  BY <1>1, <1>5, OtherStep DEF process_rst
<1>6. CASE handle_close
  BY <1>1, <1>6, OtherStep DEF handle_close
<1>7. CASE RecvCheck
  BY <1>1, <1>7, OtherStep DEF RecvCheck
<1>8. CASE RecvWait
  BY <1>1, <1>8, OtherStep DEF RecvWait
<1>9. ASSUME NEW len \in 1 .. MaxSegLen, copy_to_user(len)
      PROVE  Inv'
  BY <1>9, CopyStep
<1>10. CASE close
  BY <1>1, <1>10, OtherStep DEF close
<1>11. CASE UNCHANGED vars
  BY <1>1, <1>11, OtherStep DEF vars
<1> QED
  BY <1>2, <1>3, <1>4, <1>5, <1>6, <1>7, <1>8, <1>9, <1>10, <1>11
     DEF Next, Stack, Application

\* The buffer, the fragment list, rcv_nxt and the window are in step with what
\* has arrived in every state that RBPut, RBRemove and recv reach.
THEOREM RecvInductive == Spec => []Inv
<1>1. Init => Inv
  BY InitInv
<1>2. Inv /\ [Next]_vars => Inv'
  BY NextInv
<1> QED
  BY <1>1, <1>2, PTL DEF Spec
-----------------------------------------------------------------------------
(* What the runs check, for every value of the constants.                   *)

LEMMA InvHead == Inv => HeadByte = HeadOf(buff)
  BY DEF HeadByte, HeadOf

\* A fragment is no longer than the chunk.
LEMMA FragmentLengths ==
    ASSUME NEW b, NEW arr, GoodBuffer(b, arr), NEW i \in 1 .. Len(b.fctx)
    PROVE  b.fctx[i] \in [seq : 0 .. SeqSpace - 1, len : 1 .. Size]
<1> DEFINE f == b.fctx[i]
           h == HeadOf(b)
           K == Kept(b, arr)
<1>1. /\ b.fctx \in Seq(Fragments) /\ h \in Nat /\ b.last_len \in Nat
      /\ b.head_offset \in Nat /\ b.tail_offset \in Nat /\ b.tail_offset <= Size
      /\ b.head_offset + b.last_len <= b.tail_offset
  BY BufferTypes DEF GoodBuffer
<1>2. /\ f \in Fragments /\ arr \subseteq 0 .. Total - 1
      /\ \A n \in Nat : n \in K <=>
            \E j \in 1 .. Len(b.fctx) : Lo(b.fctx[j]) <= n /\ n <= Hi(b.fctx[j])
      /\ \A n \in K : n < h + b.last_len
  BY <1>1 DEF GoodBuffer, RunsOf
<1>3. Lo(f) \in Nat /\ Hi(f) \in Nat /\ Lo(f) <= Hi(f) /\ f.len = Hi(f) - Lo(f) + 1
  BY <1>2, FragmentForm
<1>4. Lo(f) <= Lo(f) /\ Hi(f) <= Hi(f)
  BY <1>3
<1>5. Lo(f) \in K /\ Hi(f) \in K
  BY <1>2, <1>3, <1>4
<1>6. h <= Lo(f)
  BY <1>1, <1>3, <1>5 DEF Kept
<1>7. Hi(f) < h + b.last_len
  BY <1>2, <1>5
<1> HIDE DEF h, K, f
<1>8. f.len \in 1 .. Size
  BY <1>1, <1>3, <1>6, <1>7, Sizes
<1>9. f.seq \in 0 .. SeqSpace - 1 /\ f = [seq |-> f.seq, len |-> f.len]
  BY <1>2 DEF Fragments
<1>10. f \in [seq : 0 .. SeqSpace - 1, len : 1 .. Size]
  BY <1>8, <1>9
<1> QED
  BY <1>10 DEF f

\* The variables have the types their declarations give them; no offset and no
\* length leaves the chunk.
THEOREM RecvTypeCorrect == Spec => []TypeOK
<1>1. Inv => TypeOK
  <2> SUFFICES ASSUME Inv PROVE TypeOK
    OBVIOUS
  <2>1. GoodBuffer(buff, arrived)
    BY DEF Inv
  <2>2. /\ buff.head_offset \in Nat /\ buff.merged_len \in Nat
        /\ buff.last_len \in Nat /\ buff.head_seq \in 0 .. SeqSpace - 1
        /\ buff.tail_offset \in 0 .. Size /\ buff.tail_offset \in Nat
        /\ buff.tail_offset <= Size /\ buff.fctx \in Seq(Fragments)
        /\ buff.data \in [0 .. Size - 1 -> None .. Total - 1]
        /\ buff.head_offset + buff.last_len <= buff.tail_offset
        /\ arrived \subseteq 0 .. Total - 1
    BY <2>1, BufferTypes DEF GoodBuffer
  <2>3. buff.cum_len \in 0 .. Total /\ buff.merged_len <= buff.last_len
    BY <2>1, GoodFacts
  <2>4. /\ buff.head_offset \in 0 .. Size /\ buff.last_len \in 0 .. Size
        /\ buff.merged_len \in 0 .. Size
    BY <2>2, <2>3, Sizes
  <2>5. buff.fctx \in Seq([seq : 0 .. SeqSpace - 1, len : 1 .. Size])
    <3> DEFINE T == [seq : 0 .. SeqSpace - 1, len : 1 .. Size]
    <3>1. \A i \in 1 .. Len(buff.fctx) : buff.fctx[i] \in T
      BY <2>1, FragmentLengths
    <3>2. Len(buff.fctx) \in Nat /\ buff.fctx = [i \in 1 .. Len(buff.fctx) |-> buff.fctx[i]]
      BY <2>2
    <3> HIDE DEF T
    <3>3. buff.fctx \in [1 .. Len(buff.fctx) -> T]
      BY <3>1, <3>2
    <3>4. buff.fctx \in Seq(T)
      BY <3>2, <3>3, SeqDef
    <3> QED
      BY <3>4 DEF T
  <2>6. rcv_nxt \in 0 .. SeqSpace - 1
    <3>1. buff.cum_len \in Near /\ buff.cum_len + 1 \in Near
      BY <2>3, Sizes DEF Near
    <3> QED
      BY <3>1, ByteSeqs DEF Inv
  <2>7. rcv_wnd \in 0 .. InitialWnd \cup 0 .. Size
    <3>1. CASE rcv_wnd = Window(buff)
      <4>1. Size - buff.merged_len \in 0 .. Size
        BY <2>4, Sizes
      <4> QED
        BY <3>1, <4>1 DEF Window
    <3>2. CASE rcv_wnd = InitialWnd
      <4>1. InitialWnd \in 0 .. InitialWnd
        BY Sizes
      <4> QED
        BY <3>2, <4>1
    <3> QED
      BY <3>1, <3>2 DEF Inv
  <2> QED
    BY <2>2, <2>3, <2>4, <2>5, <2>6, <2>7 DEF TypeOK, Inv
<1> QED
  BY <1>1, RecvInductive, PTL

\* What is acknowledged is what is stored: rcv_nxt, less the FIN it may count,
\* is the first byte missing, and everything before it was taken by recv or can
\* be.
THEOREM AckedIsStoredHolds == Spec => []AckedIsStored
<1>1. Inv => AckedIsStored
  <2> SUFFICES ASSUME Inv PROVE AckedIsStored
    OBVIOUS
  <2>1. GoodBuffer(buff, arrived)
    BY DEF Inv
  <2>2. /\ 0 .. buff.cum_len - 1 \subseteq arrived /\ buff.cum_len \notin arrived
        /\ HeadByte + buff.merged_len = buff.cum_len
    BY <2>1, InvHead DEF GoodBuffer
  <2>3. buff.cum_len \in 0 .. Total
    BY <2>1, GoodFacts
  <2>4. buff.cum_len \in Near /\ buff.cum_len + 1 \in Near /\ buff.cum_len # buff.cum_len + 1
    BY <2>3, Sizes DEF Near
  <2>5. ByteSeq(buff.cum_len) # ByteSeq(buff.cum_len + 1)
    BY <2>4, SeqOrder
  <2>6. /\ rcv_nxt \in {ByteSeq(buff.cum_len), ByteSeq(buff.cum_len + 1)}
        /\ rcv_nxt = ByteSeq(buff.cum_len + 1) =>
              state # "ESTABLISHED" /\ buff.cum_len = Total
    BY <2>5 DEF Inv
  <2> QED
    BY <2>2, <2>6 DEF AckedIsStored
<1> QED
  BY <1>1, RecvInductive, PTL

\* memmove in RBPut and memcpy in recv stay inside the chunk, and the assertions
\* of RBPut and RBRemove never fail.
THEOREM AccessInBoundsHolds == Spec => []AccessInBounds
<1>1. Inv => AccessInBounds
  <2> SUFFICES ASSUME Inv PROVE AccessInBounds
    OBVIOUS
  <2>1. GoodBuffer(buff, arrived) /\ abort = FALSE
    BY DEF Inv
  <2>2. /\ buff.head_offset \in Nat /\ buff.last_len \in Nat
        /\ buff.tail_offset \in Nat /\ buff.tail_offset <= Size
        /\ buff.head_offset + buff.last_len <= buff.tail_offset
    BY <2>1, BufferTypes DEF GoodBuffer
  <2>3. buff.merged_len <= buff.last_len
    BY <2>1, GoodFacts
  <2>4. buff.head_offset + buff.last_len <= Size /\ buff.head_offset <= buff.tail_offset
    BY <2>2, Sizes
  <2> QED
    BY <2>1, <2>3, <2>4 DEF AccessInBounds
<1> QED
  BY <1>1, RecvInductive, PTL

\* From the first payload on, a segment that ends in the window and does not
\* start before the head is stored: the window that process_payload and recv
\* advertise is never more than RBPut has room for.
THEOREM WindowFitsBufferHolds == Spec => []WindowFitsBuffer
<1>1. Inv => WindowFitsBuffer
  <2> SUFFICES ASSUME Inv, arrived # {}, state # "CLOSE_WAIT",
                      NEW n \in HeadByte .. Total - 1, NEW len \in 1 .. MaxSegLen,
                      InWindow(n, len)
               PROVE  ~ RBDrops(buff, n, len)
    BY DEF WindowFitsBuffer
  <2> DEFINE h == HeadOf(buff)
             c == buff.cum_len
             m == buff.merged_len
             e == n + len
             d == (ByteSeq(e) - ByteSeq(c)) % SeqSpace
  <2>1. /\ GoodBuffer(buff, arrived) /\ rcv_nxt = ByteSeq(c)
        /\ rcv_wnd = Size - m
    BY DEF Inv, Window
  <2>2. /\ h \in 0 .. Total /\ h \in Nat /\ c \in Nat /\ c <= Total /\ h + m = c
        /\ m <= buff.last_len
    BY <2>1, GoodFacts, Sizes
  <2>3. m \in Nat /\ m <= Size
    <3>1. /\ m \in Nat /\ buff.head_offset \in Nat /\ buff.last_len \in Nat
          /\ buff.tail_offset \in Nat /\ buff.tail_offset <= Size
          /\ buff.head_offset + buff.last_len <= buff.tail_offset
      BY <2>1, BufferTypes DEF GoodBuffer
    <3> HIDE DEF m, c, h, e, d
    <3> QED
      BY <2>2, <3>1, Sizes
  <2>4. HeadByte = h
    BY InvHead
  <2>5. d <= Size - m
    BY <2>1 DEF InWindow
  <2> HIDE DEF h, c, m, d
  <2>6. n \in 0 .. Total - 1 /\ n \in Nat /\ h <= n /\ len \in Nat
    BY <2>2, <2>4, Sizes
  <2>7. e \in Near /\ c \in Near /\ e \in Nat /\ e = n + len
    BY <2>2, <2>6, Sizes DEF Near
  <2> HIDE DEF e
  <2>8. c <= e => d = e - c
    BY <2>7, SeqDistance DEF d
  <2>9. n - h + len <= Size
    <3>1. CASE c <= e
      <4>1. e - c <= Size - m
        BY <2>5, <2>8, <3>1
      <4> QED
        BY <2>2, <2>3, <2>6, <2>7, <4>1, Sizes
    <3>2. CASE e < c
      BY <2>2, <2>3, <2>6, <2>7, <3>2, Sizes
    <3> QED
      BY <2>2, <2>7, <3>1, <3>2
  <2>10. RBDrops(buff, n, len) <=> n < h \/ Size < n - h + len
    BY <2>1, <2>6, DropsIff DEF h
  <2> QED
    BY <2>2, <2>6, <2>9, <2>10, Sizes
<1> QED
  BY <1>1, RecvInductive, PTL

\* A fragment of the list is a maximal run of the set, and every maximal run is
\* a fragment of the list.
LEMMA RunsAreMaximal ==
    ASSUME NEW list, NEW S, RunsOf(list, S), S \subseteq Nat
    PROVE  /\ \A i \in 1 .. Len(list) :
                 /\ Lo(list[i]) \in S /\ Hi(list[i]) \in S
                 /\ Lo(list[i]) .. Hi(list[i]) # {}
                 /\ Lo(list[i]) .. Hi(list[i]) \subseteq S
                 /\ Lo(list[i]) - 1 \notin S /\ Hi(list[i]) + 1 \notin S
           /\ \A a, b \in S :
                 /\ a .. b # {} /\ a .. b \subseteq S /\ a - 1 \notin S /\ b + 1 \notin S
                 => \E i \in 1 .. Len(list) : list[i] = Frag(a, b)
<1>1. /\ list \in Seq(Fragments)
      /\ \A i, j \in 1 .. Len(list) : i < j => Hi(list[i]) + 1 < Lo(list[j])
      /\ \A n \in Nat : n \in S <=>
            \E i \in 1 .. Len(list) : Lo(list[i]) <= n /\ n <= Hi(list[i])
  BY DEF RunsOf
<1>2. Len(list) \in Nat /\ \A j \in 1 .. Len(list) : list[j] \in Fragments
  BY <1>1, LenProperties, ElementOfSeq
<1>3. \A j \in 1 .. Len(list) :
        /\ Lo(list[j]) \in Nat /\ Hi(list[j]) \in Nat /\ Lo(list[j]) <= Hi(list[j])
        /\ list[j] = Frag(Lo(list[j]), Hi(list[j]))
  BY <1>2, FragmentForm
<1>4. ASSUME NEW i \in 1 .. Len(list)
      PROVE  /\ Lo(list[i]) \in S /\ Hi(list[i]) \in S
             /\ Lo(list[i]) .. Hi(list[i]) # {}
             /\ Lo(list[i]) .. Hi(list[i]) \subseteq S
             /\ Lo(list[i]) - 1 \notin S /\ Hi(list[i]) + 1 \notin S
  <2> DEFINE x == Lo(list[i])
             y == Hi(list[i])
  <2>1. x \in Nat /\ y \in Nat /\ x <= y
    BY <1>3
  <2>2. ASSUME NEW n \in x .. y PROVE n \in S
    <3>1. n \in Nat /\ Lo(list[i]) <= n /\ n <= Hi(list[i])
      BY <2>1
    <3> QED
      BY <1>1, <3>1
  <2>3. x \in x .. y /\ y \in x .. y
    BY <2>1
  <2>4. x - 1 \notin S
    <3> SUFFICES ASSUME x - 1 \in S PROVE FALSE
      OBVIOUS
    <3>1. x - 1 \in Nat
      OBVIOUS
    <3>2. PICK j \in 1 .. Len(list) : Lo(list[j]) <= x - 1 /\ x - 1 <= Hi(list[j])
      BY <1>1, <3>1
    <3>3. Lo(list[j]) \in Nat /\ Hi(list[j]) \in Nat
      BY <1>3
    <3>4. i < j => y + 1 < Lo(list[j])
      BY <1>1
    <3>5. j < i => Hi(list[j]) + 1 < x
      BY <1>1
    <3>6. i = j => Lo(list[j]) = x
      OBVIOUS
    <3>7. i < j \/ j < i \/ i = j
      BY <1>2
    <3> HIDE DEF x, y
    <3> QED
      BY <2>1, <3>2, <3>3, <3>4, <3>5, <3>6, <3>7
  <2>5. y + 1 \notin S
    <3> SUFFICES ASSUME y + 1 \in S PROVE FALSE
      OBVIOUS
    <3>1. y + 1 \in Nat
      OBVIOUS
    <3>2. PICK j \in 1 .. Len(list) : Lo(list[j]) <= y + 1 /\ y + 1 <= Hi(list[j])
      BY <1>1, <3>1
    <3>3. Lo(list[j]) \in Nat /\ Hi(list[j]) \in Nat
      BY <1>3
    <3>4. i < j => y + 1 < Lo(list[j])
      BY <1>1
    <3>5. j < i => Hi(list[j]) + 1 < x
      BY <1>1
    <3>6. i = j => Hi(list[j]) = y
      OBVIOUS
    <3>7. i < j \/ j < i \/ i = j
      BY <1>2
    <3> HIDE DEF x, y
    <3> QED
      BY <2>1, <3>2, <3>3, <3>4, <3>5, <3>6, <3>7
  <2> QED
    BY <2>2, <2>3, <2>4, <2>5
<1>5. ASSUME NEW a \in S, NEW b \in S, a .. b # {}, a .. b \subseteq S,
             a - 1 \notin S, b + 1 \notin S
      PROVE  \E i \in 1 .. Len(list) : list[i] = Frag(a, b)
  <2>1. a \in Nat /\ b \in Nat /\ a <= b
    BY <1>5
  <2>2. PICK i \in 1 .. Len(list) : Lo(list[i]) <= a /\ a <= Hi(list[i])
    BY <1>1, <2>1
  <2> DEFINE x == Lo(list[i])
             y == Hi(list[i])
  <2>3. /\ x \in Nat /\ y \in Nat /\ x <= y /\ x <= a /\ a <= y
        /\ list[i] = Frag(x, y) /\ x .. y \subseteq S /\ y + 1 \notin S
    BY <1>3, <1>4, <2>2
  <2> HIDE DEF x, y
  <2>4. x = a
    <3> SUFFICES ASSUME x < a PROVE FALSE
      BY <2>1, <2>3
    <3>1. a - 1 \in x .. y
      BY <2>1, <2>3
    <3> QED
      BY <1>5, <2>3, <3>1
  <2>5. ~ y < b
    <3> SUFFICES ASSUME y < b PROVE FALSE
      OBVIOUS
    <3>1. y + 1 \in a .. b
      BY <2>1, <2>3
    <3> QED
      BY <1>5, <2>3, <3>1
  <2>6. ~ b < y
    <3> SUFFICES ASSUME b < y PROVE FALSE
      OBVIOUS
    <3>1. b + 1 \in x .. y
      BY <2>1, <2>3
    <3> QED
      BY <1>5, <2>3, <3>1
  <2>7. y = b
    BY <2>1, <2>3, <2>5, <2>6
  <2> QED
    BY <2>3, <2>4, <2>7
<1> QED
  BY <1>4, <1>5

\* The fragment list is the maximal runs of what has arrived and was not taken,
\* in order, whatever the order of arrival, the overlaps of segments and the
\* place where the sequence numbers wrap.
THEOREM FragmentsAreRunsHolds == Spec => []FragmentsAreRuns
<1>1. Inv => FragmentsAreRuns
  <2> SUFFICES ASSUME Inv PROVE FragmentsAreRuns
    OBVIOUS
  <2> DEFINE list == buff.fctx
             K == Kept(buff, arrived)
             P(a, b) == /\ a .. b # {} /\ a .. b \subseteq K
                        /\ a - 1 \notin K /\ b + 1 \notin K
             R == {r \in K \X K : P(r[1], r[2])}
             T == {[seq |-> ByteSeq(r[1]), len |-> r[2] - r[1] + 1] : r \in R}
  <2>1. GoodBuffer(buff, arrived)
    BY DEF Inv
  <2>2. RunsOf(list, K) /\ arrived \subseteq 0 .. Total - 1 /\ list \in Seq(Fragments)
    BY <2>1 DEF GoodBuffer, RunsOf
  <2>3. K \subseteq Nat
    BY <2>2, KeptBytes
  <2>4. Runs = R
    <3>1. HeadByte = HeadOf(buff)
      BY InvHead
    <3> QED
      BY <3>1, Zenon DEF Runs, Kept
  <2>5. Len(list) \in Nat /\ DOMAIN list = 1 .. Len(list)
        /\ \A i \in 1 .. Len(list) : list[i] \in Fragments
    BY <2>2, LenProperties, ElementOfSeq
  <2> HIDE DEF K
  <2>6. ASSUME NEW i \in 1 .. Len(list) PROVE list[i] \in T
    <3> DEFINE x == Lo(list[i])
               y == Hi(list[i])
    <3>1. x \in K /\ y \in K /\ P(x, y)
      BY <2>2, <2>3, RunsAreMaximal
    <3>2. list[i] = Frag(x, y)
      BY <2>5, FragmentForm
    <3> HIDE DEF P, x, y
    <3>3. <<x, y>> \in R
      BY <3>1
    <3> QED
      BY <3>2, <3>3 DEF Frag
  <2>7. ASSUME NEW f \in T PROVE \E i \in 1 .. Len(list) : list[i] = f
    <3>1. PICK r \in R : f = [seq |-> ByteSeq(r[1]), len |-> r[2] - r[1] + 1]
      OBVIOUS
    <3> DEFINE x == r[1]
               y == r[2]
    <3>2. x \in K /\ y \in K /\ P(x, y)
      OBVIOUS
    <3>3. f = Frag(x, y)
      BY <3>1 DEF Frag
    <3> HIDE DEF list, x, y, T, R
    <3>4. \A a, b \in K :
            /\ a .. b # {} /\ a .. b \subseteq K /\ a - 1 \notin K /\ b + 1 \notin K
            => \E i \in 1 .. Len(list) : list[i] = Frag(a, b)
      BY <2>2, <2>3, RunsAreMaximal
    <3>5. \E i \in 1 .. Len(list) : list[i] = Frag(x, y)
      BY <3>2, <3>4
    <3> QED
      BY <3>3, <3>5
  <2>8. ToSet(list) = T
    <3> HIDE DEF T, R, P
    <3>1. ToSet(list) = {list[i] : i \in 1 .. Len(list)}
      BY <2>5 DEF ToSet
    <3> QED
      BY <2>6, <2>7, <3>1
  <2>9. ASSUME NEW i \in 1 .. Len(list) - 1
        PROVE  (list[i].seq - InitSeq) % SeqSpace < (list[i + 1].seq - InitSeq) % SeqSpace
    <3>1. i \in 1 .. Len(list) /\ i + 1 \in 1 .. Len(list) /\ i < i + 1
      BY <2>5
    <3>2. Hi(list[i]) + 1 < Lo(list[i + 1])
      BY <2>2, <3>1 DEF RunsOf
    <3>3. /\ Lo(list[i]) \in Nat /\ Hi(list[i]) \in Nat /\ Lo(list[i]) <= Hi(list[i])
          /\ Lo(list[i + 1]) \in Nat
      BY <2>5, <3>1, FragmentForm
    <3>4. Lo(list[i]) < Lo(list[i + 1])
      BY <3>2, <3>3
    <3> QED
      BY <3>4 DEF Lo
  <2> HIDE DEF R
  <2> QED
    BY <2>4, <2>8, <2>9, Zenon DEF FragmentsAreRuns
<1> QED
  BY <1>1, RecvInductive, PTL
=============================================================================
