---------------------------- MODULE EpollRbProofs ----------------------------
(***************************************************************************)
(* Proofs about EpollRb for any sockets, any items and any maxevents.      *)
(* What epoll_wait decides by, the count of the list, is its length, and   *)
(* no wakeup falls between the two locks; both hold whatever the           *)
(* application deletes.  That rdy means "on the list" needs deletions to   *)
(* wait until nothing is raised for the socket (QuietDeletes).             *)
(***************************************************************************)
EXTENDS EpollRb, SequenceTheorems, FiniteSetTheorems, TLAPS

\* The callback has an item while it is under way.
StackInv == stack.at # "idle" => stack.item \in Items

\* rdnum, which epoll_wait reads under another lock than the one the list is
\* changed under, is the length of the list of the instance.
CountIsLength == ep => rdnum = Len(rdlist)

BaseInv ==
    /\ TypeOK
    /\ StackInv
    /\ CountIsLength
    /\ WaiterIsSignalled

\* The items of the tree are different, the list has only items of the tree,
\* and what the callback works on is in the tree; what it is about to insert
\* is not ready.
OneItemPerSocket ==
    \A s, t \in Sockets : rbr[s] = rbr[t] /\ rbr[s] # None => s = t

ListedIsRegistered == Listed \subseteq Registered

CallbackInv ==
    /\ stack.at # "idle" => stack.item \in Registered
    /\ stack.at = "insert" => ~ item[stack.item].rdy

\* Nothing is under way without an instance.
CallbackHasInstance == ep \/ stack.at = "idle"

QuietInv ==
    /\ OneItemPerSocket
    /\ ListedIsRegistered
    /\ CallbackInv
    /\ RdyIsListed
-----------------------------------------------------------------------------
(* The ready list.                                                          *)

LEMMA ListedRange ==
    ASSUME NEW S, NEW list \in Seq(S)
    PROVE  Range(list) = {list[k] : k \in 1 .. Len(list)}
  BY DEF Range

LEMMA TakenBounds ==
    ASSUME TypeOK
    PROVE  Taken \in 0 .. Len(rdlist) /\ Taken <= rdnum
  BY LenProperties, ConstantsAssumption DEF Taken, TypeOK

\* A new item in front.
LEMMA PrependFacts ==
    ASSUME NEW S, NEW list \in Seq(S), NEW i \in S
    PROVE  /\ <<i>> \o list \in Seq(S)
           /\ Len(<<i>> \o list) = Len(list) + 1
           /\ Range(<<i>> \o list) = Range(list) \cup {i}
           /\ IsInjective(list) /\ i \notin Range(list)
                => IsInjective(<<i>> \o list)
<1> DEFINE new == <<i>> \o list
<1>1. <<i>> \in Seq(S) /\ Len(<<i>>) = 1 /\ <<i>>[1] = i
  OBVIOUS
<1>2. /\ new \in Seq(S)
      /\ Len(new) = Len(list) + 1
      /\ new[1] = i
      /\ \A k \in 2 .. Len(list) + 1 : new[k] = list[k - 1]
  BY <1>1, ConcatProperties, LenProperties
<1>3. \A k \in 1 .. Len(list) : new[k + 1] = list[k]
  BY <1>2, LenProperties
<1>4. Range(new) = Range(list) \cup {i}
  <2>1. Len(list) \in Nat /\ DOMAIN list = 1 .. Len(list)
        /\ DOMAIN new = 1 .. Len(list) + 1
    BY <1>2, LenProperties
  <2> HIDE DEF new
  <2>2. \A k \in DOMAIN new :
           \/ k = 1
           \/ k - 1 \in DOMAIN list /\ new[k] = list[k - 1]
    BY <1>2, <2>1
  <2>3. \A k \in DOMAIN list : k + 1 \in DOMAIN new /\ new[k + 1] = list[k]
    BY <1>3, <2>1
  <2>4. 1 \in DOMAIN new
    BY <2>1
  <2>5. Range(new) \subseteq Range(list) \cup {i}
    BY <1>2, <2>2 DEF Range
  <2>6. Range(list) \subseteq Range(new)
    BY <2>3 DEF Range
  <2>7. i \in Range(new)
    BY <1>2, <2>4 DEF Range
  <2> QED
    BY <2>5, <2>6, <2>7
<1>5. ASSUME IsInjective(list), i \notin Range(list) PROVE IsInjective(new)
  <2>1. Len(list) \in Nat /\ DOMAIN list = 1 .. Len(list)
        /\ DOMAIN new = 1 .. Len(list) + 1
    BY <1>2, LenProperties
  <2> HIDE DEF new
  <2>2. \A k \in 1 .. Len(list) : list[k] # i
    BY <1>5, <2>1 DEF Range
  <2>3. ASSUME NEW a \in 1 .. Len(list) + 1, NEW b \in 1 .. Len(list) + 1,
               new[a] = new[b]
        PROVE  a = b
    <3>1. CASE a = 1 \/ b = 1
      BY <1>2, <2>1, <2>2, <2>3, <3>1
    <3>2. CASE a # 1 /\ b # 1
      <4>1. a - 1 \in DOMAIN list /\ b - 1 \in DOMAIN list
        BY <2>1, <3>2
      <4>2. list[a - 1] = list[b - 1]
        BY <1>2, <2>1, <2>3, <3>2
      <4>3. a - 1 = b - 1
        BY <1>5, <4>1, <4>2 DEF IsInjective
      <4> QED
        BY <4>3
    <3> QED
      BY <3>1, <3>2
  <2> QED
    BY <2>1, <2>3 DEF IsInjective
<1> QED
  BY <1>2, <1>4, <1>5

\* The list without its first n items.
LEMMA DropFacts ==
    ASSUME NEW S, NEW list \in Seq(S), NEW n \in 0 .. Len(list)
    PROVE  /\ SubSeq(list, n + 1, Len(list)) \in Seq(S)
           /\ Len(SubSeq(list, n + 1, Len(list))) = Len(list) - n
           /\ Range(SubSeq(list, n + 1, Len(list))) =
                {list[k] : k \in n + 1 .. Len(list)}
           /\ IsInjective(list) => IsInjective(SubSeq(list, n + 1, Len(list)))
<1> DEFINE new == SubSeq(list, n + 1, Len(list))
<1>1. Len(list) \in Nat /\ DOMAIN list = 1 .. Len(list)
  BY LenProperties
<1>2. /\ new \in Seq(S)
      /\ Len(new) = Len(list) - n
      /\ \A k \in 1 .. Len(list) - n : new[k] = list[n + k]
  <2>1. \A k \in n + 1 .. Len(list) : list[k] \in S
    BY <1>1, ElementOfSeq
  <2>2. /\ new \in Seq(S)
        /\ Len(new) = IF n + 1 <= Len(list) THEN Len(list) - (n + 1) + 1 ELSE 0
        /\ \A k \in 1 .. Len(list) - (n + 1) + 1 : new[k] = list[(n + 1) + k - 1]
    BY <1>1, <2>1, SubSeqProperties
  <2> HIDE DEF new
  <2>3. Len(list) - (n + 1) + 1 = Len(list) - n
    BY <1>1
  <2>4. \A k \in 1 .. Len(list) - n : (n + 1) + k - 1 = n + k
    BY <1>1
  <2>5. Len(new) = Len(list) - n
    <3>1. Len(list) \in Nat /\ n \in Nat /\ n <= Len(list)
      BY <1>1
    <3>2. n + 1 <= Len(list) \/ 0 = Len(list) - n
      BY <3>1
    <3>3. Len(new) = IF n + 1 <= Len(list) THEN Len(list) - n ELSE 0
      BY <2>2, <2>3, Zenon
    <3> QED
      BY <3>2, <3>3, Zenon
  <2>6. \A k \in 1 .. Len(list) - n : new[k] = list[n + k]
    BY <2>2, <2>3, <2>4
  <2> QED
    BY <2>2, <2>5, <2>6
<1>3. DOMAIN new = 1 .. Len(list) - n
  BY <1>2, LenProperties
<1> HIDE DEF new
<1>4. Range(new) = {list[k] : k \in n + 1 .. Len(list)}
  <2>1. \A k \in DOMAIN new : n + k \in n + 1 .. Len(list) /\ new[k] = list[n + k]
    BY <1>1, <1>2, <1>3
  <2>2. \A k \in n + 1 .. Len(list) : k - n \in DOMAIN new /\ new[k - n] = list[k]
    BY <1>1, <1>2, <1>3
  <2> QED
    BY <2>1, <2>2 DEF Range
<1>5. ASSUME IsInjective(list) PROVE IsInjective(new)
  <2>1. ASSUME NEW a \in DOMAIN new, NEW b \in DOMAIN new, new[a] = new[b]
        PROVE  a = b
    <3>1. n + a \in DOMAIN list /\ n + b \in DOMAIN list
      BY <1>1, <1>3
    <3>2. list[n + a] = list[n + b]
      BY <1>2, <1>3, <2>1
    <3>3. n + a = n + b
      BY <1>5, <3>1, <3>2 DEF IsInjective
    <3> QED
      BY <1>1, <1>3, <3>3
  <2> QED
    BY <2>1 DEF IsInjective
<1> QED
  BY <1>2, <1>4, <1>5 DEF new
-----------------------------------------------------------------------------
(* What holds for every application.                                        *)

LEMMA BaseInit == Init => BaseInv
<1> SUFFICES ASSUME Init PROVE BaseInv
  OBVIOUS
<1>1. item \in [Items -> [rdy : BOOLEAN, events : SUBSET Events]]
  BY DEF Init
<1>2. rbr \in [Sockets -> Items \cup {None}] /\ open \subseteq Sockets
  BY DEF Init
<1>3. /\ rdlist \in Seq(Items)
      /\ rdnum \in Nat
      /\ app \in {"idle", "waiting", "collect"}
  BY DEF Init
<1>4. stack \in [at : {"idle", "merge", "insert", "signal"},
                item : Items \cup {None}]
  BY DEF Init, Idle
<1>5. ep \in BOOLEAN /\ abort \in BOOLEAN
  BY DEF Init
<1>6. TypeOK
  BY <1>1, <1>2, <1>3, <1>4, <1>5, Zenon DEF TypeOK
<1>7. StackInv /\ CountIsLength /\ WaiterIsSignalled
  BY DEF Init, StackInv, CountIsLength, WaiterIsSignalled, Idle
<1> QED
  BY <1>6, <1>7 DEF BaseInv

LEMMA ApplicationBase == ASSUME BaseInv, Application PROVE BaseInv'
<1> USE DEF BaseInv, StackInv, CountIsLength, WaiterIsSignalled
<1>1. CASE epoll_create
  BY <1>1 DEF epoll_create, TypeOK
<1>2. CASE nty_epoll_close_socket
  <2>1. ~ ep'
    BY <1>2 DEF nty_epoll_close_socket
  <2>2. /\ rbr' = [s \in Sockets |-> None]
        /\ rdlist' = <<>>
        /\ ep' \in BOOLEAN
    BY <1>2, Zenon DEF nty_epoll_close_socket
  <2>3. rbr' \in [Sockets -> Items \cup {None}] /\ rdlist' \in Seq(Items)
    BY <2>2
  <2>4. TypeOK'
    BY <1>2, <2>2, <2>3, Zenon DEF nty_epoll_close_socket, TypeOK
  <2> QED
    BY <1>2, <2>1, <2>4 DEF nty_epoll_close_socket
<1>3. CASE WaitTimeout
  BY <1>3 DEF WaitTimeout, TypeOK
<1>4. CASE WaitCheck
  BY <1>4 DEF WaitCheck, TypeOK
<1>5. CASE Collect
  <2>1. Taken \in 0 .. Len(rdlist) /\ Taken <= rdnum
    BY TakenBounds
  <2>2. rdlist' \in Seq(Items) /\ Len(rdlist') = Len(rdlist) - Taken
    BY <1>5, <2>1, DropFacts DEF Collect, TypeOK
  <2>3. rdnum' \in Nat
    BY <1>5, <2>1 DEF Collect, TypeOK
  <2>4. item' \in [Items -> [rdy : BOOLEAN, events : SUBSET Events]]
    <3>1. \A i \in Items : item[i] \in [rdy : BOOLEAN, events : SUBSET Events]
      BY DEF TypeOK
    <3>2. \A r \in [rdy : BOOLEAN, events : SUBSET Events] :
             [r EXCEPT !.rdy = FALSE] \in [rdy : BOOLEAN, events : SUBSET Events]
      OBVIOUS
    <3> QED
      BY <1>5, <3>1, <3>2, Zenon DEF Collect
  <2> QED
    BY <1>5, <2>1, <2>2, <2>3, <2>4 DEF Collect, TypeOK
<1>6. ASSUME NEW s \in Sockets, accept(s) \/ close(s) PROVE BaseInv'
  BY <1>6 DEF accept, close, TypeOK
<1>7. ASSUME NEW s \in Sockets, EpollCtlDel(s) PROVE BaseInv'
  BY <1>7 DEF EpollCtlDel, TypeOK
<1>8. ASSUME NEW s \in Sockets, NEW mask \in {{"IN"}, {"IN", "OUT"}},
             EpollCtlAdd(s, mask)
      PROVE  BaseInv'
  <2>1. mask \in SUBSET Events
    BY DEF Events
  <2> QED
    BY <1>8, <2>1 DEF EpollCtlAdd, TypeOK
<1>9. ASSUME NEW s \in Sockets, NEW mask \in {{"IN"}, {"IN", "OUT"}},
             EpollCtlMod(s, mask)
      PROVE  BaseInv'
  <2>1. mask \cup {"ERR"} \in SUBSET Events
    BY DEF Events
  <2>2. rbr[s] \in Items
    BY <1>9 DEF EpollCtlMod, TypeOK
  <2> QED
    BY <1>9, <2>1, <2>2 DEF EpollCtlMod, TypeOK
<1> QED
  BY <1>1, <1>2, <1>3, <1>4, <1>5, <1>6, <1>7, <1>8, <1>9
  DEF Application, epoll_wait

LEMMA StackBase ==
    ASSUME BaseInv, Callback \/ \E s \in Sockets : CallbackFind(s)
    PROVE  BaseInv'
<1> USE DEF BaseInv, StackInv, CountIsLength, WaiterIsSignalled
<1>1. ASSUME NEW s \in Sockets, CallbackFind(s) PROVE BaseInv'
  BY <1>1, ConstantsAssumption DEF CallbackFind, TypeOK, Idle
<1>2. CASE CallbackMerge
  <2>1. {"IN"} \subseteq Events
    BY DEF Events
  <2> QED
    BY <1>2, <2>1 DEF CallbackMerge, TypeOK, Idle
<1>3. CASE CallbackInsert
  <2>1. rdlist' \in Seq(Items) /\ Len(rdlist') = Len(rdlist) + 1
    BY <1>3, PrependFacts DEF CallbackInsert, TypeOK
  <2>2. stack.item \in Items
    BY <1>3 DEF CallbackInsert
  <2>3. item' \in [Items -> [rdy : BOOLEAN, events : SUBSET Events]]
    BY <1>3, <2>2 DEF CallbackInsert, TypeOK
  <2>4. stack' = [at |-> "signal", item |-> stack.item]
    BY <1>3 DEF CallbackInsert, TypeOK
  <2>5. /\ rdnum' \in Nat
        /\ stack' \in [at : {"idle", "merge", "insert", "signal"},
                      item : Items \cup {None}]
    BY <1>3, <2>2, <2>4 DEF CallbackInsert, TypeOK
  <2>6. TypeOK'
    BY <1>3, <2>1, <2>3, <2>5, Zenon DEF CallbackInsert, TypeOK
  <2> QED
    BY <1>3, <2>1, <2>2, <2>4, <2>6 DEF CallbackInsert
<1>4. CASE CallbackSignal
  BY <1>4 DEF CallbackSignal, TypeOK, Idle
<1> QED
  BY <1>1, <1>2, <1>3, <1>4 DEF Callback

\* The invariant that holds for every application, whatever it deletes and
\* whatever events are raised.
THEOREM BaseInductive == Spec => []BaseInv
<1>1. BaseInv /\ [Next]_vars => BaseInv'
  <2>1. CASE UNCHANGED vars
    BY <2>1 DEF vars, BaseInv, TypeOK, StackInv, CountIsLength,
                WaiterIsSignalled
  <2> QED
    BY <2>1, ApplicationBase, StackBase DEF Next
<1> QED
  BY <1>1, BaseInit, PTL DEF Spec
-----------------------------------------------------------------------------
(* What holds when sockets are deleted only while nothing is raised.        *)

\* Steps that leave the tree, the list and the callback alone, and the ready
\* marks of the items.
LEMMA QuietUnchanged ==
    ASSUME QuietInv, UNCHANGED <<rbr, rdlist, stack>>,
           \A i \in Items : item'[i].rdy = item[i].rdy, TypeOK, StackInv
    PROVE  QuietInv'
<1>1. Registered' = Registered /\ Listed' = Listed
  BY DEF Registered, Listed
<1>2. Registered \subseteq Items
  BY DEF Registered, TypeOK
<1> QED
  BY <1>1, <1>2 DEF QuietInv, OneItemPerSocket, ListedIsRegistered, CallbackInv,
                    RdyIsListed, StackInv

LEMMA QuietInit == Init => QuietInv
<1> SUFFICES ASSUME Init PROVE QuietInv
  OBVIOUS
<1>1. Registered = {} /\ Listed = {} /\ IsInjective(rdlist)
  BY DEF Init, Registered, Listed, Range, IsInjective
<1> QED
  BY <1>1 DEF Init, Idle, QuietInv, OneItemPerSocket, ListedIsRegistered,
              CallbackInv, RdyIsListed

LEMMA AddQuiet ==
    ASSUME BaseInv, QuietInv, NEW s \in Sockets, NEW mask, EpollCtlAdd(s, mask)
    PROVE  QuietInv'
<1>1. PICK i \in Items \ Registered :
         /\ rbr' = [rbr EXCEPT ![s] = i]
         /\ item' = [item EXCEPT ![i] = [rdy |-> FALSE, events |-> mask]]
  BY DEF EpollCtlAdd
<1>2. /\ rbr[s] = None
      /\ UNCHANGED <<rdlist, stack>>
  BY DEF EpollCtlAdd
<1>3. i # None
  BY ConstantsAssumption
<1>4. Registered' = Registered \cup {i}
  BY <1>1, <1>2, <1>3 DEF Registered, BaseInv, TypeOK
<1>5. Registered \subseteq Items
  BY DEF Registered, BaseInv, TypeOK
<1>6. \A j \in Registered : item'[j] = item[j]
  BY <1>1, <1>5 DEF BaseInv, TypeOK
<1>7. item'[i].rdy = FALSE
  BY <1>1 DEF BaseInv, TypeOK
<1>8. Listed' = Listed
  BY <1>2 DEF Listed
<1>9. OneItemPerSocket'
  <2>1. \A t \in Sockets : rbr[t] # i
    BY <1>1, <1>3 DEF Registered
  <2> QED
    BY <1>1, <1>2, <2>1 DEF QuietInv, OneItemPerSocket, BaseInv, TypeOK
<1>10. ListedIsRegistered'
  BY <1>4, <1>8 DEF QuietInv, ListedIsRegistered
<1>11. CallbackInv'
  BY <1>2, <1>4, <1>6 DEF QuietInv, CallbackInv
<1>12. RdyIsListed'
  <2>1. i \notin Listed'
    BY <1>1, <1>8 DEF QuietInv, ListedIsRegistered
  <2>2. ~ item'[i].rdy
    BY <1>7
  <2> QED
    BY <1>2, <1>4, <1>6, <1>8, <2>1, <2>2 DEF QuietInv, RdyIsListed
<1> QED
  BY <1>9, <1>10, <1>11, <1>12 DEF QuietInv

LEMMA DelQuiet ==
    ASSUME QuietDeletes, BaseInv, QuietInv, NEW s \in Sockets, EpollCtlDel(s)
    PROVE  QuietInv'
<1>1. /\ rbr' = [rbr EXCEPT ![s] = None]
      /\ rbr[s] # None
      /\ rbr[s] \notin Listed /\ stack.item # rbr[s]
      /\ UNCHANGED <<item, rdlist, stack>>
  BY DEF EpollCtlDel, Quiet
<1>2. Registered' = Registered \ {rbr[s]}
  <2>1. \A t \in Sockets : t # s => rbr'[t] = rbr[t]
    BY <1>1 DEF BaseInv, TypeOK
  <2>2. rbr'[s] = None
    BY <1>1 DEF BaseInv, TypeOK
  <2>3. \A t \in Sockets : t # s /\ rbr[t] # None => rbr[t] # rbr[s]
    BY DEF QuietInv, OneItemPerSocket
  <2> QED
    BY <1>1, <2>1, <2>2, <2>3 DEF Registered
<1>3. Listed' = Listed
  BY <1>1 DEF Listed
<1>4. OneItemPerSocket'
  BY <1>1 DEF QuietInv, OneItemPerSocket, BaseInv, TypeOK
<1>5. ListedIsRegistered' /\ CallbackInv' /\ RdyIsListed'
  BY <1>1, <1>2, <1>3 DEF QuietInv, ListedIsRegistered, CallbackInv, RdyIsListed
<1> QED
  BY <1>4, <1>5 DEF QuietInv

\* epoll_create and the end of an instance leave nothing.
LEMMA EmptyQuiet ==
    ASSUME rbr' = [s \in Sockets |-> None], rdlist' = <<>>, stack'.at = "idle"
    PROVE  QuietInv'
<1>1. Registered' = {} /\ Listed' = {} /\ IsInjective(rdlist')
  BY DEF Registered, Listed, Range, IsInjective
<1> QED
  BY <1>1 DEF QuietInv, OneItemPerSocket, ListedIsRegistered, CallbackInv,
              RdyIsListed

LEMMA CollectQuiet ==
    ASSUME BaseInv, QuietInv, Collect PROVE QuietInv'
<1> DEFINE ready == {rdlist[k] : k \in 1 .. Taken}
           rest == {rdlist[k] : k \in Taken + 1 .. Len(rdlist)}
<1>1. Taken \in 0 .. Len(rdlist) /\ rdlist \in Seq(Items)
  BY TakenBounds DEF BaseInv, TypeOK
<1>2. Listed' = rest /\ IsInjective(rdlist')
  BY <1>1, DropFacts DEF Collect, Listed, QuietInv, RdyIsListed
<1>3. Listed = ready \cup rest
  BY <1>1, ListedRange, LenProperties DEF Listed
<1>4. ready \cap rest = {}
  BY <1>1, LenProperties DEF QuietInv, RdyIsListed, IsInjective
<1>5. Registered' = Registered /\ Registered \subseteq Items
  BY DEF Collect, Registered, BaseInv, TypeOK
<1>6. \A i \in Items : item'[i].rdy = IF i \in ready THEN FALSE ELSE item[i].rdy
  BY DEF Collect, BaseInv, TypeOK
<1>7. \A i \in Items : item'[i].rdy <=> i \notin ready /\ item[i].rdy
  BY <1>6
<1> HIDE DEF ready, rest
<1>8. RdyIsListed'
  BY <1>2, <1>3, <1>4, <1>5, <1>7 DEF QuietInv, RdyIsListed
<1>9. OneItemPerSocket' /\ ListedIsRegistered'
  BY <1>2, <1>3, <1>5 DEF Collect, QuietInv, OneItemPerSocket, ListedIsRegistered
<1>10. CallbackInv'
  BY <1>5, <1>7 DEF Collect, QuietInv, CallbackInv, BaseInv, StackInv
<1> QED
  BY <1>8, <1>9, <1>10 DEF QuietInv

LEMMA FindQuiet ==
    ASSUME BaseInv, QuietInv, NEW s \in Sockets, CallbackFind(s)
    PROVE  QuietInv'
<1>1. UNCHANGED <<rbr, item, rdlist>>
  BY DEF CallbackFind
<1>2. Registered' = Registered /\ Listed' = Listed
  BY <1>1 DEF Registered, Listed
<1>3. CallbackInv'
  <2>1. CASE rbr[s] = None
    BY <2>1 DEF CallbackFind, Idle, CallbackInv
  <2>2. CASE rbr[s] # None
    <3>1. rbr[s] \in Registered'
      BY <1>2, <2>2 DEF Registered
    <3>2. stack' = [at |-> IF item[rbr[s]].rdy THEN "merge" ELSE "insert",
                    item |-> rbr[s]]
      BY <2>2 DEF CallbackFind
    <3> QED
      BY <1>1, <3>1, <3>2 DEF CallbackInv
  <2> QED
    BY <2>1, <2>2
<1> QED
  BY <1>1, <1>2, <1>3 DEF QuietInv, OneItemPerSocket, ListedIsRegistered,
                          RdyIsListed

LEMMA InsertQuiet ==
    ASSUME BaseInv, QuietInv, CallbackInsert
    PROVE  QuietInv'
<1>1. /\ stack.item \in Registered
      /\ stack.item \in Items
      /\ ~ item[stack.item].rdy
  BY DEF QuietInv, CallbackInv, CallbackInsert, BaseInv, StackInv
<1>2. stack.item \notin Listed
  BY <1>1 DEF QuietInv, RdyIsListed
<1>3. Listed' = Listed \cup {stack.item} /\ IsInjective(rdlist')
  BY <1>1, <1>2, PrependFacts
  DEF CallbackInsert, Listed, BaseInv, TypeOK, QuietInv, RdyIsListed
<1>4. Registered' = Registered /\ Registered \subseteq Items
  BY DEF CallbackInsert, Registered, BaseInv, TypeOK
<1>5. \A i \in Items : item'[i].rdy = IF i = stack.item THEN TRUE ELSE item[i].rdy
  BY <1>1 DEF CallbackInsert, BaseInv, TypeOK
<1>6. \A i \in Items : item'[i].rdy <=> i = stack.item \/ item[i].rdy
  BY <1>5
<1>7. stack'.at = "signal" /\ stack'.item = stack.item
  BY DEF CallbackInsert, BaseInv, TypeOK
<1>8. RdyIsListed' /\ ListedIsRegistered'
  BY <1>1, <1>3, <1>4, <1>6 DEF QuietInv, RdyIsListed, ListedIsRegistered
<1>9. CallbackInv'
  BY <1>1, <1>4, <1>7 DEF CallbackInv
<1>10. OneItemPerSocket'
  BY DEF CallbackInsert, QuietInv, OneItemPerSocket
<1> QED
  BY <1>8, <1>9, <1>10 DEF QuietInv

\* The callback ends: the marks are as before.
LEMMA EndQuiet ==
    ASSUME BaseInv, QuietInv, stack' = Idle, UNCHANGED <<rbr, rdlist>>,
           \A i \in Items : item'[i].rdy = item[i].rdy
    PROVE  QuietInv'
<1>1. Registered' = Registered /\ Listed' = Listed /\ Registered \subseteq Items
  BY DEF Registered, Listed, BaseInv, TypeOK
<1> QED
  BY <1>1 DEF QuietInv, OneItemPerSocket, ListedIsRegistered, CallbackInv,
              RdyIsListed, Idle

LEMMA NextHasInstance ==
    ASSUME QuietDeletes, TypeOK, CallbackHasInstance, Next
    PROVE  CallbackHasInstance'
<1> USE DEF CallbackHasInstance
<1>1. CASE epoll_create
  BY <1>1 DEF epoll_create
<1>2. CASE nty_epoll_close_socket
  BY <1>2 DEF nty_epoll_close_socket, Idle
<1>3. CASE epoll_wait \/ WaitTimeout
  BY <1>3 DEF epoll_wait, WaitCheck, Collect, WaitTimeout
<1>4. ASSUME NEW s \in Sockets,
             \/ accept(s) \/ close(s) \/ EpollCtlDel(s) \/ CallbackFind(s)
             \/ \E mask \in {{"IN"}, {"IN", "OUT"}} :
                   EpollCtlAdd(s, mask) \/ EpollCtlMod(s, mask)
      PROVE  CallbackHasInstance'
  BY <1>4 DEF accept, close, EpollCtlDel, EpollCtlAdd, EpollCtlMod, CallbackFind
<1>5. CASE Callback
  BY <1>5 DEF Callback, CallbackMerge, CallbackInsert, CallbackSignal, Idle
<1> QED
  BY <1>1, <1>2, <1>3, <1>4, <1>5 DEF Next, Application

LEMMA NextQuiet ==
    ASSUME QuietDeletes, BaseInv, QuietInv, CallbackHasInstance, Next
    PROVE  QuietInv'
<1> USE DEF BaseInv
<1>1. CASE epoll_create
  BY <1>1, EmptyQuiet DEF epoll_create, CallbackHasInstance
<1>2. CASE nty_epoll_close_socket
  BY <1>2, EmptyQuiet DEF nty_epoll_close_socket, Idle
<1>3. CASE WaitTimeout \/ WaitCheck
  BY <1>3, QuietUnchanged DEF WaitTimeout, WaitCheck
<1>4. CASE Collect
  BY <1>4, CollectQuiet
<1>5. ASSUME NEW s \in Sockets, accept(s) \/ close(s) PROVE QuietInv'
  BY <1>5, QuietUnchanged DEF accept, close
<1>6. ASSUME NEW s \in Sockets, EpollCtlDel(s) PROVE QuietInv'
  BY <1>6, DelQuiet
<1>7. ASSUME NEW s \in Sockets, NEW mask \in {{"IN"}, {"IN", "OUT"}},
             EpollCtlAdd(s, mask)
      PROVE  QuietInv'
  BY <1>7, AddQuiet
<1>8. ASSUME NEW s \in Sockets, NEW mask \in {{"IN"}, {"IN", "OUT"}},
             EpollCtlMod(s, mask)
      PROVE  QuietInv'
  <2>1. \A i \in Items : item'[i].rdy = item[i].rdy
    BY <1>8 DEF EpollCtlMod, TypeOK
  <2> QED
    BY <1>8, <2>1, QuietUnchanged DEF EpollCtlMod
<1>9. ASSUME NEW s \in Sockets, CallbackFind(s) PROVE QuietInv'
  BY <1>9, FindQuiet
<1>10. CASE CallbackMerge
  <2>1. \A i \in Items : item'[i].rdy = item[i].rdy
    BY <1>10 DEF CallbackMerge, TypeOK
  <2> QED
    BY <1>10, <2>1, EndQuiet DEF CallbackMerge
<1>11. CASE CallbackInsert
  BY <1>11, InsertQuiet
<1>12. CASE CallbackSignal
  BY <1>12, EndQuiet DEF CallbackSignal
<1> QED
  BY <1>1, <1>2, <1>3, <1>4, <1>5, <1>6, <1>7, <1>8, <1>9, <1>10, <1>11, <1>12
  DEF Next, Application, epoll_wait, Callback
-----------------------------------------------------------------------------
\* Type correctness.
THEOREM EpollTypeCorrect == Spec => []TypeOK
<1>1. BaseInv => TypeOK
  BY DEF BaseInv
<1> QED
  BY <1>1, BaseInductive, PTL

\* No wakeup is lost: epoll_wait tests the count under cdmtx, the callback
\* changes it under the spin lock and signals under cdmtx afterwards; whenever
\* the waiter sleeps over a ready item the callback has still to signal.
THEOREM WaiterIsSignalledHolds == Spec => []WaiterIsSignalled
<1>1. BaseInv => WaiterIsSignalled
  BY DEF BaseInv
<1> QED
  BY <1>1, BaseInductive, PTL

\* The count that epoll_wait sleeps on is the length of the ready list, as long
\* as there is an instance.
THEOREM CountIsLengthHolds == Spec => []CountIsLength
<1>1. BaseInv => CountIsLength
  BY DEF BaseInv
<1> QED
  BY <1>1, BaseInductive, PTL

\* rdy means "on the ready list", for every registered item and at any time, if
\* EPOLL_CTL_DEL and close come while nothing is raised for the socket: the
\* callback's unlocked test of rdy never puts an item on the list twice.
THEOREM RdyIsListedHolds ==
    ASSUME QuietDeletes PROVE Spec => []RdyIsListed
<1> DEFINE Inv == QuietInv /\ CallbackHasInstance
<1>1. Init => Inv
  BY QuietInit DEF Init, CallbackHasInstance
<1>2. BaseInv /\ Inv /\ [Next]_vars => Inv'
  <2> SUFFICES ASSUME BaseInv, Inv, [Next]_vars PROVE Inv'
    OBVIOUS
  <2>1. CASE Next
    BY <2>1, NextQuiet, NextHasInstance DEF BaseInv
  <2>2. CASE UNCHANGED vars
    BY <2>2, QuietUnchanged DEF vars, BaseInv, CallbackHasInstance
  <2> QED
    BY <2>1, <2>2
<1>3. Inv => RdyIsListed
  BY DEF QuietInv
<1> HIDE DEF Inv
<1> QED
  BY <1>1, <1>2, <1>3, BaseInductive, PTL DEF Spec
=============================================================================
