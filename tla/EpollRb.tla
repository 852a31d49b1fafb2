------------------------------- MODULE EpollRb -------------------------------
(***************************************************************************)
(* One epoll instance (nty_epoll_rb.c): the tree of registered sockets and *)
(* the list of ready ones.  The stack thread adds to the list in           *)
(* epoll_event_callback, an application thread takes from it in epoll_wait *)
(* and changes the tree in epoll_ctl.                                      *)
(*                                                                         *)
(* The list is changed under the spin lock `lock', and the condition is    *)
(* signalled under `cdmtx'; each of these critical sections is one step.   *)
(* The callback searches the tree and reads rdy with neither lock held,    *)
(* which are steps of their own.                                           *)
(***************************************************************************)
EXTENDS Naturals, Sequences, FiniteSets, SequencesExt

CONSTANTS Sockets,      \* socket ids
          Items,        \* addresses an epitem can be allocated at
          None,         \* no item
          MaxEvents,    \* maxevents of epoll_wait
          QuietDeletes, \* are sockets deleted only while nothing is raised?
          EarlyEvents   \* are events raised for sockets not yet registered?

ASSUME ConstantsAssumption ==
    /\ None \notin Items
    /\ MaxEvents \in Nat \ {0}
    /\ QuietDeletes \in BOOLEAN
    /\ EarlyEvents \in BOOLEAN

VARIABLES ep,      \* does tcp->ep point to the instance?
          open,    \* sockets whose stream has a socket
          rbr,     \* the tree: socket to item
          item,    \* the items: rdy and the event mask
          rdlist,  \* the ready list
          rdnum,   \* its length, as epoll_wait reads it
          app,     \* "idle", "waiting" or "collect"
          stack,   \* where the callback is, and its item
          abort    \* has an assertion failed?

vars == <<ep, open, rbr, item, rdlist, rdnum, app, stack, abort>>

Events == {"IN", "OUT", "ERR"}

Idle == [at |-> "idle", item |-> None]

Registered == {rbr[s] : s \in Sockets} \ {None}
Listed == Range(rdlist)

\* may the item be freed, as far as the application takes care?
Quiet(i) == QuietDeletes => i \notin Listed /\ stack.item # i
-----------------------------------------------------------------------------
\* the instance is created by epoll_create
Init ==
    /\ ep = TRUE
    /\ open = {}
    /\ rbr = [s \in Sockets |-> None]
    /\ item = [i \in Items |-> [rdy |-> FALSE, events |-> {}]]
    /\ rdlist = <<>>
    /\ rdnum = 0
    /\ app = "idle"
    /\ stack = Idle
    /\ abort = FALSE

(* The application thread.                                                  *)

epoll_create ==
    /\ app = "idle"
    /\ ~ ep
    /\ ep' = TRUE
    /\ rbr' = [s \in Sockets |-> None]
    /\ rdlist' = <<>>
    /\ rdnum' = 0
    /\ UNCHANGED <<open, item, app, stack, abort>>

\* accept gives the stream its socket, close takes it away
accept(s) ==
    /\ app = "idle"
    /\ s \notin open
    /\ open' = open \cup {s}
    /\ UNCHANGED <<ep, rbr, item, rdlist, rdnum, app, stack, abort>>

close(s) ==
    /\ app = "idle"
    /\ s \in open
    /\ open' = open \ {s}
    /\ UNCHANGED <<ep, rbr, item, rdlist, rdnum, app, stack, abort>>

\* a new item, cleared; a socket that is already registered is refused
EpollCtlAdd(s, mask) ==
    /\ app = "idle"
    /\ ep
    /\ rbr[s] = None
    /\ \E i \in Items \ Registered :
          /\ rbr' = [rbr EXCEPT ![s] = i]
          /\ item' = [item EXCEPT ![i] = [rdy |-> FALSE, events |-> mask]]
    /\ UNCHANGED <<ep, open, rdlist, rdnum, app, stack, abort>>

\* the item leaves the tree and is freed; the ready list is not looked at
EpollCtlDel(s) ==
    /\ app = "idle"
    /\ ep
    /\ rbr[s] # None
    /\ Quiet(rbr[s])
    /\ rbr' = [rbr EXCEPT ![s] = None]
    /\ UNCHANGED <<ep, open, item, rdlist, rdnum, app, stack, abort>>

EpollCtlMod(s, mask) ==
    /\ app = "idle"
    /\ ep
    /\ rbr[s] # None
    /\ item' = [item EXCEPT ![rbr[s]].events = mask \cup {"ERR"}]
    /\ UNCHANGED <<ep, open, rbr, rdlist, rdnum, app, stack, abort>>

WaitCheck_Unchecked ==
    /\ app = "idle"
    /\ ep
    /\ app' = "waiting"
    /\ UNCHANGED <<ep, open, rbr, item, rdlist, rdnum, stack, abort>>

\* epoll_wait with cdmtx held: wait while nothing is ready
WaitCheck ==
    /\ app = "idle"
    /\ ep
    /\ app' = IF rdnum = 0 THEN "waiting" ELSE "collect"
    /\ UNCHANGED <<ep, open, rbr, item, rdlist, rdnum, stack, abort>>

\* pthread_cond_timedwait times out, or timeout was 0
WaitTimeout ==
    /\ app = "waiting"
    /\ app' = "collect"
    /\ UNCHANGED <<ep, open, rbr, item, rdlist, rdnum, stack, abort>>

Taken == LET num == IF rdnum > MaxEvents THEN MaxEvents ELSE rdnum
         IN  IF num > Len(rdlist) THEN Len(rdlist) ELSE num

\* epoll_wait with the spin lock held: the first items of the list
Collect ==
    /\ app = "collect"
    /\ LET ready == {rdlist[k] : k \in 1 .. Taken}
       IN  item' = [i \in Items |->
                      IF i \in ready THEN [item[i] EXCEPT !.rdy = FALSE]
                                     ELSE item[i]]
    /\ rdlist' = SubSeq(rdlist, Taken + 1, Len(rdlist))
    /\ rdnum' = rdnum - Taken
    /\ app' = "idle"
    /\ UNCHANGED <<ep, open, rbr, stack, abort>>

\* epoll_destroy empties the list and the tree and frees the items; the
\* callback no longer finds the instance
nty_epoll_close_socket ==
    /\ app = "idle"
    /\ ep
    /\ \A i \in Registered : Quiet(i)
    /\ QuietDeletes => stack = Idle
    /\ ep' = FALSE
    /\ rbr' = [s \in Sockets |-> None]
    /\ rdlist' = <<>>
    /\ UNCHANGED <<open, item, rdnum, app, stack, abort>>
-----------------------------------------------------------------------------
(* The stack thread: epoll_event_callback for a socket with an event.       *)

CallbackFind_NoRdyCheck(s) ==
    /\ stack = Idle
    /\ ep
    /\ s \in open
    /\ EarlyEvents \/ rbr[s] # None
    /\ abort' = (rbr[s] = None)
    /\ stack' = IF rbr[s] = None THEN Idle
                ELSE [at |-> "insert", item |-> rbr[s]]
    /\ UNCHANGED <<ep, open, rbr, item, rdlist, rdnum, app>>

\* the search, and the reading of rdy: an item that is not found aborts
CallbackFind(s) ==
    /\ stack = Idle
    /\ ep
    /\ s \in open
    /\ EarlyEvents \/ rbr[s] # None
    /\ abort' = (rbr[s] = None)
    /\ stack' = IF rbr[s] = None THEN Idle
                ELSE [at |-> IF item[rbr[s]].rdy THEN "merge" ELSE "insert",
                      item |-> rbr[s]]
    /\ UNCHANGED <<ep, open, rbr, item, rdlist, rdnum, app>>

\* the item is ready: the event is merged into its mask
CallbackMerge ==
    /\ stack.at = "merge"
    /\ item' = [item EXCEPT ![stack.item].events = @ \cup {"IN"}]
    /\ stack' = Idle
    /\ UNCHANGED <<ep, open, rbr, rdlist, rdnum, app, abort>>

\* the item becomes ready, under the spin lock
CallbackInsert ==
    /\ stack.at = "insert"
    /\ item' = [item EXCEPT ![stack.item].rdy = TRUE]
    /\ rdlist' = <<stack.item>> \o rdlist
    /\ rdnum' = rdnum + 1
    /\ stack' = [stack EXCEPT !.at = "signal"]
    /\ UNCHANGED <<ep, open, rbr, app, abort>>

CallbackSignal_Dropped ==
    /\ stack.at = "signal"
    /\ stack' = Idle
    /\ UNCHANGED <<ep, open, rbr, item, rdlist, rdnum, app, abort>>

\* pthread_cond_signal, under cdmtx; the waiter looks at rdnum again
CallbackSignal ==
    /\ stack.at = "signal"
    /\ app' = IF app = "waiting" THEN "idle" ELSE app
    /\ stack' = Idle
    /\ UNCHANGED <<ep, open, rbr, item, rdlist, rdnum, abort>>
-----------------------------------------------------------------------------
epoll_wait == WaitCheck \/ Collect

Application ==
    \/ epoll_create
    \/ nty_epoll_close_socket
    \/ WaitTimeout
    \/ epoll_wait
    \/ \E s \in Sockets :
          \/ accept(s)
          \/ close(s)
          \/ EpollCtlDel(s)
          \/ \E mask \in {{"IN"}, {"IN", "OUT"}} :
                EpollCtlAdd(s, mask) \/ EpollCtlMod(s, mask)

Callback == CallbackMerge \/ CallbackInsert \/ CallbackSignal

Next ==
    /\ ~ abort
    /\ Application \/ Callback \/ \E s \in Sockets : CallbackFind(s)

Spec == Init /\ [][Next]_vars

\* a callback that was entered goes on; the application loops in epoll_wait
FairSpec == Spec /\ WF_vars(Callback) /\ WF_vars(epoll_wait)
-----------------------------------------------------------------------------
TypeOK ==
    /\ ep \in BOOLEAN
    /\ open \subseteq Sockets
    /\ rbr \in [Sockets -> Items \cup {None}]
    /\ item \in [Items -> [rdy : BOOLEAN, events : SUBSET Events]]
    /\ rdlist \in Seq(Items)
    /\ rdnum \in Nat
    /\ app \in {"idle", "waiting", "collect"}
    /\ stack \in [at : {"idle", "merge", "insert", "signal"},
                  item : Items \cup {None}]
    /\ abort \in BOOLEAN

\* rdy means what its declaration says, "exist in list": a registered item is
\* ready exactly if it is on the ready list, and it is there once.
RdyIsListed ==
    /\ \A i \in Registered : item[i].rdy <=> i \in Listed
    /\ IsInjective(rdlist)

\* No wakeup is lost between the two locks: while epoll_wait sleeps over a
\* ready item, the callback is about to signal it.
WaiterIsSignalled ==
    app = "waiting" /\ rdnum > 0 => stack.at = "signal"

\* A ready item is returned by epoll_wait, whatever else the application and
\* the callback do, unless newer events keep going in front of it: the
\* callback inserts at the head of the list, where epoll_wait takes from.
ReadyIsReturned ==
    \A i \in Items : i \in Listed ~> i \notin Listed \/ stack.at = "insert"

\* An event that is merged into a ready item is merged into one on the list.
MergedIsListed == stack.at = "merge" => stack.item \in Listed

\* The assertion of the callback: an event is for a registered socket.
EventIsRegistered == ~ abort
=============================================================================
