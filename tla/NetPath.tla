------------------------------- MODULE NetPath -------------------------------
(***************************************************************************)
(* The way of a frame through the stack thread: the loop nty_tcp_run       *)
(* (nty_eth.c) over the netmap device (nty_nic.c), what ARP learns         *)
(* (nty_arp.c), how IP finds the address of a host (nty_ip.c), the echoes  *)
(* of ICMP and UDP, and the lists of streams that have something to send   *)
(* (nty_tcp_write_chunks).                                                 *)
(*                                                                         *)
(* Frames that TCP and ARP send are composed in one buffer, snd_pktbuf,    *)
(* which nty_nic_send_pkts injects when the device has no input; composing *)
(* the next frame overwrites one that was not sent.  A host has one        *)
(* connection, named like the host; what is said on it is in TcpStream.    *)
(* The device, the network and the hosts are modelled from how the stack   *)
(* uses them: frames can be lost, and a host sends IP to the stack once it *)
(* has its hardware address.                                               *)
(***************************************************************************)
EXTENDS Naturals, Sequences, SequencesExt

CONSTANTS Hosts,     \* the hosts of the link
          Cached,    \* those that have our address from before the stack began
          Kinds,     \* what they send
          Dests,     \* hardware addresses they send it to
          MaxInput,  \* bound on the frames they send of their own accord
          None

ASSUME HostsAssumption ==
    /\ Cached \subseteq Hosts
    /\ None \notin Hosts \cup {"SYN_RCVD", "ESTABLISHED"}

Self == "self"       \* NTY_SELF_MAC
Broadcast == "ff"
Mac(h) == <<h>>      \* the hardware address of a host

VARIABLES table,     \* global_arp_table: entries, in the order they came
          pending,   \* global_arp_manager.list: hosts asked for
          snd_pktbuf, \* the composed frame, or None
          dead,      \* host whose missing address was dereferenced, or None
          control_list, ack_list, send_list, \* streams of the sender
          flow,      \* state of the connection of each host
          sendq,     \* streams the application has queued data for
          pc,        \* where the loop is
          pollin,    \* what poll said of the input
          net,       \* frames the device has received
          wire,      \* frames on the way to the hosts
          knows,     \* hosts that have our hardware address
          nin        \* frames the hosts have sent of their own accord

lists == <<control_list, ack_list, send_list>>
env == <<wire, knows, nin>>

vars == <<table, pending, snd_pktbuf, dead, lists, flow, sendq, pc, pollin, net,
          env>>
-----------------------------------------------------------------------------
(* Composing frames.                                                        *)

\* the first entry for the address wins: all have the same prefix
GetDestinationHWaddr(ip) ==
    LET hits == {i \in 1 .. Len(table) : table[i].ip = ip}
    IN  IF hits = {} THEN None
        ELSE table[CHOOSE i \in hits : \A j \in hits : i <= j].haddr

Known(ip) == \E i \in 1 .. Len(table) : table[i].ip = ip

EthernetOutput(kind, dmac, dip) ==
    [kind |-> kind, smac |-> Self, dmac |-> dmac, dip |-> dip]

\* a segment of a stream, or the question for its host instead
IPOutput(h) ==
    IF Known(h) THEN EthernetOutput("tcp", GetDestinationHWaddr(h), h)
    ELSE EthernetOutput("arp_request", Broadcast, h)

\* a RST for a host without a connection, to the address that is found
IPOutputStandalone(h) == EthernetOutput("rst", GetDestinationHWaddr(h), h)

\* nty_arp_request asks once for a host: nothing is composed if it is pending
Composes(h) == Known(h) \/ h \notin pending

\* the last of a list to compose anything
LastComposing(list) ==
    {list[i] : i \in {k \in 1 .. Len(list) :
                        /\ Composes(list[k])
                        /\ \A j \in k + 1 .. Len(list) : ~Composes(list[j])}}

\* The segments of some streams, in turn.  Each is composed in the buffer
\* nty_nic_get_wbuffer returns, over the one before: that of the last stays.
Compose(streams, last) ==
    /\ pending' = pending \cup {h \in streams : ~Known(h)}
    /\ \/ last = {} /\ UNCHANGED snd_pktbuf
       \/ \E h \in last : snd_pktbuf' = IPOutput(h)
-----------------------------------------------------------------------------
(* The lists of the sender.  A stream of an unknown host stays at the head  *)
(* of the control list and ends the walk; it stays on the ack list; on the  *)
(* data list it goes to the tail and ends the walk, as does a stream that   *)
(* is on the control list, too.  The order of the ack list decides no more  *)
(* than which frame is the last: it is a set.                               *)

AddTo(list, h) == IF h \in ToSet(list) THEN list ELSE Append(list, h)

\* a walk serves the first n streams: the next, if there is one, fails
Serves(list, n, Test(_)) ==
    /\ \A i \in 1 .. n : Test(list[i])
    /\ n < Len(list) => ~Test(list[n + 1])

Goto(l) == pc' = l

\* poll, and what the application has queued: nty_tcp_handle_apicall is not
\* called without a flow
Poll ==
    LET takes == \E h \in Hosts : flow[h] # None
    IN  /\ pc = "poll"
        /\ pollin' = (net # << >>)
        /\ send_list' = IF takes THEN send_list \o sendq ELSE send_list
        /\ sendq' = IF takes THEN << >> ELSE sendq
        /\ Goto("control")
        /\ UNCHANGED <<table, pending, snd_pktbuf, dead, control_list, ack_list,
                       flow, net, env>>

write_controllist ==
    /\ pc = "control"
    /\ \E n \in 0 .. Len(control_list) :
          LET tried == SubSeq(control_list, 1,
                              IF n < Len(control_list) THEN n + 1 ELSE n)
          IN  /\ Serves(control_list, n, Known)
              /\ Compose(ToSet(tried), LastComposing(tried))
              /\ control_list' = SubSeq(control_list, n + 1, Len(control_list))
    /\ Goto("ack")
    /\ UNCHANGED <<table, dead, ack_list, send_list, flow, sendq, pollin, net, env>>

write_acklist ==
    /\ pc = "ack"
    /\ Compose(ack_list, {h \in ack_list : Composes(h)})
    /\ ack_list' = {h \in ack_list : ~Known(h)}
    /\ Goto("data")
    /\ UNCHANGED <<table, dead, control_list, send_list, flow, sendq, pollin, net,
                   env>>

\* a stream whose control packet waits is put off
PutOff(h) == flow[h] = "ESTABLISHED" /\ h \in ToSet(control_list)

Flushes(h) == Known(h) /\ ~PutOff(h)

write_datalist ==
    /\ pc = "data"
    /\ \E n \in 0 .. Len(send_list) :
          LET fails == n < Len(send_list)
              tried == SubSeq(send_list, 1,
                              IF fails /\ ~PutOff(send_list[n + 1])
                              THEN n + 1 ELSE n)
          IN  /\ Serves(send_list, n, Flushes)
              /\ Compose(ToSet(tried), LastComposing(tried))
              /\ send_list' =
                    IF fails
                    THEN Append(SubSeq(send_list, n + 2, Len(send_list)),
                                send_list[n + 1])
                    ELSE << >>
    /\ Goto("io")
    /\ UNCHANGED <<table, dead, control_list, ack_list, flow, sendq, pollin, net,
                   env>>
-----------------------------------------------------------------------------
(* Input: the frame nty_nic_read returns.                                   *)

Reads(kinds) ==
    /\ pc = "io" /\ pollin
    /\ Head(net).kind \in kinds
    /\ net' = Tail(net)
    /\ Goto("poll")
    /\ UNCHANGED <<pollin, knows, nin>>

nty_arp_register_entry_Always(ip, haddr) ==
    table' = Append(table, [ip |-> ip, haddr |-> haddr])

\* an address that is known is left as it is
nty_arp_register_entry(ip, haddr) ==
    table' = IF Known(ip) THEN table
             ELSE Append(table, [ip |-> ip, haddr |-> haddr])

nty_arp_process_request_Forgets(f) ==
    /\ snd_pktbuf' = EthernetOutput("arp_reply", f.smac, f.sip)
    /\ UNCHANGED <<table, pending>>

nty_arp_process_request(f) ==
    /\ nty_arp_register_entry(f.sip, f.smac)
    /\ snd_pktbuf' = EthernetOutput("arp_reply", f.smac, f.sip)
    /\ UNCHANGED pending

nty_arp_process_reply_OnlyPending(f) ==
    /\ pending' = pending \ {f.sip}
    /\ UNCHANGED <<table, snd_pktbuf>>

nty_arp_process_reply(f) ==
    /\ nty_arp_register_entry(f.sip, f.smac)
    /\ pending' = pending \ {f.sip}
    /\ UNCHANGED snd_pktbuf

\* a frame about another host is left alone
nty_arp_process ==
    /\ Reads({"arp_request", "arp_reply"})
    /\ LET f == Head(net)
       IN  \/ /\ f.dip = Self /\ f.kind = "arp_request"
              /\ nty_arp_process_request(f)
           \/ /\ f.dip = Self /\ f.kind = "arp_reply"
              /\ nty_arp_process_reply(f)
           \/ f.dip # Self /\ UNCHANGED <<table, pending, snd_pktbuf>>
    /\ UNCHANGED <<dead, lists, flow, sendq, wire>>

\* the frame an echo sends back: the addresses of the request, exchanged
nty_udp_pkt_SameEthernet(f) ==
    [kind |-> f.kind, smac |-> f.smac, dmac |-> f.dmac, dip |-> f.sip]

nty_udp_pkt(f) ==
    [kind |-> f.kind, smac |-> f.dmac, dmac |-> f.smac, dip |-> f.sip]

\* ICMP and UDP answer past the buffer (nty_nic_write): the frame is lost if
\* the device has no room
Echo ==
    /\ Reads({"icmp", "udp"})
    /\ \/ wire' = wire \cup {nty_udp_pkt(Head(net))}
       \/ wire' = wire
    /\ UNCHANGED <<table, pending, snd_pktbuf, dead, lists, flow, sendq>>

Segments == {"syn", "seg", "rst"}

\* A segment that belongs to no connection.  A SYN makes one, unless there is
\* no listener or no memory for it; a RST is ignored; anything else, and the
\* refused SYN, is answered with a RST: IPOutputStandalone does not test the
\* address it finds, and EthernetOutput reads through it.
nty_create_stream ==
    /\ Reads(Segments)
    /\ flow[Head(net).sip] = None
    /\ LET f == Head(net)
       IN  \/ /\ f.kind = "syn"
              /\ flow' = [flow EXCEPT ![f.sip] = "SYN_RCVD"]
              /\ control_list' = AddTo(control_list, f.sip)
              /\ UNCHANGED <<snd_pktbuf, dead>>
           \/ f.kind = "rst" /\ UNCHANGED <<flow, control_list, snd_pktbuf, dead>>
           \/ /\ f.kind \in {"syn", "seg"}
              /\ Known(f.sip)
              /\ snd_pktbuf' = IPOutputStandalone(f.sip)
              /\ UNCHANGED <<flow, control_list, dead>>
           \/ /\ f.kind \in {"syn", "seg"}
              /\ ~Known(f.sip)
              /\ dead' = f.sip
              /\ UNCHANGED <<flow, control_list, snd_pktbuf>>
    /\ UNCHANGED <<table, pending, ack_list, send_list, sendq, wire>>

\* TAILQ_REMOVE: a stream is on a list at most once
Without(list, h) ==
    IF h \notin ToSet(list) THEN list
    ELSE RemoveAt(list, CHOOSE i \in 1 .. Len(list) : list[i] = h)

\* A segment of a connection, as far as it changes what is on the lists: the
\* acknowledgment of the SYN is answered with nothing, a repeated SYN with the
\* control packet, the rest with an acknowledgment; a RST ends the connection.
\* (DestroyTcpStream leaves the stream in sendq, which is a matter of TcpStream;
\* here it is taken out.)
nty_tcp_process ==
    /\ Reads(Segments)
    /\ flow[Head(net).sip] # None
    /\ LET f == Head(net)
           h == f.sip
       IN  \/ /\ f.kind = "rst"
              /\ flow' = [flow EXCEPT ![h] = None]
              /\ control_list' = Without(control_list, h)
              /\ ack_list' = ack_list \ {h}
              /\ send_list' = Without(send_list, h)
              /\ sendq' = Without(sendq, h)
           \/ /\ f.kind # "rst" /\ flow[h] = "SYN_RCVD"
              /\ IF f.kind = "seg"
                 THEN /\ flow' = [flow EXCEPT ![h] = "ESTABLISHED"]
                      /\ UNCHANGED <<lists, sendq>>
                 ELSE /\ control_list' = AddTo(control_list, h)
                      /\ UNCHANGED <<flow, ack_list, send_list, sendq>>
           \/ /\ f.kind # "rst" /\ flow[h] = "ESTABLISHED"
              /\ ack_list' = ack_list \cup {h}
              /\ UNCHANGED <<flow, control_list, send_list, sendq>>
    /\ UNCHANGED <<table, pending, snd_pktbuf, dead, wire>>

nty_nic_send_pkts_KeepsSize ==
    /\ pc = "io" /\ ~pollin
    /\ wire' = wire \cup ({snd_pktbuf} \ {None})
    /\ Goto("poll")
    /\ UNCHANGED <<table, pending, snd_pktbuf, dead, lists, flow, sendq, pollin,
                   net, knows, nin>>

\* without input, the buffer is sent (poll has found room, then)
nty_nic_send_pkts ==
    /\ pc = "io" /\ ~pollin
    /\ wire' = wire \cup ({snd_pktbuf} \ {None})
    /\ snd_pktbuf' = None
    /\ Goto("poll")
    /\ UNCHANGED <<table, pending, dead, lists, flow, sendq, pollin, net, knows,
                   nin>>

nty_tcp_run ==
    /\ dead = None
    /\ \/ Poll \/ write_controllist \/ write_acklist \/ write_datalist
       \/ nty_arp_process \/ Echo \/ nty_create_stream \/ nty_tcp_process
       \/ nty_nic_send_pkts

\* send queues the stream of an established connection, unless it is queued or
\* on the list
nty_send(h) ==
    /\ flow[h] = "ESTABLISHED"
    /\ h \notin ToSet(sendq) \cup ToSet(send_list)
    /\ sendq' = Append(sendq, h)
    /\ UNCHANGED <<table, pending, snd_pktbuf, dead, lists, flow, pc, pollin, net,
                   env>>
-----------------------------------------------------------------------------
Init ==
    /\ table = << >>
    /\ pending = {}
    /\ snd_pktbuf = None
    /\ dead = None
    /\ control_list = << >>
    /\ ack_list = {}
    /\ send_list = << >>
    /\ flow = [h \in Hosts |-> None]
    /\ sendq = << >>
    /\ pc = "poll"
    /\ pollin = FALSE
    /\ net = << >>
    /\ wire = {}
    /\ knows = Cached
    /\ nin = 0
-----------------------------------------------------------------------------
(* The hosts and the network.                                               *)

stack == <<table, pending, snd_pktbuf, dead, lists, flow, sendq, pc, pollin>>

Arrives(h, kind, dmac, dip) ==
    net' = Append(net, [kind |-> kind, smac |-> Mac(h), dmac |-> dmac,
                        sip |-> h, dip |-> dip])

\* a host asks for us, or for somebody else
HostAsks(h) ==
    /\ nin < MaxInput
    /\ nin' = nin + 1
    /\ \/ h \notin knows /\ Arrives(h, "arp_request", Broadcast, Self)
       \/ Arrives(h, "arp_request", Broadcast, None)
    /\ UNCHANGED <<stack, wire, knows>>

HostSends(h) ==
    /\ h \in knows
    /\ nin < MaxInput
    /\ nin' = nin + 1
    /\ \E kind \in Kinds, dmac \in Dests : Arrives(h, kind, dmac, Self)
    /\ UNCHANGED <<stack, wire, knows>>

\* a host takes a frame for it, and answers a question for its address
HostReceives(f) ==
    /\ wire' = wire \ {f}
    /\ knows' = IF f.kind \in {"arp_request", "arp_reply"}
                THEN knows \cup {f.dip} ELSE knows
    /\ IF f.kind = "arp_request" THEN Arrives(f.dip, "arp_reply", Self, Self)
       ELSE UNCHANGED net
    /\ UNCHANGED <<stack, nin>>

\* the network loses it
Lost(f) ==
    /\ wire' = wire \ {f}
    /\ UNCHANGED <<stack, net, knows, nin>>

Next ==
    \/ nty_tcp_run
    \/ \E h \in Hosts : nty_send(h) \/ HostAsks(h) \/ HostSends(h)
    \/ \E f \in wire : HostReceives(f) \/ Lost(f)

Spec == Init /\ [][Next]_vars

\* The stack thread keeps looping, and the device has room again and again.
\* Nothing is assumed of the hosts, the network and the application.
FairSpec == Spec /\ WF_vars(nty_tcp_run)
-----------------------------------------------------------------------------
\* What ARP keeps is one entry for each host that asked or answered, and it is
\* the host's own: the table, which is not searched for room, grows with the
\* hosts of the link and not with their questions.
OneEntryPerHost ==
    /\ \A i \in 1 .. Len(table) : table[i].haddr = Mac(table[i].ip)
    /\ \A i, j \in 1 .. Len(table) : table[i].ip = table[j].ip => i = j

\* The null pointer IPOutputStandalone leaves to EthernetOutput is met only for
\* a host that has our address from before the stack began: whoever learns it
\* later is in the table by then.
NullOnlyForCached == dead # None => dead \in Cached

\* A frame goes to the host it is for, from our hardware address: what is
\* composed from the table and what is echoed from a request alike.
FramesAreAddressed ==
    \A f \in wire \cup ({snd_pktbuf} \ {None}) :
       /\ f.smac = Self
       /\ f.dmac = IF f.kind = "arp_request" THEN Broadcast ELSE Mac(f.dip)

\* A host's reply ends the wait of its stream at the head of the control list,
\* through the table, the list of hosts asked for and the next walk of the
\* list.
ReplyUnblocksHead ==
    \A h \in Hosts :
       /\ control_list # << >> /\ Head(control_list) = h
       /\ \E i \in 1 .. Len(net) : net[i].kind = "arp_reply" /\ net[i].sip = h
       ~> h \notin ToSet(control_list) \/ dead # None

\* What is composed does not stay in the buffer: once the input ends, it is
\* sent.
BufferDrains == snd_pktbuf # None ~> snd_pktbuf = None \/ dead # None

\* The code has none of the following; the README tells how each fails.

\* Nothing that was composed is overwritten before it is sent.
NothingOverwritten ==
    [][snd_pktbuf # None /\ snd_pktbuf' # snd_pktbuf =>
          snd_pktbuf' = None /\ snd_pktbuf \in wire']_vars

\* A stream on the control list is served.
ControlIsServed ==
    \A h \in Hosts :
       h \in ToSet(control_list) ~> h \notin ToSet(control_list) \/ dead # None
==============================================================================
