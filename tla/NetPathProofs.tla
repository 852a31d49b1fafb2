---------------------------- MODULE NetPathProofs ----------------------------
(***************************************************************************)
(* Proofs about NetPath for any hosts and any input.  Whether a host is in *)
(* the table when the stack has something to say to it depends on the way  *)
(* its address took: through the host's own table, its frames, the lists   *)
(* and connections they lead to, and the frames those compose.  The        *)
(* invariant follows it: whoever is met anywhere is in the table, or had   *)
(* our address from before.                                                *)
(***************************************************************************)
EXTENDS NetPath, SequenceTheorems, TLAPS

Arp == {"arp_request", "arp_reply"}
Composed == Arp \cup {"tcp", "rst"}
Macs == {Mac(h) : h \in Hosts}
Entries == [ip : Hosts, haddr : Macs]

\* the hosts that the stack may meet
Reached == Cached \cup {table[i].ip : i \in 1 .. Len(table)}

\* frames that can arrive when the hosts R may be met
In(R) == {f \in [kind : Kinds \cup Arp, smac : Macs,
                 dmac : Dests \cup {Self, Broadcast},
                 sip : Hosts, dip : {Self, None}] :
            /\ f.smac = Mac(f.sip)
            /\ f.kind \notin Arp => f.sip \in R /\ f.dmac \in Dests}

Addressed(f) ==
    /\ f.smac = Self
    /\ f.dmac = IF f.kind = "arp_request" THEN Broadcast ELSE Mac(f.dip)

\* and frames that can be composed or injected
Out(R) == {f \in [kind : Kinds \cup Composed,
                  smac : Dests \cup {Self},
                  dmac : Macs \cup {Broadcast}, dip : Hosts] :
             /\ f.dip \in R
             /\ Dests = {Self} => Addressed(f)}

Labels == {"poll", "control", "ack", "data", "io"}

TableInv ==
    /\ table \in Seq(Entries)
    /\ OneEntryPerHost

LoopInv ==
    /\ pc \in Labels
    /\ pollin \in BOOLEAN
    /\ pollin /\ pc # "poll" => net # << >>

StreamsInv ==
    /\ control_list \in Seq(Reached)
    /\ send_list \in Seq(Reached)
    /\ sendq \in Seq(Reached)
    /\ ack_list \subseteq Reached
    /\ flow \in [Hosts -> {None, "SYN_RCVD", "ESTABLISHED"}]
    /\ \A h \in Hosts : flow[h] # None => h \in Reached

FramesInv ==
    /\ net \in Seq(In(Reached))
    /\ wire \subseteq Out(Reached)
    /\ snd_pktbuf \in Out(Reached) \cup {None}
    /\ knows \subseteq Reached

IInv ==
    /\ TableInv
    /\ LoopInv
    /\ StreamsInv
    /\ FramesInv
    /\ NullOnlyForCached
-----------------------------------------------------------------------------
\* Sequences over a set are sequences over a larger one.
LEMMA SeqMonotone ==
    ASSUME NEW S, NEW T, S \subseteq T PROVE Seq(S) \subseteq Seq(T)
  OBVIOUS

\* The parts that speak of the hosts met only gain by meeting more.
LEMMA InMonotone ==
    ASSUME NEW R, NEW T, R \subseteq T PROVE In(R) \subseteq In(T)
  BY DEF In

LEMMA OutMonotone ==
    ASSUME NEW R, NEW T, R \subseteq T PROVE Out(R) \subseteq Out(T)
  BY DEF Out

LEMMA ReachedInHosts == TableInv => Reached \subseteq Hosts
<1>1. TableInv => \A i \in 1 .. Len(table) : table[i] \in Entries
  BY ElementOfSeq DEF TableInv
<1> QED
  BY <1>1, HostsAssumption DEF Reached, Entries

\* The address found for a known host is its own.
LEMMA LookupIsMac ==
    ASSUME TableInv, NEW h, Known(h)
    PROVE  GetDestinationHWaddr(h) = Mac(h)
<1> DEFINE hits == {i \in 1 .. Len(table) : table[i].ip = h}
<1>1. PICK i \in 1 .. Len(table) : table[i].ip = h
  BY DEF Known
<1>2. hits = {i}
  BY <1>1 DEF TableInv, OneEntryPerHost
<1>3. (CHOOSE k \in hits : \A j \in hits : k <= j) = i
  BY <1>2
<1>4. table[i].haddr = Mac(h)
  BY <1>1 DEF TableInv, OneEntryPerHost
<1> QED
  BY <1>2, <1>3, <1>4 DEF GetDestinationHWaddr

\* A frame of ours to a host that is met is a proper frame.
LEMMA OwnFrameIsOut ==
    ASSUME NEW k \in Composed, NEW h \in Hosts, NEW R, h \in R,
           NEW d, d = IF k = "arp_request" THEN Broadcast ELSE Mac(h)
    PROVE  EthernetOutput(k, d, h) \in Out(R)
<1> DEFINE f == [kind |-> k, smac |-> Self, dmac |-> d, dip |-> h]
<1>1. Mac(h) \in Macs
  BY DEF Macs
<1>2. f \in [kind : Kinds \cup Composed, smac : Dests \cup {Self},
             dmac : Macs \cup {Broadcast}, dip : Hosts]
  BY <1>1
<1>3. Addressed(f)
  BY DEF Addressed
<1> HIDE DEF f
<1>4. f.dip \in R
  BY DEF f
<1>5. f \in Out(R)
  BY <1>2, <1>3, <1>4 DEF Out
<1> QED
  BY <1>5 DEF f, EthernetOutput

\* What IPOutput composes for a host that is met is a proper frame.
LEMMA IPOutputIsOut ==
    ASSUME TableInv, NEW h \in Reached
    PROVE  IPOutput(h) \in Out(Reached)
<1>1. h \in Hosts
  BY ReachedInHosts
<1>2. CASE Known(h)
  BY <1>1, <1>2, LookupIsMac, OwnFrameIsOut DEF IPOutput, Composed
<1>3. CASE ~Known(h)
  BY <1>1, <1>3, OwnFrameIsOut DEF IPOutput, Composed, Arp
<1> QED
  BY <1>2, <1>3

\* Composing leaves a proper frame in the buffer.
LEMMA ComposeIsOut ==
    ASSUME TableInv, NEW S \in SUBSET Reached, NEW L \in SUBSET Reached,
           snd_pktbuf \in Out(Reached) \cup {None},
           Compose(S, L)
    PROVE  snd_pktbuf' \in Out(Reached) \cup {None}
  BY IPOutputIsOut DEF Compose

LEMMA LastComposingOfList ==
    ASSUME NEW R, NEW list \in Seq(R)
    PROVE  LastComposing(list) \subseteq R /\ ToSet(list) \subseteq R
  BY DEF LastComposing, ToSet
-----------------------------------------------------------------------------
\* Steps that leave the table alone meet nobody new.
LEMMA SameTable ==
    ASSUME UNCHANGED table
    PROVE  Reached' = Reached /\ (TableInv => TableInv')
  BY DEF Reached, TableInv, OneEntryPerHost

\* taking a stream off a list
LEMMA WithoutIsSeq ==
    ASSUME NEW R, NEW list \in Seq(R), NEW h
    PROVE  Without(list, h) \in Seq(R)
<1>1. CASE h \notin ToSet(list)
  BY <1>1 DEF Without
<1>2. CASE h \in ToSet(list)
  <2> DEFINE i == CHOOSE k \in 1 .. Len(list) : list[k] = h
  <2>1. i \in 1 .. Len(list)
    BY <1>2 DEF ToSet
  <2> HIDE DEF i
  <2>2. SubSeq(list, 1, i - 1) \in Seq(R) /\ SubSeq(list, i + 1, Len(list)) \in Seq(R)
    BY <2>1
  <2>3. RemoveAt(list, i) \in Seq(R)
    BY <2>2 DEF RemoveAt
  <2> QED
    BY <1>2, <2>3 DEF Without, i
<1> QED
  BY <1>1, <1>2

LEMMA AddToIsSeq ==
    ASSUME NEW R, NEW list \in Seq(R), NEW h \in R
    PROVE  AddTo(list, h) \in Seq(R)
  BY DEF AddTo

LEMMA InitIInv == Init => IInv
<1> SUFFICES ASSUME Init PROVE IInv
  OBVIOUS
<1>1. TableInv
  BY DEF Init, TableInv, OneEntryPerHost
<1>2. LoopInv
  BY DEF Init, LoopInv, Labels
<1>3. StreamsInv
  BY DEF Init, StreamsInv
<1>4. FramesInv
  BY DEF Init, FramesInv, Reached
<1>5. NullOnlyForCached
  BY DEF Init, NullOnlyForCached
<1> QED
  BY <1>1, <1>2, <1>3, <1>4, <1>5 DEF IInv

LEMMA PollIInv == ASSUME IInv, Poll PROVE IInv'
<1> USE DEF Poll, Goto, env
<1>1. Reached' = Reached /\ TableInv'
  BY SameTable DEF IInv
<1>2. LoopInv'
  BY DEF IInv, LoopInv, Labels
<1>3. StreamsInv'
  BY <1>1 DEF IInv, StreamsInv
<1>4. FramesInv'
  BY <1>1 DEF IInv, FramesInv
<1>5. NullOnlyForCached'
  BY DEF IInv, NullOnlyForCached
<1> QED
  BY <1>1, <1>2, <1>3, <1>4, <1>5 DEF IInv

LEMMA ControlIInv == ASSUME IInv, write_controllist PROVE IInv'
<1> USE DEF write_controllist, Goto, env
<1>1. Reached' = Reached /\ TableInv'
  BY SameTable DEF IInv
<1>2. LoopInv'
  BY DEF IInv, LoopInv, Labels
<1>3. PICK n \in 0 .. Len(control_list) :
        /\ Compose(ToSet(SubSeq(control_list, 1, IF n < Len(control_list)
                                                 THEN n + 1 ELSE n)),
                   LastComposing(SubSeq(control_list, 1,
                                  IF n < Len(control_list) THEN n + 1 ELSE n)))
        /\ control_list' = SubSeq(control_list, n + 1, Len(control_list))
  OBVIOUS
<1> DEFINE tried == SubSeq(control_list, 1, IF n < Len(control_list)
                                            THEN n + 1 ELSE n)
<1>4. control_list \in Seq(Reached) /\ Len(control_list) \in Nat
  BY DEF IInv, StreamsInv
<1>5. tried \in Seq(Reached) /\ control_list' \in Seq(Reached)
  BY <1>3, <1>4
<1>6. snd_pktbuf' \in Out(Reached) \cup {None}
  <2> HIDE DEF tried
  <2>1. LastComposing(tried) \subseteq Reached /\ ToSet(tried) \subseteq Reached
    BY <1>5, LastComposingOfList
  <2> QED
    BY <1>3, <2>1, ComposeIsOut DEF IInv, FramesInv, tried
<1>7. StreamsInv'
  BY <1>1, <1>5 DEF IInv, StreamsInv
<1>8. FramesInv'
  BY <1>1, <1>6 DEF IInv, FramesInv
<1>9. NullOnlyForCached'
  BY DEF IInv, NullOnlyForCached
<1> QED
  BY <1>1, <1>2, <1>7, <1>8, <1>9 DEF IInv
LEMMA AckIInv == ASSUME IInv, write_acklist PROVE IInv'
<1> USE DEF write_acklist, Goto, env
<1>1. Reached' = Reached /\ TableInv'
  BY SameTable DEF IInv
<1>2. LoopInv'
  BY DEF IInv, LoopInv, Labels
<1>3. snd_pktbuf' \in Out(Reached) \cup {None}
  <2>1. /\ ack_list \in SUBSET Reached
        /\ {h \in ack_list : Composes(h)} \in SUBSET Reached
    BY DEF IInv, StreamsInv
  <2> QED
    BY <2>1, ComposeIsOut DEF IInv, FramesInv
<1>4. StreamsInv'
  BY <1>1 DEF IInv, StreamsInv
<1>5. FramesInv'
  BY <1>1, <1>3 DEF IInv, FramesInv
<1>6. NullOnlyForCached'
  BY DEF IInv, NullOnlyForCached
<1> QED
  BY <1>1, <1>2, <1>4, <1>5, <1>6 DEF IInv

LEMMA DataIInv == ASSUME IInv, write_datalist PROVE IInv'
<1> USE DEF write_datalist, Goto, env
<1>1. Reached' = Reached /\ TableInv'
  BY SameTable DEF IInv
<1>2. LoopInv'
  BY DEF IInv, LoopInv, Labels
<1> DEFINE Tried(n) == SubSeq(send_list, 1,
                              IF n < Len(send_list) /\ ~PutOff(send_list[n + 1])
                              THEN n + 1 ELSE n)
<1>3. PICK n \in 0 .. Len(send_list) :
        /\ Compose(ToSet(Tried(n)), LastComposing(Tried(n)))
        /\ send_list' = IF n < Len(send_list)
                        THEN Append(SubSeq(send_list, n + 2, Len(send_list)),
                                    send_list[n + 1])
                        ELSE << >>
  OBVIOUS
<1>4. send_list \in Seq(Reached) /\ Len(send_list) \in Nat
  BY DEF IInv, StreamsInv
<1>5. Tried(n) \in Seq(Reached)
  BY <1>3, <1>4
<1>6. send_list' \in Seq(Reached)
  <2>1. CASE n < Len(send_list)
    <3>1. send_list[n + 1] \in Reached
      BY <1>4, <2>1
    <3>2. SubSeq(send_list, n + 2, Len(send_list)) \in Seq(Reached)
      BY <1>4, <2>1
    <3> QED
      BY <1>3, <2>1, <3>1, <3>2
  <2>2. CASE ~(n < Len(send_list))
    BY <1>3, <2>2
  <2> QED
    BY <2>1, <2>2
<1>7. snd_pktbuf' \in Out(Reached) \cup {None}
  <2> HIDE DEF Tried
  <2>1. LastComposing(Tried(n)) \subseteq Reached /\ ToSet(Tried(n)) \subseteq Reached
    BY <1>5, LastComposingOfList
  <2> QED
    BY <1>3, <2>1, ComposeIsOut DEF IInv, FramesInv
<1>8. StreamsInv'
  BY <1>1, <1>6 DEF IInv, StreamsInv
<1>9. FramesInv'
  BY <1>1, <1>7 DEF IInv, FramesInv
<1>10. NullOnlyForCached'
  BY DEF IInv, NullOnlyForCached
<1> QED
  BY <1>1, <1>2, <1>8, <1>9, <1>10 DEF IInv

\* The frame that is read, and what is left.
LEMMA ReadsFrame ==
    ASSUME IInv, NEW K, Reads(K)
    PROVE  /\ Head(net) \in In(Reached)
           /\ net' \in Seq(In(Reached))
           /\ LoopInv'
<1>1. net \in Seq(In(Reached)) /\ net # << >>
  BY DEF IInv, FramesInv, LoopInv, Reads
<1>2. Head(net) \in In(Reached) /\ Tail(net) \in Seq(In(Reached))
  BY <1>1, HeadTailProperties
<1>3. LoopInv'
  BY DEF IInv, LoopInv, Reads, Goto, Labels
<1> QED
  BY <1>2, <1>3 DEF Reads

LEMMA EchoIInv == ASSUME IInv, Echo PROVE IInv'
<1> USE DEF Echo, lists
<1>1. Reached' = Reached /\ TableInv'
  BY SameTable DEF IInv
<1> DEFINE f == Head(net)
<1>2. f \in In(Reached) /\ net' \in Seq(In(Reached)) /\ LoopInv'
  BY ReadsFrame
<1>3. f.kind \in {"icmp", "udp"}
  BY DEF Reads
<1>4. nty_udp_pkt(f) \in Out(Reached)
  <2> HIDE DEF f
  <2>1. /\ f.smac = Mac(f.sip) /\ f.sip \in Reached /\ f.dmac \in Dests
        /\ f.kind \in Kinds /\ f.sip \in Hosts /\ f.smac \in Macs
    BY <1>2, <1>3 DEF In, Arp
  <2> DEFINE g == [kind |-> f.kind, smac |-> f.dmac, dmac |-> f.smac,
                   dip |-> f.sip]
  <2>2. g \in [kind : Kinds \cup Composed, smac : Dests \cup {Self},
               dmac : Macs \cup {Broadcast}, dip : Hosts]
    BY <2>1
  <2>3. Dests = {Self} => Addressed(g)
    BY <2>1, <1>3 DEF Addressed
  <2>4. g.dip \in Reached
    BY <2>1
  <2> HIDE DEF g
  <2>5. g \in Out(Reached)
    BY <2>2, <2>3, <2>4 DEF Out
  <2> QED
    BY <2>5 DEF g, nty_udp_pkt
<1>5. StreamsInv'
  BY <1>1 DEF IInv, StreamsInv
<1>6. FramesInv'
  BY <1>1, <1>2, <1>4 DEF IInv, FramesInv, Reads
<1>7. NullOnlyForCached'
  BY DEF IInv, NullOnlyForCached
<1> QED
  BY <1>1, <1>2, <1>5, <1>6, <1>7 DEF IInv

LEMMA SendPktsIInv == ASSUME IInv, nty_nic_send_pkts PROVE IInv'
<1> USE DEF nty_nic_send_pkts, lists, Goto
<1>1. Reached' = Reached /\ TableInv'
  BY SameTable DEF IInv
<1>2. LoopInv'
  BY DEF IInv, LoopInv, Labels
<1>3. StreamsInv'
  BY <1>1 DEF IInv, StreamsInv
<1>4. FramesInv'
  BY <1>1 DEF IInv, FramesInv
<1>5. NullOnlyForCached'
  BY DEF IInv, NullOnlyForCached
<1> QED
  BY <1>1, <1>2, <1>3, <1>4, <1>5 DEF IInv
-----------------------------------------------------------------------------
\* Registering a host keeps one entry for each, and the host is met after it.
LEMMA RegisterEntry ==
    ASSUME TableInv, NEW h \in Hosts, nty_arp_register_entry(h, Mac(h))
    PROVE  TableInv' /\ Reached \subseteq Reached' /\ h \in Reached'
<1>1. CASE Known(h)
  <2>1. table' = table
    BY <1>1 DEF nty_arp_register_entry
  <2>2. Reached' = Reached /\ TableInv'
    BY <2>1, SameTable
  <2>3. h \in Reached
    BY <1>1 DEF Known, Reached
  <2> QED
    BY <2>2, <2>3
<1>2. CASE ~Known(h)
  <2> DEFINE e == [ip |-> h, haddr |-> Mac(h)]
  <2>1. e \in Entries /\ e.ip = h /\ e.haddr = Mac(h)
    BY DEF Entries, Macs
  <2>2. table' = Append(table, e)
    BY <1>2 DEF nty_arp_register_entry
  <2> HIDE DEF e
  <2>3. table \in Seq(Entries) /\ Len(table) \in Nat
    BY DEF TableInv
  <2>4. /\ table' \in Seq(Entries)
        /\ Len(table') = Len(table) + 1
        /\ \A i \in 1 .. Len(table) : table'[i] = table[i]
        /\ table'[Len(table) + 1] = e
    BY <2>1, <2>2, <2>3, AppendProperties
  <2>5. OneEntryPerHost'
    <3>1. \A i \in 1 .. Len(table) : table[i].ip # h
      BY <1>2 DEF Known
    <3>2. ASSUME NEW i \in 1 .. Len(table')
          PROVE  table'[i].haddr = Mac(table'[i].ip)
      BY <2>1, <2>3, <2>4 DEF TableInv, OneEntryPerHost
    <3>3. ASSUME NEW i \in 1 .. Len(table'), NEW j \in 1 .. Len(table'),
                 table'[i].ip = table'[j].ip
          PROVE  i = j
      BY <2>1, <2>3, <2>4, <3>1, <3>3 DEF TableInv, OneEntryPerHost
    <3> QED
      BY <3>2, <3>3 DEF OneEntryPerHost
  <2>6. Reached \subseteq Reached'
    <3>1. ASSUME NEW i \in 1 .. Len(table)
          PROVE  \E j \in 1 .. Len(table') : table'[j].ip = table[i].ip
      BY <2>3, <2>4
    <3> QED
      BY <3>1 DEF Reached
  <2>7. h \in Reached'
    <3>1. Len(table) + 1 \in 1 .. Len(table') /\ table'[Len(table) + 1].ip = h
      BY <2>1, <2>3, <2>4
    <3> QED
      BY <3>1 DEF Reached
  <2> QED
    BY <2>4, <2>5, <2>6, <2>7 DEF TableInv
<1> QED
  BY <1>1, <1>2

LEMMA ArpIInv == ASSUME IInv, nty_arp_process PROVE IInv'
<1> USE DEF lists
<1> DEFINE f == Head(net)
<1>1. f \in In(Reached) /\ net' \in Seq(In(Reached)) /\ LoopInv'
  BY ReadsFrame DEF nty_arp_process
<1>2. f.smac = Mac(f.sip) /\ f.sip \in Hosts
  <2> HIDE DEF f
  <2> QED
    BY <1>1 DEF In
<1>3. /\ TableInv' /\ Reached \subseteq Reached'
      /\ snd_pktbuf' \in Out(Reached') \cup {None}
  <2>1. snd_pktbuf \in Out(Reached) \cup {None} /\ TableInv
    BY DEF IInv, FramesInv
  <2>2. CASE nty_arp_process_request(f)
    <3>1. TableInv' /\ Reached \subseteq Reached' /\ f.sip \in Reached'
      BY <2>1, <2>2, <1>2, RegisterEntry DEF nty_arp_process_request
    <3>2. EthernetOutput("arp_reply", f.smac, f.sip) \in Out(Reached')
      BY <3>1, <1>2, OwnFrameIsOut DEF Composed, Arp
    <3> QED
      BY <2>2, <3>1, <3>2 DEF nty_arp_process_request
  <2>3. CASE nty_arp_process_reply(f)
    <3>1. TableInv' /\ Reached \subseteq Reached'
      BY <2>1, <2>3, <1>2, RegisterEntry DEF nty_arp_process_reply
    <3> QED
      BY <2>1, <2>3, <3>1, OutMonotone DEF nty_arp_process_reply
  <2>4. CASE UNCHANGED <<table, pending, snd_pktbuf>>
    BY <2>1, <2>4, SameTable
  <2> QED
    BY <2>2, <2>3, <2>4 DEF nty_arp_process
<1>4. StreamsInv'
  <2>1. Seq(Reached) \subseteq Seq(Reached')
    BY <1>3, SeqMonotone
  <2> QED
    BY <1>3, <2>1 DEF IInv, StreamsInv, nty_arp_process
<1>5. FramesInv'
  <2>1. Seq(In(Reached)) \subseteq Seq(In(Reached'))
    BY <1>3, SeqMonotone, InMonotone
  <2>2. Out(Reached) \subseteq Out(Reached')
    BY <1>3, OutMonotone
  <2> QED
    BY <1>1, <1>3, <2>1, <2>2 DEF IInv, FramesInv, nty_arp_process, Reads
<1>6. NullOnlyForCached'
  BY DEF IInv, NullOnlyForCached, nty_arp_process
<1> QED
  BY <1>1, <1>3, <1>4, <1>5, <1>6 DEF IInv

LEMMA CreateStreamIInv == ASSUME IInv, nty_create_stream PROVE IInv'
<1> USE DEF lists
<1> DEFINE f == Head(net)
<1>1. f \in In(Reached) /\ net' \in Seq(In(Reached)) /\ LoopInv'
  BY ReadsFrame DEF nty_create_stream
<1>2. Reached' = Reached /\ TableInv'
  BY SameTable DEF IInv, nty_create_stream
<1>3. f.sip \in Reached /\ f.sip \in Hosts
  <2>1. f.kind \in Segments
    BY DEF nty_create_stream, Reads
  <2> HIDE DEF f
  <2> QED
    BY <1>1, <2>1 DEF In, Arp, Segments
<1>4. Known(f.sip) \/ f.sip \in Cached
  BY <1>3 DEF Reached, Known
<1>5. snd_pktbuf' \in Out(Reached) \cup {None}
  <2>1. Known(f.sip) => IPOutputStandalone(f.sip) \in Out(Reached)
    BY <1>3, LookupIsMac, OwnFrameIsOut DEF IPOutputStandalone, Composed, IInv
  <2> QED
    BY <2>1 DEF nty_create_stream, IInv, FramesInv
<1>6. StreamsInv'
  <2>1. /\ flow' \in [Hosts -> {None, "SYN_RCVD", "ESTABLISHED"}]
        /\ \A h \in Hosts : flow'[h] # None => h \in Reached
    BY <1>3 DEF nty_create_stream, IInv, StreamsInv
  <2>2. AddTo(control_list, f.sip) \in Seq(Reached)
    BY <1>3, AddToIsSeq DEF IInv, StreamsInv
  <2>3. control_list' \in Seq(Reached)
    BY <2>2 DEF nty_create_stream, IInv, StreamsInv
  <2> QED
    BY <1>2, <2>1, <2>3 DEF nty_create_stream, IInv, StreamsInv
<1>7. FramesInv'
  BY <1>1, <1>2, <1>5 DEF nty_create_stream, IInv, FramesInv, Reads
<1>8. NullOnlyForCached'
  BY <1>4 DEF nty_create_stream, IInv, NullOnlyForCached
<1> QED
  BY <1>1, <1>2, <1>6, <1>7, <1>8 DEF IInv

LEMMA ProcessIInv == ASSUME IInv, nty_tcp_process PROVE IInv'
<1> USE DEF lists
<1> DEFINE f == Head(net)
<1>1. f \in In(Reached) /\ net' \in Seq(In(Reached)) /\ LoopInv'
  BY ReadsFrame DEF nty_tcp_process
<1>2. Reached' = Reached /\ TableInv'
  BY SameTable DEF IInv, nty_tcp_process
<1>3. f.sip \in Reached /\ f.sip \in Hosts
  <2>1. f.kind \in Segments
    BY DEF nty_tcp_process, Reads
  <2> HIDE DEF f
  <2> QED
    BY <1>1, <2>1 DEF In, Arp, Segments
<1>4. StreamsInv'
  <2>1. /\ flow' \in [Hosts -> {None, "SYN_RCVD", "ESTABLISHED"}]
        /\ \A h \in Hosts : flow'[h] # None => h \in Reached
    BY <1>3 DEF nty_tcp_process, IInv, StreamsInv
  <2>2. /\ AddTo(control_list, f.sip) \in Seq(Reached)
        /\ Without(control_list, f.sip) \in Seq(Reached)
        /\ Without(send_list, f.sip) \in Seq(Reached)
        /\ Without(sendq, f.sip) \in Seq(Reached)
    BY <1>3, AddToIsSeq, WithoutIsSeq DEF IInv, StreamsInv
  <2>3. /\ control_list' \in Seq(Reached) /\ send_list' \in Seq(Reached)
        /\ sendq' \in Seq(Reached) /\ ack_list' \subseteq Reached
    BY <1>3, <2>2 DEF nty_tcp_process, IInv, StreamsInv
  <2> QED
    BY <1>2, <2>1, <2>3 DEF StreamsInv
<1>5. FramesInv'
  BY <1>1, <1>2 DEF nty_tcp_process, IInv, FramesInv, Reads
<1>6. NullOnlyForCached'
  BY DEF nty_tcp_process, IInv, NullOnlyForCached
<1> QED
  BY <1>1, <1>2, <1>4, <1>5, <1>6 DEF IInv
LEMMA SendIInv == ASSUME IInv, NEW h \in Hosts, nty_send(h) PROVE IInv'
<1> USE DEF nty_send, lists, env
<1>1. Reached' = Reached /\ TableInv'
  BY SameTable DEF IInv
<1>2. LoopInv'
  BY DEF IInv, LoopInv
<1>3. StreamsInv'
  <2>1. h \in Reached
    BY HostsAssumption DEF IInv, StreamsInv
  <2> QED
    BY <1>1, <2>1 DEF IInv, StreamsInv
<1>4. FramesInv'
  BY <1>1 DEF IInv, FramesInv
<1>5. NullOnlyForCached'
  BY DEF IInv, NullOnlyForCached
<1> QED
  BY <1>1, <1>2, <1>3, <1>4, <1>5 DEF IInv

\* A step of the hosts or the network: it is enough to look at the frames.
LEMMA HostStep ==
    ASSUME IInv, UNCHANGED stack,
           net' \in Seq(In(Reached)),
           net # << >> => net' # << >>,
           wire' \subseteq wire, knows' \subseteq Reached
    PROVE  IInv'
<1> USE DEF stack, lists
<1>1. Reached' = Reached /\ TableInv'
  BY SameTable DEF IInv
<1>2. LoopInv'
  BY DEF IInv, LoopInv
<1>3. StreamsInv'
  BY <1>1 DEF IInv, StreamsInv
<1>4. FramesInv'
  BY <1>1 DEF IInv, FramesInv
<1>5. NullOnlyForCached'
  BY DEF IInv, NullOnlyForCached
<1> QED
  BY <1>1, <1>2, <1>3, <1>4, <1>5 DEF IInv

\* A frame that arrives, from a host that is met if it is not about ARP.
LEMMA ArrivesIn ==
    ASSUME IInv, NEW h \in Hosts, NEW k \in Kinds \cup Arp,
           NEW d \in Dests \cup {Self, Broadcast}, NEW a \in {Self, None},
           k \notin Arp => h \in Reached /\ d \in Dests,
           Arrives(h, k, d, a)
    PROVE  net' \in Seq(In(Reached)) /\ net' # << >>
<1> DEFINE f == [kind |-> k, smac |-> Mac(h), dmac |-> d, sip |-> h, dip |-> a]
<1>1. Mac(h) \in Macs
  BY DEF Macs
<1>2. f \in [kind : Kinds \cup Arp, smac : Macs,
             dmac : Dests \cup {Self, Broadcast}, sip : Hosts, dip : {Self, None}]
  BY <1>1
<1>3. f.smac = Mac(f.sip) /\ (f.kind \notin Arp => f.sip \in Reached /\ f.dmac \in Dests)
  OBVIOUS
<1>4. net' = Append(net, f)
  BY DEF Arrives
<1> HIDE DEF f
<1>5. f \in In(Reached)
  BY <1>2, <1>3 DEF In
<1>6. net \in Seq(In(Reached))
  BY DEF IInv, FramesInv
<1> QED
  BY <1>4, <1>5, <1>6, AppendProperties

LEMMA HostAsksIInv == ASSUME IInv, NEW h \in Hosts, HostAsks(h) PROVE IInv'
<1>1. net' \in Seq(In(Reached)) /\ net' # << >>
  BY ArrivesIn DEF HostAsks, Arp
<1> QED
  BY <1>1, HostStep DEF HostAsks, IInv, FramesInv

LEMMA HostSendsIInv == ASSUME IInv, NEW h \in Hosts, HostSends(h) PROVE IInv'
<1>1. h \in Reached
  BY DEF HostSends, IInv, FramesInv
<1>2. PICK k \in Kinds, d \in Dests : Arrives(h, k, d, Self)
  BY DEF HostSends
<1>3. net' \in Seq(In(Reached)) /\ net' # << >>
  BY <1>1, <1>2, ArrivesIn
<1> QED
  BY <1>3, HostStep DEF HostSends, IInv, FramesInv

LEMMA HostReceivesIInv ==
    ASSUME IInv, NEW f \in wire, HostReceives(f) PROVE IInv'
<1>1. f.dip \in Reached /\ f.dip \in Hosts
  BY DEF IInv, FramesInv, Out
<1>2. net' \in Seq(In(Reached)) /\ (net # << >> => net' # << >>)
  <2>1. CASE f.kind = "arp_request"
    BY <1>1, <2>1, ArrivesIn DEF HostReceives, Arp
  <2>2. CASE f.kind # "arp_request"
    BY <2>2 DEF HostReceives, IInv, FramesInv
  <2> QED
    BY <2>1, <2>2
<1>3. knows' \subseteq Reached
  BY <1>1 DEF HostReceives, IInv, FramesInv
<1> QED
  BY <1>2, <1>3, HostStep DEF HostReceives

LEMMA LostIInv == ASSUME IInv, NEW f \in wire, Lost(f) PROVE IInv'
  BY HostStep DEF Lost, IInv, FramesInv

LEMMA NextIInv == IInv /\ [Next]_vars => IInv'
<1> SUFFICES ASSUME IInv, [Next]_vars PROVE IInv'
  OBVIOUS
<1>1. CASE nty_tcp_run
  BY <1>1, PollIInv, ControlIInv, AckIInv, DataIInv, ArpIInv, EchoIInv,
     CreateStreamIInv, ProcessIInv, SendPktsIInv DEF nty_tcp_run
<1>2. ASSUME NEW h \in Hosts, nty_send(h) \/ HostAsks(h) \/ HostSends(h)
      PROVE  IInv'
  BY <1>2, SendIInv, HostAsksIInv, HostSendsIInv
<1>3. ASSUME NEW f \in wire, HostReceives(f) \/ Lost(f) PROVE IInv'
  BY <1>3, HostReceivesIInv, LostIInv
<1>4. CASE UNCHANGED vars
  BY <1>4, HostStep DEF vars, stack, env, IInv, FramesInv
<1> QED
  BY <1>1, <1>2, <1>3, <1>4 DEF Next
-----------------------------------------------------------------------------
\* The invariant holds throughout, whatever the hosts send and whatever is lost.
THEOREM Invariance == Spec => []IInv
  BY InitIInv, NextIInv, PTL DEF Spec

\* The table of nty_arp.c has one entry for each host that was heard of.
THEOREM EntriesTheorem == Spec => []OneEntryPerHost
<1>1. IInv => OneEntryPerHost
  BY DEF IInv, TableInv
<1> QED
  BY <1>1, Invariance, PTL

\* IPOutputStandalone lacks an address only for hosts that knew ours from
\* before the stack began.
THEOREM NullTheorem == Spec => []NullOnlyForCached
<1>1. IInv => NullOnlyForCached
  BY DEF IInv
<1> QED
  BY <1>1, Invariance, PTL

\* If the hosts address their frames to us, what the stack composes or echoes
\* is from us, and for the host it names.
THEOREM AddressedTheorem ==
    ASSUME Dests = {Self} PROVE Spec => []FramesAreAddressed
<1>1. IInv => FramesAreAddressed
  BY DEF IInv, FramesInv, FramesAreAddressed, Out, Addressed
<1> QED
  BY <1>1, Invariance, PTL
==============================================================================
