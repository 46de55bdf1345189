------------------------------ MODULE Capture ------------------------------
(***************************************************************************)
(* From the air to the application: packets wait in the capture socket     *)
(* (linux/packet_sock.c) while the radio hops from channel to channel; the *)
(* application reads one, has it parsed (uwifi_parse_raw) and has its      *)
(* channel put right (uwifi_fixup_packet_channel).  A driver may or may    *)
(* not tell the frequency a packet was received on; when it does, it is    *)
(* that of the channel the radio was on at the time.  The interface itself *)
(* hears the frames of Air and what is sent on it: a frame another socket  *)
(* injects is captured as it was written, with the header made for it and  *)
(* without an FCS.                                                         *)
(***************************************************************************)
EXTENDS RawParser, Inject

CONSTANTS table,   \* the channel table, by index (see Channels)
          Air,     \* the captures a driver may deliver
          Station, \* addresses of the senders
          Essid,   \* names of the networks
          Room     \* packets the socket has room for; the kernel drops others

ASSUME CaptureAssumption ==
  /\ Room \in Nat \ {0}
  /\ \A c \in Air : IsCapture(c)
  /\ \A e \in Essid : NameLen[e] \in Octet   \* longer ones overrun the byte of their length
  /\ DOMAIN table \subseteq Nat
  /\ \A i, j \in DOMAIN table : table[i].freq = table[j].freq => i = j
  /\ \A i \in DOMAIN table :
       table[i].freq \in Nat \ {0} /\ table[i].chan \in Octet \ {0}   \* 2.4 and 5 GHz

VARIABLES
  radio,        \* index of the channel the radio is on
  channel_idx,  \* intf->channel_idx, -1 when it is not known
  socket,       \* packets that wait, each with the channel it was received on
  cap,          \* the packet that was read last
  ret,          \* what uwifi_parse_raw returned for it
  pkt,          \* struct uwifi_packet
  chan_idx,     \* p->pkt_chan_idx
  stage         \* how far the application is with the packet

vars == <<radio, channel_idx, socket, cap, ret, pkt, chan_idx, stage>>
lastVars == <<cap, ret, pkt, chan_idx, stage>>

\* The frequencies a capture tells.
Told(c) == IF c.arphdr # "radiotap" THEN {}
           ELSE {f.freq : f \in {g \in ToSet(c.header.fields) : g.id = "CHANNEL"}}

\* What a driver may deliver, and the frequency it tells with it.
Offers == {[c |-> c, told |-> Told(c)] : c \in Air}

\* A frame of inject.c as another host captures it, with an FCS ...
OnAir(frame, len) ==
  [arphdr |-> "radiotap", len |-> FixedLen + len + 4, frame |-> frame,
   header |-> [ok |-> TRUE, len |-> FixedLen, fields |-> <<>>]]
\* ... and as it is captured on the interface it is sent on.
Loopback(frame, len, freq) ==
  LET h == CreateRadiotapHeader(freq)
  IN [arphdr |-> "radiotap", len |-> h.len + len, frame |-> frame, header |-> h]

BeaconBy(sa, essid, chan) == CreateBeacon(FALSE, sa, sa, sa, essid, chan, 5000)
ReplyBy(sa, da, essid, chan) == CreateBeacon(TRUE, sa, da, sa, essid, chan, 1)
NullBy(sa, ap) == CreateNulldata(sa, ap, ap, 1)

Frames == {[f |-> BeaconBy(s, e, table[i].chan), l |-> BeaconLen(e)] :
              s \in Station, e \in Essid, i \in DOMAIN table}
          \cup {[f |-> ReplyBy(s, d, e, table[i].chan), l |-> BeaconLen(e)] :
              s \in Station, d \in Station, e \in Essid, i \in DOMAIN table}
          \cup {[f |-> NullBy(s, d), l |-> NulldataLen] : s \in Station, d \in Station}

\* All captures there are, and the packets they make.
Captures == Air \cup {OnAir(x.f, x.l) : x \in Frames}
            \cup {Loopback(x.f, x.l, table[i].freq) : x \in Frames, i \in DOMAIN table}
Packets == [c : Captures, on : DOMAIN table]

Nothing == [c |-> [arphdr |-> "none", len |-> 0], on |-> -1]

Init ==
  /\ radio \in DOMAIN table
  /\ channel_idx \in {-1, radio}
  /\ socket = <<>>
  /\ cap = Nothing /\ ret = -1 /\ pkt = NoPacket /\ chan_idx = -1
  /\ stage = "idle"

Arrive(c) ==
  /\ Len(socket) < Room
  /\ socket' = Append(socket, [c |-> c, on |-> radio])
  /\ UNCHANGED <<radio, channel_idx, lastVars>>

Receive(offer) == offer.told \subseteq {table[radio].freq} /\ Arrive(offer.c)
Inject(frame) == Arrive(Loopback(frame.f, frame.l, table[radio].freq))
Overhear(frame) == Arrive(OnAir(frame.f, frame.l))

\* A change of the channel that succeeds (see ChannelScan).
Retune(i) ==
  /\ radio' = i
  /\ channel_idx' = i
  /\ UNCHANGED <<socket, lastVars>>

\* The application reads the next packet and has it parsed.
Read ==
  /\ socket # <<>>
  /\ socket' = Tail(socket)
  /\ cap' = Head(socket)
  /\ ret' = ParseRawRet(Head(socket).c)
  /\ pkt' = ParseRaw(Head(socket).c)
  /\ chan_idx' = -1
  /\ stage' = "parsed"
  /\ UNCHANGED <<radio, channel_idx>>

\* "best guess from config": the channel the interface is on now.
PacketIdxNow(p) == channel_idx      \* faulty: what the driver told is not used
PacketIdx(p) ==
  LET i == IF p.freq = 0 THEN -1 ELSE IdxFromFreq(table, p.freq)
  IN IF i < 0 THEN channel_idx ELSE i

\* A packet that does not tell its channel has that of its index.
WithChannel(p, i) ==
  IF p.channel = 0 /\ i >= 0 THEN [p EXCEPT !.channel = GetChan(table, i)] ELSE p

FixupPacketChannel ==
  /\ stage = "parsed"
  /\ ret # -1
  /\ LET i == PacketIdx(pkt)
     IN /\ chan_idx' = i
        /\ pkt' = WithChannel(pkt, i)
        /\ channel_idx' = IF channel_idx < 0 /\ i >= 0 THEN i ELSE channel_idx
  /\ stage' = "fixed"
  /\ UNCHANGED <<radio, socket, cap, ret>>

Next ==
  \/ \E offer \in Offers : Receive(offer)
  \/ \E f \in Frames : Inject(f)
  \/ \E f \in Frames : Overhear(f)
  \/ \E i \in DOMAIN table : Retune(i)
  \/ Read
  \/ FixupPacketChannel

Spec == Init /\ [][Next]_vars

-----------------------------------------------------------------------------
TypeOK ==
  /\ radio \in DOMAIN table /\ channel_idx \in DOMAIN table \cup {-1}
  /\ chan_idx \in DOMAIN table \cup {-1}
  /\ socket \in Seq(Packets) /\ Len(socket) <= Room
  /\ stage \in {"idle", "parsed", "fixed"}
  /\ pkt.rate \in Rate \cup {0} /\ pkt.idx \in Octet /\ pkt.width \in Width
  /\ stage # "idle" /\ ret # -1 => pkt.rate > 0 /\ ret \in 0 .. cap.c.len

\* Of a beacon that inject.c builds, the parser reads back, from the air and on
\* the sending interface, addresses, role, the low 12 bits of the sequence number,
\* and of the name the first 33 bytes, one more than a name may have.
\* The channel a beacon announces is lost when there is no FCS behind it, as four
\* bytes are taken off all the same (wlan_parser.c:284); the channel it is sent on
\* takes its place.
NameRead(e) == IF NameLen[e] <= 33 THEN e ELSE NameCut[e]
RoundTrip ==
  stage # "idle" =>
    \A s \in Station, e \in Essid, i \in DOMAIN table :
       LET frame == BeaconBy(s, e, table[i].chan)
           heard == cap.c = OnAir(frame, BeaconLen(e))
           own   == cap.c = Loopback(frame, BeaconLen(e), table[cap.on].freq)
       IN heard \/ own =>
            /\ <<pkt.ta, pkt.ra, pkt.bssid>> = <<s, BcastAddr, s>>
            /\ pkt.beacon /\ pkt.mode = {"AP"} /\ pkt.seqno = 904
            /\ pkt.essid = NameRead(e)
            /\ pkt.injected = own
            /\ stage = "fixed" =>
                 pkt.channel = IF own THEN table[cap.on].chan ELSE table[i].chan

\* Both entry points that tell a transmitter (uwifi_parse_80211_header and
\* uwifi_get_80211_header_ta) tell the same one of every frame the parser accepts,
\* but for control frames with a flag set and for the two VHT control frames.
HeaderTaAgrees ==
  stage # "idle" /\ FrameReached(cap.c) =>
    LET f == FrameOf(cap.c)
    IN Accepted(f) /\ (f.type = CTRL => f.flags = {} /\ f.stype \notin {BeamRep, VhtNdp})
         => HeaderTa(f) = pkt.ta

\* The order of the elements of a beacon, as long as all of them are looked at,
\* which an empty one at the end is not (wlan_parser.c:25): it matters to its
\* width and streams only, and to these only as the order of the HT and VHT
\* elements among themselves, when no name, channel or place of the second half
\* of a 40 MHz channel is told twice and differently.
\* With the elements in the order of their ids the width is the one WidthIs
\* says: 80 MHz as soon as there is VHT operation or an operating mode
\* notification, also where the VHT capabilities before it told 160 MHz, "minimum,
\* otherwise not AC" (wlan_parser.c:73).
IeId == [SSID |-> 0, DSSS |-> 3, HT_CAPAB |-> 45, RSN |-> 48, HT_OPER |-> 61,
         VHT_CAPAB |-> 191, VHT_OPER |-> 192, VHT_OMN |-> 199, VENDOR |-> 221]
InIdOrder(ies) ==
  \A j, k \in DOMAIN ies :
     j < k /\ {ies[j].id, ies[k].id} \subseteq DOMAIN IeId => IeId[ies[j].id] <= IeId[ies[k].id]
HtVht == {"HT_CAPAB", "HT_OPER", "VHT_CAPAB", "VHT_OPER", "VHT_OMN"}
InShapeOrder(ies, pi) ==
  \A j, k \in DOMAIN ies : j < k /\ {ies[j].id, ies[k].id} \subseteq HtVht => pi[j] < pi[k]

Bytes(ies) == FoldLeft(LAMBDA n, ie : n + ie.len + 2, 0, ies)
Whole(f, ies) == Bytes(ies) <= IeLen(f) /\ (ies # <<>> => Last(ies).len > 0)
Once == {"SSID", "DSSS", "HT_OPER"}
OneVersion(ies) == \A e, g \in ToSet(ies) : e.id = g.id /\ e.id \in Once => e = g

Essentials(p) == <<p.essid, p.channel, p.rsn, p.wpa, p.ht40plus>>
Shape(p) == <<p.width, p.rx, p.tx>>
WidthIs(w, ies) ==
  LET Es  == ToSet(ies)
      vht == {e \in Es : e.id = "VHT_CAPAB" /\ e.len >= 12}
      ht  == {e \in Es : e.id = "HT_CAPAB"}
  IN IF \E e \in Es : e.id \in {"VHT_OPER", "VHT_OMN"} THEN w = W80
     ELSE IF vht # {} THEN \E e \in vht : w = ChanWidthFromVhtCapab(e.width)
     ELSE IF \E e \in Es : e.id = "HT_OPER" /\ e.len > 1 /\ e.offset = 0 THEN w = W20
     ELSE IF ht # {} THEN \E e \in ht : w = IF e.w40 THEN W40 ELSE W20
     ELSE w = WUNSPEC

ElementOrder ==
  stage # "idle" /\ pkt.beacon =>
    LET f == FrameOf(cap.c)
        n == DOMAIN f.ies
    IN Whole(f, f.ies) /\ OneVersion(f.ies) =>
       \A pi \in Bijection(n, n) :
         LET ies == [k \in n |-> f.ies[pi[k]]]
             p   == Parse(NoPacket, [f EXCEPT !.ies = ies])
             q   == Parse(NoPacket, f)
         IN Whole(f, ies) =>
              /\ Essentials(p) = Essentials(q)
              /\ InShapeOrder(ies, pi) => Shape(p) = Shape(q)
              /\ InIdOrder(ies) => WidthIs(p.width, ies)

\* A packet whose frequency the driver tells is filed under the channel it was
\* received on, however far the radio has hopped while it waited; and the channel
\* that is guessed from a packet is the one the radio is on.
ChannelRight ==
  /\ stage = "fixed" /\ Told(cap.c) # {} => chan_idx = cap.on
  /\ channel_idx \in {-1, radio}

\* Of the signals of several antennas the packet has the strongest valid one,
\* whatever the order of the fields (raw_parser.c:136).
SignalIsStrongest ==
  stage # "idle" /\ cap.c.arphdr = "radiotap" /\ ret # -1 =>
    LET valid == {f.dbm : f \in {g \in ToSet(cap.c.header.fields) :
                                  g.id = "SIGNAL" /\ g.dbm < 0}}
    IN pkt.signal = IF valid = {} THEN 0 ELSE Max(valid)

-----------------------------------------------------------------------------
\* The inductive invariant: where the packets come from, and that what the
\* application holds is what the parser makes of the one it read last.

\* A packet that was received on a channel tells no other.
Truthful(x) == x \in Packets /\ Told(x.c) \subseteq {table[x.on].freq}

\* As long as the interface does not know its channel, the radio has stayed.
Waiting == \A k \in 1 .. Len(socket) :
             /\ Truthful(socket[k])
             /\ channel_idx = -1 => socket[k].on = radio

LastRead ==
  /\ stage = "idle" => pkt = NoPacket
  /\ stage # "idle" => /\ Truthful(cap) /\ ret = ParseRawRet(cap.c)
                       /\ channel_idx = -1 => cap.on = radio
  /\ stage = "parsed" => pkt = ParseRaw(cap.c)
  /\ stage = "fixed" => /\ ret # -1
                        /\ pkt = WithChannel(ParseRaw(cap.c), chan_idx)
                        /\ Told(cap.c) # {} => chan_idx = cap.on

IInv == TypeOK /\ Waiting /\ LastRead /\ channel_idx \in {-1, radio}
=============================================================================
