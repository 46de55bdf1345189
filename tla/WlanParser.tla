----------------------------- MODULE WlanParser -----------------------------
(***************************************************************************)
(* The 802.11 header parser (core/wlan_parser.c): which addresses, role    *)
(* and payload a frame yields.  A frame is what its header says:           *)
(*   type, stype        the type and subtype bits of the frame control     *)
(*   flags              its flags that are set                             *)
(*   amsdu              the A-MSDU bit of the QoS control field            *)
(*   a1, a2, a3, seqno  the address fields and the sequence number         *)
(*   capab              capability bits of a beacon or probe response      *)
(*   ies                what the bytes behind its fixed fields read as: a  *)
(*                      sequence of elements, without any that the parser  *)
(*                      has no use for at the end                          *)
(*   len                bytes in the buffer, with the 4 of the FCS         *)
(* An element has an id, the len its header tells, and what is looked at   *)
(* of its content.                                                         *)
(***************************************************************************)
EXTENDS WlanUtil, SequencesExt

CONSTANTS NoAddr,   \* the zero address the packet is initialised with
          NoSsid    \* the empty network name it is initialised with

\* WLAN_FRAME_IS_QOS: the macro compares the whole subtype, not its QoS bit.
IsQos(f) == f.stype = QData

IsBeacon(f) == f.type = MGMT /\ f.stype \in {Beacon, ProbeResp}
IsProbeReq(f) == f.type = MGMT /\ f.stype = ProbeReq

Flag(f, x) == x \in f.flags
ToDs(f) == Flag(f, "TO_DS")
FromDs(f) == Flag(f, "FROM_DS")

If(c, n) == IF c THEN n ELSE 0

HdrLen(f) ==
  CASE f.type = DATA -> 24 + If(IsQos(f), 2 + If(Flag(f, "ORDER"), 4))
                           + If(ToDs(f) /\ FromDs(f), 6)
    [] f.type = CTRL -> IF f.stype \in {Cts, Ack} THEN 10 ELSE 16
    [] f.type = MGMT -> 24 + If(Flag(f, "ORDER"), 4)

\* The parser gives up on short buffers and on the extension type.
Accepted(f) == f.type \in {MGMT, CTRL, DATA} /\ f.len >= 10 /\ f.len >= HdrLen(f)

\* Transmitter, receiver and BSSID, NoAddr for those the frame does not tell.
Addresses(f) ==
  LET A(ra, ta, bssid) == [ra |-> ra, ta |-> ta, bssid |-> bssid]
  IN CASE f.type = MGMT -> A(f.a1, f.a2, f.a3)
       [] f.type = DATA /\ ~ToDs(f) /\ ~FromDs(f) -> A(f.a1, f.a2, f.a3)
       [] f.type = DATA /\ ToDs(f) /\ FromDs(f) ->
            A(f.a1, f.a2, IF IsQos(f) /\ f.amsdu THEN f.a3 ELSE NoAddr)
       [] f.type = DATA /\ FromDs(f) /\ ~ToDs(f) -> A(f.a1, f.a2, f.a2)
       [] f.type = DATA /\ ToDs(f) /\ ~FromDs(f) -> A(f.a1, f.a2, f.a1)
       [] f.type = CTRL /\ f.stype \in {Rts, BlkAck, BlkAckReq} -> A(f.a1, f.a2, NoAddr)
       [] f.type = CTRL /\ f.stype \in {Cts, Ack} -> A(f.a1, NoAddr, NoAddr)
       [] f.type = CTRL /\ f.stype = PsPoll -> A(f.a1, f.a2, f.a1)
       [] f.type = CTRL /\ f.stype \in {CfEnd, CfEndAck} -> A(f.a1, f.a2, f.a2)
       [] OTHER -> A(NoAddr, NoAddr, NoAddr)

\* The role the frame shows its transmitter in.
SenderMode(f) ==
  CASE f.type = DATA /\ ToDs(f) /\ FromDs(f) -> "4ADDR"
    [] f.type = DATA /\ FromDs(f) /\ ~ToDs(f) -> "AP"
    [] f.type = DATA /\ ToDs(f) /\ ~FromDs(f) -> "STA"
    [] f.type = DATA /\ ~ToDs(f) /\ ~FromDs(f) -> "IBSS"
    [] IsBeacon(f) /\ "IBSS" \in f.capab -> "IBSS"
    [] IsBeacon(f) /\ "ESS" \in f.capab /\ "IBSS" \notin f.capab -> "AP"
    [] IsProbeReq(f) -> "PROBE"
    [] OTHER -> "UNKNOWN"

-----------------------------------------------------------------------------
\* Information elements.

\* An SSID is kept up to 33 bytes; head is the name its first 33 bytes make.
KeptSsid(ie) == IF ie.len <= 33 THEN ie.ssid ELSE ie.head

HtOper(p, offset) ==
  CASE offset = 0 -> [p EXCEPT !.width = W20]
    [] offset = 1 -> [p EXCEPT !.ht40plus = TRUE]
    [] offset = 3 -> [p EXCEPT !.ht40plus = FALSE]
    [] OTHER -> p

HtCapab(p, ie) ==
  LET w == IF ie.w40 THEN W40 ELSE W20
  IN IF ie.len < 26 THEN [p EXCEPT !.width = w]
     ELSE [p EXCEPT !.width = w, !.rx = HtStreamsRx(ie.mcs), !.tx = HtStreamsTx(ie.mcs, p.tx)]

VhtCapab(p, ie) ==
  IF ie.len < 12 THEN p
  ELSE [p EXCEPT !.width = ChanWidthFromVhtCapab(ie.width),
                 !.rx = VhtStreams(ie.rx), !.tx = VhtStreams(ie.tx)]

TakeFallThrough(p, ie) ==           \* faulty: RSN runs on into the case of HT_CAPAB
  CASE ie.id = "SSID" -> [p EXCEPT !.essid = KeptSsid(ie)]
    [] ie.id = "DSSS" -> [p EXCEPT !.channel = ie.chan]
    [] ie.id = "RSN" -> [p EXCEPT !.rsn = TRUE, !.width = W20]
    [] ie.id = "HT_CAPAB" -> HtCapab(p, ie)
    [] ie.id \in {"VHT_OPER", "VHT_OMN"} -> [p EXCEPT !.width = W80]
    [] ie.id = "VHT_CAPAB" -> VhtCapab(p, ie)
    [] OTHER -> p
\* The packet after one element.
Take(p, ie) ==
  CASE ie.id = "SSID" -> [p EXCEPT !.essid = KeptSsid(ie)]
    [] ie.id = "DSSS" -> [p EXCEPT !.channel = ie.chan]
    [] ie.id = "RSN" -> [p EXCEPT !.rsn = TRUE]
    [] ie.id = "HT_CAPAB" -> HtCapab(p, ie)
    [] ie.id = "HT_OPER" /\ ie.len > 1 -> HtOper(p, ie.offset)
    [] ie.id \in {"VHT_OPER", "VHT_OMN"} -> [p EXCEPT !.width = W80]
    [] ie.id = "VHT_CAPAB" -> VhtCapab(p, ie)
    [] ie.id = "VENDOR" /\ ie.len >= 4 /\ ie.wpa -> [p EXCEPT !.wpa = TRUE]
    [] OTHER -> p

\* Bytes left for elements: after the fixed fields of a beacon and before the
\* FCS, which is taken to be there always.
IeLenWithFcs(f) == f.len - HdrLen(f) - If(IsBeacon(f), 12)  \* faulty: FCS is not taken off
IeLen(f) == f.len - HdrLen(f) - If(IsBeacon(f), 12) - 4

\* The walk goes on while more than an empty element is left; it looks at an
\* element also when it reaches beyond what is left.
WalkStep(s, ie) == IF s.left <= 2 THEN s
                   ELSE [p |-> Take(s.p, ie), left |-> s.left - (ie.len + 2)]
Walk(p, ies, bytes) == FoldLeft(WalkStep, [p |-> p, left |-> bytes], ies).p

-----------------------------------------------------------------------------
Wep(f) == \/ Flag(f, "PROTECTED") /\ (f.type = DATA \/ (f.type = MGMT /\ f.stype = Auth))
          \/ IsBeacon(f) /\ "PRIVACY" \in f.capab

\* struct uwifi_packet before anything was parsed: what capture headers fill (see
\* RawParser), and what the frame fills.
NoPacket == [signal |-> 0, rate |-> 0, idx |-> 0, freq |-> 0, flags |-> {}, injected |-> FALSE,
             ta |-> NoAddr, ra |-> NoAddr, bssid |-> NoAddr, type |-> MGMT, stype |-> 0,
             mode |-> {}, beacon |-> FALSE, wep |-> FALSE, seqno |-> 0, retry |-> FALSE,
             essid |-> NoSsid, channel |-> 0, width |-> WUNSPEC, ht40plus |-> FALSE,
             rx |-> 0, tx |-> 0, rsn |-> FALSE, wpa |-> FALSE]

\* What the header alone tells.  Control frames have no sequence number, and
\* their retry flag is not looked at.
HeaderInfo(p, f) ==
  LET adr == Addresses(f)
  IN [p EXCEPT !.ta = adr.ta, !.ra = adr.ra, !.bssid = adr.bssid,
               !.type = f.type, !.stype = f.stype,
               !.mode = {SenderMode(f)}, !.beacon = IsBeacon(f), !.wep = Wep(f),
               !.seqno = IF f.type = CTRL THEN 0 ELSE f.seqno,
               !.retry = f.type # CTRL /\ Flag(f, "RETRY")]

\* What uwifi_parse_80211_header makes of the packet.
Parse(p, f) ==
  IF IsBeacon(f) \/ IsProbeReq(f) THEN Walk(HeaderInfo(p, f), f.ies, IeLen(f))
  ELSE HeaderInfo(p, f)

\* Its result: -1 on errors, 0 to stop, else the bytes consumed.
Consumed(f) ==
  CASE ~Accepted(f) -> -1
    [] Accepted(f) /\ f.type = DATA /\ ~Wep(f) -> HdrLen(f)
    [] OTHER -> 0

\* uwifi_get_80211_header_ta.  For control frames it compares the whole frame
\* control field with a type and subtype, so any flag makes it give up.
HeaderTaLong(f) == IF f.len < 24 THEN NoAddr ELSE f.a2  \* faulty: a full header is asked for
HeaderTa(f) ==
  CASE f.len < 16 -> NoAddr
    [] f.len >= 16 /\ f.type \in {DATA, MGMT} -> f.a2
    [] f.len >= 16 /\ f.type = CTRL /\ f.flags = {}
         /\ f.stype \in {Rts, PsPoll, CfEnd, CfEndAck, BlkAckReq, BlkAck, VhtNdp, BeamRep} -> f.a2
    [] OTHER -> NoAddr
=============================================================================
