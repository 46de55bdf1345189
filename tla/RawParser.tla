------------------------------ MODULE RawParser ------------------------------
(***************************************************************************)
(* Capture headers (linux/raw_parser.c): what prism and radiotap headers   *)
(* tell of the reception, and the entry point that parses a captured       *)
(* packet.  A capture is                                                   *)
(*   arphdr     "prism", "radiotap" or another type of link header         *)
(*   header     what it says (below); ok: the iterator accepts it          *)
(*   frame      the 802.11 frame behind it (WlanParser); its len follows    *)
(*              from that of the buffer                                    *)
(*   len        bytes in the buffer                                        *)
(* A radiotap header is [ok, len, fields], its fields a sequence of        *)
(* [id, ...] in the order of the iterator, which is code of its own that   *)
(* is not part of the repository; a prism header is                        *)
(* [noise, rssi, signal, rate, channel].                                   *)
(***************************************************************************)
EXTENDS WlanParser

Dbm == -128 .. 127      \* a signed char
\* What every capture is: lengths are not negative, an MCS index is a byte and a
\* signal a signed one, fields and elements come one after the other.
IsSeq(s) == Len(s) \in Nat /\ DOMAIN s = 1 .. Len(s)
FrameFields == {"type", "stype", "flags", "amsdu", "a1", "a2", "a3", "seqno", "capab",
                "ies", "len"}
IsCapture(c) ==
  /\ c.len \in Nat
  /\ c.arphdr = "radiotap" =>
       /\ c.header.len \in Nat /\ IsSeq(c.header.fields)
       /\ \A k \in DOMAIN c.header.fields :
            /\ c.header.fields[k].id = "MCS" => c.header.fields[k].mcs \in Octet
            /\ c.header.fields[k].id = "SIGNAL" => c.header.fields[k].dbm \in Dbm
  /\ c.arphdr = "prism" => c.header.rate \in Nat
  /\ DOMAIN c.frame = FrameFields /\ IsSeq(c.frame.ies)
  /\ \A k \in DOMAIN c.frame.ies : c.frame.ies[k].len \in Nat

PrismLen == 144         \* sizeof(wlan_ng_prism2_header)
FixedLen == 8           \* sizeof(struct ieee80211_radiotap_header)

Rate == 1 .. 6000       \* up to 600 Mbit/s
PrismRate == 1 .. 1080

PrismInfo(h) ==
  LET told == h.rate * 10
      rate == CASE told \in PrismRate -> told
                [] told \notin PrismRate -> IF h.channel > 14 THEN 120 ELSE 20
  IN [NoPacket EXCEPT !.signal = IF h.noise >= 0 /\ h.rssi < 0 THEN h.rssi ELSE h.signal,
                   !.rate = rate, !.idx = RateToIndex(rate),
                   !.flags = {"SHORTPRE", IF h.channel > 14 THEN "A" ELSE "G"}]

\* The mode a channel field tells by its frequency and OFDM bits.
ChannelMode(bits) ==
  CASE {"5GHZ", "OFDM"} \subseteq bits -> {"A"}
    [] {"2GHZ", "OFDM"} \subseteq bits /\ "5GHZ" \notin bits -> {"G"}
    [] "2GHZ" \in bits /\ "OFDM" \notin bits -> {"B"}
    [] OTHER -> {}

\* One signal per antenna: the strongest is kept, values that are not negative
\* are invalid.
SignalLast(phy, dbm) == IF dbm < 0 THEN dbm ELSE phy.signal     \* faulty: the last
Signal(phy, dbm) ==
  IF dbm < 0 /\ (phy.signal = 0 \/ dbm > phy.signal) THEN dbm ELSE phy.signal

\* Width and guard interval the driver does not tell are taken to be the slowest.
McsRate(f) == HtMcsToRate(f.mcs, f.bw \in {"unknown", "20"}, f.gi \in {"unknown", "long"})

\* get_radiotap_info; MCS indexes are counted on from those of the old rates.
Field(phy, f) ==
  CASE f.id = "FLAGS" -> [phy EXCEPT !.flags = @ \cup (f.bits \cap {"SHORTPRE", "BADFCS"})]
    [] f.id = "RATE" -> [phy EXCEPT !.rate = f.rate * 5, !.idx = RateToIndex(f.rate * 5)]
    [] f.id = "CHANNEL" -> [phy EXCEPT !.freq = f.freq, !.flags = @ \cup ChannelMode(f.bits)]
    [] f.id = "SIGNAL" -> [phy EXCEPT !.signal = Signal(phy, f.dbm)]
    [] f.id = "TX_FLAGS" -> [phy EXCEPT !.injected = TRUE]
    [] f.id = "MCS" -> [phy EXCEPT !.idx = (12 + f.mcs) % 256, !.rate = McsRate(f)]
    [] OTHER -> phy

\* "assume min rate for mode"; the index stays as it was.
SanitizeLarge(phy) == [phy EXCEPT !.rate = IF @ > 6000 THEN 20 ELSE @]  \* faulty: zero is kept
Sanitize(phy) ==
  [phy EXCEPT !.rate = CASE @ \in Rate -> @
                         [] @ \notin Rate ->
                              IF "A" \in phy.flags \/ (phy.flags \cap {"B", "G"} = {"G"})
                              THEN 120 ELSE 20]

RadiotapInfo(h) == Sanitize(FoldLeft(Field, NoPacket, h.fields))

-----------------------------------------------------------------------------
\* Result of the header's parser: bytes of the header, -1 on errors, 0 on a bad
\* FCS; and what it leaves in the packet.
HeaderRet(c) ==
  CASE c.arphdr = "prism" -> IF c.len < PrismLen THEN -1 ELSE PrismLen
    [] c.arphdr = "radiotap" ->
         (CASE c.len < FixedLen \/ ~c.header.ok -> -1
            [] c.len >= FixedLen /\ c.header.ok ->
                 IF "BADFCS" \in RadiotapInfo(c.header).flags THEN 0 ELSE c.header.len)
    [] OTHER -> -1

HeaderInfoOf(c) == CASE c.arphdr = "prism" /\ c.len >= PrismLen -> PrismInfo(c.header)
                     [] c.arphdr = "radiotap" /\ HeaderRet(c) # -1 -> RadiotapInfo(c.header)
                     [] OTHER -> NoPacket

\* The frame as the 802.11 parser gets it: what the header has left of the buffer.
FrameOf(c) == [c.frame EXCEPT !.len = c.len - HeaderRet(c)]
FrameReached(c) == HeaderRet(c) > 0 /\ HeaderRet(c) < c.len

ParseRawRet(c) ==
  CASE HeaderRet(c) <= 0 -> HeaderRet(c)
    [] HeaderRet(c) > 0 /\ HeaderRet(c) >= c.len -> -1
    [] FrameReached(c) -> LET r == Consumed(FrameOf(c))
                          IN IF r <= 0 THEN r ELSE HeaderRet(c) + r

\* A packet that is an error is not used any more, so what it holds is left out.
ParseRaw(c) ==
  IF FrameReached(c) /\ Accepted(FrameOf(c)) THEN Parse(HeaderInfoOf(c), FrameOf(c))
  ELSE HeaderInfoOf(c)
=============================================================================
