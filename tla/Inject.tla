------------------------------- MODULE Inject -------------------------------
(***************************************************************************)
(* Frames the library builds itself (core/inject.c) and the radiotap       *)
(* header for sending them (linux/inject_rtap.c), as WlanParser and        *)
(* RawParser see them.  A frame has no FCS when it is built: len is what   *)
(* the builder returns.  Hosts are little-endian.                          *)
(***************************************************************************)
EXTENDS WlanUtil

CONSTANTS BcastAddr,   \* ff:ff:ff:ff:ff:ff
          NameLen,     \* the length of each network name
          NameCut      \* the name its first 33 bytes make

Frame(type, stype, flags, a1, a2, a3, seqno, capab, ies) ==
  [type |-> type, stype |-> stype, flags |-> flags, amsdu |-> FALSE,
   a1 |-> a1, a2 |-> a2, a3 |-> a3, seqno |-> seqno % 4096,
   capab |-> capab, ies |-> ies, len |-> 0]

\* The length of an element is a byte.
BeaconIes(essid, channel) ==
  <<[id |-> "SSID", len |-> NameLen[essid] % 256, ssid |-> essid, head |-> NameCut[essid]],
    [id |-> "SUPP_RATES", len |-> 8],
    [id |-> "DSSS", len |-> 1, chan |-> channel % 256]>>

CreateBeacon(probe_response, sa, da, bssid, essid, channel, seqno) ==
  LET stype == IF probe_response THEN ProbeResp ELSE Beacon
      ra    == IF probe_response THEN da ELSE BcastAddr
  IN Frame(MGMT, stype, {}, ra, sa, bssid, seqno, {"ESS"}, BeaconIes(essid, channel))
\* 24 bytes of header, 12 of fixed fields, and the three elements.
BeaconLen(essid) == 36 + (2 + NameLen[essid]) + (2 + 8) + (2 + 1)

\* The length is that of the structure with room for a fourth address, QoS and
\* HT control, which are not there.
CreateNulldata(sa, da, bssid, seq) ==
  Frame(DATA, NullData, {"TO_DS"}, bssid, sa, da, seq, {}, <<>>)
NulldataLen == 36

\* "For 802.11b/g channels, send at 1 Mbits; for 802.11a channels at 6".
CreateRadiotapHeader(freq) ==
  [ok |-> TRUE, len |-> 17,
   fields |-> <<[id |-> "FLAGS", bits |-> {}],
                [id |-> "RATE", rate |-> IF freq <= 2484 THEN 2 ELSE 12],
                [id |-> "CHANNEL", freq |-> freq, bits |-> {}],
                [id |-> "TX_FLAGS"],
                [id |-> "DATA_RETRIES"]>>]
=============================================================================
