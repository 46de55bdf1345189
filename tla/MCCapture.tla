----------------------------- MODULE MCCapture -----------------------------
(***************************************************************************)
(* A radio with one channel in each band, a station that sends the frames  *)
(* of Inject, and one capture of every kind the parsers tell apart.        *)
(***************************************************************************)
EXTENDS Capture

CONSTANTS mA, mB, zero, bcast, none, net, hidden, long, cut

TableDef == Table(<<[freqs |-> <<2412>>, width |-> W20], [freqs |-> <<5180>>, width |-> W20]>>)
NameLenDef == (net :> 2) @@ (hidden :> 32) @@ (long :> 40)
NameCutDef == (net :> net) @@ (hidden :> hidden) @@ (long :> cut)

Plain(type, stype, flags) == Frame(type, stype, flags, mA, mB, mA, 7, {}, <<>>)
On(freq, fields) ==
  [ok |-> TRUE, len |-> 24,
   fields |-> <<[id |-> "TSFT"], [id |-> "CHANNEL", freq |-> freq,
                bits |-> IF freq > 2484 THEN {"5GHZ", "OFDM"} ELSE {"2GHZ", "OFDM"}]>> \o fields]
Untold(fields) == [ok |-> TRUE, len |-> 16, fields |-> fields]
Radiotap(h, frame, len) == [arphdr |-> "radiotap", header |-> h, frame |-> frame, len |-> h.len + len]
Prism(noise, rssi, signal, rate, channel, len) ==
  [arphdr |-> "prism", frame |-> Plain(DATA, 0, {}), len |-> len,
   header |-> [noise |-> noise, rssi |-> rssi, signal |-> signal, rate |-> rate, channel |-> channel]]

\* An 802.11ac access point; width is what the bits of its capabilities tell.
Ac(width) == <<[id |-> "SSID", len |-> 2, ssid |-> net, head |-> net],
        [id |-> "DSSS", len |-> 1, chan |-> 36],
        [id |-> "HT_CAPAB", len |-> 26, w40 |-> TRUE,
         mcs |-> [rx |-> <<255, 255, 0, 0>>, defined |-> TRUE, differs |-> FALSE, max |-> 1]],
        [id |-> "VHT_CAPAB", len |-> 12, width |-> width,
         rx |-> <<2, 2, 2, 3, 3, 3, 3, 3>>, tx |-> <<2, 2, 3, 3, 3, 3, 3, 3>>],
        [id |-> "VHT_OPER", len |-> 5]>>
\* An 802.11n one with RSN and WPA, whose name is longer than any may be.
Nn == <<[id |-> "SSID", len |-> 40, ssid |-> long, head |-> cut],
        [id |-> "HT_CAPAB", len |-> 4, w40 |-> TRUE],
        [id |-> "RSN", len |-> 20],
        [id |-> "HT_OPER", len |-> 22, offset |-> 1],
        [id |-> "VENDOR", len |-> 22, wpa |-> TRUE]>>
\* One that can do 40 MHz and uses 20.
Twenty == <<[id |-> "SSID", len |-> 2, ssid |-> net, head |-> net],
            [id |-> "HT_CAPAB", len |-> 4, w40 |-> TRUE],
            [id |-> "HT_OPER", len |-> 22, offset |-> 0]>>
BeaconWith(ies) == Frame(MGMT, Beacon, {}, bcast, mB, mA, 7, {"ESS", "PRIVACY"}, ies)
BeaconBytes(ies) == 36 + Bytes(ies) + 4

Signals(s) == [i \in DOMAIN s |-> [id |-> "SIGNAL", dbm |-> s[i]]]

AirDef ==
  {Radiotap(On(f, Signals(<<-70, -60, 0, -80>>)), BeaconWith(Ac(w)), BeaconBytes(Ac(w))) :
     f \in {2412, 5180}, w \in {1, 3}}
  \cup {Radiotap(On(f, <<[id |-> "RATE", rate |-> 108]>>), Plain(DATA, QNull, {}), 30) : f \in {2412, 5180}}
  \cup {Radiotap(Untold(<<[id |-> "MCS", mcs |-> 17, bw |-> "20", gi |-> "unknown"]>>),
                 BeaconWith(Nn), BeaconBytes(Nn)),
        Radiotap(Untold(<<>>), BeaconWith(Twenty), BeaconBytes(Twenty)),
        Radiotap(Untold(<<[id |-> "FLAGS", bits |-> {"BADFCS"}]>>), Plain(DATA, 0, {}), 60),
        Radiotap([ok |-> FALSE, len |-> 16, fields |-> <<>>], Plain(DATA, 0, {}), 60),
        Radiotap(Untold(<<>>), Plain(DATA, 0, {"TO_DS", "FROM_DS"}), 40),
        Radiotap(Untold(<<>>), Plain(DATA, 0, {}), 0),
        Prism(-90, 0, -50, 1, 36, 200), Prism(0, -40, 20, 0, 6, 200), Prism(0, 40, 20, 200, 36, 100)}
  \cup {Radiotap(Untold(<<[id |-> "MCS", mcs |-> 32, bw |-> "40", gi |-> "short"]>>),
                 Plain(CTRL, t, {}), 20) : t \in {Rts, Cts, Ack, PsPoll, CfEnd, BlkAck, VhtNdp, 7}}
  \cup {Radiotap(Untold(<<>>), Plain(CTRL, PsPoll, {"PWR_MGMT"}), 20)}
=============================================================================
