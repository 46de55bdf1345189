------------------------------ MODULE WlanUtil ------------------------------
(***************************************************************************)
(* Tables and conversions of core/wlan_util.c: rates, standards, spatial   *)
(* streams.  Rates are in 100 kbit/s.  No state.                           *)
(***************************************************************************)
EXTENDS Channels

Octet == 0 .. 255       \* an unsigned char

MGMT == 0
CTRL == 1
DATA == 2

\* Subtypes of management frames.
ProbeReq    == 4
ProbeResp   == 5
Timing      == 6
Beacon      == 8
Auth        == 11
Action      == 13
ActionNoAck == 14
\* Subtypes of control frames.
BeamRep   == 4
VhtNdp    == 5
BlkAckReq == 8
BlkAck    == 9
PsPoll    == 10
Rts       == 11
Cts       == 12
Ack       == 13
CfEnd     == 14
CfEndAck  == 15
\* Subtypes of data frames.
NullData == 4
QData    == 8
QNull    == 12

\* The rates before 802.11n, and the switch back from their indices.
RateToIndex(rate) ==
  CASE rate = 540 -> 12 [] rate = 480 -> 11 [] rate = 360 -> 10 [] rate = 240 -> 9
    [] rate = 180 -> 8  [] rate = 120 -> 7  [] rate = 110 -> 6  [] rate = 90 -> 5
    [] rate = 60 -> 4   [] rate = 55 -> 3   [] rate = 20 -> 2   [] rate = 10 -> 1
    [] OTHER -> 0
RateToRate(idx) ==
  CASE idx = 12 -> 540 [] idx = 11 -> 480 [] idx = 10 -> 360 [] idx = 9 -> 240
    [] idx = 8 -> 180  [] idx = 7 -> 120  [] idx = 6 -> 110  [] idx = 5 -> 90
    [] idx = 4 -> 60   [] idx = 3 -> 55   [] idx = 2 -> 20   [] idx = 1 -> 10
    [] OTHER -> 0

\* Rates of the eight modulations with one stream; more streams multiply them,
\* except for a short guard interval at 20 MHz, where the table is rounded in
\* its own way.  Two entries of it are a tenth of the others' scale.
Lgi20 == <<65, 130, 195, 260, 390, 520, 585, 650>>
Lgi40 == <<135, 270, 405, 540, 810, 1080, 1215, 1350>>
Sgi40 == <<150, 300, 450, 600, 900, 1200, 1350, 1500>>
Sgi20 == <<72, 144, 217, 289, 433, 578, 650, 722,
           144, 289, 433, 578, 867, 1156, 1300, 1444,
           217, 433, 650, 867, 1300, 1733, 1950, 2167,
           288, 576, 868, 1156, 1732, 2312, 2600, 2888>>
HtMcsToRate(mcs, ht20, lgi) ==
  LET Scaled(one) == ((mcs \div 8) + 1) * one[(mcs % 8) + 1]
  IN CASE mcs \notin 0 .. 31 -> 0
       [] mcs \in {17, 19} /\ ht20 /\ lgi -> Scaled(Lgi20) \div 10
       [] mcs \in (0 .. 31) \ {17, 19} /\ ht20 /\ lgi -> Scaled(Lgi20)
       [] mcs \in 0 .. 31 /\ ht20 /\ ~lgi -> Sgi20[mcs + 1]
       [] mcs \in 0 .. 31 /\ ~ht20 /\ lgi -> Scaled(Lgi40)
       [] mcs \in 0 .. 31 /\ ~ht20 /\ ~lgi -> Scaled(Sgi40)

\* The two bits of the VHT capabilities that tell the width.
ChanWidthFromVhtCapab(bits) ==
  CASE bits = 0 -> W80 [] bits = 1 -> W160 [] bits = 2 -> W8080 [] OTHER -> WUNSPEC

\* How many entries from the first on are in S.
Leading(s, S) == CHOOSE n \in 0 .. Len(s) :
                   /\ \A i \in 1 .. n : s[i] \in S
                   /\ n < Len(s) => s[n + 1] \notin S

\* Streams of an HT MCS set: rx is the four bytes of its bit mask, tx what it
\* says of the transmitter; streams that are not told stay as they were.
HtStreamsRx(set) == Leading(set.rx, 1 .. 255)
HtStreamsTx(set, old) == CASE ~set.defined -> old
                           [] set.defined /\ ~set.differs -> HtStreamsRx(set)
                           [] set.defined /\ set.differs -> set.max
\* Of a VHT MCS map, two bits per stream, 3 for a stream that is not there.
VhtStreams(streams) == Leading(streams, 0 .. 2)

\* enum uwifi_80211_std, compared as numbers.
STDUNKNOWN == 0
STDB  == 1
STDG  == 2
STDA  == 3
STDN  == 4
STDAC == 5
Std   == STDUNKNOWN .. STDAC

StdFromChan(width, chan) ==
  CASE width \in {WUNSPEC, W20NOHT} -> IF chan > 14 THEN STDA ELSE STDB
    [] width \in {W20, W40} -> STDN
    [] width \in {W80, W160, W8080} -> STDAC

StdFromRate(idx, chan) ==
  CASE idx <= 6 -> STDB
    [] idx \in 7 .. 12 -> IF chan > 14 THEN STDA ELSE STDG
    [] idx > 12 -> STDN

StdFromType(type, stype) ==
  CASE type = CTRL /\ stype \in {BeamRep, VhtNdp} -> STDAC
    [] type = MGMT /\ stype \in {Timing, ActionNoAck} -> STDN
    [] type = MGMT /\ stype = Action -> STDG
    [] type = CTRL /\ stype \in {BlkAckReq, BlkAck} -> STDG
    [] type = DATA /\ stype \in QData .. QNull -> STDG
    [] OTHER -> STDUNKNOWN
=============================================================================
