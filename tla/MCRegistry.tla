----------------------------- MODULE MCRegistry -----------------------------
(***************************************************************************)
(* Small instances of Registry.  The packets are what WlanParser makes of  *)
(* frames a few devices send, so the registries only see states of a       *)
(* packet that the parser can produce.                                     *)
(***************************************************************************)
EXTENDS RegistrySweep, TLC

CONSTANTS n1, n2, n3, e1, e2, zero, bcast, mA, mB, mC, home, guest, none

W == INSTANCE WlanParser WITH NoAddr <- zero, NoSsid <- none

\* A frame with nothing special about it; a1, a2, a3 are its addresses.
Plain(type, stype, flags, a1, a2, a3, capab, ies) ==
  [type |-> type, stype |-> stype, flags |-> flags, amsdu |-> FALSE,
   a1 |-> a1, a2 |-> a2, a3 |-> a3, seqno |-> 1, capab |-> capab, ies |-> ies, len |-> 100]
Ssid(s) == <<[id |-> "SSID", len |-> 4, ssid |-> s, head |-> s]>>

BeaconOf(m, cell, capab, ssid) ==
  Plain(W!MGMT, W!Beacon, {}, bcast, m, cell, capab, Ssid(ssid))
ToAp(sta, a) == Plain(W!DATA, 0, {"TO_DS"}, a, sta, bcast, {}, <<>>)
FromAp(a, sta) == Plain(W!DATA, 0, {"FROM_DS"}, sta, a, a, {}, <<>>)
AckTo(m) == Plain(W!CTRL, W!Ack, {}, m, zero, zero, {}, <<>>)
ProbeBy(m) == Plain(W!MGMT, W!ProbeReq, {}, bcast, m, bcast, {}, Ssid(home))

PacketOf(f) == LET p == W!Parse(W!NoPacket, f)
               IN [ta |-> p.ta, ra |-> p.ra, bssid |-> p.bssid, mode |-> p.mode,
                   essid |-> p.essid, beacon |-> p.beacon, badfcs |-> FALSE]

\* Two access points A and B of one network, one of which moves to another,
\* and a station C that talks to both; B also relays as a station of A.
RoamingFrames ==
  {BeaconOf(mA, mA, {"ESS"}, home), BeaconOf(mB, mB, {"ESS"}, home),
   BeaconOf(mB, mB, {"ESS"}, guest), ToAp(mC, mA), FromAp(mB, mC),
   ToAp(mC, mB), ToAp(mB, mA)}

\* Three stations without an access point: the cells A and B of one network
\* that should have merged, a node that changes networks, and a prober.
AdhocFrames ==
  {BeaconOf(mA, mA, {"IBSS"}, home), BeaconOf(mB, mB, {"IBSS"}, home),
   BeaconOf(mC, mA, {"IBSS"}, home), BeaconOf(mC, mA, {"IBSS"}, guest),
   BeaconOf(mC, mB, {"IBSS"}, home), ProbeBy(mB)}

\* One of each packet the registries refuse, and acknowledgments, which tell a
\* receiver only.
OddPackets ==
  {PacketOf(AckTo(mA)),
   [PacketOf(BeaconOf(mC, mC, {"ESS"}, home)) EXCEPT !.badfcs = TRUE]}

RoamingPackets == {PacketOf(f) : f \in RoamingFrames} \cup OddPackets
AdhocPackets   == {PacketOf(f) : f \in AdhocFrames} \cup OddPackets
CellPackets    == RoamingPackets \cup
                  {PacketOf(BeaconOf(mC, mA, {"IBSS"}, home)),
                   PacketOf(BeaconOf(mB, mB, {"IBSS"}, home))}
MixedPackets   == RoamingPackets \cup AdhocPackets

MacDef   == {zero, bcast, mA, mB, mC}
NodeAddr == {n1, n2, n3}
NetAddr  == {e1, e2}
Memory   == Permutations(NodeAddr) \cup Permutations(NetAddr)
=============================================================================
