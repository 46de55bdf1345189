----------------------------- MODULE MCNodeInfo -----------------------------
(***************************************************************************)
(* An access point that hops to another channel and gets wider, and a      *)
(* station that repeats frames, is heard without a signal or a sequence    *)
(* number, and with a retry flag on a frame that was missed before.        *)
(***************************************************************************)
EXTENDS MCRegistry, NodeInfo

\* A frame with its sequence number and flags, heard with a signal; channel and
\* width are what its elements and the radio tell.
HeardAs(f, signal, idx, channel, width) ==
  LET q == W!Parse(W!NoPacket, f)
  IN [p |-> PacketOf(f), signal |-> signal, idx |-> idx, type |-> q.type, stype |-> q.stype,
      wep |-> q.wep, seqno |-> q.seqno, retry |-> q.retry, channel |-> channel, width |-> width]

Numbered(f, n, flags) == [f EXCEPT !.seqno = n, !.flags = @ \cup flags]

ApFrames ==
  {HeardAs(BeaconOf(mA, mA, {"ESS"}, home), -50, 7, 1, W80),
   HeardAs(BeaconOf(mA, mA, {"ESS", "PRIVACY"}, home), -70, 1, 11, W20),
   HeardAs(FromAp(mA, mC), 20, 13, 6, WUNSPEC)}
StationFrames ==
  {HeardAs(Numbered(ToAp(mC, mA), 5, {}), -50, 12, 6, WUNSPEC),
   HeardAs(Numbered(ToAp(mC, mA), 5, {"RETRY"}), -80, 12, 6, WUNSPEC),
   HeardAs(Numbered(ToAp(mC, mA), 0, {"RETRY"}), 0, 4, 1, WUNSPEC),
   HeardAs(Numbered(ToAp(mC, mA), 6, {"RETRY", "PROTECTED"}), -61, 4, 1, WUNSPEC)}

\* An acknowledgment, which has a receiver only and no BSSID.
AckFrames == {HeardAs(AckTo(mA), -40, 7, 1, WUNSPEC)}

HeardDef     == ApFrames \cup StationFrames \cup AckFrames
HeardPackets == {h.p : h \in HeardDef}
TwoNodes     == {n1, n2}
OneNet       == {e1}
TwoMemory    == Permutations(TwoNodes)
=============================================================================
