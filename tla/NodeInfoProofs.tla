--------------------------- MODULE NodeInfoProofs ---------------------------
(***************************************************************************)
(* Theorems about NodeInfo, for any number of nodes and whatever is heard. *)
(* First that NodeInfo refines Registry, so that all that is proved of the *)
(* registries holds here as well; then the invariants of the fields, each  *)
(* of them inductive given that no address has two nodes.  FieldsStep says *)
(* once and for all what a step does to the fields of the nodes; the       *)
(* invariants only look at its four cases.                                 *)
(***************************************************************************)
EXTENDS NodeInfo, RegistryProofs

\* Every call of NodeInfo is a call of Registry.
LEMMA StepIsCall == [InfoNext]_allVars => [Next]_vars
<1> SUFFICES ASSUME [InfoNext]_allVars PROVE [Next]_vars
  OBVIOUS
<1>1. ASSUME NEW h \in Heard, HearSender(h) \/ HearReceiver(h) PROVE Next
  BY <1>1, NodeInfoAssumption DEF HearSender, HearReceiver, Next
<1>2. CASE Relink
  BY <1>2 DEF Relink, Next
<1>3. ASSUME NEW gone \in SUBSET nodes, EvictNodes(gone) PROVE Next
  BY <1>3 DEF EvictNodes, Next
<1>4. CASE FreeAll
  BY <1>4 DEF FreeAll, Next
<1>5. CASE UNCHANGED allVars
  BY <1>5 DEF allVars
<1> QED BY <1>1, <1>2, <1>3, <1>4, <1>5 DEF InfoNext

\* The fields do not change what the registries do: all that is proved of
\* Registry holds of NodeInfo.
THEOREM RefinesRegistry == InfoSpec => Spec
<1>1. InfoInit => Init
  BY DEF InfoInit
<1> QED BY <1>1, StepIsCall, PTL DEF InfoSpec, Spec

\* Also with the fields, the registries are the directory of Directory.
THEOREM InfoImplementsDirectory == InfoSpec => ImplementsDirectory
BY RefinesRegistry, Refinement, PTL

-----------------------------------------------------------------------------
\* What a step does to the fields.

\* h is heard from node a, which is known or new.
SentBy(a, h) ==
  /\ nodes' = nodes \cup {a} /\ ap_node' = ap_node
  /\ src'[a] = h.p.ta /\ (a \in nodes => src[a] = h.p.ta)
  /\ info' = [info EXCEPT ![a] = CopyNodeinfo(a, mode'[a], h)]
  /\ heard' = [heard EXCEPT ![a] =
                 Append(@, [v |-> -h.signal, seqno |-> h.seqno, retry |-> h.retry])]
\* h is heard being sent to node a.
SentTo(a, h) ==
  /\ nodes' = nodes \cup {a} /\ ap_node' = ap_node
  /\ info' = [info EXCEPT ![a] = CopyRxNodeinfo(a, mode'[a], h)]
  /\ heard' = heard

\* Of the two nodes that a call files and that the fields are copied to, there
\* is but one, since no address has two nodes.
LEMMA OneNode ==
  ASSUME IInv, IInv', NEW p \in Packets, NEW m \in Mac, NEW b \in Slot(m),
         NEW md, FileNode(b, m, p, md), NEW a \in Updated(m)
  PROVE  /\ a \in Addr /\ a = b
         /\ nodes' = nodes \cup {a} /\ ap_node' = ap_node
         /\ src'[a] = m /\ (a \in nodes => src[a] = m)
<1>1. b \in Addr /\ (b \in nodes => src[b] = m) /\ src \in [Addr -> Mac]
  BY DEF IInv, TypeOK, Slot
<1>2. b \in nodes' /\ src'[b] = m
  BY <1>1 DEF FileNode
<1>3. a = b
  BY <1>2 DEF IInv, UniqueKeys, Updated
<1> QED BY <1>1, <1>2, <1>3 DEF FileNode, apVars

LEMMA FieldsStep ==
  ASSUME IInv, IInv', [InfoNext]_allVars
  PROVE  \/ \E h \in Heard, a \in Addr : SentBy(a, h)
         \/ \E h \in Heard, a \in Addr : SentTo(a, h)
         \/ \E S \in SUBSET Addr : Forget(S) /\ nodes' = nodes \ S
         \/ UNCHANGED <<nodes, infoVars>>
<1>1. ASSUME NEW h \in Heard, HearSender(h) PROVE \E a \in Addr : SentBy(a, h)
  <2>1. h.p \in Packets /\ h.p.ta \in Mac
    BY NodeInfoAssumption, RegistryAssumption DEF Packet
  <2>2. PICK b \in Slot(h.p.ta) : FileNode(b, h.p.ta, h.p, mode[b] \cup h.p.mode)
    BY <1>1 DEF HearSender, NodeUpdate
  <2>3. PICK a \in Updated(h.p.ta) :
          /\ info' = [info EXCEPT ![a] = CopyNodeinfo(a, mode'[a], h)]
          /\ heard' = [heard EXCEPT ![a] =
                Append(@, [v |-> -h.signal, seqno |-> h.seqno, retry |-> h.retry])]
    BY <1>1 DEF HearSender
  <2>4. /\ a \in Addr /\ nodes' = nodes \cup {a} /\ ap_node' = ap_node
        /\ src'[a] = h.p.ta /\ (a \in nodes => src[a] = h.p.ta)
    BY <2>1, <2>2, OneNode
  <2> QED BY <2>3, <2>4 DEF SentBy
<1>2. ASSUME NEW h \in Heard, HearReceiver(h) PROVE \E a \in Addr : SentTo(a, h)
  <2>1. h.p \in Packets /\ h.p.ra \in Mac
    BY NodeInfoAssumption, RegistryAssumption DEF Packet
  <2>2. PICK b \in Slot(h.p.ra) : FileNode(b, h.p.ra, h.p, RxMode(h.p, mode[b]))
    BY <1>2 DEF HearReceiver, NodeUpdateReceiver
  <2>3. PICK a \in Updated(h.p.ra) :
          info' = [info EXCEPT ![a] = CopyRxNodeinfo(a, mode'[a], h)]
    BY <1>2 DEF HearReceiver
  <2>4. a \in Addr /\ nodes' = nodes \cup {a} /\ ap_node' = ap_node
    BY <2>1, <2>2, OneNode
  <2> QED BY <1>2, <2>3, <2>4 DEF SentTo, HearReceiver
<1>3. CASE Relink
  BY <1>3 DEF Relink, FindAp, EssidsRemoveNode, EssidsUpdate, EssidsFree, nodeVars
<1>4. ASSUME NEW gone \in SUBSET nodes, EvictNodes(gone)
      PROVE  \E S \in SUBSET Addr : Forget(S) /\ nodes' = nodes \ S
  BY <1>4 DEF EvictNodes, NodesTimeout, IInv, TypeOK
<1>5. CASE FreeAll
  <2>1. Forget(Addr) /\ nodes' = nodes \ Addr
    BY <1>5 DEF FreeAll, NodesFree, IInv, TypeOK
  <2> QED BY <2>1
<1>6. CASE UNCHANGED allVars
  BY <1>6 DEF allVars, vars, nodeVars, infoVars
<1> QED BY <1>1, <1>2, <1>3, <1>4, <1>5, <1>6 DEF InfoNext

-----------------------------------------------------------------------------
\* The types.

\* What the fields of a node and of what is heard range over.
LEMMA InfoFields ==
  ASSUME NEW n \in Info
  PROVE  /\ n.pkt_count \in Nat /\ n.rx_pkt_count \in Nat /\ n.rx_only \in BOOLEAN
         /\ n.sig_avg \in Nat /\ n.sig_max \in Int /\ n.wep \in BOOLEAN
         /\ n.seqno \in Seqno /\ n.retries_all \in Nat /\ n.retries_last \in Nat
         /\ n.channel \in Octet /\ n.chan_width \in Width /\ n.std \in Std
BY DEF Info

LEMMA ReceptionFields ==
  ASSUME NEW h \in Reception
  PROVE  /\ h.p \in Packet /\ h.signal \in Int /\ h.idx \in Octet
         /\ h.type \in 0 .. 2 /\ h.stype \in 0 .. 15 /\ h.wep \in BOOLEAN
         /\ h.seqno \in Seqno /\ h.retry \in BOOLEAN
         /\ h.channel \in Octet /\ h.width \in Width
BY DEF Reception

\* Their values are numbers.
LEMMA OctetInt == ASSUME NEW x \in Octet PROVE x \in Nat /\ x <= 255
BY DEF Octet

LEMMA SeqnoIs == ASSUME NEW x PROVE x \in Seqno <=> x \in Nat /\ x <= 4095
<1> DEFINE b == 4095
<1>1. Seqno = 0 .. b /\ b \in Nat
  BY DEF Seqno
<1>2. x <= 4095 <=> x <= b
  OBVIOUS
<1> HIDE DEF b
<1> QED BY <1>1, <1>2

LEMMA ZeroInRanges == 0 \in Octet /\ 0 \in Seqno
BY SeqnoIs DEF Octet

LEMMA HeardTyped ==
  ASSUME NEW h \in Heard
  PROVE  /\ h \in Reception /\ -h.signal \in Int
         /\ [v |-> -h.signal, seqno |-> h.seqno, retry |-> h.retry] \in Sample
<1>1. h \in Reception /\ (-h.signal) * Factor * 8 < ULong
  BY NodeInfoAssumption
<1>2. h.signal \in Int /\ h.seqno \in Seqno /\ h.retry \in BOOLEAN
  BY <1>1, ReceptionFields
<1>3. -h.signal \in Value
  BY <1>1, <1>2 DEF Value
<1> QED BY <1>1, <1>2, <1>3 DEF Sample

\* The value of a frame that was heard.
LEMMA SampleValue == ASSUME NEW x \in Sample PROVE x.v \in Int /\ x.v * Factor * 8 < ULong
BY DEF Sample, Value

\* Every width and every rate is of some standard.
LEMMA StdFromChanTyped == ASSUME NEW w \in Width, NEW c PROVE StdFromChan(w, c) \in Std
BY DEF StdFromChan, Std, STDUNKNOWN, STDB, STDG, STDA, STDN, STDAC,
       Width, WUNSPEC, W20NOHT, W20, W40, W80, W160, W8080

LEMMA StdFromRateTyped == ASSUME NEW i \in Octet, NEW c PROVE StdFromRate(i, c) \in Std
BY OctetInt DEF StdFromRate, Std, STDUNKNOWN, STDB, STDG, STDA, STDN, STDAC

LEMMA StdTyped ==
  ASSUME NEW n \in Info, NEW h \in Reception
  PROVE  StdAfter(n, h) \in Std
<1>1. StdFromType(h.type, h.stype) \in Std
  BY DEF StdFromType, Std, STDUNKNOWN, STDB, STDG, STDA, STDN, STDAC
<1>2. StdFromChan(h.width, h.channel) \in Std
  <2>1. h.width \in Width
    BY ReceptionFields
  <2> QED BY <2>1, StdFromChanTyped
<1>3. StdFromRate(h.idx, h.channel) \in Std
  <2>1. h.idx \in Octet
    BY ReceptionFields
  <2> QED BY <2>1, StdFromRateTyped
<1>4. n.std \in Std
  BY InfoFields
<1> QED BY <1>1, <1>2, <1>3, <1>4 DEF StdAfter, Larger

\* The channel of a node is one, whether it comes from the frame or from its AP.
LEMMA ChannelTyped ==
  ASSUME TypeOK, info \in [Addr -> Info], NEW h \in Reception, NEW a \in Addr, NEW md
  PROVE  FollowAp(a, md, h) \in Octet /\ ChannelAfter(a, md, h) \in Octet
<1>1. \A b \in Addr : info[b].channel \in Octet
  BY InfoFields
<1>2. ap_node[a] \in Addr \cup {NULL} /\ h.channel \in Octet
  BY ReceptionFields DEF TypeOK
<1>3. FollowAp(a, md, h) \in Octet
  BY <1>1, <1>2 DEF FollowAp
<1> QED BY <1>2, <1>3 DEF ChannelAfter

\* What unsigned arithmetic does to a number: nothing when it is one of its values.
LEMMA Wraps ==
  ASSUME NEW x \in Int
  PROVE  x % ULong \in Nat /\ (0 <= x /\ x < ULong => x % ULong = x)
BY NodeInfoAssumption

LEMMA EwmaTyped == ASSUME NEW avg \in Nat, NEW v \in Int PROVE EwmaAdd(avg, v) \in Nat
<1> DEFINE x == (8 * avg - avg + v * Factor) % ULong
           y == (v * Factor) % ULong
<1>1. x \in Nat /\ y \in Nat
  BY Wraps DEF Factor
<1>2. EwmaAdd(avg, v) = IF avg # 0 THEN x \div 8 ELSE y
  BY DEF EwmaAdd
<1> HIDE DEF x, y
<1> QED BY <1>1, <1>2

\* The fields of the sender of a frame, one by one.
LEMMA Copied ==
  ASSUME TypeOK, info \in [Addr -> Info], NEW h \in Heard, NEW a \in Addr, NEW md
  PROVE  LET n == info[a]
             m == CopyNodeinfo(a, md, h)
         IN /\ m \in Info
            /\ m.pkt_count = n.pkt_count + 1 /\ ~m.rx_only
            /\ m.channel = ChannelAfter(a, md, h)
            /\ m.sig_avg = EwmaAdd(n.sig_avg, -h.signal)
            /\ m.sig_max = SigMax(n, h)
            /\ m.chan_width = Larger(n.chan_width, h.width)
            /\ m.std = StdAfter(n, h)
            /\ m.seqno = SeqnoAfter(n, h)
            /\ m.retries_all = RetriesAll(n, h)
            /\ m.retries_last = RetriesLast(n, h)
<1> DEFINE n == info[a]
<1>1. n \in Info /\ h \in Reception /\ -h.signal \in Int
  BY HeardTyped
<1>2. ChannelAfter(a, md, h) \in Octet /\ StdAfter(n, h) \in Std
  BY <1>1, ChannelTyped, StdTyped
<1> HIDE DEF n
<1>3. h.width \in Width /\ n.chan_width \in Width /\ n.pkt_count \in Nat /\ n.rx_pkt_count \in Nat
  BY <1>1, InfoFields, ReceptionFields
<1>4. EwmaAdd(n.sig_avg, -h.signal) \in Nat
  <2>1. n.sig_avg \in Nat
    BY <1>1, InfoFields
  <2> QED BY <1>1, <2>1, EwmaTyped
<1>5. SigMax(n, h) \in Int
  <2>1. n.sig_max \in Int /\ h.signal \in Int
    BY <1>1, InfoFields, ReceptionFields
  <2> QED BY <2>1, Zenon DEF SigMax
<1>6. Larger(n.chan_width, h.width) \in Width
  BY <1>3, Zenon DEF Larger
<1>7. WepAfter(n, h) \in BOOLEAN
  <2>1. n.wep \in BOOLEAN /\ h.wep \in BOOLEAN
    BY <1>1, InfoFields, ReceptionFields
  <2> QED BY <2>1, Zenon DEF WepAfter
<1>8. SeqnoAfter(n, h) \in Seqno
  <2>1. n.seqno \in Seqno /\ h.seqno \in Seqno
    BY <1>1, InfoFields, ReceptionFields
  <2> QED BY <2>1, Zenon DEF SeqnoAfter
<1>9. RetriesAll(n, h) \in Nat /\ RetriesLast(n, h) \in Nat
  <2>1. n.retries_all \in Nat /\ n.retries_last \in Nat
    BY <1>1, InfoFields
  <2> QED BY <2>1 DEF RetriesAll, RetriesLast
<1>10. n.pkt_count + 1 \in Nat
  BY <1>3
<1>11. CopyNodeinfo(a, md, h) \in Info
  BY <1>2, <1>3, <1>4, <1>5, <1>6, <1>7, <1>8, <1>9, <1>10 DEF CopyNodeinfo, Info, n
<1> QED BY <1>11 DEF CopyNodeinfo, n

LEMMA RxCopied ==
  ASSUME TypeOK, info \in [Addr -> Info], NEW h \in Heard, NEW a \in Addr, NEW md
  PROVE  LET n == info[a]
             m == CopyRxNodeinfo(a, md, h)
         IN /\ m \in Info
            /\ m.rx_only = (n.rx_only \/ a \notin nodes)
            /\ m.channel = FollowAp(a, md, h)
            /\ m.pkt_count = n.pkt_count /\ m.sig_avg = n.sig_avg
            /\ m.sig_max = n.sig_max /\ m.std = n.std
            /\ m.chan_width = n.chan_width /\ m.seqno = n.seqno
            /\ m.retries_all = n.retries_all /\ m.retries_last = n.retries_last
<1> DEFINE n == info[a]
<1>1. n \in Info /\ h \in Reception
  BY HeardTyped
<1>2. FollowAp(a, md, h) \in Octet
  BY <1>1, ChannelTyped
<1> HIDE DEF n
<1>3. WepAfter(n, h) \in BOOLEAN
  <2>1. n.wep \in BOOLEAN /\ h.wep \in BOOLEAN
    BY <1>1, InfoFields, ReceptionFields
  <2> QED BY <2>1, Zenon DEF WepAfter
<1>4. /\ n.pkt_count \in Nat /\ n.rx_pkt_count \in Nat /\ n.rx_only \in BOOLEAN
      /\ n.sig_avg \in Nat /\ n.sig_max \in Int
      /\ n.seqno \in Seqno /\ n.retries_all \in Nat /\ n.retries_last \in Nat
      /\ n.chan_width \in Width /\ n.std \in Std
  BY <1>1, InfoFields
<1>5. n.rx_pkt_count + 1 \in Nat /\ (n.rx_only \/ a \notin nodes) \in BOOLEAN
  BY <1>4
<1>6. CopyRxNodeinfo(a, md, h) \in Info
  BY <1>2, <1>3, <1>4, <1>5 DEF CopyRxNodeinfo, Info, n
<1> QED BY <1>6 DEF CopyRxNodeinfo, n

LEMMA ZeroTyped == Zero \in Info
<1>1. WUNSPEC \in Width /\ STDUNKNOWN \in Std
  BY DEF Width, WUNSPEC, W8080, Std, STDUNKNOWN, STDAC
<1> QED BY <1>1, ZeroInRanges DEF Zero, Info

LEMMA TypesStart == InfoInit => InfoTypeOK
<1> SUFFICES ASSUME InfoInit PROVE InfoTypeOK
  OBVIOUS
<1> QED BY ZeroTyped DEF InfoInit, Init, InfoTypeOK, Zero

LEMMA TypesStep ==
  ASSUME IInv, IInv', InfoTypeOK, [InfoNext]_allVars PROVE InfoTypeOK'
<1>1. TypeOK /\ info \in [Addr -> Info] /\ heard \in [Addr -> Seq(Sample)]
  BY DEF IInv, InfoTypeOK
<1>2. ASSUME NEW h \in Heard, NEW a \in Addr, SentBy(a, h) PROVE InfoTypeOK'
  <2> DEFINE x == [v |-> -h.signal, seqno |-> h.seqno, retry |-> h.retry]
  <2>1. info'[a] \in Info /\ info'[a].pkt_count = info[a].pkt_count + 1 /\ ~info'[a].rx_only
    BY <1>1, <1>2, Copied DEF SentBy
  <2>2. x \in Sample
    BY HeardTyped
  <2>3. heard[a] \in Seq(Sample) /\ heard'[a] = Append(heard[a], x)
    BY <1>1, <1>2 DEF SentBy
  <2>4. /\ heard'[a] \in Seq(Sample) /\ Len(heard'[a]) = Len(heard[a]) + 1
        /\ heard'[a] # <<>>
    <3> HIDE DEF x
    <3> QED BY <2>2, <2>3
  <2>5. \A b \in Addr \ {a} : info'[b] = info[b] /\ heard'[b] = heard[b]
    BY <1>1, <1>2 DEF SentBy
  <2>6. info' \in [Addr -> Info] /\ heard' \in [Addr -> Seq(Sample)]
    BY <1>1, <1>2, <2>1, <2>4 DEF SentBy
  <2> QED BY <1>2, <2>1, <2>4, <2>5, <2>6 DEF InfoTypeOK, SentBy
<1>3. ASSUME NEW h \in Heard, NEW a \in Addr, SentTo(a, h) PROVE InfoTypeOK'
  <2>1. /\ info'[a] \in Info /\ info'[a].pkt_count = info[a].pkt_count
        /\ info'[a].rx_only = (info[a].rx_only \/ a \notin nodes)
    BY <1>1, <1>3, RxCopied DEF SentTo
  <2>2. \A b \in Addr \ {a} : info'[b] = info[b]
    BY <1>1, <1>3 DEF SentTo
  <2>3. info' \in [Addr -> Info]
    BY <1>1, <1>3, <2>1 DEF SentTo
  <2>4. a \notin nodes => heard[a] = <<>>
    BY <1>1 DEF InfoTypeOK, Zero
  <2>5. info[a] \in Info /\ (a \notin nodes => info[a].rx_only = FALSE)
    BY <1>1 DEF InfoTypeOK, Zero
  <2>6. ASSUME NEW b \in nodes' PROVE info'[b].rx_only <=> heard'[b] = <<>>
    <3>1. CASE b = a /\ a \in nodes
      <4>1. info'[b].rx_only = info[b].rx_only
        BY <2>1, <2>5, <3>1, InfoFields
      <4>2. heard' = heard
        BY <1>3 DEF SentTo
      <4> QED BY <3>1, <4>1, <4>2 DEF InfoTypeOK
    <3>2. CASE b = a /\ a \notin nodes
      BY <1>3, <2>1, <2>4, <3>2 DEF SentTo
    <3>3. CASE b # a
      BY <1>1, <1>3, <2>2, <3>3 DEF InfoTypeOK, SentTo, TypeOK
    <3> QED BY <3>1, <3>2, <3>3
  <2>7. \A b \in Addr : info'[b].pkt_count = Len(heard'[b])
    BY <1>3, <2>1, <2>2 DEF InfoTypeOK, SentTo
  <2>8. \A b \in Addr \ nodes' : info'[b] = Zero
    BY <1>3, <2>2 DEF InfoTypeOK, SentTo
  <2> QED BY <1>1, <1>3, <2>3, <2>6, <2>7, <2>8 DEF InfoTypeOK, SentTo
<1>4. ASSUME NEW S \in SUBSET Addr, Forget(S), nodes' = nodes \ S PROVE InfoTypeOK'
  <2>1. info' \in [Addr -> Info] /\ heard' \in [Addr -> Seq(Sample)]
    BY <1>1, <1>4, ZeroTyped DEF Forget
  <2>2. \A b \in S : info'[b] = Zero /\ heard'[b] = <<>>
    BY <1>4 DEF Forget
  <2>3. \A b \in Addr \ S : info'[b] = info[b] /\ heard'[b] = heard[b]
    BY <1>4 DEF Forget
  <2>4. \A b \in Addr : info'[b].pkt_count = Len(heard'[b])
    BY <2>2, <2>3 DEF InfoTypeOK, Zero
  <2>5. \A b \in nodes' : info'[b].rx_only <=> heard'[b] = <<>>
    BY <1>1, <1>4, <2>3 DEF InfoTypeOK, TypeOK
  <2>6. \A b \in Addr \ nodes' : info'[b] = Zero
    BY <1>4, <2>2, <2>3 DEF InfoTypeOK
  <2> QED BY <2>1, <2>4, <2>5, <2>6 DEF InfoTypeOK
<1>5. CASE UNCHANGED <<nodes, infoVars>>
  BY <1>5 DEF InfoTypeOK, infoVars
<1> QED BY <1>2, <1>3, <1>4, <1>5, FieldsStep

\* IInv and the types hold in every reachable state.
THEOREM InfoTypeCorrect == InfoSpec => []InfoTypeOK
<1>1. IInv /\ IInv' /\ InfoTypeOK /\ [InfoNext]_allVars => InfoTypeOK'
  BY TypesStep
<1> QED BY <1>1, TypesStart, RefinesRegistry, Invariance, PTL DEF InfoSpec

-----------------------------------------------------------------------------
\* A node that sends has one frame more, and no other node changes; for the
\* other steps it is enough to look at the fields they leave alone.

LEMMA OneFrameMore ==
  ASSUME InfoTypeOK, NEW h \in Heard, NEW a \in Addr, SentBy(a, h)
  PROVE  LET s == heard[a]
             t == heard'[a]
         IN /\ s \in Seq(Sample) /\ t \in Seq(Sample)
            /\ Len(t) = Len(s) + 1 /\ Len(s) \in Nat /\ t # <<>>
            /\ t[Len(t)].v = -h.signal /\ t[Len(t)].seqno = h.seqno
            /\ t[Len(t)].retry = h.retry
            /\ \A k \in 1 .. Len(s) : t[k] = s[k]
            /\ \A b \in Addr \ {a} : info'[b] = info[b] /\ heard'[b] = heard[b]
            /\ nodes' = nodes \cup {a}
            /\ a \notin nodes => s = <<>> /\ info[a] = Zero
            /\ info'[a] = CopyNodeinfo(a, mode'[a], h)
<1> DEFINE x == [v |-> -h.signal, seqno |-> h.seqno, retry |-> h.retry]
<1>1. info \in [Addr -> Info] /\ heard \in [Addr -> Seq(Sample)]
  BY DEF InfoTypeOK
<1>2. heard[a] \in Seq(Sample) /\ x \in Sample /\ heard'[a] = Append(heard[a], x)
  BY <1>1, HeardTyped DEF SentBy
<1>3. /\ heard'[a] \in Seq(Sample) /\ Len(heard'[a]) = Len(heard[a]) + 1
      /\ heard'[a][Len(heard'[a])] = x /\ Len(heard[a]) \in Nat
      /\ \A k \in 1 .. Len(heard[a]) : heard'[a][k] = heard[a][k]
  <2> HIDE DEF x
  <2> QED BY <1>2
<1>4. \A b \in Addr \ {a} : info'[b] = info[b] /\ heard'[b] = heard[b]
  BY <1>1 DEF SentBy
<1>7. x.v = -h.signal /\ x.seqno = h.seqno /\ x.retry = h.retry
  OBVIOUS
<1>8. heard'[a] # <<>>
  BY <1>3
<1>5. a \notin nodes => heard[a] = <<>> /\ info[a] = Zero
  BY <1>2 DEF InfoTypeOK, Zero
<1>6. info'[a] = CopyNodeinfo(a, mode'[a], h)
  BY <1>1 DEF SentBy
<1> HIDE DEF x
<1> QED BY <1>2, <1>3, <1>4, <1>5, <1>6, <1>7, <1>8 DEF SentBy

\* A frame sent to a node leaves what is told by the frames it sends alone; if
\* the node is new there are none.
LEMMA NoFrameMore ==
  ASSUME IInv, InfoTypeOK, NEW h \in Heard, NEW a \in Addr, SentTo(a, h)
  PROVE  /\ heard' = heard /\ nodes' = nodes \cup {a}
         /\ \A b \in Addr : /\ info'[b].sig_avg = info[b].sig_avg
                            /\ info'[b].sig_max = info[b].sig_max
                            /\ info'[b].std = info[b].std
                            /\ info'[b].chan_width = info[b].chan_width
                            /\ info'[b].seqno = info[b].seqno
                            /\ info'[b].retries_all = info[b].retries_all
                            /\ info'[b].retries_last = info[b].retries_last
         /\ a \notin nodes => heard[a] = <<>> /\ info[a] = Zero
<1>1. info \in [Addr -> Info] /\ TypeOK /\ heard[a] \in Seq(Sample)
  BY DEF InfoTypeOK, IInv
<1>2. a \notin nodes => heard[a] = <<>> /\ info[a] = Zero
  BY <1>1 DEF InfoTypeOK, Zero
<1>3. info'[a] = CopyRxNodeinfo(a, mode'[a], h)
  BY <1>1 DEF SentTo
<1>4. \A b \in Addr \ {a} : info'[b] = info[b]
  BY <1>1 DEF SentTo
<1>5. \A md : LET m == CopyRxNodeinfo(a, md, h)
              IN /\ m.sig_avg = info[a].sig_avg /\ m.sig_max = info[a].sig_max
                 /\ m.std = info[a].std /\ m.chan_width = info[a].chan_width
                 /\ m.seqno = info[a].seqno /\ m.retries_all = info[a].retries_all
                 /\ m.retries_last = info[a].retries_last
  BY <1>1, RxCopied
<1> QED BY <1>2, <1>3, <1>4, <1>5 DEF SentTo

\* Freed nodes are zero, the others as they were.
LEMMA Forgotten ==
  ASSUME NEW S \in SUBSET Addr, Forget(S)
  PROVE  /\ \A b \in S : info'[b] = Zero /\ heard'[b] = <<>>
         /\ \A b \in Addr \ S : info'[b] = info[b] /\ heard'[b] = heard[b]
BY DEF Forget

LEMMA UnheardStep ==
  ASSUME IInv, IInv', InfoTypeOK, UnheardZero, [InfoNext]_allVars
  PROVE  UnheardZero'
<1> USE DEF UnheardZero
<1>1. ASSUME NEW h \in Heard, NEW a \in Addr, SentBy(a, h) PROVE UnheardZero'
  BY <1>1, OneFrameMore
<1>2. ASSUME NEW h \in Heard, NEW a \in Addr, SentTo(a, h) PROVE UnheardZero'
  BY <1>2, NoFrameMore
<1>3. ASSUME NEW S \in SUBSET Addr, Forget(S) PROVE UnheardZero'
  BY <1>3, Forgotten DEF Zero
<1>4. CASE UNCHANGED <<nodes, infoVars>>
  BY <1>4 DEF infoVars
<1> QED BY <1>1, <1>2, <1>3, <1>4, FieldsStep

\* Together with the types: the invariant the following ones rest on.
InfoInv == IInv /\ InfoTypeOK /\ UnheardZero

LEMMA InfoInvariance == InfoSpec => []InfoInv
<1>1. InfoInit => UnheardZero
  BY DEF InfoInit, UnheardZero, Zero
<1>2. IInv /\ IInv' /\ InfoTypeOK /\ UnheardZero /\ [InfoNext]_allVars => UnheardZero'
  BY UnheardStep
<1> QED
  BY <1>1, <1>2, RefinesRegistry, Invariance, InfoTypeCorrect, PTL DEF InfoSpec, InfoInv

-----------------------------------------------------------------------------
\* The average: one weighted step stays between the old average and the value,
\* both of which lie in the range, and does not wrap.
LEMMA EwmaBetween ==
  ASSUME NEW avg \in Nat, avg * 8 < ULong, NEW v \in Nat, v * Factor * 8 < ULong
  PROVE  /\ avg <= v * Factor => avg <= EwmaAdd(avg, v) /\ EwmaAdd(avg, v) <= v * Factor
         /\ v * Factor <= avg => v * Factor <= EwmaAdd(avg, v) /\ EwmaAdd(avg, v) <= avg
         /\ avg = 0 => EwmaAdd(avg, v) = v * Factor
<1> DEFINE x == 8 * avg - avg + v * Factor
           y == v * Factor
<1>1. x \in Nat /\ x < ULong /\ y \in Nat /\ y < ULong
  BY NodeInfoAssumption DEF Factor
<1>2. x % ULong = x /\ y % ULong = y
  <2> HIDE DEF x, y
  <2> QED BY <1>1, Wraps
<1>3. EwmaAdd(avg, v) = IF avg # 0 THEN x \div 8 ELSE y
  <2>1. EwmaAdd(avg, v) = IF avg # 0 THEN (x % ULong) \div 8 ELSE y % ULong
    BY DEF EwmaAdd
  <2> HIDE DEF x, y
  <2> QED BY <1>2, <2>1
<1> QED BY <1>3 DEF Factor

LEMMA AverageStep ==
  ASSUME InfoInv, InfoInv', AverageInRange, [InfoNext]_allVars
  PROVE  AverageInRange'
<1> USE DEF AverageInRange, InfoInv
<1>1. nodes \subseteq Addr
  BY DEF IInv, TypeOK
<1>2. ASSUME NEW h \in Heard, NEW a \in Addr, SentBy(a, h) PROVE AverageInRange'
  <2> DEFINE s == heard[a]
             t == heard'[a]
             N == Len(t)
             v == -h.signal
             avg == info[a].sig_avg
  <2>1. /\ s \in Seq(Sample) /\ t \in Seq(Sample) /\ N = Len(s) + 1 /\ Len(s) \in Nat
        /\ t[N].v = v /\ \A k \in 1 .. Len(s) : t[k] = s[k]
        /\ nodes' = nodes \cup {a}
        /\ \A b \in Addr \ {a} : info'[b] = info[b] /\ heard'[b] = heard[b]
        /\ a \notin nodes => s = <<>> /\ info[a] = Zero
    BY <1>2, OneFrameMore
  <2>2. info'[a].sig_avg = EwmaAdd(avg, v) /\ v \in Int /\ avg \in Nat
    <3>1. info'[a] = CopyNodeinfo(a, mode'[a], h) /\ v \in Int
      BY <1>2, OneFrameMore, HeardTyped
    <3>2. avg \in Nat
      BY InfoFields DEF InfoTypeOK
    <3> QED BY <3>1, <3>2 DEF CopyNodeinfo
  <2>3. DOMAIN s = 1 .. Len(s) /\ DOMAIN t = 1 .. N /\ N \in DOMAIN t /\ DOMAIN s \subseteq DOMAIN t
    <3>1. DOMAIN s = 1 .. Len(s) /\ DOMAIN t = 1 .. N
      BY <2>1
    <3> QED BY <2>1, <3>1
  <2>4. \A k \in DOMAIN t : t[k].v \in Int /\ t[k].v * Factor * 8 < ULong
    <3> TAKE k \in DOMAIN t
    <3>1. t[k] \in Sample
      BY <2>1, <2>3
    <3> HIDE DEF t
    <3> QED BY <3>1, SampleValue
  <2>5. ASSUME Loud(t) = {}
        PROVE  \E j, k \in DOMAIN t : /\ t[j].v * Factor <= EwmaAdd(avg, v)
                                   /\ EwmaAdd(avg, v) <= t[k].v * Factor
    <3>0. /\ \A k \in DOMAIN t : t[k].v \in Nat /\ t[k].v * Factor \in Nat
          /\ Loud(s) = {} /\ v \in Nat /\ v * Factor * 8 < ULong
      <4>1. \A k \in DOMAIN t : ~(t[k].v < 0)
        BY <2>5 DEF Loud
      <4>2. \A k \in DOMAIN t : t[k].v \in Nat /\ t[k].v * Factor \in Nat
        <5> TAKE k \in DOMAIN t
        <5> DEFINE x == t[k].v
        <5>1. x \in Int /\ ~(x < 0)
          BY <2>4, <4>1
        <5> HIDE DEF x
        <5>2. x \in Nat /\ x * Factor \in Nat
          BY <5>1 DEF Factor
        <5> QED BY <5>2 DEF x
      <4>3. \A k \in DOMAIN s : ~(s[k].v < 0)
        BY <2>1, <2>3, <4>1
      <4> QED BY <2>1, <2>3, <2>4, <4>2, <4>3 DEF Loud
    <3>1. EwmaAdd(avg, v) \in Nat /\ v * Factor \in Nat
      <4>1. EwmaAdd(avg, v) \in Nat
        BY <2>2, EwmaTyped
      <4> QED BY <3>0, <4>1 DEF Factor
    <3>2. CASE s = <<>>
      <4>1. avg = 0 /\ avg * 8 < ULong
        BY <3>2, NodeInfoAssumption DEF UnheardZero
      <4>2. EwmaAdd(avg, v) = v * Factor
        BY <2>2, <3>0, <4>1, EwmaBetween
      <4> QED BY <2>1, <2>3, <3>1, <4>2
    <3>3. CASE s # <<>>
      <4>0. a \in nodes
        BY <2>1, <3>3
      <4>1. PICK j \in DOMAIN s, k \in DOMAIN s :
              s[j].v * Factor <= avg /\ avg <= s[k].v * Factor
        BY <3>0, <3>3, <4>0
      <4>2. t[j] = s[j] /\ t[k] = s[k] /\ j \in DOMAIN t /\ k \in DOMAIN t
        BY <2>1, <2>3
      <4>3. s[j].v * Factor \in Nat /\ s[k].v * Factor \in Nat
        BY <3>0, <4>2
      <4>6. avg * 8 < ULong
        <5> DEFINE y == s[k].v
                   z == ULong
        <5>1. y \in Nat /\ y * Factor * 8 < z /\ avg <= y * Factor /\ avg \in Nat /\ z \in Nat
          BY <2>2, <2>4, <3>0, <4>1, <4>2, NodeInfoAssumption
        <5> HIDE DEF y, z, avg
        <5>2. avg * 8 < z
          BY <5>1 DEF Factor
        <5> QED BY <5>2 DEF z
      <4>4. CASE avg <= v * Factor
        <5>1. avg <= EwmaAdd(avg, v) /\ EwmaAdd(avg, v) <= v * Factor
          BY <2>2, <3>0, <4>4, <4>6, EwmaBetween
        <5>2. t[j].v * Factor <= EwmaAdd(avg, v)
          BY <2>2, <3>1, <4>1, <4>2, <4>3, <5>1
        <5> QED BY <2>1, <2>3, <4>2, <5>1, <5>2
      <4>5. CASE v * Factor <= avg
        <5>1. v * Factor <= EwmaAdd(avg, v) /\ EwmaAdd(avg, v) <= avg
          BY <2>2, <3>0, <4>5, <4>6, EwmaBetween
        <5>2. EwmaAdd(avg, v) <= t[k].v * Factor
          BY <2>2, <3>1, <4>1, <4>2, <4>3, <5>1
        <5> QED BY <2>1, <2>3, <4>2, <5>1, <5>2
      <4> QED BY <2>2, <3>1, <4>4, <4>5
    <3> QED BY <3>2, <3>3
  <2>6. ASSUME NEW b \in nodes', heard'[b] # <<>>, Loud(heard'[b]) = {}
        PROVE  \E j, k \in DOMAIN heard'[b] : /\ heard'[b][j].v * Factor <= info'[b].sig_avg
                                              /\ info'[b].sig_avg <= heard'[b][k].v * Factor
    <3>1. CASE b = a
      BY <2>2, <2>5, <2>6, <3>1
    <3>2. CASE b # a
      <4>1. b \in nodes /\ b \in Addr \ {a}
        BY <1>1, <2>1, <2>6, <3>2
      <4> QED BY <2>1, <2>6, <4>1
    <3> QED BY <3>1, <3>2
  <2> QED BY <2>6
<1>3. ASSUME NEW h \in Heard, NEW a \in Addr, SentTo(a, h) PROVE AverageInRange'
  <2>1. /\ heard' = heard /\ nodes' = nodes \cup {a}
        /\ \A b \in Addr : info'[b].sig_avg = info[b].sig_avg
        /\ a \notin nodes => heard[a] = <<>>
    BY <1>3, NoFrameMore
  <2> QED BY <1>1, <2>1
<1>4. ASSUME NEW S \in SUBSET Addr, Forget(S), nodes' = nodes \ S PROVE AverageInRange'
  BY <1>1, <1>4, Forgotten
<1>5. CASE UNCHANGED <<nodes, infoVars>>
  BY <1>5 DEF infoVars
<1> QED BY <1>2, <1>3, <1>4, <1>5, FieldsStep

\* As long as no frame of a node was heard with a positive signal, its average signal
\* (util/average.c) lies between the weakest and the strongest of its frames.
THEOREM AverageBounded == InfoSpec => []AverageInRange
<1>1. InfoInit => AverageInRange
  BY DEF InfoInit, Init, AverageInRange
<1>2. InfoInv /\ InfoInv' /\ AverageInRange /\ [InfoNext]_allVars => AverageInRange'
  BY AverageStep
<1> QED BY <1>1, <1>2, InfoInvariance, PTL DEF InfoSpec

-----------------------------------------------------------------------------
\* The width takes its standard with it.
LEMMA StdStep ==
  ASSUME InfoInv, InfoInv', StdFitsWidth, [InfoNext]_allVars
  PROVE  StdFitsWidth'
<1> USE DEF StdFitsWidth, InfoInv
<1>1. ASSUME NEW h \in Heard, NEW a \in Addr, SentBy(a, h) PROVE StdFitsWidth'
  <2>1. /\ info'[a] = CopyNodeinfo(a, mode'[a], h)
        /\ \A b \in Addr \ {a} : info'[b] = info[b]
    BY <1>1, OneFrameMore
  <2> DEFINE n == info[a]
             std == StdFromChan(h.width, h.channel)
  <2>2. n \in Info /\ h \in Reception
    BY HeardTyped DEF InfoTypeOK
  <2>3. info'[a].std = StdAfter(n, h) /\ info'[a].chan_width = Larger(n.chan_width, h.width)
    BY <2>1 DEF CopyNodeinfo
  <2>4. StdAfter(n, h) \in Std /\ StdAfter(n, h) >= n.std /\ StdAfter(n, h) >= std
    <3>1. /\ StdFromType(h.type, h.stype) \in Std /\ std \in Std
          /\ StdFromRate(h.idx, h.channel) \in Std /\ n.std \in Std
      <4>1. StdFromType(h.type, h.stype) \in Std
        BY DEF StdFromType, Std, STDUNKNOWN, STDB, STDG, STDA, STDN, STDAC
      <4>2. std \in Std
        <5>1. h.width \in Width
          BY <2>2, ReceptionFields
        <5> QED BY <5>1, StdFromChanTyped
      <4>3. StdFromRate(h.idx, h.channel) \in Std
        <5>1. h.idx \in Octet
          BY <2>2, ReceptionFields
        <5> QED BY <5>1, StdFromRateTyped
      <4>4. n.std \in Std
        BY <2>2, InfoFields
      <4> QED BY <4>1, <4>2, <4>3, <4>4
    <3> HIDE DEF std
    <3>2. \A i, j, k, l \in Std :
            /\ Larger(i, Larger(j, Larger(k, l))) \in Std
            /\ Larger(i, Larger(j, Larger(k, l))) >= i
            /\ Larger(i, Larger(j, Larger(k, l))) >= k
      BY DEF Larger, Std, STDUNKNOWN, STDAC
    <3> QED BY <3>1, <3>2 DEF StdAfter, std
  <2>5. /\ h.width >= W20 => std >= STDN
        /\ h.width >= W80 => std = STDAC
    <3>1. h.width \in Width
      BY <2>2, ReceptionFields
    <3> QED BY <3>1 DEF StdFromChan, STDB, STDA, STDN, STDAC,
                        Width, WUNSPEC, W20NOHT, W20, W40, W80, W160, W8080
  <2>6. /\ n.chan_width >= W20 => n.std >= STDN
        /\ n.chan_width >= W80 => n.std = STDAC
    BY DEF StdFitsWidth
  <2>7. n.chan_width \in Width /\ h.width \in Width /\ n.std \in Std /\ std \in Std
    <3>1. std \in Std
      <4>1. h.width \in Width
        BY <2>2, ReceptionFields
      <4> QED BY <4>1, StdFromChanTyped
    <3>2. n.chan_width \in Width /\ n.std \in Std
      BY <2>2, InfoFields
    <3>3. h.width \in Width
      BY <2>2, ReceptionFields
    <3> QED BY <3>1, <3>2, <3>3
  <2> HIDE DEF n, std
  <2>8. /\ Larger(n.chan_width, h.width) >= W20 => StdAfter(n, h) >= STDN
        /\ Larger(n.chan_width, h.width) >= W80 => StdAfter(n, h) = STDAC
    BY <2>4, <2>5, <2>6, <2>7 DEF Larger, Width, Std, STDUNKNOWN, STDN, STDAC, WUNSPEC, W8080, W20, W80
  <2> QED BY <2>1, <2>3, <2>8 DEF n
<1>2. ASSUME NEW h \in Heard, NEW a \in Addr, SentTo(a, h) PROVE StdFitsWidth'
  <2>1. \A b \in Addr : info'[b].std = info[b].std /\ info'[b].chan_width = info[b].chan_width
    BY <1>2, NoFrameMore
  <2> QED BY <2>1
<1>3. ASSUME NEW S \in SUBSET Addr, Forget(S) PROVE StdFitsWidth'
  <2>1. Zero.chan_width = WUNSPEC
    BY DEF Zero
  <2> QED BY <1>3, <2>1, Forgotten DEF WUNSPEC, W20, W80
<1>4. CASE UNCHANGED <<nodes, infoVars>>
  BY <1>4 DEF infoVars
<1> QED BY <1>1, <1>2, <1>3, <1>4, FieldsStep

\* The guessed standard of a node is never below what its widest channel takes.
THEOREM StandardsFit == InfoSpec => []StdFitsWidth
<1>1. InfoInit => StdFitsWidth
  BY DEF InfoInit, StdFitsWidth, Zero, WUNSPEC, W20, W80
<1>2. InfoInv /\ InfoInv' /\ StdFitsWidth /\ [InfoNext]_allVars => StdFitsWidth'
  BY StdStep
<1> QED BY <1>1, <1>2, InfoInvariance, PTL DEF InfoSpec

-----------------------------------------------------------------------------
\* The channel of a node follows its beacons and its AP.
THEOREM ChannelsFollow == InfoSpec => ChannelFollows
<1>1. ASSUME InfoInv, InfoInv', [InfoNext]_allVars PROVE [ChannelFollowsStep]_allVars
  <2> SUFFICES ASSUME NEW b \in nodes \cap nodes', info[b].channel # 0,
                      info'[b].channel # info[b].channel
               PROVE  \/ /\ "STA" \in mode'[b] /\ ap_node[b] # NULL
                         /\ info'[b].channel = info[ap_node[b]].channel
                      \/ \E h \in Heard : /\ h.p.beacon /\ h.p.ta = src[b]
                                          /\ h.channel = info'[b].channel
    BY DEF ChannelFollowsStep
  <2> USE <1>1 DEF InfoInv
  <2>1. b \in Addr /\ info \in [Addr -> Info]
    BY DEF IInv, TypeOK, InfoTypeOK
  <2>2. ASSUME NEW md, NEW h \in Heard, FollowAp(b, md, h) # info[b].channel
        PROVE  "STA" \in md /\ ap_node[b] # NULL /\ FollowAp(b, md, h) = info[ap_node[b]].channel
    BY <2>2 DEF FollowAp
  <2>3. ASSUME NEW h \in Heard, NEW a \in Addr, SentBy(a, h)
        PROVE  \/ /\ "STA" \in mode'[b] /\ ap_node[b] # NULL
                  /\ info'[b].channel = info[ap_node[b]].channel
               \/ h.p.beacon /\ h.p.ta = src[b] /\ h.channel = info'[b].channel
    <3>1. a = b
      BY <2>1, <2>3 DEF SentBy
    <3>2. info'[b].channel = ChannelAfter(b, mode'[b], h)
      BY <2>1, <2>3, <3>1 DEF SentBy, CopyNodeinfo
    <3> QED BY <2>2, <2>3, <3>1, <3>2 DEF SentBy, ChannelAfter
  <2>4. ASSUME NEW h \in Heard, NEW a \in Addr, SentTo(a, h)
        PROVE  /\ "STA" \in mode'[b] /\ ap_node[b] # NULL
               /\ info'[b].channel = info[ap_node[b]].channel
    <3>1. a = b
      BY <2>1, <2>4 DEF SentTo
    <3>2. info'[b].channel = FollowAp(b, mode'[b], h)
      BY <2>1, <2>4, <3>1 DEF SentTo, CopyRxNodeinfo
    <3> QED BY <2>2, <3>2
  <2>5. ASSUME NEW S \in SUBSET Addr, Forget(S), nodes' = nodes \ S PROVE FALSE
    BY <2>1, <2>5, Forgotten
  <2>6. CASE UNCHANGED <<nodes, infoVars>>
    BY <2>6 DEF infoVars
  <2> QED BY <1>1, <2>3, <2>4, <2>5, <2>6, FieldsStep
<1> QED
  BY <1>1, InfoInvariance, PTL DEF InfoSpec, ChannelFollows

-----------------------------------------------------------------------------
\* The maximum.  A frame without a signal empties the frames since the last one
\* of that kind, any other joins them.
LEMMA SinceStep ==
  ASSUME NEW s \in Seq(Sample), NEW t \in Seq(Sample), Len(t) = Len(s) + 1,
         \A k \in 1 .. Len(s) : t[k] = s[k]
  PROVE  SinceUnknown(t) = IF t[Len(t)].v = 0 THEN {} ELSE SinceUnknown(s) \cup {Len(t)}
<1> DEFINE N == Len(t)
<1>1. N \in Nat /\ Len(s) = N - 1 /\ Len(s) \in Nat /\ N >= 1
  OBVIOUS
<1>2. DOMAIN s = 1 .. N - 1 /\ DOMAIN t = 1 .. N
  BY <1>1
<1> HIDE DEF N
<1>3. \A k \in 1 .. N - 1 : t[k] = s[k]
  BY <1>1
<1>4. CASE t[N].v = 0
  <2>1. \A k \in 1 .. N : ~(\A j \in 1 .. N : j >= k => t[j].v # 0)
    BY <1>1, <1>4
  <2> QED BY <1>2, <1>4, <2>1 DEF SinceUnknown, N
<1>5. CASE t[N].v # 0
  <2>1. \A k \in 1 .. N : (\A j \in 1 .. N : j >= k => t[j].v # 0) <=>
                          k = N \/ (k \in 1 .. N - 1 /\ \A j \in 1 .. N - 1 : j >= k => s[j].v # 0)
    BY <1>1, <1>3, <1>5
  <2> QED BY <1>1, <1>2, <1>5, <2>1 DEF SinceUnknown, N
<1> QED BY <1>4, <1>5

\* Those heard with a positive signal.
LEMMA LoudStep ==
  ASSUME NEW s \in Seq(Sample), NEW t \in Seq(Sample), Len(t) = Len(s) + 1,
         \A k \in 1 .. Len(s) : t[k] = s[k]
  PROVE  Loud(t) = IF t[Len(t)].v < 0 THEN Loud(s) \cup {Len(t)} ELSE Loud(s)
<1> DEFINE N == Len(t)
<1>1. N \in Nat /\ Len(s) = N - 1 /\ Len(s) \in Nat /\ N >= 1
  OBVIOUS
<1>2. DOMAIN s = 1 .. N - 1 /\ DOMAIN t = 1 .. N
  BY <1>1
<1> HIDE DEF N
<1>3. \A k \in 1 .. N - 1 : t[k] = s[k]
  BY <1>1
<1>4. \A k : k \in 1 .. N <=> k = N \/ k \in 1 .. N - 1
  BY <1>1
<1> QED BY <1>2, <1>3, <1>4 DEF Loud, N

\* The frames the maximum is taken of.
Standing(s) == IF Loud(s) # {} THEN Loud(s) ELSE SinceUnknown(s)

\* A new frame joins them, or empties them, or stands for itself, the first that was
\* positive, or is passed over for those that were.
LEMMA StandingStep ==
  ASSUME NEW s \in Seq(Sample), NEW t \in Seq(Sample), Len(t) = Len(s) + 1,
         \A k \in 1 .. Len(s) : t[k] = s[k]
  PROVE  LET x == t[Len(t)].v
         IN /\ x < 0 /\ Loud(s) = {} => Standing(t) = {Len(t)}
            /\ x < 0 /\ Loud(s) # {} => Standing(t) = Standing(s) \cup {Len(t)}
            /\ ~(x < 0) /\ Loud(s) # {} => Standing(t) = Standing(s)
            /\ ~(x < 0) /\ Loud(s) = {} =>
                 Standing(t) = IF x = 0 THEN {} ELSE Standing(s) \cup {Len(t)}
BY SinceStep, LoudStep DEF Standing

LEMMA MaxStep ==
  ASSUME InfoInv, InfoInv', MaxSinceUnknown, [InfoNext]_allVars
  PROVE  MaxSinceUnknown'
<1> USE DEF InfoInv
<1>1. nodes \subseteq Addr
  BY DEF IInv, TypeOK
<1> DEFINE Right(m, s) ==
      IF Standing(s) = {} THEN m = 0
      ELSE /\ \E k \in Standing(s) : m = -s[k].v
           /\ \A k \in Standing(s) : m >= -s[k].v
<1>2. /\ MaxSinceUnknown <=> \A b \in nodes : Right(info[b].sig_max, heard[b])
      /\ MaxSinceUnknown' <=> \A b \in nodes' : Right(info'[b].sig_max, heard'[b])
  BY DEF MaxSinceUnknown, Standing
<1>3. ASSUME NEW h \in Heard, NEW a \in Addr, SentBy(a, h) PROVE MaxSinceUnknown'
  <2> DEFINE s == heard[a]
             t == heard'[a]
             S == Standing(s)
             T == Standing(t)
             N == Len(t)
             n == info[a]
             m == info'[a].sig_max
  <2>1. /\ s \in Seq(Sample) /\ t \in Seq(Sample) /\ N = Len(s) + 1 /\ Len(s) \in Nat
        /\ t[N].v = -h.signal /\ \A k \in 1 .. Len(s) : t[k] = s[k]
        /\ nodes' = nodes \cup {a}
        /\ \A b \in Addr \ {a} : info'[b] = info[b] /\ heard'[b] = heard[b]
        /\ a \notin nodes => s = <<>>
    BY <1>3, OneFrameMore
  <2>2. m = SigMax(n, h)
    <3>1. info'[a] = CopyNodeinfo(a, mode'[a], h)
      BY <1>3, OneFrameMore
    <3> QED BY <3>1 DEF CopyNodeinfo
  <2>3. n.sig_max \in Int /\ h.signal \in Int
    <3>1. n \in Info /\ h \in Reception
      BY HeardTyped DEF InfoTypeOK
    <3> HIDE DEF n
    <3> QED BY <3>1, InfoFields, ReceptionFields
  <2>4. /\ h.signal > 0 /\ Loud(s) = {} => T = {N}
        /\ h.signal > 0 /\ Loud(s) # {} => T = S \cup {N}
        /\ ~(h.signal > 0) /\ Loud(s) # {} => T = S
        /\ ~(h.signal > 0) /\ Loud(s) = {} => T = IF h.signal = 0 THEN {} ELSE S \cup {N}
    <3>1. (t[N].v < 0 <=> h.signal > 0) /\ (t[N].v = 0 <=> h.signal = 0)
      BY <2>1, <2>3
    <3>2. LET x == t[N].v IN
             /\ x < 0 /\ Loud(s) = {} => T = {N}
             /\ x < 0 /\ Loud(s) # {} => T = S \cup {N}
             /\ ~(x < 0) /\ Loud(s) # {} => T = S
             /\ ~(x < 0) /\ Loud(s) = {} => T = IF x = 0 THEN {} ELSE S \cup {N}
      BY <2>1, StandingStep
    <3> HIDE DEF s, t, S, T, N
    <3> QED BY <3>1, <3>2
  <2>5. Right(n.sig_max, s)
    <3>1. CASE a \in nodes
      BY <1>2, <3>1
    <3>2. CASE a \notin nodes
      <4>1. S = {}
        BY <2>1, <3>2 DEF Standing, SinceUnknown, Loud
      <4>2. n.sig_max = 0
        BY <2>1, <3>2 DEF UnheardZero
      <4> QED BY <4>1, <4>2
    <3> QED BY <3>1, <3>2
  <2>6. /\ \A k \in S : k \in 1 .. Len(s) /\ t[k] = s[k] /\ s[k].v \in Int /\ s[k].v # 0
        /\ IF Loud(s) = {} THEN \A k \in S : s[k].v > 0 ELSE S # {} /\ \A k \in S : s[k].v < 0
    <3>1. \A k \in DOMAIN s : k \in 1 .. Len(s) /\ s[k].v \in Int
      <4> TAKE k \in DOMAIN s
      <4>1. k \in 1 .. Len(s) /\ s[k] \in Sample
        BY <2>1
      <4> HIDE DEF s
      <4> QED BY <4>1, SampleValue
    <3>2. \A k \in DOMAIN s : k >= k
      BY <2>1
    <3>3. \A k \in SinceUnknown(s) : k \in DOMAIN s /\ s[k].v # 0
      BY <3>2 DEF SinceUnknown
    <3>4. \A k \in Loud(s) : k \in DOMAIN s /\ s[k].v < 0
      BY DEF Loud
    <3>5. Loud(s) = {} => \A k \in DOMAIN s : ~(s[k].v < 0)
      BY DEF Loud
    <3> QED BY <2>1, <3>1, <3>3, <3>4, <3>5 DEF Standing
  <2>7. Right(m, t)
    <3> HIDE DEF S, T, N, m, n, s, t
    <3>1. /\ S = {} => n.sig_max = 0
          /\ S # {} => /\ \E k \in S : n.sig_max = -s[k].v
                       /\ \A k \in S : n.sig_max >= -s[k].v
      BY <2>5 DEF S
    <3>2. IF Loud(s) = {} THEN n.sig_max <= 0 ELSE n.sig_max > 0
      BY <2>3, <2>6, <3>1
    <3>3. CASE T = {}
      <4>1. h.signal = 0 /\ Loud(s) = {}
        BY <2>4, <2>6, <3>3
      <4>2. m = 0
        BY <2>2, <2>3, <3>2, <4>1 DEF SigMax
      <4> QED BY <3>3, <4>2 DEF T
    <3>4. CASE T = S \cup {N} /\ S # {}
      <4>1. n.sig_max # 0 /\ t[N].v = -h.signal
        BY <2>1, <2>6, <3>1, <3>4
      <4>2. m = IF h.signal > n.sig_max THEN h.signal ELSE n.sig_max
        BY <2>2, <4>1 DEF SigMax
      <4>3. m \in Int /\ m >= n.sig_max /\ m >= h.signal
        BY <2>3, <4>2
      <4>4. m >= -t[N].v /\ -t[N].v \in Int
        BY <2>3, <4>1, <4>3
      <4>5. \A j \in S : m >= -t[j].v
        <5> TAKE j \in S
        <5>1. n.sig_max >= -t[j].v /\ t[j].v \in Int
          BY <2>6, <3>1, <3>4
        <5> QED BY <2>3, <4>3, <5>1
      <4>6. \E k \in T : m = -t[k].v
        <5>1. PICK k \in S : n.sig_max = -t[k].v
          BY <2>6, <3>1, <3>4
        <5>2. CASE m = n.sig_max
          BY <3>4, <5>1, <5>2
        <5>3. CASE m = h.signal
          BY <2>3, <3>4, <4>1, <5>3
        <5> QED BY <4>2, <5>2, <5>3
      <4> QED BY <3>4, <4>4, <4>5, <4>6 DEF T
    <3>5. CASE T = {N} /\ (S = {} \/ (h.signal > 0 /\ Loud(s) = {}))
      <4>1. m = h.signal /\ t[N].v = -h.signal
        BY <2>1, <2>2, <2>3, <3>1, <3>2, <3>5 DEF SigMax
      <4> QED BY <2>3, <3>5, <4>1 DEF T
    <3>6. CASE T = S /\ ~(h.signal > 0) /\ Loud(s) # {}
      <4>1. m = n.sig_max
        BY <2>2, <2>3, <3>2, <3>6 DEF SigMax
      <4>2. S # {} /\ \A j \in S : t[j] = s[j]
        BY <2>6, <3>6
      <4> QED BY <3>1, <3>6, <4>1, <4>2 DEF T
    <3> QED BY <2>4, <2>6, <3>3, <3>4, <3>5, <3>6
  <2>8. ASSUME NEW b \in nodes' PROVE Right(info'[b].sig_max, heard'[b])
    <3>1. CASE b = a
      BY <2>7, <3>1
    <3>2. CASE b # a
      <4>1. b \in nodes /\ info'[b] = info[b] /\ heard'[b] = heard[b]
        BY <1>1, <2>1, <2>8, <3>2
      <4> HIDE DEF Right
      <4> QED BY <1>2, <4>1
    <3> QED BY <3>1, <3>2
  <2> HIDE DEF Right
  <2> QED BY <1>2, <2>8
<1>4. ASSUME NEW h \in Heard, NEW a \in Addr, SentTo(a, h) PROVE MaxSinceUnknown'
  <2>1. /\ heard' = heard /\ nodes' = nodes \cup {a}
        /\ \A b \in Addr : info'[b].sig_max = info[b].sig_max
        /\ a \notin nodes => heard[a] = <<>> /\ info[a].sig_max = 0
    BY <1>4, NoFrameMore DEF Zero
  <2>2. a \notin nodes => Standing(heard[a]) = {}
    BY <2>1 DEF Standing, SinceUnknown, Loud
  <2>3. ASSUME NEW b \in nodes' PROVE Right(info'[b].sig_max, heard'[b])
    <3>1. /\ heard'[b] = heard[b] /\ info'[b].sig_max = info[b].sig_max
          /\ b \in nodes \/ b = a
      BY <1>1, <2>1, <2>3
    <3>2. CASE b \in nodes
      <4> HIDE DEF Right
      <4> QED BY <1>2, <3>1, <3>2
    <3>3. CASE b \notin nodes
      <4>1. b = a /\ Standing(heard[b]) = {} /\ info[b].sig_max = 0
        BY <2>1, <2>2, <3>1, <3>3
      <4> QED BY <3>1, <4>1
    <3> QED BY <3>2, <3>3
  <2> HIDE DEF Right
  <2> QED BY <1>2, <2>3
<1>5. ASSUME NEW S \in SUBSET Addr, Forget(S), nodes' = nodes \ S PROVE MaxSinceUnknown'
  <2>1. \A b \in nodes' : b \in nodes /\ info'[b] = info[b] /\ heard'[b] = heard[b]
    BY <1>1, <1>5, Forgotten
  <2> HIDE DEF Right
  <2> QED BY <1>2, <2>1
<1>6. CASE UNCHANGED <<nodes, infoVars>>
  BY <1>2, <1>6 DEF infoVars
<1> QED BY <1>3, <1>4, <1>5, <1>6, FieldsStep

\* phy_sig_max is the strongest signal since the last frame without one, and the strongest
\* of all once one was positive.
THEOREM MaximumExact == InfoSpec => []MaxSinceUnknown
<1>1. InfoInit => MaxSinceUnknown
  BY DEF InfoInit, Init, MaxSinceUnknown
<1>2. InfoInv /\ InfoInv' /\ MaxSinceUnknown /\ [InfoNext]_allVars => MaxSinceUnknown'
  BY MaxStep
<1> QED BY <1>1, <1>2, InfoInvariance, PTL DEF InfoSpec

-----------------------------------------------------------------------------
\* The retry counters.  t is s with one more frame, and q the number kept.
Grown(s, t) == Len(t) = Len(s) + 1 /\ \A k \in 1 .. Len(s) : t[k] = s[k]
AgainAtEnd(t, q) == t[Len(t)].retry /\ t[Len(t)].seqno # 0 /\ t[Len(t)].seqno = q

\* What the new frame does to the two sets.
CountsGrow(s, t, q) ==
  /\ Repetitions(t) = IF AgainAtEnd(t, q) THEN Repetitions(s) \cup {Len(t)}
                      ELSE Repetitions(s)
  /\ LastRow(t) = IF t[Len(t)].seqno = 0 THEN LastRow(s)
                  ELSE IF AgainAtEnd(t, q) THEN LastRow(s) \cup {Len(t)} ELSE {}

\* Whether a frame is a repetition depends on it and the frames before it.
LEMMA RepeatsPrefix ==
  ASSUME NEW s \in Seq(Sample), NEW t \in Seq(Sample), NEW k \in Nat,
         \A j \in 1 .. k : t[j] = s[j], Repeats(s, k), k >= 1
  PROVE  Repeats(t, k)
<1>1. PICK j \in 1 .. k - 1 : /\ s[j].seqno = s[k].seqno
                              /\ \A i \in j + 1 .. k - 1 : s[i].seqno = 0
  BY DEF Repeats
<1>2. t[k] = s[k] /\ t[j] = s[j] /\ \A i \in j + 1 .. k - 1 : t[i] = s[i]
  BY <1>1
<1>3. s[k].retry /\ s[k].seqno # 0
  BY DEF Repeats
<1> QED BY <1>1, <1>2, <1>3 DEF Repeats

LEMMA RepetitionsStep ==
  ASSUME NEW s \in Seq(Sample), NEW t \in Seq(Sample), NEW q \in Nat,
         Grown(s, t), LastNumber(s, q)
  PROVE  CountsGrow(s, t, q)
<1> DEFINE again == AgainAtEnd(t, q)
           N == Len(t)
<1>8. /\ again \in BOOLEAN
      /\ again <=> t[N].retry /\ t[N].seqno # 0 /\ t[N].seqno = q
  BY DEF AgainAtEnd
<1>9. IF q = 0 THEN \A k \in DOMAIN s : s[k].seqno = 0
      ELSE \E j \in DOMAIN s : /\ s[j].seqno = q
                               /\ \A i \in DOMAIN s : i > j => s[i].seqno = 0
  BY DEF LastNumber
<1>1. N \in Nat /\ Len(s) = N - 1 /\ N >= 1 /\ DOMAIN s = 1 .. N - 1 /\ DOMAIN t = 1 .. N
  BY DEF Grown
<1>2. \A k \in 1 .. N - 1 : t[k] = s[k]
  BY <1>1 DEF Grown
<1> HIDE DEF N, again
<1>3. ASSUME NEW k \in 1 .. N - 1 PROVE Repeats(t, k) <=> Repeats(s, k)
  <2>1. k \in Nat /\ k >= 1 /\ \A j \in 1 .. k : t[j] = s[j] /\ s[j] = t[j]
    BY <1>1, <1>2
  <2> QED BY <2>1, RepeatsPrefix
<1>4. Repeats(t, N) <=> again
  <2>1. CASE q = 0
    <3>1. \A k \in 1 .. N - 1 : t[k].seqno = 0
      BY <1>1, <1>2, <1>9, <2>1
    <3> QED BY <1>1, <1>8, <2>1, <3>1 DEF Repeats
  <2>2. CASE q # 0
    <3>1. PICK j \in 1 .. N - 1 : /\ t[j].seqno = q
                                  /\ \A i \in 1 .. N - 1 : i > j => t[i].seqno = 0
      BY <1>1, <1>2, <1>9, <2>2
    <3>2. ASSUME again PROVE Repeats(t, N)
      BY <1>1, <1>8, <3>1, <3>2 DEF Repeats
    <3>3. ASSUME Repeats(t, N) PROVE again
      <4>1. PICK m \in 1 .. N - 1 : /\ t[m].seqno = t[N].seqno
                                    /\ \A i \in m + 1 .. N - 1 : t[i].seqno = 0
        BY <3>3 DEF Repeats
      <4>2. t[N].retry /\ t[N].seqno # 0
        BY <3>3 DEF Repeats
      <4>3. j = m
        BY <1>1, <2>2, <3>1, <4>1, <4>2
      <4> QED BY <1>8, <3>1, <4>1, <4>2, <4>3
    <3> QED BY <3>2, <3>3
  <2> QED BY <2>1, <2>2
<1>5. Repetitions(s) \subseteq 1 .. N - 1
  BY <1>1 DEF Repetitions
<1>6. Repetitions(t) = IF again THEN Repetitions(s) \cup {N} ELSE Repetitions(s)
  BY <1>1, <1>3, <1>4 DEF Repetitions
<1>7. LastRow(t) = IF t[N].seqno = 0 THEN LastRow(s)
                   ELSE IF again THEN LastRow(s) \cup {N} ELSE {}
  <2>1. \A k \in 1 .. N - 1 : k \in Repetitions(t) <=> k \in Repetitions(s)
    BY <1>1, <1>6
  <2>2. N \in Repetitions(t) <=> again
    BY <1>1, <1>5, <1>6
  <2>3. LastRow(t) = {k \in Repetitions(t) :
           \A j \in 1 .. N : j > k /\ t[j].seqno # 0 => j \in Repetitions(t)}
    BY <1>1 DEF LastRow
  <2>4. LastRow(s) = {k \in Repetitions(s) :
           \A j \in 1 .. N - 1 : j > k /\ s[j].seqno # 0 => j \in Repetitions(s)}
    BY <1>1 DEF LastRow
  <2>5. CASE t[N].seqno = 0
    <3>1. ~again
      BY <1>8, <2>5
    <3>2. \A k \in Repetitions(s) :
            (\A j \in 1 .. N : j > k /\ t[j].seqno # 0 => j \in Repetitions(t))
              <=> (\A j \in 1 .. N - 1 : j > k /\ s[j].seqno # 0 => j \in Repetitions(s))
      BY <1>1, <1>2, <2>1, <2>5
    <3> QED BY <1>6, <2>3, <2>4, <2>5, <3>1, <3>2
  <2>6. CASE again
    <3>1. \A k \in Repetitions(s) :
            (\A j \in 1 .. N : j > k /\ t[j].seqno # 0 => j \in Repetitions(t))
              <=> (\A j \in 1 .. N - 1 : j > k /\ s[j].seqno # 0 => j \in Repetitions(s))
      BY <1>1, <1>2, <2>1, <2>2, <2>6
    <3>2. \A j \in 1 .. N : ~(j > N)
      BY <1>1
    <3>3. t[N].seqno # 0
      BY <1>8, <2>6
    <3> QED BY <1>6, <2>3, <2>4, <2>6, <3>1, <3>2, <3>3
  <2>7. CASE t[N].seqno # 0 /\ ~again
    <3>1. N \in 1 .. N /\ \A k \in Repetitions(s) : N > k
      BY <1>1, <1>5
    <3> QED BY <1>6, <2>2, <2>3, <2>7, <3>1
  <2> QED BY <2>5, <2>6, <2>7
<1> QED BY <1>6, <1>7 DEF CountsGrow, N, again

LEMMA RepetitionsFinite ==
  ASSUME NEW s \in Seq(Sample)
  PROVE  /\ IsFiniteSet(Repetitions(s)) /\ IsFiniteSet(LastRow(s))
         /\ Len(s) + 1 \notin Repetitions(s) /\ Len(s) + 1 \notin LastRow(s)
         /\ LastRow(s) \subseteq Repetitions(s)
<1>1. Repetitions(s) \subseteq 1 .. Len(s) /\ LastRow(s) \subseteq Repetitions(s)
  BY DEF Repetitions, LastRow
<1>2. IsFiniteSet(1 .. Len(s))
  BY FS_Interval
<1> QED BY <1>1, <1>2, FS_Subset

LEMMA RetriesStep ==
  ASSUME InfoInv, InfoInv', SeqnoLast, RetriesExact, [InfoNext]_allVars
  PROVE  SeqnoLast' /\ RetriesExact'
<1> USE DEF InfoInv
<1> DEFINE Right(n, s) == /\ LastNumber(s, n.seqno)
                          /\ n.retries_all = Cardinality(Repetitions(s))
                          /\ n.retries_last = Cardinality(LastRow(s))
<1>1. nodes \subseteq Addr
  BY DEF IInv, TypeOK
<1>2. /\ \A b \in nodes : Right(info[b], heard[b])
      /\ (\A b \in nodes' : Right(info'[b], heard'[b])) => SeqnoLast' /\ RetriesExact'
  BY DEF SeqnoLast, RetriesExact
<1>3. ASSUME NEW b \in Addr, heard[b] = <<>> PROVE Right(info[b], heard[b])
  <2>1. Repetitions(<<>>) = {} /\ LastRow(<<>>) = {}
    BY DEF Repetitions, LastRow
  <2>2. info[b].seqno = 0 /\ info[b].retries_all = 0 /\ info[b].retries_last = 0
    BY <1>3 DEF UnheardZero
  <2>3. LastNumber(<<>>, 0)
    BY DEF LastNumber
  <2>4. Cardinality({}) = 0
    BY FS_EmptySet
  <2> QED BY <1>3, <2>1, <2>2, <2>3, <2>4
<1>4. ASSUME NEW b \in Addr, b \in nodes \/ heard[b] = <<>>,
             heard'[b] = heard[b], info'[b].seqno = info[b].seqno,
             info'[b].retries_all = info[b].retries_all,
             info'[b].retries_last = info[b].retries_last
      PROVE  Right(info'[b], heard'[b])
  <2>1. Right(info[b], heard[b])
    <3> HIDE DEF Right
    <3> QED BY <1>2, <1>3, <1>4
  <2> QED BY <1>4, <2>1
<1>5. ASSUME NEW h \in Heard, NEW a \in Addr, SentBy(a, h)
      PROVE  \A b \in nodes' : Right(info'[b], heard'[b])
  <2> DEFINE s == heard[a]
             t == heard'[a]
             N == Len(t)
             n == info[a]
             again == Again(n, h)
  <2>1. /\ s \in Seq(Sample) /\ t \in Seq(Sample) /\ N = Len(s) + 1 /\ Len(s) \in Nat
        /\ t[N].seqno = h.seqno /\ t[N].retry = h.retry
        /\ \A k \in 1 .. Len(s) : t[k] = s[k]
        /\ nodes' = nodes \cup {a}
        /\ \A b \in Addr \ {a} : info'[b] = info[b] /\ heard'[b] = heard[b]
        /\ a \notin nodes => s = <<>>
    BY <1>5, OneFrameMore
  <2>2. /\ info'[a].seqno = SeqnoAfter(n, h)
        /\ info'[a].retries_all = RetriesAll(n, h)
        /\ info'[a].retries_last = RetriesLast(n, h)
    <3>1. info'[a] = CopyNodeinfo(a, mode'[a], h)
      BY <1>5, OneFrameMore
    <3> QED BY <3>1 DEF CopyNodeinfo
  <2>3. /\ n.seqno \in Seqno /\ h.seqno \in Seqno /\ h.retry \in BOOLEAN
        /\ n.retries_all \in Nat /\ n.retries_last \in Nat
    <3>1. n \in Info /\ h \in Reception
      BY HeardTyped DEF InfoTypeOK
    <3> HIDE DEF n
    <3> QED BY <3>1, InfoFields, ReceptionFields
  <2>4. Right(n, s)
    <3> HIDE DEF Right
    <3> QED BY <1>2, <1>3, <2>1
  <2>5. again \in BOOLEAN /\ (again <=> t[N].retry /\ t[N].seqno # 0 /\ t[N].seqno = n.seqno)
    BY <2>1, <2>3 DEF Again
  <2>6. /\ Repetitions(t) = IF again THEN Repetitions(s) \cup {N} ELSE Repetitions(s)
        /\ LastRow(t) = IF t[N].seqno = 0 THEN LastRow(s)
                        ELSE IF again THEN LastRow(s) \cup {N} ELSE {}
    <3> DEFINE q == n.seqno
    <3>0. q \in Nat
      <4>1. q \in Seqno
        BY <2>3
      <4> HIDE DEF q
      <4> QED BY <4>1, SeqnoIs
    <3>1. q \in Nat /\ LastNumber(s, q)
      BY <2>4, <3>0
    <3>2. s \in Seq(Sample) /\ t \in Seq(Sample) /\ Grown(s, t)
      BY <2>1 DEF Grown
    <3>3. CountsGrow(s, t, q)
      <4> HIDE DEF again, s, t, q, N
      <4> QED BY <3>1, <3>2, RepetitionsStep
    <3>4. again <=> AgainAtEnd(t, q)
      BY <2>5 DEF AgainAtEnd
    <3> HIDE DEF again, s, t, q
    <3>5. CASE again
      BY <3>3, <3>4, <3>5 DEF CountsGrow, N
    <3>6. CASE ~again
      BY <3>3, <3>4, <3>6 DEF CountsGrow, N
    <3> QED BY <3>5, <3>6
  <2>7. /\ IsFiniteSet(Repetitions(s)) /\ IsFiniteSet(LastRow(s))
        /\ N \notin Repetitions(s) /\ N \notin LastRow(s)
    BY <2>1, RepetitionsFinite
  <2>8. /\ Cardinality(Repetitions(s) \cup {N}) = Cardinality(Repetitions(s)) + 1
        /\ Cardinality(LastRow(s) \cup {N}) = Cardinality(LastRow(s)) + 1
        /\ Cardinality({}) = 0
    BY <2>7, FS_AddElement, FS_EmptySet
  <2>9. RetriesAll(n, h) = Cardinality(Repetitions(t))
    BY <2>4, <2>6, <2>8 DEF RetriesAll
  <2>10. RetriesLast(n, h) = Cardinality(LastRow(t))
    <3>1. CASE h.seqno = 0
      BY <2>1, <2>4, <2>6, <3>1 DEF RetriesLast
    <3>2. CASE h.seqno # 0
      BY <2>1, <2>4, <2>6, <2>8, <3>2 DEF RetriesLast
    <3> QED BY <3>1, <3>2
  <2>11. LastNumber(t, SeqnoAfter(n, h))
    <3> USE DEF LastNumber
    <3>1. DOMAIN s = 1 .. N - 1 /\ DOMAIN t = 1 .. N /\ N \in Nat /\ N >= 1
      BY <2>1
    <3>2. CASE h.seqno = 0
      <4>1. SeqnoAfter(n, h) = n.seqno /\ LastNumber(s, n.seqno) /\ t[N].seqno = 0
        BY <2>1, <2>4, <3>2 DEF SeqnoAfter
      <4>2. \A k \in 1 .. N - 1 : t[k] = s[k]
        BY <2>1
      <4> HIDE DEF N, s, t, n
      <4>3. CASE n.seqno = 0
        BY <3>1, <4>1, <4>2, <4>3
      <4>4. CASE n.seqno # 0
        <5>1. PICK j \in 1 .. N - 1 : /\ s[j].seqno = n.seqno
                                      /\ \A i \in 1 .. N - 1 : i > j => s[i].seqno = 0
          BY <3>1, <4>1, <4>4
        <5>2. /\ j \in 1 .. N /\ t[j].seqno = n.seqno
              /\ \A i \in 1 .. N : i > j => t[i].seqno = 0
          BY <3>1, <4>1, <4>2, <5>1
        <5> QED BY <3>1, <4>1, <4>4, <5>2
      <4> QED BY <4>3, <4>4
    <3>3. CASE h.seqno # 0
      <4>1. SeqnoAfter(n, h) = h.seqno /\ t[N].seqno = h.seqno
        BY <2>1, <3>3 DEF SeqnoAfter
      <4> HIDE DEF N, s, t, n
      <4>2. N \in DOMAIN t /\ \A i \in DOMAIN t : ~(i > N)
        BY <3>1
      <4> QED BY <3>3, <4>1, <4>2
    <3> QED BY <3>2, <3>3
  <2>12. Right(info'[a], t)
    BY <2>2, <2>9, <2>10, <2>11
  <2> SUFFICES ASSUME NEW b \in nodes', b # a PROVE Right(info'[b], heard'[b])
    BY <2>12
  <2>13. b \in nodes /\ b \in Addr /\ info'[b] = info[b] /\ heard'[b] = heard[b]
    BY <1>1, <2>1
  <2> HIDE DEF Right
  <2> QED BY <1>2, <2>13
<1>6. ASSUME NEW h \in Heard, NEW a \in Addr, SentTo(a, h)
      PROVE  \A b \in nodes' : Right(info'[b], heard'[b])
  <2> TAKE b \in nodes'
  <2>1. b \in Addr /\ (b \in nodes \/ heard[b] = <<>>)
    BY <1>1, <1>6, NoFrameMore
  <2>2. /\ heard'[b] = heard[b] /\ info'[b].seqno = info[b].seqno
        /\ info'[b].retries_all = info[b].retries_all
        /\ info'[b].retries_last = info[b].retries_last
    BY <1>6, <2>1, NoFrameMore
  <2> HIDE DEF Right
  <2> QED BY <1>4, <2>1, <2>2
<1>7. ASSUME NEW S \in SUBSET Addr, Forget(S), nodes' = nodes \ S
      PROVE  \A b \in nodes' : Right(info'[b], heard'[b])
  <2>1. \A b \in nodes' : b \in nodes /\ info'[b] = info[b] /\ heard'[b] = heard[b]
    BY <1>1, <1>7, Forgotten
  <2> HIDE DEF Right
  <2> QED BY <1>2, <2>1
<1>8. ASSUME UNCHANGED <<nodes, infoVars>>
      PROVE  \A b \in nodes' : Right(info'[b], heard'[b])
  <2>1. nodes' = nodes /\ info' = info /\ heard' = heard
    BY <1>8 DEF infoVars
  <2> HIDE DEF Right
  <2> QED BY <1>2, <2>1
<1>9. \A b \in nodes' : Right(info'[b], heard'[b])
  <2> HIDE DEF Right
  <2> QED BY <1>5, <1>6, <1>7, <1>8, FieldsStep
<1> HIDE DEF Right
<1> QED BY <1>2, <1>9

\* The retry counters count the repetitions among the frames of the node.
THEOREM RetriesCounted == InfoSpec => []RetriesExact
<1>1. InfoInit => SeqnoLast /\ RetriesExact
  BY DEF InfoInit, Init, SeqnoLast, RetriesExact
<1>2. InfoInv /\ InfoInv' /\ SeqnoLast /\ RetriesExact /\ [InfoNext]_allVars
        => SeqnoLast' /\ RetriesExact'
  BY RetriesStep
<1> QED BY <1>1, <1>2, InfoInvariance, PTL DEF InfoSpec
=============================================================================
