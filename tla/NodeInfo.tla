------------------------------ MODULE NodeInfo ------------------------------
(***************************************************************************)
(* What the library keeps of each node (copy_nodeinfo and copy_rx_nodeinfo *)
(* of core/node.c, with the average of util/average.c): how often and how  *)
(* loud it was heard, how often it had to send again, its channel, width   *)
(* and the 802.11 standard it is guessed to follow.                        *)
(*                                                                         *)
(* The module adds these fields to the nodes of Registry: an action here   *)
(* is an action there, which it makes no choice of, and what it does to    *)
(* the fields.  Fields nothing is decided by are left out: the last rate   *)
(* and signal, the sum of the signals, TSF, streams, IP and batman.        *)
(* heard is a history: what was heard of a node since it was created.      *)
(***************************************************************************)
EXTENDS Registry, WlanUtil, Sequences

CONSTANTS Heard,      \* what may be heard: a packet p as Registry sees it, with
                      \* the rest of its fields
          ULong,      \* values an unsigned long has, 2^64
          MaxFrames,  \* frames of a node that are counted,
          MaxReceived \* and frames to it

\* The average is scaled by 1024 (node.c:136); zero stands for "no value yet".
Factor == 1024

Seqno == 0 .. 4095       \* 12 bits
\* A signal is an int: in dBm, 0 when it is not known; a Prism header may carry a
\* positive one (raw_parser.c:41-47).  Scaled, three bits are free above any of them.
Reception == [p : Packet, signal : Int, idx : Octet,
              type : 0 .. 2, stype : 0 .. 15, wep : BOOLEAN, seqno : Seqno,
              retry : BOOLEAN, channel : Octet, width : Width]

ASSUME NodeInfoAssumption ==
  /\ Heard \subseteq Reception
  /\ ULong \in Nat \ {0}
  /\ \A h \in Heard : h.p \in Packets /\ (-h.signal) * Factor * 8 < ULong
  /\ MaxFrames \in Nat /\ MaxReceived \in Nat

VARIABLES info,   \* the fields of each node
          heard   \* signal, sequence number and retry flag of its frames

infoVars == <<info, heard>>
allVars  == <<vars, infoVars>>

Info == [pkt_count : Nat, rx_pkt_count : Nat, rx_only : BOOLEAN,
         sig_avg : Nat, sig_max : Int, wep : BOOLEAN,
         seqno : Seqno, retries_all : Nat, retries_last : Nat,
         channel : Octet, chan_width : Width, std : Std]

Zero == [pkt_count |-> 0, rx_pkt_count |-> 0, rx_only |-> FALSE,
         sig_avg |-> 0, sig_max |-> 0, wep |-> FALSE,
         seqno |-> 0, retries_all |-> 0, retries_last |-> 0,
         channel |-> 0, chan_width |-> WUNSPEC, std |-> STDUNKNOWN]

Value  == {v \in Int : v * Factor * 8 < ULong}
Sample == [v : Value, seqno : Seqno, retry : BOOLEAN]

InfoInit ==
  /\ Init
  /\ info = [a \in Addr |-> Zero]
  /\ heard = [a \in Addr |-> <<>>]

-----------------------------------------------------------------------------
\* The moving average, with a weight of one eighth for a new value, in unsigned
\* arithmetic: the value of a positive signal is negative, and wraps (node.c:68).
EwmaAddTwice(avg, v) ==             \* faulty: avg is kept whole
  IF avg # 0 THEN ((8 * avg + v * Factor) % ULong) \div 8 ELSE (v * Factor) % ULong
EwmaAdd(avg, v) ==
  IF avg # 0 THEN ((8 * avg - avg + v * Factor) % ULong) \div 8 ELSE (v * Factor) % ULong

\* "if (p->phy_signal > n->phy_sig_max || n->phy_sig_max == 0)"
SigMaxLast(n, h) == h.signal        \* faulty: not compared
SigMax(n, h) == IF h.signal > n.sig_max \/ n.sig_max = 0 THEN h.signal ELSE n.sig_max

\* Frames whose flags or capabilities tell whether encryption is on.
TellsWep(h) ==
  \/ h.type = DATA /\ h.stype \in (0 .. 3) \cup (QData .. 11)
  \/ h.type = MGMT /\ h.stype \in {Auth, Beacon, ProbeResp}

WepAfter(n, h) == IF TellsWep(h) THEN h.wep ELSE n.wep

\* A repetition, by flag and number.  Number 0 is taken for none: such a frame
\* leaves number and counters alone.
AgainByFlag(n, h) == h.seqno # 0 /\ h.retry         \* faulty: numbers are not compared
Again(n, h) == h.seqno # 0 /\ h.retry /\ h.seqno = n.seqno
SeqnoAfter(n, h)  == IF h.seqno = 0 THEN n.seqno ELSE h.seqno
RetriesAll(n, h)  == IF Again(n, h) THEN n.retries_all + 1 ELSE n.retries_all
RetriesLast(n, h) == IF h.seqno = 0 THEN n.retries_last
                     ELSE IF Again(n, h) THEN n.retries_last + 1 ELSE 0

\* The channel of node a, of mode bits md, after it sent or was sent a frame: a
\* station has that of its AP; any other keeps the first it was seen on.
FollowAp(a, md, h) ==
  CASE "STA" \in md /\ ap_node[a] # NULL -> info[ap_node[a]].channel
    [] ~("STA" \in md /\ ap_node[a] # NULL) /\ info[a].channel = 0 -> h.channel
    [] OTHER -> info[a].channel
ChannelAny(a, md, h) == h.channel   \* faulty: of whatever frame came last
ChannelAfter(a, md, h) == IF h.p.beacon THEN h.channel ELSE FollowAp(a, md, h)

Larger(i, j) == IF i > j THEN i ELSE j
StdByRate(n, h) == Larger(n.std, StdFromRate(h.idx, h.channel))  \* faulty: width is not looked at
StdAfter(n, h) ==
  Larger(n.std, Larger(StdFromType(h.type, h.stype),
                       Larger(StdFromChan(h.width, h.channel), StdFromRate(h.idx, h.channel))))

\* copy_nodeinfo, for node a, whose mode bits are md by now.
CopyNodeinfo(a, md, h) ==
  LET n == info[a]
  IN [pkt_count    |-> n.pkt_count + 1,
      rx_pkt_count |-> n.rx_pkt_count,
      rx_only      |-> FALSE,
      sig_avg      |-> EwmaAdd(n.sig_avg, -h.signal),
      sig_max      |-> SigMax(n, h),
      wep          |-> WepAfter(n, h),
      seqno        |-> SeqnoAfter(n, h),
      retries_all  |-> RetriesAll(n, h),
      retries_last |-> RetriesLast(n, h),
      channel      |-> ChannelAfter(a, md, h),
      chan_width   |-> Larger(n.chan_width, h.width),
      std          |-> StdAfter(n, h)]

CopyRxAlwaysOnly(a, md, h) ==       \* faulty: rx_only is set for any receiver
  [info[a] EXCEPT !.rx_pkt_count = @ + 1, !.rx_only = TRUE]
\* copy_rx_nodeinfo; a node that is created here has not sent anything yet.
CopyRxNodeinfo(a, md, h) ==
  LET n == info[a]
  IN [pkt_count    |-> n.pkt_count,
      rx_pkt_count |-> n.rx_pkt_count + 1,
      rx_only      |-> n.rx_only \/ a \notin nodes,
      sig_avg      |-> n.sig_avg,
      sig_max      |-> n.sig_max,
      wep          |-> WepAfter(n, h),
      seqno        |-> n.seqno,
      retries_all  |-> n.retries_all,
      retries_last |-> n.retries_last,
      channel      |-> FollowAp(a, md, h),
      chan_width   |-> n.chan_width,
      std          |-> n.std]

-----------------------------------------------------------------------------
\* The node a call returned for address m.
Updated(m) == {a \in nodes' : src'[a] = m}

HearSender(h) ==
  /\ NodeUpdate(h.p)
  /\ \E a \in Updated(h.p.ta) :
       /\ Len(heard[a]) < MaxFrames
       /\ info' = [info EXCEPT ![a] = CopyNodeinfo(a, mode'[a], h)]
       /\ heard' = [heard EXCEPT ![a] =
                      Append(@, [v |-> -h.signal, seqno |-> h.seqno, retry |-> h.retry])]

HearReceiver(h) ==
  /\ NodeUpdateReceiver(h.p)
  /\ \E a \in Updated(h.p.ra) :
       /\ info[a].rx_pkt_count < MaxReceived
       /\ info' = [info EXCEPT ![a] = CopyRxNodeinfo(a, mode'[a], h)]
  /\ UNCHANGED heard

\* The calls that leave the fields of every node alone.
Relink ==
  /\ \/ \E n \in nodes : FindAp(n) \/ EssidsRemoveNode(n)
     \/ \E p \in Packets, n \in nodes : EssidsUpdate(p, n)
     \/ EssidsFree
  /\ UNCHANGED infoVars

\* Freed nodes, whose memory is zeroed by its next owner.
Forget(S) ==
  /\ info' = [a \in Addr |-> IF a \in S THEN Zero ELSE info[a]]
  /\ heard' = [a \in Addr |-> IF a \in S THEN <<>> ELSE heard[a]]
EvictNodes(gone) == NodesTimeout(gone) /\ Forget(gone)
FreeAll == NodesFree /\ Forget(Addr)

InfoNext ==
  \/ \E h \in Heard : HearSender(h)
  \/ \E h \in Heard : HearReceiver(h)
  \/ Relink
  \/ \E gone \in SUBSET nodes : EvictNodes(gone)
  \/ FreeAll

InfoSpec == InfoInit /\ [][InfoNext]_allVars

-----------------------------------------------------------------------------
\* What is kept has the type the structure gives it; counters count what was
\* heard, a node that was heard itself is not "receive only", and what is free
\* is zero.
InfoTypeOK ==
  /\ info \in [Addr -> Info]
  /\ heard \in [Addr -> Seq(Sample)]
  /\ \A a \in Addr : info[a].pkt_count = Len(heard[a])
  /\ \A a \in nodes : info[a].rx_only <=> heard[a] = <<>>
  /\ \A a \in Addr \ nodes : info[a] = Zero

\* What the frames of a node tell is zero as long as it has not sent any; this
\* and InfoTypeOK are what the proofs of the other properties rest on.
UnheardZero ==
  \A a \in Addr : heard[a] = <<>> =>
    /\ info[a].sig_avg = 0 /\ info[a].sig_max = 0 /\ info[a].seqno = 0
    /\ info[a].retries_all = 0 /\ info[a].retries_last = 0

\* The frames of s heard with a positive signal.
Loud(s) == {k \in DOMAIN s : s[k].v < 0}

\* The average of the signals lies between the weakest and the strongest that was
\* heard, in spite of the integer division and of zero standing for "none yet":
\* a node heard without a signal does not leave the range (average.c:57).  That
\* is so as long as no signal was positive; one that was is a value near 2^64,
\* and nothing is said of the average from then on.
AverageInRange ==
  \A a \in nodes : heard[a] # <<>> /\ Loud(heard[a]) = {} =>
    \E j, k \in DOMAIN heard[a] :
       heard[a][j].v * Factor <= info[a].sig_avg /\ info[a].sig_avg <= heard[a][k].v * Factor

\* The frames of s since the last one without a signal.
SinceUnknown(s) == {k \in DOMAIN s : \A j \in DOMAIN s : j >= k => s[j].v # 0}

\* phy_sig_max is the strongest signal since the last frame without one, which
\* makes it forget all before, but for a positive one: a frame without a signal
\* does not exceed it, so it is kept until a stronger one is heard.
MaxSinceUnknown ==
  \A a \in nodes :
    LET S == IF Loud(heard[a]) # {} THEN Loud(heard[a]) ELSE SinceUnknown(heard[a])
    IN IF S = {} THEN info[a].sig_max = 0
       ELSE /\ \E k \in S : info[a].sig_max = -heard[a][k].v
            /\ \A k \in S : info[a].sig_max >= -heard[a][k].v

\* Frame k of s repeats the one before it, not counting frames without a number.
Repeats(s, k) ==
  /\ s[k].retry /\ s[k].seqno # 0
  /\ \E j \in 1 .. k - 1 : /\ s[j].seqno = s[k].seqno
                           /\ \A i \in j + 1 .. k - 1 : s[i].seqno = 0
Repetitions(s) == {k \in DOMAIN s : Repeats(s, k)}
\* Those that no other numbered frame came after.
LastRow(s) == {k \in Repetitions(s) :
                 \A j \in DOMAIN s : j > k /\ s[j].seqno # 0 => j \in Repetitions(s)}

\* q is the number of the last frame of s that has one, 0 if none has.
LastNumber(s, q) ==
  IF q = 0 THEN \A k \in DOMAIN s : s[k].seqno = 0
  ELSE \E j \in DOMAIN s : /\ s[j].seqno = q
                           /\ \A i \in DOMAIN s : i > j => s[i].seqno = 0

\* The number a node's next frame is compared with is that of its last numbered
\* frame; the proof of RetriesExact rests on it.
SeqnoLast == \A a \in nodes : LastNumber(heard[a], info[a].seqno)

\* The retry counters count repetitions, all of them and those of the last frame:
\* a retry flag on a frame whose first transmission was missed does not count,
\* and frames without a sequence number in between make no difference.
RetriesExact ==
  \A a \in nodes : /\ info[a].retries_all = Cardinality(Repetitions(heard[a]))
                   /\ info[a].retries_last = Cardinality(LastRow(heard[a]))

\* A channel that is known changes only by the node's own beacon, or to that of
\* the AP the node is a station of; never by other frames it sends or is sent.
ChannelFollowsStep ==
  \A a \in nodes \cap nodes' :
    LET was == info[a].channel
        now == info'[a].channel
    IN was # 0 /\ now # was =>
         \/ "STA" \in mode'[a] /\ ap_node[a] # NULL /\ now = info[ap_node[a]].channel
         \/ \E h \in Heard : h.p.beacon /\ h.p.ta = src[a] /\ h.channel = now
ChannelFollows == [][ChannelFollowsStep]_allVars

\* The standard is never below what the width the node was seen with takes.
StdFitsWidth ==
  \A a \in Addr : /\ info[a].chan_width >= W20 => info[a].std >= STDN
                  /\ info[a].chan_width >= W80 => info[a].std = STDAC
=============================================================================
