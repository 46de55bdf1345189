------------------------------ MODULE Registry ------------------------------
(***************************************************************************)
(* The two registries of the library: the list of nodes (stations and      *)
(* access points, core/node.c) and the list of ESSIDs (core/essid.c).      *)
(*                                                                         *)
(* They are linked by raw pointers in both directions: a node points to    *)
(* its AP (ap_node), an AP lists its stations (ap_nodes), a node points to *)
(* its ESSID and an ESSID lists its nodes.  Nothing is reference counted,  *)
(* so every operation that frees an object has to find every pointer to it.*)
(*                                                                         *)
(* Memory is explicit.  Addr and EAddr are the addresses malloc may return *)
(* for a node and for an ESSID; nodes and essids are the allocated ones    *)
(* (allocated and linked into the list happen together in the code, as do  *)
(* unlinked and freed).  Each field of the C structures is a function from *)
(* addresses.  A freed object is reset to zero, which is what malloc and   *)
(* memset give its next owner; an address may be handed out again at once. *)
(* Lists are sets: the order of nodes matters only to a linear search by a *)
(* key that is unique, and to the order of a sweep (see RegistrySweep).    *)
(*                                                                         *)
(* One action per API call.  The calls may come in any order, which        *)
(* contains the order applications use (one update, one find_ap, one       *)
(* essids_update per packet, a timeout now and then).                      *)
(***************************************************************************)
EXTENDS Integers, FiniteSets

CONSTANTS Addr,       \* addresses of struct uwifi_node
          EAddr,      \* addresses of struct essid_info
          NULL,       \* the null pointer
          Mac,        \* MAC addresses
          ZeroMac,    \* 00:00:00:00:00:00, the "empty" one
          BcastMac,   \* ff:ff:ff:ff:ff:ff; the only one that starts with ff
          EssidName,  \* network names
          NoEssid,    \* the empty network name
          Packets     \* the packets the application may hand over

Modes == {"AP", "IBSS", "STA", "PROBE", "4ADDR", "UNKNOWN"}

\* The fields of struct uwifi_packet that the registries decide by.
Packet == [ta : Mac, ra : Mac, bssid : Mac, mode : SUBSET Modes,
           essid : EssidName \cup {NoEssid},
           beacon : BOOLEAN,   \* a beacon or a probe response
           badfcs : BOOLEAN]

ASSUME RegistryAssumption ==
  /\ NULL \notin Addr /\ NULL \notin EAddr
  /\ IsFiniteSet(Addr)
  /\ ZeroMac \in Mac /\ BcastMac \in Mac /\ ZeroMac # BcastMac
  /\ NoEssid \notin EssidName
  /\ Packets \subseteq Packet

VARIABLES
  nodes,      \* the list of nodes
  src,        \* n->wlan_src, the node's own MAC address
  bssid,      \* n->wlan_bssid
  mode,       \* n->wlan_mode, a set of bits
  ap_node,    \* n->ap_node
  ap_nodes,   \* n->ap_nodes, the stations linked to this AP
  essid,      \* n->essid
  essids,     \* the list of ESSIDs
  name,       \* e->essid
  members,    \* e->nodes
  num_nodes,  \* e->num_nodes
  split,      \* e->split
  phase       \* "running", or which of the two lists was freed already

idVars   == <<src, bssid, mode>>
apVars   == <<ap_node, ap_nodes>>
nodeVars == <<nodes, idVars, apVars, essid>>
netVars  == <<essids, name, members, num_nodes, split>>
vars     == <<nodeVars, netVars, phase>>

TypeOK ==
  /\ nodes \subseteq Addr
  /\ src \in [Addr -> Mac] /\ bssid \in [Addr -> Mac]
  /\ mode \in [Addr -> SUBSET Modes]
  /\ ap_node \in [Addr -> Addr \cup {NULL}]
  /\ ap_nodes \in [Addr -> SUBSET Addr]
  /\ essid \in [Addr -> EAddr \cup {NULL}]
  /\ essids \subseteq EAddr
  /\ name \in [EAddr -> EssidName \cup {NoEssid}]
  /\ members \in [EAddr -> SUBSET Addr]
  /\ num_nodes \in [EAddr -> Nat]     \* unsigned: it must not pass zero
  /\ split \in [EAddr -> BOOLEAN]
  /\ phase \in {"running", "nodes_freed", "essids_freed"}

Init ==
  /\ nodes = {}
  /\ src = [a \in Addr |-> ZeroMac] /\ bssid = [a \in Addr |-> ZeroMac]
  /\ mode = [a \in Addr |-> {}]
  /\ ap_node = [a \in Addr |-> NULL] /\ ap_nodes = [a \in Addr |-> {}]
  /\ essid = [a \in Addr |-> NULL]
  /\ essids = {}
  /\ name = [e \in EAddr |-> NoEssid] /\ members = [e \in EAddr |-> {}]
  /\ num_nodes = [e \in EAddr |-> 0] /\ split = [e \in EAddr |-> FALSE]
  /\ phase = "running"

-----------------------------------------------------------------------------
\* Nodes.

\* The node a packet address is filed under: the one that has it, or, when no
\* node has it, whatever malloc returns.
SlotUnsearched(m) == Addr \ nodes  \* faulty: the list is not searched
Slot(m) == LET found == {a \in nodes : src[a] = m}
           IN  IF found # {} THEN found ELSE Addr \ nodes

\* "if (MAC_NOT_EMPTY(p->wlan_bssid)) memcpy(n->wlan_bssid, ...)"
BssidAlwaysCopied(a, p) == p.bssid  \* faulty: no test
BssidAfter(a, p) == IF p.bssid = ZeroMac THEN bssid[a] ELSE p.bssid

\* The receiver of a frame plays the opposite role of its sender.
RxMode(p, old) == CASE p.mode = {"AP"}   -> {"STA"}
                    [] p.mode = {"STA"}  -> {"AP"}
                    [] p.mode = {"IBSS"} -> {"IBSS"}
                    [] OTHER             -> old

\* File a under address m with p's BSSID and mode bits md.
FileNode(a, m, p, md) ==
  /\ nodes' = nodes \cup {a}
  /\ src' = [src EXCEPT ![a] = m]
  /\ bssid' = [bssid EXCEPT ![a] = BssidAfter(a, p)]
  /\ mode' = [mode EXCEPT ![a] = md]
  /\ UNCHANGED <<apVars, essid, netVars, phase>>

NodeUpdate(p) ==
  /\ phase = "running"
  /\ ~p.badfcs
  /\ p.ta # ZeroMac
  /\ \E a \in Slot(p.ta) : FileNode(a, p.ta, p, mode[a] \cup p.mode)

NodeUpdateReceiverReset(p) ==       \* faulty: memset also if it was found
  /\ phase = "running"
  /\ ~p.badfcs
  /\ p.ra \notin {ZeroMac, BcastMac}
  /\ \E a \in Slot(p.ra) :
       /\ nodes' = nodes \cup {a}
       /\ src' = [src EXCEPT ![a] = p.ra]
       /\ bssid' = [bssid EXCEPT ![a] = p.bssid]
       /\ mode' = [mode EXCEPT ![a] = RxMode(p, {})]
       /\ ap_node' = [ap_node EXCEPT ![a] = NULL]
       /\ ap_nodes' = [x \in Addr |-> IF x = ap_node[a] THEN ap_nodes[x] \ {a}
                                      ELSE ap_nodes[x]]
  /\ UNCHANGED <<essid, netVars, phase>>
NodeUpdateReceiver(p) ==
  /\ phase = "running"
  /\ ~p.badfcs
  /\ p.ra \notin {ZeroMac, BcastMac}
  /\ \E a \in Slot(p.ra) : FileNode(a, p.ra, p, RxMode(p, mode[a]))

\* The pointer find_ap ends up with: the node whose MAC is n's BSSID, if any.
ApOf(n) == LET found == {a \in nodes : src[a] = bssid[n]}
           IN  IF found # {} THEN found ELSE {NULL}

\* The stations of each AP once n has left its old AP for ap.
RelistedTwice(n, ap) ==             \* faulty: stays on the list of its old AP
  [a \in Addr |-> IF a = ap THEN ap_nodes[a] \cup {n} ELSE ap_nodes[a]]
Relisted(n, ap) ==
  [a \in Addr |-> IF a = ap THEN ap_nodes[a] \cup {n}
                  ELSE IF a = ap_node[n] THEN ap_nodes[a] \ {n}
                  ELSE ap_nodes[a]]

\* A station with a valid BSSID that is not the address of its current AP.
NeedsAp(n) ==
  /\ "STA" \in mode[n]
  /\ bssid[n] \notin {ZeroMac, BcastMac}
  /\ ap_node[n] # NULL => src[ap_node[n]] # bssid[n]

FindAp(n) ==
  /\ phase = "running"
  /\ n \in nodes
  /\ NeedsAp(n)
  /\ \E ap \in ApOf(n) : /\ ap_node' = [ap_node EXCEPT ![n] = ap]
                         /\ ap_nodes' = Relisted(n, ap)
  /\ UNCHANGED <<nodes, idVars, essid, netVars, phase>>

-----------------------------------------------------------------------------
\* ESSIDs.

\* Members that say which cell they are in: not an AP, not a probing client.
InCell(a) == mode[a] \cap {"AP", "PROBE"} = {}

\* update_essid_split_status, for an ESSID with members S counted as k.
SplitStatus(S, k) ==
  /\ k > 1
  /\ \E a, b \in S : InCell(a) /\ InCell(b) /\ bssid[a] # bssid[b]

\* Of the nodes in L, those that are in ESSID e; and how many it has without.
Left(e, L) == {a \in L : essid[a] = e}
Rest(e, L) == num_nodes[e] - Cardinality(Left(e, L))

\* The ESSIDs that lose their last node when those of L leave.
EmptiedNever(L) == {}               \* faulty: an empty ESSID stays listed
Emptied(L) == {e \in essids : Left(e, L) # {} /\ Rest(e, L) = 0}

SplitWithout(e, L) ==
  IF Left(e, L) = {} THEN split[e]
  ELSE SplitStatus(members[e] \ Left(e, L), Rest(e, L))

\* The nodes of L leave their ESSID.  Each one is unlinked and counted out; an
\* ESSID that reaches zero is freed, any other gets its split status again.
LeaveEssid(L) ==
  /\ essid' = [a \in Addr |-> IF a \in L THEN NULL ELSE essid[a]]
  /\ essids' = essids \ Emptied(L)
  /\ name' = [e \in EAddr |-> IF e \in Emptied(L) THEN NoEssid ELSE name[e]]
  /\ members' = [e \in EAddr |-> members[e] \ Left(e, L)]
  /\ num_nodes' = [e \in EAddr |-> Rest(e, L)]
  /\ split' = [e \in EAddr |-> SplitWithout(e, L)]

EssidsRemoveNode(n) ==
  /\ phase = "running"
  /\ n \in nodes
  /\ essid[n] # NULL
  /\ LeaveEssid({n})
  /\ UNCHANGED <<nodes, idVars, apVars, phase>>

\* The ESSID called s, or, when there is none, whatever malloc returns.
ESlot(s) == LET found == {e \in essids : name[e] = s}
            IN  IF found # {} THEN found ELSE EAddr \ essids

\* n moves to e: the members and the count of each ESSID, and the one n leaves
\* if n was its last.
MovedTwice(n, e) ==                 \* faulty: not removed from its old ESSID
  [x \in EAddr |-> IF x = e THEN members[x] \cup {n} ELSE members[x]]
Moved(n, e) ==
  [x \in EAddr |-> IF x = e THEN members[x] \cup {n}
                   ELSE IF x = essid[n] THEN members[x] \ {n}
                   ELSE members[x]]
CountedLess(n, e) ==                \* faulty: num_nodes++ is missing
  [x \in EAddr |-> IF x = essid[n] /\ x # e THEN num_nodes[x] - 1 ELSE num_nodes[x]]
Counted(n, e) ==
  [x \in EAddr |-> IF essid[n] = e THEN num_nodes[x]
                   ELSE IF x = e THEN num_nodes[x] + 1
                   ELSE IF x = essid[n] THEN num_nodes[x] - 1
                   ELSE num_nodes[x]]
Deserted(n, e) == {x \in essids : x = essid[n] /\ x # e /\ num_nodes[x] = 1}

\* Split status is looked at again where n arrives and where it leaves.
SplitOfNewOnly(n, e) ==             \* faulty: only where it arrives
  [x \in EAddr |-> IF x = e THEN SplitStatus(Moved(n, e)[x], Counted(n, e)[x])
                   ELSE split[x] /\ Counted(n, e)[x] > 0]
SplitMoved(n, e) ==
  [x \in EAddr |-> IF x \in {e, essid[n]}
                   THEN SplitStatus(Moved(n, e)[x], Counted(n, e)[x])
                   ELSE split[x]]

EssidsUpdate(p, n) ==
  /\ phase = "running"
  /\ n \in nodes /\ src[n] = p.ta     \* n is what node_update returned for p
  /\ ~p.badfcs
  /\ p.essid # NoEssid
  /\ p.beacon
  /\ \E e \in ESlot(p.essid) :
       /\ essid' = [essid EXCEPT ![n] = e]
       /\ essids' = (essids \cup {e}) \ Deserted(n, e)
       /\ name' = [x \in EAddr |-> IF x = e THEN p.essid
                                   ELSE IF x \in Deserted(n, e) THEN NoEssid
                                   ELSE name[x]]
       /\ members' = Moved(n, e)
       /\ num_nodes' = Counted(n, e)
       /\ split' = SplitMoved(n, e)
  /\ UNCHANGED <<nodes, idVars, apVars, phase>>

-----------------------------------------------------------------------------
\* Eviction and teardown.

\* The fields of the nodes in S after memset(n, 0, ...).
Zeroed(S) ==
  /\ src' = [a \in Addr |-> IF a \in S THEN ZeroMac ELSE src[a]]
  /\ bssid' = [a \in Addr |-> IF a \in S THEN ZeroMac ELSE bssid[a]]
  /\ mode' = [a \in Addr |-> IF a \in S THEN {} ELSE mode[a]]

\* The nodes whose ap_node is cleared when those of gone are freed: their own,
\* and that of every station on their lists.
OrphanedSelf(gone) == gone          \* faulty: "clear AP list" is missing
Orphaned(gone) == gone \cup UNION {ap_nodes[g] : g \in gone}

\* One sweep of uwifi_nodes_timeout that finds exactly the nodes of gone silent
\* for too long.  Which ones is a matter of the clock (see NodeAging).
NodesTimeout(gone) ==
  /\ phase = "running"
  /\ gone # {}
  /\ nodes' = nodes \ gone
  /\ Zeroed(gone)
  /\ ap_node' = [a \in Addr |-> IF a \in Orphaned(gone) THEN NULL ELSE ap_node[a]]
  /\ ap_nodes' = [a \in Addr |-> IF a \in gone THEN {}
                                 ELSE ap_nodes[a] \ {g \in gone : ap_node[g] = a}]
  /\ LeaveEssid(gone)
  /\ UNCHANGED phase

\* Teardown: both lists are freed, in either order; the first call leaves
\* pointers into freed memory behind, so the other call must be the next one.
NodesFree ==
  /\ phase \in {"running", "essids_freed"}
  /\ nodes' = {}
  /\ Zeroed(Addr)
  /\ ap_node' = [a \in Addr |-> NULL] /\ ap_nodes' = [a \in Addr |-> {}]
  /\ essid' = [a \in Addr |-> NULL]
  /\ phase' = IF phase = "running" THEN "nodes_freed" ELSE "running"
  /\ UNCHANGED netVars

EssidsFree ==
  /\ phase \in {"running", "nodes_freed"}
  /\ essids' = {}
  /\ name' = [e \in EAddr |-> NoEssid] /\ members' = [e \in EAddr |-> {}]
  /\ num_nodes' = [e \in EAddr |-> 0] /\ split' = [e \in EAddr |-> FALSE]
  /\ phase' = IF phase = "running" THEN "essids_freed" ELSE "running"
  /\ UNCHANGED nodeVars

-----------------------------------------------------------------------------
Next ==
  \/ \E p \in Packets : NodeUpdate(p)
  \/ \E p \in Packets : NodeUpdateReceiver(p)
  \/ \E p \in Packets, n \in nodes : EssidsUpdate(p, n)
  \/ \E n \in nodes : FindAp(n)
  \/ \E n \in nodes : EssidsRemoveNode(n)
  \/ \E gone \in SUBSET nodes : NodesTimeout(gone)
  \/ NodesFree
  \/ EssidsFree

Spec == Init /\ [][Next]_vars

-----------------------------------------------------------------------------
\* What makes the registries correct.

\* No pointer of a live object leads to freed memory: the AP of a node, the
\* stations of an AP, the ESSID of a node and the members of an ESSID are all
\* allocated while the registries are in use.  Every free in node.c and essid.c
\* has to have unlinked the object from everywhere first.
NoDangling ==
  phase = "running" =>
    /\ \A a \in nodes : /\ ap_node[a] \in nodes \cup {NULL}
                        /\ ap_nodes[a] \subseteq nodes
                        /\ essid[a] \in essids \cup {NULL}
    /\ \A e \in essids : members[e] \subseteq nodes

\* The two ends of an association agree: a station is on the list of an AP
\* exactly when its ap_node is that AP.  find_ap and the timeout unlink through
\* one end and rely on the other.
StationListsAgree ==
  \A a, s \in nodes : s \in ap_nodes[a] <=> ap_node[s] = a

\* The two ends of a membership agree, so a node is in one ESSID at most.
MemberListsAgree ==
  phase = "running" =>
    \A e \in essids, n \in nodes : n \in members[e] <=> essid[n] = e

\* num_nodes counts the list, and an ESSID nobody is in does not stay listed:
\* the unsigned counter is what decides when the ESSID is freed.
CountExact ==
  \A e \in essids : num_nodes[e] = Cardinality(members[e]) /\ members[e] # {}

\* No MAC address has two nodes and no name two ESSIDs: searches stop at the
\* first match, a second object with the same key would never be updated.
UniqueKeys ==
  /\ \A a, b \in nodes : src[a] = src[b] => a = b
  /\ \A d, e \in essids : name[d] = name[e] => d = e

\* "essid can't be split if it only contains 1 node" (essid.c:27): the flag of an
\* ESSID that shrank to one member is down, however it shrank.
SplitNeedsTwo ==
  \A e \in essids : split[e] => Cardinality(members[e]) > 1

\* A step that changes who is in an ESSID leaves its split flag as the members
\* that remain justify it, by their BSSIDs and modes at that moment: also for
\* the ESSID a node moved away from, and for one that lost members to a timeout.
SplitFreshStep ==
  \A e \in essids' :
     phase' = "running" /\ members'[e] # members[e] =>
       split'[e] = SplitStatus(members[e], num_nodes[e])'
SplitFresh == [][SplitFreshStep]_vars

\* A station stays linked to its AP until the AP is evicted or the station has
\* another BSSID than the AP's address; no other call breaks the link.
LinkKeptStep ==
  \A n \in nodes \cap nodes' :
     ap_node[n] # NULL /\ ap_node'[n] # ap_node[n] =>
       ap_node[n] \notin nodes' \/ src[ap_node[n]] # bssid[n]
LinkKept == [][LinkKeptStep]_vars

-----------------------------------------------------------------------------
\* The inductive invariant: the properties above, over all addresses instead of
\* the allocated ones, with what free memory looks like and what each phase of
\* a teardown has left.

\* Freed nodes point nowhere and have no BSSID, freed ESSIDs no members.
FreeClean ==
  /\ \A a \in Addr \ nodes :
       ap_node[a] = NULL /\ essid[a] = NULL /\ bssid[a] = ZeroMac
  /\ \A e \in EAddr \ essids : members[e] = {}

ApLinks ==
  /\ \A a \in Addr : ap_node[a] \in nodes \cup {NULL}
  /\ \A a, s \in Addr : s \in ap_nodes[a] <=> ap_node[s] = a

NetLinks ==
  phase = "running" =>
    /\ \A n \in Addr : essid[n] \in essids \cup {NULL}
    /\ \A e \in EAddr, n \in Addr : n \in members[e] <=> essid[n] = e

Counts ==
  /\ \A e \in EAddr : num_nodes[e] = Cardinality(members[e])
  /\ \A e \in essids : members[e] # {}

Splits == \A e \in EAddr : split[e] => num_nodes[e] > 1

Teardown ==
  /\ phase = "nodes_freed" => nodes = {}
  /\ phase = "essids_freed" => essids = {}

IInv ==
  /\ TypeOK /\ FreeClean /\ ApLinks /\ NetLinks /\ Counts /\ UniqueKeys
  /\ Splits /\ Teardown

-----------------------------------------------------------------------------
\* The promise of Directory, with pointers and addresses hidden.

NodesAt(m) == {a \in nodes : src[a] = m}
OnlyOf(S) == CHOOSE a \in S : TRUE

ApMacOf(a) == IF ap_node[a] = NULL THEN ZeroMac ELSE src[ap_node[a]]
NetOf(a) == LET E == {e \in essids : a \in members[e]}
            IN  IF E = {} THEN NoEssid ELSE name[OnlyOf(E)]

Known == {src[a] : a \in nodes}
Cell == [m \in Mac |-> IF NodesAt(m) = {} THEN ZeroMac ELSE bssid[OnlyOf(NodesAt(m))]]
Ap   == [m \in Mac |-> IF NodesAt(m) = {} THEN ZeroMac ELSE ApMacOf(OnlyOf(NodesAt(m)))]
Net  == [m \in Mac |-> IF NodesAt(m) = {} THEN NoEssid ELSE NetOf(OnlyOf(NodesAt(m)))]

Dir == INSTANCE Directory WITH known <- Known, cell <- Cell, ap <- Ap, net <- Net

\* Seen by MAC address and network name, the two linked registries are the
\* directory of Directory: no step through a pointer affects another node, an
\* address that malloc hands out again inherits nothing.
ImplementsDirectory == Dir!Spec
=============================================================================
