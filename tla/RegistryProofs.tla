--------------------------- MODULE RegistryProofs ---------------------------
(***************************************************************************)
(* Theorems about Registry, for any number of addresses, MAC addresses,    *)
(* networks and packets.  The argument: IInv is inductive.  One lemma for  *)
(* each part of the registries that several operations share (filing a     *)
(* node, leaving an ESSID), one for each operation, and the invariants     *)
(* follow from IInv.  Last, the eviction loop of RegistrySweep: one        *)
(* eviction after another, in any order, comes to evicting all at once.    *)
(***************************************************************************)
EXTENDS RegistrySweep, FiniteSetTheorems, WellFoundedInduction, TLAPS

\* Member lists are finite, so that counting them makes sense.
LEMMA SubsetFinite ==
  ASSUME NEW S, S \subseteq Addr
  PROVE  IsFiniteSet(S) /\ Cardinality(S) \in Nat
BY RegistryAssumption, FS_Subset, FS_CardinalityType

LEMMA InitInv == Init => IInv
<1> SUFFICES ASSUME Init PROVE IInv
  OBVIOUS
<1>1. TypeOK
  BY RegistryAssumption DEF Init, TypeOK
<1>2. FreeClean /\ ApLinks /\ NetLinks /\ UniqueKeys /\ Teardown
  BY RegistryAssumption DEF Init, FreeClean, ApLinks, NetLinks, UniqueKeys, Teardown
<1>3. Counts /\ Splits
  BY FS_EmptySet DEF Init, Counts, Splits
<1> QED
  BY <1>1, <1>2, <1>3 DEF IInv

-----------------------------------------------------------------------------
\* Filing a packet, the common part of both node updates: an address that no
\* other node has, in its own node or in a fresh one.
LEMMA FileNodeKeeps ==
  ASSUME IInv, NEW p \in Packets, NEW m \in Mac, NEW a \in Slot(m),
         NEW md \in SUBSET Modes, phase = "running", FileNode(a, m, p, md)
  PROVE  IInv'
<1> USE DEF IInv
<1>1. a \in Addr /\ (a \in nodes => src[a] = m)
  BY DEF Slot, TypeOK
<1>2. \A b \in nodes : src[b] = m => a = b
  BY <1>1 DEF Slot, UniqueKeys
<1>3. p.bssid \in Mac
  BY RegistryAssumption DEF Packet
<1>4. TypeOK'
  <2>1. BssidAfter(a, p) \in Mac
    BY <1>1, <1>3 DEF BssidAfter, TypeOK
  <2> QED BY <1>1, <2>1 DEF TypeOK, FileNode, apVars, netVars
<1>5. FreeClean' /\ ApLinks' /\ NetLinks' /\ Counts' /\ Splits'
  BY DEF FileNode, apVars, netVars, FreeClean, ApLinks, NetLinks, Counts, Splits
<1>6. UniqueKeys'
  <2>1. \A b \in nodes' : b = a \/ (b \in nodes /\ src'[b] = src[b])
    BY <1>1 DEF FileNode, TypeOK
  <2>2. src'[a] = m
    BY <1>1 DEF FileNode, TypeOK
  <2> QED BY <1>2, <2>1, <2>2 DEF UniqueKeys, FileNode, netVars
<1>7. Teardown'
  BY DEF FileNode, Teardown
<1> QED BY <1>4, <1>5, <1>6, <1>7

LEMMA NodeUpdateInv == ASSUME IInv, NEW p \in Packets, NodeUpdate(p) PROVE IInv'
<1>1. PICK a \in Slot(p.ta) : FileNode(a, p.ta, p, mode[a] \cup p.mode)
  BY DEF NodeUpdate
<1>2. p.ta \in Mac /\ p.mode \in SUBSET Modes
  BY RegistryAssumption DEF Packet
<1>3. a \in Addr
  BY DEF Slot, IInv, TypeOK
<1>4. mode[a] \cup p.mode \in SUBSET Modes
  BY <1>2, <1>3 DEF IInv, TypeOK
<1> QED
  BY <1>1, <1>2, <1>4, FileNodeKeeps DEF NodeUpdate

LEMMA NodeUpdateReceiverInv ==
  ASSUME IInv, NEW p \in Packets, NodeUpdateReceiver(p) PROVE IInv'
<1>1. PICK a \in Slot(p.ra) : FileNode(a, p.ra, p, RxMode(p, mode[a]))
  BY DEF NodeUpdateReceiver
<1>2. p.ra \in Mac
  BY RegistryAssumption DEF Packet
<1>3. a \in Addr
  BY DEF Slot, IInv, TypeOK
<1>4. RxMode(p, mode[a]) \in SUBSET Modes
  BY <1>3 DEF RxMode, Modes, IInv, TypeOK
<1> QED
  BY <1>1, <1>2, <1>4, FileNodeKeeps DEF NodeUpdateReceiver

LEMMA FindApInv == ASSUME IInv, NEW n \in nodes, FindAp(n) PROVE IInv'
<1> USE DEF IInv
<1>1. PICK ap \in ApOf(n) : /\ ap_node' = [ap_node EXCEPT ![n] = ap]
                            /\ ap_nodes' = Relisted(n, ap)
  BY DEF FindAp
<1>2. n \in Addr /\ ap \in nodes \cup {NULL} /\ ap \in Addr \cup {NULL}
  BY DEF ApOf, TypeOK
<1>3. ap # ap_node[n] \/ ap = NULL
  BY <1>2 DEF ApOf, FindAp, NeedsAp, ApLinks
<1>4. TypeOK'
  BY <1>1, <1>2 DEF FindAp, TypeOK, idVars, netVars, Relisted
<1>5. ApLinks'
  <2>1. \A a \in Addr : ap_node'[a] \in nodes' \cup {NULL}
    BY <1>1, <1>2 DEF FindAp, TypeOK, ApLinks
  <2>2. ASSUME NEW a \in Addr, NEW s \in Addr
        PROVE  s \in ap_nodes'[a] <=> ap_node'[s] = a
    <3>1. s \in ap_nodes[a] <=> ap_node[s] = a
      BY DEF ApLinks
    <3>2. a # NULL
      BY RegistryAssumption
    <3>3. ap_nodes'[a] = IF a = ap THEN ap_nodes[a] \cup {n}
                         ELSE IF a = ap_node[n] THEN ap_nodes[a] \ {n}
                         ELSE ap_nodes[a]
      BY <1>1 DEF Relisted
    <3>4. ap_node'[s] = IF s = n THEN ap ELSE ap_node[s]
      BY <1>1 DEF TypeOK
    <3> QED BY <1>3, <3>1, <3>2, <3>3, <3>4
  <2> QED BY <2>1, <2>2 DEF ApLinks
<1>6. FreeClean' /\ NetLinks' /\ Counts' /\ UniqueKeys' /\ Splits' /\ Teardown'
  BY <1>1, <1>2 DEF FindAp, idVars, netVars, TypeOK, FreeClean, NetLinks, Counts,
                    UniqueKeys, Splits, Teardown
<1> QED BY <1>4, <1>5, <1>6

-----------------------------------------------------------------------------
\* Leaving an ESSID, the common part of uwifi_essids_remove_node and of the
\* timeout.  Counting is exact because those who leave are on the list.
LEMMA LeaveEssidCounts ==
  ASSUME IInv, phase = "running", NEW L \in SUBSET nodes, NEW e \in EAddr
  PROVE  /\ Left(e, L) \subseteq members[e]
         /\ Rest(e, L) = Cardinality(members[e] \ Left(e, L))
         /\ Rest(e, L) \in Nat
         /\ Rest(e, L) = 0 <=> members[e] \ Left(e, L) = {}
<1> USE DEF IInv
<1>1. Left(e, L) \subseteq members[e]
  BY DEF Left, NetLinks, TypeOK
<1>2. members[e] \subseteq Addr /\ members[e] \ Left(e, L) \subseteq Addr
  BY DEF TypeOK
<1>3. Left(e, L) \cap members[e] = Left(e, L) /\ members[e] \cap Left(e, L) = Left(e, L)
  BY <1>1
<1>4. Cardinality(members[e] \ Left(e, L)) = Cardinality(members[e]) - Cardinality(Left(e, L))
  <2>1. IsFiniteSet(members[e])
    BY <1>2, SubsetFinite
  <2>2. Cardinality(members[e] \ Left(e, L)) =
          Cardinality(members[e]) - Cardinality(members[e] \cap Left(e, L))
    BY <2>1, FS_Difference, Zenon
  <2> QED
    BY <1>3, <2>2
<1>5. Rest(e, L) = Cardinality(members[e] \ Left(e, L))
  BY <1>4 DEF Rest, Counts
<1>6. Rest(e, L) \in Nat /\ (Rest(e, L) = 0 <=> members[e] \ Left(e, L) = {})
  BY <1>2, <1>5, SubsetFinite, FS_EmptySet
<1> QED BY <1>1, <1>5, <1>6

LEMMA LeaveEssidKeeps ==
  ASSUME IInv, phase = "running", phase' = "running", NEW L \in SUBSET nodes,
         LeaveEssid(L)
  PROVE  /\ essids' \subseteq essids
         /\ \A e \in EAddr \ essids' : members'[e] = {}
         /\ NetLinks' /\ Counts' /\ Splits'
         /\ \A e \in essids' : name'[e] = name[e]
         /\ essid' \in [Addr -> EAddr \cup {NULL}]
         /\ name' \in [EAddr -> EssidName \cup {NoEssid}]
         /\ members' \in [EAddr -> SUBSET Addr]
         /\ num_nodes' \in [EAddr -> Nat]
         /\ split' \in [EAddr -> BOOLEAN]
<1> USE DEF IInv
<1>1. L \subseteq Addr /\ essids \subseteq EAddr
  BY DEF TypeOK
<1>2. \A e \in EAddr : /\ members'[e] = members[e] \ Left(e, L)
                       /\ num_nodes'[e] = Rest(e, L)
                       /\ split'[e] = SplitWithout(e, L)
  BY DEF LeaveEssid
<1>3. \A a \in Addr : essid'[a] = IF a \in L THEN NULL ELSE essid[a]
  BY DEF LeaveEssid
<1>4. essids' = essids \ Emptied(L)
  BY DEF LeaveEssid
<1>5. \A e \in EAddr : e \in Emptied(L) => members'[e] = {} /\ num_nodes'[e] = 0
  BY <1>2, LeaveEssidCounts DEF Emptied
<1>6. \A e \in essids' : members'[e] # {}
  <2> SUFFICES ASSUME NEW e \in essids' PROVE members'[e] # {}
    OBVIOUS
  <2>1. e \in EAddr /\ e \in essids /\ e \notin Emptied(L)
    BY <1>1, <1>4
  <2>2. CASE Left(e, L) = {}
    BY <2>1, <2>2, <1>2 DEF Counts
  <2>3. CASE Left(e, L) # {}
    BY <2>1, <2>3, <1>2, LeaveEssidCounts DEF Emptied
  <2> QED BY <2>2, <2>3
<1>7. \A e \in EAddr \ essids' : members'[e] = {}
  BY <1>1, <1>2, <1>4, <1>5 DEF FreeClean
<1>8. NetLinks'
  <2>1. ASSUME NEW n \in Addr PROVE essid'[n] \in essids' \cup {NULL}
    <3>1. CASE n \in L
      BY <3>1, <1>3
    <3>2. CASE n \notin L /\ essid[n] # NULL
      <4>1. essid[n] \in essids /\ essid[n] \in EAddr /\ essid'[n] = essid[n]
        BY <3>2, <1>1, <1>3 DEF NetLinks
      <4>2. n \in members[essid[n]] /\ n \notin Left(essid[n], L)
        BY <3>2, <4>1 DEF NetLinks, Left
      <4>3. essid[n] \notin Emptied(L)
        BY <4>1, <4>2, <1>2, <1>5
      <4> QED BY <4>1, <4>3, <1>4
    <3>3. CASE n \notin L /\ essid[n] = NULL
      BY <3>3, <1>3
    <3> QED BY <3>1, <3>2, <3>3
  <2>2. ASSUME NEW e \in EAddr, NEW n \in Addr
        PROVE  n \in members'[e] <=> essid'[n] = e
    <3>1. n \in members[e] <=> essid[n] = e
      BY DEF NetLinks
    <3>2. n \in Left(e, L) <=> n \in L /\ essid[n] = e
      BY DEF Left
    <3>3. e # NULL
      BY RegistryAssumption
    <3> QED BY <3>1, <3>2, <3>3, <1>2, <1>3
  <2> QED BY <2>1, <2>2 DEF NetLinks
<1>9. Counts'
  BY <1>2, <1>6, LeaveEssidCounts DEF Counts
<1>10. Splits'
  <2> SUFFICES ASSUME NEW e \in EAddr, split'[e] PROVE num_nodes'[e] > 1
    BY DEF Splits
  <2>1. CASE Left(e, L) = {}
    <3>1. Rest(e, L) = num_nodes[e]
      BY <2>1, FS_EmptySet DEF Rest, TypeOK
    <3> QED BY <2>1, <3>1, <1>2 DEF SplitWithout, Splits
  <2>2. CASE Left(e, L) # {}
    BY <2>2, <1>2 DEF SplitWithout, SplitStatus
  <2> QED BY <2>1, <2>2
<1>11. \A e \in essids' : name'[e] = name[e]
  BY <1>1, <1>4 DEF LeaveEssid
<1>12. essid' \in [Addr -> EAddr \cup {NULL}]
  BY DEF LeaveEssid, TypeOK
<1>13. name' \in [EAddr -> EssidName \cup {NoEssid}]
  BY DEF LeaveEssid, TypeOK
<1>14. members' \in [EAddr -> SUBSET Addr]
  BY DEF LeaveEssid, TypeOK
<1>15. num_nodes' \in [EAddr -> Nat]
  BY LeaveEssidCounts DEF LeaveEssid
<1>16. split' \in [EAddr -> BOOLEAN]
  <2>1. \A e \in EAddr : SplitWithout(e, L) \in BOOLEAN
    BY DEF SplitWithout, SplitStatus, TypeOK
  <2> QED BY <2>1 DEF LeaveEssid
<1> QED
  BY <1>4, <1>7, <1>8, <1>9, <1>10, <1>11, <1>12, <1>13, <1>14, <1>15, <1>16

LEMMA EssidsRemoveNodeInv ==
  ASSUME IInv, NEW n \in nodes, EssidsRemoveNode(n) PROVE IInv'
<1> USE DEF IInv
<1>1. LeaveEssid({n}) /\ {n} \in SUBSET nodes /\ phase = "running" /\ phase' = "running"
  BY DEF EssidsRemoveNode
<1>2. TypeOK'
  BY <1>1, LeaveEssidKeeps DEF EssidsRemoveNode, TypeOK, idVars, apVars
<1>3. FreeClean'
  <2>1. \A a \in Addr \ nodes' : /\ ap_node'[a] = NULL /\ essid'[a] = NULL
                              /\ bssid'[a] = ZeroMac
    BY DEF EssidsRemoveNode, LeaveEssid, FreeClean, idVars, apVars
  <2> QED BY <1>1, <2>1, LeaveEssidKeeps DEF FreeClean
<1>4. ApLinks' /\ Teardown'
  BY <1>1 DEF EssidsRemoveNode, ApLinks, Teardown, apVars
<1>5. UniqueKeys'
  BY <1>1, LeaveEssidKeeps DEF EssidsRemoveNode, UniqueKeys, idVars
<1> QED BY <1>1, <1>2, <1>3, <1>4, <1>5, LeaveEssidKeeps

LEMMA NodesTimeoutInv ==
  ASSUME IInv, NEW gone \in SUBSET nodes, NodesTimeout(gone) PROVE IInv'
<1> USE DEF IInv
<1>1. LeaveEssid(gone) /\ phase = "running" /\ phase' = "running"
  BY DEF NodesTimeout
<1>2. nodes' = nodes \ gone /\ nodes \subseteq Addr
  BY DEF NodesTimeout, TypeOK
<1>3. \A a \in Addr : /\ ap_node'[a] = IF a \in Orphaned(gone) THEN NULL ELSE ap_node[a]
                      /\ ap_nodes'[a] = IF a \in gone THEN {}
                                        ELSE ap_nodes[a] \ {g \in gone : ap_node[g] = a}
  BY DEF NodesTimeout
<1>4. \A a \in Addr : a \in Orphaned(gone) <=> a \in gone \/ ap_node[a] \in gone
  BY <1>2, RegistryAssumption DEF Orphaned, ApLinks
<1>5. TypeOK'
  <2>1. /\ src' \in [Addr -> Mac] /\ bssid' \in [Addr -> Mac]
        /\ mode' \in [Addr -> SUBSET Modes]
    BY RegistryAssumption DEF NodesTimeout, Zeroed, TypeOK
  <2>2. ap_node' \in [Addr -> Addr \cup {NULL}] /\ ap_nodes' \in [Addr -> SUBSET Addr]
    BY DEF NodesTimeout, TypeOK
  <2> QED BY <1>1, <1>2, <2>1, <2>2, LeaveEssidKeeps DEF TypeOK
<1>6. FreeClean'
  <2>1. \A a \in Addr \ nodes' : ap_node'[a] = NULL
    BY <1>2, <1>3, <1>4 DEF FreeClean
  <2>2. \A a \in Addr \ nodes' : essid'[a] = NULL /\ bssid'[a] = ZeroMac
    BY <1>1, <1>2 DEF NodesTimeout, Zeroed, LeaveEssid, FreeClean
  <2> QED BY <1>1, <2>1, <2>2, LeaveEssidKeeps DEF FreeClean
<1>7. ApLinks'
  <2>1. \A a \in Addr : ap_node'[a] \in nodes' \cup {NULL}
    BY <1>2, <1>3, <1>4 DEF ApLinks
  <2>2. ASSUME NEW a \in Addr, NEW s \in Addr
        PROVE  s \in ap_nodes'[a] <=> ap_node'[s] = a
    <3>1. s \in ap_nodes[a] <=> ap_node[s] = a
      BY DEF ApLinks
    <3>2. a # NULL
      BY RegistryAssumption
    <3>3. ap_node'[s] = a <=> ap_node[s] = a /\ a \notin gone /\ s \notin gone
      <4>1. ap_node'[s] = IF s \in Orphaned(gone) THEN NULL ELSE ap_node[s]
        BY <1>3, Zenon
      <4>2. s \in Orphaned(gone) <=> s \in gone \/ ap_node[s] \in gone
        BY <1>4, Zenon
      <4> QED
        BY <3>2, <4>1, <4>2, Zenon
    <3>4. s \in ap_nodes'[a] <=> s \in ap_nodes[a] /\ a \notin gone /\ s \notin gone
      <4>1. s \in {g \in gone : ap_node[g] = a} <=> s \in gone /\ ap_node[s] = a
        OBVIOUS
      <4> QED
        BY <1>3, <3>1, <4>1, Zenon
    <3> QED
      BY <3>1, <3>3, <3>4
  <2> QED BY <2>1, <2>2 DEF ApLinks
<1>8. UniqueKeys'
  <2>1. \A a \in nodes' : a \in nodes /\ src'[a] = src[a]
    BY <1>2 DEF NodesTimeout, Zeroed
  <2> QED BY <1>1, <2>1, LeaveEssidKeeps DEF UniqueKeys
<1>9. Teardown'
  BY <1>1 DEF Teardown
<1> QED BY <1>1, <1>5, <1>6, <1>7, <1>8, <1>9, LeaveEssidKeeps

-----------------------------------------------------------------------------
\* Moving to an ESSID.  A node is counted in once where it arrives, and counted
\* out once where it was, which may leave nobody there.
LEMMA MovedCounts ==
  ASSUME IInv, phase = "running", NEW n \in nodes, NEW e \in EAddr, NEW x \in EAddr
  PROVE  /\ Moved(n, e)[x] \subseteq Addr
         /\ Counted(n, e)[x] = Cardinality(Moved(n, e)[x])
         /\ Counted(n, e)[x] \in Nat
         /\ x \in Deserted(n, e) => Moved(n, e)[x] = {}
         /\ x \in essids \ Deserted(n, e) => Moved(n, e)[x] # {}
<1> USE DEF IInv
<1>1. /\ n \in Addr /\ members[x] \subseteq Addr /\ num_nodes[x] = Cardinality(members[x])
      /\ num_nodes[x] \in Nat /\ IsFiniteSet(members[x])
  BY SubsetFinite DEF TypeOK, Counts
<1>2. n \in members[x] <=> essid[n] = x
  BY <1>1 DEF NetLinks
<1>3. /\ Moved(n, e)[x] = IF x = e THEN members[x] \cup {n}
                          ELSE IF x = essid[n] THEN members[x] \ {n}
                          ELSE members[x]
      /\ Counted(n, e)[x] = IF essid[n] = e THEN num_nodes[x]
                            ELSE IF x = e THEN num_nodes[x] + 1
                            ELSE IF x = essid[n] THEN num_nodes[x] - 1
                            ELSE num_nodes[x]
  BY DEF Moved, Counted
<1>4. /\ Cardinality(members[x] \cup {n}) = IF n \in members[x] THEN Cardinality(members[x])
                                            ELSE Cardinality(members[x]) + 1
      /\ Cardinality(members[x] \ {n}) = IF n \in members[x] THEN Cardinality(members[x]) - 1
                                         ELSE Cardinality(members[x])
  BY <1>1, FS_AddElement, FS_RemoveElement
<1>5. Moved(n, e)[x] \subseteq Addr
  BY <1>1, <1>3
<1>6. Counted(n, e)[x] = Cardinality(Moved(n, e)[x])
  <2>1. CASE x = e /\ essid[n] = e
    <3>1. members[x] \cup {n} = members[x]
      BY <1>2, <2>1
    <3> QED BY <1>1, <1>3, <2>1, <3>1
  <2>2. CASE x = e /\ essid[n] # e
    BY <1>1, <1>2, <1>3, <1>4, <2>2
  <2>3. CASE x # e /\ x = essid[n]
    BY <1>1, <1>2, <1>3, <1>4, <2>3
  <2>4. CASE x # e /\ x # essid[n]
    BY <1>1, <1>3, <2>4
  <2> QED BY <2>1, <2>2, <2>3, <2>4
<1>7. Counted(n, e)[x] \in Nat
  BY <1>5, <1>6, SubsetFinite
<1>8. ASSUME x \in Deserted(n, e) PROVE Moved(n, e)[x] = {}
  <2>1. x = essid[n] /\ x # e /\ Counted(n, e)[x] = 0
    BY <1>3, <1>8 DEF Deserted
  <2> QED BY <1>5, <1>6, <2>1, SubsetFinite, FS_EmptySet
<1>9. ASSUME x \in essids \ Deserted(n, e) PROVE Moved(n, e)[x] # {}
  <2>1. CASE x = essid[n] /\ x # e
    <3>1. num_nodes[x] # 1
      BY <1>9, <2>1 DEF Deserted
    <3>2. Counted(n, e)[x] = num_nodes[x] - 1 /\ num_nodes[x] # 0
      BY <1>3, <2>1, <1>1, <1>2, FS_EmptySet
    <3>3. Cardinality(Moved(n, e)[x]) # 0
      BY <1>1, <1>6, <3>1, <3>2
    <3> QED BY <3>3, FS_EmptySet
  <2>2. CASE ~(x = essid[n] /\ x # e)
    BY <1>3, <1>9, <2>2 DEF Counts
  <2> QED BY <2>1, <2>2
<1> QED BY <1>5, <1>6, <1>7, <1>8, <1>9

LEMMA EssidsUpdateInv ==
  ASSUME IInv, NEW p \in Packets, NEW n \in nodes, EssidsUpdate(p, n) PROVE IInv'
<1> USE DEF IInv
<1>1. PICK e \in ESlot(p.essid) :
        /\ essid' = [essid EXCEPT ![n] = e]
        /\ essids' = (essids \cup {e}) \ Deserted(n, e)
        /\ name' = [x \in EAddr |-> IF x = e THEN p.essid
                                    ELSE IF x \in Deserted(n, e) THEN NoEssid
                                    ELSE name[x]]
        /\ members' = Moved(n, e)
        /\ num_nodes' = Counted(n, e)
        /\ split' = SplitMoved(n, e)
  BY DEF EssidsUpdate
<1>2. phase = "running" /\ phase' = "running" /\ nodes' = nodes
  BY DEF EssidsUpdate
<1>3. e \in EAddr /\ n \in Addr /\ essids \subseteq EAddr /\ e # NULL
  BY RegistryAssumption DEF ESlot, TypeOK
<1>4. /\ e \in essids => name[e] = p.essid
      /\ \A x \in essids : name[x] = p.essid => x = e
  BY DEF ESlot, UniqueKeys
<1>5. e \in essids' /\ e \notin Deserted(n, e)
  BY <1>1 DEF Deserted
<1>6. p.essid \in EssidName \cup {NoEssid}
  BY RegistryAssumption DEF Packet
<1>7. TypeOK'
  <2>1. essids' \subseteq EAddr /\ essid' \in [Addr -> EAddr \cup {NULL}]
    BY <1>1, <1>3 DEF TypeOK
  <2>2. name' \in [EAddr -> EssidName \cup {NoEssid}]
    BY <1>1, <1>6 DEF TypeOK
  <2>3. members' \in [EAddr -> SUBSET Addr]
    <3>1. \A x \in EAddr : Moved(n, e)[x] \subseteq Addr
      BY <1>2, <1>3, MovedCounts
    <3> QED BY <1>1, <3>1 DEF Moved
  <2>4. num_nodes' \in [EAddr -> Nat]
    <3>1. \A x \in EAddr : Counted(n, e)[x] \in Nat
      BY <1>2, <1>3, MovedCounts
    <3> QED BY <1>1, <3>1 DEF Counted
  <2>5. split' \in [EAddr -> BOOLEAN]
    BY <1>1 DEF SplitMoved, SplitStatus, TypeOK
  <2> QED
    BY <2>1, <2>2, <2>3, <2>4, <2>5 DEF EssidsUpdate, TypeOK, idVars, apVars
<1>8. FreeClean'
  <2>1. \A a \in Addr \ nodes' : /\ ap_node'[a] = NULL /\ essid'[a] = NULL
                              /\ bssid'[a] = ZeroMac
    BY <1>1, <1>2 DEF EssidsUpdate, FreeClean, TypeOK, idVars, apVars
  <2>2. ASSUME NEW x \in EAddr \ essids' PROVE members'[x] = {}
    <3>1. CASE x \in Deserted(n, e)
      BY <1>1, <1>2, <1>3, <3>1, MovedCounts
    <3>2. CASE x \notin essids /\ x # e
      <4>1. x # essid[n]
        BY <1>2, <1>3, <3>2, RegistryAssumption DEF NetLinks
      <4> QED BY <1>1, <3>2, <4>1 DEF Moved, FreeClean
    <3> QED BY <1>1, <3>1, <3>2
  <2> QED BY <2>1, <2>2 DEF FreeClean
<1>9. NetLinks'
  <2>1. ASSUME NEW b \in Addr PROVE essid'[b] \in essids' \cup {NULL}
    <3>1. CASE b = n
      BY <1>1, <1>3, <1>5, <3>1 DEF TypeOK
    <3>2. CASE b # n /\ essid[b] # NULL
      <4>1. essid'[b] = essid[b] /\ essid[b] \in essids /\ essid[b] \in EAddr
        BY <1>1, <1>2, <1>3, <3>2 DEF NetLinks, TypeOK
      <4>2. b \in Moved(n, e)[essid[b]]
        BY <1>2, <3>2, <4>1 DEF NetLinks, Moved
      <4>3. essid[b] \notin Deserted(n, e)
        BY <1>2, <1>3, <4>1, <4>2, MovedCounts
      <4> QED BY <1>1, <4>1, <4>3
    <3>3. CASE b # n /\ essid[b] = NULL
      BY <1>1, <3>3 DEF TypeOK
    <3> QED BY <3>1, <3>2, <3>3
  <2>2. ASSUME NEW x \in EAddr, NEW b \in Addr
        PROVE  b \in members'[x] <=> essid'[b] = x
    <3>1. b \in members[x] <=> essid[b] = x
      BY <1>2 DEF NetLinks
    <3>2. essid'[b] = IF b = n THEN e ELSE essid[b]
      BY <1>1 DEF TypeOK
    <3>3. members'[x] = IF x = e THEN members[x] \cup {n}
                        ELSE IF x = essid[n] THEN members[x] \ {n}
                        ELSE members[x]
      BY <1>1 DEF Moved
    <3> QED BY <3>1, <3>2, <3>3
  <2> QED BY <2>1, <2>2 DEF NetLinks
<1>10. Counts'
  <2>1. \A x \in EAddr : num_nodes'[x] = Cardinality(members'[x])
    BY <1>1, <1>2, <1>3, MovedCounts
  <2>2. \A x \in essids' : members'[x] # {}
    <3> SUFFICES ASSUME NEW x \in essids' PROVE members'[x] # {}
      OBVIOUS
    <3>1. CASE x = e
      BY <1>1, <1>3, <3>1 DEF Moved
    <3>2. CASE x # e
      BY <1>1, <1>2, <1>3, <3>2, MovedCounts
    <3> QED BY <3>1, <3>2
  <2> QED BY <2>1, <2>2 DEF Counts
<1>11. UniqueKeys'
  <2>1. \A a, b \in nodes' : src'[a] = src'[b] => a = b
    BY <1>2 DEF EssidsUpdate, UniqueKeys, idVars
  <2>2. \A x \in essids' : /\ x \in EAddr
                           /\ x # e => x \in essids /\ name'[x] = name[x]
                           /\ x = e => name'[x] = p.essid
    BY <1>1, <1>3
  <2> QED BY <1>4, <2>1, <2>2 DEF UniqueKeys
<1>12. Splits'
  <2> SUFFICES ASSUME NEW x \in EAddr, split'[x] PROVE num_nodes'[x] > 1
    BY DEF Splits
  <2>1. CASE x \in {e, essid[n]}
    BY <1>1, <2>1 DEF SplitMoved, SplitStatus
  <2>2. CASE x \notin {e, essid[n]}
    BY <1>1, <2>2 DEF SplitMoved, Counted, Splits
  <2> QED BY <2>1, <2>2
<1>13. ApLinks' /\ Teardown'
  BY <1>2 DEF EssidsUpdate, ApLinks, Teardown, apVars
<1> QED BY <1>7, <1>8, <1>9, <1>10, <1>11, <1>12, <1>13

-----------------------------------------------------------------------------
\* Teardown.
LEMMA NodesFreeInv == ASSUME IInv, NodesFree PROVE IInv'
<1> USE DEF IInv
<1>1. TypeOK'
  BY RegistryAssumption DEF NodesFree, Zeroed, TypeOK, netVars
<1>2. FreeClean' /\ ApLinks' /\ UniqueKeys' /\ Teardown'
  BY RegistryAssumption DEF NodesFree, Zeroed, FreeClean, ApLinks, UniqueKeys, Teardown, netVars
<1>3. NetLinks'
  <2>1. CASE phase = "running"
    BY <2>1 DEF NodesFree, NetLinks
  <2>2. CASE phase = "essids_freed"
    BY <2>2, RegistryAssumption DEF NodesFree, NetLinks, Teardown, FreeClean, netVars
  <2> QED BY <2>1, <2>2 DEF NodesFree
<1>4. Counts' /\ Splits'
  BY DEF NodesFree, Counts, Splits, netVars
<1> QED BY <1>1, <1>2, <1>3, <1>4

LEMMA EssidsFreeInv == ASSUME IInv, EssidsFree PROVE IInv'
<1> USE DEF IInv
<1>1. TypeOK'
  BY RegistryAssumption DEF EssidsFree, TypeOK, nodeVars, idVars, apVars
<1>2. FreeClean' /\ ApLinks' /\ UniqueKeys' /\ Teardown'
  BY DEF EssidsFree, FreeClean, ApLinks, UniqueKeys, Teardown, nodeVars, idVars, apVars
<1>3. NetLinks'
  <2>1. CASE phase = "running"
    BY <2>1 DEF EssidsFree, NetLinks
  <2>2. CASE phase = "nodes_freed"
    BY <2>2, RegistryAssumption DEF EssidsFree, NetLinks, Teardown, FreeClean, nodeVars
  <2> QED BY <2>1, <2>2 DEF EssidsFree
<1>4. Counts' /\ Splits'
  BY FS_EmptySet DEF EssidsFree, Counts, Splits
<1> QED BY <1>1, <1>2, <1>3, <1>4

-----------------------------------------------------------------------------
LEMMA NextInv == IInv /\ [Next]_vars => IInv'
<1> SUFFICES ASSUME IInv, [Next]_vars PROVE IInv'
  OBVIOUS
<1>1. CASE \E p \in Packets : NodeUpdate(p)
  BY <1>1, NodeUpdateInv
<1>2. CASE \E p \in Packets : NodeUpdateReceiver(p)
  BY <1>2, NodeUpdateReceiverInv
<1>3. CASE \E p \in Packets, n \in nodes : EssidsUpdate(p, n)
  BY <1>3, EssidsUpdateInv
<1>4. CASE \E n \in nodes : FindAp(n)
  BY <1>4, FindApInv
<1>5. CASE \E n \in nodes : EssidsRemoveNode(n)
  BY <1>5, EssidsRemoveNodeInv
<1>6. CASE \E gone \in SUBSET nodes : NodesTimeout(gone)
  BY <1>6, NodesTimeoutInv
<1>7. CASE NodesFree
  BY <1>7, NodesFreeInv
<1>8. CASE EssidsFree
  BY <1>8, EssidsFreeInv
<1>9. CASE UNCHANGED vars
  BY <1>9 DEF vars, nodeVars, netVars, idVars, apVars, IInv, TypeOK, FreeClean,
              ApLinks, NetLinks, Counts, UniqueKeys, Splits, Teardown
<1> QED
  BY <1>1, <1>2, <1>3, <1>4, <1>5, <1>6, <1>7, <1>8, <1>9 DEF Next

\* The inductive invariant holds in every state of the registries.
THEOREM Invariance == Spec => []IInv
BY InitInv, NextInv, PTL DEF Spec

\* The fields keep their types; num_nodes, unsigned in the code, never wraps.
THEOREM TypeCorrect == Spec => []TypeOK
BY Invariance, PTL DEF IInv

\* While the registries are in use no pointer leads to freed memory.
THEOREM PointersValid == Spec => []NoDangling
<1>1. IInv => NoDangling
  <2> SUFFICES ASSUME IInv, phase = "running" PROVE NoDangling
    BY DEF NoDangling
  <2> USE DEF IInv
  <2>1. nodes \subseteq Addr /\ essids \subseteq EAddr
    BY DEF TypeOK
  <2>2. \A a \in nodes : /\ ap_node[a] \in nodes \cup {NULL}
                         /\ essid[a] \in essids \cup {NULL}
    BY <2>1 DEF ApLinks, NetLinks
  <2>3. ASSUME NEW a \in nodes, NEW s \in ap_nodes[a] PROVE s \in nodes
    <3>1. s \in Addr /\ ap_node[s] = a
      BY <2>1 DEF ApLinks, TypeOK
    <3> QED BY <2>1, <3>1, RegistryAssumption DEF FreeClean
  <2>4. ASSUME NEW e \in essids, NEW n \in members[e] PROVE n \in nodes
    <3>1. n \in Addr /\ essid[n] = e
      BY <2>1 DEF NetLinks, TypeOK
    <3> QED BY <2>1, <3>1, RegistryAssumption DEF FreeClean
  <2> QED BY <2>2, <2>3, <2>4 DEF NoDangling
<1> QED BY <1>1, Invariance, PTL

\* Both ends of every link agree: stations with APs, members with ESSIDs.
THEOREM StationListsCorrect == Spec => []StationListsAgree
<1>1. IInv => StationListsAgree
  BY DEF IInv, TypeOK, ApLinks, StationListsAgree
<1> QED BY <1>1, Invariance, PTL

THEOREM MemberListsCorrect == Spec => []MemberListsAgree
<1>1. IInv => MemberListsAgree
  BY DEF IInv, TypeOK, NetLinks, MemberListsAgree
<1> QED BY <1>1, Invariance, PTL

\* The counters that decide when an ESSID is freed are exact.
THEOREM CountersCorrect == Spec => []CountExact
<1>1. IInv => CountExact
  BY DEF IInv, TypeOK, Counts, CountExact
<1> QED BY <1>1, Invariance, PTL

\* No address has two nodes and no name two ESSIDs.
THEOREM KeysCorrect == Spec => []UniqueKeys
BY Invariance, PTL DEF IInv

\* Only an ESSID with at least two members is ever marked as split.
THEOREM SplitCorrect == Spec => []SplitNeedsTwo
<1>1. IInv => SplitNeedsTwo
  BY DEF IInv, TypeOK, Counts, Splits, SplitNeedsTwo
<1> QED BY <1>1, Invariance, PTL

-----------------------------------------------------------------------------
\* A link is only broken by the end of its AP or by another BSSID: FindAp and
\* the timeout are the only steps that change ap_node of a node that stays.
THEOREM LinksKept == Spec => LinkKept
<1>1. IInv /\ [Next]_vars => LinkKeptStep
  <2> SUFFICES ASSUME IInv, [Next]_vars, NEW n \in nodes \cap nodes',
                      ap_node[n] # NULL, ap_node'[n] # ap_node[n]
               PROVE  ap_node[n] \notin nodes' \/ src[ap_node[n]] # bssid[n]
    BY DEF LinkKeptStep
  <2> USE DEF IInv
  <2>1. n \in Addr /\ ap_node[n] \in nodes
    BY DEF TypeOK, ApLinks
  <2>2. CASE ap_node' = ap_node
    BY <2>2
  <2>3. ASSUME NEW m \in nodes, FindAp(m)
        PROVE  src[ap_node[n]] # bssid[n]
    <3>1. PICK ap : ap_node' = [ap_node EXCEPT ![m] = ap]
      BY <2>3 DEF FindAp
    <3>2. n = m
      BY <2>1, <3>1 DEF TypeOK
    <3> QED BY <2>3, <3>2 DEF FindAp, NeedsAp
  <2>4. ASSUME NEW gone \in SUBSET nodes, NodesTimeout(gone)
        PROVE  ap_node[n] \notin nodes'
    <3>1. n \in Orphaned(gone) /\ n \notin gone
      BY <2>1, <2>4 DEF NodesTimeout
    <3>2. PICK g \in gone : n \in ap_nodes[g]
      BY <3>1 DEF Orphaned
    <3>3. ap_node[n] = g
      BY <2>1, <3>2 DEF ApLinks, TypeOK
    <3> QED BY <2>4, <3>3 DEF NodesTimeout
  <2>5. CASE NodesFree
    BY <2>5 DEF NodesFree
  <2> QED
    BY <2>2, <2>3, <2>4, <2>5 DEF Next, NodeUpdate, NodeUpdateReceiver, FileNode,
       EssidsUpdate, EssidsRemoveNode, EssidsFree, vars, nodeVars, apVars
<1> QED BY <1>1, Invariance, PTL DEF Spec, LinkKept

\* Whenever membership changes the split status is that of the new members.
THEOREM SplitsFresh == Spec => SplitFresh
<1>1. IInv /\ [Next]_vars => SplitFreshStep
  <2> SUFFICES ASSUME IInv, [Next]_vars, NEW e \in essids', phase' = "running",
                      members'[e] # members[e]
               PROVE  split'[e] = SplitStatus(members[e], num_nodes[e])'
    BY DEF SplitFreshStep
  <2> USE DEF IInv
  <2>1. essids \subseteq EAddr
    BY DEF TypeOK
  <2>2. CASE members' = members
    BY <2>2
  <2>3. ASSUME NEW p \in Packets, NEW n \in nodes, EssidsUpdate(p, n)
        PROVE  split'[e] = SplitStatus(members[e], num_nodes[e])'
    <3>1. PICK x \in EAddr : /\ essids' = (essids \cup {x}) \ Deserted(n, x)
                             /\ members' = Moved(n, x)
                             /\ num_nodes' = Counted(n, x)
                             /\ split' = SplitMoved(n, x)
      BY <2>3 DEF EssidsUpdate, ESlot, TypeOK
    <3>2. e \in EAddr
      BY <2>1, <3>1
    <3>3. e \in {x, essid[n]}
      BY <3>1, <3>2 DEF Moved
    <3>4. mode' = mode /\ bssid' = bssid
      BY <2>3 DEF EssidsUpdate, idVars
    <3> QED BY <3>1, <3>2, <3>3, <3>4 DEF SplitMoved, SplitStatus, InCell
  <2>4. ASSUME NEW L \in SUBSET nodes, LeaveEssid(L), phase = "running",
               \A a \in nodes \ L : mode'[a] = mode[a] /\ bssid'[a] = bssid[a]
        PROVE  split'[e] = SplitStatus(members[e], num_nodes[e])'
    <3>1. e \in EAddr
      BY <2>1, <2>4 DEF LeaveEssid
    <3>2. /\ members'[e] = members[e] \ Left(e, L) /\ num_nodes'[e] = Rest(e, L)
          /\ split'[e] = SplitWithout(e, L)
      BY <2>4, <3>1 DEF LeaveEssid
    <3>3. Left(e, L) # {}
      BY <3>2
    <3>4. \A a \in members'[e] : a \in nodes \ L
      <4> SUFFICES ASSUME NEW a \in members'[e] PROVE a \in nodes \ L
        OBVIOUS
      <4>1. a \in Addr /\ essid[a] = e /\ a \notin Left(e, L)
        BY <2>4, <3>1, <3>2 DEF NetLinks, TypeOK
      <4>2. a \notin L
        BY <4>1 DEF Left
      <4>3. a \in nodes
        BY <3>1, <4>1, RegistryAssumption DEF FreeClean
      <4> QED BY <4>2, <4>3
    <3>5. \A a \in members'[e] : mode'[a] = mode[a] /\ bssid'[a] = bssid[a]
      BY <2>4, <3>4
    <3>6. split'[e] = SplitStatus(members[e] \ Left(e, L), Rest(e, L))
      BY <3>2, <3>3 DEF SplitWithout
    <3> DEFINE S == members[e] \ Left(e, L)
    <3>7. SplitStatus(S, Rest(e, L)) <=>
            /\ num_nodes'[e] > 1
            /\ \E a, b \in members'[e] :
                  mode'[a] \cap {"AP", "PROBE"} = {} /\ mode'[b] \cap {"AP", "PROBE"} = {}
                  /\ bssid'[a] # bssid'[b]
      BY <3>2, <3>5 DEF SplitStatus, InCell
    <3> QED
      BY <3>6, <3>7 DEF SplitStatus, InCell
  <2>5. CASE \E n \in nodes : EssidsRemoveNode(n)
    BY <2>4, <2>5 DEF EssidsRemoveNode, idVars
  <2>6. CASE \E gone \in SUBSET nodes : NodesTimeout(gone)
    <3>1. PICK gone \in SUBSET nodes : NodesTimeout(gone)
      BY <2>6
    <3>2. \A a \in nodes \ gone : mode'[a] = mode[a] /\ bssid'[a] = bssid[a]
      BY <3>1 DEF NodesTimeout, Zeroed, TypeOK
    <3> QED BY <2>4, <3>1, <3>2 DEF NodesTimeout
  <2>7. CASE EssidsFree
    BY <2>7 DEF EssidsFree
  <2>8. CASE \/ \E p \in Packets : NodeUpdate(p) \/ NodeUpdateReceiver(p)
             \/ \E n \in nodes : FindAp(n)
             \/ NodesFree \/ UNCHANGED vars
    <3>1. members' = members
      BY <2>8 DEF NodeUpdate, NodeUpdateReceiver, FileNode, FindAp, NodesFree, vars, netVars
    <3> QED BY <2>2, <3>1
  <2> QED
    BY <2>3, <2>5, <2>6, <2>7, <2>8 DEF Next
<1> QED BY <1>1, Invariance, PTL DEF Spec, SplitFresh

-----------------------------------------------------------------------------
\* Registry implements Directory.  Lookup says what an entry of the directory
\* shows: the fields of the one node that has the address.

\* The network of node a, through its own pointer instead of the member lists.
NetShown(a) == IF phase = "running" /\ essid[a] # NULL THEN name[essid[a]] ELSE NoEssid

View ==
  /\ \A a \in nodes : /\ a \in Addr /\ src[a] \in Known /\ src[a] \in Mac
                      /\ Cell[src[a]] = bssid[a]
                      /\ Ap[src[a]] = ApMacOf(a)
                      /\ Net[src[a]] = NetShown(a)
  /\ \A m \in Mac \ Known : Cell[m] = ZeroMac /\ Ap[m] = ZeroMac /\ Net[m] = NoEssid
  /\ \A m \in Known : m \in Mac /\ \E a \in nodes : src[a] = m
  /\ Cell = [m \in Mac |-> Cell[m]] /\ Ap = [m \in Mac |-> Ap[m]]
  /\ Net = [m \in Mac |-> Net[m]]

LEMMA Lookup == IInv => View
<1> SUFFICES ASSUME IInv PROVE View
  OBVIOUS
<1> USE DEF IInv
<1>1. ASSUME NEW a \in nodes
      PROVE  /\ a \in Addr /\ src[a] \in Known /\ src[a] \in Mac
             /\ Cell[src[a]] = bssid[a]
             /\ Ap[src[a]] = ApMacOf(a)
             /\ Net[src[a]] = NetShown(a)
  <2>1. a \in Addr /\ src[a] \in Mac /\ src[a] \in Known
    BY DEF TypeOK, Known
  <2>2. NodesAt(src[a]) = {a} /\ OnlyOf(NodesAt(src[a])) = a
    BY DEF NodesAt, OnlyOf, UniqueKeys
  <2>3. Cell[src[a]] = bssid[a] /\ Ap[src[a]] = ApMacOf(a) /\ Net[src[a]] = NetOf(a)
    BY <2>1, <2>2 DEF Cell, Ap, Net
  <2>4. NetOf(a) = NetShown(a)
    <3> DEFINE E == {e \in essids : a \in members[e]}
    <3>1. CASE phase = "running" /\ essid[a] # NULL
      <4>1. E = {essid[a]} /\ OnlyOf(E) = essid[a]
        BY <2>1, <3>1 DEF NetLinks, TypeOK, OnlyOf
      <4> QED BY <3>1, <4>1 DEF NetOf, NetShown
    <3>2. CASE phase = "running" /\ essid[a] = NULL
      <4>1. E = {}
        BY <2>1, <3>2, RegistryAssumption DEF NetLinks, TypeOK
      <4> QED BY <3>2, <4>1 DEF NetOf, NetShown
    <3>3. CASE phase # "running"
      <4>1. E = {}
        BY <3>3 DEF Teardown, TypeOK
      <4> QED BY <3>3, <4>1 DEF NetOf, NetShown
    <3> QED BY <3>1, <3>2, <3>3
  <2> QED BY <2>1, <2>3, <2>4
<1>2. ASSUME NEW m \in Mac \ Known
      PROVE  Cell[m] = ZeroMac /\ Ap[m] = ZeroMac /\ Net[m] = NoEssid
  BY DEF Known, NodesAt, Cell, Ap, Net
<1>3. \A m \in Known : m \in Mac /\ \E a \in nodes : src[a] = m
  BY <1>1 DEF Known
<1>4. /\ Cell = [m \in Mac |-> Cell[m]] /\ Ap = [m \in Mac |-> Ap[m]]
      /\ Net = [m \in Mac |-> Net[m]]
  BY DEF Cell, Ap, Net
<1> QED BY <1>1, <1>2, <1>3, <1>4 DEF View

LEMMA LookupNext == IInv' => View'
BY Lookup, PTL

\* The directory after a step that leaves an aspect of every node as it was.
LEMMA SameAp ==
  ASSUME IInv, IInv', nodes \subseteq nodes',
         \A a \in nodes : src'[a] = src[a] /\ ap_node'[a] = ap_node[a],
         \A a \in nodes' \ nodes : ap_node'[a] = NULL
  PROVE  Ap' = Ap
<1>1. View /\ View'
  BY Lookup, LookupNext
<1>2. ASSUME NEW m \in Mac PROVE Ap'[m] = Ap[m]
  <2>1. CASE m \in Known
    <3>1. PICK a \in nodes : src[a] = m
      BY <1>1, <2>1 DEF View
    <3>2. Ap[m] = ApMacOf(a) /\ Ap'[m] = ApMacOf(a)'
      BY <1>1, <3>1 DEF View
    <3>3. ap_node[a] \in nodes \cup {NULL}
      BY <1>1 DEF View, IInv, ApLinks
    <3> QED BY <3>2, <3>3 DEF ApMacOf
  <2>2. CASE m \notin Known /\ m \in Known'
    <3>1. PICK a \in nodes' : src'[a] = m
      BY <1>1, <2>2 DEF View
    <3>2. a \notin nodes
      BY <2>2, <3>1 DEF Known
    <3> QED BY <1>1, <2>2, <3>1, <3>2 DEF View, ApMacOf
  <2>3. CASE m \notin Known /\ m \notin Known'
    BY <1>1, <2>3 DEF View
  <2> QED BY <2>1, <2>2, <2>3
<1> QED BY <1>1, <1>2 DEF View

LEMMA SameNet ==
  ASSUME IInv, IInv', nodes \subseteq nodes',
         \A a \in nodes : src'[a] = src[a] /\ NetShown(a)' = NetShown(a),
         \A a \in nodes' \ nodes : essid'[a] = NULL
  PROVE  Net' = Net
<1>1. View /\ View'
  BY Lookup, LookupNext
<1>2. ASSUME NEW m \in Mac PROVE Net'[m] = Net[m]
  <2>1. CASE m \in Known
    <3>1. PICK a \in nodes : src[a] = m
      BY <1>1, <2>1 DEF View
    <3>2. a \in nodes' /\ src'[a] = m /\ NetShown(a)' = NetShown(a)
      BY <3>1
    <3>3. Net[m] = NetShown(a)
      BY <1>1, <3>1 DEF View
    <3>4. Net'[m] = NetShown(a)'
      BY <1>1, <3>2 DEF View
    <3> QED BY <3>2, <3>3, <3>4
  <2>2. CASE m \notin Known /\ m \in Known'
    <3>1. PICK a \in nodes' : src'[a] = m
      BY <1>1, <2>2 DEF View
    <3>2. a \notin nodes
      BY <2>2, <3>1 DEF Known
    <3>3. Net'[m] = NetShown(a)'
      BY <1>1, <3>1 DEF View
    <3>4. NetShown(a)' = NoEssid
      BY <3>2 DEF NetShown
    <3> QED BY <1>1, <2>2, <3>3, <3>4 DEF View
  <2>3. CASE m \notin Known /\ m \notin Known'
    BY <1>1, <2>3 DEF View
  <2> QED BY <2>1, <2>2, <2>3
<1> QED BY <1>1, <1>2 DEF View

LEMMA FileNodeHears ==
  ASSUME IInv, IInv', NEW p \in Packets, NEW m \in Mac, NEW a \in Slot(m),
         NEW md, FileNode(a, m, p, md)
  PROVE  Dir!Hear(m, p.bssid) /\ p.bssid \in Mac
<1>1. View /\ View' /\ a \in Addr
  BY Lookup, LookupNext DEF Slot, IInv, TypeOK
<1>2. /\ nodes' = nodes \cup {a} /\ src' = [src EXCEPT ![a] = m]
      /\ bssid' = [bssid EXCEPT ![a] = BssidAfter(a, p)]
      /\ UNCHANGED <<ap_node, essid, name, phase>>
  BY DEF FileNode, apVars, netVars
<1>3. a \in nodes => src[a] = m
  BY DEF Slot
<1>4. \A b \in nodes : src'[b] = src[b]
  BY <1>1, <1>2, <1>3 DEF View
<1>5. src'[a] = m /\ bssid'[a] = BssidAfter(a, p)
  BY <1>1, <1>2 DEF IInv, TypeOK
<1>6. Known' = Known \cup {m}
  BY <1>2, <1>4, <1>5 DEF Known
<1>7. p.bssid \in Mac
  BY RegistryAssumption DEF Packet
<1>8. Ap' = Ap
  BY <1>1, <1>2, <1>4, SameAp DEF IInv, FreeClean
<1>9. Net' = Net
  BY <1>1, <1>2, <1>4, SameNet DEF IInv, FreeClean, NetShown
<1>10. \A b \in nodes : b # a => bssid'[b] = bssid[b] /\ src[b] # m
  <2>1. \A b \in nodes : src[b] = m => a = b
    BY DEF Slot, IInv, UniqueKeys
  <2> QED BY <1>1, <1>2, <2>1 DEF View
<1>11. Cell'[m] = BssidAfter(a, p)
  BY <1>1, <1>2, <1>5 DEF View
<1>12. ASSUME NEW k \in Mac, k # m PROVE Cell'[k] = Cell[k]
  <2>1. CASE k \in Known
    <3>1. PICK b \in nodes : src[b] = k
      BY <1>1, <2>1 DEF View
    <3>2. b # a
      BY <1>3, <1>12, <3>1
    <3>3. b \in nodes' /\ src'[b] = k /\ bssid'[b] = bssid[b]
      BY <1>2, <1>4, <1>10, <3>1, <3>2
    <3>4. Cell[k] = bssid[b] /\ Cell'[k] = bssid'[b]
      BY <1>1, <3>1, <3>3 DEF View
    <3> QED BY <3>3, <3>4
  <2>2. CASE k \notin Known
    BY <1>1, <1>6, <1>12, <2>2 DEF View
  <2> QED BY <2>1, <2>2
<1>13. Cell' = IF p.bssid = ZeroMac THEN Cell ELSE [Cell EXCEPT ![m] = p.bssid]
  <2>1. BssidAfter(a, p) = IF p.bssid = ZeroMac THEN Cell[m] ELSE p.bssid
    <3>1. bssid[a] = Cell[m]
      <4>1. CASE a \in nodes
        BY <1>1, <1>3, <4>1 DEF View
      <4>2. CASE a \notin nodes
        <5>1. m \notin Known
          BY <1>1, <4>2 DEF View, Slot
        <5> QED BY <1>1, <4>2, <5>1 DEF View, IInv, FreeClean
      <4> QED BY <4>1, <4>2
    <3> QED BY <3>1 DEF BssidAfter
  <2>2. \A k \in Mac : Cell'[k] = IF k = m THEN BssidAfter(a, p) ELSE Cell[k]
    BY <1>11, <1>12
  <2> QED BY <1>1, <2>1, <2>2 DEF View
<1> QED BY <1>6, <1>7, <1>8, <1>9, <1>13 DEF Dir!Hear

LEMMA FindApAssociates ==
  ASSUME IInv, IInv', NEW n \in nodes, FindAp(n)
  PROVE  Dir!Associate(src[n]) /\ src[n] \in Mac
<1>1. View /\ View'
  BY Lookup, LookupNext
<1>2. PICK ap \in ApOf(n) : ap_node' = [ap_node EXCEPT ![n] = ap]
  BY DEF FindAp
<1>3. UNCHANGED <<nodes, src, bssid, essid, essids, name, members, phase>>
  BY DEF FindAp, idVars, netVars
<1>4. Known' = Known /\ Cell' = Cell /\ Net' = Net
  <2>1. \A m \in Mac : NodesAt(m)' = NodesAt(m)
    BY <1>3 DEF NodesAt
  <2>2. \A a : NetOf(a)' = NetOf(a)
    BY <1>3 DEF NetOf
  <2> QED BY <1>3, <2>1, <2>2 DEF Known, Cell, Net
<1>5. src[n] \in Mac /\ src[n] \in Known /\ n \in Addr
  BY <1>1 DEF View
<1>6. ApMacOf(n)' = IF Cell[src[n]] \in Known THEN Cell[src[n]] ELSE ZeroMac
  <2>1. Cell[src[n]] = bssid[n] /\ ap_node'[n] = ap
    BY <1>1, <1>2, <1>5 DEF View, IInv, TypeOK
  <2>2. CASE bssid[n] \in Known
    <3>1. ap \in nodes /\ src[ap] = bssid[n] /\ ap # NULL
      BY <1>1, <2>2, RegistryAssumption DEF View, ApOf
    <3> QED BY <1>3, <2>1, <2>2, <3>1 DEF ApMacOf
  <2>3. CASE bssid[n] \notin Known
    <3>1. ap = NULL
      BY <2>3 DEF ApOf, Known
    <3> QED BY <2>1, <2>3, <3>1 DEF ApMacOf
  <2> QED BY <2>1, <2>2, <2>3
<1>7. ASSUME NEW m \in Mac, m # src[n] PROVE Ap'[m] = Ap[m]
  <2>1. CASE m \in Known
    <3>1. PICK a \in nodes : src[a] = m
      BY <1>1, <2>1 DEF View
    <3>2. ap_node'[a] = ap_node[a]
      BY <1>1, <1>2, <1>7, <3>1 DEF View, IInv, TypeOK
    <3>3. Ap[m] = ApMacOf(a) /\ Ap'[m] = ApMacOf(a)'
      BY <1>1, <1>3, <3>1 DEF View
    <3> QED BY <1>3, <3>2, <3>3 DEF ApMacOf
  <2>2. CASE m \notin Known
    BY <1>1, <1>4, <2>2 DEF View
  <2> QED BY <2>1, <2>2
<1>8. Ap'[src[n]] = ApMacOf(n)'
  BY <1>1, <1>3 DEF View
<1> QED BY <1>1, <1>4, <1>5, <1>6, <1>7, <1>8 DEF Dir!Associate, View

\* A step that leaves the nodes and their links to APs alone.
LEMMA OnlyNetsChange ==
  ASSUME UNCHANGED <<nodes, src, bssid, ap_node>>
  PROVE  Known' = Known /\ Cell' = Cell /\ Ap' = Ap
<1>1. \A m \in Mac : NodesAt(m)' = NodesAt(m)
  BY DEF NodesAt
<1>2. \A a : ApMacOf(a)' = ApMacOf(a)
  BY DEF ApMacOf
<1> QED BY <1>1, <1>2 DEF Known, Cell, Ap

LEMMA EssidsUpdateJoins ==
  ASSUME IInv, IInv', NEW p \in Packets, NEW n \in nodes, EssidsUpdate(p, n)
  PROVE  Dir!Join(src[n], p.essid) /\ src[n] \in Mac /\ p.essid \in EssidName
<1>1. View /\ View'
  BY Lookup, LookupNext
<1>2. PICK e \in ESlot(p.essid) :
        /\ essid' = [essid EXCEPT ![n] = e]
        /\ essids' = (essids \cup {e}) \ Deserted(n, e)
        /\ name' = [x \in EAddr |-> IF x = e THEN p.essid
                                    ELSE IF x \in Deserted(n, e) THEN NoEssid
                                    ELSE name[x]]
  BY DEF EssidsUpdate
<1>3. UNCHANGED <<nodes, src, bssid, ap_node>> /\ phase = "running" /\ phase' = "running"
  BY DEF EssidsUpdate, idVars, apVars
<1>4. Known' = Known /\ Cell' = Cell /\ Ap' = Ap
  BY <1>3, OnlyNetsChange
<1>5. n \in Addr /\ src[n] \in Mac /\ src[n] \in Known /\ e \in EAddr /\ e # NULL
  <2>1. n \in Addr /\ src[n] \in Mac /\ src[n] \in Known
    BY <1>1 DEF View
  <2>2. e \in EAddr
    BY DEF ESlot, IInv, TypeOK
  <2> QED
    BY <2>1, <2>2, RegistryAssumption
<1>6. p.essid \in EssidName
  BY RegistryAssumption DEF Packet, EssidsUpdate
<1>7. Net'[src[n]] = p.essid
  <2>1. NetShown(n)' = p.essid
    BY <1>2, <1>3, <1>5 DEF NetShown, IInv, TypeOK
  <2>2. n \in nodes' /\ src'[n] = src[n]
    BY <1>3
  <2>3. Net'[src'[n]] = NetShown(n)'
    BY <1>1, <2>2 DEF View
  <2> QED BY <2>1, <2>2, <2>3
<1>8. ASSUME NEW m \in Mac, m # src[n] PROVE Net'[m] = Net[m]
  <2>1. CASE m \in Known
    <3>1. PICK a \in nodes : src[a] = m
      BY <1>1, <2>1 DEF View
    <3>2. a \in Addr /\ a # n /\ essid'[a] = essid[a]
      BY <1>1, <1>2, <1>8, <3>1 DEF View, IInv, TypeOK
    <3>3. NetShown(a)' = NetShown(a)
      <4>1. CASE essid[a] = NULL
        BY <3>2, <4>1 DEF NetShown
      <4>2. CASE essid[a] # NULL
        <5>1. essid[a] \in essids' /\ essid[a] \in essids /\ essid[a] \in EAddr
          BY <1>3, <3>2, <4>2 DEF IInv, NetLinks, TypeOK
        <5>2. essid[a] \notin Deserted(n, e)
          BY <1>2, <5>1
        <5>3. essid[a] = e => name[e] = p.essid
          BY <5>1 DEF ESlot
        <5>4. name'[essid[a]] = name[essid[a]]
          BY <1>2, <5>1, <5>2, <5>3
        <5> QED BY <1>3, <3>2, <5>4 DEF NetShown
      <4> QED BY <4>1, <4>2
    <3>4. Net[m] = NetShown(a)
      BY <1>1, <3>1 DEF View
    <3>5. a \in nodes' /\ src'[a] = m
      BY <1>3, <3>1
    <3>6. Net'[m] = NetShown(a)'
      BY <1>1, <3>5 DEF View
    <3> QED BY <3>3, <3>4, <3>6
  <2>2. CASE m \notin Known
    BY <1>1, <1>4, <2>2 DEF View
  <2> QED BY <2>1, <2>2
<1>9. Net' = [Net EXCEPT ![src[n]] = p.essid]
  BY <1>1, <1>5, <1>7, <1>8 DEF View
<1> QED BY <1>4, <1>5, <1>6, <1>9 DEF Dir!Join

\* Nodes that stay while those of L leave their ESSIDs show the same network.
LEMMA LeaversOnly ==
  ASSUME IInv, IInv', NEW L \in SUBSET nodes, LeaveEssid(L),
         phase = "running", phase' = "running", NEW a \in nodes \ L
  PROVE  NetShown(a)' = NetShown(a)
<1>1. a \in Addr /\ essid'[a] = essid[a]
  BY DEF LeaveEssid, IInv, TypeOK
<1>2. CASE essid[a] = NULL
  BY <1>1, <1>2 DEF NetShown
<1>3. CASE essid[a] # NULL
  <2>1. essid[a] \in essids' /\ essid[a] \in EAddr
    BY <1>1, <1>3 DEF IInv, NetLinks, TypeOK
  <2>2. name'[essid[a]] = name[essid[a]]
    BY <2>1, LeaveEssidKeeps
  <2> QED BY <1>1, <2>2 DEF NetShown
<1> QED BY <1>2, <1>3

LEMMA EssidsRemoveNodeLeaves ==
  ASSUME IInv, IInv', NEW n \in nodes, EssidsRemoveNode(n)
  PROVE  Dir!Join(src[n], NoEssid) /\ src[n] \in Mac
<1>1. View /\ View'
  BY Lookup, LookupNext
<1>2. /\ UNCHANGED <<nodes, src, bssid, ap_node>> /\ phase = "running"
      /\ phase' = "running" /\ LeaveEssid({n})
  BY DEF EssidsRemoveNode, idVars, apVars
<1>3. Known' = Known /\ Cell' = Cell /\ Ap' = Ap
  BY <1>2, OnlyNetsChange
<1>4. n \in Addr /\ src[n] \in Mac /\ src[n] \in Known /\ n \in nodes' /\ src'[n] = src[n]
  BY <1>1, <1>2 DEF View
<1>5. Net'[src[n]] = NoEssid
  <2>1. NetShown(n)' = NoEssid
    BY <1>2, <1>4 DEF NetShown, LeaveEssid
  <2>2. Net'[src'[n]] = NetShown(n)'
    BY <1>1, <1>4 DEF View
  <2> QED BY <1>4, <2>1, <2>2
<1>6. ASSUME NEW m \in Mac, m # src[n] PROVE Net'[m] = Net[m]
  <2>1. CASE m \in Known
    <3>1. PICK a \in nodes : src[a] = m
      BY <1>1, <2>1 DEF View
    <3>2. NetShown(a)' = NetShown(a)
      BY <1>2, <1>6, <3>1, LeaversOnly
    <3>3. a \in nodes' /\ src'[a] = m
      BY <1>2, <3>1
    <3>4. Net[m] = NetShown(a) /\ Net'[m] = NetShown(a)'
      BY <1>1, <3>1, <3>3 DEF View
    <3> QED BY <3>2, <3>4
  <2>2. CASE m \notin Known
    BY <1>1, <1>3, <2>2 DEF View
  <2> QED BY <2>1, <2>2
<1>7. Net' = [Net EXCEPT ![src[n]] = NoEssid]
  BY <1>1, <1>4, <1>5, <1>6 DEF View
<1> QED BY <1>3, <1>4, <1>7 DEF Dir!Join

LEMMA NodesTimeoutForgets ==
  ASSUME IInv, IInv', NEW gone \in SUBSET nodes, NodesTimeout(gone)
  PROVE  Dir!Forget({src[g] : g \in gone}) /\ {src[g] : g \in gone} \in SUBSET Known
<1> DEFINE S == {src[g] : g \in gone}
<1>1. View /\ View'
  BY Lookup, LookupNext
<1>2. /\ nodes' = nodes \ gone /\ LeaveEssid(gone) /\ phase = "running"
      /\ phase' = "running"
  BY DEF NodesTimeout
<1>3. \A a \in nodes' : /\ a \in nodes /\ a \in Addr /\ a \notin gone
                        /\ src'[a] = src[a] /\ bssid'[a] = bssid[a]
                        /\ ap_node'[a] = IF a \in Orphaned(gone) THEN NULL ELSE ap_node[a]
  BY <1>1, <1>2 DEF NodesTimeout, Zeroed, View
<1>4. \A a \in nodes : a \in gone <=> src[a] \in S
  BY DEF IInv, UniqueKeys
<1>5. Known' = Known \ S
  BY <1>2, <1>3, <1>4 DEF Known
<1>6. ASSUME NEW m \in Mac
      PROVE  /\ Cell'[m] = IF m \in S THEN ZeroMac ELSE Cell[m]
             /\ Ap'[m] = IF m \in S \/ Ap[m] \in S THEN ZeroMac ELSE Ap[m]
             /\ Net'[m] = IF m \in S THEN NoEssid ELSE Net[m]
  <2>1. CASE m \in Known'
    <3>1. PICK a \in nodes' : src'[a] = m
      BY <1>1, <2>1 DEF View
    <3>2. a \in nodes /\ a \notin gone /\ a \in Addr /\ src[a] = m /\ m \notin S
      BY <1>3, <1>4, <3>1
    <3>3. /\ Cell[m] = bssid[a] /\ Cell'[m] = bssid'[a]
          /\ Ap[m] = ApMacOf(a) /\ Ap'[m] = ApMacOf(a)'
          /\ Net[m] = NetShown(a) /\ Net'[m] = NetShown(a)'
      BY <1>1, <3>1, <3>2 DEF View
    <3>4. NetShown(a)' = NetShown(a)
      BY <1>2, <3>2, LeaversOnly
    <3>5. a \in Orphaned(gone) <=> ap_node[a] \in gone
      <4>1. \A g \in gone : g \in Addr /\ (a \in ap_nodes[g] <=> ap_node[a] = g)
        BY <1>1, <3>2 DEF View, IInv, ApLinks
      <4> QED BY <3>2, <4>1 DEF Orphaned
    <3>6. ap_node[a] \in nodes \cup {NULL} /\ NULL \notin gone
      BY <1>1, <3>2, RegistryAssumption DEF View, IInv, ApLinks
    <3>7. Ap'[m] = IF Ap[m] \in S THEN ZeroMac ELSE Ap[m]
      <4>1. CASE ap_node[a] = NULL
        BY <1>3, <3>1, <3>3, <3>6, <4>1 DEF ApMacOf
      <4>2. CASE ap_node[a] \in gone
        BY <1>3, <1>4, <3>1, <3>3, <3>5, <3>6, <4>2 DEF ApMacOf
      <4>3. CASE ap_node[a] \in nodes \ gone
        <5>1. ap_node'[a] = ap_node[a] /\ ap_node[a] \in nodes' /\ ap_node[a] # NULL
          BY <1>1, <1>2, <1>3, <3>1, <3>5, <4>3, RegistryAssumption DEF View
        <5>2. Ap[m] = src[ap_node[a]] /\ Ap'[m] = src'[ap_node[a]]
          BY <3>3, <5>1 DEF ApMacOf
        <5> QED BY <1>3, <1>4, <4>3, <5>1, <5>2
      <4> QED BY <3>6, <4>1, <4>2, <4>3
    <3> QED BY <1>3, <3>1, <3>2, <3>3, <3>4, <3>7
  <2>2. CASE m \notin Known'
    BY <1>1, <1>5, <2>2 DEF View
  <2> QED BY <2>1, <2>2
<1>7. /\ Cell' = [m \in Mac |-> IF m \in S THEN ZeroMac ELSE Cell[m]]
      /\ Ap' = [m \in Mac |-> IF m \in S \/ Ap[m] \in S THEN ZeroMac ELSE Ap[m]]
      /\ Net' = [m \in Mac |-> IF m \in S THEN NoEssid ELSE Net[m]]
  BY <1>1, <1>6 DEF View
<1>8. S \in SUBSET Known
  BY DEF Known
<1> QED BY <1>5, <1>7, <1>8 DEF Dir!Forget

LEMMA NodesFreeForgets ==
  ASSUME IInv, IInv', NodesFree PROVE Dir!Forget(Known)
<1>1. View /\ View' /\ nodes' = {}
  BY Lookup, LookupNext DEF NodesFree
<1>2. Known' = {}
  BY <1>1 DEF Known
<1>3. ASSUME NEW m \in Mac
      PROVE  /\ Cell'[m] = ZeroMac /\ Ap'[m] = ZeroMac /\ Net'[m] = NoEssid
             /\ m \notin Known => Cell[m] = ZeroMac /\ Ap[m] = ZeroMac /\ Net[m] = NoEssid
             /\ Ap[m] \in Known \cup {ZeroMac}
  <2>1. \A a \in nodes : ApMacOf(a) \in Known \cup {ZeroMac}
    BY <1>1 DEF ApMacOf, Known, View, IInv, ApLinks
  <2>2. Ap[m] \in Known \cup {ZeroMac}
    BY <1>1, <2>1 DEF View
  <2> QED BY <1>1, <1>2, <2>2 DEF View
<1> QED BY <1>1, <1>2, <1>3 DEF View, Dir!Forget

LEMMA EssidsFreeForgetsNets ==
  ASSUME IInv, IInv', EssidsFree PROVE Dir!ForgetNets
<1>1. UNCHANGED <<nodes, src, bssid, ap_node>> /\ essids' = {}
  BY DEF EssidsFree, nodeVars, idVars, apVars
<1>2. Known' = Known /\ Cell' = Cell /\ Ap' = Ap
  BY <1>1, OnlyNetsChange
<1>3. \A a : NetOf(a)' = NoEssid
  BY <1>1 DEF NetOf
<1>4. Net' = [m \in Mac |-> NoEssid]
  BY <1>3 DEF Net
<1> QED BY <1>2, <1>4 DEF Dir!ForgetNets

\* The registries, linked by pointers, implement the directory of Directory:
\* every call is one operation on the entry it is about and touches no other.
THEOREM Refinement == Spec => ImplementsDirectory
<1>1. Init => Dir!Init
  <2> SUFFICES ASSUME Init PROVE Dir!Init
    OBVIOUS
  <2>1. \A m : NodesAt(m) = {}
    BY DEF Init, NodesAt
  <2> QED BY <2>1 DEF Init, Dir!Init, Known, Cell, Ap, Net
<1>2. IInv /\ IInv' /\ [Next]_vars => [Dir!Next]_(Dir!vars)
  <2> SUFFICES ASSUME IInv, IInv', [Next]_vars PROVE Dir!Next \/ UNCHANGED Dir!vars
    BY DEF Dir!vars
  <2>1. ASSUME NEW p \in Packets, NodeUpdate(p) PROVE Dir!Next
    <3>1. PICK a \in Slot(p.ta) : FileNode(a, p.ta, p, mode[a] \cup p.mode)
      BY <2>1 DEF NodeUpdate
    <3>2. p.ta \in Mac
      BY RegistryAssumption DEF Packet
    <3> QED BY <3>1, <3>2, FileNodeHears DEF Dir!Next
  <2>2. ASSUME NEW p \in Packets, NodeUpdateReceiver(p) PROVE Dir!Next
    <3>1. PICK a \in Slot(p.ra) : FileNode(a, p.ra, p, RxMode(p, mode[a]))
      BY <2>2 DEF NodeUpdateReceiver
    <3>2. p.ra \in Mac
      BY RegistryAssumption DEF Packet
    <3> QED BY <3>1, <3>2, FileNodeHears DEF Dir!Next
  <2>3. ASSUME NEW n \in nodes, FindAp(n) PROVE Dir!Next
    BY <2>3, FindApAssociates DEF Dir!Next
  <2>4. ASSUME NEW p \in Packets, NEW n \in nodes, EssidsUpdate(p, n) PROVE Dir!Next
    BY <2>4, EssidsUpdateJoins DEF Dir!Next
  <2>5. ASSUME NEW n \in nodes, EssidsRemoveNode(n) PROVE Dir!Next
    BY <2>5, EssidsRemoveNodeLeaves DEF Dir!Next
  <2>6. ASSUME NEW gone \in SUBSET nodes, NodesTimeout(gone) PROVE Dir!Next
    BY <2>6, NodesTimeoutForgets DEF Dir!Next
  <2>7. CASE NodesFree
    BY <2>7, NodesFreeForgets DEF Dir!Next
  <2>8. CASE EssidsFree
    BY <2>8, EssidsFreeForgetsNets DEF Dir!Next
  <2>9. CASE UNCHANGED vars
    <3>1. \A m : NodesAt(m)' = NodesAt(m)
      BY <2>9 DEF vars, nodeVars, idVars, NodesAt
    <3>2. \A a : ApMacOf(a)' = ApMacOf(a) /\ NetOf(a)' = NetOf(a)
      BY <2>9 DEF vars, nodeVars, idVars, apVars, netVars, ApMacOf, NetOf
    <3> QED BY <2>9, <3>1, <3>2 DEF Dir!vars, Known, Cell, Ap, Net, vars, nodeVars, idVars
  <2> QED
    BY <2>1, <2>2, <2>3, <2>4, <2>5, <2>6, <2>7, <2>8, <2>9 DEF Next
<1> QED BY <1>1, <1>2, Invariance, PTL DEF Spec, ImplementsDirectory, Dir!Spec

-----------------------------------------------------------------------------
\* The sweep of uwifi_nodes_timeout, node by node.  Swept is the heap without any set of
\* nodes; evicting one node more is shown to lead from one such heap to the next, field
\* by field, so that the loop passes through them whatever the order of the list.

\* The heap after the nodes of D are evicted, all at once.
Swept(D) ==
  [nodes |-> nodes \ D,
   src |-> [a \in Addr |-> IF a \in D THEN ZeroMac ELSE src[a]],
   bssid |-> [a \in Addr |-> IF a \in D THEN ZeroMac ELSE bssid[a]],
   mode |-> [a \in Addr |-> IF a \in D THEN {} ELSE mode[a]],
   ap_node |-> [a \in Addr |-> IF a \in Orphaned(D) THEN NULL ELSE ap_node[a]],
   ap_nodes |-> [a \in Addr |-> IF a \in D THEN {}
                                ELSE ap_nodes[a] \ {g \in D : ap_node[g] = a}],
   essid |-> [a \in Addr |-> IF a \in D THEN NULL ELSE essid[a]],
   essids |-> essids \ Emptied(D),
   name |-> [e \in EAddr |-> IF e \in Emptied(D) THEN NoEssid ELSE name[e]],
   members |-> [e \in EAddr |-> members[e] \ Left(e, D)],
   num_nodes |-> [e \in EAddr |-> Rest(e, D)],
   split |-> [e \in EAddr |-> SplitWithout(e, D)]]

LEMMA TimeoutIsSwept ==
  ASSUME NEW gone \in SUBSET nodes, NodesTimeout(gone)
  PROVE  Heap' = Swept(gone)
BY DEF NodesTimeout, Heap, Swept, Zeroed, LeaveEssid

LEMMA NothingSwept ==
  ASSUME IInv
  PROVE  Heap = Swept({})
<1>1. \A e : Left(e, {}) = {}
  BY DEF Left
<1>2. Cardinality({}) = 0
  BY FS_EmptySet
<1>3. Orphaned({}) = {} /\ Emptied({}) = {}
  BY <1>1 DEF Orphaned, Emptied
<1>4. \A e \in EAddr : Rest(e, {}) = num_nodes[e]
  <2>1. \A e \in EAddr : num_nodes[e] \in Nat
    BY DEF IInv, TypeOK
  <2> QED
    BY <1>1, <1>2, <2>1 DEF Rest
<1>5. \A e : SplitWithout(e, {}) = split[e]
  BY <1>1 DEF SplitWithout
<1>6. Swept({}) =
        [nodes |-> nodes, src |-> [a \in Addr |-> src[a]], bssid |-> [a \in Addr |-> bssid[a]],
         mode |-> [a \in Addr |-> mode[a]], ap_node |-> [a \in Addr |-> ap_node[a]],
         ap_nodes |-> [a \in Addr |-> ap_nodes[a]], essid |-> [a \in Addr |-> essid[a]],
         essids |-> essids, name |-> [e \in EAddr |-> name[e]],
         members |-> [e \in EAddr |-> members[e]],
         num_nodes |-> [e \in EAddr |-> num_nodes[e]],
         split |-> [e \in EAddr |-> split[e]]]
  BY <1>1, <1>3, <1>4, <1>5 DEF Swept
<1> QED
  BY <1>6 DEF Heap, IInv, TypeOK

\* The fields of a heap, and which of them a step of the loop leaves alone.
HeapFields == {"nodes", "src", "bssid", "mode", "ap_node", "ap_nodes", "essid", "essids",
               "name", "members", "num_nodes", "split"}
NetFields == {"essid", "essids", "name", "members", "num_nodes", "split"}
IsHeap(h) == DOMAIN h = HeapFields /\ h = [x \in HeapFields |-> h[x]]
Touches(h, q, fields) == IsHeap(q) /\ \A x \in HeapFields \ fields : q[x] = h[x]

\* n is unlinked from its AP; from its ESSID; from its stations; and is freed.
ApLeft(h, q, n) ==
  /\ h.ap_node[n] = NULL => q.ap_nodes = h.ap_nodes /\ q.ap_node = h.ap_node
  /\ h.ap_node[n] # NULL =>
       /\ q.ap_nodes = [h.ap_nodes EXCEPT ![h.ap_node[n]] = h.ap_nodes[h.ap_node[n]] \ {n}]
       /\ q.ap_node = [h.ap_node EXCEPT ![n] = NULL]
NetLeft(h, q, n, e, rest, k) ==
  /\ q.essid = [h.essid EXCEPT ![n] = NULL]
  /\ q.members = [h.members EXCEPT ![e] = rest]
  /\ q.num_nodes = [h.num_nodes EXCEPT ![e] = k]
  /\ k = 0 => /\ q.essids = h.essids \ {e}
              /\ q.name = [h.name EXCEPT ![e] = NoEssid]
              /\ q.split = [h.split EXCEPT ![e] = FALSE]
  /\ k # 0 => /\ q.essids = h.essids /\ q.name = h.name
              /\ q.split = [h.split EXCEPT ![e] = SplitStatus(rest, k)]
StationsLeft(h, q, n) ==
  /\ q.ap_nodes = [h.ap_nodes EXCEPT ![n] = {}]
  /\ q.ap_node = [a \in Addr |-> IF a \in h.ap_nodes[n] THEN NULL ELSE h.ap_node[a]]
Freed(h, q, n) ==
  /\ q.src = [h.src EXCEPT ![n] = ZeroMac]
  /\ q.bssid = [h.bssid EXCEPT ![n] = ZeroMac]
  /\ q.mode = [h.mode EXCEPT ![n] = {}]

LEMMA UnlinkFromApDoes ==
  ASSUME NEW h, IsHeap(h), NEW n
  PROVE  /\ Touches(h, UnlinkFromAp(h, n), {"ap_node", "ap_nodes"})
         /\ ApLeft(h, UnlinkFromAp(h, n), n)
BY DEF UnlinkFromAp, HeapFields, IsHeap, Touches, ApLeft

LEMMA RemoveNodeDoes ==
  ASSUME NEW h, IsHeap(h), NEW n
  PROVE  /\ Touches(h, RemoveNode(h, n), NetFields)
         /\ h.essid[n] = NULL => RemoveNode(h, n) = h
         /\ h.essid[n] # NULL =>
              NetLeft(h, RemoveNode(h, n), n, h.essid[n],
                      h.members[h.essid[n]] \ {n}, h.num_nodes[h.essid[n]] - 1)
<1> DEFINE e == h.essid[n]
           rest == h.members[e] \ {n}
           k == h.num_nodes[e] - 1
           out == [h EXCEPT !.essid[n] = NULL, !.members[e] = rest, !.num_nodes[e] = k]
           q == RemoveNode(h, n)
<1>1. CASE e = NULL
  <2>1. q = h
    BY <1>1 DEF RemoveNode
  <2> QED
    BY <1>1, <2>1 DEF Touches
<1>2. CASE e # NULL
  <2>1. /\ k = 0 => q = [out EXCEPT !.essids = h.essids \ {e}, !.name[e] = NoEssid,
                                    !.split[e] = FALSE]
        /\ k # 0 => q = [out EXCEPT !.split[e] = SplitStatus(rest, k)]
    BY <1>2 DEF RemoveNode, IsHeap, HeapFields
  <2> HIDE DEF q, k, rest
  <2>2. /\ IsHeap(out) /\ \A x \in HeapFields \ {"essid", "members", "num_nodes"} : out[x] = h[x]
        /\ out.essid = [h.essid EXCEPT ![n] = NULL]
        /\ out.members = [h.members EXCEPT ![e] = rest]
        /\ out.num_nodes = [h.num_nodes EXCEPT ![e] = k]
    BY DEF IsHeap, HeapFields
  <2> HIDE DEF out, e
  <2>3. CASE k = 0
    <3>1. /\ IsHeap(q) /\ \A x \in HeapFields \ {"essids", "name", "split"} : q[x] = out[x]
          /\ q.essids = h.essids \ {e} /\ q.name = [out.name EXCEPT ![e] = NoEssid]
          /\ q.split = [out.split EXCEPT ![e] = FALSE]
      BY <2>1, <2>2, <2>3 DEF IsHeap, HeapFields
    <3>2. Touches(h, q, NetFields)
      BY <2>2, <3>1 DEF Touches, NetFields
    <3>3. NetLeft(h, q, n, e, rest, k)
      BY <2>2, <2>3, <3>1 DEF NetLeft, HeapFields
    <3> QED
      BY <1>2, <3>2, <3>3 DEF q, e, rest, k
  <2>4. CASE k # 0
    <3>1. /\ IsHeap(q) /\ \A x \in HeapFields \ {"split"} : q[x] = out[x]
          /\ q.split = [out.split EXCEPT ![e] = SplitStatus(rest, k)]
      BY <2>1, <2>2, <2>4 DEF IsHeap, HeapFields
    <3>2. Touches(h, q, NetFields)
      BY <2>2, <3>1 DEF Touches, NetFields
    <3>3. NetLeft(h, q, n, e, rest, k)
      BY <2>2, <2>4, <3>1 DEF NetLeft, HeapFields
    <3> QED
      BY <1>2, <3>2, <3>3 DEF q, e, rest, k
  <2> QED
    BY <2>3, <2>4
<1> QED
  BY <1>1, <1>2

LEMMA UnlinkStationsDoes ==
  ASSUME NEW h, IsHeap(h), NEW n
  PROVE  /\ Touches(h, UnlinkStations(h, n), {"ap_node", "ap_nodes"})
         /\ StationsLeft(h, UnlinkStations(h, n), n)
BY DEF UnlinkStations, HeapFields, IsHeap, Touches, StationsLeft

LEMMA FreeNodeDoes ==
  ASSUME NEW h, IsHeap(h), NEW n
  PROVE  /\ Touches(h, FreeNode(h, n), {"src", "bssid", "mode"})
         /\ Freed(h, FreeNode(h, n), n)
BY DEF FreeNode, HeapFields, IsHeap, Touches, Freed

\* What the eviction of n does to the heap.
Evicted(h, q, n) ==
  /\ IsHeap(q) /\ q.nodes = h.nodes \ {n} /\ Freed(h, q, n)
  /\ q.ap_node = [a \in Addr |-> IF a = n \/ a \in h.ap_nodes[n] THEN NULL ELSE h.ap_node[a]]
  /\ q.ap_nodes = [a \in Addr |-> IF a = n THEN {}
                                  ELSE IF a = h.ap_node[n] THEN h.ap_nodes[a] \ {n}
                                  ELSE h.ap_nodes[a]]
  /\ h.essid[n] = NULL => \A x \in NetFields : q[x] = h[x]
  /\ h.essid[n] # NULL => NetLeft(h, q, n, h.essid[n], h.members[h.essid[n]] \ {n},
                                  h.num_nodes[h.essid[n]] - 1)

LEMMA EvictDoes ==
  ASSUME NEW h, IsHeap(h), NEW n \in Addr,
         h.ap_node \in [Addr -> Addr \cup {NULL}], h.ap_nodes \in [Addr -> SUBSET Addr]
  PROVE  Evicted(h, Evict(h, n), n)
<1> DEFINE h0 == [h EXCEPT !.nodes = @ \ {n}]
           h1 == UnlinkFromAp(h0, n)
           h2 == RemoveNode(h1, n)
           h3 == UnlinkStations(h2, n)
           q == Evict(h, n)
           e == h.essid[n]
           rest == h.members[e] \ {n}
           k == h.num_nodes[e] - 1
<1>1. Touches(h, h0, {"nodes"}) /\ h0.nodes = h.nodes \ {n}
  BY DEF HeapFields, IsHeap, Touches
<1>2. q = FreeNode(h3, n)
  BY DEF Evict
<1> HIDE DEF h0, q
<1>3. Touches(h0, h1, {"ap_node", "ap_nodes"}) /\ ApLeft(h0, h1, n)
  BY <1>1, UnlinkFromApDoes DEF Touches
<1>4. /\ Touches(h1, h2, NetFields)
      /\ h1.essid[n] = NULL => h2 = h1
      /\ h1.essid[n] # NULL =>
           NetLeft(h1, h2, n, h1.essid[n], h1.members[h1.essid[n]] \ {n},
                   h1.num_nodes[h1.essid[n]] - 1)
  BY <1>3, RemoveNodeDoes DEF Touches
<1>5. Touches(h2, h3, {"ap_node", "ap_nodes"}) /\ StationsLeft(h2, h3, n)
  BY <1>4, UnlinkStationsDoes DEF Touches
<1>6. Touches(h3, q, {"src", "bssid", "mode"}) /\ Freed(h3, q, n)
  BY <1>2, <1>5, FreeNodeDoes DEF Touches
<1> HIDE DEF h1, h2, h3
<1>7. /\ IsHeap(q)
      /\ q.nodes = h0.nodes
      /\ h3.src = h.src /\ h3.bssid = h.bssid /\ h3.mode = h.mode
      /\ h0.ap_node = h.ap_node /\ h0.ap_nodes = h.ap_nodes
      /\ h2.ap_node = h1.ap_node /\ h2.ap_nodes = h1.ap_nodes
      /\ q.ap_node = h3.ap_node /\ q.ap_nodes = h3.ap_nodes
      /\ \A x \in NetFields : h1[x] = h[x] /\ q[x] = h2[x]
  BY <1>1, <1>3, <1>4, <1>5, <1>6 DEF Touches, HeapFields, NetFields
<1>8. Freed(h, q, n)
  BY <1>6, <1>7 DEF Freed
<1>9. q.ap_node = [a \in Addr |-> IF a = n \/ a \in h.ap_nodes[n] THEN NULL ELSE h.ap_node[a]]
  <2>1. CASE h.ap_node[n] = NULL
    BY <1>3, <1>5, <1>7, <2>1 DEF ApLeft, StationsLeft
  <2>2. CASE h.ap_node[n] # NULL
    BY <1>3, <1>5, <1>7, <2>2 DEF ApLeft, StationsLeft
  <2> QED
    BY <2>1, <2>2
<1>10. q.ap_nodes = [a \in Addr |-> IF a = n THEN {}
                                    ELSE IF a = h.ap_node[n] THEN h.ap_nodes[a] \ {n}
                                    ELSE h.ap_nodes[a]]
  <2>1. q.ap_nodes = [h1.ap_nodes EXCEPT ![n] = {}]
    BY <1>5, <1>7 DEF StationsLeft
  <2>2. CASE h.ap_node[n] = NULL
    <3>1. h1.ap_nodes = h.ap_nodes
      BY <1>3, <1>7, <2>2 DEF ApLeft
    <3> QED
      BY <2>1, <2>2, <3>1, RegistryAssumption
  <2>3. CASE h.ap_node[n] # NULL
    <3>1. h1.ap_nodes = [h.ap_nodes EXCEPT ![h.ap_node[n]] = h.ap_nodes[h.ap_node[n]] \ {n}]
      BY <1>3, <1>7, <2>3 DEF ApLeft
    <3> QED
      BY <2>1, <2>3, <3>1
  <2> QED
    BY <2>2, <2>3
<1>11. h1.essid = h.essid /\ h1.members = h.members /\ h1.num_nodes = h.num_nodes
       /\ h1.essids = h.essids /\ h1.name = h.name /\ h1.split = h.split
       /\ q.essid = h2.essid /\ q.members = h2.members /\ q.num_nodes = h2.num_nodes
       /\ q.essids = h2.essids /\ q.name = h2.name /\ q.split = h2.split
  BY <1>7 DEF NetFields
<1>12. h.essid[n] = NULL => \A x \in NetFields : q[x] = h[x]
  BY <1>4, <1>7, <1>11
<1>13. h.essid[n] # NULL => NetLeft(h, q, n, e, rest, k)
  BY <1>4, <1>11 DEF NetLeft
<1> QED
  BY <1>1, <1>7, <1>8, <1>9, <1>10, <1>12, <1>13 DEF q, Evicted

LEMMA SameHeap ==
  ASSUME NEW h, IsHeap(h), NEW q, IsHeap(q),
         h.nodes = q.nodes, h.src = q.src, h.bssid = q.bssid, h.mode = q.mode,
         h.ap_node = q.ap_node, h.ap_nodes = q.ap_nodes, h.essid = q.essid,
         h.essids = q.essids, h.name = q.name, h.members = q.members,
         h.num_nodes = q.num_nodes, h.split = q.split
  PROVE  h = q
<1>1. \A x \in HeapFields : h[x] = q[x]
  BY DEF HeapFields
<1> QED
  BY <1>1 DEF IsHeap

\* One more node is evicted from a heap without those of D.
LEMMA EvictSweeps ==
  ASSUME IInv, phase = "running", NEW D \in SUBSET nodes, NEW n \in nodes \ D
  PROVE  Evict(Swept(D), n) = Swept(D \cup {n})
<1> DEFINE h == Swept(D)
           q == Evict(h, n)
           DD == D \cup {n}
           t == Swept(DD)
           e == essid[n]
<1>1. /\ n \in Addr /\ n \notin D /\ D \subseteq Addr /\ nodes \subseteq Addr
      /\ src \in [Addr -> Mac] /\ bssid \in [Addr -> Mac] /\ mode \in [Addr -> SUBSET Modes]
      /\ ap_node \in [Addr -> Addr \cup {NULL}] /\ ap_nodes \in [Addr -> SUBSET Addr]
      /\ essid \in [Addr -> EAddr \cup {NULL}] /\ essids \subseteq EAddr
      /\ members \in [EAddr -> SUBSET Addr] /\ num_nodes \in [EAddr -> Nat]
      /\ \A a, s \in Addr : s \in ap_nodes[a] <=> ap_node[s] = a
      /\ NULL \notin Addr /\ NULL \notin EAddr
  BY RegistryAssumption DEF IInv, TypeOK, ApLinks
<1>2. IsHeap(h) /\ IsHeap(t)
  BY DEF Swept, IsHeap, HeapFields
<1>3. /\ h.nodes = nodes \ D
      /\ h.src = [a \in Addr |-> IF a \in D THEN ZeroMac ELSE src[a]]
      /\ h.bssid = [a \in Addr |-> IF a \in D THEN ZeroMac ELSE bssid[a]]
      /\ h.mode = [a \in Addr |-> IF a \in D THEN {} ELSE mode[a]]
      /\ h.ap_node = [a \in Addr |-> IF a \in Orphaned(D) THEN NULL ELSE ap_node[a]]
      /\ h.ap_nodes = [a \in Addr |-> IF a \in D THEN {}
                                      ELSE ap_nodes[a] \ {g \in D : ap_node[g] = a}]
  BY DEF Swept
<1>4. /\ h.essid = [a \in Addr |-> IF a \in D THEN NULL ELSE essid[a]]
      /\ h.essids = essids \ Emptied(D)
      /\ h.name = [x \in EAddr |-> IF x \in Emptied(D) THEN NoEssid ELSE name[x]]
      /\ h.members = [x \in EAddr |-> members[x] \ Left(x, D)]
      /\ h.num_nodes = [x \in EAddr |-> Rest(x, D)]
      /\ h.split = [x \in EAddr |-> SplitWithout(x, D)]
  BY DEF Swept
<1>5. /\ t.nodes = nodes \ DD
      /\ t.src = [a \in Addr |-> IF a \in DD THEN ZeroMac ELSE src[a]]
      /\ t.bssid = [a \in Addr |-> IF a \in DD THEN ZeroMac ELSE bssid[a]]
      /\ t.mode = [a \in Addr |-> IF a \in DD THEN {} ELSE mode[a]]
      /\ t.ap_node = [a \in Addr |-> IF a \in Orphaned(DD) THEN NULL ELSE ap_node[a]]
      /\ t.ap_nodes = [a \in Addr |-> IF a \in DD THEN {}
                                      ELSE ap_nodes[a] \ {g \in DD : ap_node[g] = a}]
  BY DEF Swept
<1>6. /\ t.essid = [a \in Addr |-> IF a \in DD THEN NULL ELSE essid[a]]
      /\ t.essids = essids \ Emptied(DD)
      /\ t.name = [x \in EAddr |-> IF x \in Emptied(DD) THEN NoEssid ELSE name[x]]
      /\ t.members = [x \in EAddr |-> members[x] \ Left(x, DD)]
      /\ t.num_nodes = [x \in EAddr |-> Rest(x, DD)]
      /\ t.split = [x \in EAddr |-> SplitWithout(x, DD)]
  BY DEF Swept
<1> HIDE DEF h, t
<1>7. h.ap_node \in [Addr -> Addr \cup {NULL}] /\ h.ap_nodes \in [Addr -> SUBSET Addr]
  BY <1>1, <1>3
<1>8. Evicted(h, q, n)
  BY <1>1, <1>2, <1>7, EvictDoes
<1> HIDE DEF q
<1>8b. IsHeap(q)
  BY <1>8 DEF Evicted
<1>9. q.nodes = t.nodes /\ q.src = t.src /\ q.bssid = t.bssid /\ q.mode = t.mode
  <2>1. n \in Addr
    BY <1>1
  <2>2. q.nodes = t.nodes
    BY <1>3, <1>5, <1>8 DEF Evicted
  <2>3. q.src = [h.src EXCEPT ![n] = ZeroMac] /\ q.bssid = [h.bssid EXCEPT ![n] = ZeroMac]
        /\ q.mode = [h.mode EXCEPT ![n] = {}]
    BY <1>8 DEF Evicted, Freed
  <2>4. q.src = t.src
    BY <1>3, <1>5, <2>1, <2>3
  <2>5. q.bssid = t.bssid
    BY <1>3, <1>5, <2>1, <2>3
  <2>6. q.mode = t.mode
    <3> DEFINE z == {}
    <3>1. /\ h.mode = [a \in Addr |-> IF a \in D THEN z ELSE mode[a]]
          /\ t.mode = [a \in Addr |-> IF a \in DD THEN z ELSE mode[a]]
          /\ q.mode = [h.mode EXCEPT ![n] = z]
      BY <1>3, <1>5, <2>3
    <3> HIDE DEF z
    <3> QED
      BY <2>1, <3>1
  <2> QED
    BY <2>2, <2>4, <2>5, <2>6
<1>10. q.ap_node = t.ap_node
  <2>1. ASSUME NEW a \in Addr
        PROVE  a \in Orphaned(DD) <=> a = n \/ a \in Orphaned(D) \/ a \in h.ap_nodes[n]
    <3>1. a \in Orphaned(DD) <=> a \in DD \/ \E g \in DD : a \in ap_nodes[g]
      BY DEF Orphaned
    <3>2. a \in Orphaned(D) <=> a \in D \/ \E g \in D : a \in ap_nodes[g]
      BY DEF Orphaned
    <3>3. h.ap_nodes[n] = ap_nodes[n] \ {g \in D : ap_node[g] = n}
      BY <1>1, <1>3
    <3> QED
      BY <1>1, <3>1, <3>2, <3>3
  <2>2. \A a \in Addr : h.ap_node[a] = IF a \in Orphaned(D) THEN NULL ELSE ap_node[a]
    BY <1>3
  <2>3. \A a \in Addr : (IF a = n \/ a \in h.ap_nodes[n] THEN NULL ELSE h.ap_node[a])
                          = (IF a \in Orphaned(DD) THEN NULL ELSE ap_node[a])
    BY <2>1, <2>2
  <2>4. q.ap_node = [a \in Addr |-> IF a = n \/ a \in h.ap_nodes[n] THEN NULL ELSE h.ap_node[a]]
    BY <1>8 DEF Evicted
  <2> QED
    <3>1. t.ap_node = [a \in Addr |-> IF a \in Orphaned(DD) THEN NULL ELSE ap_node[a]]
      BY <1>5
    <3> QED
      BY <2>3, <2>4, <3>1
<1>11. q.ap_nodes = t.ap_nodes
  <2>1. ASSUME NEW a \in Addr, a \notin DD
        PROVE  q.ap_nodes[a] = ap_nodes[a] \ {g \in DD : ap_node[g] = a}
    <3>1. h.ap_nodes[a] = ap_nodes[a] \ {g \in D : ap_node[g] = a}
      BY <1>3, <2>1
    <3>2. q.ap_nodes[a] = IF a = h.ap_node[n] THEN h.ap_nodes[a] \ {n} ELSE h.ap_nodes[a]
      BY <1>8, <2>1 DEF Evicted
    <3>3. CASE ap_node[n] = a
      <4>1. h.ap_node[n] = a
        BY <1>1, <1>3, <2>1, <3>3 DEF Orphaned
      <4> QED
        BY <3>1, <3>2, <3>3, <4>1
    <3>4. CASE ap_node[n] # a
      <4>1. h.ap_node[n] # a
        BY <1>1, <1>3, <2>1, <3>4
      <4> QED
        BY <3>1, <3>2, <3>4, <4>1
    <3> QED
      BY <3>3, <3>4
  <2>2. ASSUME NEW a \in DD
        PROVE  q.ap_nodes[a] = {}
    BY <1>1, <1>3, <1>8, <2>2 DEF Evicted
  <2>3. q.ap_nodes = [a \in Addr |-> q.ap_nodes[a]]
    BY <1>8 DEF Evicted
  <2>4. t.ap_nodes = [a \in Addr |-> q.ap_nodes[a]]
    BY <1>5, <2>1, <2>2
  <2> QED
    BY <2>3, <2>4
<1>12. h.essid[n] = e
  BY <1>1, <1>4
<1>13. q.essid = t.essid
  <2>1. CASE e = NULL
    <3>1. q.essid = h.essid
      BY <1>8, <1>12, <2>1 DEF Evicted, NetFields
    <3> QED
      BY <1>4, <1>6, <2>1, <3>1
  <2>2. CASE e # NULL
    <3>1. q.essid = [h.essid EXCEPT ![n] = NULL]
      BY <1>8, <1>12, <2>2 DEF Evicted, NetLeft
    <3> QED
      BY <1>1, <1>4, <1>6, <3>1
  <2> QED
    BY <2>1, <2>2
<1>14. /\ \A x \in EAddr : x # e => Left(x, DD) = Left(x, D)
       /\ e # NULL => Left(e, DD) = Left(e, D) \cup {n} /\ n \notin Left(e, D)
  BY <1>1 DEF Left
<1>15. /\ \A x \in EAddr : x # e => /\ Rest(x, DD) = Rest(x, D)
                                    /\ SplitWithout(x, DD) = SplitWithout(x, D)
       /\ \A x \in essids : x # e => (x \in Emptied(DD) <=> x \in Emptied(D))
  BY <1>1, <1>14 DEF Rest, SplitWithout, Emptied
<1>16. ASSUME e = NULL PROVE q = t
  <2>1. Emptied(DD) = Emptied(D)
    <3>1. Emptied(DD) \subseteq essids /\ Emptied(D) \subseteq essids
      BY DEF Emptied
    <3>2. \A x \in essids : x # e
      BY <1>1, <1>16
    <3> QED
      BY <1>15, <3>1, <3>2
  <2>2. q.members = h.members /\ q.num_nodes = h.num_nodes /\ q.essids = h.essids
        /\ q.name = h.name /\ q.split = h.split
    BY <1>8, <1>12, <1>16 DEF Evicted, NetFields
  <2>3. q.members = t.members /\ q.num_nodes = t.num_nodes /\ q.essids = t.essids
        /\ q.name = t.name /\ q.split = t.split
    <3>1. \A x \in EAddr : x # e
      BY <1>1, <1>16
    <3>2. \A x \in EAddr : /\ Left(x, DD) = Left(x, D) /\ Rest(x, DD) = Rest(x, D)
                           /\ SplitWithout(x, DD) = SplitWithout(x, D)
      BY <1>14, <1>15, <3>1
    <3>3. h.members = t.members
      <4>0. h.members = [x \in EAddr |-> members[x] \ Left(x, D)] /\ t.members = [x \in EAddr |-> members[x] \ Left(x, DD)]
        BY <1>4, <1>6
      <4> QED
        BY <3>2, <4>0
    <3>4. h.num_nodes = t.num_nodes
      <4>0. h.num_nodes = [x \in EAddr |-> Rest(x, D)] /\ t.num_nodes = [x \in EAddr |-> Rest(x, DD)]
        BY <1>4, <1>6
      <4> QED
        BY <3>2, <4>0
    <3>5. h.split = t.split
      <4>0. h.split = [x \in EAddr |-> SplitWithout(x, D)] /\ t.split = [x \in EAddr |-> SplitWithout(x, DD)]
        BY <1>4, <1>6
      <4> QED
        BY <3>2, <4>0
    <3> QED
      BY <1>4, <1>6, <2>1, <2>2, <3>3, <3>4, <3>5
  <2> QED
    BY <1>2, <1>9, <1>10, <1>11, <1>13, <2>3, <1>8b, SameHeap
<1>17. ASSUME e # NULL PROVE q = t
  <2> DEFINE k == Rest(e, D) - 1
             rest == members[e] \ Left(e, DD)
  <2>1. e \in essids /\ n \in members[e]
    BY <1>1, <1>17 DEF IInv, NetLinks
  <2>2. Left(e, DD) \subseteq members[e] /\ num_nodes[e] = Cardinality(members[e])
    <3>1. \A a \in DD : essid[a] = e => a \in members[e]
      BY <1>1, <2>1 DEF IInv, NetLinks
    <3> QED
      BY <1>1, <2>1, <3>1 DEF Left, IInv, Counts
  <2>3. Rest(e, DD) = k /\ k \in Nat
    <3>1. members[e] \in SUBSET Addr /\ Left(e, D) \in SUBSET Addr
      BY <1>1, <2>1 DEF Left
    <3>2. /\ IsFiniteSet(members[e]) /\ IsFiniteSet(Left(e, D))
          /\ Cardinality(members[e]) \in Nat /\ Cardinality(Left(e, D)) \in Nat
      BY <3>1, SubsetFinite
    <3>3. Cardinality(Left(e, DD)) = Cardinality(Left(e, D)) + 1
      <4>1. Left(e, DD) = Left(e, D) \cup {n} /\ n \notin Left(e, D)
        BY <1>14, <1>17
      <4>2. Cardinality(Left(e, D) \cup {n}) =
              IF n \in Left(e, D) THEN Cardinality(Left(e, D)) ELSE Cardinality(Left(e, D)) + 1
        BY <3>2, FS_AddElement, Zenon
      <4> QED
        BY <4>1, <4>2
    <3>4. Cardinality(Left(e, DD)) <= Cardinality(members[e])
      BY <2>2, <3>2, FS_Subset
    <3> QED
      BY <2>2, <3>2, <3>3, <3>4 DEF Rest
  <2>4. e \notin Emptied(D) /\ Left(e, DD) # {} /\ (e \in Emptied(DD) <=> k = 0)
    <3>1. Rest(e, D) # 0
      BY <2>3
    <3> QED
      BY <1>14, <1>17, <2>1, <2>3, <3>1 DEF Emptied
  <2>5. h.members[e] \ {n} = rest /\ h.num_nodes[e] - 1 = k
    <3>1. e \in EAddr
      BY <1>1, <2>1
    <3>2. h.members[e] = members[e] \ Left(e, D) /\ h.num_nodes[e] = Rest(e, D)
      BY <1>4, <3>1
    <3> QED
      BY <1>14, <1>17, <3>2
  <2> HIDE DEF k, rest
  <2>6. NetLeft(h, q, n, e, rest, k)
    BY <1>8, <1>12, <1>17, <2>5 DEF Evicted
  <2>7. q.members = t.members /\ q.num_nodes = t.num_nodes
    <3>1. e \in EAddr
      BY <1>1, <2>1
    <3>2. q.members = [h.members EXCEPT ![e] = rest] /\ q.num_nodes = [h.num_nodes EXCEPT ![e] = k]
      BY <2>6 DEF NetLeft
    <3>3. \A x \in EAddr : (members[x] \ Left(x, DD)) = IF x = e THEN rest ELSE members[x] \ Left(x, D)
      BY <1>14 DEF rest
    <3>4. \A x \in EAddr : Rest(x, DD) = IF x = e THEN k ELSE Rest(x, D)
      BY <1>15, <2>3
    <3>5. q.members = t.members
      <4>0. h.members = [x \in EAddr |-> members[x] \ Left(x, D)] /\ t.members = [x \in EAddr |-> members[x] \ Left(x, DD)]
        BY <1>4, <1>6
      <4>1. \A x \in EAddr : q.members[x] = IF x = e THEN rest ELSE h.members[x]
        <5>1. DOMAIN h.members = EAddr
          BY <4>0
        <5>2. q.members = [h.members EXCEPT ![e] = rest]
          BY <3>2
        <5> HIDE DEF q, h
        <5> QED
          BY <5>1, <5>2
      <4>2. \A x \in EAddr : h.members[x] = members[x] \ Left(x, D)
        BY <4>0
      <4>3. \A x \in EAddr : t.members[x] = members[x] \ Left(x, DD)
        BY <4>0
      <4>4. ASSUME NEW x \in EAddr PROVE q.members[x] = t.members[x]
        <5>1. /\ q.members[x] = IF x = e THEN rest ELSE h.members[x]
              /\ h.members[x] = members[x] \ Left(x, D)
              /\ t.members[x] = members[x] \ Left(x, DD)
          BY <4>1, <4>2, <4>3
        <5>2. (members[x] \ Left(x, DD)) = IF x = e THEN rest ELSE members[x] \ Left(x, D)
          BY <3>3
        <5> HIDE DEF q, h, t
        <5> QED
          BY <5>1, <5>2
      <4>5. /\ q.members = [x \in EAddr |-> q.members[x]]
            /\ t.members = [x \in EAddr |-> t.members[x]]
        BY <3>2, <4>0
      <4> QED
        BY <4>4, <4>5
    <3>6. q.num_nodes = t.num_nodes
      <4>0. h.num_nodes = [x \in EAddr |-> Rest(x, D)] /\ t.num_nodes = [x \in EAddr |-> Rest(x, DD)]
        BY <1>4, <1>6
      <4> QED
        BY <3>1, <3>2, <3>4, <4>0
    <3> QED
      BY <3>5, <3>6
  <2>8. SplitWithout(e, DD) = IF k = 0 THEN FALSE ELSE SplitStatus(rest, k)
    <3>1. SplitWithout(e, DD) = SplitStatus(rest, k)
      BY <2>3, <2>4 DEF SplitWithout, rest
    <3>2. k = 0 => SplitStatus(rest, k) = FALSE
      BY DEF SplitStatus
    <3> QED
      BY <3>1, <3>2
  <2>9. CASE k = 0
    <3>1. q.essids = h.essids \ {e} /\ q.name = [h.name EXCEPT ![e] = NoEssid]
          /\ q.split = [h.split EXCEPT ![e] = FALSE]
      BY <2>6, <2>9 DEF NetLeft
    <3>2. Emptied(DD) = Emptied(D) \cup {e}
      BY <1>15, <2>1, <2>4, <2>9 DEF Emptied
    <3>3. q.essids = t.essids /\ q.name = t.name
      <4>1. e \in EAddr
        BY <1>1, <2>1
      <4>2. q.essids = t.essids
        BY <1>4, <1>6, <3>1, <3>2
      <4>3. q.name = t.name
        <5>1. /\ h.name = [x \in EAddr |-> IF x \in Emptied(D) THEN NoEssid ELSE name[x]]
              /\ t.name = [x \in EAddr |-> IF x \in Emptied(DD) THEN NoEssid ELSE name[x]]
              /\ q.name = [h.name EXCEPT ![e] = NoEssid]
          BY <1>4, <1>6, <3>1
        <5>2. \A x \in EAddr : x \in Emptied(DD) <=> x = e \/ x \in Emptied(D)
          BY <3>2
        <5>3. \A x \in EAddr : q.name[x] = t.name[x]
          BY <5>1, <5>2
        <5>4. q.name = [x \in EAddr |-> q.name[x]] /\ t.name = [x \in EAddr |-> t.name[x]]
          BY <5>1
        <5> QED
          BY <5>3, <5>4
      <4> QED
        BY <4>2, <4>3
    <3>4. q.split = t.split
      <4>1. e \in EAddr
        BY <1>1, <2>1
      <4> DEFINE v == IF k = 0 THEN FALSE ELSE SplitStatus(rest, k)
      <4>2. q.split = [h.split EXCEPT ![e] = v]
        BY <2>9, <3>1
      <4>3. \A x \in EAddr : SplitWithout(x, DD) = IF x = e THEN v ELSE SplitWithout(x, D)
        BY <1>15, <2>8
      <4>0. h.split = [x \in EAddr |-> SplitWithout(x, D)] /\ t.split = [x \in EAddr |-> SplitWithout(x, DD)]
        BY <1>4, <1>6
      <4> HIDE DEF v
      <4> QED
        BY <4>1, <4>2, <4>3, <4>0
    <3> QED
      BY <1>2, <1>8b, <1>9, <1>10, <1>11, <1>13, <2>7, <3>3, <3>4, SameHeap
  <2>10. CASE k # 0
    <3>1. q.essids = h.essids /\ q.name = h.name
          /\ q.split = [h.split EXCEPT ![e] = SplitStatus(rest, k)]
      BY <2>6, <2>10 DEF NetLeft
    <3>2. Emptied(DD) = Emptied(D)
      BY <1>15, <2>1, <2>4, <2>10 DEF Emptied
    <3>3. q.essids = t.essids /\ q.name = t.name
      BY <1>4, <1>6, <3>1, <3>2
    <3>4. q.split = t.split
      <4>1. e \in EAddr
        BY <1>1, <2>1
      <4> DEFINE v == IF k = 0 THEN FALSE ELSE SplitStatus(rest, k)
      <4>2. q.split = [h.split EXCEPT ![e] = v]
        BY <2>10, <3>1
      <4>3. \A x \in EAddr : SplitWithout(x, DD) = IF x = e THEN v ELSE SplitWithout(x, D)
        BY <1>15, <2>8
      <4>0. h.split = [x \in EAddr |-> SplitWithout(x, D)] /\ t.split = [x \in EAddr |-> SplitWithout(x, DD)]
        BY <1>4, <1>6
      <4> HIDE DEF v
      <4> QED
        BY <4>1, <4>2, <4>3, <4>0
    <3> QED
      BY <1>2, <1>8b, <1>9, <1>10, <1>11, <1>13, <2>7, <3>3, <3>4, SameHeap
  <2> QED
    BY <2>9, <2>10
<1> QED
  BY <1>16, <1>17 DEF q, t, h

\* The loop visits every node of the list once, in any order.
LEMMA OrderCovers ==
  ASSUME NEW S, IsFiniteSet(S), NEW order \in SetToSeqs(S)
  PROVE  /\ Cardinality(S) \in Nat
         /\ DOMAIN order = 1 .. Cardinality(S)
         /\ \A i \in 1 .. Cardinality(S) : order[i] \in S
         /\ \A i, j \in 1 .. Cardinality(S) : i # j => order[i] # order[j]
         /\ \A x \in S : \E i \in 1 .. Cardinality(S) : order[i] = x
<1> DEFINE c == Cardinality(S)
           I == 1 .. c
<1>1. c \in Nat
  BY FS_CardinalityType
<1>2. order \in [I -> S] /\ \A i, j \in I : i # j => order[i] # order[j]
  BY DEF SetToSeqs
<1>3. Cardinality(I) = c
  BY <1>1, FS_Interval
<1> HIDE DEF I
<1>4. order \in Injection(I, S)
  BY <1>2 DEF Injection, IsInjective
<1>5. order \in Surjection(I, S)
  BY <1>3, <1>4, FS_Injection
<1>6. \A x \in S : \E i \in I : order[i] = x
  BY <1>5 DEF Surjection
<1> QED
  BY <1>1, <1>2, <1>6 DEF I

\* The least-number principle, for sets.
LEMMA Least ==
  ASSUME NEW S \in SUBSET Nat, S # {}
  PROVE  \E m \in S : \A x \in S : m <= x
<1> DEFINE R == {ss \in Nat \X Nat : ss[1] < ss[2]}
<1>1. IsWellFoundedOn(R, Nat)
  BY NatLessThanWellFounded DEF OpToRel
<1> HIDE DEF R
<1>2. PICK m \in S : \A x \in S : ~(<<x, m>> \in R)
  BY <1>1, WFMin
<1>3. \A x \in S : ~(x < m)
  BY <1>2 DEF R
<1> QED
  BY <1>3

\* Induction up to a number, for sets.
LEMMA UpTo ==
  ASSUME NEW n \in Nat, NEW S, 0 \in S, \A k \in 0 .. n - 1 : k \in S => k + 1 \in S
  PROVE  0 .. n \subseteq S
<1> DEFINE T == {k \in 0 .. n : k \notin S}
<1> SUFFICES ASSUME T # {} PROVE FALSE
  OBVIOUS
<1>1. PICK m \in T : \A x \in T : m <= x
  <2>1. T \in SUBSET Nat
    OBVIOUS
  <2> HIDE DEF T
  <2> QED BY <2>1, Least
<1>2. m # 0 /\ m - 1 \in 0 .. n - 1 /\ m - 1 \notin T
  BY <1>1
<1> QED
  BY <1>2, <1>1

\* A set of positions has a last one.
LEMMA LastOne ==
  ASSUME NEW n \in Nat, NEW s \in SUBSET (1 .. n), s # {}
  PROVE  Max(s) \in s /\ \A y \in s : Max(s) >= y
<1> DEFINE B == {k \in Nat : \A y \in s : k >= y}
<1>1. n \in B /\ B \in SUBSET Nat
  OBVIOUS
<1> HIDE DEF B
<1>2. PICK m \in B : \A k \in B : m <= k
  BY <1>1, Least
<1>3. m \in Nat /\ \A y \in s : m >= y
  BY <1>2 DEF B
<1>4. m \in s
  <2> SUFFICES ASSUME m \notin s PROVE FALSE
    OBVIOUS
  <2>1. \A y \in s : y \in Nat /\ m - 1 >= y
    BY <1>3
  <2>2. m - 1 \in Nat
    <3>1. PICK y \in s : TRUE
      OBVIOUS
    <3> QED
      BY <1>3, <2>1, <3>1
  <2>3. m - 1 \in B
    BY <2>1, <2>2 DEF B
  <2> QED
    BY <1>2, <1>3, <2>3
<1>5. \E x \in s : \A y \in s : x >= y
  BY <1>3, <1>4
<1> QED
  BY <1>5 DEF Max

\* The sweep leaves what Swept says, whatever the order: the loop's heap after the
\* nodes at any positions is the one without those of gone.
LEMMA SweepIsSwept ==
  ASSUME IInv, phase = "running", NEW gone \in SUBSET nodes, NEW order \in SetToSeqs(nodes)
  PROVE  Sweep(Heap, order, gone) = Swept(gone)
<1> DEFINE n == Cardinality(nodes)
           Visit(g, a) == IF a \in gone THEN Evict(g, a) ELSE g
           D(s) == {order[j] : j \in s} \cap gone
           iter == CHOOSE g : g = [s \in SUBSET (1 .. n) |->
                     IF s = {} THEN Heap ELSE Visit(g[s \ {Max(s)}], order[Max(s)])]
           G == [s \in SUBSET (1 .. n) |-> Swept(D(s))]
<1>1. /\ n \in Nat /\ DOMAIN order = 1 .. n
      /\ \A i \in 1 .. n : order[i] \in nodes
      /\ \A i, j \in 1 .. n : i # j => order[i] # order[j]
      /\ \A x \in nodes : \E i \in 1 .. n : order[i] = x
  <2>1. IsFiniteSet(nodes)
    BY SubsetFinite DEF IInv, TypeOK
  <2> QED
    BY <2>1, OrderCovers
<1> HIDE DEF n
<1>2. Sweep(Heap, order, gone) = iter[1 .. n]
  BY <1>1 DEF Sweep, FoldLeft, MapThenFoldSet
<1>3. ASSUME NEW s \in SUBSET (1 .. n), NEW m \in s
      PROVE  Swept(D(s)) = Visit(Swept(D(s \ {m})), order[m])
  <2>1. D(s \ {m}) \in SUBSET nodes /\ order[m] \in nodes
    BY <1>1
  <2>2. CASE order[m] \in gone
    <3>1. D(s) = D(s \ {m}) \cup {order[m]} /\ order[m] \notin D(s \ {m})
      BY <1>1, <2>2
    <3> HIDE DEF D
    <3>2. Evict(Swept(D(s \ {m})), order[m]) = Swept(D(s))
      BY <2>1, <3>1, EvictSweeps
    <3> QED
      BY <2>2, <3>2
  <2>3. CASE order[m] \notin gone
    <3>1. D(s) = D(s \ {m})
      BY <2>3
    <3> QED
      BY <2>3, <3>1
  <2> QED
    BY <2>2, <2>3
<1>4. D({}) = {} /\ D(1 .. n) = gone
  BY <1>1
<1> HIDE DEF D, Visit
<1>5. G = [s \in SUBSET (1 .. n) |->
             IF s = {} THEN Heap ELSE Visit(G[s \ {Max(s)}], order[Max(s)])]
  <2>1. ASSUME NEW s \in SUBSET (1 .. n)
        PROVE  G[s] = IF s = {} THEN Heap ELSE Visit(G[s \ {Max(s)}], order[Max(s)])
    <3>1. CASE s = {}
      BY <1>4, <3>1, NothingSwept
    <3>2. CASE s # {}
      <4>1. Max(s) \in s
        BY <1>1, <3>2, LastOne
      <4>2. s \ {Max(s)} \in SUBSET (1 .. n)
        OBVIOUS
      <4> QED
        BY <1>3, <3>2, <4>1, <4>2
    <3> QED
      BY <3>1, <3>2
  <2> QED
    BY <2>1
<1>6. iter = [s \in SUBSET (1 .. n) |->
               IF s = {} THEN Heap ELSE Visit(iter[s \ {Max(s)}], order[Max(s)])]
  <2> HIDE DEF G
  <2> QED
    BY <1>5
<1> HIDE DEF iter
<1> DEFINE S == {k \in 0 .. n : iter[1 .. k] = Swept(D(1 .. k))}
<1>7. 0 \in S
  <2>1. 1 .. 0 = {} /\ {} \in SUBSET (1 .. n) /\ 0 \in 0 .. n
    BY <1>1
  <2>2. iter[{}] = Heap
    BY <1>6, <2>1
  <2> QED
    BY <1>4, <2>1, <2>2, NothingSwept
<1>8. ASSUME NEW k \in 0 .. n - 1, k \in S
      PROVE  k + 1 \in S
  <2> DEFINE s == 1 .. k + 1
  <2>1. s \in SUBSET (1 .. n) /\ s # {} /\ k + 1 \in s /\ s \ {k + 1} = 1 .. k /\ k + 1 \in 0 .. n
    <3>1. k \in Nat /\ k + 1 \in 0 .. n /\ k + 1 \in s
      BY <1>1
    <3>2. s \ {k + 1} = 1 .. k
      BY <3>1
    <3>3. s \in SUBSET (1 .. n)
      BY <1>1, <3>1
    <3> QED
      BY <3>1, <3>2, <3>3
  <2>2. Max(s) = k + 1
    <3>1. Max(s) \in s /\ \A y \in s : Max(s) >= y
      BY <1>1, <2>1, LastOne
    <3> QED
      BY <3>1, <2>1
  <2> HIDE DEF s
  <2>3. iter[s] = Visit(iter[1 .. k], order[k + 1])
    BY <1>6, <2>1, <2>2
  <2>4. Swept(D(s)) = Visit(Swept(D(1 .. k)), order[k + 1])
    BY <1>3, <2>1
  <2>5. iter[s] = Swept(D(s))
    BY <1>8, <2>3, <2>4
  <2> QED
    BY <2>1, <2>5 DEF s
<1>9. n \in S
  <2> HIDE DEF S
  <2>1. 0 .. n \subseteq S
    BY <1>1, <1>7, <1>8, UpTo
  <2> QED
    BY <1>1, <2>1
<1> QED
  BY <1>2, <1>4, <1>9

\* uwifi_nodes_timeout (node.c:261): node by node, in any order of the list, the loop
\* leaves what evicting all silent nodes at once leaves.
THEOREM SweepCorrect == Spec => SweepIsTimeout
<1>1. IInv => SweepIsTimeoutStep
  <2> SUFFICES ASSUME IInv, NEW gone \in SUBSET nodes, NodesTimeout(gone),
                      NEW order \in SetToSeqs(nodes)
               PROVE  Heap' = Sweep(Heap, order, gone)
    BY DEF SweepIsTimeoutStep
  <2>1. phase = "running"
    BY DEF NodesTimeout
  <2> QED
    BY <2>1, TimeoutIsSwept, SweepIsSwept
<1> QED
  BY <1>1, Invariance, PTL DEF SweepIsTimeout
=============================================================================
