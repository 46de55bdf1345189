--------------------------- MODULE RegistrySweep ----------------------------
(***************************************************************************)
(* The eviction loop of uwifi_nodes_timeout line by line: nodes are        *)
(* visited in list order and each silent one is unlinked from its AP, from *)
(* its ESSID and from its stations before it is freed.  Registry states    *)
(* the result of the whole sweep at once; here the two are compared.       *)
(***************************************************************************)
EXTENDS Registry, SequencesExt

\* The memory of both registries as one value.
Heap == [nodes |-> nodes, src |-> src, bssid |-> bssid, mode |-> mode,
         ap_node |-> ap_node, ap_nodes |-> ap_nodes, essid |-> essid,
         essids |-> essids, name |-> name, members |-> members,
         num_nodes |-> num_nodes, split |-> split]

\* "if (n->ap_node) { cc_list_del_from(...); n->ap_node = NULL; }"
UnlinkFromAp(h, n) ==
  IF h.ap_node[n] = NULL THEN h
  ELSE [h EXCEPT !.ap_nodes[h.ap_node[n]] = @ \ {n}, !.ap_node[n] = NULL]

\* uwifi_essids_remove_node
RemoveNode(h, n) ==
  LET e    == h.essid[n]
      rest == h.members[e] \ {n}
      k    == h.num_nodes[e] - 1
      out  == [h EXCEPT !.essid[n] = NULL, !.members[e] = rest, !.num_nodes[e] = k]
  IN IF e = NULL THEN h
     ELSE IF k = 0 THEN [out EXCEPT !.essids = @ \ {e}, !.name[e] = NoEssid,
                                    !.split[e] = FALSE]
     ELSE [out EXCEPT !.split[e] = SplitStatus(rest, k)]

\* "clear AP list"
StationsKept(h, n) == h             \* faulty: it is missing
UnlinkStations(h, n) ==
  [h EXCEPT !.ap_nodes[n] = {},
            !.ap_node = [a \in Addr |-> IF a \in h.ap_nodes[n] THEN NULL ELSE @[a]]]

FreeNode(h, n) ==
  [h EXCEPT !.src[n] = ZeroMac, !.bssid[n] = ZeroMac, !.mode[n] = {}]

Evict(h, n) ==
  FreeNode(UnlinkStations(
    RemoveNode(UnlinkFromAp([h EXCEPT !.nodes = @ \ {n}], n), n), n), n)

Sweep(h, order, gone) ==
  FoldLeft(LAMBDA g, n : IF n \in gone THEN Evict(g, n) ELSE g, h, order)

\* Whatever the order of the list, the loop leaves the heap as NodesTimeout
\* says: evicting an AP before or after its stations, or the members of an
\* ESSID in any order, makes no difference and touches nothing freed.
SweepIsTimeoutStep ==
  \A gone \in SUBSET nodes : NodesTimeout(gone) =>
    \A order \in SetToSeqs(nodes) : Heap' = Sweep(Heap, order, gone)
SweepIsTimeout == [][SweepIsTimeoutStep]_vars
=============================================================================
