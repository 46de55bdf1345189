----------------------------- MODULE Directory ------------------------------
(***************************************************************************)
(* What core/node.c and core/essid.c promise an application, with no       *)
(* memory, pointer or list in sight: a directory, keyed by MAC address, of *)
(* the nodes that are known, the cell (BSSID) each was last heard in, the  *)
(* AP it is linked to and the network it advertises.                       *)
(***************************************************************************)
CONSTANTS Mac, ZeroMac, EssidName, NoEssid

VARIABLES
  known,  \* MAC addresses that have an entry
  cell,   \* the BSSID of each, ZeroMac if none was heard
  ap,     \* the AP each is linked to, ZeroMac if none
  net     \* the network each is a member of, NoEssid if none

vars == <<known, cell, ap, net>>

Init ==
  /\ known = {}
  /\ cell = [m \in Mac |-> ZeroMac]
  /\ ap = [m \in Mac |-> ZeroMac]
  /\ net = [m \in Mac |-> NoEssid]

\* A frame from, or to, m was heard in cell b (ZeroMac: the frame tells none).
Hear(m, b) ==
  /\ known' = known \cup {m}
  /\ cell' = IF b = ZeroMac THEN cell ELSE [cell EXCEPT ![m] = b]
  /\ UNCHANGED <<ap, net>>

\* m is linked to the AP of its cell if that AP is known, else to none.
Associate(m) ==
  /\ m \in known
  /\ ap' = [ap EXCEPT ![m] = IF cell[m] \in known THEN cell[m] ELSE ZeroMac]
  /\ UNCHANGED <<known, cell, net>>

\* m advertises network s, and no other from now on; or leaves its network.
Join(m, s) ==
  /\ m \in known
  /\ net' = [net EXCEPT ![m] = s]
  /\ UNCHANGED <<known, cell, ap>>

\* The entries of S go, and with them every link to them.  The others keep
\* their cell and their network.
Forget(S) ==
  /\ known' = known \ S
  /\ cell' = [m \in Mac |-> IF m \in S THEN ZeroMac ELSE cell[m]]
  /\ ap' = [m \in Mac |-> IF m \in S \/ ap[m] \in S THEN ZeroMac ELSE ap[m]]
  /\ net' = [m \in Mac |-> IF m \in S THEN NoEssid ELSE net[m]]

\* All networks are forgotten.
ForgetNets ==
  /\ net' = [m \in Mac |-> NoEssid]
  /\ UNCHANGED <<known, cell, ap>>

Next ==
  \/ \E m, b \in Mac : Hear(m, b)
  \/ \E m \in Mac : Associate(m)
  \/ \E m \in Mac, s \in EssidName \cup {NoEssid} : Join(m, s)
  \/ \E S \in SUBSET known : Forget(S)
  \/ ForgetNets

Spec == Init /\ [][Next]_vars
=============================================================================
