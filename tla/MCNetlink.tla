----------------------------- MODULE MCNetlink ------------------------------
(* Room for two of at most three entries, two groups, two events.           *)
EXTENDS Netlink
=============================================================================
