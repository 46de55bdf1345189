----------------------------- MODULE NodeAging ------------------------------
(***************************************************************************)
(* When uwifi_nodes_timeout (core/node.c) evicts a node.  Registry lets it *)
(* evict any; here is the clock that decides: an unsigned microsecond      *)
(* counter that wraps, differences of which are taken modulo its range,    *)
(* and a caller that asks at least every PollGap.                          *)
(*                                                                         *)
(* age and elapsed are history: what a clock that never wraps would show.  *)
(* The code does not have them, and no guard here reads them.              *)
(***************************************************************************)
EXTENDS Integers

CONSTANTS Node,     \* the MAC addresses that may be heard
          Modulus,  \* range of the clock, 2^32 in the code
          Timeout,  \* timeout_sec * 1000000
          PollGap   \* the caller calls uwifi_nodes_timeout at least this often

\* The caller asks at least once per timeout, and the clock does not wrap
\* within the longest time a node may be listed (with 2^32 microseconds, about
\* 71 minutes, this allows timeouts up to 23 minutes).
ASSUME AgingAssumption ==
  /\ Modulus \in Nat /\ Timeout \in Nat /\ PollGap \in Nat
  /\ 1 <= Timeout
  /\ 1 <= PollGap /\ PollGap <= Timeout
  /\ 2 * Timeout + PollGap < Modulus

VARIABLES
  now,        \* plat_time_usec()
  last,       \* *last_nodetimeout, kept by the caller
  nodes,      \* who is listed
  last_seen,  \* n->last_seen
  unpolled,   \* time since the caller asked
  age,        \* history: time since each node was heard
  elapsed,    \* history: time since the last sweep, or since the start
  swept       \* history: whether there was a sweep

vars == <<now, last, nodes, last_seen, unpolled, age, elapsed, swept>>

Clock == 0 .. Modulus - 1
Sub(a, b) == IF a >= b THEN a - b ELSE a - b + Modulus  \* uint32_t difference
Add(a, d) == IF a + d < Modulus THEN a + d ELSE a + d - Modulus

TypeOK ==
  /\ now \in Clock /\ last \in Clock
  /\ nodes \subseteq Node
  /\ last_seen \in [Node -> Clock]
  /\ unpolled \in 0 .. PollGap
  /\ age \in [Node -> Nat] /\ elapsed \in Nat
  /\ swept \in BOOLEAN

\* The clock shows anything when the program starts; last starts at zero.
Init ==
  /\ now \in Clock
  /\ last = 0
  /\ nodes = {}
  /\ last_seen = [n \in Node |-> 0]
  /\ unpolled = 0
  /\ age = [n \in Node |-> 0]
  /\ elapsed = 0
  /\ swept = FALSE

\* Time passes while the application does something else.
Tick(d) ==
  /\ unpolled + d <= PollGap
  /\ now' = Add(now, d)
  /\ unpolled' = unpolled + d
  /\ age' = [n \in Node |-> IF n \in nodes THEN age[n] + d ELSE 0]
  /\ elapsed' = elapsed + d
  /\ UNCHANGED <<last, nodes, last_seen, swept>>

\* uwifi_node_update or uwifi_node_update_receiver for a packet from or to n.
Heard(n) ==
  /\ nodes' = nodes \cup {n}
  /\ last_seen' = [last_seen EXCEPT ![n] = now]
  /\ age' = [age EXCEPT ![n] = 0]
  /\ UNCHANGED <<now, last, unpolled, elapsed, swept>>

TooEarly == Sub(now, last) < Timeout

\* Faulty: >= where the code has >.
SilentToday == {n \in nodes : Sub(now, last_seen[n]) >= Timeout}
Silent == {n \in nodes : Sub(now, last_seen[n]) > Timeout}

\* A call that returns at once.
PollEarlyMoves ==                   \* faulty: the time is saved here as well
  /\ TooEarly
  /\ unpolled' = 0
  /\ last' = now
  /\ UNCHANGED <<now, nodes, last_seen, age, elapsed, swept>>
PollEarly ==
  /\ TooEarly
  /\ unpolled' = 0
  /\ UNCHANGED <<now, last, nodes, last_seen, age, elapsed, swept>>

\* A call that sweeps.
PollSweep ==
  /\ ~TooEarly
  /\ nodes' = nodes \ Silent
  /\ last' = now
  /\ unpolled' = 0
  /\ elapsed' = 0 /\ swept' = TRUE
  /\ age' = [n \in Node |-> IF n \in Silent THEN 0 ELSE age[n]]
  /\ last_seen' = [n \in Node |-> IF n \in Silent THEN 0 ELSE last_seen[n]]
  /\ UNCHANGED now

Next ==
  \/ \E d \in 1 .. PollGap : Tick(d)
  \/ \E n \in Node : Heard(n)
  \/ PollEarly
  \/ PollSweep

Spec == Init /\ [][Next]_vars

-----------------------------------------------------------------------------
\* Only a node that really was silent for longer than the timeout is evicted,
\* whatever the clock does, also when it wraps between the two readings.
NeverEarlyStep == \A n \in nodes \ nodes' : age[n] > Timeout
NeverEarly == [][NeverEarlyStep]_vars

\* A node that has gone is listed for less than two timeouts and a poll gap:
\* one timeout because it may have been heard just before a sweep, one because
\* sweeps are that far apart.
SilentGone == \A n \in nodes : age[n] < 2 * Timeout + PollGap

\* How the readings relate to real time: the inductive invariant.
SeenExact == \A n \in nodes : Sub(now, last_seen[n]) = age[n]

\* Between sweeps the code measures the time that really passed.  Before the
\* first one last is zero and means nothing: the clock may wrap once, unnoticed,
\* before the first call, and the first sweep comes that much later.
SweepTimely ==
  IF swept THEN elapsed = Sub(now, last) /\ elapsed < Timeout + unpolled
  ELSE /\ last = 0
       /\ \/ elapsed = unpolled
          \/ now < Timeout + unpolled /\ elapsed <= now + PollGap

AgesBounded == \A n \in nodes : age[n] <= elapsed + (IF swept THEN Timeout ELSE 0)

IInv == TypeOK /\ SeenExact /\ SweepTimely /\ AgesBounded
=============================================================================
