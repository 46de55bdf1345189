-------------------------- MODULE NodeAgingProofs ---------------------------
(***************************************************************************)
(* Proofs about NodeAging, for any range of the clock and any timeout that *)
(* AgingAssumption allows.  IInv ties the wrapping readings of the code to *)
(* the real ages; once a difference is known to be below Modulus, the      *)
(* subtraction modulo Modulus is exact, and the rest is linear arithmetic. *)
(***************************************************************************)
EXTENDS NodeAging, TLAPS

\* A clock reading stays one, and the difference to an earlier reading grows
\* with the clock as long as the sum stays below its range.
LEMMA ClockMoves ==
  ASSUME NEW c \in Clock, NEW e \in Clock, NEW d \in Nat, d < Modulus
  PROVE  /\ Add(c, d) \in Clock
         /\ Sub(c, e) \in Clock
         /\ Sub(c, e) + d < Modulus => Sub(Add(c, d), e) = Sub(c, e) + d
BY AgingAssumption DEF Clock, Add, Sub

\* Where the time runs against a reading of zero the difference is the clock.
LEMMA SubZero == ASSUME NEW c \in Clock PROVE Sub(c, 0) = c /\ Sub(c, c) = 0
BY AgingAssumption DEF Clock, Sub

\* The program starts in a state where nothing is listed.
LEMMA InitInv == Init => IInv
<1> SUFFICES ASSUME Init PROVE IInv
  OBVIOUS
<1>1. TypeOK
  <2>1. 0 \in Clock /\ 0 \in 0 .. PollGap
    BY AgingAssumption DEF Clock
  <2> QED
    BY <2>1 DEF Init, TypeOK
<1>2. SeenExact /\ AgesBounded
  BY DEF Init, SeenExact, AgesBounded
<1>3. SweepTimely
  BY DEF Init, SweepTimely
<1> QED
  BY <1>1, <1>2, <1>3 DEF IInv

\* A listed node is never older than the bound SilentGone names: two timeouts
\* and less than a poll gap once there was a sweep.
LEMMA AgeBound == IInv => SilentGone
<1> SUFFICES ASSUME IInv, NEW n \in nodes PROVE age[n] < 2 * Timeout + PollGap
  BY DEF SilentGone
<1> USE AgingAssumption
<1>1. age[n] \in Nat /\ unpolled \in 0 .. PollGap /\ elapsed \in Nat /\ now \in Nat
  BY DEF IInv, TypeOK, Clock
<1>2. CASE swept
  BY <1>1, <1>2 DEF IInv, AgesBounded, SweepTimely
<1>3. CASE ~swept
  BY <1>1, <1>3 DEF IInv, AgesBounded, SweepTimely
<1> QED
  BY <1>1, <1>2, <1>3 DEF IInv, TypeOK

\* Time passes.
LEMMA TickInv == ASSUME IInv, NEW d \in 1 .. PollGap, Tick(d) PROVE IInv'
<1> USE AgingAssumption DEF IInv
<1>1. /\ d \in Nat /\ d >= 1 /\ d < Modulus /\ now \in Clock /\ last \in Clock
      /\ unpolled \in 0 .. PollGap /\ elapsed \in Nat
  BY DEF TypeOK
<1>2. TypeOK'
  <2>1. now' \in Clock
    BY <1>1, ClockMoves DEF Tick
  <2>2. unpolled' \in 0 .. PollGap /\ elapsed' \in Nat
    BY <1>1 DEF Tick
  <2>3. age' \in [Node -> Nat]
    BY <1>1 DEF Tick, TypeOK
  <2> QED
    BY <2>1, <2>2, <2>3 DEF Tick, TypeOK
<1>3. SeenExact'
  <2> SUFFICES ASSUME NEW n \in nodes PROVE Sub(now', last_seen[n]) = age[n] + d
    <3>1. \A n \in nodes : age'[n] = age[n] + d
      BY DEF Tick, TypeOK
    <3> QED
      BY <3>1 DEF SeenExact, Tick
  <2>1. last_seen[n] \in Clock /\ age[n] \in Nat
    BY DEF TypeOK
  <2>2. Sub(now, last_seen[n]) = age[n]
    BY DEF SeenExact
  <2>3. age[n] + d < Modulus
    <3>1. age[n] < 2 * Timeout + PollGap
      BY AgeBound DEF SilentGone
    <3>2. CASE swept
      BY <1>1, <2>1, <3>2 DEF AgesBounded, SweepTimely, Tick
    <3>3. CASE ~swept
      BY <1>1, <2>1, <3>3 DEF AgesBounded, SweepTimely, Tick, Clock
    <3> QED
      BY <3>2, <3>3
  <2> QED
    BY <1>1, <2>1, <2>2, <2>3, ClockMoves DEF Tick
<1>4. SweepTimely'
  <2>1. CASE swept
    <3>1. elapsed + d < Modulus
      BY <1>1, <2>1 DEF SweepTimely, Tick
    <3>2. Sub(now', last) = Sub(now, last) + d
      BY <1>1, <2>1, <3>1, ClockMoves DEF SweepTimely, Tick
    <3> QED
      BY <1>1, <2>1, <3>2 DEF SweepTimely, Tick
  <2>2. CASE ~swept
    <3>1. CASE elapsed = unpolled
      BY <1>1, <2>2, <3>1 DEF SweepTimely, Tick
    <3>2. CASE now < Timeout + unpolled /\ elapsed <= now + PollGap
      <4>1. now' = now + d
        BY <1>1, <3>2 DEF Tick, Add, Clock
      <4> QED
        BY <1>1, <2>2, <3>2, <4>1 DEF SweepTimely, Tick, Clock
    <3> QED
      BY <2>2, <3>1, <3>2 DEF SweepTimely
  <2> QED
    BY <2>1, <2>2
<1>5. AgesBounded'
  <2> SUFFICES ASSUME NEW n \in nodes
               PROVE  age'[n] <= elapsed' + (IF swept THEN Timeout ELSE 0)
    BY DEF AgesBounded, Tick
  <2>1. age'[n] = age[n] + d /\ age[n] \in Nat
    BY DEF Tick, TypeOK
  <2> QED
    BY <1>1, <2>1 DEF AgesBounded, Tick
<1> QED
  BY <1>2, <1>3, <1>4, <1>5

\* A packet from or to n.
LEMMA HeardInv == ASSUME IInv, NEW n \in Node, Heard(n) PROVE IInv'
<1> USE AgingAssumption DEF IInv, Heard
<1>1. TypeOK'
  BY DEF TypeOK
<1>2. \A m \in nodes' :
        \/ m \in nodes /\ last_seen'[m] = last_seen[m] /\ age'[m] = age[m]
        \/ last_seen'[m] = now /\ age'[m] = 0
  BY DEF TypeOK
<1>3. SeenExact'
  <2>1. now \in Clock
    BY DEF TypeOK
  <2> QED
    BY <1>2, <2>1, SubZero DEF SeenExact
<1>4. SweepTimely'
  BY DEF SweepTimely
<1>5. AgesBounded'
  <2>1. elapsed \in Nat
    BY DEF TypeOK
  <2> QED
    BY <1>2, <2>1 DEF AgesBounded
<1> QED
  BY <1>1, <1>3, <1>4, <1>5

\* A call that returns at once: the last sweep was recent, or, before the
\* first one, the clock itself reads less than the timeout.
LEMMA PollEarlyInv == ASSUME IInv, PollEarly PROVE IInv'
<1> USE AgingAssumption DEF IInv, PollEarly
<1>1. TypeOK'
  BY DEF TypeOK
<1>2. SeenExact' /\ AgesBounded'
  BY DEF SeenExact, AgesBounded
<1>3. SweepTimely'
  <2>1. /\ now \in Clock /\ now \in Int /\ elapsed \in Nat
        /\ unpolled \in 0 .. PollGap
    BY DEF TypeOK, Clock
  <2>2. CASE swept
    BY <2>1, <2>2 DEF SweepTimely, TooEarly
  <2>3. CASE ~swept
    <3>1. now < Timeout /\ last = 0
      BY <2>1, <2>3, SubZero DEF SweepTimely, TooEarly
    <3> QED
      BY <2>1, <2>3, <3>1 DEF SweepTimely, Clock
  <2> QED
    BY <2>2, <2>3
<1> QED
  BY <1>1, <1>2, <1>3

\* A sweep leaves nodes not older than the timeout.
LEMMA PollSweepInv == ASSUME IInv, PollSweep PROVE IInv'
<1> USE AgingAssumption DEF IInv, PollSweep
<1>1. \A n \in nodes' : /\ n \in nodes /\ last_seen'[n] = last_seen[n]
                        /\ age'[n] = age[n] /\ age[n] <= Timeout
  <2> TAKE n \in nodes'
  <2>1. n \in nodes /\ n \notin Silent /\ n \in Node /\ age[n] \in Nat
    BY DEF TypeOK
  <2>2. last_seen'[n] = last_seen[n] /\ age'[n] = age[n]
    BY <2>1
  <2>3. Sub(now, last_seen[n]) = age[n]
    BY <2>1 DEF SeenExact
  <2> QED
    BY <2>1, <2>2, <2>3 DEF Silent
<1>2. TypeOK'
  <2>1. 0 \in Clock /\ 0 \in 0 .. PollGap
    BY DEF Clock
  <2> QED
    BY <2>1 DEF TypeOK
<1>3. SeenExact'
  BY <1>1 DEF SeenExact
<1>4. SweepTimely'
  <2>1. Sub(now, now) = 0
    BY SubZero DEF TypeOK
  <2> QED
    BY <2>1 DEF SweepTimely
<1>5. AgesBounded'
  BY <1>1 DEF AgesBounded
<1> QED
  BY <1>2, <1>3, <1>4, <1>5

\* No step at all.
LEMMA StutterInv == ASSUME IInv, UNCHANGED vars PROVE IInv'
BY DEF vars, IInv, TypeOK, SeenExact, SweepTimely, AgesBounded

\* IInv holds in every reachable state: the readings of the wrapping clock are
\* the real ages, and sweeps are less than a timeout and a poll gap apart.
THEOREM Invariance == Spec => []IInv
<1>1. Init => IInv
  BY InitInv
<1>2. IInv /\ [Next]_vars => IInv'
  <2> SUFFICES ASSUME IInv, [Next]_vars PROVE IInv'
    OBVIOUS
  <2> QED
    BY TickInv, HeardInv, PollEarlyInv, PollSweepInv, StutterInv DEF Next
<1> QED
  BY <1>1, <1>2, PTL DEF Spec

\* Every variable of the aging clock keeps its type; readings stay in range.
THEOREM TypeCorrect == Spec => []TypeOK
BY Invariance, PTL DEF IInv

\* For any clock range and timeout, a node that has gone is listed for less
\* than two timeouts and a poll gap (uwifi_nodes_timeout).
THEOREM SilentNodesGo == Spec => []SilentGone
BY Invariance, AgeBound, PTL

\* For any clock range and timeout, no sweep of uwifi_nodes_timeout evicts a
\* node that was heard within the timeout, wherever the clock wraps.
THEOREM NeverTooEarly == Spec => NeverEarly
<1>1. ASSUME IInv, [Next]_vars PROVE [NeverEarlyStep]_vars
  <2>1. CASE PollSweep
    <3> SUFFICES ASSUME NEW n \in nodes \ nodes' PROVE age[n] > Timeout
      BY DEF NeverEarlyStep
    <3>1. n \in Silent /\ n \in nodes
      BY <2>1 DEF PollSweep
    <3>2. Sub(now, last_seen[n]) > Timeout
      BY <3>1 DEF Silent
    <3> QED
      BY <1>1, <3>1, <3>2 DEF IInv, SeenExact
  <2>2. CASE ~PollSweep
    <3>1. nodes \ nodes' = {}
      BY <1>1, <2>2 DEF Next, Tick, Heard, PollEarly, vars
    <3> QED
      BY <3>1 DEF NeverEarlyStep
  <2> QED
    BY <2>1, <2>2
<1> QED
  BY <1>1, Invariance, PTL DEF Spec, NeverEarly
=============================================================================
