--------------------------- MODULE InterfaceProofs ---------------------------
(***************************************************************************)
(* Proofs about Interface: the inductive invariant IInv, and from it the   *)
(* four properties of the sockets, flags and tables of all handles.        *)
(***************************************************************************)
EXTENDS Interface, FiniteSetTheorems, SequenceTheorems, WellFoundedInduction, TLAPS

-----------------------------------------------------------------------------
\* Lemmas about the operators.

\* The least-number principle, for sets.
LEMMA Least ==
  ASSUME NEW S \in SUBSET Nat, S # {}
  PROVE  \E m \in S : \A x \in S : m <= x
<1> DEFINE R == {ss \in Nat \X Nat : ss[1] < ss[2]}
<1>1. IsWellFoundedOn(R, Nat)
  BY NatLessThanWellFounded DEF OpToRel
<1> HIDE DEF R
<1>2. PICK m \in S : \A x \in S : ~(<<x, m>> \in R)
  BY <1>1, WFMin
<1>3. \A x \in S : ~(x < m)
  BY <1>2 DEF R
<1> QED
  BY <1>3

\* open() returns a descriptor that was free.
LEMMA OpensFree ==
  ASSUME FreeFds # {}
  PROVE  Min(FreeFds) \in Fds /\ fds[Min(FreeFds)] = "free"
<1>1. FreeFds \in SUBSET Nat
  BY InterfaceAssumption DEF FreeFds, Fds
<1>2. \E m \in FreeFds : \A x \in FreeFds : m <= x
  BY <1>1, Least
<1>3. Min(FreeFds) \in FreeFds
  BY <1>2 DEF Min
<1> QED
  BY <1>3 DEF FreeFds

\* The table after an answer has the length of the answer; when the table was
\* empty, or that answer already, it is the answer.
LEMMA ListedLen ==
  ASSUME NEW old \in Seq(Nat), NEW new \in Seq(Nat)
  PROVE  /\ Listed(old, new) \in Seq(Nat)
         /\ Len(Listed(old, new)) = Len(new)
         /\ old \in {<<>>, new} => Listed(old, new) = new
<1>1. /\ old \o new \in Seq(Nat) /\ Len(old \o new) = Len(old) + Len(new)
      /\ Len(old) \in Nat /\ Len(new) \in Nat
  OBVIOUS
<1>2. Listed(old, new) \in Seq(Nat) /\ Len(Listed(old, new)) = Len(new)
  BY <1>1 DEF Listed
<1>3. ASSUME old \in {<<>>, new}, NEW i \in 1 .. Len(new)
      PROVE  Listed(old, new)[i] = new[i]
  <2>1. Listed(old, new)[i] = (old \o new)[i]
    BY <1>1 DEF Listed
  <2>2. (old \o new)[i] = new[i]
    <3>1. CASE old = <<>>
      BY <1>3, <3>1
    <3>2. CASE old = new
      BY <1>3, <3>2
    <3> QED
      BY <1>3, <3>1, <3>2, Zenon
  <2> QED
    BY <2>1, <2>2
<1>4. old \in {<<>>, new} => Listed(old, new) = new
  BY <1>2, <1>3, SeqEqual
<1> QED
  BY <1>2, <1>4

\* A set with fewer than two elements has no other than a given one.
LEMMA OneAnswer ==
  ASSUME NEW S, IsFiniteSet(S), NEW a, Cardinality(S \cup {a}) < 2
  PROVE  S \subseteq {a} /\ Cardinality(S) < 2
<1>1. IsFiniteSet(S \cup {a})
  BY FS_AddElement
<1>2. ASSUME NEW b \in S, b # a PROVE FALSE
  <2>1. Cardinality({a}) = 1 /\ IsFiniteSet({a})
    BY FS_Singleton, Zenon
  <2>2. Cardinality({a} \cup {b}) = 2
    <3>1. b \notin {a}
      BY <1>2
    <3>2. Cardinality({a} \cup {b}) = Cardinality({a}) + 1
      BY <2>1, <3>1, FS_AddElement
    <3> QED
      BY <2>1, <3>2
  <2>3. {a} \cup {b} \subseteq S \cup {a}
    OBVIOUS
  <2>4. Cardinality({a} \cup {b}) <= Cardinality(S \cup {a})
    BY <1>1, <2>3, FS_Subset
  <2>5. Cardinality(S \cup {a}) \in Nat
    BY <1>1, FS_CardinalityType
  <2> QED
    BY <2>2, <2>4, <2>5
<1>3. S \subseteq S \cup {a}
  OBVIOUS
<1>4. /\ Cardinality(S) <= Cardinality(S \cup {a})
      /\ Cardinality(S) \in Nat /\ Cardinality(S \cup {a}) \in Nat
  BY <1>1, <1>3, FS_Subset, FS_CardinalityType
<1> QED
  BY <1>2, <1>4

-----------------------------------------------------------------------------
\* The inductive invariant.

LEMMA InitInv == Init => IInv
<1> SUFFICES ASSUME Init PROVE IInv
  OBVIOUS
<1> USE InterfaceAssumption DEF Init, Zeroed
<1>1. TypeOK
  <2>1. fds \in [Fds -> {"free", "app"} \cup Handles]
    BY DEF FdsAtStart
  <2>2. 0 \in Fds
    BY DEF Fds
  <2>3. <<>> \in Seq(Nat) /\ \A h \in Handles : table[h] = <<>>
    OBVIOUS
  <2>4. /\ table \in [Handles -> Seq(Nat)]
        /\ \A h \in Handles : \E a \in Answers \cup {<<>>} : Len(table[h]) = Len(a)
    BY <2>3
  <2>5. life \in [Handles -> {"zeroed"}] /\ sock \in [Handles -> {0}]
    OBVIOUS
  <2>6. bound \in [Fds -> 0 .. MaxPlugs] /\ index \in 0 .. plugs /\ plugs \in Nat
    OBVIOUS
  <2> QED
    BY <2>1, <2>2, <2>4, <2>5, <2>6 DEF TypeOK, Flags
<1>2. Calls /\ Sockets /\ NoSocketLeft /\ Progress
  BY DEF Calls, Sockets, NoSocketLeft, Progress, Unopened, Opening
<1>3. Lists /\ TableOfAnswer
  BY FS_EmptySet DEF Lists, TableOfAnswer
<1> QED
  BY <1>1, <1>2, <1>3 DEF IInv

\* What an action that leaves the table and its history alone has to say nothing
\* about.
LEMMA TableKept ==
  ASSUME IInv, UNCHANGED <<table, answers>>
  PROVE  Lists' /\ TableOfAnswer'
BY DEF IInv, Lists, TableOfAnswer

LEMMA OpenInv == ASSUME IInv, NEW h \in Handles, Open(h) PROVE IInv'
<1> DEFINE f == Min(FreeFds)
<1> USE InterfaceAssumption
<1>1. /\ f \in Fds /\ fds[f] = "free" /\ f \in Nat
      /\ op' = "init" /\ cur' = h /\ pc = "idle" /\ Unopened(h)
      /\ fds' = [fds EXCEPT ![f] = h]
      /\ upset' = [upset EXCEPT ![h] = FALSE]
      /\ UNCHANGED <<ifr, table, answers, bound, device>>
  BY OpensFree DEF Open, Unopened, Fds
<1>2. TypeOK /\ Calls /\ Sockets /\ NoSocketLeft /\ Progress
  BY DEF IInv
<1> HIDE DEF f
<1>3. \A x \in Fds : x # f => fds'[x] = fds[x]
  BY <1>1, <1>2 DEF TypeOK
<1>4. fds'[f] = h /\ f \in Int /\ \A g \in Handles : g # "free" /\ fds[f] # g
  BY <1>1, <1>2 DEF TypeOK
<1>5. \A g \in Handles : sock[g] > 0 => sock[g] \in Fds /\ sock[g] # f
  BY <1>2, <1>4 DEF TypeOK, Sockets, Fds
<1>6. sock[h] <= 0
  BY <1>1, <1>2 DEF Sockets, Opening
<1>7. \A x \in Fds \ {0} : bound[x] # 0 =>
        \E g \in Handles : fds[x] = g /\ sock[g] = x
  BY <1>1, <1>2 DEF NoSocketLeft
<1>8. CASE /\ index # 0 /\ pc' = "bind" /\ fd' = f /\ ifindex' = index
           /\ UNCHANGED <<life, sock>>
  <2>1. TypeOK'
    BY <1>1, <1>2, <1>8 DEF TypeOK, device
  <2>2. Calls'
    BY <1>1, <1>8 DEF Calls, Unopened
  <2>3. Sockets'
    BY <1>1, <1>2, <1>3, <1>4, <1>5, <1>8 DEF Sockets, Opening, Unopened
  <2>4. NoSocketLeft'
    BY <1>1, <1>3, <1>4, <1>7, <1>8 DEF NoSocketLeft
  <2>5. Progress'
    BY <1>1, <1>2, <1>3, <1>4, <1>8 DEF Progress, Attached, Hearing, Unopened, TypeOK, device
  <2> QED
    BY <2>1, <2>2, <2>3, <2>4, <2>5, <1>1, TableKept DEF IInv
<1>9. CASE /\ index = 0 /\ Return(h, "failed") /\ sock' = [sock EXCEPT ![h] = -1]
           /\ UNCHANGED <<fd, ifindex>>
  <2>1. TypeOK'
    BY <1>1, <1>2, <1>9 DEF TypeOK, device, Return
  <2>2. Calls'
    BY <1>1, <1>9 DEF Calls, Return
  <2>3. Sockets'
    BY <1>1, <1>2, <1>3, <1>4, <1>5, <1>9 DEF Sockets, Opening, Unopened, Return, TypeOK
  <2>4. NoSocketLeft'
    BY <1>1, <1>2, <1>3, <1>4, <1>6, <1>7, <1>9 DEF NoSocketLeft, TypeOK, Fds
  <2>5. Progress'
    BY <1>1, <1>2, <1>3, <1>4, <1>9 DEF Progress, Attached, Hearing, TypeOK, Return, device
  <2> QED
    BY <2>1, <2>2, <2>3, <2>4, <2>5, <1>1, TableKept DEF IInv
<1> QED
  BY <1>1, <1>8, <1>9 DEF Open, f

LEMMA BindInv == ASSUME IInv, Bind PROVE IInv'
<1> USE InterfaceAssumption
<1>1. /\ pc = "bind" /\ ifindex = index /\ pc' = "getflags" /\ fd' = 0 /\ ifindex' = 0
      /\ bound' = [bound EXCEPT ![fd] = ifindex]
      /\ sock' = [sock EXCEPT ![cur] = fd]
      /\ UNCHANGED <<op, cur, ifr, life, table, answers, fds, device, upset>>
  BY DEF Bind
<1>2. TypeOK /\ Calls /\ Sockets /\ NoSocketLeft /\ Progress
  BY DEF IInv
<1>3. op = "init" /\ Unopened(cur) /\ fds[fd] = cur /\ sock[cur] <= 0
  BY <1>1, <1>2 DEF TypeOK, Calls, Sockets, Opening
<1>4. fd \in Fds /\ cur \in Handles /\ sock'[cur] = fd /\ bound'[fd] = index
  BY <1>1, <1>2 DEF TypeOK
<1>5. \A h \in Handles : h # cur => sock'[h] = sock[h]
  BY <1>1, <1>2 DEF TypeOK
<1>6. \A x \in Fds : x # fd => bound'[x] = bound[x]
  BY <1>1, <1>2 DEF TypeOK
<1>7. TypeOK'
  BY <1>1, <1>2, <1>4 DEF TypeOK, device, Fds
<1>8. Calls'
  BY <1>1, <1>2 DEF Calls, Unopened
<1>9. Sockets'
  BY <1>1, <1>2, <1>3, <1>4, <1>5 DEF Sockets, Unopened, Opening
<1>10. NoSocketLeft'
  <2>1. ASSUME NEW x \in Fds \ {0}, bound'[x] # 0, x # fd
        PROVE  \E h \in Handles : fds'[x] = h /\ sock'[h] = x
    <3>1. PICK h \in Handles : fds[x] = h /\ sock[h] = x
      BY <1>2, <1>6, <2>1 DEF NoSocketLeft
    <3>2. h # cur
      BY <1>3, <2>1, <3>1 DEF Fds
    <3> QED
      BY <1>1, <1>5, <3>1, <3>2
  <2> QED
    BY <1>1, <1>3, <1>4, <2>1 DEF NoSocketLeft
<1>11. Progress'
  <2>1. ~upset[cur] => Attached(cur)'
    BY <1>1, <1>2, <1>3, <1>4 DEF Progress, Attached, device
  <2>2. ASSUME NEW h \in Handles, life[h] = "ready", ~upset[h]
        PROVE  Attached(h)' /\ Hearing'
    <3>1. h # cur /\ Attached(h) /\ Hearing
      BY <1>2, <1>3, <2>2 DEF Progress, Unopened
    <3>2. sock[h] # fd
      BY <1>3, <3>1 DEF Attached
    <3> QED
      BY <1>1, <1>5, <1>6, <3>1, <3>2 DEF Attached, Hearing, device
  <2> QED
    BY <1>1, <2>1, <2>2 DEF Progress
<1> QED
  BY <1>1, <1>7, <1>8, <1>9, <1>10, <1>11, TableKept DEF IInv

\* The steps of a call that change the handle's life and the program counter
\* only: both ways to leave a stage.
LEMMA StageInv ==
  ASSUME IInv, pc \in {"getflags", "putflags", "hwinfo", "info", "channels"},
         UNCHANGED <<op, cur, fd, ifindex, sock, fds, bound, index, plugs, admin,
                     monitor, answer>>,
         ifr' \subseteq Flags, flags' \subseteq Flags,
         upset' \in [Handles -> BOOLEAN],
         \/ op = "init" /\ pc' \in {"putflags", "hwinfo", "info", "channels"} /\ life' = life
         \/ op = "fini" /\ pc' \in {"idle", "putflags"} /\ life' = life
         \/ op = "init" /\ (Return(cur, "failed") \/ Return(cur, "ready")),
         \A h \in Handles : table'[h] = table[h] \/ h = cur,
         table' \in [Handles -> Seq(Nat)],
         \E a \in Answers \cup {<<>>} : Len(table'[cur]) = Len(a),
         answers' \in [Handles -> SUBSET Answers]
  PROVE  TypeOK' /\ Calls' /\ Sockets' /\ NoSocketLeft'
<1>1. TypeOK /\ Calls /\ Sockets /\ NoSocketLeft
  BY DEF IInv
<1>2. life' \in [Handles -> {"zeroed", "ready", "failed", "closed"}]
  BY <1>1 DEF TypeOK, Return
<1>3. \A h \in Handles : \E a \in Answers \cup {<<>>} : Len(table'[h]) = Len(a)
  BY <1>1 DEF TypeOK
<1>4. pc' \in {"idle", "bind", "getflags", "putflags", "hwinfo", "info", "channels"}
  BY DEF Return
<1>5. TypeOK'
  BY <1>1, <1>2, <1>3, <1>4 DEF TypeOK
<1>6. Calls'
  BY <1>1 DEF Calls, Return, Unopened
<1>7. \A h \in Handles : h # cur => life'[h] = life[h]
  BY <1>1 DEF TypeOK, Return
<1>8. pc' # "bind"
  BY DEF Return
<1>9. ASSUME NEW h \in Handles, Unopened(h)', ~Opening(h)'
      PROVE  sock[h] <= 0
  <2>1. CASE h # cur
    BY <1>1, <1>7, <1>9, <2>1 DEF Sockets, Unopened, Opening
  <2>2. CASE h = cur /\ op = "fini"
    BY <1>1, <1>9, <2>2 DEF Sockets, Unopened, Opening, Return
  <2>3. CASE h = cur /\ op = "init"
    <3>1. pc' = "idle"
      BY <1>8, <1>9, <2>3 DEF Opening
    <3>2. life'[cur] \in {"failed", "ready"}
      BY <1>1, <2>3, <3>1 DEF TypeOK, Return
    <3> QED
      BY <1>9, <2>3, <3>2 DEF Unopened
  <2> QED
    BY <1>1, <2>1, <2>2, <2>3 DEF TypeOK
<1>10. Sockets'
  BY <1>1, <1>8, <1>9 DEF Sockets
<1>11. NoSocketLeft'
  BY <1>1, <1>8 DEF NoSocketLeft
<1> QED
  BY <1>5, <1>6, <1>10, <1>11

\* ... and what it needs of a table that is left alone.
LEMMA TableTyped ==
  ASSUME IInv, UNCHANGED <<table, answers>>
  PROVE  /\ \A h \in Handles : table'[h] = table[h] \/ h = cur
         /\ table' \in [Handles -> Seq(Nat)]
         /\ \E a \in Answers \cup {<<>>} : Len(table'[cur]) = Len(a)
         /\ answers' \in [Handles -> SUBSET Answers]
BY DEF IInv, TypeOK

LEMMA GetFlagsInv == ASSUME IInv, GetFlags PROVE IInv'
<1>1. /\ pc = "getflags"
      /\ UNCHANGED <<op, cur, fd, ifindex, sock, table, answers, kernel, device, upset>>
      /\ ifr' \in {flags, ifr}
      /\ \/ index # 0 /\ ifr' = flags /\ pc' = "putflags" /\ UNCHANGED life
         \/ op = "init" /\ Return(cur, "failed")
         \/ op = "fini" /\ pc' = "idle" /\ UNCHANGED life
  BY DEF GetFlags, AfterFlags, IInv, TypeOK
<1>2. TypeOK /\ Progress
  BY DEF IInv
<1>3. TypeOK' /\ Calls' /\ Sockets' /\ NoSocketLeft'
  BY <1>1, <1>2, TableTyped, StageInv DEF TypeOK, kernel, device
<1>4. Progress'
  BY <1>1, <1>2 DEF Progress, Attached, Hearing, Return, TypeOK, kernel, device
<1> QED
  BY <1>1, <1>3, <1>4, TableKept DEF IInv

LEMMA PutFlagsInv == ASSUME IInv, PutFlags PROVE IInv'
<1>1. /\ pc = "putflags" /\ ifr' = {}
      /\ UNCHANGED <<op, cur, fd, ifindex, sock, table, answers, kernel,
                     index, plugs, monitor, answer, admin>>
      /\ \/ /\ index # 0 /\ flags' = (ifr \ {"promisc"}) \cup Wanted
            /\ upset' = [h \in Handles |-> upset[h] \/ (op = "fini" /\ h # cur)]
            /\ op = "init" /\ pc' = "hwinfo" /\ UNCHANGED life
         \/ /\ index # 0 /\ flags' = (ifr \ {"promisc"}) \cup Wanted
            /\ upset' = [h \in Handles |-> upset[h] \/ (op = "fini" /\ h # cur)]
            /\ op = "fini" /\ pc' = "idle" /\ UNCHANGED life
         \/ /\ op = "init" /\ Return(cur, "failed") /\ UNCHANGED <<flags, upset>>
         \/ /\ op = "fini" /\ pc' = "idle" /\ UNCHANGED <<life, flags, upset>>
  BY DEF PutFlags, AfterFlags, IInv, TypeOK
<1>2. TypeOK /\ Calls /\ Progress
  BY DEF IInv
<1>3. /\ flags' \subseteq Flags /\ ifr' \subseteq Flags
      /\ op = "init" /\ pc' = "hwinfo" => Hearing'
  BY <1>1, <1>2 DEF TypeOK, Wanted, Flags, Hearing, Return
<1>4. upset' \in [Handles -> BOOLEAN]
  BY <1>1, <1>2 DEF TypeOK
<1>5. /\ \A h \in Handles : upset[h] => upset'[h]
      /\ op = "init" => \A h \in Handles : upset'[h] => upset[h]
  BY <1>1, <1>2 DEF TypeOK
<1>6. TypeOK' /\ Calls' /\ Sockets' /\ NoSocketLeft'
  BY <1>1, <1>2, <1>3, <1>4, TableTyped, StageInv DEF kernel
<1>7. \A h \in Handles : Attached(h) => Attached(h)'
  BY <1>1 DEF Attached, kernel
<1>8. pc' # "idle" /\ op' = "init" /\ ~upset'[cur'] =>
        Attached(cur') /\ pc' # "bind" /\ Hearing'
  BY <1>1, <1>2, <1>3, <1>5, <1>7 DEF Progress, TypeOK, Return
<1>9. ASSUME NEW h \in Handles, life'[h] = "ready", ~upset'[h]
      PROVE  Attached(h) /\ Hearing'
  <2>1. life[h] = "ready" /\ ~upset[h]
    BY <1>1, <1>2, <1>5, <1>9 DEF TypeOK, Return
  <2>2. Attached(h) /\ Hearing
    BY <1>2, <2>1 DEF Progress
  <2>3. op = "fini" => flags' = flags
    <3>1. CASE op = "fini" /\ flags' # flags
      <4>1. upset' = [g \in Handles |-> upset[g] \/ (op = "fini" /\ g # cur)]
        BY <1>1, <3>1
      <4>2. h = cur
        BY <1>9, <3>1, <4>1
      <4> QED
        BY <1>1, <1>2, <2>1, <3>1, <4>2 DEF Calls, Unopened
    <3> QED
      BY <3>1
  <2> QED
    BY <1>1, <1>3, <2>2, <2>3 DEF Hearing, TypeOK
<1>10. Progress'
  BY <1>1, <1>2, <1>7, <1>8, <1>9 DEF Progress, TypeOK
<1> QED
  BY <1>1, <1>6, <1>10, TableKept DEF IInv

LEMMA InfoInv == ASSUME IInv, HwInfo \/ InterfaceInfo PROVE IInv'
<1>1. /\ pc \in {"hwinfo", "info"}
      /\ UNCHANGED <<op, cur, fd, ifindex, ifr, sock, table, answers, kernel, device, upset>>
      /\ \/ pc' \in {"info", "channels"} /\ UNCHANGED life
         \/ Return(cur, "failed")
  BY DEF HwInfo, InterfaceInfo
<1>2. TypeOK /\ Calls /\ Progress
  BY DEF IInv
<1>3. op = "init"
  BY <1>1, <1>2 DEF TypeOK, Calls
<1>4. TypeOK' /\ Calls' /\ Sockets' /\ NoSocketLeft'
  BY <1>1, <1>2, <1>3, TableTyped, StageInv DEF TypeOK, kernel, device
<1>5. Progress'
  BY <1>1, <1>2 DEF Progress, Attached, Hearing, Return, TypeOK, kernel, device
<1> QED
  BY <1>1, <1>4, <1>5, TableKept DEF IInv

LEMMA ChannelInitInv == ASSUME IInv, ChannelInit PROVE IInv'
<1> USE InterfaceAssumption
<1>1. /\ pc = "channels"
      /\ \/ /\ index # 0 /\ table' = [table EXCEPT ![cur] = Listed(@, answer)]
            /\ answers' = [answers EXCEPT ![cur] = @ \cup {answer}]
         \/ UNCHANGED <<table, answers>>
      /\ \/ table'[cur] # <<>> /\ Return(cur, "ready")
         \/ Return(cur, "failed")
      /\ UNCHANGED <<op, cur, fd, ifindex, ifr, sock, kernel, device, upset>>
  BY DEF ChannelInit
<1>2. TypeOK /\ Calls /\ Progress /\ Lists /\ TableOfAnswer
  BY DEF IInv
<1>3. op = "init" /\ cur \in Handles
  BY <1>1, <1>2 DEF TypeOK, Calls
<1>4. /\ table[cur] \in Seq(Nat) /\ answer \in Seq(Nat) /\ answer \in Answers
      /\ answers[cur] \subseteq Answers
  BY <1>2, <1>3 DEF TypeOK
<1>5. /\ Listed(table[cur], answer) \in Seq(Nat)
      /\ Len(Listed(table[cur], answer)) = Len(answer)
      /\ table[cur] \in {<<>>, answer} => Listed(table[cur], answer) = answer
  BY <1>4, ListedLen
<1>6. /\ \A h \in Handles : table'[h] = table[h] \/ h = cur
      /\ table' \in [Handles -> Seq(Nat)]
      /\ \E a \in Answers \cup {<<>>} : Len(table'[cur]) = Len(a)
      /\ answers' \in [Handles -> SUBSET Answers]
  <2>1. CASE UNCHANGED <<table, answers>>
    BY <2>1, TableTyped
  <2>2. CASE /\ table' = [table EXCEPT ![cur] = Listed(@, answer)]
             /\ answers' = [answers EXCEPT ![cur] = @ \cup {answer}]
    <3>1. table'[cur] = Listed(table[cur], answer)
      BY <1>2, <1>3, <2>2 DEF TypeOK
    <3> QED
      BY <1>2, <1>3, <1>4, <1>5, <2>2, <3>1 DEF TypeOK
  <2> QED
    BY <1>1, <2>1, <2>2
<1>7. TypeOK' /\ Calls' /\ Sockets' /\ NoSocketLeft'
  BY <1>1, <1>2, <1>3, <1>6, StageInv DEF TypeOK, kernel, device
<1>8. Progress'
  BY <1>1, <1>2, <1>3 DEF Progress, Attached, Hearing, Return, TypeOK, kernel, device
<1>9. Lists' /\ TableOfAnswer'
  <2>1. CASE UNCHANGED <<table, answers>>
    BY <2>1, TableKept
  <2>2. CASE /\ table' = [table EXCEPT ![cur] = Listed(@, answer)]
             /\ answers' = [answers EXCEPT ![cur] = @ \cup {answer}]
    <3>1. /\ table'[cur] = Listed(table[cur], answer)
          /\ answers'[cur] = answers[cur] \cup {answer}
          /\ \A h \in Handles : h # cur => table'[h] = table[h] /\ answers'[h] = answers[h]
      BY <1>2, <1>3, <2>2 DEF TypeOK
    <3>2. IsFiniteSet(answers'[cur])
      BY <1>2, <1>3, <3>1, FS_AddElement DEF Lists
    <3>3. ASSUME Cardinality(answers'[cur]) < 2
          PROVE  table'[cur] = answer
      <4>1. answers[cur] \subseteq {answer} /\ Cardinality(answers[cur]) < 2
        BY <1>2, <1>3, <3>1, <3>3, OneAnswer DEF Lists
      <4>2. table[cur] \in {<<>>, answer}
        BY <1>2, <1>3, <4>1 DEF TableOfAnswer
      <4> QED
        BY <1>5, <3>1, <4>2
    <3> QED
      BY <1>2, <3>1, <3>2, <3>3 DEF Lists, TableOfAnswer
  <2> QED
    BY <1>1, <2>1, <2>2
<1> QED
  BY <1>7, <1>8, <1>9 DEF IInv

LEMMA FiniInv == ASSUME IInv, NEW h \in Handles, Fini(h) PROVE IInv'
<1> USE InterfaceAssumption
<1>1. /\ pc = "idle" /\ op' = "fini" /\ cur' = h /\ pc' = "getflags"
      /\ sock' = [sock EXCEPT ![h] = IF sock[h] > 0 THEN -1 ELSE sock[h]]
      /\ life' = [life EXCEPT ![h] = "closed"]
      /\ \/ /\ sock[h] > 0 /\ fds' = [fds EXCEPT ![sock[h]] = "free"]
            /\ bound' = [bound EXCEPT ![sock[h]] = 0]
         \/ sock[h] <= 0 /\ UNCHANGED kernel
      /\ UNCHANGED <<fd, ifindex, ifr, table, answers, device, upset>>
  <2>1. sock[h] \in Int
    BY DEF IInv, TypeOK, Fds
  <2> QED
    BY <2>1 DEF Fini, Close, Closing, ClosedSock, IInv, TypeOK
<1>2. TypeOK /\ Sockets /\ NoSocketLeft /\ Progress
  BY DEF IInv
<1>3. /\ sock[h] \in Fds \cup {-1}
      /\ sock[h] > 0 => sock[h] \in Fds /\ fds[sock[h]] = h
  BY <1>2 DEF TypeOK, Sockets, Fds
<1>4. /\ sock'[h] <= 0 /\ sock'[h] \in Fds \cup {-1}
      /\ life'[h] = "closed"
      /\ \A g \in Handles : g # h => sock'[g] = sock[g] /\ life'[g] = life[g]
  BY <1>1, <1>2, <1>3 DEF TypeOK, Fds
<1>5. \A x \in Fds : fds[x] # h => fds'[x] = fds[x] /\ bound'[x] = bound[x]
  BY <1>1, <1>2, <1>3 DEF TypeOK, kernel
<1>6. TypeOK'
  <2>1. fds' \in [Fds -> {"free", "app"} \cup Handles] /\ bound' \in [Fds -> 0 .. MaxPlugs]
    <3>1. CASE UNCHANGED kernel
      BY <1>2, <3>1 DEF TypeOK, kernel
    <3>2. CASE /\ sock[h] > 0 /\ fds' = [fds EXCEPT ![sock[h]] = "free"]
               /\ bound' = [bound EXCEPT ![sock[h]] = 0]
      BY <1>2, <1>3, <3>2 DEF TypeOK
    <3> QED
      BY <1>1, <3>1, <3>2
  <2>2. /\ sock' \in [Handles -> Fds \cup {-1}]
        /\ life' \in [Handles -> {"zeroed", "ready", "failed", "closed"}]
    BY <1>1, <1>2, <1>4 DEF TypeOK
  <2> QED
    BY <1>1, <1>2, <2>1, <2>2 DEF TypeOK, device
<1>7. Calls'
  BY <1>1, <1>4 DEF Calls, Unopened
<1>8. Sockets'
  <2>1. ASSUME NEW g \in Handles, sock'[g] > 0 PROVE fds'[sock'[g]] = g
    <3>1. g # h /\ sock[g] \in Fds /\ sock[g] > 0
      BY <1>2, <1>4, <2>1 DEF TypeOK, Fds
    <3>2. fds[sock[g]] = g
      BY <1>2, <3>1 DEF Sockets
    <3> QED
      BY <1>4, <1>5, <3>1, <3>2
  <2>2. ASSUME NEW g \in Handles, Unopened(g)' PROVE sock'[g] <= 0
    BY <1>1, <1>2, <1>4, <2>2 DEF Sockets, Unopened, Opening
  <2> QED
    BY <1>1, <2>1, <2>2 DEF Sockets
<1>9. NoSocketLeft'
  <2>1. ASSUME NEW x \in Fds \ {0}, bound'[x] # 0
        PROVE  \E g \in Handles : fds'[x] = g /\ sock'[g] = x
    <3>1. bound[x] # 0 /\ (sock[h] > 0 => x # sock[h])
      <4>1. CASE sock[h] <= 0 /\ UNCHANGED kernel
        BY <1>3, <2>1, <4>1 DEF kernel, Fds
      <4>2. CASE /\ sock[h] > 0 /\ bound' = [bound EXCEPT ![sock[h]] = 0]
        BY <1>2, <1>3, <2>1, <4>2 DEF TypeOK
      <4> QED
        BY <1>1, <4>1, <4>2
    <3>2. PICK g \in Handles : fds[x] = g /\ sock[g] = x
      BY <1>1, <1>2, <3>1 DEF NoSocketLeft
    <3>3. g # h
      BY <2>1, <3>1, <3>2 DEF Fds
    <3> QED
      BY <1>4, <1>5, <3>2, <3>3
  <2> QED
    BY <2>1 DEF NoSocketLeft
<1>10. Progress'
  <2>1. ASSUME NEW g \in Handles, life'[g] = "ready", ~upset'[g]
        PROVE  Attached(g)' /\ Hearing'
    <3>1. g # h /\ Attached(g) /\ Hearing
      BY <1>1, <1>2, <1>4, <2>1 DEF Progress
    <3> QED
      BY <1>1, <1>4, <1>5, <3>1 DEF Attached, Hearing, device
  <2> QED
    BY <1>1, <2>1 DEF Progress
<1> QED
  BY <1>1, <1>6, <1>7, <1>8, <1>9, <1>10, TableKept DEF IInv

LEMMA ExitInv == ASSUME IInv, Exit PROVE IInv'
<1> USE InterfaceAssumption DEF Exit, Zeroed
<1>1. TypeOK /\ Calls
  BY DEF IInv
<1>2. TypeOK'
  <2>1. fds' \in [Fds -> {"free", "app"} \cup Handles]
    BY DEF FdsAtStart
  <2>2. 0 \in Fds
    BY DEF Fds
  <2>3. <<>> \in Seq(Nat)
    OBVIOUS
  <2>4. /\ table' \in [Handles -> Seq(Nat)]
        /\ \A h \in Handles : \E a \in Answers \cup {<<>>} : Len(table'[h]) = Len(a)
    BY <2>3
  <2> QED
    BY <1>1, <2>1, <2>2, <2>4 DEF TypeOK, Flags, device
<1>3. Calls' /\ Sockets' /\ NoSocketLeft'
  BY <1>1 DEF Calls, Sockets, NoSocketLeft, Unopened, Opening
<1>4. Progress'
  BY DEF Progress
<1>5. Lists' /\ TableOfAnswer'
  BY FS_EmptySet DEF Lists, TableOfAnswer
<1> QED
  BY <1>2, <1>3, <1>4, <1>5 DEF IInv

LEMMA AppFileInv == ASSUME IInv, AppFile PROVE IInv'
<1> USE InterfaceAssumption
<1>1. /\ pc = "idle" /\ UNCHANGED <<call, handle, bound, device, upset>>
      /\ \E f \in Fds, own \in {"free", "app"} :
           fds[f] \in {"free", "app"} /\ fds' = [fds EXCEPT ![f] = own]
  <2>1. CASE FreeFds # {} /\ fds' = [fds EXCEPT ![Min(FreeFds)] = "app"]
    BY <2>1, OpensFree DEF AppFile
  <2>2. CASE \E f \in Fds : fds[f] = "app" /\ fds' = [fds EXCEPT ![f] = "free"]
    BY <2>2 DEF AppFile
  <2> QED
    BY <2>1, <2>2 DEF AppFile
<1>2. TypeOK /\ Calls /\ Sockets /\ NoSocketLeft /\ Progress
  BY DEF IInv
<1>3. \A x \in Fds, h \in Handles : fds[x] = h => fds'[x] = h
  BY <1>1, <1>2 DEF TypeOK
<1>4. TypeOK'
  BY <1>1, <1>2 DEF TypeOK, call, handle, device
<1>5. Calls'
  BY <1>1, <1>2 DEF Calls, Unopened, call, handle
<1>6. Sockets'
  <2>1. \A h \in Handles : sock[h] > 0 => sock[h] \in Fds
    BY <1>2 DEF TypeOK, Fds
  <2> QED
    BY <1>1, <1>2, <1>3, <2>1 DEF Sockets, Unopened, Opening, call, handle
<1>7. NoSocketLeft'
  BY <1>1, <1>2, <1>3 DEF NoSocketLeft, call, handle
<1>8. Progress'
  BY <1>1, <1>2, <1>3 DEF Progress, Attached, Hearing, call, handle, device
<1> QED
  BY <1>1, <1>4, <1>5, <1>6, <1>7, <1>8, TableKept DEF IInv, handle

\* What others do to the device upsets every handle.
LEMMA DeviceInv == ASSUME IInv, Unplug \/ Plug \/ Admin PROVE IInv'
<1> USE InterfaceAssumption
<1>1. /\ UNCHANGED <<call, handle, kernel>>
      /\ upset' = [h \in Handles |-> TRUE]
  BY DEF Unplug, Plug, Admin
<1>2. TypeOK /\ Calls /\ Sockets /\ NoSocketLeft
  BY DEF IInv
<1>3. TypeOK'
  <2>1. /\ index' \in 0 .. plugs' /\ plugs' \in 0 .. MaxPlugs /\ admin' \in 0 .. MaxAdmin
        /\ flags' \subseteq Flags /\ monitor' \in BOOLEAN /\ answer' \in Answers
    BY <1>2 DEF Unplug, Plug, Admin, TypeOK
  <2> QED
    BY <1>1, <1>2, <2>1 DEF TypeOK, call, handle, kernel
<1>4. Calls' /\ Sockets' /\ NoSocketLeft'
  BY <1>1, <1>2 DEF Calls, Sockets, NoSocketLeft, Unopened, Opening, call, handle, kernel
<1>5. Progress'
  BY <1>1, <1>3 DEF Progress, TypeOK
<1> QED
  BY <1>1, <1>3, <1>4, <1>5, TableKept DEF IInv, handle

LEMMA StutterInv == ASSUME IInv, UNCHANGED vars PROVE IInv'
<1> USE DEF vars
<1>1. TypeOK' /\ Calls' /\ Sockets' /\ NoSocketLeft'
  BY DEF IInv, TypeOK, Calls, Sockets, NoSocketLeft, Unopened, Opening
<1>2. Progress'
  BY DEF IInv, Progress, Attached, Hearing
<1> QED
  BY <1>1, <1>2, TableKept DEF IInv

LEMMA NextInv == IInv /\ [Next]_vars => IInv'
<1> SUFFICES ASSUME IInv, [Next]_vars PROVE IInv'
  OBVIOUS
<1>1. ASSUME NEW h \in Handles, Open(h) PROVE IInv'
  BY <1>1, OpenInv
<1>2. ASSUME NEW h \in Handles, Fini(h) PROVE IInv'
  BY <1>2, FiniInv
<1>3. CASE Bind
  BY <1>3, BindInv
<1>4. CASE GetFlags
  BY <1>4, GetFlagsInv
<1>5. CASE PutFlags
  BY <1>5, PutFlagsInv
<1>6. CASE HwInfo \/ InterfaceInfo
  BY <1>6, InfoInv
<1>7. CASE ChannelInit
  BY <1>7, ChannelInitInv
<1>8. CASE Exit
  BY <1>8, ExitInv
<1>9. CASE AppFile
  BY <1>9, AppFileInv
<1>10. CASE Unplug \/ Plug \/ Admin
  BY <1>10, DeviceInv
<1>11. CASE UNCHANGED vars
  BY <1>11, StutterInv
<1> QED
  BY <1>1, <1>2, <1>3, <1>4, <1>5, <1>6, <1>7, <1>8, <1>9, <1>10, <1>11 DEF Next

-----------------------------------------------------------------------------
\* The inductive invariant holds, whatever the device, its administrator, the
\* application and the end of the process do between any two system calls.
THEOREM Invariance == Spec => []IInv
BY InitInv, NextInv, PTL DEF Spec

\* Every variable keeps to its type: no call leaves a descriptor, an index or a
\* table outside of what the C types and the bounds give it.
THEOREM TypeCorrect == Spec => []TypeOK
<1>1. IInv => TypeOK
  BY DEF IInv
<1> QED
  BY <1>1, Invariance, PTL

\* A socket that uwifi_fini is going to close and the application reads from is
\* this interface's own (interface.c:58, packet_sock.c): with any number of
\* handles, never a descriptor somebody else was given in the meantime.
THEOREM SocketsOwned == Spec => []OwnSocket
<1>1. IInv => OwnSocket
  BY DEF IInv, Sockets, OwnSocket
<1> QED
  BY <1>1, Invariance, PTL

\* A socket that receives frames is one some interface will close, also after
\* an uwifi_init that failed half way; descriptor 0 is the exception.
THEOREM SocketsClosed == Spec => []NoSocketLeft
<1>1. IInv => NoSocketLeft
  BY DEF IInv
<1> QED
  BY <1>1, Invariance, PTL

\* When uwifi_init returns true and nobody disturbed it, the interface is bound
\* to the device and the device is up and promiscuous, and this stays so until
\* somebody changes it.
THEOREM InitListens == Spec => []Listens
<1>1. IInv => Listens
  BY DEF IInv, Progress, Attached, Hearing, Listens
<1> QED
  BY <1>1, Invariance, PTL

\* Repeated initialisation leaves the driver's list in the table, not the list
\* appended to itself (nl80211_get_freqlist_cb counts the new entries only).
THEOREM TablesRight == Spec => []TableOfAnswer
<1>1. IInv => TableOfAnswer
  BY DEF IInv
<1> QED
  BY <1>1, Invariance, PTL
=============================================================================
