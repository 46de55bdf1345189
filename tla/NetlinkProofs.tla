--------------------------- MODULE NetlinkProofs ----------------------------
(***************************************************************************)
(* Proofs about Netlink, for any size of a dump and of the application's   *)
(* room for it, any number of groups and events, with and without loss.    *)
(***************************************************************************)
EXTENDS Netlink, FunctionTheorems, FiniteSetTheorems, SequenceTheorems, TLAPS

-----------------------------------------------------------------------------
\* Sequences of messages, and the usable entries in them.

Where(s) == {i \in DOMAIN s : s[i] = "valid"}

LEMMA Shape ==
  ASSUME NEW s \in Seq(Messages)
  PROVE  /\ Len(s) \in Nat /\ DOMAIN s = 1 .. Len(s)
         /\ \A i \in 1 .. Len(s) : s[i] \in Messages
         /\ IsFiniteSet(Where(s)) /\ Where(s) \subseteq 1 .. Len(s)
         /\ Valid(s) = Cardinality(Where(s)) /\ Valid(s) \in Nat
<1>1. Len(s) \in Nat /\ DOMAIN s = 1 .. Len(s)
  BY LenProperties
<1>2. \A i \in 1 .. Len(s) : s[i] \in Messages
  BY ElementOfSeq
<1>3. Where(s) \in SUBSET (1 .. Len(s))
  BY <1>1 DEF Where
<1>4. IsFiniteSet(1 .. Len(s))
  BY <1>1, FS_Interval
<1>5. IsFiniteSet(Where(s))
  BY <1>3, <1>4, FS_Subset
<1>6. Valid(s) = Cardinality(Where(s)) /\ Valid(s) \in Nat
  BY <1>5, FS_CardinalityType DEF Valid, Where
<1> QED
  BY <1>1, <1>2, <1>3, <1>5, <1>6

\* Two sets of integers, one the other one moved, have the same size.
LEMMA Moved ==
  ASSUME NEW A \in SUBSET Int, NEW B \in SUBSET Int, NEW k \in Int,
         IsFiniteSet(A), \A i \in Int : i \in A <=> i + k \in B
  PROVE  Cardinality(A) = Cardinality(B)
<1> DEFINE f == [i \in A |-> i + k]
<1>1. f \in [A -> B]
  OBVIOUS
<1>2. \A i, j \in A : f[i] = f[j] => i = j
  OBVIOUS
<1>3. ASSUME NEW j \in B PROVE \E i \in A : f[i] = j
  <2>1. j - k \in Int /\ (j - k) + k = j
    OBVIOUS
  <2>2. j - k \in A
    BY <2>1
  <2> QED
    BY <2>1, <2>2
<1>4. f \in Bijection(A, B)
  <2>1. f \in Injection(A, B)
    BY <1>1, <1>2 DEF Injection, IsInjective
  <2>2. f \in Surjection(A, B)
    BY <1>1, <1>3 DEF Surjection
  <2> QED
    BY <2>1, <2>2 DEF Bijection
<1>5. ExistsBijection(A, B)
  BY <1>4 DEF ExistsBijection
<1> QED
  BY <1>5, FS_Bijection

LEMMA ValidTail ==
  ASSUME NEW s \in Seq(Messages), s # <<>>
  PROVE  /\ Tail(s) \in Seq(Messages) /\ Len(Tail(s)) = Len(s) - 1
         /\ \A i \in 1 .. Len(Tail(s)) : Tail(s)[i] = s[i + 1]
         /\ Head(s) = s[1] /\ Head(s) \in Messages /\ Len(s) > 0
         /\ Valid(s) = Valid(Tail(s)) + (IF Head(s) = "valid" THEN 1 ELSE 0)
<1>1. /\ Tail(s) \in Seq(Messages) /\ Len(Tail(s)) = Len(s) - 1
      /\ \A i \in 1 .. Len(Tail(s)) : Tail(s)[i] = s[i + 1]
      /\ Head(s) \in Messages
  BY HeadTailProperties
<1>2. Head(s) = s[1]
  OBVIOUS
<1>3. /\ Len(s) \in Nat /\ DOMAIN s = 1 .. Len(s) /\ IsFiniteSet(Where(s))
      /\ Where(s) \subseteq 1 .. Len(s)
      /\ Valid(s) = Cardinality(Where(s)) /\ Valid(s) \in Nat
  BY Shape
<1>4. /\ DOMAIN Tail(s) = 1 .. Len(Tail(s)) /\ IsFiniteSet(Where(Tail(s)))
      /\ Where(Tail(s)) \subseteq 1 .. Len(Tail(s))
      /\ Valid(Tail(s)) = Cardinality(Where(Tail(s))) /\ Valid(Tail(s)) \in Nat
  BY <1>1, Shape
<1>5. Len(s) > 0
  BY <1>3, EmptySeq
<1>6. \A i \in Int : i \in Where(Tail(s)) <=> i + 1 \in Where(s) \ {1}
  BY <1>1, <1>3, <1>4 DEF Where
<1>7. Cardinality(Where(Tail(s))) = Cardinality(Where(s) \ {1})
  <2>1. Where(Tail(s)) \in SUBSET Int /\ Where(s) \ {1} \in SUBSET Int /\ 1 \in Int
    BY <1>3, <1>4
  <2> QED
    BY <1>4, <1>6, <2>1, Moved
<1>8. Cardinality(Where(s) \ {1}) =
        IF 1 \in Where(s) THEN Cardinality(Where(s)) - 1 ELSE Cardinality(Where(s))
  BY <1>3, FS_RemoveElement
<1>9. 1 \in Where(s) <=> Head(s) = "valid"
  BY <1>2, <1>3, <1>5 DEF Where
<1> QED
  BY <1>1, <1>2, <1>3, <1>4, <1>5, <1>7, <1>8, <1>9

\* What is put behind events counts as it is.
LEMMA ValidConcat ==
  ASSUME NEW q \in Seq(Messages), NEW s \in Seq(Messages),
         \A i \in DOMAIN q : q[i] = "event"
  PROVE  /\ q \o s \in Seq(Messages) /\ Len(q \o s) = Len(q) + Len(s)
         /\ \A i \in 1 .. Len(q) + Len(s) :
              (q \o s)[i] = IF i <= Len(q) THEN "event" ELSE s[i - Len(q)]
         /\ Valid(q \o s) = Valid(s)
<1>1. /\ q \o s \in Seq(Messages) /\ Len(q \o s) = Len(q) + Len(s)
      /\ \A i \in 1 .. Len(q) + Len(s) :
           (q \o s)[i] = IF i <= Len(q) THEN q[i] ELSE s[i - Len(q)]
  BY ConcatProperties
<1>2. Len(q) \in Nat /\ DOMAIN q = 1 .. Len(q)
  BY Shape
<1>3. /\ Len(s) \in Nat /\ DOMAIN s = 1 .. Len(s) /\ IsFiniteSet(Where(s))
      /\ Where(s) \subseteq 1 .. Len(s) /\ Valid(s) = Cardinality(Where(s))
  BY Shape
<1>4. /\ DOMAIN (q \o s) = 1 .. Len(q \o s) /\ Where(q \o s) \subseteq 1 .. Len(q \o s)
      /\ Valid(q \o s) = Cardinality(Where(q \o s))
  BY <1>1, Shape
<1>5. \A i \in 1 .. Len(q) + Len(s) :
        (q \o s)[i] = IF i <= Len(q) THEN "event" ELSE s[i - Len(q)]
  BY <1>1, <1>2
<1>6. \A i \in Int : i \in Where(s) <=> i + Len(q) \in Where(q \o s)
  BY <1>1, <1>2, <1>3, <1>4, <1>5 DEF Where
<1>7. Cardinality(Where(s)) = Cardinality(Where(q \o s))
  <2>1. Where(s) \in SUBSET Int /\ Where(q \o s) \in SUBSET Int /\ Len(q) \in Int
    BY <1>2, <1>3, <1>4
  <2> QED
    BY <1>3, <1>6, <2>1, Moved
<1> QED
  BY <1>1, <1>3, <1>4, <1>5, <1>7

LEMMA ValidAppend ==
  ASSUME NEW s \in Seq(Messages), NEW m \in Messages, m # "valid"
  PROVE  /\ Append(s, m) \in Seq(Messages) /\ Len(Append(s, m)) = Len(s) + 1
         /\ \A i \in 1 .. Len(s) : Append(s, m)[i] = s[i]
         /\ Append(s, m)[Len(s) + 1] = m
         /\ Valid(Append(s, m)) = Valid(s)
<1>1. /\ Append(s, m) \in Seq(Messages) /\ Len(Append(s, m)) = Len(s) + 1
      /\ \A i \in 1 .. Len(s) : Append(s, m)[i] = s[i]
      /\ Append(s, m)[Len(s) + 1] = m
  BY AppendProperties
<1>2. Len(s) \in Nat /\ DOMAIN s = 1 .. Len(s) /\ Valid(s) = Cardinality(Where(s))
  BY Shape
<1>3. /\ DOMAIN Append(s, m) = 1 .. Len(Append(s, m))
      /\ Valid(Append(s, m)) = Cardinality(Where(Append(s, m)))
  BY <1>1, Shape
<1>4. Where(Append(s, m)) = Where(s)
  BY <1>1, <1>2, <1>3 DEF Where
<1> QED
  BY <1>1, <1>2, <1>3, <1>4

\* An answer of the kernel: entries, and at its end what ends it.
Answer(s) ==
  /\ s \in Seq(Messages) /\ Len(s) > 0
  /\ \A i \in 1 .. Len(s) - 1 : s[i] \in {"valid", "short"}
  /\ s[Len(s)] \in {"ack", "done"}
  /\ Valid(s) \in 0 .. MaxEntries + 1

LEMMA EntriesThenEnd ==
  ASSUME NEW l \in Seq({"valid", "short"}), NEW e \in {"ack", "done"},
         Len(l) <= MaxEntries + 1
  PROVE  Answer(Append(l, e)) /\ Front(Append(l, e)) = l
         /\ l \in Seq(Messages) /\ Valid(l) = Valid(Append(l, e))
<1>1. l \in Seq(Messages) /\ e \in Messages /\ e # "valid"
  <2>1. {"valid", "short"} \subseteq Messages
    BY DEF Messages
  <2>2. l \in Seq(Messages)
    BY <2>1, SeqMonotonic
  <2> QED
    BY <2>2 DEF Messages
<1>2. /\ Len(l) \in Nat /\ DOMAIN l = 1 .. Len(l) /\ IsFiniteSet(Where(l))
      /\ Where(l) \subseteq 1 .. Len(l)
      /\ Valid(l) = Cardinality(Where(l)) /\ Valid(l) \in Nat
  BY <1>1, Shape
<1>3. \A i \in 1 .. Len(l) : l[i] \in {"valid", "short"}
  BY ElementOfSeq
<1>4. Valid(l) <= Len(l)
  <2>1. /\ IsFiniteSet(1 .. Len(l))
        /\ Cardinality(1 .. Len(l)) = IF 1 > Len(l) THEN 0 ELSE Len(l) - 1 + 1
    <3>1. 1 \in Int /\ Len(l) \in Int
      BY <1>2
    <3> QED
      BY <3>1, FS_Interval, Zenon
  <2>2. Cardinality(1 .. Len(l)) = Len(l)
    BY <1>2, <2>1
  <2>3. Cardinality(Where(l)) <= Cardinality(1 .. Len(l))
    BY <1>2, <2>1, FS_Subset
  <2> QED
    BY <1>2, <2>2, <2>3
<1>5. /\ Append(l, e) \in Seq(Messages) /\ Len(Append(l, e)) = Len(l) + 1
      /\ \A i \in 1 .. Len(l) : Append(l, e)[i] = l[i]
      /\ Append(l, e)[Len(l) + 1] = e
      /\ Valid(Append(l, e)) = Valid(l)
  BY <1>1, ValidAppend
<1>6. Answer(Append(l, e))
  BY <1>2, <1>3, <1>4, <1>5, NetlinkAssumption DEF Answer
<1>7. Front(Append(l, e)) = l
  <2> DEFINE t == Append(l, e)
             f == SubSeq(t, 1, Len(t) - 1)
  <2>1. \A i \in 1 .. Len(t) - 1 : t[i] \in Messages
    BY <1>2, <1>5, <1>1, ElementOfSeq
  <2>2. /\ f \in Seq(Messages) /\ Len(f) = Len(l)
        /\ \A i \in 1 .. Len(l) : f[i] = t[i]
    <3>1. 1 \in Int /\ Len(t) - 1 \in Int /\ Len(t) - 1 = Len(l)
      BY <1>2, <1>5
    <3>2. /\ f \in Seq(Messages)
          /\ Len(f) = IF 1 <= Len(t) - 1 THEN Len(t) - 1 - 1 + 1 ELSE 0
          /\ \A i \in 1 .. Len(t) - 1 - 1 + 1 : f[i] = t[1 + i - 1]
      BY <2>1, <3>1, SubSeqProperties
    <3> HIDE DEF t, f
    <3> QED
      BY <1>2, <3>1, <3>2
  <2>3. \A i \in 1 .. Len(l) : f[i] = l[i]
    BY <1>5, <2>2
  <2> HIDE DEF f
  <2>4. f = l
    BY <1>1, <1>2, <2>2, <2>3, SeqEqual
  <2> QED
    BY <2>4 DEF f, Front
<1> QED
  BY <1>1, <1>5, <1>6, <1>7

LEMMA Replied ==
  ASSUME NEW s \in Replies, kind \in Kinds
  PROVE  /\ Answer(s)
         /\ Front(s) \in Seq(Messages) /\ Valid(Front(s)) = Valid(s)
         /\ \A i \in 1 .. Len(Front(s)) : Front(s)[i] \in {"valid", "short"}
<1> SUFFICES \E l \in Seq({"valid", "short"}), e \in {"ack", "done"} :
               s = Append(l, e) /\ Len(l) <= MaxEntries + 1
  BY EntriesThenEnd, ElementOfSeq
<1>1. CASE kind = "do"
  <2>1. s = Append(<<>>, "ack") /\ <<>> \in Seq({"valid", "short"}) /\ Len(<<>>) = 0
    BY <1>1 DEF Replies
  <2>2. PICK l \in Seq({"valid", "short"}) : s = Append(l, "ack") /\ Len(l) = 0
    BY <2>1
  <2>3. Len(l) <= MaxEntries + 1
    BY <2>2, NetlinkAssumption
  <2> QED
    BY <2>2, <2>3
<1>2. CASE kind \in {"get", "group"}
  <2>1. PICK v \in {"valid", "short"} : s = <<v, "ack">>
    BY <1>2 DEF Replies
  <2>2. s = Append(<<v>>, "ack") /\ <<v>> \in Seq({"valid", "short"}) /\ Len(<<v>>) = 1
    BY <2>1
  <2>3. PICK l \in Seq({"valid", "short"}) : s = Append(l, "ack") /\ Len(l) = 1
    BY <2>2
  <2>4. Len(l) <= MaxEntries + 1
    BY <2>3, NetlinkAssumption
  <2> QED
    BY <2>3, <2>4
<1>3. CASE kind = "dump"
  <2>1. PICK l \in EntryLists : s = Append(l, "done")
    BY <1>3 DEF Replies
  <2>2. PICK n \in 0 .. MaxEntries : l \in [1 .. n -> {"valid", "short"}]
    BY <2>1 DEF EntryLists
  <2>3. l \in Seq({"valid", "short"}) /\ Len(l) = n
    BY <2>2, NetlinkAssumption, IsASeq, LenProperties
  <2>4. Len(l) <= MaxEntries + 1
    BY <2>3, NetlinkAssumption
  <2> QED
    BY <2>1, <2>3, <2>4
<1> QED
  BY <1>1, <1>2, <1>3 DEF Kinds

-----------------------------------------------------------------------------
\* What a socket holds, when something is taken from it or put into it.

LEMMA EventsOnly ==
  ASSUME NEW q \in Seq(Messages), NEW c, OnlyEvents(q)
  PROVE  EndsLast(q) /\ EndsTell(q, c) /\ Valid(q) = 0
<1>1. EndsLast(q) /\ EndsTell(q, c)
  BY DEF OnlyEvents, EndsLast, EndsTell, Ends
<1>2. Where(q) = {}
  BY DEF OnlyEvents, Where
<1> QED
  BY <1>1, <1>2, Shape, FS_EmptySet

LEMMA Taking ==
  ASSUME NEW q \in Seq(Messages), NEW c, q # <<>>
  PROVE  /\ OnlyEvents(q) => Head(q) = "event" /\ OnlyEvents(Tail(q))
         /\ EndsLast(q) => EndsLast(Tail(q)) /\ (Ends(Head(q)) => OnlyEvents(Tail(q)))
         /\ EndsTell(q, c) => /\ EndsTell(Tail(q), c)
                              /\ Ends(Head(q)) => (Good(Head(q)) <=> Succeeds(c))
<1>1. /\ Tail(q) \in Seq(Messages) /\ Len(Tail(q)) = Len(q) - 1
      /\ \A i \in 1 .. Len(Tail(q)) : Tail(q)[i] = q[i + 1]
      /\ Head(q) = q[1] /\ Len(q) > 0
  BY ValidTail
<1>2. Len(q) \in Nat /\ DOMAIN q = 1 .. Len(q) /\ DOMAIN Tail(q) = 1 .. Len(q) - 1
  BY <1>1, Shape
<1>3. 1 \in DOMAIN q /\ \A i \in DOMAIN Tail(q) : i + 1 \in DOMAIN q /\ 1 < i + 1
  BY <1>1, <1>2
<1>4. OnlyEvents(q) => Head(q) = "event" /\ OnlyEvents(Tail(q))
  BY <1>1, <1>2, <1>3 DEF OnlyEvents
<1>5. EndsLast(q) => EndsLast(Tail(q)) /\ (Ends(Head(q)) => OnlyEvents(Tail(q)))
  BY <1>1, <1>2, <1>3 DEF EndsLast, OnlyEvents
<1>6. EndsTell(q, c) => /\ EndsTell(Tail(q), c)
                        /\ Ends(Head(q)) => (Good(Head(q)) <=> Succeeds(c))
  BY <1>1, <1>2, <1>3 DEF EndsTell
<1> QED
  BY <1>4, <1>5, <1>6

LEMMA Putting ==
  ASSUME NEW q \in Seq(Messages), NEW s \in Seq(Messages), NEW c, OnlyEvents(q),
         \A i \in 1 .. Len(s) - 1 : ~Ends(s[i]),
         Len(s) > 0 /\ Ends(s[Len(s)]) => (Good(s[Len(s)]) <=> Succeeds(c))
  PROVE  /\ q \o s \in Seq(Messages) /\ Valid(q \o s) = Valid(s)
         /\ EndsLast(q \o s) /\ EndsTell(q \o s, c)
<1>1. /\ q \o s \in Seq(Messages) /\ Len(q \o s) = Len(q) + Len(s)
      /\ \A i \in 1 .. Len(q) + Len(s) :
           (q \o s)[i] = IF i <= Len(q) THEN "event" ELSE s[i - Len(q)]
      /\ Valid(q \o s) = Valid(s)
  BY ValidConcat DEF OnlyEvents
<1>2. /\ Len(q) \in Nat /\ Len(s) \in Nat /\ DOMAIN (q \o s) = 1 .. Len(q) + Len(s)
  BY <1>1, Shape
<1>3. ASSUME NEW i \in DOMAIN (q \o s), Ends((q \o s)[i])
      PROVE  i = Len(q) + Len(s) /\ Len(s) > 0 /\ (q \o s)[i] = s[Len(s)]
  <2>1. i > Len(q)
    BY <1>1, <1>2, <1>3 DEF Ends
  <2>2. i - Len(q) \in 1 .. Len(s) /\ (q \o s)[i] = s[i - Len(q)]
    BY <1>1, <1>2, <2>1
  <2>3. i - Len(q) = Len(s)
    BY <1>2, <1>3, <2>2
  <2> QED
    BY <1>2, <2>2, <2>3
<1>4. EndsLast(q \o s)
  BY <1>2, <1>3 DEF EndsLast
<1>5. EndsTell(q \o s, c)
  BY <1>3 DEF EndsTell
<1> QED
  BY <1>1, <1>4, <1>5

LEMMA Arriving ==
  ASSUME NEW q \in Seq(Messages), NEW c
  PROVE  LET r == Append(q, "event")
         IN /\ r \in Seq(Messages) /\ Valid(r) = Valid(q)
            /\ OnlyEvents(q) => OnlyEvents(r)
            /\ EndsLast(q) => EndsLast(r)
            /\ EndsTell(q, c) => EndsTell(r, c)
<1> DEFINE r == Append(q, "event")
<1>1. /\ r \in Seq(Messages) /\ Len(r) = Len(q) + 1
      /\ \A i \in 1 .. Len(q) : r[i] = q[i]
      /\ r[Len(q) + 1] = "event" /\ Valid(r) = Valid(q)
  BY ValidAppend DEF Messages
<1>2. Len(q) \in Nat /\ DOMAIN q = 1 .. Len(q) /\ DOMAIN r = 1 .. Len(q) + 1
  BY <1>1, Shape
<1>3. \A i \in DOMAIN r : (i \in DOMAIN q /\ r[i] = q[i]) \/ (i = Len(q) + 1 /\ r[i] = "event")
  BY <1>1, <1>2
<1> HIDE DEF r
<1>4. OnlyEvents(q) => OnlyEvents(r)
  BY <1>3 DEF OnlyEvents
<1>5. EndsLast(q) => EndsLast(r)
  BY <1>2, <1>3 DEF EndsLast, Ends
<1>6. EndsTell(q, c) => EndsTell(r, c)
  BY <1>3 DEF EndsTell, Ends
<1> QED
  BY <1>1, <1>4, <1>5, <1>6 DEF r

-----------------------------------------------------------------------------
\* One lemma per action, or per group of actions that differ little.

Socks == {"cmd", "event"}

LEMMA Queues ==
  ASSUME TypeOK
  PROVE  /\ \A s \in Socks : queue[s] \in Seq(Messages)
         /\ \A k \in Kinds : Sock(k) \in Socks
  BY DEF TypeOK, Socks, Sock

\* The end of a call, which also is the end of the look for a group.
LEMMA Returned ==
  ASSUME TypeOK, Joining, phase # "idle", NEW r \in BOOLEAN,
         NEW m \in {"none", "held", "freed", "leaked", "twice"}, Returns(r, m)
  PROVE  /\ phase' = "idle" /\ ret' = r
         /\ msg' \in {"none", "held", "freed", "leaked", "twice"}
         /\ evpc' \in {"closed", "joining", "ready", "failed"}
         /\ tried' \in 0 .. NumGroups /\ groups' \in 0 .. tried'
         /\ Joining'
<1>1. phase' = "idle" /\ ret' = r /\ msg' \in {"none", "held", "freed", "leaked", "twice"}
  BY DEF Returns, Freed
<1>2. CASE kind # "group" /\ UNCHANGED event
  BY <1>1, <1>2 DEF TypeOK, Joining, event
<1>3. CASE kind = "group" /\ (NotJoined \/ Joins)
  <2>1. evpc = "joining" /\ tried < NumGroups
    BY <1>3 DEF Joining
  <2>2. tried' = tried + 1 /\ groups' \in {groups, groups + 1}
        /\ (evpc' = "failed" \/ evpc' = IF tried + 1 = NumGroups THEN "ready" ELSE evpc)
    BY <1>3 DEF NotJoined, Joins, Progress
  <2>3. tried' \in 0 .. NumGroups /\ groups' \in 0 .. tried'
    BY <2>1, <2>2, NetlinkAssumption DEF TypeOK
  <2>4. evpc' = "joining" => tried' < NumGroups
    BY <2>1, <2>2, <2>3, NetlinkAssumption
  <2> QED
    BY <1>1, <2>1, <2>2, <2>3, <2>4 DEF Joining
<1> QED
  BY <1>2, <1>3 DEF Returns

LEMMA PrepareKeeps == ASSUME IInv, NEW k \in Kinds, Prepare(k) PROVE IInv'
<1> USE DEF Prepare, Callable
<1>1. TypeOK'
  <2>1. resolved' \in BOOLEAN
    BY DEF IInv, TypeOK
  <2>2. 0 \in 0 .. Limit(k) /\ 0 \in 0 .. MaxEntries + 1
    BY NetlinkAssumption DEF Limit
  <2> QED
    BY <2>1, <2>2 DEF IInv, TypeOK, event
<1>2. Joining'
  BY DEF IInv, Joining, event
<1>3. asked = FALSE /\ AskedWaits'
  BY DEF IInv, AskedWaits, TypeOK
<1>4. \A s \in Socks : OnlyEvents(queue[s])
  BY Queues DEF IInv, NothingAhead, Socks
<1>5. queue' = queue /\ \A s \in Socks : OnlyEvents(queue'[s])
  BY <1>4
<1>6. kind' \in Kinds /\ Sock(kind') \in Socks
  BY Queues DEF IInv
<1>7. NothingAhead'
  BY <1>5, <1>6 DEF NothingAhead, OnlyEvents, Sock, Socks
<1>8. AnswerTells'
  <2>1. queue[Sock(kind')] \in Seq(Messages)
    BY <1>6, Queues DEF IInv
  <2>2. EndsLast(queue[Sock(kind')]) /\ EndsTell(queue[Sock(kind')], carried')
    BY <1>4, <1>6, <2>1, EventsOnly
  <2> QED
    BY <1>5, <2>2 DEF AnswerTells, EndsLast, EndsTell, Ends, Good, Sock
<1>9. EntriesAdd'
  BY DEF EntriesAdd
<1> QED
  BY <1>1, <1>2, <1>3, <1>7, <1>8, <1>9 DEF IInv

\* A call that ends without having been sent, and one that never began.
LEMMA UnsentKeeps ==
  ASSUME IInv, phase \in {"idle", "held"}, phase' = "idle", TypeOK', Joining',
         UNCHANGED <<kind, asked, queue, entries, carried>>
  PROVE  IInv'
<1>1. asked' = FALSE /\ AskedWaits'
  BY DEF IInv, AskedWaits, TypeOK
<1>2. \A s \in Socks : OnlyEvents(queue[s])
  BY Queues DEF IInv, NothingAhead, Socks
<1>3. NothingAhead'
  BY <1>2, Queues DEF IInv, TypeOK, NothingAhead, OnlyEvents, Sock, Socks
<1>4. AnswerTells'
  BY DEF IInv, AnswerTells, EndsLast, EndsTell, Sock, Ends, Good
<1>5. EntriesAdd'
  BY DEF EntriesAdd
<1> QED
  BY <1>1, <1>3, <1>4, <1>5 DEF IInv

LEMMA UnpreparedKeeps == ASSUME IInv, NEW k \in Kinds, Unprepared(k) PROVE IInv'
<1> USE DEF Unprepared, Callable
<1>1. CASE k # "group"
  <2>1. TypeOK' /\ Joining'
    BY <1>1 DEF IInv, TypeOK, Joining, event
  <2> QED
    BY <2>1, UnsentKeeps
<1>2. CASE k = "group"
  <2>1. evpc = "joining" /\ tried < NumGroups /\ NotJoined
    BY <1>2 DEF IInv, Joining
  <2>2. tried' = tried + 1 /\ groups' = groups
        /\ evpc' = IF tried + 1 = NumGroups THEN "ready" ELSE evpc
    BY <2>1 DEF NotJoined, Progress
  <2>3. tried' \in 0 .. NumGroups /\ groups' \in 0 .. tried'
    BY <2>1, <2>2, NetlinkAssumption DEF IInv, TypeOK
  <2>4. evpc' = "joining" => tried' < NumGroups
    BY <2>1, <2>2, <2>3, NetlinkAssumption
  <2>5. TypeOK'
    BY <2>1, <2>2, <2>3 DEF IInv, TypeOK
  <2>6. Joining'
    BY <2>4 DEF Joining
  <2> QED
    BY <2>5, <2>6, UnsentKeeps
<1> QED
  BY <1>1, <1>2

LEMMA GivenUpKeeps == ASSUME IInv, NoCallbacks \/ SendFailed PROVE IInv'
<1> USE DEF NoCallbacks, SendFailed
<1>1. phase = "held"
  OBVIOUS
<1>2. PICK m \in {"none", "held", "freed", "leaked", "twice"} : Returns(FALSE, m)
  OBVIOUS
<1>3. /\ phase' = "idle" /\ ret' = FALSE
      /\ msg' \in {"none", "held", "freed", "leaked", "twice"}
      /\ evpc' \in {"closed", "joining", "ready", "failed"}
      /\ tried' \in 0 .. NumGroups /\ groups' \in 0 .. tried'
      /\ Joining'
  BY <1>1, <1>2, Returned DEF IInv
<1>4. TypeOK'
  BY <1>3 DEF IInv, TypeOK
<1> QED
  BY <1>1, <1>3, <1>4, UnsentKeeps

LEMMA SendKeeps == ASSUME IInv, Send PROVE IInv'
<1> USE DEF Send
<1>1. TypeOK' /\ Joining'
  BY DEF IInv, TypeOK, Joining, event
<1>2. AskedWaits'
  BY DEF IInv, AskedWaits
<1>3. NothingAhead'
  BY DEF IInv, NothingAhead, OnlyEvents, Sock
<1>4. AnswerTells'
  BY DEF IInv, AnswerTells, EndsLast, EndsTell, Sock, Ends, Good
<1>5. EntriesAdd'
  BY DEF EntriesAdd
<1> QED
  BY <1>1, <1>2, <1>3, <1>4, <1>5 DEF IInv

\* What a call finds in its socket: while the kernel has not answered an event,
\* else an event, an entry or the end, which says what became of the request.
LEMMA Found ==
  ASSUME IInv, phase = "waiting", NEW q, q = queue[Sock(kind)], q # <<>>
  PROVE  /\ Sock(kind) \in Socks /\ q \in Seq(Messages)
         /\ Head(q) \in Messages /\ Tail(q) \in Seq(Messages)
         /\ Valid(Tail(q)) \in Nat
         /\ Valid(q) = Valid(Tail(q)) + (IF Head(q) = "valid" THEN 1 ELSE 0)
         /\ asked => Head(q) = "event" /\ OnlyEvents(Tail(q))
         /\ EndsLast(Tail(q)) /\ EndsTell(Tail(q), carried)
         /\ Ends(Head(q)) => /\ ~asked /\ OnlyEvents(Tail(q)) /\ Valid(q) = 0
                             /\ Good(Head(q)) <=> Succeeds(carried)
<1>1. Sock(kind) \in Socks /\ q \in Seq(Messages)
  BY Queues DEF IInv, TypeOK
<1>2. /\ Head(q) \in Messages /\ Tail(q) \in Seq(Messages)
      /\ Valid(q) = Valid(Tail(q)) + (IF Head(q) = "valid" THEN 1 ELSE 0)
  BY <1>1, ValidTail
<1>3. Valid(Tail(q)) \in Nat
  BY <1>2, Shape
<1>4. asked => OnlyEvents(q)
  BY DEF IInv, NothingAhead
<1>5. EndsLast(q) /\ EndsTell(q, carried)
  BY DEF IInv, AnswerTells
<1>6. /\ OnlyEvents(q) => Head(q) = "event" /\ OnlyEvents(Tail(q))
      /\ EndsLast(Tail(q)) /\ (Ends(Head(q)) => OnlyEvents(Tail(q)))
      /\ EndsTell(Tail(q), carried)
      /\ Ends(Head(q)) => (Good(Head(q)) <=> Succeeds(carried))
  BY <1>1, <1>5, Taking
<1>7. ASSUME Ends(Head(q)) PROVE ~asked /\ Valid(q) = 0
  <2>1. ~asked /\ Head(q) # "valid"
    BY <1>4, <1>6, <1>7 DEF Ends
  <2>2. Valid(Tail(q)) = 0
    BY <1>2, <1>6, <1>7, EventsOnly
  <2> QED
    BY <1>2, <2>1, <2>2
<1> QED
  BY <1>1, <1>2, <1>3, <1>4, <1>6, <1>7

LEMMA ReceiveKeeps == ASSUME IInv, Receive PROVE IInv'
<1> DEFINE q == queue[Sock(kind)]
<1>1. /\ phase = "waiting" /\ q # <<>> /\ entries' = Taken(Head(q))
      /\ queue' = [queue EXCEPT ![Sock(kind)] = Tail(q)]
      /\ UNCHANGED <<kind, resolved, asked, carried, total, lost>>
      /\ IF Ends(Head(q)) THEN Returns(Good(Head(q)), msg)
         ELSE UNCHANGED <<phase, ret, msg, event>>
  BY DEF Receive
<1>2. /\ Sock(kind) \in Socks /\ q \in Seq(Messages)
      /\ Head(q) \in Messages /\ Tail(q) \in Seq(Messages)
      /\ Valid(Tail(q)) \in Nat
      /\ Valid(q) = Valid(Tail(q)) + (IF Head(q) = "valid" THEN 1 ELSE 0)
      /\ asked => Head(q) = "event" /\ OnlyEvents(Tail(q))
      /\ EndsLast(Tail(q)) /\ EndsTell(Tail(q), carried)
      /\ Ends(Head(q)) => /\ ~asked /\ OnlyEvents(Tail(q)) /\ Valid(q) = 0
                          /\ Good(Head(q)) <=> Succeeds(carried)
  BY <1>1, Found
<1> HIDE DEF q
<1>3. queue' \in [Socks -> Seq(Messages)] /\ queue'[Sock(kind)] = Tail(q)
      /\ \A s \in Socks : s # Sock(kind) => queue'[s] = queue[s]
  BY <1>1, <1>2 DEF IInv, TypeOK, Socks
<1>4. /\ entries' \in 0 .. Limit(kind)
      /\ Head(q) # "valid" => entries' = entries
      /\ Head(q) = "valid" => \/ entries < Limit(kind) /\ entries' = entries + 1
                              \/ entries = Limit(kind) /\ entries' = entries
  BY <1>1, NetlinkAssumption DEF IInv, TypeOK, Taken, Limit
<1>5. /\ phase' \in {"idle", "waiting"} /\ ret' \in BOOLEAN
      /\ msg' \in {"none", "held", "freed", "leaked", "twice"}
      /\ evpc' \in {"closed", "joining", "ready", "failed"}
      /\ tried' \in 0 .. NumGroups /\ groups' \in 0 .. tried' /\ Joining'
      /\ phase' = "waiting" => ~Ends(Head(q))
  <2>1. CASE Ends(Head(q))
    <3>1. Good(Head(q)) \in BOOLEAN /\ Returns(Good(Head(q)), msg) /\ TypeOK /\ Joining
      BY <1>1, <2>1 DEF Good, IInv
    <3>2. msg \in {"none", "held", "freed", "leaked", "twice"}
      BY DEF IInv, TypeOK
    <3> QED
      BY <1>1, <3>1, <3>2, Returned
  <2>2. CASE ~Ends(Head(q))
    BY <1>1, <2>2 DEF IInv, TypeOK, Joining, event
  <2> QED
    BY <2>1, <2>2
<1>6. TypeOK'
  BY <1>1, <1>3, <1>4, <1>5 DEF IInv, TypeOK, Socks
<1>7. AskedWaits'
  <2>1. asked' = asked /\ (asked => phase' = "waiting")
    BY <1>1, <1>2, <1>5 DEF Ends
  <2>2. asked' => entries' = 0
    BY <1>1, <1>2, <1>4 DEF IInv, AskedWaits
  <2>3. phase' # "held"
    BY <1>5
  <2> QED
    BY <2>1, <2>2, <2>3 DEF AskedWaits
<1>8. NothingAhead'
  <2>1. phase' # "waiting" => OnlyEvents(Tail(q))
    BY <1>1, <1>2, <1>5 DEF Returns
  <2>2. phase' # "waiting" \/ asked' => OnlyEvents(queue'[Sock(kind)])
    BY <1>1, <1>2, <1>3, <2>1
  <2>3. \A s \in Socks : s # Sock(kind) => OnlyEvents(queue'[s])
    BY <1>3 DEF IInv, NothingAhead, Socks
  <2> QED
    BY <1>1, <2>2, <2>3 DEF NothingAhead, OnlyEvents, Sock, Socks
<1>9. AnswerTells'
  <2>1. EndsLast(queue'[Sock(kind)]) /\ EndsTell(queue'[Sock(kind)], carried)
    BY <1>2, <1>3
  <2> QED
    BY <1>1, <2>1 DEF AnswerTells, EndsLast, EndsTell, Ends, Good, Sock
<1>10. EntriesAdd'
  <2> SUFFICES ASSUME phase' = "waiting", ~asked, Succeeds(carried)
               PROVE  \/ entries' + Valid(Tail(q)) = total
                      \/ /\ entries' = Limit(kind)
                         /\ total >= entries' + Valid(Tail(q))
    BY <1>1, <1>3 DEF EntriesAdd, Valid, Sock, Limit
  <2>1. \/ entries + Valid(q) = total
        \/ entries = Limit(kind) /\ total >= entries + Valid(q)
    BY <1>1 DEF IInv, EntriesAdd, q
  <2>2. entries \in Nat /\ total \in Nat /\ Limit(kind) \in Nat
    BY NetlinkAssumption DEF IInv, TypeOK, Limit
  <2> QED
    BY <1>2, <1>4, <2>1, <2>2
<1> QED
  BY <1>5, <1>6, <1>7, <1>8, <1>9, <1>10 DEF IInv

\* The socket for events, between two calls.
LEMMA EventSocketKeeps ==
  ASSUME IInv, phase = "idle", phase' = "idle", TypeOK', Joining',
         UNCHANGED <<kind, asked, entries, carried>>,
         queue'["cmd"] = queue["cmd"], OnlyEvents(queue'["event"])
  PROVE  IInv'
<1>1. asked' = FALSE /\ AskedWaits'
  BY DEF IInv, AskedWaits, TypeOK
<1>2. OnlyEvents(queue["cmd"])
  BY Queues DEF IInv, TypeOK, NothingAhead, Socks
<1>3. \A s \in Socks : OnlyEvents(queue'[s])
  BY <1>2 DEF Socks
<1>4. kind \in Kinds /\ kind' = kind /\ Sock(kind) \in Socks
  BY Queues DEF IInv, TypeOK
<1>5. NothingAhead'
  BY <1>3, <1>4 DEF NothingAhead, OnlyEvents, Sock, Socks
<1>6. AnswerTells'
  <2>1. queue'[Sock(kind)] \in Seq(Messages)
    BY <1>4 DEF TypeOK, Socks
  <2>2. EndsLast(queue'[Sock(kind)]) /\ EndsTell(queue'[Sock(kind)], carried)
    BY <1>3, <1>4, <2>1, EventsOnly
  <2> QED
    BY <1>4, <2>2 DEF AnswerTells, EndsLast, EndsTell, Ends, Good, Sock
<1>7. EntriesAdd'
  BY DEF EntriesAdd
<1> QED
  BY <1>1, <1>5, <1>6, <1>7 DEF IInv

LEMMA EventOpenKeeps == ASSUME IInv, EventOpen PROVE IInv'
<1> USE DEF EventOpen
<1>1. <<>> \in Seq(Messages) /\ OnlyEvents(<<>>)
  BY DEF OnlyEvents
<1>2. queue'["event"] = <<>> /\ queue'["cmd"] = queue["cmd"]
  BY DEF IInv, TypeOK
<1>3. 0 \in 0 .. NumGroups /\ 0 \in 0 .. 0 /\ 0 < NumGroups
  BY NetlinkAssumption
<1>4. TypeOK'
  BY <1>1, <1>3 DEF IInv, TypeOK
<1>5. Joining'
  BY <1>3 DEF Joining
<1>6. OnlyEvents(queue'["event"])
  BY <1>1, <1>2
<1> QED
  BY <1>2, <1>4, <1>5, <1>6, EventSocketKeeps

LEMMA EventReceiveKeeps == ASSUME IInv, EventReceive PROVE IInv'
<1> USE DEF EventReceive
<1>1. queue["event"] \in Seq(Messages)
  BY DEF IInv, TypeOK
<1>2. OnlyEvents(queue["event"])
  BY Queues DEF IInv, TypeOK, NothingAhead, Socks
<1>3. Tail(queue["event"]) \in Seq(Messages) /\ OnlyEvents(Tail(queue["event"]))
  BY <1>1, <1>2, ValidTail, Taking
<1>4. queue'["event"] = Tail(queue["event"]) /\ queue'["cmd"] = queue["cmd"]
  BY DEF IInv, TypeOK
<1>5. TypeOK' /\ Joining'
  BY <1>3 DEF IInv, TypeOK, Joining, event
<1>6. OnlyEvents(queue'["event"])
  BY <1>3, <1>4
<1> QED
  BY <1>4, <1>5, <1>6, EventSocketKeeps

\* The kernel's answer to the request that waits.
LEMMA AnsweredKeeps ==
  ASSUME IInv, asked, asked' = FALSE, NEW s \in Seq(Messages), Queued(s),
         \A i \in 1 .. Len(s) - 1 : ~Ends(s[i]),
         Len(s) > 0 /\ Ends(s[Len(s)]) => (Good(s[Len(s)]) <=> Succeeds(carried')),
         carried' \in {"no", "yes", "refused", "broken"}, total' \in 0 .. MaxEntries + 1,
         lost' \in BOOLEAN, Succeeds(carried') => total' = Valid(s),
         UNCHANGED <<phase, kind, resolved, msg, entries, ret, event>>
  PROVE  IInv'
<1> DEFINE q == queue[Sock(kind)]
           c == carried'
<1>1. /\ phase = "waiting" /\ entries = 0 /\ OnlyEvents(q)
      /\ Sock(kind) \in Socks /\ q \in Seq(Messages)
  BY Queues DEF IInv, TypeOK, AskedWaits, NothingAhead
<1>2. /\ q \o s \in Seq(Messages) /\ Valid(q \o s) = Valid(s)
      /\ EndsLast(q \o s) /\ EndsTell(q \o s, c)
  <2> HIDE DEF q, c
  <2>1. Len(s) > 0 /\ Ends(s[Len(s)]) => (Good(s[Len(s)]) <=> Succeeds(c))
    BY DEF c
  <2> QED
    BY <1>1, <2>1, Putting
<1>3. /\ queue' \in [Socks -> Seq(Messages)] /\ queue'[Sock(kind)] = q \o s
      /\ \A x \in Socks : x # Sock(kind) => queue'[x] = queue[x]
  BY <1>1, <1>2 DEF IInv, TypeOK, Socks, Queued
<1> HIDE DEF q
<1>4. kind' = kind /\ phase' = "waiting" /\ entries' = 0 /\ 0 <= Limit(kind)
  BY <1>1, NetlinkAssumption DEF Limit
<1>5. TypeOK'
  BY <1>3, <1>4 DEF IInv, TypeOK, Socks, event
<1>6. Joining' /\ AskedWaits'
  BY <1>4 DEF IInv, Joining, AskedWaits, event
<1>7. NothingAhead'
  BY <1>1, <1>3, <1>4 DEF IInv, NothingAhead, OnlyEvents, Sock, Socks
<1>8. AnswerTells'
  BY <1>2, <1>3, <1>4 DEF AnswerTells, EndsLast, EndsTell, Ends, Good, Sock
<1>9. EntriesAdd'
  <2>1. Valid(s) \in Nat
    BY Shape
  <2>2. Valid(queue'[Sock(kind)]) = Valid(s)
    BY <1>2, <1>3
  <2>3. Succeeds(carried') => entries' + Valid(queue'[Sock(kind)]) = total'
    BY <1>4, <2>1, <2>2
  <2> QED
    BY <1>4, <2>3 DEF EntriesAdd, Valid, Sock, Limit
<1> QED
  BY <1>5, <1>6, <1>7, <1>8, <1>9 DEF IInv

LEMMA RefuseKeeps == ASSUME IInv, Refuse PROVE IInv'
<1> USE DEF Refuse
<1> DEFINE s == <<"err">>
<1>1. s \in Seq(Messages) /\ Len(s) = 1 /\ s[1] = "err"
  BY DEF Messages
<1>2. Queued(s) /\ carried' = "refused"
  OBVIOUS
<1> HIDE DEF s
<1>3. \A i \in 1 .. Len(s) - 1 : ~Ends(s[i])
  BY <1>1
<1>4. Len(s) > 0 /\ Ends(s[Len(s)]) => (Good(s[Len(s)]) <=> Succeeds(carried'))
  BY <1>1, <1>2 DEF Good, Succeeds
<1>5. total' \in 0 .. MaxEntries + 1 /\ lost' \in BOOLEAN
  BY DEF IInv, TypeOK
<1>6. ~Succeeds(carried') /\ carried' \in {"no", "yes", "refused", "broken"}
  BY <1>2 DEF Succeeds
<1> QED
  BY <1>1, <1>2, <1>3, <1>4, <1>5, <1>6, AnsweredKeeps

\* ... whether the kernel carries the request out or breaks off its dump.
LEMMA SendsKeeps == ASSUME IInv, CarryOut \/ BreakOff PROVE IInv'
<1>0. /\ asked /\ asked' = FALSE /\ Sends /\ carried' \in {"yes", "broken"}
      /\ UNCHANGED <<phase, kind, resolved, msg, entries, ret, event>>
  BY DEF CarryOut, BreakOff
<1>1. kind \in Kinds
  BY DEF IInv, TypeOK
<1>2. PICK s \in Replies : /\ total' = Valid(s)
                           /\ \/ Queued(s) /\ UNCHANGED lost
                              \/ MayLose /\ Queued(Front(s)) /\ lost' = TRUE
  BY <1>0 DEF Sends
<1>3. /\ Answer(s)
      /\ Front(s) \in Seq(Messages) /\ Valid(Front(s)) = Valid(s)
      /\ \A i \in 1 .. Len(Front(s)) : Front(s)[i] \in {"valid", "short"}
  BY <1>1, Replied
<1>4. /\ Succeeds(carried') /\ carried' \in {"no", "yes", "refused", "broken"}
      /\ total' \in 0 .. MaxEntries + 1 /\ lost' \in BOOLEAN
  BY <1>0, <1>2, <1>3 DEF IInv, TypeOK, Answer, Succeeds
<1>5. CASE Queued(s)
  <2>1. s \in Seq(Messages) /\ \A i \in 1 .. Len(s) - 1 : ~Ends(s[i])
    BY <1>3 DEF Answer, Ends
  <2>2. Len(s) > 0 /\ Ends(s[Len(s)]) => (Good(s[Len(s)]) <=> Succeeds(carried'))
    BY <1>3, <1>4 DEF Answer, Good
  <2> QED
    BY <1>0, <1>2, <1>4, <1>5, <2>1, <2>2, AnsweredKeeps
<1>6. CASE Queued(Front(s))
  <2>1. PICK f \in Seq(Messages) : f = Front(s)
    BY <1>3
  <2>2. Len(f) \in Nat /\ \A i \in 1 .. Len(f) : ~Ends(f[i])
    BY <1>3, <2>1, Shape DEF Ends
  <2>3. total' = Valid(f) /\ Queued(f)
    BY <1>2, <1>3, <1>6, <2>1
  <2>4. /\ \A i \in 1 .. Len(f) - 1 : ~Ends(f[i])
        /\ Len(f) > 0 /\ Ends(f[Len(f)]) => (Good(f[Len(f)]) <=> Succeeds(carried'))
    BY <2>2
  <2> QED
    BY <1>0, <1>4, <2>3, <2>4, AnsweredKeeps
<1> QED
  BY <1>2, <1>5, <1>6

LEMMA EventKeeps == ASSUME IInv, Event PROVE IInv'
<1> USE DEF Event
<1> DEFINE r == Append(queue["event"], "event")
<1>1. queue["event"] \in Seq(Messages) /\ Sock(kind) \in Socks
  BY Queues DEF IInv, TypeOK, Socks
<1>2. /\ r \in Seq(Messages) /\ Valid(r) = Valid(queue["event"])
      /\ OnlyEvents(queue["event"]) => OnlyEvents(r)
      /\ EndsLast(queue["event"]) => EndsLast(r)
      /\ EndsTell(queue["event"], carried) => EndsTell(r, carried)
  BY <1>1, Arriving
<1>3. /\ queue' \in [Socks -> Seq(Messages)]
      /\ queue'["event"] = r /\ queue'["cmd"] = queue["cmd"]
  BY <1>1, <1>2 DEF IInv, TypeOK, Socks
<1> HIDE DEF r
<1>4. TypeOK' /\ Joining' /\ AskedWaits'
  BY <1>3 DEF IInv, TypeOK, Joining, AskedWaits, Socks, event
<1>5. \A s \in Socks : /\ OnlyEvents(queue[s]) => OnlyEvents(queue'[s])
                       /\ EndsLast(queue[s]) => EndsLast(queue'[s])
                       /\ EndsTell(queue[s], carried) => EndsTell(queue'[s], carried)
                       /\ Valid(queue'[s]) = Valid(queue[s])
  BY <1>2, <1>3 DEF Socks
<1>6. /\ OnlyEvents(queue[Sock(kind)]) => OnlyEvents(queue'[Sock(kind)])
      /\ EndsLast(queue'[Sock(kind)]) /\ EndsTell(queue'[Sock(kind)], carried)
      /\ Valid(queue'[Sock(kind)]) = Valid(queue[Sock(kind)])
  BY <1>1, <1>5 DEF IInv, AnswerTells
<1>7. NothingAhead'
  <2>1. phase # "waiting" \/ asked => OnlyEvents(queue'[Sock(kind)])
    BY <1>6 DEF IInv, NothingAhead
  <2>2. \A s \in Socks : s # Sock(kind) => OnlyEvents(queue'[s])
    BY <1>5 DEF IInv, NothingAhead, Socks
  <2> QED
    BY <2>1, <2>2 DEF NothingAhead, OnlyEvents, Sock, Socks
<1>8. AnswerTells'
  BY <1>6 DEF AnswerTells, EndsLast, EndsTell, Ends, Good, Sock
<1>9. EntriesAdd'
  BY <1>6 DEF IInv, EntriesAdd, Valid, Sock, Limit
<1> QED
  BY <1>4, <1>7, <1>8, <1>9 DEF IInv

-----------------------------------------------------------------------------
\* The theorems.

LEMMA InitIInv == Init => IInv
<1> SUFFICES ASSUME Init PROVE IInv
  OBVIOUS
<1> USE DEF Init
<1>1. <<>> \in Seq(Messages) /\ OnlyEvents(<<>>)
  BY DEF OnlyEvents
<1>2. \A s \in Socks : queue[s] = <<>> /\ OnlyEvents(queue[s])
  BY <1>1 DEF Socks
<1>3. TypeOK
  <2>1. 0 \in 0 .. Limit("do") /\ 0 \in 0 .. MaxEntries + 1
        /\ 0 \in 0 .. NumGroups /\ 0 \in 0 .. 0
    BY NetlinkAssumption DEF Limit
  <2>2. queue \in [{"cmd", "event"} -> Seq(Messages)]
    BY <1>1
  <2> QED
    BY <2>1, <2>2 DEF TypeOK, Kinds
<1>4. Joining /\ AskedWaits /\ EntriesAdd
  BY DEF Joining, AskedWaits, EntriesAdd
<1>5. Sock(kind) \in Socks
  BY DEF Sock, Socks
<1>6. NothingAhead
  BY <1>2, <1>5 DEF NothingAhead, Socks
<1>7. AnswerTells
  BY <1>1, <1>2, <1>5, EventsOnly DEF AnswerTells
<1> QED
  BY <1>3, <1>4, <1>6, <1>7 DEF IInv

LEMMA NextIInv == IInv /\ [Next]_vars => IInv'
<1> SUFFICES ASSUME IInv, [Next]_vars PROVE IInv'
  OBVIOUS
<1>1. CASE \E k \in Kinds : Prepare(k) \/ Unprepared(k)
  BY <1>1, PrepareKeeps, UnpreparedKeeps
<1>2. CASE NoCallbacks \/ SendFailed
  BY <1>2, GivenUpKeeps
<1>3. CASE Send
  BY <1>3, SendKeeps
<1>4. CASE Receive
  BY <1>4, ReceiveKeeps
<1>5. CASE EventOpen \/ EventReceive
  BY <1>5, EventOpenKeeps, EventReceiveKeeps
<1>6. CASE Refuse \/ CarryOut \/ BreakOff
  BY <1>6, RefuseKeeps, SendsKeeps
<1>7. CASE Event
  BY <1>7, EventKeeps
<1>8. CASE UNCHANGED vars
  BY <1>8 DEF vars, IInv, TypeOK, Joining, AskedWaits, NothingAhead, AnswerTells,
              EntriesAdd, OnlyEvents, EndsLast, EndsTell, Valid, Sock, Limit, Ends, Good
<1> QED
  BY <1>1, <1>2, <1>3, <1>4, <1>5, <1>6, <1>7, <1>8 DEF Next

\* The order of what the sockets hold, and its relation to the request that is
\* waited for, hold in every reachable state, for all values of the constants.
THEOREM Invariance == Spec => []IInv
<1> QED
  BY InitIInv, NextIInv, PTL DEF Spec

\* Every variable keeps its type: the cursor of a dump stays in the room the
\* application gave, no group beyond the last one is looked up.
THEOREM TypeCorrect == Spec => []TypeOK
<1>1. IInv => TypeOK
  BY DEF IInv
<1> QED
  BY <1>1, Invariance, PTL

\* When no call is under way, no reply is left in a socket, however the last
\* one ended: nl80211_send_recv reads up to the end of its own answer.
THEOREM SocketsDrained == Spec => []Drained
<1>1. IInv => Drained
  BY Queues DEF IInv, NothingAhead, Drained, Socks
<1> QED
  BY <1>1, Invariance, PTL

\* A call that was sent returns true exactly if the kernel has carried it out or
\* has broken off its dump: a dump's own error is never seen.
THEOREM ResultsExact == Spec => Exact
<1>1. IInv /\ [Next]_vars => [ExactStep]_vars
  <2> SUFFICES ASSUME IInv, Next, phase = "waiting", phase' = "idle"
               PROVE  ret' <=> Succeeds(carried)
    BY DEF ExactStep
  <2>1. Receive
    BY DEF Next, Prepare, Unprepared, Callable, NoCallbacks, SendFailed, Send, EventOpen,
           EventReceive, Refuse, CarryOut, BreakOff, Event
  <2> DEFINE q == queue[Sock(kind)]
  <2>2. q # <<>> /\ Ends(Head(q)) /\ Returns(Good(Head(q)), msg)
    BY <2>1 DEF Receive
  <2>3. Good(Head(q)) <=> Succeeds(carried)
    BY <2>2, Found
  <2> QED
    BY <2>2, <2>3 DEF Returns, Good
<1> QED
  BY <1>1, Invariance, PTL DEF Spec, Exact

\* A dump that succeeds has returned every usable entry the kernel sent that
\* there was room for.
THEOREM DumpsComplete == Spec => DumpComplete
<1>1. IInv /\ [Next]_vars => [DumpCompleteStep]_vars
  <2> SUFFICES ASSUME IInv, Next, phase = "waiting", phase' = "idle", ret', kind = "dump"
               PROVE  entries' = IF total < MaxLen THEN total ELSE MaxLen
    BY DEF DumpCompleteStep
  <2>1. Receive
    BY DEF Next, Prepare, Unprepared, Callable, NoCallbacks, SendFailed, Send, EventOpen,
           EventReceive, Refuse, CarryOut, BreakOff, Event
  <2> DEFINE q == queue[Sock(kind)]
  <2>2. /\ q # <<>> /\ Ends(Head(q)) /\ Returns(Good(Head(q)), msg)
        /\ entries' = Taken(Head(q))
    BY <2>1 DEF Receive
  <2>3. /\ ~asked /\ Valid(q) = 0
        /\ Good(Head(q)) <=> Succeeds(carried)
    BY <2>2, Found
  <2>4. entries' = entries /\ Succeeds(carried)
    BY <2>2, <2>3 DEF Taken, Ends, Returns, Good
  <2>5. entries + Valid(q) = total \/ (entries = MaxLen /\ total >= entries + Valid(q))
    BY <2>3, <2>4 DEF IInv, EntriesAdd, Limit
  <2>6. entries \in 0 .. MaxLen /\ total \in Nat /\ MaxLen \in Nat
    BY NetlinkAssumption DEF IInv, TypeOK, Limit
  <2> QED
    BY <2>3, <2>4, <2>5, <2>6
<1> QED
  BY <1>1, Invariance, PTL DEF Spec, DumpComplete
=============================================================================
