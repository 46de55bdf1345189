---------------------------- MODULE CaptureProofs ----------------------------
(***************************************************************************)
(* Proofs about Capture: what the folds over the fields of a radiotap      *)
(* header and over the elements of a frame compute, by induction on how    *)
(* far they have come; the inductive invariant IInv; and from both, for    *)
(* any captures, tables and frames, the properties of what the application *)
(* reads.                                                                  *)
(***************************************************************************)
EXTENDS Capture, SequenceTheorems, WellFoundedInduction, TLAPS

-----------------------------------------------------------------------------
\* What the ranges hold: the proofs do not look further into them.
LEMMA OctetIs == ASSUME NEW x PROVE x \in Octet <=> x \in Int /\ 0 <= x /\ x <= 255
BY DEF Octet

LEMMA DbmIs == ASSUME NEW x PROVE x \in Dbm <=> x \in Int /\ -128 <= x /\ x <= 127
BY DEF Dbm

LEMMA RateIs == ASSUME NEW x PROVE x \in Rate <=> x \in Int /\ 1 <= x /\ x <= 6000
<1> DEFINE b == 6000
<1>1. Rate = 1 .. b /\ b \in Int
  BY DEF Rate
<1>2. x <= 6000 <=> x <= b
  OBVIOUS
<1> HIDE DEF b
<1> QED
  BY <1>1, <1>2

LEMMA PrismRateIs == ASSUME NEW x PROVE x \in PrismRate <=> x \in Int /\ 1 <= x /\ x <= 1080
<1> DEFINE b == 1080
<1>1. PrismRate = 1 .. b /\ b \in Int
  BY DEF PrismRate
<1>2. x <= 1080 <=> x <= b
  OBVIOUS
<1> HIDE DEF b
<1> QED
  BY <1>1, <1>2

-----------------------------------------------------------------------------
\* Folds.  A fold is defined by recursion over the subsets of the positions; the
\* lemmas turn it into a function that takes one step after the other.

\* The least-number principle, for sets.
LEMMA Least ==
  ASSUME NEW S \in SUBSET Nat, S # {}
  PROVE  \E m \in S : \A x \in S : m <= x
<1> DEFINE R == {ss \in Nat \X Nat : ss[1] < ss[2]}
<1>1. IsWellFoundedOn(R, Nat)
  BY NatLessThanWellFounded DEF OpToRel
<1> HIDE DEF R
<1>2. PICK m \in S : \A x \in S : ~(<<x, m>> \in R)
  BY <1>1, WFMin
<1>3. \A x \in S : ~(x < m)
  BY <1>2 DEF R
<1> QED
  BY <1>3

\* Induction up to a number, for sets.
LEMMA UpTo ==
  ASSUME NEW n \in Nat, NEW S, 0 \in S, \A k \in 0 .. n - 1 : k \in S => k + 1 \in S
  PROVE  0 .. n \subseteq S
<1> DEFINE T == {k \in 0 .. n : k \notin S}
<1> SUFFICES ASSUME T # {} PROVE FALSE
  OBVIOUS
<1>1. PICK m \in T : \A x \in T : m <= x
  <2>1. T \in SUBSET Nat
    OBVIOUS
  <2> HIDE DEF T
  <2> QED BY <2>1, Least
<1>2. m # 0 /\ m - 1 \in 0 .. n - 1 /\ m - 1 \notin T
  BY <1>1
<1> QED
  BY <1>2, <1>1

\* The last position of a set that has it.
LEMMA MaxUpTo ==
  ASSUME NEW k \in Nat, NEW s \in SUBSET (1 .. k + 1), k + 1 \in s
  PROVE  Max(s) = k + 1
<1>1. k + 1 \in s /\ \A y \in s : y \in Int /\ k + 1 >= y
  OBVIOUS
<1>2. \A m \in s : (\A y \in s : m >= y) => m = k + 1
  BY <1>1
<1> QED
  BY <1>1, <1>2 DEF Max

\* The folded operators: a field of a header, an element of a frame, its bytes.
Apply(kind, x, e) == CASE kind = "field" -> Field(x, e)
                       [] kind = "element" -> WalkStep(x, e)
                       [] OTHER -> x + e.len + 2

\* The equation of a fold over the first n positions.
Body(kind, base, seq, g, s) ==
  IF s = {} THEN base ELSE Apply(kind, g[s \ {Max(s)}], seq[Max(s)])

Iter(kind, base, seq, n, g) == g = [s \in SUBSET (1 .. n) |-> Body(kind, base, seq, g, s)]

\* There is a function that satisfies the equation.
LEMMA IterExists ==
  ASSUME NEW kind, NEW base, NEW seq, NEW n \in Nat
  PROVE  \E g : Iter(kind, base, seq, n, g)
<1> DEFINE B(g, s) == Body(kind, base, seq, g, s)
           S == {k \in 0 .. n : \E g : Iter(kind, base, seq, k, g)}
<1>1. 0 \in S
  <2> DEFINE g == [s \in SUBSET (1 .. 0) |-> base]
  <2>1. \A s \in SUBSET (1 .. 0) : s = {}
    <3>1. 1 .. 0 = {}
      OBVIOUS
    <3> QED
      BY <3>1
  <2>2. Iter(kind, base, seq, 0, g)
    BY <2>1 DEF Body, Iter
  <2> QED
    BY <2>2
<1>2. ASSUME NEW k \in 0 .. n - 1, k \in S
      PROVE  k + 1 \in S
  <2> DEFINE Sub == SUBSET (1 .. k)
             Sup == SUBSET (1 .. k + 1)
  <2>1. PICK h : Iter(kind, base, seq, k, h)
    BY <1>2
  <2> DEFINE g == [s \in Sup |-> IF s \in Sub THEN h[s]
                                 ELSE Apply(kind, h[s \ {k + 1}], seq[k + 1])]
  <2>2. ASSUME NEW s \in Sup, s \notin Sub
        PROVE  s # {} /\ Max(s) = k + 1 /\ s \ {k + 1} \in Sub
    <3>1. k + 1 \in s /\ s \ {k + 1} \in Sub
      BY <2>2
    <3> QED
      BY <3>1, MaxUpTo
  <2>3. ASSUME NEW s \in Sub PROVE s \in Sup /\ \A m : s \ {m} \in Sub
    <3>1. 1 .. k \subseteq 1 .. k + 1
      OBVIOUS
    <3> QED
      BY <3>1
  <2>4. \A s \in Sub : g[s] = h[s]
    BY <2>3
  <2>5. ASSUME NEW s \in Sup PROVE g[s] = B(g, s)
    <3>1. CASE s \in Sub
      <4>1. h[s] = B(h, s)
        BY <2>1, <3>1 DEF Iter
      <4>2. h[s \ {Max(s)}] = g[s \ {Max(s)}]
        BY <2>3, <2>4, <3>1
      <4> QED
        BY <4>1, <4>2, <2>4, <3>1 DEF Body
    <3>2. CASE s \notin Sub
      <4>1. g[s] = Apply(kind, h[s \ {k + 1}], seq[k + 1])
        BY <3>2
      <4>2. h[s \ {k + 1}] = g[s \ {k + 1}]
        BY <2>2, <2>4, <3>2
      <4> QED
        BY <4>1, <4>2, <2>2, <3>2 DEF Body
    <3> QED
      BY <3>1, <3>2
  <2>6. Iter(kind, base, seq, k + 1, g)
    BY <2>5 DEF Iter
  <2> HIDE DEF g
  <2> QED
    BY <2>6
<1>3. n \in S
  <2> HIDE DEF S
  <2>1. 0 .. n \subseteq S
    BY <1>1, <1>2, UpTo
  <2> QED
    BY <2>1
<1> QED
  BY <1>3


\* The values of a fold after each of its steps.
Steps(kind, base, seq, n, f) ==
  f[0] = base /\ \A k \in 1 .. n : f[k] = Apply(kind, f[k - 1], seq[k])

\* What a function that satisfies the equation computes.
LEMMA IterSteps ==
  ASSUME NEW kind, NEW base, NEW seq, NEW n \in Nat, NEW g,
         Iter(kind, base, seq, n, g)
  PROVE  \E f : Steps(kind, base, seq, n, f) /\ f[n] = g[1 .. n]
<1> DEFINE f == [k \in 0 .. n |-> g[1 .. k]]
<1>1. f[0] = base
  <2>1. 1 .. 0 = {} /\ {} \in SUBSET (1 .. n) /\ 0 \in 0 .. n
    OBVIOUS
  <2>2. g[{}] = base
    BY <2>1 DEF Body, Iter
  <2> QED
    BY <2>1, <2>2
<1>2. ASSUME NEW k \in 1 .. n PROVE f[k] = Apply(kind, f[k - 1], seq[k])
  <2>1. /\ 1 .. k # {} /\ (1 .. k) \ {k} = 1 .. k - 1
        /\ 1 .. k \in SUBSET (1 .. n) /\ k \in 0 .. n /\ k - 1 \in 0 .. n
    OBVIOUS
  <2>2. Max(1 .. k) = k
    <3>1. k - 1 \in Nat /\ (k - 1) + 1 = k /\ k \in 1 .. k
      OBVIOUS
    <3> QED
      BY <3>1, MaxUpTo
  <2>3. g[1 .. k] = Apply(kind, g[1 .. k - 1], seq[k])
    BY <2>1, <2>2 DEF Body, Iter
  <2> QED
    BY <2>1, <2>3
<1>3. f[n] = g[1 .. n]
  OBVIOUS
<1> HIDE DEF f
<1> QED
  BY <1>1, <1>2, <1>3 DEF Steps

\* get_radiotap_info takes one field after the other (raw_parser.c:196).
LEMMA FieldFold ==
  ASSUME NEW base, NEW seq, NEW n \in Nat, DOMAIN seq = 1 .. n
  PROVE  \E f : /\ f[0] = base
                /\ \A k \in 1 .. n : f[k] = Field(f[k - 1], seq[k])
                /\ f[n] = FoldLeft(Field, base, seq)
<1> DEFINE iter == CHOOSE g : g = [s \in SUBSET (1 .. n) |->
                     IF s = {} THEN base ELSE Field(g[s \ {Max(s)}], seq[Max(s)])]
<1>1. FoldLeft(Field, base, seq) = iter[1 .. n]
  BY DEF FoldLeft, MapThenFoldSet
<1>2. PICK g : Iter("field", base, seq, n, g)
  BY IterExists
<1>3. g = [s \in SUBSET (1 .. n) |->
             IF s = {} THEN base ELSE Field(g[s \ {Max(s)}], seq[Max(s)])]
  BY <1>2 DEF Iter, Body, Apply
<1>4. iter = [s \in SUBSET (1 .. n) |->
             IF s = {} THEN base ELSE Field(iter[s \ {Max(s)}], seq[Max(s)])]
  BY <1>3
<1> HIDE DEF iter
<1>5. Iter("field", base, seq, n, iter)
  BY <1>4 DEF Iter, Body, Apply
<1>6. \E f : Steps("field", base, seq, n, f) /\ f[n] = iter[1 .. n]
  BY <1>5, IterSteps
<1> QED
  BY <1>1, <1>6 DEF Steps, Apply

\* uwifi_parse_information_elements takes one element after the other.
LEMMA WalkFold ==
  ASSUME NEW base, NEW seq, NEW n \in Nat, DOMAIN seq = 1 .. n
  PROVE  \E f : /\ f[0] = base
                /\ \A k \in 1 .. n : f[k] = WalkStep(f[k - 1], seq[k])
                /\ f[n] = FoldLeft(WalkStep, base, seq)
<1> DEFINE iter == CHOOSE g : g = [s \in SUBSET (1 .. n) |->
                     IF s = {} THEN base ELSE WalkStep(g[s \ {Max(s)}], seq[Max(s)])]
<1>1. FoldLeft(WalkStep, base, seq) = iter[1 .. n]
  BY DEF FoldLeft, MapThenFoldSet
<1>2. PICK g : Iter("element", base, seq, n, g)
  BY IterExists
<1>3. g = [s \in SUBSET (1 .. n) |->
             IF s = {} THEN base ELSE WalkStep(g[s \ {Max(s)}], seq[Max(s)])]
  BY <1>2 DEF Iter, Body, Apply
<1>4. iter = [s \in SUBSET (1 .. n) |->
             IF s = {} THEN base ELSE WalkStep(iter[s \ {Max(s)}], seq[Max(s)])]
  BY <1>3
<1> HIDE DEF iter
<1>5. Iter("element", base, seq, n, iter)
  BY <1>4 DEF Iter, Body, Apply
<1>6. \E f : Steps("element", base, seq, n, f) /\ f[n] = iter[1 .. n]
  BY <1>5, IterSteps
<1> QED
  BY <1>1, <1>6 DEF Steps, Apply

\* Bytes adds up the elements one after the other.
LEMMA BytesFold ==
  ASSUME NEW seq, NEW n \in Nat, DOMAIN seq = 1 .. n
  PROVE  \E f : /\ f[0] = 0
                /\ \A k \in 1 .. n : f[k] = f[k - 1] + seq[k].len + 2
                /\ f[n] = Bytes(seq)
<1> DEFINE iter == CHOOSE g : g = [s \in SUBSET (1 .. n) |->
                     IF s = {} THEN 0 ELSE g[s \ {Max(s)}] + seq[Max(s)].len + 2]
<1>1. Bytes(seq) = iter[1 .. n]
  BY DEF Bytes, FoldLeft, MapThenFoldSet
<1>2. PICK g : Iter("bytes", 0, seq, n, g)
  BY IterExists
<1>3. g = [s \in SUBSET (1 .. n) |->
             IF s = {} THEN 0 ELSE g[s \ {Max(s)}] + seq[Max(s)].len + 2]
  BY <1>2 DEF Iter, Body, Apply
<1>4. iter = [s \in SUBSET (1 .. n) |->
             IF s = {} THEN 0 ELSE iter[s \ {Max(s)}] + seq[Max(s)].len + 2]
  BY <1>3
<1> HIDE DEF iter
<1>5. Iter("bytes", 0, seq, n, iter)
  BY <1>4 DEF Iter, Body, Apply
<1>6. \E f : Steps("bytes", 0, seq, n, f) /\ f[n] = iter[1 .. n]
  BY <1>5, IterSteps
<1> QED
  BY <1>1, <1>6 DEF Steps, Apply

-----------------------------------------------------------------------------
\* What an element and a field of a header change of the packet.

PacketFields == {"signal", "rate", "idx", "freq", "flags", "injected",
                 "ta", "ra", "bssid", "type", "stype", "mode", "beacon", "wep", "seqno",
                 "retry", "essid", "channel", "width", "ht40plus", "rx", "tx", "rsn", "wpa"}
ElementFields == {"essid", "channel", "width", "ht40plus", "rx", "tx", "rsn", "wpa"}
FieldFields == {"signal", "rate", "idx", "freq", "flags", "injected"}

IsPacket(p) == DOMAIN p = PacketFields

\* q is p but for some fields.
Changes(p, q, fields) == IsPacket(q) /\ \A x \in PacketFields \ fields : q[x] = p[x]

LEMMA NoPacketIs == IsPacket(NoPacket)
BY DEF IsPacket, PacketFields, NoPacket

\* An element leaves what the header told, and a width that is one.
LEMMA TakeChanges ==
  ASSUME NEW p, IsPacket(p), NEW ie
  PROVE  /\ Changes(p, Take(p, ie), ElementFields)
         /\ p.width \in Width => Take(p, ie).width \in Width
<1> USE DEF Changes, IsPacket, PacketFields, ElementFields
<1>1. ASSUME NEW o
      PROVE  /\ Changes(p, HtOper(p, o), ElementFields)
             /\ p.width \in Width => HtOper(p, o).width \in Width
  BY DEF HtOper, Width, WUNSPEC, W20, W8080
<1>2. ASSUME NEW w, NEW rx, NEW tx
      PROVE  LET q == [p EXCEPT !.width = w, !.rx = rx, !.tx = tx]
             IN Changes(p, q, ElementFields) /\ q.width = w
  OBVIOUS
<1>3. /\ Changes(p, HtCapab(p, ie), ElementFields)
      /\ p.width \in Width => HtCapab(p, ie).width \in Width
  <2> DEFINE w == IF ie.w40 THEN W40 ELSE W20
             q == [p EXCEPT !.width = w, !.rx = HtStreamsRx(ie.mcs),
                            !.tx = HtStreamsTx(ie.mcs, p.tx)]
  <2>1. w \in Width
    BY DEF Width, WUNSPEC, W20, W40, W8080
  <2>2. HtCapab(p, ie) = IF ie.len < 26 THEN [p EXCEPT !.width = w] ELSE q
    BY DEF HtCapab
  <2>3. Changes(p, q, ElementFields) /\ q.width = w
    BY <1>2
  <2> HIDE DEF w, q
  <2>4. CASE ie.len < 26
    BY <2>1, <2>2, <2>4
  <2>5. CASE ~(ie.len < 26)
    BY <2>1, <2>2, <2>3, <2>5
  <2> QED
    BY <2>4, <2>5
<1>4. /\ Changes(p, VhtCapab(p, ie), ElementFields)
      /\ p.width \in Width => VhtCapab(p, ie).width \in Width
  <2> DEFINE w == ChanWidthFromVhtCapab(ie.width)
             q == [p EXCEPT !.width = w, !.rx = VhtStreams(ie.rx), !.tx = VhtStreams(ie.tx)]
  <2>1. w \in Width
    BY DEF ChanWidthFromVhtCapab, Width, WUNSPEC, W80, W160, W8080
  <2>2. VhtCapab(p, ie) = IF ie.len < 12 THEN p ELSE q
    BY DEF VhtCapab
  <2>3. Changes(p, q, ElementFields) /\ q.width = w
    BY <1>2
  <2> HIDE DEF w, q
  <2> QED
    BY <2>1, <2>2, <2>3
<1>5. CASE ie.id = "HT_CAPAB"
  BY <1>3, <1>5 DEF Take
<1>6. CASE ie.id = "HT_OPER" /\ ie.len > 1
  BY <1>1, <1>6 DEF Take
<1>7. CASE ie.id = "VHT_CAPAB"
  BY <1>4, <1>7 DEF Take
<1>8. CASE ie.id \in {"VHT_OPER", "VHT_OMN"}
  BY <1>8 DEF Take, Width, WUNSPEC, W80, W8080
<1>9. CASE ie.id \in {"SSID", "DSSS", "RSN"}
  BY <1>9 DEF Take
<1>10. CASE ie.id = "VENDOR" /\ ie.len >= 4 /\ ie.wpa
  BY <1>10 DEF Take
<1>11. CASE /\ ie.id \notin {"SSID", "DSSS", "RSN", "HT_CAPAB", "VHT_OPER", "VHT_OMN", "VHT_CAPAB"}
            /\ ~(ie.id = "HT_OPER" /\ ie.len > 1)
            /\ ~(ie.id = "VENDOR" /\ ie.len >= 4 /\ ie.wpa)
  BY <1>11 DEF Take
<1> QED
  BY <1>5, <1>6, <1>7, <1>8, <1>9, <1>10, <1>11

\* The walk over the elements.
LEMMA WalkChanges ==
  ASSUME NEW p, IsPacket(p), NEW ies, IsSeq(ies), NEW bytes
  PROVE  /\ Changes(p, Walk(p, ies, bytes), ElementFields)
         /\ p.width \in Width => Walk(p, ies, bytes).width \in Width
<1> DEFINE n == Len(ies)
           base == [p |-> p, left |-> bytes]
           Good(s) == /\ Changes(p, s.p, ElementFields)
                      /\ p.width \in Width => s.p.width \in Width
<1>1. PICK f : /\ f[0] = base
               /\ \A k \in 1 .. n : f[k] = WalkStep(f[k - 1], ies[k])
               /\ f[n] = FoldLeft(WalkStep, base, ies)
  BY WalkFold DEF IsSeq
<1> DEFINE S == {k \in 0 .. n : Good(f[k])}
<1>2. n \in Nat
  BY DEF IsSeq
<1>3. 0 \in S
  BY <1>1, <1>2 DEF Changes
<1>4. ASSUME NEW k \in 0 .. n - 1, k \in S PROVE k + 1 \in S
  <2>1. f[k + 1] = WalkStep(f[k], ies[k + 1])
    BY <1>1, <1>2
  <2>2. Good(f[k])
    BY <1>4
  <2> HIDE DEF S
  <2>3. Good(f[k + 1])
    <3>1. CASE f[k].left <= 2
      BY <2>1, <2>2, <3>1 DEF WalkStep
    <3>2. CASE ~(f[k].left <= 2)
      <4> DEFINE q == f[k].p
      <4>1. f[k + 1].p = Take(q, ies[k + 1])
        BY <2>1, <3>2 DEF WalkStep
      <4>2. IsPacket(q)
        BY <2>2 DEF Changes
      <4>3. /\ Changes(q, Take(q, ies[k + 1]), ElementFields)
            /\ q.width \in Width => Take(q, ies[k + 1]).width \in Width
        BY <4>2, TakeChanges
      <4> QED
        BY <2>2, <4>1, <4>3 DEF Changes
    <3> QED
      BY <3>1, <3>2
  <2> QED
    BY <1>2, <2>3 DEF S
<1>5. n \in S
  <2> HIDE DEF S
  <2>1. 0 .. n \subseteq S
    BY <1>2, <1>3, <1>4, UpTo
  <2> QED
    BY <1>2, <2>1
<1> QED
  BY <1>1, <1>5 DEF Walk

\* What a field of the header may change, by its id.
FieldOf(id) == CASE id = "FLAGS" -> {"flags"}
                 [] id = "RATE" -> {"rate", "idx"}
                 [] id = "CHANNEL" -> {"freq", "flags"}
                 [] id = "SIGNAL" -> {"signal"}
                 [] id = "TX_FLAGS" -> {"injected"}
                 [] id = "MCS" -> {"idx", "rate"}
                 [] OTHER -> {}

\* The index of a rate fits the eight bits it is kept in, and so does that of an
\* MCS, which is counted on from it.
LEMMA RateIndexed ==
  ASSUME NEW r
  PROVE  RateToIndex(r) \in 0 .. 12
BY DEF RateToIndex

LEMMA FieldChanges ==
  ASSUME NEW p, IsPacket(p), NEW e
  PROVE  /\ Changes(p, Field(p, e), FieldOf(e.id))
         /\ e.id = "CHANNEL" => Field(p, e).freq = e.freq
         /\ e.id = "SIGNAL" => Field(p, e).signal = Signal(p, e.dbm)
         /\ e.id = "TX_FLAGS" => Field(p, e).injected = TRUE
         /\ "BADFCS" \in Field(p, e).flags <=>
              "BADFCS" \in p.flags \/ (e.id = "FLAGS" /\ "BADFCS" \in e.bits)
         /\ p.idx \in Octet /\ (e.id = "MCS" => e.mcs \in Octet)
              => Field(p, e).idx \in Octet
<1> USE DEF Changes, IsPacket, PacketFields, FieldOf
<1>1. CASE e.id = "FLAGS"
  BY <1>1 DEF Field
<1>2. CASE e.id = "RATE"
  <2>1. RateToIndex(e.rate * 5) \in Octet
    BY RateIndexed, OctetIs
  <2> QED
    BY <1>2, <2>1 DEF Field
<1>3. CASE e.id = "CHANNEL"
  <2>1. "BADFCS" \notin ChannelMode(e.bits)
    BY DEF ChannelMode
  <2> QED
    BY <1>3, <2>1 DEF Field
<1>4. CASE e.id = "SIGNAL"
  BY <1>4 DEF Field
<1>5. CASE e.id = "TX_FLAGS"
  BY <1>5 DEF Field
<1>6. CASE e.id = "MCS"
  <2>1. e.mcs \in Octet => (12 + e.mcs) % 256 \in Octet
    BY OctetIs
  <2> DEFINE i == (12 + e.mcs) % 256
             r == McsRate(e)
             q == [p EXCEPT !.idx = i, !.rate = r]
  <2>2. Field(p, e) = q
    BY <1>6 DEF Field
  <2> HIDE DEF i, r
  <2>3. Changes(p, q, {"idx", "rate"}) /\ q.idx = i
    OBVIOUS
  <2> HIDE DEF q
  <2> QED
    BY <1>6, <2>1, <2>2, <2>3 DEF i
<1>7. CASE e.id \notin {"FLAGS", "RATE", "CHANNEL", "SIGNAL", "TX_FLAGS", "MCS"}
  BY <1>7 DEF Field
<1> QED
  BY <1>1, <1>2, <1>3, <1>4, <1>5, <1>6, <1>7

IsSignal(e) == e.id = "SIGNAL" /\ e.dbm \in -128 .. -1

\* What the packet holds after the first k fields of a header.
AfterFields(p, flds, k) ==
  /\ Changes(NoPacket, p, FieldFields)
  /\ p.idx \in Octet
  /\ \A f : (\A j \in 1 .. k : flds[j].id = "CHANNEL" => flds[j].freq = f)
              => p.freq = IF \E j \in 1 .. k : flds[j].id = "CHANNEL" THEN f ELSE 0
  /\ \A j \in 1 .. k : IsSignal(flds[j]) => p.signal \in -128 .. -1 /\ p.signal >= flds[j].dbm
  /\ p.signal = 0 \/ \E j \in 1 .. k : IsSignal(flds[j]) /\ p.signal = flds[j].dbm
  /\ p.injected = (\E j \in 1 .. k : flds[j].id = "TX_FLAGS")
  /\ "BADFCS" \in p.flags <=>
       \E j \in 1 .. k : flds[j].id = "FLAGS" /\ "BADFCS" \in flds[j].bits

IsField(e) == /\ e.id = "MCS" => e.mcs \in Octet
              /\ e.id = "SIGNAL" => e.dbm \in Dbm

\* One more field.
LEMMA OneField ==
  ASSUME NEW p, NEW flds, NEW k \in Nat, AfterFields(p, flds, k), IsField(flds[k + 1])
  PROVE  AfterFields(Field(p, flds[k + 1]), flds, k + 1)
<1> DEFINE e == flds[k + 1]
           q == Field(p, e)
<1>1. IsPacket(p)
  BY DEF AfterFields, Changes
<1>2. /\ Changes(p, q, FieldOf(e.id))
      /\ e.id = "CHANNEL" => q.freq = e.freq
      /\ e.id = "SIGNAL" => q.signal = Signal(p, e.dbm)
      /\ e.id = "TX_FLAGS" => q.injected = TRUE
      /\ "BADFCS" \in q.flags <=>
           "BADFCS" \in p.flags \/ (e.id = "FLAGS" /\ "BADFCS" \in e.bits)
      /\ q.idx \in Octet
  <2>1. p.idx \in Octet
    BY DEF AfterFields
  <2>2. e.id = "MCS" => e.mcs \in Octet
    BY DEF IsField
  <2> HIDE DEF e
  <2> QED
    BY <1>1, <2>1, <2>2, FieldChanges
<1>3. \A j : j \in 1 .. k + 1 <=> j \in 1 .. k \/ j = k + 1
  OBVIOUS
<1>4. FieldOf(e.id) \subseteq FieldFields /\ FieldFields \subseteq PacketFields
  BY DEF FieldOf, FieldFields, PacketFields
<1> HIDE DEF q
<1>5. Changes(NoPacket, q, FieldFields)
  BY <1>2, <1>4 DEF AfterFields, Changes
<1>6. \A x \in FieldFields : x \notin FieldOf(e.id) => q[x] = p[x]
  BY <1>2, <1>4 DEF Changes
<1>7. ASSUME NEW f, \A j \in 1 .. k + 1 : flds[j].id = "CHANNEL" => flds[j].freq = f
      PROVE  q.freq = IF \E j \in 1 .. k + 1 : flds[j].id = "CHANNEL" THEN f ELSE 0
  <2>1. p.freq = IF \E j \in 1 .. k : flds[j].id = "CHANNEL" THEN f ELSE 0
    BY <1>3, <1>7 DEF AfterFields
  <2>2. e.id # "CHANNEL" => q.freq = p.freq
    BY <1>6 DEF FieldOf, FieldFields
  <2> QED
    BY <1>2, <1>3, <1>7, <2>1, <2>2
<1>8. /\ \A j \in 1 .. k + 1 : IsSignal(flds[j]) => q.signal \in -128 .. -1 /\ q.signal >= flds[j].dbm
      /\ q.signal = 0 \/ \E j \in 1 .. k + 1 : IsSignal(flds[j]) /\ q.signal = flds[j].dbm
  <2>1. CASE e.id # "SIGNAL"
    <3>1. q.signal = p.signal
      BY <1>6, <2>1 DEF FieldOf, FieldFields
    <3> QED
      BY <1>3, <2>1, <3>1 DEF AfterFields, IsSignal
  <2>2. CASE e.id = "SIGNAL"
    <3>1. e.dbm \in Dbm /\ q.signal = Signal(p, e.dbm)
      BY <1>2, <2>2 DEF IsField
    <3>2. /\ \A j \in 1 .. k : IsSignal(flds[j]) => p.signal \in -128 .. -1 /\ p.signal >= flds[j].dbm
          /\ p.signal = 0 \/ \E j \in 1 .. k : IsSignal(flds[j]) /\ p.signal = flds[j].dbm
      BY DEF AfterFields
    <3>3. IsSignal(e) <=> e.dbm < 0
      BY <2>2, <3>1, DbmIs DEF IsSignal
    <3>4. \A j \in 1 .. k : IsSignal(flds[j]) => flds[j].dbm \in -128 .. -1
      BY DEF IsSignal
    <3>5. flds[k + 1] = e
      OBVIOUS
    <3>6. p.signal \in -128 .. 0
      BY <3>2, <3>4
    <3> HIDE DEF e
    <3>7. CASE e.dbm < 0 /\ (p.signal = 0 \/ e.dbm > p.signal)
      <4>1. q.signal = e.dbm
        BY <3>1, <3>7 DEF Signal
      <4>2. \A j \in 1 .. k : IsSignal(flds[j]) => e.dbm >= flds[j].dbm
        <5> SUFFICES ASSUME NEW j \in 1 .. k, IsSignal(flds[j]) PROVE e.dbm >= flds[j].dbm
          OBVIOUS
        <5> DEFINE d == e.dbm
                   s == p.signal
                   o == flds[j].dbm
        <5>1. s \in -128 .. -1 /\ s >= o /\ o \in -128 .. -1
          BY <3>2, <3>4
        <5>2. d \in Dbm /\ d > s
          BY <3>1, <3>7, <5>1
        <5> HIDE DEF d, s, o
        <5>3. d >= o
          BY <5>1, <5>2, DbmIs
        <5> QED
          BY <5>3 DEF d, o
      <4>3. e.dbm \in -128 .. -1
        BY <3>1, <3>7, DbmIs
      <4> QED
        BY <1>3, <3>3, <3>5, <3>7, <4>1, <4>2, <4>3
    <3>8. CASE ~(e.dbm < 0 /\ (p.signal = 0 \/ e.dbm > p.signal))
      <4>1. q.signal = p.signal
        BY <3>1, <3>8 DEF Signal
      <4>2. IsSignal(e) => p.signal \in -128 .. -1 /\ p.signal >= e.dbm
        <5> DEFINE d == e.dbm
                   s == p.signal
        <5>1. d \in Dbm /\ s \in -128 .. 0
          BY <3>1, <3>6
        <5>2. IsSignal(e) => s # 0 /\ ~(d > s)
          BY <3>3, <3>8
        <5> HIDE DEF d, s
        <5>3. IsSignal(e) => s \in -128 .. -1 /\ s >= d
          BY <5>1, <5>2, DbmIs
        <5> QED
          BY <5>3 DEF d, s
      <4> QED
        BY <1>3, <3>2, <3>5, <4>1, <4>2
    <3> QED
      BY <3>7, <3>8
  <2> QED
    BY <2>1, <2>2
<1>9. q.injected = (\E j \in 1 .. k + 1 : flds[j].id = "TX_FLAGS")
  <2>1. CASE e.id = "TX_FLAGS"
    BY <1>2, <1>3, <2>1
  <2>2. CASE e.id # "TX_FLAGS"
    <3>1. q.injected = p.injected
      BY <1>6, <2>2 DEF FieldOf, FieldFields
    <3> QED
      BY <1>3, <2>2, <3>1 DEF AfterFields
  <2> QED
    BY <2>1, <2>2
<1>10. "BADFCS" \in q.flags <=>
         \E j \in 1 .. k + 1 : flds[j].id = "FLAGS" /\ "BADFCS" \in flds[j].bits
  BY <1>2, <1>3 DEF AfterFields
<1> QED
  BY <1>2, <1>5, <1>7, <1>8, <1>9, <1>10 DEF AfterFields, q

\* All fields.
LEMMA FieldsFolded ==
  ASSUME NEW flds, IsSeq(flds), \A k \in DOMAIN flds : IsField(flds[k])
  PROVE  AfterFields(FoldLeft(Field, NoPacket, flds), flds, Len(flds))
<1> DEFINE n == Len(flds)
<1>1. n \in Nat /\ DOMAIN flds = 1 .. n
  BY DEF IsSeq
<1>2. PICK f : /\ f[0] = NoPacket
               /\ \A k \in 1 .. n : f[k] = Field(f[k - 1], flds[k])
               /\ f[n] = FoldLeft(Field, NoPacket, flds)
  BY <1>1, FieldFold
<1> DEFINE S == {k \in 0 .. n : AfterFields(f[k], flds, k)}
<1> HIDE DEF n
<1>3. 0 \in S
  <2>1. 1 .. 0 = {} /\ 0 \in 0 .. n
    BY <1>1
  <2>2. AfterFields(NoPacket, flds, 0)
    <3>1. NoPacket.idx \in Octet
      BY OctetIs DEF NoPacket
    <3> QED
      BY <2>1, <3>1, NoPacketIs DEF AfterFields, Changes, NoPacket
  <2> QED
    BY <1>2, <2>1, <2>2
<1>4. ASSUME NEW k \in 0 .. n - 1, k \in S PROVE k + 1 \in S
  <2>1. f[k + 1] = Field(f[k], flds[k + 1]) /\ IsField(flds[k + 1]) /\ k + 1 \in 0 .. n /\ k \in Nat
    BY <1>1, <1>2
  <2>2. AfterFields(f[k], flds, k)
    BY <1>4
  <2>3. AfterFields(f[k + 1], flds, k + 1)
    BY <2>1, <2>2, OneField
  <2> QED
    BY <2>1, <2>3
<1>5. n \in S
  <2> HIDE DEF S
  <2>1. 0 .. n \subseteq S
    BY <1>1, <1>3, <1>4, UpTo
  <2> QED
    BY <1>1, <2>1
<1> QED
  BY <1>2, <1>5 DEF n

\* Rates are positive; up to 600 Mbit/s.
IsRate(r) == r \in Rate

LEMMA RateBounds ==
  ASSUME NEW r, IsRate(r)
  PROVE  r \in Rate \cup {0} /\ r > 0
<1>1. r \in Rate
  BY DEF IsRate
<1> QED
  BY <1>1, RateIs

\* The rate that is told or assumed is one.
LEMMA Sanitized ==
  ASSUME NEW p, NEW flds, NEW k, AfterFields(p, flds, k)
  PROVE  AfterFields(Sanitize(p), flds, k) /\ IsRate(Sanitize(p).rate)
<1>1. IsPacket(p)
  BY DEF AfterFields, Changes
<1>2. /\ Changes(p, Sanitize(p), {"rate"})
      /\ IsRate(Sanitize(p).rate)
  <2> DEFINE r == CASE p.rate \in Rate -> p.rate
                    [] p.rate \notin Rate ->
                         IF "A" \in p.flags \/ (p.flags \cap {"B", "G"} = {"G"})
                         THEN 120 ELSE 20
  <2>1. IsRate(r)
    BY RateIs DEF IsRate
  <2>2. Sanitize(p) = [p EXCEPT !.rate = r]
    BY DEF Sanitize
  <2> HIDE DEF r
  <2> QED
    BY <1>1, <2>1, <2>2 DEF Changes, IsPacket, PacketFields
<1> DEFINE q == Sanitize(p)
<1> HIDE DEF q
<1>3. \A x \in PacketFields : x # "rate" => q[x] = p[x]
  BY <1>2 DEF Changes, q
<1>4. /\ q.signal = p.signal /\ q.idx = p.idx /\ q.freq = p.freq
      /\ q.flags = p.flags /\ q.injected = p.injected
  BY <1>3 DEF PacketFields
<1>5. Changes(NoPacket, q, FieldFields)
  BY <1>2, <1>3 DEF AfterFields, Changes, FieldFields, q
<1>6. AfterFields(q, flds, k)
  BY <1>4, <1>5 DEF AfterFields
<1> QED
  BY <1>2, <1>6 DEF q

\* What a radiotap header tells.
LEMMA RadiotapTells ==
  ASSUME NEW c, IsCapture(c), c.arphdr = "radiotap"
  PROVE  /\ IsSeq(c.header.fields)
         /\ AfterFields(RadiotapInfo(c.header), c.header.fields, Len(c.header.fields))
         /\ IsRate(RadiotapInfo(c.header).rate)
<1>1. IsSeq(c.header.fields) /\ \A k \in DOMAIN c.header.fields : IsField(c.header.fields[k])
  BY DEF IsCapture, IsField
<1> DEFINE flds == c.header.fields
           n == Len(flds)
           p == FoldLeft(Field, NoPacket, flds)
<1>2. RadiotapInfo(c.header) = Sanitize(p)
  BY DEF RadiotapInfo
<1>3. AfterFields(p, flds, n)
  BY <1>1, FieldsFolded
<1> HIDE DEF flds, n, p
<1>4. AfterFields(Sanitize(p), flds, n) /\ IsRate(Sanitize(p).rate)
  BY <1>3, Sanitized
<1> QED
  BY <1>1, <1>2, <1>4 DEF flds, n

\* What a prism header tells.
LEMMA PrismTells ==
  ASSUME NEW h, h.rate \in Nat
  PROVE  /\ Changes(NoPacket, PrismInfo(h), FieldFields)
         /\ IsRate(PrismInfo(h).rate)
         /\ PrismInfo(h).idx \in Octet
         /\ PrismInfo(h).freq = 0
<1> DEFINE told == h.rate * 10
           rate == CASE told \in PrismRate -> told
                     [] told \notin PrismRate -> IF h.channel > 14 THEN 120 ELSE 20
           signal == IF h.noise >= 0 /\ h.rssi < 0 THEN h.rssi ELSE h.signal
           idx == RateToIndex(rate)
           flags == {"SHORTPRE", IF h.channel > 14 THEN "A" ELSE "G"}
<1>1. IsRate(rate)
  <2> HIDE DEF told
  <2>1. told \in PrismRate => told \in Rate
    BY RateIs, PrismRateIs
  <2>2. 120 \in Rate /\ 20 \in Rate
    BY RateIs
  <2> QED
    BY <2>1, <2>2 DEF IsRate
<1>2. idx \in Octet
  <2> HIDE DEF rate
  <2>1. RateToIndex(rate) \in 0 .. 12
    BY RateIndexed
  <2> HIDE DEF idx
  <2> QED
    BY <2>1, OctetIs DEF idx
<1>3. PrismInfo(h) = [NoPacket EXCEPT !.signal = signal, !.rate = rate, !.idx = idx, !.flags = flags]
  BY DEF PrismInfo
<1> HIDE DEF signal, rate, idx, flags
<1> DEFINE p == NoPacket
<1>4. IsPacket(p) /\ p.freq = 0
  BY NoPacketIs DEF NoPacket
<1> HIDE DEF p
<1>5. LET q == [p EXCEPT !.signal = signal, !.rate = rate, !.idx = idx, !.flags = flags]
      IN Changes(p, q, FieldFields) /\ q.rate = rate /\ q.idx = idx /\ q.freq = p.freq
  BY <1>4 DEF Changes, IsPacket, PacketFields, FieldFields
<1> QED
  BY <1>1, <1>2, <1>3, <1>4, <1>5 DEF p

\* What any header tells, and what its parser returns.
LEMMA HeaderTells ==
  ASSUME NEW c, IsCapture(c)
  PROVE  /\ HeaderRet(c) \in Nat \cup {-1}
         /\ Changes(NoPacket, HeaderInfoOf(c), FieldFields)
         /\ HeaderInfoOf(c).idx \in Octet
         /\ HeaderInfoOf(c).rate = 0 \/ IsRate(HeaderInfoOf(c).rate)
         /\ HeaderRet(c) # -1 => IsRate(HeaderInfoOf(c).rate)
         /\ c.arphdr = "radiotap" /\ HeaderRet(c) # -1 => HeaderInfoOf(c) = RadiotapInfo(c.header)
<1>1. HeaderRet(c) \in Nat \cup {-1}
  <2>1. CASE c.arphdr = "prism"
    BY <2>1 DEF HeaderRet, PrismLen
  <2>2. CASE c.arphdr = "radiotap"
    <3>1. c.header.len \in Nat /\ c.len \in Nat
      BY <2>2 DEF IsCapture
    <3> QED
      BY <2>2, <3>1 DEF HeaderRet, FixedLen
  <2>3. CASE c.arphdr \notin {"prism", "radiotap"}
    BY <2>3 DEF HeaderRet
  <2> QED
    BY <2>1, <2>2, <2>3
<1>2. /\ Changes(NoPacket, NoPacket, FieldFields)
      /\ NoPacket.idx \in Octet /\ NoPacket.rate = 0
  <2>1. Changes(NoPacket, NoPacket, FieldFields)
    BY NoPacketIs DEF Changes
  <2> QED
    BY <2>1, OctetIs DEF NoPacket
<1>3. CASE c.arphdr = "prism" /\ c.len >= PrismLen
  <2>1. HeaderInfoOf(c) = PrismInfo(c.header) /\ c.header.rate \in Nat
    BY <1>3 DEF HeaderInfoOf, IsCapture
  <2> QED
    BY <1>1, <1>3, <2>1, PrismTells
<1>4. CASE c.arphdr = "radiotap" /\ HeaderRet(c) # -1
  <2>1. HeaderInfoOf(c) = RadiotapInfo(c.header)
    BY <1>4 DEF HeaderInfoOf
  <2> DEFINE p == RadiotapInfo(c.header)
  <2>2. p = RadiotapInfo(c.header)
    OBVIOUS
  <2>3. AfterFields(p, c.header.fields, Len(c.header.fields)) /\ IsRate(p.rate)
    BY <1>4, RadiotapTells
  <2> HIDE DEF p
  <2>4. Changes(NoPacket, p, FieldFields) /\ p.idx \in Octet
    BY <2>3 DEF AfterFields
  <2>5. HeaderInfoOf(c) = p
    BY <2>1, <2>2
  <2> QED
    BY <1>1, <2>2, <2>3, <2>4, <2>5
<1>5. CASE ~(c.arphdr = "prism" /\ c.len >= PrismLen) /\ ~(c.arphdr = "radiotap" /\ HeaderRet(c) # -1)
  <2>1. HeaderInfoOf(c) = NoPacket
    BY <1>5 DEF HeaderInfoOf
  <2>2. HeaderRet(c) = -1
    <3>1. CASE c.arphdr = "prism"
      <4>1. c.len \in Nat /\ ~(c.len >= PrismLen)
        BY <1>5, <3>1 DEF IsCapture
      <4> QED
        BY <3>1, <4>1 DEF HeaderRet, PrismLen
    <3>2. CASE c.arphdr # "prism"
      BY <1>5, <3>2 DEF HeaderRet
    <3> QED
      BY <3>1, <3>2
  <2> QED
    BY <1>2, <2>1, <2>2
<1> QED
  BY <1>3, <1>4, <1>5

\* What the header of a frame tells is kept by its elements.
FrameHeader == {"ta", "ra", "bssid", "type", "stype", "mode", "beacon", "wep", "seqno", "retry"}

LEMMA HeaderInfoTells ==
  ASSUME NEW p, IsPacket(p), NEW f
  PROVE  /\ Changes(p, HeaderInfo(p, f), FrameHeader)
         /\ HeaderInfo(p, f).ta = Addresses(f).ta
         /\ HeaderInfo(p, f).ra = Addresses(f).ra
         /\ HeaderInfo(p, f).bssid = Addresses(f).bssid
         /\ HeaderInfo(p, f).mode = {SenderMode(f)}
         /\ HeaderInfo(p, f).beacon = IsBeacon(f)
         /\ HeaderInfo(p, f).seqno = IF f.type = CTRL THEN 0 ELSE f.seqno
<1> DEFINE ta == Addresses(f).ta
           ra == Addresses(f).ra
           bssid == Addresses(f).bssid
           mode == {SenderMode(f)}
           beacon == IsBeacon(f)
           wep == Wep(f)
           seqno == IF f.type = CTRL THEN 0 ELSE f.seqno
           retry == f.type # CTRL /\ Flag(f, "RETRY")
           q == [p EXCEPT !.ta = ta, !.ra = ra, !.bssid = bssid, !.type = f.type,
                          !.stype = f.stype, !.mode = mode, !.beacon = beacon,
                          !.wep = wep, !.seqno = seqno, !.retry = retry]
<1>1. HeaderInfo(p, f) = q
  BY DEF HeaderInfo
<1> HIDE DEF ta, ra, bssid, mode, beacon, wep, seqno, retry
<1>2. /\ Changes(p, q, FrameHeader)
      /\ q.ta = ta /\ q.ra = ra /\ q.bssid = bssid
      /\ q.mode = mode /\ q.beacon = beacon /\ q.seqno = seqno
  BY DEF Changes, IsPacket, PacketFields, FrameHeader
<1> HIDE DEF q
<1> QED
  BY <1>1, <1>2 DEF ta, ra, bssid, mode, beacon, seqno

LEMMA ParseTells ==
  ASSUME NEW p, IsPacket(p), NEW f, IsSeq(f.ies)
  PROVE  /\ IsPacket(Parse(p, f))
         /\ \A x \in FieldFields : Parse(p, f)[x] = p[x]
         /\ \A x \in FrameHeader : Parse(p, f)[x] = HeaderInfo(p, f)[x]
         /\ p.width \in Width => Parse(p, f).width \in Width
<1> DEFINE h == HeaderInfo(p, f)
           w == Walk(h, f.ies, IeLen(f))
<1>1. Changes(p, h, FrameHeader)
  BY HeaderInfoTells
<1>2. IsPacket(h)
  BY <1>1 DEF Changes
<1>3. h.width = p.width
  BY <1>1 DEF Changes, PacketFields, FrameHeader
<1>4. \A x \in FieldFields : h[x] = p[x]
  BY <1>1 DEF Changes, PacketFields, FieldFields, FrameHeader
<1> HIDE DEF h
<1>5. /\ Changes(h, w, ElementFields)
      /\ h.width \in Width => w.width \in Width
  BY <1>2, WalkChanges
<1>6. Parse(p, f) = IF IsBeacon(f) \/ IsProbeReq(f) THEN w ELSE h
  BY DEF Parse, h
<1> HIDE DEF w
<1>7. \A x \in FieldFields \cup FrameHeader : w[x] = h[x]
  BY <1>5 DEF Changes, PacketFields, FieldFields, FrameHeader, ElementFields
<1>8. IsPacket(w)
  BY <1>5 DEF Changes
<1>9. CASE IsBeacon(f) \/ IsProbeReq(f)
  BY <1>3, <1>4, <1>5, <1>6, <1>7, <1>8, <1>9 DEF h
<1>10. CASE ~(IsBeacon(f) \/ IsProbeReq(f))
  BY <1>2, <1>3, <1>4, <1>6, <1>10 DEF h
<1> QED
  BY <1>9, <1>10

\* The frame behind the header of a capture.
LEMMA FrameTells ==
  ASSUME NEW c, IsCapture(c)
  PROVE  /\ FrameOf(c).len = c.len - HeaderRet(c)
         /\ \A x \in FrameFields : x # "len" => FrameOf(c)[x] = c.frame[x]
         /\ IsSeq(FrameOf(c).ies)
BY DEF IsCapture, FrameOf, FrameFields

\* What is read of a capture, as far as its headers tell.
LEMMA ReadTells ==
  ASSUME NEW c, IsCapture(c)
  PROVE  /\ IsPacket(ParseRaw(c))
         /\ \A x \in FieldFields : ParseRaw(c)[x] = HeaderInfoOf(c)[x]
         /\ ParseRaw(c).width \in Width
         /\ FrameReached(c) /\ Accepted(FrameOf(c))
              => ParseRaw(c).ta = Addresses(FrameOf(c)).ta
<1> DEFINE h == HeaderInfoOf(c)
           f == FrameOf(c)
<1>1. Changes(NoPacket, h, FieldFields)
  BY HeaderTells
<1>2. IsPacket(h)
  BY <1>1 DEF Changes
<1>3. h.width \in Width
  <2>1. h.width = NoPacket.width
    BY <1>1 DEF Changes, PacketFields, FieldFields
  <2> QED
    BY <2>1 DEF NoPacket, Width, WUNSPEC, W8080
<1>4. IsSeq(f.ies)
  BY FrameTells
<1> HIDE DEF h, f
<1>5. CASE FrameReached(c) /\ Accepted(f)
  <2>1. ParseRaw(c) = Parse(h, f)
    BY <1>5 DEF ParseRaw, h, f
  <2>2. Parse(h, f).ta = Addresses(f).ta
    <3>1. Parse(h, f).ta = HeaderInfo(h, f).ta
      BY <1>2, <1>4, ParseTells DEF FrameHeader
    <3> QED
      BY <1>2, <3>1, HeaderInfoTells
  <2> QED
    BY <1>2, <1>3, <1>4, <2>1, <2>2, ParseTells DEF h, f
<1>6. CASE ~(FrameReached(c) /\ Accepted(f))
  <2>1. ParseRaw(c) = h
    BY <1>6 DEF ParseRaw, h, f
  <2> QED
    BY <1>2, <1>3, <1>6, <2>1 DEF h, f
<1> QED
  BY <1>5, <1>6

\* uwifi_parse_raw returns an error or what it has consumed of the buffer.
LEMMA ConsumedIn ==
  ASSUME NEW f, f.len \in Int
  PROVE  Consumed(f) \in Nat \cup {-1} /\ (Consumed(f) = -1 \/ Consumed(f) = 0 \/ Consumed(f) <= f.len)
<1>1. CASE ~Accepted(f)
  BY <1>1 DEF Consumed
<1>2. CASE Accepted(f) /\ f.type = DATA /\ ~Wep(f)
  <2>1. HdrLen(f) \in Nat
    BY <1>2 DEF HdrLen, If
  <2>2. Consumed(f) = HdrLen(f) /\ f.len >= HdrLen(f)
    BY <1>2 DEF Consumed, Accepted
  <2> QED
    BY <2>1, <2>2
<1>3. CASE Accepted(f) /\ ~(f.type = DATA /\ ~Wep(f))
  BY <1>3 DEF Consumed
<1> QED
  BY <1>1, <1>2, <1>3

LEMMA ReturnsIn ==
  ASSUME NEW c, IsCapture(c), ParseRawRet(c) # -1
  PROVE  ParseRawRet(c) \in 0 .. c.len /\ HeaderRet(c) # -1
<1>1. HeaderRet(c) \in Nat \cup {-1} /\ c.len \in Nat
  BY HeaderTells DEF IsCapture
<1>2. CASE HeaderRet(c) <= 0
  <2>1. ParseRawRet(c) = HeaderRet(c)
    BY <1>1, <1>2 DEF ParseRawRet, FrameReached
  <2> QED
    BY <1>1, <1>2, <2>1
<1>3. CASE HeaderRet(c) > 0
  <2>1. HeaderRet(c) < c.len
    <3> SUFFICES ASSUME HeaderRet(c) >= c.len PROVE ParseRawRet(c) = -1
      BY <1>1
    <3> QED
      BY <1>1, <1>3 DEF ParseRawRet, FrameReached
  <2> DEFINE r == Consumed(FrameOf(c))
  <2>2. ParseRawRet(c) = IF r <= 0 THEN r ELSE HeaderRet(c) + r
    BY <1>1, <1>3, <2>1 DEF ParseRawRet, FrameReached
  <2>3. r \in Nat \cup {-1} /\ (r = -1 \/ r = 0 \/ r <= c.len - HeaderRet(c))
    BY <1>1, ConsumedIn, FrameTells
  <2> HIDE DEF r
  <2> QED
    BY <1>1, <1>3, <2>1, <2>2, <2>3
<1> QED
  BY <1>1, <1>2, <1>3

-----------------------------------------------------------------------------
\* The captures there are.

\* The length of a name fits its byte.
LEMMA NameFits ==
  ASSUME NEW e \in Essid
  PROVE  NameLen[e] \in Nat /\ NameLen[e] % 256 = NameLen[e]
BY CaptureAssumption, OctetIs

\* Frames are built whole.
LEMMA FramesBuilt ==
  ASSUME NEW x \in Frames
  PROVE  /\ DOMAIN x.f = FrameFields /\ IsSeq(x.f.ies) /\ x.l \in Nat
         /\ \A k \in DOMAIN x.f.ies : x.f.ies[k].len \in Nat
<1>1. ASSUME NEW type, NEW stype, NEW flags, NEW a1, NEW a2, NEW a3, NEW seqno, NEW capab, NEW ies
      PROVE  LET f == Frame(type, stype, flags, a1, a2, a3, seqno, capab, ies)
             IN DOMAIN f = FrameFields /\ f.ies = ies
  BY DEF Frame, FrameFields
<1>2. ASSUME NEW e \in Essid, NEW ch
      PROVE  /\ IsSeq(BeaconIes(e, ch)) /\ BeaconLen(e) \in Nat
             /\ \A k \in DOMAIN BeaconIes(e, ch) : BeaconIes(e, ch)[k].len \in Nat
  BY NameFits DEF BeaconIes, BeaconLen, IsSeq
<1>3. IsSeq(<<>>) /\ DOMAIN <<>> = {}
  BY DEF IsSeq
<1>4. CASE \E s \in Station, e \in Essid, i \in DOMAIN table :
             x = [f |-> BeaconBy(s, e, table[i].chan), l |-> BeaconLen(e)]
  <2> PICK s \in Station, e \in Essid, i \in DOMAIN table :
           x = [f |-> BeaconBy(s, e, table[i].chan), l |-> BeaconLen(e)]
    BY <1>4
  <2>1. DOMAIN x.f = FrameFields /\ x.f.ies = BeaconIes(e, table[i].chan)
    BY <1>1 DEF BeaconBy, CreateBeacon
  <2> QED
    BY <1>2, <2>1
<1>5. CASE \E s \in Station, d \in Station, e \in Essid, i \in DOMAIN table :
             x = [f |-> ReplyBy(s, d, e, table[i].chan), l |-> BeaconLen(e)]
  <2> PICK s \in Station, d \in Station, e \in Essid, i \in DOMAIN table :
           x = [f |-> ReplyBy(s, d, e, table[i].chan), l |-> BeaconLen(e)]
    BY <1>5
  <2>1. DOMAIN x.f = FrameFields /\ x.f.ies = BeaconIes(e, table[i].chan)
    BY <1>1 DEF ReplyBy, CreateBeacon
  <2> QED
    BY <1>2, <2>1
<1>6. CASE \E s \in Station, d \in Station : x = [f |-> NullBy(s, d), l |-> NulldataLen]
  <2> PICK s \in Station, d \in Station : x = [f |-> NullBy(s, d), l |-> NulldataLen]
    BY <1>6
  <2>1. DOMAIN x.f = FrameFields /\ x.f.ies = <<>>
    BY <1>1 DEF NullBy, CreateNulldata
  <2>2. x.l \in Nat
    BY DEF NulldataLen
  <2> QED
    BY <1>3, <2>1, <2>2
<1> QED
  BY <1>4, <1>5, <1>6 DEF Frames

\* What is captured of a frame is what the parser expects, and tells no other
\* frequency than the one it was sent on.
LEMMA HeardBuilt ==
  ASSUME NEW x \in Frames
  PROVE  IsCapture(OnAir(x.f, x.l)) /\ Told(OnAir(x.f, x.l)) = {}
<1> DEFINE c == OnAir(x.f, x.l)
<1>1. /\ DOMAIN x.f = FrameFields /\ IsSeq(x.f.ies) /\ x.l \in Nat
      /\ \A k \in DOMAIN x.f.ies : x.f.ies[k].len \in Nat
  BY FramesBuilt
<1>2. /\ c.arphdr = "radiotap" /\ c.header.len = 8 /\ c.header.fields = <<>>
      /\ c.frame = x.f /\ c.len = 12 + x.l
  BY <1>1 DEF OnAir, FixedLen
<1> HIDE DEF c
<1>3. IsSeq(<<>>) /\ DOMAIN <<>> = {} /\ ToSet(<<>>) = {}
  BY DEF IsSeq, ToSet
<1>4. IsCapture(c)
  BY <1>1, <1>2, <1>3 DEF IsCapture
<1>5. Told(c) = {}
  BY <1>2, <1>3 DEF Told
<1> QED
  BY <1>4, <1>5 DEF c

LEMMA SentHeader ==
  ASSUME NEW freq
  PROVE  LET h == CreateRadiotapHeader(freq)
         IN /\ h.ok /\ h.len = 17
            /\ Len(h.fields) = 5 /\ DOMAIN h.fields = 1 .. 5
            /\ h.fields[1].id = "FLAGS" /\ h.fields[1].bits = {}
            /\ h.fields[2].id = "RATE"
            /\ h.fields[3].id = "CHANNEL" /\ h.fields[3].freq = freq
            /\ h.fields[4].id = "TX_FLAGS"
            /\ h.fields[5].id = "DATA_RETRIES"
BY DEF CreateRadiotapHeader

LEMMA SentBuilt ==
  ASSUME NEW x \in Frames, NEW freq
  PROVE  IsCapture(Loopback(x.f, x.l, freq)) /\ Told(Loopback(x.f, x.l, freq)) = {freq}
<1> DEFINE c == Loopback(x.f, x.l, freq)
           h == CreateRadiotapHeader(freq)
<1>1. /\ DOMAIN x.f = FrameFields /\ IsSeq(x.f.ies) /\ x.l \in Nat
      /\ \A k \in DOMAIN x.f.ies : x.f.ies[k].len \in Nat
  BY FramesBuilt
<1>2. c.arphdr = "radiotap" /\ c.header = h /\ c.frame = x.f /\ c.len = h.len + x.l
  BY DEF Loopback
<1>3. /\ h.len = 17 /\ Len(h.fields) = 5 /\ DOMAIN h.fields = 1 .. 5
      /\ \A k \in 1 .. 5 : h.fields[k].id \in {"FLAGS", "RATE", "CHANNEL", "TX_FLAGS", "DATA_RETRIES"}
      /\ \A k \in 1 .. 5 : h.fields[k].id = "CHANNEL" <=> k = 3
      /\ h.fields[3].freq = freq
  BY SentHeader
<1> HIDE DEF c, h
<1>4. IsCapture(c)
  <2>1. \A k \in DOMAIN h.fields : h.fields[k].id # "MCS" /\ h.fields[k].id # "SIGNAL"
    BY <1>3
  <2>2. IsSeq(h.fields)
    BY <1>3 DEF IsSeq
  <2>3. c.len \in Nat /\ h.len \in Nat
    BY <1>1, <1>2, <1>3
  <2> QED
    BY <1>1, <1>2, <2>1, <2>2, <2>3 DEF IsCapture
<1>5. Told(c) = {freq}
  <2> DEFINE g == {e \in ToSet(h.fields) : e.id = "CHANNEL"}
  <2>1. g = {h.fields[3]}
    BY <1>3 DEF ToSet
  <2>2. Told(c) = {e.freq : e \in g}
    BY <1>2 DEF Told
  <2> HIDE DEF g
  <2> QED
    BY <1>3, <2>1, <2>2
<1> QED
  BY <1>4, <1>5 DEF c

LEMMA CapturesAre ==
  ASSUME NEW c \in Captures
  PROVE  IsCapture(c)
<1>1. CASE c \in Air
  BY <1>1, CaptureAssumption
<1>2. ASSUME NEW x \in Frames, c = OnAir(x.f, x.l) PROVE IsCapture(c)
  BY <1>2, HeardBuilt
<1>3. ASSUME NEW x \in Frames, NEW i \in DOMAIN table, c = Loopback(x.f, x.l, table[i].freq)
      PROVE  IsCapture(c)
  BY <1>3, SentBuilt
<1> QED
  BY <1>1, <1>2, <1>3 DEF Captures

\* The frequency of a packet is the one its capture tells.
LEMMA FreqTold ==
  ASSUME NEW c, IsCapture(c), HeaderRet(c) # -1, NEW freq, Told(c) \subseteq {freq}
  PROVE  HeaderInfoOf(c).freq = IF Told(c) = {} THEN 0 ELSE freq
<1>1. CASE c.arphdr = "radiotap"
  <2> DEFINE flds == c.header.fields
             n == Len(flds)
             p == HeaderInfoOf(c)
  <2>1. IsSeq(flds) /\ AfterFields(p, flds, n)
    BY <1>1, HeaderTells, RadiotapTells
  <2>2. Told(c) = {f.freq : f \in {g \in ToSet(flds) : g.id = "CHANNEL"}}
    BY <1>1 DEF Told
  <2> HIDE DEF flds, n, p
  <2>3. ToSet(flds) = {flds[j] : j \in 1 .. n}
    BY <2>1 DEF ToSet, IsSeq, n
  <2>4. \A j \in 1 .. n : flds[j].id = "CHANNEL" => flds[j].freq \in Told(c)
    BY <2>2, <2>3
  <2>5. (\E j \in 1 .. n : flds[j].id = "CHANNEL") <=> Told(c) # {}
    BY <2>2, <2>3
  <2>6. p.freq = IF \E j \in 1 .. n : flds[j].id = "CHANNEL" THEN freq ELSE 0
    BY <2>1, <2>4 DEF AfterFields
  <2> QED
    BY <2>5, <2>6 DEF p
<1>2. CASE c.arphdr # "radiotap"
  <2>1. Told(c) = {}
    BY <1>2 DEF Told
  <2>2. c.arphdr = "prism" /\ c.len >= PrismLen /\ c.header.rate \in Nat
    BY <1>2 DEF HeaderRet, IsCapture, PrismLen
  <2>3. HeaderInfoOf(c) = PrismInfo(c.header)
    BY <2>2 DEF HeaderInfoOf
  <2>4. HeaderInfoOf(c).freq = 0
    BY <2>2, <2>3, PrismTells
  <2> QED
    BY <2>1, <2>4
<1> QED
  BY <1>1, <1>2

\* A frequency of the table has its own index.
LEMMA IdxOf ==
  ASSUME NEW i \in DOMAIN table
  PROVE  IdxFromFreq(table, table[i].freq) = i
<1>1. {j \in DOMAIN table : table[j].freq = table[i].freq} = {i}
  BY CaptureAssumption
<1>2. i \in Int
  BY CaptureAssumption
<1> QED
  BY <1>1, <1>2 DEF IdxFromFreq, Lowest

-----------------------------------------------------------------------------
\* The invariant.

LEMMA Starts ==
  ASSUME Init
  PROVE  IInv
<1>1. TypeOK
  <2>1. socket \in Seq(Packets) /\ Len(socket) = 0
    BY DEF Init
  <2> QED
    <3>1. 0 \in Octet /\ WUNSPEC \in Width
      BY OctetIs DEF Width, WUNSPEC, W8080
    <3> QED
      BY <2>1, <3>1, CaptureAssumption DEF Init, TypeOK, NoPacket
<1>2. Waiting
  BY DEF Init, Waiting
<1>3. LastRead
  BY DEF Init, LastRead
<1> QED
  BY <1>1, <1>2, <1>3 DEF Init, IInv

\* The socket takes what tells no other channel than the one the radio is on.
LEMMA Arrives ==
  ASSUME IInv, NEW c \in Captures, Told(c) \subseteq {table[radio].freq}, Arrive(c)
  PROVE  IInv'
<1> USE DEF lastVars
<1> DEFINE x == [c |-> c, on |-> radio]
<1>1. x \in Packets /\ socket \in Seq(Packets)
  BY DEF IInv, TypeOK, Packets
<1>2. Truthful(x) /\ x.on = radio
  BY <1>1 DEF Truthful
<1>3. /\ socket' = Append(socket, x) /\ Len(socket) < Room
      /\ UNCHANGED <<radio, channel_idx, cap, ret, pkt, chan_idx, stage>>
  BY DEF Arrive
<1> HIDE DEF x
<1>4. /\ socket' \in Seq(Packets) /\ Len(socket') = Len(socket) + 1 /\ Len(socket) \in Nat
      /\ \A k \in 1 .. Len(socket) : socket'[k] = socket[k]
      /\ socket'[Len(socket) + 1] = x
  BY <1>1, <1>3, AppendProperties, LenProperties
<1>5. Waiting'
  <2>1. ASSUME NEW k \in 1 .. Len(socket) + 1
        PROVE  Truthful(socket'[k]) /\ (channel_idx = -1 => socket'[k].on = radio)
    BY <1>2, <1>4 DEF IInv, Waiting
  <2> QED
    BY <1>3, <1>4, <2>1 DEF Waiting
<1>6. TypeOK'
  BY <1>3, <1>4, CaptureAssumption DEF IInv, TypeOK
<1>7. LastRead' /\ channel_idx' \in {-1, radio'}
  BY <1>3 DEF IInv, LastRead
<1> QED
  BY <1>5, <1>6, <1>7 DEF IInv

LEMMA Retunes ==
  ASSUME IInv, NEW i \in DOMAIN table, Retune(i)
  PROVE  IInv'
<1> USE DEF lastVars
<1>1. i # -1
  BY CaptureAssumption
<1>2. /\ radio' = i /\ channel_idx' = i
      /\ UNCHANGED <<socket, cap, ret, pkt, chan_idx, stage>>
  BY DEF Retune
<1>3. TypeOK'
  BY <1>2 DEF IInv, TypeOK
<1>4. Waiting'
  BY <1>1, <1>2 DEF IInv, Waiting
<1>5. LastRead'
  BY <1>1, <1>2 DEF IInv, LastRead
<1> QED
  BY <1>2, <1>3, <1>4, <1>5 DEF IInv

\* What the parser makes of a capture has the type of a packet.
Typed(p, r, len) ==
  /\ p.rate \in Rate \cup {0} /\ p.idx \in Octet /\ p.width \in Width
  /\ r # -1 => p.rate > 0 /\ r \in 0 .. len

LEMMA Parsed ==
  ASSUME NEW c \in Captures, NEW r, r = ParseRawRet(c), NEW p, p = ParseRaw(c)
  PROVE  Typed(p, r, c.len)
<1>1. IsCapture(c)
  BY CapturesAre
<1>2. p.rate = HeaderInfoOf(c).rate /\ p.idx = HeaderInfoOf(c).idx /\ p.width \in Width
  BY <1>1, ReadTells DEF FieldFields
<1>3. p.rate = 0 \/ IsRate(p.rate)
  BY <1>1, <1>2, HeaderTells
<1>4. p.rate \in Rate \cup {0}
  BY <1>3, RateBounds
<1>5. ASSUME r # -1 PROVE p.rate > 0 /\ r \in 0 .. c.len
  <2>1. r \in 0 .. c.len /\ HeaderRet(c) # -1
    BY <1>1, <1>5, ReturnsIn
  <2>2. IsRate(p.rate)
    BY <1>1, <1>2, <2>1, HeaderTells
  <2> QED
    BY <2>1, <2>2, RateBounds
<1>6. p.idx \in Octet
  BY <1>1, <1>2, HeaderTells
<1> QED
  BY <1>2, <1>4, <1>5, <1>6 DEF Typed

LEMMA Reads ==
  ASSUME IInv, Read
  PROVE  IInv'
<1>1. /\ socket # <<>> /\ socket \in Seq(Packets)
      /\ socket' = Tail(socket) /\ cap' = Head(socket)
      /\ ret' = ParseRawRet(cap'.c) /\ pkt' = ParseRaw(cap'.c)
      /\ chan_idx' = -1 /\ stage' = "parsed"
      /\ UNCHANGED <<radio, channel_idx>>
  BY DEF Read, IInv, TypeOK
<1>2. /\ Head(socket) \in Packets /\ socket' \in Seq(Packets)
      /\ Len(socket') = Len(socket) - 1 /\ Len(socket) \in Nat \ {0}
      /\ \A k \in 1 .. Len(socket') : socket'[k] = socket[k + 1]
  BY <1>1, HeadTailProperties, EmptySeq
<1>3. Head(socket) = socket[1]
  BY <1>1
<1>4. Truthful(cap') /\ (channel_idx = -1 => cap'.on = radio)
  BY <1>1, <1>2, <1>3 DEF IInv, Waiting
<1>5. \A k \in 1 .. Len(socket') :
         Truthful(socket'[k]) /\ (channel_idx = -1 => socket'[k].on = radio)
  <2>1. \A k \in 1 .. Len(socket) :
           Truthful(socket[k]) /\ (channel_idx = -1 => socket[k].on = radio)
    BY DEF IInv, Waiting
  <2>2. \A k \in 1 .. Len(socket') : k + 1 \in 1 .. Len(socket)
    BY <1>2
  <2> QED
    BY <1>2, <2>1, <2>2
<1>6. Waiting'
  BY <1>1, <1>5 DEF Waiting
<1>7. LastRead'
  BY <1>1, <1>4 DEF LastRead
<1>8. TypeOK'
  <2>1. cap'.c \in Captures
    BY <1>1, <1>2 DEF Packets
  <2>2. Typed(pkt', ret', cap'.c.len)
    BY <1>1, <2>1, Parsed
  <2>3. Len(socket') <= Room
    BY <1>2, CaptureAssumption DEF IInv, TypeOK
  <2>4. stage' \in {"idle", "parsed", "fixed"} /\ chan_idx' \in DOMAIN table \cup {-1}
    BY <1>1
  <2>5. /\ pkt'.rate \in Rate \cup {0} /\ pkt'.idx \in Octet /\ pkt'.width \in Width
        /\ ret' # -1 => pkt'.rate > 0 /\ ret' \in 0 .. cap'.c.len
    BY <2>2 DEF Typed
  <2>6. radio' \in DOMAIN table /\ channel_idx' \in DOMAIN table \cup {-1}
    BY <1>1 DEF IInv, TypeOK
  <2> QED
    BY <1>2, <2>3, <2>4, <2>5, <2>6 DEF TypeOK
<1> QED
  BY <1>1, <1>6, <1>7, <1>8 DEF IInv

\* The channel is all that is put right.
LEMMA ChannelPut ==
  ASSUME NEW p, IsPacket(p), NEW i
  PROVE  Changes(p, WithChannel(p, i), {"channel"})
BY DEF WithChannel, Changes, IsPacket, PacketFields

LEMMA Fixes ==
  ASSUME IInv, FixupPacketChannel
  PROVE  IInv'
<1> DEFINE i == PacketIdx(pkt)
           c == cap.c
<1>1. /\ stage = "parsed" /\ ret # -1 /\ stage' = "fixed"
      /\ chan_idx' = i /\ pkt' = WithChannel(pkt, i)
      /\ channel_idx' = IF channel_idx < 0 /\ i >= 0 THEN i ELSE channel_idx
      /\ UNCHANGED <<radio, socket, cap, ret>>
  BY DEF FixupPacketChannel
<1>2. /\ Truthful(cap) /\ (channel_idx = -1 => cap.on = radio) /\ c \in Captures /\ cap.on \in DOMAIN table
      /\ ret = ParseRawRet(c) /\ pkt = ParseRaw(c) /\ IsCapture(c)
  BY <1>1, CapturesAre DEF IInv, LastRead, Truthful, Packets
<1>3. pkt.freq = IF Told(c) = {} THEN 0 ELSE table[cap.on].freq
  <2>1. HeaderRet(c) # -1
    BY <1>1, <1>2, ReturnsIn
  <2>2. pkt.freq = HeaderInfoOf(c).freq
    BY <1>2, ReadTells DEF FieldFields
  <2> QED
    BY <1>2, <2>1, <2>2, FreqTold DEF Truthful
<1>4. i = IF Told(c) = {} THEN channel_idx ELSE cap.on
  <2>1. CASE Told(c) = {}
    BY <1>3, <2>1 DEF PacketIdx
  <2>2. CASE Told(c) # {}
    <3>1. pkt.freq = table[cap.on].freq /\ pkt.freq # 0 /\ ~(cap.on < 0)
      BY <1>2, <1>3, <2>2, CaptureAssumption
    <3>2. IdxFromFreq(table, pkt.freq) = cap.on
      BY <1>2, <3>1, IdxOf
    <3> QED
      BY <2>2, <3>1, <3>2 DEF PacketIdx
  <2> QED
    BY <2>1, <2>2
<1> HIDE DEF i, c
<1>5. channel_idx \in {-1, radio} /\ radio \in DOMAIN table /\ DOMAIN table \subseteq Nat
  BY CaptureAssumption DEF IInv, TypeOK
<1>6. channel_idx' \in {-1, radio} /\ (channel_idx' = -1 => channel_idx = -1)
  BY <1>1, <1>2, <1>4, <1>5
<1>7. Waiting'
  BY <1>1, <1>6 DEF IInv, Waiting
<1>8. LastRead'
  BY <1>1, <1>2, <1>4, <1>6 DEF LastRead, c
<1>9. TypeOK'
  <2>1. IsPacket(pkt)
    BY <1>2, ReadTells
  <2>2. Changes(pkt, pkt', {"channel"})
    BY <1>1, <2>1, ChannelPut
  <2>3. pkt'.rate = pkt.rate /\ pkt'.idx = pkt.idx /\ pkt'.width = pkt.width
    BY <2>2 DEF Changes, PacketFields
  <2>4. chan_idx' \in DOMAIN table \cup {-1} /\ channel_idx' \in DOMAIN table \cup {-1}
    BY <1>1, <1>2, <1>4, <1>5, <1>6
  <2> QED
    BY <1>1, <2>3, <2>4 DEF IInv, TypeOK
<1> QED
  BY <1>1, <1>6, <1>7, <1>8, <1>9 DEF IInv

LEMMA StepKeeps ==
  ASSUME IInv, [Next]_vars
  PROVE  IInv'
<1>1. CASE \E offer \in Offers : Receive(offer)
  <2> PICK offer \in Offers : Receive(offer)
    BY <1>1
  <2>1. offer.c \in Captures /\ Told(offer.c) \subseteq {table[radio].freq} /\ Arrive(offer.c)
    BY DEF Offers, Receive, Captures
  <2> QED
    BY <2>1, Arrives
<1>2. CASE \E f \in Frames : Inject(f)
  <2> PICK f \in Frames : Inject(f)
    BY <1>2
  <2> DEFINE c == Loopback(f.f, f.l, table[radio].freq)
  <2>1. c \in Captures
    BY DEF Captures, IInv, TypeOK
  <2>2. Told(c) \subseteq {table[radio].freq} /\ Arrive(c)
    BY SentBuilt DEF Inject
  <2> QED
    BY <2>1, <2>2, Arrives
<1>3. CASE \E f \in Frames : Overhear(f)
  <2> PICK f \in Frames : Overhear(f)
    BY <1>3
  <2> DEFINE c == OnAir(f.f, f.l)
  <2>1. c \in Captures /\ Told(c) \subseteq {table[radio].freq} /\ Arrive(c)
    BY HeardBuilt DEF Captures, Overhear
  <2> QED
    BY <2>1, Arrives
<1>4. CASE \E i \in DOMAIN table : Retune(i)
  BY <1>4, Retunes
<1>5. CASE Read
  BY <1>5, Reads
<1>6. CASE FixupPacketChannel
  BY <1>6, Fixes
<1>7. CASE UNCHANGED vars
  <2>1. UNCHANGED <<radio, channel_idx, socket, cap, ret, pkt, chan_idx, stage>>
    BY <1>7 DEF vars
  <2>2. TypeOK'
    BY <2>1 DEF IInv, TypeOK
  <2>3. Waiting' /\ LastRead'
    BY <2>1 DEF IInv, Waiting, LastRead
  <2> QED
    BY <2>1, <2>2, <2>3 DEF IInv
<1> QED
  BY <1>1, <1>2, <1>3, <1>4, <1>5, <1>6, <1>7 DEF Next

\* The inductive invariant holds of every reachable state.
THEOREM Invariance == Spec => []IInv
<1>1. Init => IInv
  BY Starts
<1>2. IInv /\ [Next]_vars => IInv'
  BY StepKeeps
<1> QED
  BY <1>1, <1>2, PTL DEF Spec

-----------------------------------------------------------------------------
\* The properties.

\* Indexes are those of the table, the socket keeps to its room, rates are positive,
\* and uwifi_parse_raw never consumes more than there is (raw_parser.c:234).
THEOREM TypeCorrect == Spec => []TypeOK
<1>1. IInv => TypeOK
  BY DEF IInv
<1> QED
  BY <1>1, Invariance, PTL

\* However long a packet has waited, its channel is the one it was received on when
\* the driver told its frequency, and a channel that is guessed is the radio's
\* (uwifi_fixup_packet_channel, raw_parser.c:263).
THEOREM ChannelCorrect == Spec => []ChannelRight
<1>1. IInv => ChannelRight
  BY DEF IInv, LastRead, ChannelRight
<1> QED
  BY <1>1, Invariance, PTL

\* What an application holds of the headers of the packet it has read.
LEMMA ReadKept ==
  ASSUME IInv, stage # "idle"
  PROVE  /\ cap.c \in Captures /\ IsCapture(cap.c) /\ ret = ParseRawRet(cap.c)
         /\ IsPacket(ParseRaw(cap.c))
         /\ \A x \in PacketFields : x # "channel" => pkt[x] = ParseRaw(cap.c)[x]
<1>1. cap.c \in Captures /\ IsCapture(cap.c) /\ ret = ParseRawRet(cap.c)
  BY CapturesAre DEF IInv, LastRead, Truthful, Packets
<1> DEFINE p == ParseRaw(cap.c)
<1>2. IsPacket(p)
  BY <1>1, ReadTells
<1> HIDE DEF p
<1>3. CASE stage = "parsed"
  BY <1>1, <1>2, <1>3 DEF IInv, LastRead, p
<1>4. CASE stage = "fixed"
  <2>1. pkt = WithChannel(p, chan_idx)
    BY <1>4 DEF IInv, LastRead, p
  <2>2. Changes(p, pkt, {"channel"})
    BY <1>2, <2>1, ChannelPut
  <2> QED
    BY <1>1, <1>2, <2>2 DEF Changes, p
<1> QED
  BY <1>3, <1>4 DEF IInv, TypeOK

\* Whatever the number and the order of its signals, the packet has the strongest of
\* those that are valid (get_radiotap_info, raw_parser.c:133).
THEOREM StrongestSignal == Spec => []SignalIsStrongest
<1>1. ASSUME IInv, stage # "idle", cap.c.arphdr = "radiotap", ret # -1
      PROVE  LET valid == {f.dbm : f \in {g \in ToSet(cap.c.header.fields) :
                                          g.id = "SIGNAL" /\ g.dbm < 0}}
             IN pkt.signal = IF valid = {} THEN 0 ELSE Max(valid)
  <2> DEFINE c == cap.c
             flds == c.header.fields
             n == Len(flds)
             valid == {f.dbm : f \in {g \in ToSet(flds) : g.id = "SIGNAL" /\ g.dbm < 0}}
             s == pkt.signal
             p == HeaderInfoOf(c)
  <2>1. /\ IsCapture(c) /\ ret = ParseRawRet(c)
        /\ \A x \in PacketFields : x # "channel" => pkt[x] = ParseRaw(c)[x]
    BY <1>1, ReadKept
  <2>2. HeaderRet(c) # -1
    BY <1>1, <2>1, ReturnsIn
  <2>3. s = p.signal
    BY <2>1, ReadTells DEF FieldFields, PacketFields
  <2>4. IsSeq(flds) /\ AfterFields(p, flds, n)
    BY <1>1, <2>1, <2>2, HeaderTells, RadiotapTells
  <2>5. \A j \in 1 .. n : flds[j].id = "SIGNAL" => flds[j].dbm \in Dbm
    <3>1. \A j \in DOMAIN flds : flds[j].id = "SIGNAL" => flds[j].dbm \in Dbm
      BY <1>1, <2>1 DEF IsCapture
    <3>2. DOMAIN flds = 1 .. n
      BY <2>4 DEF IsSeq
    <3> QED
      BY <3>1, <3>2
  <2> HIDE DEF c, flds, n, p, s
  <2>6. \A j \in 1 .. n : flds[j].id = "SIGNAL" /\ flds[j].dbm < 0 <=> IsSignal(flds[j])
    BY <2>5, DbmIs DEF IsSignal
  <2>7. ToSet(flds) = {flds[j] : j \in 1 .. n}
    BY <2>4 DEF ToSet, IsSeq, n
  <2>8. \A d : d \in valid <=> \E j \in 1 .. n : IsSignal(flds[j]) /\ d = flds[j].dbm
    BY <2>6, <2>7
  <2> HIDE DEF valid
  <2>9. /\ \A j \in 1 .. n : IsSignal(flds[j]) => s \in -128 .. -1 /\ s >= flds[j].dbm
        /\ s = 0 \/ \E j \in 1 .. n : IsSignal(flds[j]) /\ s = flds[j].dbm
    BY <2>3, <2>4 DEF AfterFields
  <2>10. CASE valid = {}
    BY <2>8, <2>9, <2>10 DEF s, valid, c, flds
  <2>11. CASE valid # {}
    <3>1. \A d \in valid : d \in -128 .. -1 /\ s \in -128 .. -1 /\ s >= d
      BY <2>8, <2>9 DEF IsSignal
    <3>2. s \in valid
      BY <2>8, <2>9, <2>11, <3>1
    <3>3. Max(valid) = s
      BY <3>1, <3>2 DEF Max
    <3> QED
      BY <2>11, <3>3 DEF s, valid, c, flds
  <2> QED
    BY <2>10, <2>11
<1>2. IInv => SignalIsStrongest
  BY <1>1 DEF SignalIsStrongest
<1> QED
  BY <1>2, Invariance, PTL

\* Both parsers find the transmitter of a frame in the same place.
LEMMA TransmitterOf ==
  ASSUME NEW f, f.len \in Int, Accepted(f),
         f.type = CTRL => f.flags = {} /\ f.stype \notin {BeamRep, VhtNdp}
  PROVE  HeaderTa(f) = Addresses(f).ta
<1> USE DEF MGMT, CTRL, DATA
<1>1. CASE f.type = MGMT
  <2>1. f.len >= 24
    BY <1>1 DEF Accepted, HdrLen, If
  <2>2. HeaderTa(f) = f.a2
    BY <1>1, <2>1 DEF HeaderTa
  <2> QED
    BY <1>1, <2>2 DEF Addresses
<1>2. CASE f.type = DATA
  <2>1. f.len >= 24
    BY <1>2 DEF Accepted, HdrLen, If
  <2>2. HeaderTa(f) = f.a2
    BY <1>2, <2>1 DEF HeaderTa
  <2>3. Addresses(f).ta = f.a2
    <3>1. CASE ToDs(f) /\ FromDs(f)
      BY <1>2, <3>1 DEF Addresses
    <3>2. CASE ToDs(f) /\ ~FromDs(f)
      BY <1>2, <3>2 DEF Addresses
    <3>3. CASE ~ToDs(f) /\ FromDs(f)
      BY <1>2, <3>3 DEF Addresses
    <3>4. CASE ~ToDs(f) /\ ~FromDs(f)
      BY <1>2, <3>4 DEF Addresses
    <3> QED
      BY <3>1, <3>2, <3>3, <3>4
  <2> QED
    BY <2>2, <2>3
<1>3. CASE f.type = CTRL
  <2> USE DEF BeamRep, VhtNdp, BlkAckReq, BlkAck, PsPoll, Rts, Cts, Ack, CfEnd, CfEndAck
  <2>1. CASE f.stype \in {Cts, Ack}
    <3>1. HeaderTa(f) = NoAddr
      BY <1>3, <2>1 DEF HeaderTa
    <3> QED
      BY <1>3, <2>1, <3>1 DEF Addresses
  <2>2. CASE f.stype \in {Rts, PsPoll, CfEnd, CfEndAck, BlkAckReq, BlkAck}
    <3>1. f.len >= 16
      BY <1>3, <2>2 DEF Accepted, HdrLen
    <3>2. HeaderTa(f) = f.a2
      BY <1>3, <2>2, <3>1 DEF HeaderTa
    <3>3. Addresses(f).ta = f.a2
      BY <1>3, <2>2 DEF Addresses
    <3> QED
      BY <3>2, <3>3
  <2>3. CASE f.stype \notin {Cts, Ack, Rts, PsPoll, CfEnd, CfEndAck, BlkAckReq, BlkAck}
    <3>1. HeaderTa(f) = NoAddr
      BY <1>3, <2>3 DEF HeaderTa
    <3>2. Addresses(f).ta = NoAddr
      BY <1>3, <2>3 DEF Addresses
    <3> QED
      BY <3>1, <3>2
  <2> QED
    BY <2>1, <2>2, <2>3
<1> QED
  BY <1>1, <1>2, <1>3 DEF Accepted

\* uwifi_get_80211_header_ta tells the transmitter uwifi_parse_80211_header does, of
\* every frame that is accepted but for those that are named (wlan_parser.c:340).
THEOREM TransmittersAgree == Spec => []HeaderTaAgrees
<1>1. ASSUME IInv, stage # "idle", FrameReached(cap.c), Accepted(FrameOf(cap.c)),
             LET f == FrameOf(cap.c)
             IN f.type = CTRL => f.flags = {} /\ f.stype \notin {BeamRep, VhtNdp}
      PROVE  HeaderTa(FrameOf(cap.c)) = pkt.ta
  <2> DEFINE c == cap.c
             f == FrameOf(c)
  <2>1. IsCapture(c) /\ pkt.ta = ParseRaw(c).ta
    BY <1>1, ReadKept DEF PacketFields
  <2>2. pkt.ta = Addresses(f).ta
    BY <1>1, <2>1, ReadTells
  <2>3. f.len \in Int
    <3>1. f.len = c.len - HeaderRet(c)
      BY <2>1, FrameTells
    <3>2. HeaderRet(c) \in Nat \cup {-1}
      BY <2>1, HeaderTells
    <3>3. c.len \in Nat
      BY <2>1 DEF IsCapture
    <3> QED
      BY <3>1, <3>2, <3>3
  <2> QED
    BY <1>1, <2>2, <2>3, TransmitterOf
<1>2. IInv => HeaderTaAgrees
  BY <1>1 DEF HeaderTaAgrees
<1> QED
  BY <1>2, Invariance, PTL

\* The elements of a beacon this library builds: the name is read up to its 33rd byte,
\* and the channel behind the rates when an FCS follows it.
LEMMA BeaconWalk ==
  ASSUME NEW p, IsPacket(p), NEW e \in Essid, NEW chan \in Octet \ {0},
         NEW bytes, bytes = NameLen[e] + 11 \/ bytes = NameLen[e] + 15
  PROVE  /\ Walk(p, BeaconIes(e, chan), bytes).essid = NameRead(e)
         /\ Walk(p, BeaconIes(e, chan), bytes).channel =
              IF bytes = NameLen[e] + 15 THEN chan ELSE p.channel
<1> DEFINE ies == BeaconIes(e, chan)
           n == NameLen[e]
           k == bytes - n - 11
           base == [p |-> p, left |-> bytes]
           name == NameRead(e)
           p1 == [p EXCEPT !.essid = name]
           p2 == [p1 EXCEPT !.channel = chan]
<1>1. n \in Nat /\ k \in {0, 4} /\ chan % 256 = chan
      /\ bytes = n + 11 + k /\ (k = 4 <=> bytes = n + 15)
  <2>1. n \in Nat
    BY NameFits
  <2>2. chan % 256 = chan
    BY OctetIs
  <2> QED
    BY <2>1, <2>2
<1>2. /\ DOMAIN ies = 1 .. 3
      /\ ies[1] = [id |-> "SSID", len |-> n, ssid |-> e, head |-> NameCut[e]]
      /\ ies[2] = [id |-> "SUPP_RATES", len |-> 8]
      /\ ies[3] = [id |-> "DSSS", len |-> 1, chan |-> chan]
  <2> DEFINE l == NameLen[e] % 256
             c == chan % 256
  <2>1. ies = <<[id |-> "SSID", len |-> l, ssid |-> e, head |-> NameCut[e]],
                [id |-> "SUPP_RATES", len |-> 8], [id |-> "DSSS", len |-> 1, chan |-> c]>>
    BY DEF BeaconIes
  <2>2. l = n /\ c = chan
    BY <1>1, NameFits
  <2> HIDE DEF l, c, n, ies
  <2>3. ies = <<[id |-> "SSID", len |-> n, ssid |-> e, head |-> NameCut[e]],
                [id |-> "SUPP_RATES", len |-> 8], [id |-> "DSSS", len |-> 1, chan |-> chan]>>
    BY <2>1, <2>2, Zenon
  <2> QED
    BY <2>3
<1>3. Take(p, ies[1]) = p1
  <2>1. KeptSsid(ies[1]) = name
    BY <1>2 DEF KeptSsid, NameRead
  <2> QED
    BY <1>2, <2>1 DEF Take
<1> HIDE DEF n, k, name
<1> HIDE DEF p1
<1>4. Take(p1, ies[2]) = p1 /\ Take(p1, ies[3]) = p2
  BY <1>2 DEF Take
<1>5. IsPacket(p1) /\ p1.essid = name /\ p1.channel = p.channel
  BY DEF p1, IsPacket, PacketFields
<1>6. p2.essid = name /\ p2.channel = chan
  BY <1>5 DEF IsPacket, PacketFields
<1> HIDE DEF p2, ies
<1> DEFINE m == 3
<1> HIDE DEF base, m
<1>7. PICK f : /\ f[0] = base
               /\ \A j \in 1 .. m : f[j] = WalkStep(f[j - 1], ies[j])
               /\ f[m] = FoldLeft(WalkStep, base, ies)
  <2>1. m \in Nat /\ DOMAIN ies = 1 .. m
    BY <1>2 DEF m
  <2> QED
    BY <2>1, WalkFold
<1>8. f[1] = WalkStep(f[0], ies[1]) /\ f[2] = WalkStep(f[1], ies[2]) /\ f[3] = WalkStep(f[2], ies[3])
  <2>1. \A j \in 1 .. 3 : f[j] = WalkStep(f[j - 1], ies[j])
    BY <1>7 DEF m
  <2>2. f[1] = WalkStep(f[1 - 1], ies[1]) /\ f[2] = WalkStep(f[2 - 1], ies[2])
        /\ f[3] = WalkStep(f[3 - 1], ies[3])
    BY <2>1
  <2> QED
    BY <2>2
<1>9. f[1] = [p |-> p1, left |-> 9 + k]
  <2>1. ~(n + 11 + k <= 2) /\ (n + 11 + k) - (ies[1].len + 2) = 9 + k
    BY <1>1, <1>2
  <2>2. f[0].p = p /\ f[0].left = n + 11 + k
    BY <1>1, <1>7 DEF base
  <2> QED
    BY <1>3, <1>8, <2>1, <2>2 DEF WalkStep
<1>10. f[2] = [p |-> p1, left |-> k - 1]
  <2>1. ~(9 + k <= 2) /\ (9 + k) - (ies[2].len + 2) = k - 1
    BY <1>1, <1>2
  <2> QED
    BY <1>4, <1>8, <1>9, <2>1 DEF WalkStep
<1>11. f[3].p = IF k = 4 THEN p2 ELSE p1
  BY <1>1, <1>4, <1>8, <1>10 DEF WalkStep
<1>12. Walk(p, ies, bytes) = f[3].p
  BY <1>7 DEF Walk, base, m
<1> QED
  BY <1>1, <1>5, <1>6, <1>11, <1>12 DEF ies, n, name

\* What a packet tells of a beacon s sends, but for its channel.
Tells(p, s, e) ==
  /\ <<p.ta, p.ra, p.bssid>> = <<s, BcastAddr, s>>
  /\ p.beacon = TRUE /\ p.mode = {"AP"} /\ p.seqno = 904 /\ p.essid = NameRead(e)

\* What is read of such a beacon, with an FCS or without.
LEMMA BeaconRead ==
  ASSUME NEW s, NEW e \in Essid, NEW i \in DOMAIN table, NEW c, IsCapture(c),
         c.frame = BeaconBy(s, e, table[i].chan), HeaderRet(c) \in Nat \ {0},
         \/ c.len = HeaderRet(c) + BeaconLen(e)
         \/ c.len = HeaderRet(c) + BeaconLen(e) + 4
  PROVE  /\ Tells(ParseRaw(c), s, e)
         /\ ParseRaw(c).channel =
              IF c.len = HeaderRet(c) + BeaconLen(e) THEN 0 ELSE table[i].chan
<1> DEFINE chan == table[i].chan
           k == IF c.len = HeaderRet(c) + BeaconLen(e) THEN 0 ELSE 4
           f == FrameOf(c)
           h == HeaderInfoOf(c)
           g == HeaderInfo(h, f)
<1>1. chan \in Octet \ {0} /\ NameLen[e] \in Nat
  BY CaptureAssumption, NameFits
<1>0. /\ k \in {0, 4} /\ c.len = HeaderRet(c) + BeaconLen(e) + k
      /\ k = 4 <=> ~(c.len = HeaderRet(c) + BeaconLen(e))
  BY <1>1 DEF BeaconLen
<1> HIDE DEF k
<1>2. /\ f.type = MGMT /\ f.stype = Beacon /\ f.flags = {} /\ f.a1 = BcastAddr /\ f.a2 = s /\ f.a3 = s
      /\ f.seqno = 904 /\ f.capab = {"ESS"} /\ f.ies = BeaconIes(e, chan)
  <2>1. LET b == BeaconBy(s, e, chan)
        IN /\ b.type = MGMT /\ b.stype = Beacon /\ b.flags = {} /\ b.a1 = BcastAddr
           /\ b.a2 = s /\ b.a3 = s /\ b.seqno = 904 /\ b.capab = {"ESS"}
           /\ b.ies = BeaconIes(e, chan)
    BY DEF BeaconBy, CreateBeacon, Frame
  <2>2. \A x \in FrameFields : x # "len" => f[x] = c.frame[x]
    BY FrameTells
  <2> HIDE DEF f
  <2> QED
    BY <2>1, <2>2 DEF FrameFields
<1>3. f.len = NameLen[e] + 51 + k
  <2>1. f.len = c.len - HeaderRet(c)
    BY FrameTells
  <2> QED
    BY <1>1, <1>0, <2>1 DEF BeaconLen
<1>4. IsPacket(h) /\ h.channel = 0
  <2>1. Changes(NoPacket, h, FieldFields)
    BY HeaderTells
  <2>2. NoPacket.channel = 0
    BY DEF NoPacket
  <2> HIDE DEF h
  <2> QED
    BY <2>1, <2>2 DEF Changes, PacketFields, FieldFields
<1>5. FrameReached(c)
  BY <1>1, <1>0 DEF FrameReached, BeaconLen
<1> HIDE DEF f, h, chan
<1>6. IsBeacon(f) /\ HdrLen(f) = 24 /\ IeLen(f) = NameLen[e] + 11 + k
  <2>1. IsBeacon(f)
    BY <1>2 DEF IsBeacon
  <2>2. HdrLen(f) = 24
    BY <1>2 DEF HdrLen, If, Flag, MGMT, CTRL, DATA
  <2> QED
    BY <1>1, <1>0, <1>3, <2>1, <2>2 DEF IeLen, If
<1>7. Accepted(f)
  BY <1>1, <1>0, <1>2, <1>3, <1>6 DEF Accepted
<1>8. ParseRaw(c) = Walk(g, f.ies, IeLen(f))
  <2>1. ParseRaw(c) = Parse(h, f)
    BY <1>5, <1>7 DEF ParseRaw, f, h
  <2> QED
    BY <1>6, <2>1 DEF Parse
<1>9. Addresses(f) = [ra |-> BcastAddr, ta |-> s, bssid |-> s]
  BY <1>2 DEF Addresses, MGMT, CTRL, DATA
<1>10. SenderMode(f) = "AP"
  BY <1>2, <1>6 DEF SenderMode, IsProbeReq, MGMT, CTRL, DATA, Beacon, ProbeReq
<1>11. /\ IsPacket(g) /\ g.channel = 0
       /\ g.ta = s /\ g.ra = BcastAddr /\ g.bssid = s /\ g.mode = {"AP"} /\ g.seqno = 904
       /\ g.beacon = TRUE
  <2>1. /\ Changes(h, g, FrameHeader)
        /\ g.ta = Addresses(f).ta /\ g.ra = Addresses(f).ra /\ g.bssid = Addresses(f).bssid
        /\ g.mode = {SenderMode(f)} /\ g.beacon = IsBeacon(f)
        /\ g.seqno = IF f.type = CTRL THEN 0 ELSE f.seqno
    BY <1>4, HeaderInfoTells
  <2> HIDE DEF g
  <2>2. IsPacket(g) /\ g.channel = h.channel
    BY <2>1 DEF Changes, PacketFields, FrameHeader
  <2>3. g.seqno = 904
    BY <1>2, <2>1 DEF MGMT, CTRL
  <2> QED
    BY <1>4, <1>6, <1>9, <1>10, <2>1, <2>2, <2>3
<1> DEFINE q == ParseRaw(c)
<1> HIDE DEF g
<1>12. q.essid = NameRead(e) /\ q.channel = IF k = 4 THEN chan ELSE 0
  <2> DEFINE bytes == NameLen[e] + 11 + k
  <2>1. /\ IsPacket(g) /\ chan \in Octet \ {0}
        /\ bytes = NameLen[e] + 11 \/ bytes = NameLen[e] + 15
        /\ bytes = NameLen[e] + 15 <=> k = 4
    BY <1>1, <1>0, <1>11
  <2> HIDE DEF bytes
  <2> DEFINE w == Walk(g, BeaconIes(e, chan), bytes)
  <2>2. w.essid = NameRead(e)
    BY <2>1, BeaconWalk
  <2>3. w.channel = IF bytes = NameLen[e] + 15 THEN chan ELSE g.channel
    BY <2>1, BeaconWalk
  <2>4. q = w
    BY <1>2, <1>6, <1>8 DEF bytes
  <2> HIDE DEF w, q
  <2> QED
    BY <1>11, <2>1, <2>2, <2>3, <2>4
<1>13. Changes(g, q, ElementFields)
  BY <1>2, <1>8, <1>11, WalkChanges, FrameTells DEF f
<1> HIDE DEF q
<1>14. q.ta = g.ta /\ q.ra = g.ra /\ q.bssid = g.bssid /\ q.mode = g.mode /\ q.seqno = g.seqno
       /\ q.beacon = g.beacon
  BY <1>13 DEF Changes, PacketFields, ElementFields
<1> QED
  BY <1>0, <1>11, <1>12, <1>14 DEF q, chan, Tells

\* The header a frame is captured with: it has no bad FCS, and shows which frames
\* were injected.
LEMMA HeardHeader ==
  ASSUME NEW c, IsCapture(c), c.arphdr = "radiotap", c.header.ok, c.len >= FixedLen,
         c.header.fields = <<>>
  PROVE  HeaderRet(c) = c.header.len /\ RadiotapInfo(c.header).injected = FALSE
<1> DEFINE p == RadiotapInfo(c.header)
<1>1. AfterFields(p, c.header.fields, Len(c.header.fields))
  BY RadiotapTells
<1>2. Len(c.header.fields) = 0 /\ 1 .. 0 = {}
  OBVIOUS
<1> HIDE DEF p
<1>3. p.injected = FALSE /\ "BADFCS" \notin p.flags
  BY <1>1, <1>2 DEF AfterFields
<1> QED
  BY <1>3 DEF p, HeaderRet, IsCapture, FixedLen

LEMMA OwnHeader ==
  ASSUME NEW c, IsCapture(c), c.arphdr = "radiotap", c.len >= 17,
         NEW freq, c.header = CreateRadiotapHeader(freq)
  PROVE  HeaderRet(c) = 17 /\ RadiotapInfo(c.header).injected = TRUE
<1> DEFINE p == RadiotapInfo(c.header)
           flds == c.header.fields
<1>1. AfterFields(p, flds, Len(flds))
  BY RadiotapTells
<1>2. /\ c.header.ok /\ c.header.len = 17 /\ Len(flds) = 5
      /\ flds[1].id = "FLAGS" /\ flds[1].bits = {} /\ flds[4].id = "TX_FLAGS"
      /\ \A k \in 1 .. 5 : k # 1 => flds[k].id # "FLAGS"
  BY SentHeader
<1> HIDE DEF p, flds
<1>3. p.injected = TRUE
  <2>1. p.injected = (\E j \in 1 .. 5 : flds[j].id = "TX_FLAGS")
    BY <1>1, <1>2 DEF AfterFields
  <2>2. \E j \in 1 .. 5 : flds[j].id = "TX_FLAGS"
    BY <1>2
  <2> QED
    BY <2>1, <2>2
<1>4. "BADFCS" \notin p.flags
  BY <1>1, <1>2 DEF AfterFields
<1> QED
  BY <1>2, <1>3, <1>4 DEF p, HeaderRet, FixedLen, IsCapture

\* What the packet keeps of the capture the application has read: all but its channel.
LEMMA LastKept ==
  ASSUME IInv, stage # "idle"
  PROVE  LET p == ParseRaw(cap.c)
         IN /\ IsCapture(cap.c) /\ cap.on \in DOMAIN table /\ IsPacket(p)
            /\ pkt.injected = p.injected
            /\ \A s, e : Tells(p, s, e) => Tells(pkt, s, e)
            /\ stage = "fixed" => pkt = WithChannel(p, chan_idx)
<1> DEFINE p == ParseRaw(cap.c)
<1>1. /\ IsCapture(cap.c) /\ cap.on \in DOMAIN table /\ IsPacket(p)
      /\ \A x \in PacketFields : x # "channel" => pkt[x] = p[x]
  BY ReadKept DEF IInv, LastRead, Truthful, Packets
<1>2. stage = "fixed" => pkt = WithChannel(p, chan_idx)
  BY DEF IInv, LastRead
<1> HIDE DEF p
<1>3. /\ pkt.ta = p.ta /\ pkt.ra = p.ra /\ pkt.bssid = p.bssid
      /\ pkt.beacon = p.beacon /\ pkt.mode = p.mode /\ pkt.essid = p.essid
      /\ pkt.seqno = p.seqno /\ pkt.injected = p.injected
  BY <1>1 DEF PacketFields
<1>4. ASSUME NEW s, NEW e, Tells(p, s, e)
      PROVE  Tells(pkt, s, e)
  BY <1>3, <1>4 DEF Tells
<1> QED
  BY <1>1, <1>2, <1>3, <1>4 DEF p

\* A beacon heard from the air, with its FCS, is told whole but for the end of a long name.
LEMMA HeardIsRead ==
  ASSUME IInv, stage # "idle", NEW s \in Station, NEW e \in Essid, NEW i \in DOMAIN table,
         cap.c = OnAir(BeaconBy(s, e, table[i].chan), BeaconLen(e))
  PROVE  /\ Tells(pkt, s, e) /\ pkt.injected = FALSE
         /\ stage = "fixed" => pkt.channel = table[i].chan
<1> DEFINE c == cap.c
           p == ParseRaw(c)
<1>1. /\ c.arphdr = "radiotap" /\ c.frame = BeaconBy(s, e, table[i].chan)
      /\ c.header.ok /\ c.header.len = FixedLen /\ c.header.fields = <<>>
      /\ c.len = FixedLen + BeaconLen(e) + 4
  BY DEF OnAir
<1>2. BeaconLen(e) \in Nat /\ FixedLen = 8
  BY NameFits DEF BeaconLen, FixedLen
<1>3. IsCapture(c) /\ IsPacket(p)
  BY LastKept
<1> HIDE DEF c
<1>4. HeaderRet(c) = 8 /\ RadiotapInfo(c.header).injected = FALSE
  <2>1. c.len >= FixedLen
    BY <1>1, <1>2
  <2> QED
    BY <1>1, <1>2, <1>3, <2>1, HeardHeader
<1>5. c.len = HeaderRet(c) + BeaconLen(e) + 4 /\ HeaderRet(c) \in Nat \ {0}
      /\ c.len # HeaderRet(c) + BeaconLen(e)
  BY <1>1, <1>2, <1>4
<1>6. /\ Tells(p, s, e)
      /\ p.channel = IF c.len = HeaderRet(c) + BeaconLen(e) THEN 0 ELSE table[i].chan
  BY <1>1, <1>3, <1>5, BeaconRead
<1>7. p.channel = table[i].chan /\ p.channel # 0
  BY <1>5, <1>6, CaptureAssumption
<1>8. p.injected = FALSE
  <2>1. HeaderInfoOf(c) = RadiotapInfo(c.header)
    BY <1>1, <1>3, <1>5, HeaderTells
  <2> QED
    BY <1>1, <1>3, <1>4, <2>1, ReadTells DEF FieldFields
<1>9. WithChannel(p, chan_idx) = p
  BY <1>7 DEF WithChannel
<1> QED
  BY <1>6, <1>7, <1>8, <1>9, LastKept DEF c

\* A beacon captured on the interface it is sent on is told like that but for the channel
\* it announces, and is known to be injected.
LEMMA OwnIsRead ==
  ASSUME IInv, stage # "idle", NEW s \in Station, NEW e \in Essid, NEW i \in DOMAIN table,
         cap.c = Loopback(BeaconBy(s, e, table[i].chan), BeaconLen(e), table[cap.on].freq)
  PROVE  /\ Tells(pkt, s, e) /\ pkt.injected = TRUE
         /\ stage = "fixed" => pkt.channel = table[cap.on].chan
<1> DEFINE c == cap.c
           p == ParseRaw(c)
           freq == table[cap.on].freq
<1>1. /\ c.arphdr = "radiotap" /\ c.frame = BeaconBy(s, e, table[i].chan)
      /\ c.header = CreateRadiotapHeader(freq)
      /\ c.len = c.header.len + BeaconLen(e)
  BY DEF Loopback
<1>2. BeaconLen(e) \in Nat /\ c.header.len = 17
  BY <1>1, NameFits, SentHeader DEF BeaconLen
<1>3. IsCapture(c) /\ IsPacket(p) /\ cap.on \in DOMAIN table
  BY LastKept
<1>4. Told(c) = {freq}
  <2> DEFINE x == [f |-> BeaconBy(s, e, table[i].chan), l |-> BeaconLen(e)]
  <2>1. x \in Frames
    BY DEF Frames
  <2> QED
    BY <1>3, <2>1, SentBuilt
<1>5. stage = "fixed" => chan_idx = cap.on
  BY <1>4 DEF IInv, LastRead
<1> HIDE DEF c, freq
<1>6. HeaderRet(c) = 17 /\ RadiotapInfo(c.header).injected = TRUE
  <2>1. c.len >= 17
    BY <1>1, <1>2
  <2> QED
    BY <1>1, <1>3, <2>1, OwnHeader
<1>7. c.len = HeaderRet(c) + BeaconLen(e) /\ HeaderRet(c) \in Nat \ {0}
  BY <1>1, <1>2, <1>6
<1>8. /\ Tells(p, s, e)
      /\ p.channel = IF c.len = HeaderRet(c) + BeaconLen(e) THEN 0 ELSE table[i].chan
  BY <1>1, <1>3, <1>7, BeaconRead
<1>9. p.injected = TRUE
  <2>1. HeaderInfoOf(c) = RadiotapInfo(c.header)
    BY <1>1, <1>3, <1>7, HeaderTells
  <2> QED
    BY <1>1, <1>3, <1>6, <2>1, ReadTells DEF FieldFields
<1> HIDE DEF p
<1>10. p.channel = 0
  BY <1>7, <1>8
<1>11. WithChannel(p, cap.on).channel = table[cap.on].chan
  <2>1. cap.on >= 0
    BY <1>3, CaptureAssumption
  <2>2. WithChannel(p, cap.on) = [p EXCEPT !.channel = table[cap.on].chan]
    BY <1>3, <1>10, <2>1 DEF WithChannel, GetChan
  <2> QED
    BY <1>3, <2>2 DEF IsPacket, PacketFields
<1> QED
  BY <1>5, <1>8, <1>9, <1>11, LastKept DEF c, p

\* Of a beacon with a name of up to 255 bytes the parser reads back what inject.c has
\* built, from the air and on the interface that sends it, but for what the name has
\* beyond 33 bytes; without an FCS, the channel it announces is replaced by that it is on
\* (uwifi_create_beacon, inject.c:11; wlan_parser.c:30-38 and 284).
THEOREM BuiltIsRead == Spec => []RoundTrip
<1>1. IInv => RoundTrip
  <2> SUFFICES ASSUME IInv, stage # "idle",
                      NEW s \in Station, NEW e \in Essid, NEW i \in DOMAIN table
               PROVE  LET frame == BeaconBy(s, e, table[i].chan)
                          heard == cap.c = OnAir(frame, BeaconLen(e))
                          own   == cap.c = Loopback(frame, BeaconLen(e), table[cap.on].freq)
                      IN heard \/ own =>
                           /\ <<pkt.ta, pkt.ra, pkt.bssid>> = <<s, BcastAddr, s>>
                           /\ pkt.beacon /\ pkt.mode = {"AP"} /\ pkt.seqno = 904
                           /\ pkt.essid = NameRead(e)
                           /\ pkt.injected = own
                           /\ stage = "fixed" =>
                                pkt.channel = IF own THEN table[cap.on].chan ELSE table[i].chan
    BY DEF RoundTrip
  <2> DEFINE frame == BeaconBy(s, e, table[i].chan)
             heard == cap.c = OnAir(frame, BeaconLen(e))
             own   == cap.c = Loopback(frame, BeaconLen(e), table[cap.on].freq)
  <2>1. heard => ~own
    <3>1. OnAir(frame, BeaconLen(e)).header.len = 8
      BY DEF OnAir, FixedLen
    <3>2. Loopback(frame, BeaconLen(e), table[cap.on].freq).header.len = 17
      BY SentHeader DEF Loopback
    <3> QED
      BY <3>1, <3>2
  <2>2. own => /\ Tells(pkt, s, e) /\ pkt.injected = TRUE
               /\ stage = "fixed" => pkt.channel = table[cap.on].chan
    BY OwnIsRead
  <2>3. heard => /\ Tells(pkt, s, e) /\ pkt.injected = FALSE
                 /\ stage = "fixed" => pkt.channel = table[i].chan
    BY HeardIsRead
  <2> HIDE DEF heard, own
  <2>4. heard \/ own =>
          /\ Tells(pkt, s, e)
          /\ pkt.injected = own
          /\ stage = "fixed" =>
               pkt.channel = IF own THEN table[cap.on].chan ELSE table[i].chan
    <3>1. CASE own
      <4>1. own = TRUE
        BY <3>1 DEF own
      <4> QED
        BY <2>2, <4>1
    <3>2. CASE ~own
      <4>1. own = FALSE
        BY <3>2 DEF own
      <4> QED
        BY <2>3, <4>1
    <3> QED
      BY <3>1, <3>2
  <2>5. Tells(pkt, s, e) =>
          /\ <<pkt.ta, pkt.ra, pkt.bssid>> = <<s, BcastAddr, s>>
          /\ pkt.beacon /\ pkt.mode = {"AP"} /\ pkt.seqno = 904 /\ pkt.essid = NameRead(e)
    BY DEF Tells
  <2> QED
    BY <2>4, <2>5 DEF heard, own
<1> QED
  BY <1>1, Invariance, PTL

-----------------------------------------------------------------------------
\* The order of the elements.

\* Which elements set a field of the packet, and to what (uwifi_parse_information_elements).
SetsField(ie, x) ==
  CASE x = "essid" -> ie.id = "SSID"
    [] x = "channel" -> ie.id = "DSSS"
    [] x = "rsn" -> ie.id = "RSN"
    [] x = "wpa" -> ie.id = "VENDOR" /\ ie.len >= 4 /\ ie.wpa
    [] x = "ht40plus" -> ie.id = "HT_OPER" /\ ie.len > 1 /\ ie.offset \in {1, 3}
    [] x = "width" -> \/ ie.id \in {"HT_CAPAB", "VHT_OPER", "VHT_OMN"}
                      \/ ie.id = "HT_OPER" /\ ie.len > 1 /\ ie.offset = 0
                      \/ ie.id = "VHT_CAPAB" /\ ~(ie.len < 12)
    [] x = "rx" -> \/ ie.id = "HT_CAPAB" /\ ~(ie.len < 26)
                   \/ ie.id = "VHT_CAPAB" /\ ~(ie.len < 12)
    [] x = "tx" -> \/ ie.id = "HT_CAPAB" /\ ~(ie.len < 26) /\ ie.mcs.defined
                   \/ ie.id = "VHT_CAPAB" /\ ~(ie.len < 12)
ValueOf(ie, x) ==
  CASE x = "essid" -> KeptSsid(ie)
    [] x = "channel" -> ie.chan
    [] x \in {"rsn", "wpa"} -> TRUE
    [] x = "ht40plus" -> ie.offset = 1
    [] x = "width" -> IF ie.id = "HT_CAPAB" THEN IF ie.w40 THEN W40 ELSE W20
                      ELSE IF ie.id = "HT_OPER" THEN W20
                      ELSE IF ie.id = "VHT_CAPAB" THEN ChanWidthFromVhtCapab(ie.width) ELSE W80
    [] x = "rx" -> IF ie.id = "HT_CAPAB" THEN HtStreamsRx(ie.mcs) ELSE VhtStreams(ie.rx)
    [] x = "tx" -> IF ie.id = "HT_CAPAB" THEN HtStreamsTx(ie.mcs, 0) ELSE VhtStreams(ie.tx)

\* An element has no other effect.
LEMMA TakeSets ==
  ASSUME NEW p, IsPacket(p), NEW ie, NEW x \in ElementFields
  PROVE  Take(p, ie)[x] = IF SetsField(ie, x) THEN ValueOf(ie, x) ELSE p[x]
<1> DEFINE q == Take(p, ie)
           Same(y) == q[y] = p[y]
<1>1. CASE ie.id = "HT_CAPAB"
  <2> DEFINE w == IF ie.w40 THEN W40 ELSE W20
             rx == HtStreamsRx(ie.mcs)
             tx == HtStreamsTx(ie.mcs, p.tx)
  <2>1. q = IF ie.len < 26 THEN [p EXCEPT !.width = w]
            ELSE [p EXCEPT !.width = w, !.rx = rx, !.tx = tx]
    BY <1>1 DEF Take, HtCapab
  <2>2. tx = IF ie.mcs.defined THEN HtStreamsTx(ie.mcs, 0) ELSE p.tx
    BY DEF HtStreamsTx
  <2> HIDE DEF w, rx, tx, q
  <2>3. /\ q.essid = p.essid /\ q.channel = p.channel /\ q.rsn = p.rsn /\ q.wpa = p.wpa
        /\ q.ht40plus = p.ht40plus /\ q.width = w
        /\ q.rx = IF ie.len < 26 THEN p.rx ELSE rx
        /\ q.tx = IF ie.len < 26 THEN p.tx ELSE tx
    BY <2>1 DEF IsPacket, PacketFields
  <2>4. q[x] = IF SetsField(ie, x) THEN ValueOf(ie, x) ELSE p[x]
    BY <1>1, <2>2, <2>3 DEF SetsField, ValueOf, ElementFields, w, rx
  <2> QED
    BY <2>4 DEF q
<1>2. CASE ie.id = "VHT_CAPAB"
  <2> DEFINE w == ChanWidthFromVhtCapab(ie.width)
             rx == VhtStreams(ie.rx)
             tx == VhtStreams(ie.tx)
  <2>1. q = IF ie.len < 12 THEN p ELSE [p EXCEPT !.width = w, !.rx = rx, !.tx = tx]
    BY <1>2 DEF Take, VhtCapab
  <2> HIDE DEF w, rx, tx, q
  <2>2. /\ q.essid = p.essid /\ q.channel = p.channel /\ q.rsn = p.rsn /\ q.wpa = p.wpa
        /\ q.ht40plus = p.ht40plus
        /\ q.width = IF ie.len < 12 THEN p.width ELSE w
        /\ q.rx = IF ie.len < 12 THEN p.rx ELSE rx
        /\ q.tx = IF ie.len < 12 THEN p.tx ELSE tx
    BY <2>1 DEF IsPacket, PacketFields
  <2>3. q[x] = IF SetsField(ie, x) THEN ValueOf(ie, x) ELSE p[x]
    BY <1>2, <2>2 DEF SetsField, ValueOf, ElementFields, w, rx, tx
  <2> QED
    BY <2>3 DEF q
<1>3. CASE ie.id = "HT_OPER"
  <2>1. q = IF ~(ie.len > 1) THEN p
            ELSE IF ie.offset = 0 THEN [p EXCEPT !.width = W20]
            ELSE IF ie.offset = 1 THEN [p EXCEPT !.ht40plus = TRUE]
            ELSE IF ie.offset = 3 THEN [p EXCEPT !.ht40plus = FALSE] ELSE p
    BY <1>3 DEF Take, HtOper
  <2> HIDE DEF q
  <2> DEFINE Rest == /\ q.essid = p.essid /\ q.channel = p.channel /\ q.rsn = p.rsn
                     /\ q.wpa = p.wpa /\ q.rx = p.rx /\ q.tx = p.tx
             long == ie.len > 1
  <2>4. ASSUME NEW b, q = [p EXCEPT !.ht40plus = b]
        PROVE  Rest /\ q.width = p.width /\ q.ht40plus = b
    BY <2>4 DEF IsPacket, PacketFields
  <2> HIDE DEF Rest
  <2>2. /\ Rest
        /\ q.width = IF long /\ ie.offset = 0 THEN W20 ELSE p.width
        /\ long /\ ie.offset \in {1, 3} => q.ht40plus = (ie.offset = 1)
        /\ ~(long /\ ie.offset \in {1, 3}) => q.ht40plus = p.ht40plus
    <3>1. CASE ~long \/ (long /\ ie.offset \notin {0, 1, 3})
      <4>1. q = p
        BY <2>1, <3>1
      <4> QED
        BY <3>1, <4>1 DEF Rest
    <3>2. CASE long /\ ie.offset = 0
      <4>1. q = [p EXCEPT !.width = W20]
        BY <2>1, <3>2
      <4>2. Rest /\ q.width = W20 /\ q.ht40plus = p.ht40plus
        BY <4>1 DEF IsPacket, PacketFields, Rest
      <4> QED
        BY <3>2, <4>2
    <3>3. CASE long /\ ie.offset = 1
      <4>1. q = [p EXCEPT !.ht40plus = TRUE]
        BY <2>1, <3>3
      <4>2. Rest /\ q.width = p.width /\ q.ht40plus = TRUE
        BY <2>4, <4>1
      <4>3. (ie.offset = 1) = TRUE /\ ie.offset # 0 /\ ie.offset \in {1, 3}
        BY <3>3
      <4> QED
        BY <3>3, <4>2, <4>3, Zenon
    <3>4. CASE long /\ ie.offset = 3
      <4>1. q = [p EXCEPT !.ht40plus = FALSE]
        BY <2>1, <3>4
      <4>2. Rest /\ q.width = p.width /\ q.ht40plus = FALSE
        BY <2>4, <4>1
      <4>3. (ie.offset = 1) = FALSE /\ ie.offset # 0 /\ ie.offset \in {1, 3}
        BY <3>4
      <4> QED
        BY <3>4, <4>2, <4>3, Zenon
    <3> QED
      BY <3>1, <3>2, <3>3, <3>4
  <2>3. q[x] = IF SetsField(ie, x) THEN ValueOf(ie, x) ELSE p[x]
    BY <1>3, <2>2 DEF SetsField, ValueOf, ElementFields, Rest
  <2> QED
    BY <2>3 DEF q
<1>4. CASE ie.id \in {"VHT_OPER", "VHT_OMN"}
  BY <1>4 DEF Take, SetsField, ValueOf, ElementFields, IsPacket, PacketFields
<1>5. CASE ie.id = "SSID"
  BY <1>5 DEF Take, SetsField, ValueOf, ElementFields, IsPacket, PacketFields
<1>6. CASE ie.id = "DSSS"
  BY <1>6 DEF Take, SetsField, ValueOf, ElementFields, IsPacket, PacketFields
<1>7. CASE ie.id = "RSN"
  BY <1>7 DEF Take, SetsField, ValueOf, ElementFields, IsPacket, PacketFields
<1>8. CASE ie.id = "VENDOR"
  BY <1>8 DEF Take, SetsField, ValueOf, ElementFields, IsPacket, PacketFields
<1>9. CASE ie.id \notin {"HT_CAPAB", "HT_OPER", "VHT_CAPAB", "VHT_OPER", "VHT_OMN", "SSID",
                          "DSSS", "RSN", "VENDOR"}
  BY <1>9 DEF Take, SetsField, ElementFields
<1> QED
  BY <1>1, <1>2, <1>3, <1>4, <1>5, <1>6, <1>7, <1>8, <1>9

\* The n elements fit the bytes there are, and the last is not empty.
Fits(ies, n, bytes) ==
  /\ n \in Nat /\ DOMAIN ies = 1 .. n
  /\ \A k \in 1 .. n : ies[k].len \in Nat
  /\ n > 0 => ies[n].len > 0
  /\ bytes \in Int /\ Bytes(ies) <= bytes

\* g is the packet after each of them, when all are looked at.
Walked(g, p, ies, n, bytes) ==
  /\ g[0] = p /\ g[n] = Walk(p, ies, bytes)
  /\ \A k \in 1 .. n : g[k] = Take(g[k - 1], ies[k])

\* And they are: more than an empty element is left before each of them
\* (wlan_parser.c:25).
LEMMA WalkWhole ==
  ASSUME NEW p, NEW ies, NEW n, NEW bytes, Fits(ies, n, bytes)
  PROVE  \E g : Walked(g, p, ies, n, bytes)
<1> USE DEF Fits
<1> DEFINE base == [p |-> p, left |-> bytes]
<1>1. PICK f : /\ f[0] = base
               /\ \A k \in 1 .. n : f[k] = WalkStep(f[k - 1], ies[k])
               /\ f[n] = FoldLeft(WalkStep, base, ies)
  BY WalkFold
<1>2. PICK b : /\ b[0] = 0
               /\ \A k \in 1 .. n : b[k] = b[k - 1] + ies[k].len + 2
               /\ b[n] = Bytes(ies)
  BY BytesFold
<1>3. \A k \in 0 .. n : b[k] \in Nat /\ \A j \in 0 .. k : b[j] \in Nat /\ b[j] + 2 * (k - j) <= b[k]
  <2> DEFINE Grows(k) == b[k] \in Nat /\ \A j \in 0 .. k : b[j] \in Nat /\ b[j] + 2 * (k - j) <= b[k]
             S == {k \in 0 .. n : Grows(k)}
  <2>1. 0 \in S
    BY <1>2
  <2>2. ASSUME NEW k \in 0 .. n - 1, k \in S PROVE k + 1 \in S
    <3>1. b[k + 1] = b[k] + ies[k + 1].len + 2 /\ ies[k + 1].len \in Nat
      BY <1>2
    <3>2. Grows(k)
      BY <2>2
    <3>3. b[k + 1] \in Nat
      BY <3>1, <3>2
    <3>4. ASSUME NEW j \in 0 .. k + 1 PROVE b[j] \in Nat /\ b[j] + 2 * (k + 1 - j) <= b[k + 1]
      <4>1. CASE j = k + 1
        BY <3>3, <4>1
      <4>2. CASE j \in 0 .. k
        <5>1. b[j] \in Nat /\ b[k] \in Nat /\ b[j] + 2 * (k - j) <= b[k]
          BY <3>2, <4>2
        <5> DEFINE x == b[j]
                   y == b[k]
                   z == b[k + 1]
                   l == ies[k + 1].len
        <5>2. /\ x \in Nat /\ y \in Nat /\ x + 2 * (k - j) <= y
              /\ z = y + l + 2 /\ l \in Nat /\ j \in Int /\ k \in Int
          BY <3>1, <5>1
        <5> HIDE DEF x, y, z, l
        <5>3. x \in Nat /\ x + 2 * (k + 1 - j) <= z
          BY <5>2
        <5> QED
          BY <5>3 DEF x, z
      <4> QED
        BY <4>1, <4>2
    <3> QED
      BY <3>3, <3>4
  <2> HIDE DEF S
  <2>3. 0 .. n \subseteq S
    BY <2>1, <2>2, UpTo
  <2> QED
    BY <2>3 DEF S
<1>4. ASSUME NEW k \in 0 .. n - 1 PROVE bytes - b[k] > 2 /\ b[k] \in Nat
  <2>1. b[k] \in Nat /\ b[n] \in Nat /\ b[n] <= bytes
    <3>1. k \in 0 .. n /\ n \in 0 .. n /\ Bytes(ies) <= bytes
      OBVIOUS
    <3>2. b[k] \in Nat /\ b[n] \in Nat
      BY <1>3, <3>1, Zenon
    <3> QED
      BY <1>2, <3>1, <3>2, Zenon
  <2>2. CASE k + 1 = n
    <3>1. b[n] = b[n - 1] + ies[n].len + 2 /\ ies[n].len \in Nat /\ ies[n].len > 0
      BY <1>2, <2>2
    <3> QED
      BY <2>1, <2>2, <3>1
  <2>3. CASE k + 1 < n
    <3>1. b[k] + 2 * (n - k) <= b[n]
      BY <1>3
    <3> QED
      BY <2>1, <2>3, <3>1
  <2> QED
    BY <2>2, <2>3
<1> DEFINE L == {k \in 0 .. n : f[k].left = bytes - b[k]}
<1>5. 0 \in L
  BY <1>1, <1>2
<1>6. ASSUME NEW k \in 0 .. n - 1, f[k].left = bytes - b[k]
      PROVE  f[k + 1] = [p |-> Take(f[k].p, ies[k + 1]), left |-> bytes - b[k + 1]]
  <2>1. f[k + 1] = WalkStep(f[k], ies[k + 1]) /\ b[k + 1] = b[k] + ies[k + 1].len + 2
        /\ ies[k + 1].len \in Nat
    <3>1. k + 1 \in 1 .. n /\ (k + 1) - 1 = k
      OBVIOUS
    <3>2. f[k + 1] = WalkStep(f[(k + 1) - 1], ies[k + 1])
      BY <1>1, <3>1
    <3>3. b[k + 1] = b[(k + 1) - 1] + ies[k + 1].len + 2
      BY <1>2, <3>1
    <3> QED
      BY <3>1, <3>2, <3>3
  <2>2. bytes - b[k] > 2 /\ b[k] \in Nat
    BY <1>4
  <2>3. ~(bytes - b[k] <= 2) /\ (bytes - b[k]) - (ies[k + 1].len + 2) = bytes - b[k + 1]
    <3>1. ASSUME NEW x \in Nat, NEW l \in Nat, bytes - x > 2
          PROVE  ~(bytes - x <= 2) /\ (bytes - x) - (l + 2) = bytes - (x + l + 2)
      BY <3>1
    <3> QED
      BY <2>1, <2>2, <3>1
  <2> QED
    BY <1>6, <2>1, <2>3 DEF WalkStep
<1>7. 0 .. n \subseteq L
  <2>1. ASSUME NEW k \in 0 .. n - 1, k \in L PROVE k + 1 \in L
    <3>1. f[k + 1] = [p |-> Take(f[k].p, ies[k + 1]), left |-> bytes - b[k + 1]]
      BY <1>6, <2>1
    <3> QED
      BY <3>1
  <2> HIDE DEF L
  <2> QED
    BY <1>5, <2>1, UpTo
<1> DEFINE g == [k \in 0 .. n |-> f[k].p]
<1>8. ASSUME NEW k \in 1 .. n PROVE g[k] = Take(g[k - 1], ies[k])
  <2>1. k - 1 \in 0 .. n - 1 /\ (k - 1) + 1 = k
    OBVIOUS
  <2>2. f[k - 1].left = bytes - b[k - 1]
    BY <1>7, <2>1
  <2>3. f[(k - 1) + 1] = [p |-> Take(f[k - 1].p, ies[(k - 1) + 1]), left |-> bytes - b[(k - 1) + 1]]
    BY <1>6, <2>1, <2>2
  <2>4. f[k].p = Take(f[k - 1].p, ies[k])
    BY <2>1, <2>3
  <2> QED
    BY <2>4
<1>9. g[0] = p /\ g[n] = Walk(p, ies, bytes)
  BY <1>1 DEF Walk
<1> HIDE DEF g
<1> QED
  BY <1>8, <1>9 DEF Walked

LEMMA TakeIsPacket == ASSUME NEW p, IsPacket(p), NEW ie PROVE IsPacket(Take(p, ie))
BY TakeChanges DEF Changes

\* Of the first n elements the last that sets the field x tells its value v; that of p
\* stays when none does.
LastTells(ies, n, x, p, v) ==
  \/ v = p[x] /\ \A j \in 1 .. n : ~SetsField(ies[j], x)
  \/ \E j \in 1 .. n : /\ SetsField(ies[j], x) /\ v = ValueOf(ies[j], x)
                       /\ \A k \in 1 .. n : j < k => ~SetsField(ies[k], x)

\* One element more.
LEMMA LastOn ==
  ASSUME NEW ies, NEW n \in Nat, NEW x \in ElementFields, NEW p, NEW q, IsPacket(q),
         LastTells(ies, n, x, p, q[x])
  PROVE  LastTells(ies, n + 1, x, p, Take(q, ies[n + 1])[x])
<1> DEFINE ie == ies[n + 1]
           v == Take(q, ie)[x]
           S(j) == SetsField(ies[j], x)
<1>1. v = IF S(n + 1) THEN ValueOf(ie, x) ELSE q[x]
  BY TakeSets
<1>2. \/ q[x] = p[x] /\ \A j \in 1 .. n : ~S(j)
      \/ \E j \in 1 .. n : S(j) /\ q[x] = ValueOf(ies[j], x) /\ \A k \in 1 .. n : j < k => ~S(k)
  BY DEF LastTells
<1>3. \A j : j \in 1 .. n + 1 <=> j \in 1 .. n \/ j = n + 1
  OBVIOUS
<1> HIDE DEF v, S
<1>4. CASE S(n + 1)
  <2>1. \A k \in 1 .. n + 1 : ~(n + 1 < k)
    OBVIOUS
  <2>2. \E j \in 1 .. n + 1 : S(j) /\ v = ValueOf(ies[j], x) /\ \A k \in 1 .. n + 1 : j < k => ~S(k)
    BY <1>1, <1>3, <1>4, <2>1
  <2> QED
    BY <2>2 DEF LastTells, S, v
<1>5. CASE ~S(n + 1)
  <2>1. CASE q[x] = p[x] /\ \A j \in 1 .. n : ~S(j)
    <3>1. v = p[x] /\ \A j \in 1 .. n + 1 : ~S(j)
      BY <1>1, <1>3, <1>5, <2>1
    <3> QED
      BY <3>1 DEF LastTells, S, v
  <2>2. CASE \E j \in 1 .. n : S(j) /\ q[x] = ValueOf(ies[j], x) /\ \A k \in 1 .. n : j < k => ~S(k)
    <3>1. \E j \in 1 .. n + 1 : S(j) /\ v = ValueOf(ies[j], x) /\ \A k \in 1 .. n + 1 : j < k => ~S(k)
      BY <1>1, <1>3, <1>5, <2>2
    <3> QED
      BY <3>1 DEF LastTells, S, v
  <2> QED
    BY <1>2, <2>1, <2>2
<1> QED
  BY <1>4, <1>5

\* What all elements of a frame make of it.
LEMMA WalkTells ==
  ASSUME NEW p, IsPacket(p), NEW ies, NEW n, NEW bytes, Fits(ies, n, bytes),
         NEW x \in ElementFields
  PROVE  LastTells(ies, n, x, p, Walk(p, ies, bytes)[x])
<1>1. PICK g : Walked(g, p, ies, n, bytes)
  BY WalkWhole, Zenon
<1>2. n \in Nat
  BY DEF Fits
<1> DEFINE S == {k \in 0 .. n : IsPacket(g[k]) /\ LastTells(ies, k, x, p, g[k][x])}
<1>3. 0 \in S
  <2>1. g[0] = p
    BY <1>1 DEF Walked
  <2>2. LastTells(ies, 0, x, p, p[x])
    BY DEF LastTells
  <2> QED
    BY <1>2, <2>1, <2>2
<1>4. ASSUME NEW k \in 0 .. n - 1, k \in S PROVE k + 1 \in S
  <2>1. IsPacket(g[k]) /\ LastTells(ies, k, x, p, g[k][x]) /\ k \in Nat
    BY <1>2, <1>4
  <2>2. g[k + 1] = Take(g[k], ies[k + 1])
    <3>1. k + 1 \in 1 .. n /\ (k + 1) - 1 = k
      BY <1>2
    <3>2. g[k + 1] = Take(g[(k + 1) - 1], ies[k + 1])
      BY <1>1, <3>1 DEF Walked
    <3> QED
      BY <3>1, <3>2
  <2>3. IsPacket(g[k + 1])
    BY <2>1, <2>2, TakeIsPacket, Zenon
  <2>4. LastTells(ies, k + 1, x, p, g[k + 1][x])
    BY <2>1, <2>2, LastOn
  <2>5. k + 1 \in 0 .. n
    BY <1>2
  <2> QED
    BY <2>3, <2>4, <2>5
<1>5. 0 .. n \subseteq S
  <2> HIDE DEF S
  <2> QED
    BY <1>2, <1>3, <1>4, UpTo
<1>6. LastTells(ies, n, x, p, g[n][x])
  BY <1>2, <1>5
<1> QED
  BY <1>1, <1>6 DEF Walked

\* A beacon as it is parsed.
LEMMA BeaconParsed ==
  ASSUME NEW f, DOMAIN f = FrameFields, IsBeacon(f), f.len \in Int,
         NEW n \in Nat, Len(f.ies) = n, DOMAIN f.ies = 1 .. n,
         \A k \in 1 .. n : f.ies[k].len \in Nat, Whole(f, f.ies),
         NEW x \in ElementFields
  PROVE  LastTells(f.ies, n, x, NoPacket, Parse(NoPacket, f)[x])
<1> DEFINE h == HeaderInfo(NoPacket, f)
           ies == f.ies
           bytes == IeLen(f)
<1>1. Parse(NoPacket, f) = Walk(h, ies, bytes)
  BY DEF Parse
<1>2. Changes(NoPacket, h, FrameHeader)
  BY NoPacketIs, HeaderInfoTells
<1>3. IsPacket(h) /\ h[x] = NoPacket[x]
  BY <1>2 DEF Changes, FrameHeader, PacketFields, ElementFields
<1>4. bytes \in Int
  <2>1. HdrLen(f) \in Int
    BY DEF IsBeacon, HdrLen, If, MGMT, DATA, CTRL
  <2> QED
    BY <2>1 DEF IeLen, If
<1>5. Bytes(ies) <= bytes /\ (n > 0 => ies[n].len > 0)
  <2>1. n > 0 => ies # <<>>
    BY 1 \in 1 .. n <=> n > 0
  <2> QED
    BY <2>1 DEF Whole, Last
<1>6. Fits(ies, n, bytes)
  BY <1>4, <1>5 DEF Fits
<1> HIDE DEF h, ies, bytes
<1>7. LastTells(ies, n, x, h, Walk(h, ies, bytes)[x])
  BY <1>3, <1>6, WalkTells, Zenon
<1>8. LastTells(ies, n, x, NoPacket, Walk(h, ies, bytes)[x])
  BY <1>3, <1>7 DEF LastTells
<1> QED
  BY <1>1, <1>8 DEF ies

\* The elements in another order are the same elements.
InOrder(s, n, pi, t) ==
  /\ n \in Nat /\ DOMAIN s = 1 .. n
  /\ pi \in Bijection(1 .. n, 1 .. n) /\ t = [k \in 1 .. n |-> s[pi[k]]]
SameElements(s, n, t) ==
  /\ DOMAIN t = 1 .. n /\ Len(t) = n
  /\ {t[k] : k \in 1 .. n} = {s[k] : k \in 1 .. n}

LEMMA Permuted ==
  ASSUME NEW s, NEW n, NEW pi, NEW t, InOrder(s, n, pi, t)
  PROVE  SameElements(s, n, t)
<1> USE DEF InOrder
<1> DEFINE es == {s[k] : k \in 1 .. n}
<1>1. \A k \in 1 .. n : pi[k] \in 1 .. n
  BY DEF Bijection, Injection
<1>2. \A k \in 1 .. n : \E j \in 1 .. n : pi[j] = k
  BY DEF Bijection, Surjection
<1>3. DOMAIN t = 1 .. n /\ \A k \in 1 .. n : t[k] = s[pi[k]]
  OBVIOUS
<1>4. \A k \in 1 .. n : t[k] \in es
  BY <1>1, <1>3
<1>5. ASSUME NEW e \in es PROVE \E k \in 1 .. n : t[k] = e
  <2>1. PICK k \in 1 .. n : e = s[k]
    OBVIOUS
  <2>2. PICK j \in 1 .. n : pi[j] = k
    BY <1>2
  <2> QED
    BY <1>3, <2>1, <2>2
<1>6. Len(t) = n
  <2>1. t \in [1 .. n -> es]
    <3> HIDE DEF es
    <3>1. t = [k \in 1 .. n |-> t[k]]
      BY <1>3
    <3> QED
      BY <1>4, <3>1
  <2>2. t \in Seq(es)
    <3> HIDE DEF es
    <3> QED
      BY <2>1
  <2>3. Len(t) \in Nat /\ DOMAIN t = 1 .. Len(t)
    BY <2>2, LenProperties
  <2>4. \A m \in Nat : 1 .. m = 1 .. n => m = n
    <3> SUFFICES ASSUME NEW m \in Nat, 1 .. m = 1 .. n PROVE m = n
      OBVIOUS
    <3>1. (m \in 1 .. m => m \in 1 .. n) /\ (n \in 1 .. n => n \in 1 .. m)
      OBVIOUS
    <3> QED
      BY <3>1
  <2> QED
    BY <1>3, <2>3, <2>4, Zenon
<1>7. {t[k] : k \in 1 .. n} = es
  <2> HIDE DEF es
  <2> QED
    BY <1>4, <1>5
<1> QED
  BY <1>3, <1>6, <1>7 DEF SameElements

\* A field that all elements which set it set alike has the same value in any order ...
LEMMA AlikeTells ==
  ASSUME NEW s, NEW n, NEW t, SameElements(s, n, t), NEW x, NEW p, NEW v, NEW w,
         LastTells(s, n, x, p, v), LastTells(t, n, x, p, w),
         \A j, k \in 1 .. n : SetsField(s[j], x) /\ SetsField(s[k], x)
                                => ValueOf(s[j], x) = ValueOf(s[k], x)
  PROVE  v = w
<1>1. \A k \in 1 .. n : \E j \in 1 .. n : t[k] = s[j]
  <2>1. \A k \in 1 .. n : t[k] \in {s[j] : j \in 1 .. n}
    BY DEF SameElements
  <2> QED
    BY <2>1
<1>2. \A k \in 1 .. n : \E j \in 1 .. n : s[k] = t[j]
  <2>1. \A k \in 1 .. n : s[k] \in {t[j] : j \in 1 .. n}
    BY DEF SameElements
  <2> QED
    BY <2>1
<1>3. CASE \A j \in 1 .. n : ~SetsField(s[j], x)
  <2>1. \A j \in 1 .. n : ~SetsField(t[j], x)
    BY <1>1, <1>3
  <2> QED
    BY <1>3, <2>1 DEF LastTells
<1>4. CASE \E j \in 1 .. n : SetsField(s[j], x)
  <2>1. \E j \in 1 .. n : SetsField(t[j], x)
    BY <1>2, <1>4
  <2>2. PICK j \in 1 .. n : SetsField(s[j], x) /\ v = ValueOf(s[j], x)
    BY <1>4 DEF LastTells
  <2>3. PICK k \in 1 .. n : SetsField(t[k], x) /\ w = ValueOf(t[k], x)
    BY <2>1 DEF LastTells
  <2>4. PICK i \in 1 .. n : t[k] = s[i]
    BY <1>1
  <2> QED
    BY <2>2, <2>3, <2>4
<1> QED
  BY <1>3, <1>4

\* ... and so has one whose elements keep their order.
LEMMA OrderTells ==
  ASSUME NEW s, NEW n, NEW pi, NEW t, InOrder(s, n, pi, t), NEW x, NEW p, NEW v, NEW w,
         LastTells(s, n, x, p, v), LastTells(t, n, x, p, w),
         \A j, k \in 1 .. n : j < k /\ SetsField(t[j], x) /\ SetsField(t[k], x) => pi[j] < pi[k]
  PROVE  v = w
<1>1. /\ \A k \in 1 .. n : pi[k] \in 1 .. n /\ t[k] = s[pi[k]]
      /\ \A k \in 1 .. n : \E j \in 1 .. n : pi[j] = k
      /\ n \in Nat
  BY DEF InOrder, Bijection, Injection, Surjection
<1>2. CASE \A j \in 1 .. n : ~SetsField(s[j], x)
  <2>1. \A j \in 1 .. n : ~SetsField(t[j], x)
    BY <1>1, <1>2
  <2> QED
    BY <1>2, <2>1 DEF LastTells
<1>3. CASE \E j \in 1 .. n : SetsField(s[j], x)
  <2>1. PICK j \in 1 .. n : /\ SetsField(s[j], x) /\ v = ValueOf(s[j], x)
                            /\ \A k \in 1 .. n : j < k => ~SetsField(s[k], x)
    BY <1>3 DEF LastTells
  <2>2. PICK i \in 1 .. n : pi[i] = j
    BY <1>1
  <2>3. SetsField(t[i], x)
    BY <1>1, <2>1, <2>2
  <2>4. PICK k \in 1 .. n : /\ SetsField(t[k], x) /\ w = ValueOf(t[k], x)
                            /\ \A m \in 1 .. n : k < m => ~SetsField(t[m], x)
    BY <2>3 DEF LastTells
  <2>5. ~(k < i) /\ ~(j < pi[k]) /\ pi[k] \in 1 .. n
    BY <1>1, <2>1, <2>3, <2>4
  <2>6. i < k => j < pi[k]
    BY <2>2, <2>3, <2>4
  <2>7. i = k
    BY <1>1, <2>5, <2>6
  <2> QED
    BY <1>1, <2>1, <2>2, <2>4, <2>7
<1> QED
  BY <1>2, <1>3

\* The width in the order of the ids: that of the element with the highest id that tells
\* one.
LEMMA IdsTell ==
  ASSUME NEW ies, NEW n \in Nat, DOMAIN ies = 1 .. n, \A k \in 1 .. n : ies[k].len \in Nat,
         InIdOrder(ies), NEW w, LastTells(ies, n, "width", NoPacket, w)
  PROVE  WidthIs(w, ies)
<1> DEFINE Es == ToSet(ies)
           vht == {e \in Es : e.id = "VHT_CAPAB" /\ e.len >= 12}
           ht == {e \in Es : e.id = "HT_CAPAB"}
           Oper(e) == e.id \in {"VHT_OPER", "VHT_OMN"}
           Half(e) == e.id = "HT_OPER" /\ e.len > 1 /\ e.offset = 0
           Sets(e) == SetsField(e, "width")
<1>1. \A e : e \in Es <=> \E k \in 1 .. n : e = ies[k]
  BY DEF ToSet
<1>2. \A e : Sets(e) <=> \/ Oper(e) \/ e.id = "HT_CAPAB" \/ Half(e)
                         \/ e.id = "VHT_CAPAB" /\ ~(e.len < 12)
  BY DEF SetsField
<1>3. \A e : Sets(e) => ValueOf(e, "width") =
                IF e.id = "HT_CAPAB" THEN IF e.w40 THEN W40 ELSE W20
                ELSE IF e.id = "HT_OPER" THEN W20
                ELSE IF e.id = "VHT_CAPAB" THEN ChanWidthFromVhtCapab(e.width) ELSE W80
  BY DEF ValueOf
<1> DEFINE Best(e) == e \in Es /\ Sets(e) /\ w = ValueOf(e, "width")
                      /\ \A g \in Es : Sets(g) => IeId[g.id] <= IeId[e.id]
<1>4. CASE \A k \in 1 .. n : ~Sets(ies[k])
  <2>1. w = WUNSPEC
    <3>1. NoPacket["width"] = WUNSPEC
      BY DEF NoPacket
    <3>2. w = NoPacket["width"]
      BY <1>4 DEF LastTells
    <3> QED
      BY <3>1, <3>2
  <2>2. \A e \in Es : ~Sets(e)
    BY <1>1, <1>4
  <2> HIDE DEF Es, Sets
  <2>3. \A e \in Es : ~Oper(e) /\ ~Half(e) /\ e.id # "HT_CAPAB"
    BY <1>2, <2>2
  <2>4. ht = {}
    BY <2>3
  <2>5. vht = {}
    <3>1. \A e \in Es : e.len \in Nat
      BY <1>1 DEF Es
    <3> QED
      BY <1>2, <2>2, <3>1
  <2> QED
    BY <2>1, <2>3, <2>4, <2>5 DEF WidthIs, Es
<1>5. CASE \E k \in 1 .. n : Sets(ies[k])
  <2>1. PICK j \in 1 .. n : /\ Sets(ies[j]) /\ w = ValueOf(ies[j], "width")
                            /\ \A k \in 1 .. n : j < k => ~Sets(ies[k])
    BY <1>5 DEF LastTells
  <2> DEFINE e == ies[j]
  <2>2. \A g : Sets(g) => g.id \in DOMAIN IeId
    BY <1>2 DEF IeId
  <2>3. ASSUME NEW g \in Es, Sets(g) PROVE IeId[g.id] <= IeId[e.id]
    <3>1. PICK k \in 1 .. n : g = ies[k]
      BY <1>1
    <3>2. k < j \/ k = j
      BY <2>1, <2>3, <3>1
    <3>3. CASE k < j
      BY <2>1, <2>2, <2>3, <3>1, <3>3 DEF InIdOrder
    <3>4. CASE k = j
      <4>1. e.id \in DOMAIN IeId
        BY <2>1, <2>2
      <4>2. \A i \in DOMAIN IeId : IeId[i] \in Int
        BY DEF IeId
      <4> QED
        BY <3>1, <3>4, <4>1, <4>2
    <3> QED
      BY <3>2, <3>3, <3>4
  <2>4. e \in Es /\ Sets(e) /\ w = ValueOf(e, "width")
    BY <1>1, <2>1
  <2> HIDE DEF e
  <2>9. \A g \in Es : g.len \in Nat
    BY <1>1
  <2> HIDE DEF Es, Sets
  <2>5. CASE Oper(e)
    BY <1>3, <2>4, <2>5 DEF WidthIs, Es
  <2>10. IeId.HT_CAPAB = 45 /\ IeId.HT_OPER = 61 /\ IeId.VHT_CAPAB = 191
         /\ IeId.VHT_OPER = 192 /\ IeId.VHT_OMN = 199
    BY DEF IeId
  <2>6. CASE e.id = "VHT_CAPAB" /\ ~(e.len < 12)
    <3>1. ~\E g \in Es : Oper(g)
      BY <1>2, <2>3, <2>6, <2>10
    <3>2. e \in vht /\ w = ChanWidthFromVhtCapab(e.width)
      BY <1>3, <2>4, <2>6, <2>9
    <3> QED
      BY <3>1, <3>2 DEF WidthIs, Es
  <2>7. CASE Half(e)
    <3>1. ~\E g \in Es : Oper(g)
      BY <1>2, <2>3, <2>7, <2>10
    <3>2. vht = {}
      BY <1>2, <2>3, <2>7, <2>9, <2>10
    <3>3. w = W20 /\ \E g \in Es : Half(g)
      BY <1>3, <2>4, <2>7
    <3> QED
      BY <3>1, <3>2, <3>3 DEF WidthIs, Es
  <2>8. CASE e.id = "HT_CAPAB"
    <3>1. ~\E g \in Es : Oper(g)
      BY <1>2, <2>3, <2>8, <2>10
    <3>2. vht = {}
      BY <1>2, <2>3, <2>8, <2>9, <2>10
    <3>3. ~\E g \in Es : Half(g)
      BY <1>2, <2>3, <2>8, <2>10
    <3>4. e \in ht /\ w = IF e.w40 THEN W40 ELSE W20
      BY <1>3, <2>4, <2>8
    <3> QED
      BY <3>1, <3>2, <3>3, <3>4 DEF WidthIs, Es
  <2> QED
    BY <1>2, <2>4, <2>5, <2>6, <2>7, <2>8
<1> QED
  BY <1>4, <1>5

\* A beacon whose elements are put in another order.
LEMMA Reordered ==
  ASSUME NEW f, DOMAIN f = FrameFields, IsBeacon(f), f.len \in Int, IsSeq(f.ies),
         \A k \in DOMAIN f.ies : f.ies[k].len \in Nat,
         Whole(f, f.ies), OneVersion(f.ies),
         NEW pi \in Bijection(DOMAIN f.ies, DOMAIN f.ies), NEW ies,
         ies = [k \in DOMAIN f.ies |-> f.ies[pi[k]]], Whole(f, ies)
  PROVE  LET p == Parse(NoPacket, [f EXCEPT !.ies = ies])
             q == Parse(NoPacket, f)
         IN /\ Essentials(p) = Essentials(q)
            /\ InShapeOrder(ies, pi) => Shape(p) = Shape(q)
            /\ InIdOrder(ies) => WidthIs(p.width, ies)
<1> DEFINE n == Len(f.ies)
           s == f.ies
           g == [f EXCEPT !.ies = ies]
           p == Parse(NoPacket, g)
           q == Parse(NoPacket, f)
<1>1. n \in Nat /\ DOMAIN s = 1 .. n
  BY DEF IsSeq
<1>2. InOrder(s, n, pi, ies)
  BY <1>1 DEF InOrder
<1>3. SameElements(s, n, ies)
  BY <1>2, Permuted, Zenon
<1>4. DOMAIN ies = 1 .. n /\ Len(ies) = n /\ {ies[k] : k \in 1 .. n} = {s[k] : k \in 1 .. n}
  BY <1>3 DEF SameElements
<1>5. \A k \in 1 .. n : ies[k].len \in Nat
  <2>1. \A e \in {s[k] : k \in 1 .. n} : e.len \in Nat
    BY <1>1
  <2>2. \A k \in 1 .. n : ies[k] \in {s[j] : j \in 1 .. n}
    BY <1>4
  <2> QED
    BY <2>1, <2>2, Zenon
<1>6. /\ DOMAIN g = FrameFields /\ g.ies = ies /\ g.len = f.len
      /\ g.type = f.type /\ g.stype = f.stype /\ g.flags = f.flags
  BY DEF FrameFields
<1> HIDE DEF g
<1>7. IsBeacon(g) /\ IeLen(g) = IeLen(f)
  BY <1>6 DEF IsBeacon, IeLen, HdrLen, IsQos, Flag, ToDs, FromDs
<1>8. Whole(g, ies)
  BY <1>7 DEF Whole
<1> HIDE DEF n
<1>9. ASSUME NEW x \in ElementFields
      PROVE  /\ LastTells(s, n, x, NoPacket, q[x])
             /\ LastTells(ies, n, x, NoPacket, p[x])
  <2>1. LastTells(s, n, x, NoPacket, q[x])
    BY <1>1, BeaconParsed DEF n
  <2>2. LastTells(g.ies, n, x, NoPacket, p[x])
    BY <1>1, <1>4, <1>5, <1>6, <1>7, <1>8, BeaconParsed
  <2> QED
    BY <1>6, <2>1, <2>2
<1> HIDE DEF p, q, s
<1>10. ASSUME NEW x \in {"essid", "channel", "rsn", "wpa", "ht40plus"} PROVE p[x] = q[x]
  <2>1. ASSUME NEW j \in 1 .. n, NEW k \in 1 .. n, SetsField(s[j], x), SetsField(s[k], x)
        PROVE  ValueOf(s[j], x) = ValueOf(s[k], x)
    <3>1. s[j].id = s[k].id /\ s[j].id \in Once => s[j] = s[k]
      BY <1>1 DEF OneVersion, ToSet, s
    <3>2. x \notin {"rsn", "wpa"} => s[j].id = s[k].id /\ s[j].id \in Once
      BY <2>1 DEF SetsField, Once
    <3> QED
      BY <3>1, <3>2 DEF ValueOf
  <2>2. LastTells(s, n, x, NoPacket, q[x]) /\ LastTells(ies, n, x, NoPacket, p[x])
    BY <1>9 DEF ElementFields
  <2>3. \A j, k \in 1 .. n : SetsField(s[j], x) /\ SetsField(s[k], x)
                                 => ValueOf(s[j], x) = ValueOf(s[k], x)
    BY <2>1
  <2> QED
    BY <1>3, <2>2, <2>3, AlikeTells
<1>11. ASSUME InShapeOrder(ies, pi), NEW x \in {"width", "rx", "tx"} PROVE p[x] = q[x]
  <2>1. \A e : SetsField(e, x) => e.id \in HtVht
    BY DEF SetsField, HtVht
  <2>2. ASSUME NEW j \in 1 .. n, NEW k \in 1 .. n,
               j < k, SetsField(ies[j], x), SetsField(ies[k], x)
        PROVE  pi[j] < pi[k]
    <3>1. {ies[j].id, ies[k].id} \subseteq HtVht /\ j \in DOMAIN ies /\ k \in DOMAIN ies
      BY <1>4, <2>1, <2>2
    <3> QED
      BY <1>11, <2>2, <3>1 DEF InShapeOrder
  <2>3. LastTells(s, n, x, NoPacket, q[x]) /\ LastTells(ies, n, x, NoPacket, p[x])
    BY <1>9 DEF ElementFields
  <2> QED
    BY <1>2, <2>2, <2>3, OrderTells
<1>12. ASSUME InIdOrder(ies) PROVE WidthIs(p.width, ies)
  <2>1. LastTells(ies, n, "width", NoPacket, p.width)
    BY <1>9 DEF ElementFields
  <2> QED
    BY <1>1, <1>4, <1>5, <1>12, <2>1, IdsTell
<1>13. Essentials(p) = Essentials(q)
  BY <1>10 DEF Essentials
<1>14. InShapeOrder(ies, pi) => Shape(p) = Shape(q)
  BY <1>11 DEF Shape
<1> QED
  BY <1>12, <1>13, <1>14 DEF g, p, q

\* The order of the elements of a beacon or probe response matters to its width and streams
\* only, and to these only as the order of the HT and VHT elements; in the order of their
\* ids the width is what the last of them tells (uwifi_parse_information_elements).
THEOREM OrderOfElements == Spec => []ElementOrder
<1>1. ASSUME IInv, stage # "idle", pkt.beacon PROVE LET f == FrameOf(cap.c)
         IN /\ DOMAIN f = FrameFields /\ IsBeacon(f) /\ f.len \in Int /\ IsSeq(f.ies)
            /\ \A k \in DOMAIN f.ies : f.ies[k].len \in Nat
  <2> DEFINE c == cap.c
             f == FrameOf(c)
             h == HeaderInfoOf(c)
  <2>1. IsCapture(c) /\ pkt.beacon = ParseRaw(c).beacon
    BY <1>1, ReadKept DEF PacketFields
  <2>2. /\ DOMAIN f = FrameFields /\ IsSeq(f.ies) /\ f.len = c.len - HeaderRet(c)
        /\ f.ies = c.frame.ies
    BY <2>1, FrameTells DEF FrameOf, IsCapture, FrameFields
  <2>3. Changes(NoPacket, h, FieldFields)
    BY <2>1, HeaderTells
  <2>4. IsPacket(h) /\ h.beacon = FALSE
    BY <2>3 DEF Changes, FieldFields, PacketFields, NoPacket
  <2> HIDE DEF f, h
  <2>5. FrameReached(c) /\ Accepted(f) /\ ParseRaw(c) = Parse(h, f)
    BY <1>1, <2>1, <2>4 DEF ParseRaw, f, h
  <2>6. Parse(h, f).beacon = HeaderInfo(h, f).beacon
    BY <2>2, <2>4, ParseTells DEF FrameHeader
  <2>7. IsBeacon(f)
    BY <1>1, <2>1, <2>4, <2>5, <2>6, HeaderInfoTells
  <2>8. f.len \in Int
    <3>1. HeaderRet(c) \in Nat \cup {-1}
      BY <2>1, HeaderTells
    <3>2. c.len \in Nat
      BY <2>1 DEF IsCapture
    <3> QED
      BY <2>2, <3>1, <3>2
  <2> QED
    BY <2>1, <2>2, <2>7, <2>8 DEF IsCapture, f
<1>2. IInv => ElementOrder
  BY <1>1, Reordered DEF ElementOrder
<1> QED
  BY <1>2, Invariance, PTL

\* wlan_rate_to_rate undoes wlan_rate_to_index: the two switches list the same rates, each
\* under one index, so an index is that of its rate, and a rate that has an index is told
\* by it again; of any other index no rate is told.
THEOREM RateAndIndex ==
  /\ \A i \in 1 .. 12 : RateToIndex(RateToRate(i)) = i
  /\ \A r : RateToIndex(r) # 0 => RateToRate(RateToIndex(r)) = r
  /\ \A i : i \notin 1 .. 12 => RateToRate(i) = 0
<1>1. ASSUME NEW i \in 1 .. 12 PROVE RateToIndex(RateToRate(i)) = i
  BY DEF RateToIndex, RateToRate
<1>2. ASSUME NEW r, RateToIndex(r) # 0 PROVE RateToRate(RateToIndex(r)) = r
  BY <1>2 DEF RateToIndex, RateToRate
<1>3. ASSUME NEW i, i \notin 1 .. 12 PROVE RateToRate(i) = 0
  BY <1>3 DEF RateToRate
<1> QED
  BY <1>1, <1>2, <1>3
=============================================================================
