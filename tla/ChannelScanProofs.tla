------------------------- MODULE ChannelScanProofs --------------------------
(***************************************************************************)
(* Proofs about ChannelScan, for any table of channels in ascending order, *)
(* any limits, any channels asked for and any driver, and about the table  *)
(* channel.c makes of a driver's answer.                                   *)
(***************************************************************************)
EXTENDS ChannelScan, TLAPS

-----------------------------------------------------------------------------
\* Looking up a frequency: it stands once in the table or not at all.
LEMMA FreqIdx ==
  ASSUME NEW f
  PROVE  /\ IdxFromFreq(Chans, f) \in DOMAIN Chans \cup {-1}
         /\ \A i \in DOMAIN Chans : Chans[i].freq = f => IdxFromFreq(Chans, f) = i
<1> DEFINE hits == {i \in DOMAIN Chans : Chans[i].freq = f}
<1>1. CASE hits = {}
  BY <1>1 DEF IdxFromFreq, Lowest
<1>2. CASE hits # {}
  <2>1. PICK i \in DOMAIN Chans : Chans[i].freq = f
    BY <1>2
  <2>2. i \in Int /\ hits = {i}
    BY <2>1, ScanAssumption
  <2>3. Lowest(hits) = i
    BY <2>2 DEF Lowest
  <2> QED
    BY <2>1, <2>2, <2>3 DEF IdxFromFreq
<1> QED
  BY <1>1, <1>2

\* Looking up a channel number.
LEMMA ChanIdx ==
  ASSUME NEW c
  PROVE  \/ /\ IdxFromChan(Chans, c) = -1
            /\ \A i \in DOMAIN Chans : Chans[i].chan # c
         \/ /\ IdxFromChan(Chans, c) \in DOMAIN Chans
            /\ Chans[IdxFromChan(Chans, c)].chan = c
<1> DEFINE hits == {i \in DOMAIN Chans : Chans[i].chan = c}
<1>1. CASE hits = {}
  BY <1>1 DEF IdxFromChan, Lowest
<1>2. CASE hits # {}
  <2>1. PICK i \in DOMAIN Chans : Chans[i].chan = c
    BY <1>2
  <2>2. i \in Int /\ hits = {i}
    BY <2>1, ScanAssumption
  <2>3. Lowest(hits) = i
    BY <2>2 DEF Lowest
  <2> QED
    BY <2>1, <2>2, <2>3 DEF IdxFromChan
<1> QED
  BY <1>1, <1>2

\* What a table entry says.
LEMMA Entry ==
  ASSUME NEW i \in DOMAIN Chans
  PROVE  /\ i \in Int /\ 0 <= i /\ i < NumChannels
         /\ Chans[i].chan \in Nat /\ Chans[i].chan >= 1
         /\ Chans[i].freq \in Nat /\ Chans[i].freq > 10
         /\ Chans[i].max_width \in Width
         /\ Chans[i].ht40plus \in BOOLEAN /\ Chans[i].ht40minus \in BOOLEAN
BY ScanAssumption

\* Filling in the centre frequency keeps a specification well formed.
LEMMA CenterTyped ==
  ASSUME NEW spec \in Spec3, spec.freq > 10, NEW plus \in BOOLEAN
  PROVE  /\ FixCenterFreq(spec, plus) \in Spec3
         /\ FixCenterFreq(spec, plus).freq = spec.freq
         /\ FixCenterFreq(spec, plus).width = spec.width
<1> DEFINE c == CASE spec.width = W40 -> spec.freq + (IF plus THEN 10 ELSE -10)
                  [] spec.width \in {W80, W160} -> GetCenterFreqVht(spec.freq, spec.width)
                  [] OTHER -> spec.center_freq
<1>1. FixCenterFreq(spec, plus) = [spec EXCEPT !.center_freq = c]
  BY DEF FixCenterFreq
<1>2. c \in Nat
  <2>1. CASE spec.width = W40
    <3>1. c = spec.freq + (IF plus THEN 10 ELSE -10)
      BY <2>1 DEF W40, W80, W160
    <3> QED
      BY <3>1 DEF Spec3
  <2>2. CASE spec.width \in {W80, W160}
    <3>1. spec.width # W40
      BY <2>2 DEF W40, W80, W160
    <3>2. GetCenterFreqVht(spec.freq, spec.width) \in Nat
      BY DEF GetCenterFreqVht
    <3>3. c = GetCenterFreqVht(spec.freq, spec.width)
      BY <2>2, <3>1
    <3> QED
      BY <3>2, <3>3
  <2>3. CASE spec.width # W40 /\ spec.width \notin {W80, W160}
    BY <2>3 DEF Spec3
  <2> QED
    BY <2>1, <2>2, <2>3
<1> HIDE DEF c
<1> QED
  BY <1>1, <1>2 DEF Spec3

\* A channel built from the table keeps the entry's frequency and width.
LEMMA SpecTyped ==
  ASSUME NEW i \in DOMAIN Chans, NEW plus \in BOOLEAN, NEW center \in Nat
  PROVE  /\ SpecAt(i, plus, center) \in Spec3
         /\ SpecAt(i, plus, center).freq = Chans[i].freq
<1> DEFINE s == [freq |-> Chans[i].freq, width |-> Chans[i].max_width, center_freq |-> center]
<1>1. s \in Spec3 /\ s.freq > 10 /\ s.freq = Chans[i].freq
  BY Entry DEF Spec3
<1> HIDE DEF s
<1>2. FixCenterFreq(s, plus) \in Spec3 /\ FixCenterFreq(s, plus).freq = Chans[i].freq
  BY <1>1, CenterTyped
<1> QED
  BY <1>2 DEF SpecAt, s

\* Where the scan starts from: a channel of the table, which is not below a
\* usable minimum.
LEMMA StartTyped ==
  ASSUME TypeOK, channel_idx # -1
  PROVE  /\ StartIdx \in DOMAIN Chans
         /\ MinAfter \in Nat
         /\ LimitsUsable => MinAfter = channel_min
         /\ LimitsUsable /\ channel_min # 0 => Chans[StartIdx].chan >= channel_min
<1>1. channel_idx \in DOMAIN Chans /\ channel_min \in Nat
  BY DEF TypeOK
<1>2. GetChan(Chans, channel_idx) = Chans[channel_idx].chan /\ Chans[channel_idx].chan \in Nat
  BY <1>1, Entry DEF GetChan
<1>3. MinIdx # -1 => MinIdx \in DOMAIN Chans /\ Chans[MinIdx].chan = channel_min
  BY ChanIdx DEF MinIdx
<1>4. LimitsUsable => channel_min = 0 \/ MinIdx # -1
  BY DEF LimitsUsable, MinIdx
<1> QED
  BY <1>1, <1>2, <1>3, <1>4 DEF StartIdx, MinAfter, Below

\* Where it goes: a channel of the table, or -1, which usable limits exclude.
\* With those, the channel is in the range unless it is the one it was on.
LEMMA NextTyped ==
  ASSUME TypeOK, channel_idx # -1
  PROVE  /\ NextIdx \in DOMAIN Chans \cup {-1}
         /\ LimitsUsable => NextIdx \in DOMAIN Chans
         /\ LimitsUsable => InRange(NextIdx) \/ NextIdx = channel_idx
<1> DEFINE s == StartIdx
<1>1. /\ s \in DOMAIN Chans /\ s \in Int /\ 0 <= s /\ s < NumChannels
      /\ channel_min \in Nat /\ channel_max \in Nat /\ MinAfter \in Nat
  BY StartTyped, Entry DEF TypeOK
<1>2. DOMAIN Chans = 0 .. NumChannels - 1 /\ NumChannels \in Nat /\ NumChannels > 0
  BY ScanAssumption
<1>3. CASE SecondVisit
  <2>1. NextIdx = s /\ s = channel_idx
    BY <1>3 DEF NextIdx, SecondVisit, StartIdx
  <2> QED
    BY <1>1, <2>1
<1>4. CASE ~SecondVisit /\ ~PastEnd(s + 1)
  <2>1. NextIdx = s + 1
    BY <1>4 DEF NextIdx, Following
  <2>2. s + 1 \in DOMAIN Chans
    BY <1>1, <1>2, <1>4 DEF PastEnd
  <2>3. channel_max = 0 \/ Chans[s + 1].chan <= channel_max
    <3>1. Chans[s + 1].chan \in Nat
      BY <2>2, Entry
    <3> QED
      BY <1>1, <1>4, <2>2, <3>1 DEF PastEnd, GetChan
  <2>4. Chans[s].chan < Chans[s + 1].chan
    BY <1>1, <2>2, ScanAssumption
  <2>5. LimitsUsable => channel_min = 0 \/ Chans[s + 1].chan >= channel_min
    <3>1. Chans[s].chan \in Nat /\ Chans[s + 1].chan \in Nat
      BY <1>1, <2>2, Entry
    <3> QED
      BY <1>1, <2>4, <3>1, StartTyped
  <2> QED
    BY <2>1, <2>2, <2>3, <2>5 DEF InRange
<1>5. CASE ~SecondVisit /\ PastEnd(s + 1) /\ MinAfter # 0
  <2>1. NextIdx = IdxFromChan(Chans, MinAfter)
    BY <1>5 DEF NextIdx, Following
  <2>2. NextIdx \in DOMAIN Chans \cup {-1}
    BY <2>1, ChanIdx
  <2>3. ASSUME LimitsUsable PROVE NextIdx \in DOMAIN Chans /\ InRange(NextIdx)
    <3>1. MinAfter = channel_min /\ IdxFromChan(Chans, channel_min) # -1
      BY <1>5, <2>3, StartTyped DEF LimitsUsable
    <3>2. NextIdx \in DOMAIN Chans /\ Chans[NextIdx].chan = channel_min
      BY <2>1, <3>1, ChanIdx
    <3> QED
      BY <1>1, <1>5, <2>3, <3>1, <3>2 DEF InRange, LimitsUsable
  <2> QED
    BY <2>2, <2>3
<1>6. CASE ~SecondVisit /\ PastEnd(s + 1) /\ MinAfter = 0
  <2>1. NextIdx = 0 /\ 0 \in DOMAIN Chans
    BY <1>2, <1>6 DEF NextIdx, Following
  <2>2. ASSUME LimitsUsable PROVE InRange(0)
    <3>1. channel_min = 0
      BY <1>6, <2>2, StartTyped
    <3>2. CASE channel_max # 0
      <4>1. PICK k \in DOMAIN Chans : Chans[k].chan = channel_max
        BY <2>2, <3>2, ChanIdx DEF LimitsUsable
      <4>2. k = 0 \/ Chans[0].chan < Chans[k].chan
        BY <1>2, <2>1, <4>1, ScanAssumption
      <4>3. Chans[0].chan \in Nat
        BY <2>1, Entry
      <4> QED
        BY <1>1, <3>1, <4>1, <4>2, <4>3 DEF InRange
    <3> QED
      BY <3>1, <3>2 DEF InRange
  <2> QED
    BY <2>1, <2>2
<1> QED
  BY <1>3, <1>4, <1>5, <1>6

\* The next channel is well formed, and its frequency is that of its entry.
LEMMA NextSpecTyped ==
  ASSUME TypeOK, channel_idx # -1
  PROVE  /\ NextSpec \in Spec3
         /\ NextIdx # -1 => NextSpec.freq = Chans[NextIdx].freq
         /\ NextIdx = -1 => NextSpec = Unknown
<1>1. CASE NextIdx = -1
  <2>1. NextSpec = Unknown
    BY <1>1 DEF NextSpec
  <2> QED
    BY <1>1, <2>1 DEF Unknown, Spec3, Width, WUNSPEC, W8080
<1>2. CASE NextIdx # -1
  <2>1. NextIdx \in DOMAIN Chans
    BY <1>2, NextTyped
  <2>2. new_chan.center_freq \in Nat
    BY DEF TypeOK, Spec3
  <2> DEFINE plus == SecondVisit \/ ~Chans[NextIdx].ht40minus
  <2>3. plus \in BOOLEAN
    OBVIOUS
  <2>4. NextSpec = SpecAt(NextIdx, plus, new_chan.center_freq)
    BY <1>2 DEF NextSpec
  <2> HIDE DEF plus
  <2> QED
    BY <1>2, <2>1, <2>2, <2>3, <2>4, SpecTyped
<1> QED
  BY <1>1, <1>2
-----------------------------------------------------------------------------
\* A tuning the driver accepts: the interface says what the radio is on.
LEMMA DoneTyped ==
  ASSUME TypeOK, NEW spec \in Spec3, ChangeDone(spec)
  PROVE  /\ channel' = spec /\ radio' = spec
         /\ channel_idx' \in DOMAIN Chans
         /\ channel_idx' = IdxFromFreq(Chans, channel'.freq)
         /\ since' = 0 /\ refusals' = refusals
<1>1. IdxFromFreq(Chans, spec.freq) # -1
  BY DEF ChangeDone, CanDo
<1>2. IdxFromFreq(Chans, spec.freq) \in DOMAIN Chans
  BY <1>1, FreqIdx
<1> QED
  BY <1>2 DEF ChangeDone

\* One it refuses.
LEMMA RefusedTyped ==
  ASSUME TypeOK, NEW spec, Refused(spec)
  PROVE  refusals' \in 0 .. MaxRefusals
BY ScanAssumption DEF TypeOK, Refused

LEMMA IdxNotMinusOne ==
  ASSUME NEW i \in DOMAIN Chans
  PROVE  i # -1
BY ScanAssumption

LEMMA InitInv == Init => IInv
<1> SUFFICES ASSUME Init PROVE IInv
  OBVIOUS
<1>1. radio \in Spec3 /\ IdxFromFreq(Chans, radio.freq) # -1
  BY ScanAssumption DEF Init
<1>2. Unknown \in Spec3 /\ Unknown.freq = 0
  BY DEF Unknown, Spec3, Width, WUNSPEC, W8080
<1>3. PICK l \in Limits : channel_min = l[1] /\ channel_max = l[2]
  BY DEF Init
<1>4. l[1] \in Nat /\ l[2] \in Nat
  BY <1>3, ScanAssumption
<1>5. TypeOK
  BY <1>1, <1>2, <1>3, <1>4, ScanAssumption DEF Init, TypeOK
<1>6. InStep /\ KnownListed /\ TryingKnown
  BY <1>1, <1>2 DEF Init, InStep, KnownListed, TryingKnown
<1>7. QuietLonger
  BY ScanAssumption DEF Init, QuietLonger
<1> QED
  BY <1>5, <1>6, <1>7 DEF IInv

LEMMA InitUnknownInv == ASSUME IInv, InitUnknown PROVE IInv'
<1> USE DEF InitUnknown, tuned, config
<1>1. TypeOK'
  BY ScanAssumption DEF IInv, TypeOK
<1>2. InStep' /\ KnownListed' /\ TryingKnown'
  BY DEF IInv, InStep, KnownListed, TryingKnown
<1>3. QuietLonger'
  BY DEF IInv, TypeOK, QuietLonger
<1> QED
  BY <1>1, <1>2, <1>3 DEF IInv

LEMMA InitConfiguredInv ==
  ASSUME IInv, NEW spec \in AppSpecs, InitConfigured(spec)
  PROVE  IInv'
<1>1. TypeOK /\ spec \in Spec3
  BY ScanAssumption DEF IInv
<1>2. CASE ChangeDone(spec) /\ pc' = "idle"
  <2>1. TypeOK'
    BY <1>1, <1>2, DoneTyped, ScanAssumption DEF TypeOK, InitConfigured, config
  <2>2. InStep' /\ KnownListed' /\ TryingKnown'
    BY <1>1, <1>2, DoneTyped, IdxNotMinusOne DEF InStep, KnownListed, TryingKnown
  <2>3. QuietLonger'
    BY <1>1, <1>2, DoneTyped DEF TypeOK, QuietLonger, InitConfigured
  <2> QED
    BY <2>1, <2>2, <2>3 DEF IInv
<1>3. CASE ChangeFailed(spec) /\ since' = 0 /\ pc' = "new"
  <2>1. refusals' \in 0 .. MaxRefusals /\ UNCHANGED tuned
    BY <1>1, <1>3, RefusedTyped DEF ChangeFailed
  <2>2. TypeOK'
    BY <1>1, <1>3, <2>1, ScanAssumption DEF TypeOK, InitConfigured, config, tuned
  <2>3. InStep' /\ KnownListed' /\ TryingKnown'
    BY <1>3, <2>1 DEF IInv, InStep, KnownListed, TryingKnown, tuned
  <2>4. QuietLonger'
    BY <1>1, <1>3 DEF TypeOK, QuietLonger, InitConfigured
  <2> QED
    BY <2>2, <2>3, <2>4 DEF IInv
<1> QED
  BY <1>2, <1>3 DEF InitConfigured

LEMMA InitCurrentInv == ASSUME IInv, InitCurrent PROVE IInv'
<1> DEFINE i == IdxFromFreq(Chans, channel.freq)
<1>1. /\ pc = "new" /\ channel.freq # 0 /\ pc' = "idle"
      /\ UNCHANGED <<config, tries, new_chan, ret, edits, quiet, asked>>
  BY DEF InitCurrent
<1>2. TypeOK /\ channel = radio /\ i # -1
  BY <1>1 DEF IInv, KnownListed
<1>3. i \in DOMAIN Chans /\ channel.center_freq \in Nat
  BY <1>2, FreqIdx DEF TypeOK, Spec3
<1>4. Widest(i) \in Spec3
  <2> DEFINE plus == Chans[i].max_width = W40 /\ ~Chans[i].ht40minus
  <2>1. plus \in BOOLEAN
    OBVIOUS
  <2>2. Widest(i) = SpecAt(i, plus, channel.center_freq)
    BY DEF Widest
  <2> HIDE DEF plus, i
  <2> QED
    BY <1>3, <2>1, <2>2, SpecTyped
<1>5. CASE ChangeDone(Widest(i))
  <2> HIDE DEF i
  <2>1. TypeOK'
    BY <1>1, <1>2, <1>4, <1>5, DoneTyped, ScanAssumption DEF TypeOK, config
  <2>2. InStep' /\ KnownListed' /\ TryingKnown'
    BY <1>1, <1>2, <1>4, <1>5, DoneTyped, IdxNotMinusOne DEF InStep, KnownListed, TryingKnown
  <2>3. QuietLonger'
    <3>1. since' = 0 /\ quiet' = quiet
      BY <1>1, <1>2, <1>4, <1>5, DoneTyped
    <3>2. quiet \in Nat
      BY <1>2 DEF TypeOK
    <3> QED
      BY <3>1, <3>2 DEF QuietLonger
  <2> QED
    BY <2>1, <2>2, <2>3 DEF IInv
<1>6. CASE /\ refusals' \in 0 .. MaxRefusals
           /\ channel_idx' = i /\ since' = 0
           /\ UNCHANGED <<channel, radio>>
  <2>1. TypeOK'
    BY <1>1, <1>2, <1>3, <1>6, ScanAssumption DEF TypeOK, config
  <2>2. InStep' /\ KnownListed' /\ TryingKnown'
    BY <1>1, <1>2, <1>6 DEF InStep, KnownListed, TryingKnown
  <2>3. QuietLonger'
    BY <1>1, <1>2, <1>6 DEF TypeOK, QuietLonger
  <2> QED
    BY <2>1, <2>2, <2>3 DEF IInv
<1>7. \/ ChangeDone(Widest(i))
      \/ /\ Refused(Widest(i)) \/ UNCHANGED refusals
         /\ channel_idx' = i /\ since' = 0
         /\ UNCHANGED <<channel, radio>>
  BY DEF InitCurrent
<1>8. Refused(Widest(i)) \/ UNCHANGED refusals => refusals' \in 0 .. MaxRefusals
  BY <1>2, RefusedTyped DEF TypeOK
<1> QED
  BY <1>5, <1>6, <1>7, <1>8

LEMMA AppChangeInv ==
  ASSUME IInv, NEW spec \in AppSpecs, AppChange(spec)
  PROVE  IInv'
<1>1. TypeOK /\ spec \in Spec3
  BY ScanAssumption DEF IInv
<1>2. edits' \in 0 .. MaxEdits
  BY <1>1, ScanAssumption DEF TypeOK, AppChange
<1>3. CASE ChangeDone(spec)
  <2>1. TypeOK'
    BY <1>1, <1>2, <1>3, DoneTyped, ScanAssumption DEF TypeOK, AppChange, config, loop
  <2>2. InStep' /\ KnownListed' /\ TryingKnown'
    BY <1>1, <1>3, DoneTyped, IdxNotMinusOne
       DEF InStep, KnownListed, TryingKnown, AppChange, loop
  <2>3. QuietLonger'
    BY <1>1, <1>3, DoneTyped DEF TypeOK, QuietLonger, AppChange
  <2> QED
    BY <2>1, <2>2, <2>3 DEF IInv
<1>4. CASE ChangeFailed(spec) /\ UNCHANGED since
  <2>1. refusals' \in 0 .. MaxRefusals /\ UNCHANGED tuned
    BY <1>1, <1>4, RefusedTyped DEF ChangeFailed
  <2>2. TypeOK'
    BY <1>1, <1>2, <1>4, <2>1 DEF TypeOK, AppChange, config, loop, tuned
  <2>3. InStep' /\ KnownListed' /\ TryingKnown'
    BY <2>1 DEF IInv, InStep, KnownListed, TryingKnown, AppChange, loop, tuned
  <2>4. QuietLonger'
    BY <1>4 DEF IInv, QuietLonger, AppChange
  <2> QED
    BY <2>2, <2>3, <2>4 DEF IInv
<1> QED
  BY <1>3, <1>4 DEF AppChange

LEMMA AppLimitsInv ==
  ASSUME IInv, NEW l \in Limits, AppLimits(l[1], l[2])
  PROVE  IInv'
<1>1. l[1] \in Nat /\ l[2] \in Nat
  BY ScanAssumption
<1>2. TypeOK'
  BY <1>1, ScanAssumption DEF IInv, TypeOK, AppLimits, tuned, clock, loop
<1>3. InStep' /\ KnownListed' /\ TryingKnown' /\ QuietLonger'
  BY DEF IInv, InStep, KnownListed, TryingKnown, QuietLonger, AppLimits, tuned, clock, loop
<1> QED
  BY <1>2, <1>3 DEF IInv

LEMMA AppScanInv == ASSUME IInv, AppScan PROVE IInv'
<1>1. TypeOK'
  BY ScanAssumption DEF IInv, TypeOK, AppScan, tuned, clock, loop
<1>2. InStep' /\ KnownListed' /\ TryingKnown' /\ QuietLonger'
  BY DEF IInv, InStep, KnownListed, TryingKnown, QuietLonger, AppScan, tuned, clock, loop
<1> QED
  BY <1>1, <1>2 DEF IInv

LEMMA FixupInv ==
  ASSUME IInv, NEW i \in DOMAIN Chans, FixupPacketChannel(i)
  PROVE  IInv'
<1> USE DEF FixupPacketChannel, config, clock, loop
<1>1. TypeOK'
  BY DEF IInv, TypeOK
<1>2. channel.freq = 0
  BY DEF IInv, InStep, KnownListed
<1>3. InStep' /\ KnownListed'
  BY <1>2 DEF InStep, KnownListed
<1>4. TryingKnown' /\ QuietLonger'
  BY DEF IInv, TryingKnown, QuietLonger
<1> QED
  BY <1>1, <1>3, <1>4 DEF IInv

LEMMA TickInv == ASSUME IInv, Tick PROVE IInv'
<1> USE DEF Tick, tuned, config, loop
<1>1. /\ since' \in 0 .. ChannelTime /\ quiet' \in 0 .. ChannelTime
      /\ since' <= quiet'
  BY ScanAssumption DEF IInv, TypeOK, QuietLonger, Later
<1>2. TypeOK'
  BY <1>1 DEF IInv, TypeOK
<1>3. InStep' /\ KnownListed' /\ TryingKnown'
  BY DEF IInv, InStep, KnownListed, TryingKnown
<1> QED
  BY <1>1, <1>2, <1>3 DEF IInv, QuietLonger

LEMMA AutoChangeInv == ASSUME IInv, AutoChange PROVE IInv'
<1> USE DEF AutoChange, tuned, config, clock
<1>1. MaxTries \in 0 .. 2 * NumChannels
  <2>1. IdxFromChan(Chans, channel_max) >= 0 =>
          IdxFromChan(Chans, channel_max) \in 0 .. NumChannels - 1
    BY ChanIdx, ScanAssumption
  <2>2. NumChannels \in Nat
    BY ScanAssumption
  <2> QED
    BY <2>1, <2>2 DEF MaxTries
<1>2. Unknown \in Spec3
  BY DEF Unknown, Spec3, Width, WUNSPEC, W8080
<1>3. TypeOK'
  BY <1>1, <1>2, ScanAssumption DEF IInv, TypeOK
<1>4. InStep' /\ KnownListed'
  BY DEF IInv, InStep, KnownListed
<1>5. TryingKnown' /\ QuietLonger'
  BY <1>1, ScanAssumption DEF IInv, TryingKnown, QuietLonger
<1> QED
  BY <1>3, <1>4, <1>5 DEF IInv

LEMMA TryInv == ASSUME IInv, Try PROVE IInv'
<1> DEFINE spec == NextSpec
<1>1. TypeOK /\ channel_idx # -1 /\ tries >= 0 /\ pc = "trying"
  BY DEF IInv, TryingKnown, Try
<1>2. spec \in Spec3 /\ spec.freq \in Nat /\ MinAfter \in Nat
  BY <1>1, NextSpecTyped, StartTyped DEF Spec3
<1>3. TrySet(spec) \/ TryFailed(spec)
  BY DEF Try
<1> HIDE DEF spec
<1>4. Round(spec)
  BY <1>3 DEF TrySet, TryFailed
<1>5. /\ channel_min' \in Nat /\ new_chan' \in Spec3 /\ asked' \subseteq Nat
      /\ tries' = tries - 1 /\ tries' \in -1 .. 2 * NumChannels
      /\ channel_max' \in Nat /\ channel_scan' \in BOOLEAN /\ edits' \in 0 .. MaxEdits
  <2>1. asked' \subseteq Nat
    BY <1>1, <1>2, <1>4 DEF Round, TypeOK
  <2>2. tries' = tries - 1 /\ tries' \in -1 .. 2 * NumChannels
    BY <1>1, <1>4, ScanAssumption DEF Round, TypeOK
  <2> QED
    BY <1>1, <1>2, <1>4, <2>1, <2>2 DEF Round, TypeOK
<1>6. CASE TrySet(spec)
  <2> USE <1>6 DEF TrySet
  <2>1. TypeOK'
    <3>1. /\ channel' \in Spec3 /\ radio' \in Spec3 /\ channel_idx' \in DOMAIN Chans
          /\ since' = 0 /\ quiet' = 0 /\ refusals' = refusals
      BY <1>1, <1>2, DoneTyped
    <3>2. since' \in 0 .. ChannelTime /\ quiet' \in 0 .. ChannelTime
      BY <3>1, ScanAssumption
    <3>3. pc' \in {"new", "idle", "trying"} /\ ret' \in {-1, 0, 1}
      OBVIOUS
    <3> QED
      BY <1>1, <1>5, <3>1, <3>2, <3>3 DEF TypeOK
  <2>2. InStep' /\ KnownListed' /\ TryingKnown'
    BY <1>1, <1>2, DoneTyped, IdxNotMinusOne DEF InStep, KnownListed, TryingKnown
  <2>3. QuietLonger'
    <3>1. since' = 0 /\ quiet' = 0
      BY <1>1, <1>2, DoneTyped
    <3> QED
      BY <3>1 DEF QuietLonger
  <2> QED
    BY <2>1, <2>2, <2>3 DEF IInv
<1>7. CASE TryFailed(spec)
  <2>1. refusals' \in 0 .. MaxRefusals /\ UNCHANGED tuned
    BY <1>1, <1>7, RefusedTyped DEF TryFailed, ChangeFailed
  <2>2. \/ tries > 1 /\ UNCHANGED <<pc, ret, clock>>
        \/ pc' = "idle" /\ ret' = -1 /\ since' = 0 /\ quiet' = 0
    BY <1>7 DEF TryFailed
  <2>3. TypeOK'
    <3>1. since' \in 0 .. ChannelTime /\ quiet' \in 0 .. ChannelTime
      BY <1>1, <2>2, ScanAssumption DEF TypeOK, clock
    <3>2. channel_idx' \in DOMAIN Chans \cup {-1} /\ channel' \in Spec3 /\ radio' \in Spec3
      BY <1>1, <2>1 DEF TypeOK, tuned
    <3>3. pc' \in {"new", "idle", "trying"} /\ ret' \in {-1, 0, 1}
      BY <1>1, <2>2 DEF TypeOK
    <3> QED
      BY <1>5, <2>1, <3>1, <3>2, <3>3 DEF TypeOK
  <2>4. InStep' /\ KnownListed'
    BY <1>1, <2>1, <2>2 DEF IInv, InStep, KnownListed, tuned
  <2>5. TryingKnown'
    BY <1>1, <1>5, <2>1, <2>2 DEF TypeOK, TryingKnown, tuned
  <2>6. QuietLonger'
    <3>1. CASE UNCHANGED clock
      BY <3>1 DEF IInv, QuietLonger, clock
    <3>2. CASE since' = 0 /\ quiet' = 0
      BY <3>2 DEF QuietLonger
    <3> QED
      BY <2>2, <3>1, <3>2
  <2> QED
    BY <2>3, <2>4, <2>5, <2>6 DEF IInv
<1> QED
  BY <1>3, <1>6, <1>7

LEMMA StepInv == ASSUME IInv, [Next]_vars PROVE IInv'
<1>1. CASE UNCHANGED vars
  BY <1>1 DEF IInv, TypeOK, InStep, KnownListed, TryingKnown, QuietLonger, vars
<1>2. CASE Next
  BY <1>2, InitUnknownInv, InitCurrentInv, InitConfiguredInv, AppChangeInv, AppLimitsInv,
     AppScanInv, FixupInv, TickInv, AutoChangeInv, TryInv DEF Next
<1> QED
  BY <1>1, <1>2

-----------------------------------------------------------------------------
\* IInv holds in every reachable state, with any device, driver and application.
THEOREM Invariance == Spec => []IInv
<1>1. Init => IInv
  BY InitInv
<1>2. IInv /\ [Next]_vars => IInv'
  BY StepInv
<1> QED
  BY <1>1, <1>2, PTL DEF Spec

\* Every variable keeps its type; the count of tries left never passes -1.
THEOREM TypeCorrect == Spec => []TypeOK
<1>1. IInv => TypeOK
  BY DEF IInv
<1> QED
  BY <1>1, Invariance, PTL

\* The interface says what the radio is on, whichever requests were refused.
THEOREM StaysInStep == Spec => []InStep
<1>1. IInv => InStep
  BY DEF IInv
<1> QED
  BY <1>1, Invariance, PTL

\* A hop of the scan ends in the range of the limits, or on the same channel.
THEOREM HopsInRange == Spec => HopInRange
<1>1. ASSUME IInv, [Next]_vars PROVE HopInRangeStep
  <2> SUFFICES ASSUME pc = "trying", channel' # channel, LimitsUsable
               PROVE  InRange(channel_idx') \/ channel_idx' = channel_idx
    BY DEF HopInRangeStep
  <2>1. Try
    BY <1>1 DEF Next, vars, InitUnknown, InitCurrent, InitConfigured, AppChange, AppLimits,
                AppScan, FixupPacketChannel, Tick, AutoChange
  <2>2. TypeOK /\ channel_idx # -1
    BY <1>1 DEF IInv, TryingKnown
  <2>3. NextIdx \in DOMAIN Chans /\ (InRange(NextIdx) \/ NextIdx = channel_idx)
    BY <2>2, NextTyped
  <2>4. NextIdx # -1
    BY <2>3, IdxNotMinusOne
  <2>5. NextSpec.freq = Chans[NextIdx].freq
    BY <2>2, <2>4, NextSpecTyped
  <2>6. ChangeDone(NextSpec)
    BY <2>1 DEF Try, TrySet, TryFailed, ChangeFailed, tuned
  <2>7. channel_idx' = IdxFromFreq(Chans, NextSpec.freq)
    BY <2>6 DEF ChangeDone
  <2>8. channel_idx' = NextIdx
    BY <2>3, <2>5, <2>7, FreqIdx
  <2> QED
    BY <2>3, <2>8
<1> QED
  BY <1>1, Invariance, PTL DEF Spec, HopInRange

\* Two calls of auto_change ask the driver a dwell time apart at least.
THEOREM CallsSpaced == Spec => AttemptsSpaced
<1>1. ASSUME IInv, [Next]_vars PROVE AttemptsSpacedStep
  <2> SUFFICES ASSUME pc = "idle", pc' = "trying" PROVE quiet = ChannelTime
    BY DEF AttemptsSpacedStep
  <2>1. AutoChange
    BY <1>1 DEF Next, vars, InitUnknown, InitCurrent, InitConfigured, AppChange, AppLimits,
                AppScan, FixupPacketChannel, Tick, Try, loop
  <2>2. since = ChannelTime
    BY <1>1, <2>1, ScanAssumption DEF AutoChange, RemainingDwellTime, IInv, TypeOK
  <2> QED
    BY <1>1, <2>2, ScanAssumption DEF IInv, TypeOK, QuietLonger
<1> QED
  BY <1>1, Invariance, PTL DEF Spec, AttemptsSpaced

\* Why the retry loop of auto_change does not get past a channel the driver refuses (finding
\* 1), on any device: after a refusal uwifi_channel_get_next comes to the same entry again.
SameAgain == [][pc = "trying" /\ pc' = "trying" /\ LimitsUsable => NextIdx' = NextIdx]_vars

THEOREM RefusedAgain == Spec => SameAgain
<1>1. ASSUME IInv, [Next]_vars, pc = "trying", pc' = "trying", LimitsUsable
      PROVE  NextIdx' = NextIdx
  <2>1. Try \/ UNCHANGED vars
    BY <1>1 DEF Next, InitUnknown, InitCurrent, InitConfigured, AppChange, AppLimits,
                AppScan, FixupPacketChannel, Tick, AutoChange
  <2>2. channel_min' = channel_min /\ channel_max' = channel_max /\ UNCHANGED tuned
    <3>1. CASE Try
      <4>1. Round(NextSpec) /\ UNCHANGED tuned
        BY <1>1, <3>1 DEF Try, TrySet, TryFailed, ChangeFailed
      <4>2. MinAfter = channel_min
        BY <1>1, StartTyped DEF IInv, TryingKnown
      <4> QED
        BY <4>1, <4>2 DEF Round
    <3> QED
      BY <2>1, <3>1 DEF vars, tuned, config
  <2>3. Below' = Below /\ MinIdx' = MinIdx
    BY <2>2 DEF Below, MinIdx, tuned
  <2>4. MinAfter' = MinAfter /\ StartIdx' = StartIdx
    BY <2>2, <2>3 DEF MinAfter, StartIdx, tuned
  <2>5. SecondVisit' = SecondVisit
    BY <2>2, <2>3, <2>4 DEF SecondVisit, tuned
  <2>6. \A i : PastEnd(i)' = PastEnd(i)
    BY <2>2 DEF PastEnd
  <2>7. Following' = Following
    BY <2>4, <2>6 DEF Following
  <2> QED
    BY <2>4, <2>5, <2>7 DEF NextIdx
<1> QED
  BY <1>1, Invariance, PTL DEF Spec, SameAgain

-----------------------------------------------------------------------------
\* The table itself, for any answer of a driver.

\* The frequencies of channels 1 to 13 and 32 to 196.  Channel 14, which is nobody's
\* neighbour (finding 2), and the 4.9 GHz band, whose numbers overlap, are left out.
Grid == {2407 + 5 * c : c \in 1 .. 13} \cup {5000 + 5 * c : c \in 32 .. 196}

LEMMA GridInt == Grid \subseteq Int
  BY DEF Grid

\* The two branches of the numbering these frequencies take.
LEMMA LowBand ==
  ASSUME NEW x \in Int, x < 2484 PROVE Freq2Chan(x) = (x - 2407) \div 5
  BY DEF Freq2Chan

LEMMA HighBand ==
  ASSUME NEW x \in Int, 4980 < x, x <= 45000 PROVE Freq2Chan(x) = (x - 5000) \div 5
  BY DEF Freq2Chan

\* What the number of such a frequency is.
LEMMA GridNumber ==
  ASSUME NEW x \in Grid
  PROVE  /\ x \in Int
         /\ \/ x = 2407 + 5 * Freq2Chan(x) /\ Freq2Chan(x) \in 1 .. 13
            \/ x = 5000 + 5 * Freq2Chan(x) /\ Freq2Chan(x) \in 32 .. 196
<1>1. CASE x \in {2407 + 5 * c : c \in 1 .. 13}
  <2>1. PICK c \in 1 .. 13 : x = 2407 + 5 * c
    BY <1>1
  <2>2. x \in Int /\ x < 2484 /\ (x - 2407) \div 5 = c
    BY <2>1
  <2>3. Freq2Chan(x) = c
    BY <2>2, LowBand
  <2> QED
    BY <2>1, <2>3
<1>2. CASE x \in {5000 + 5 * c : c \in 32 .. 196}
  <2>1. PICK c \in 32 .. 196 : x = 5000 + 5 * c
    BY <1>2
  <2>2. x \in Int /\ 4980 < x /\ x <= 45000 /\ (x - 5000) \div 5 = c
    BY <2>1
  <2>3. Freq2Chan(x) = c
    BY <2>2, HighBand
  <2> QED
    BY <2>1, <2>3
<1> QED
  BY <1>1, <1>2 DEF Grid

\* Four channel numbers are 20 MHz.
LEMMA FourIsTwenty ==
  ASSUME NEW f \in Grid, NEW g \in Grid
  PROVE  /\ Freq2Chan(g) = Freq2Chan(f) + 4 => g = f + 20
         /\ Freq2Chan(g) = Freq2Chan(f) - 4 => g = f - 20
<1>1. \A x \in Grid : /\ x \in Int
                      /\ \/ x = 2407 + 5 * Freq2Chan(x) /\ Freq2Chan(x) \in 1 .. 13
                         \/ x = 5000 + 5 * Freq2Chan(x) /\ Freq2Chan(x) \in 32 .. 196
  BY GridNumber
<1> QED
  BY <1>1

\* wlan_chan2freq undoes wlan_freq2chan on the usual channels and on
\* channel 14: no two of them have one number.
THEOREM NumberTellsFreq ==
  ASSUME NEW f \in Grid \cup {2484}
  PROVE  Chan2Freq(Freq2Chan(f)) = f
<1>1. CASE f = 2484
  <2>1. Freq2Chan(f) = 14
    BY <1>1 DEF Freq2Chan
  <2> QED
    BY <1>1, <2>1 DEF Chan2Freq
<1>2. CASE f \in Grid
  <2> DEFINE c == Freq2Chan(f)
  <2>1. \/ f = 2407 + 5 * c /\ c \in 1 .. 13
        \/ f = 5000 + 5 * c /\ c \in 32 .. 196
    BY <1>2, GridNumber
  <2> HIDE DEF c
  <2>2. CASE f = 2407 + 5 * c /\ c \in 1 .. 13
    <3>1. c # 14 /\ c < 14
      BY <2>2
    <3>2. Chan2Freq(c) = 2407 + 5 * c
      BY <3>1 DEF Chan2Freq
    <3> QED
      BY <2>2, <3>2 DEF c
  <2>3. CASE f = 5000 + 5 * c /\ c \in 32 .. 196
    <3>1. c # 14 /\ ~(c < 14)
      BY <2>3
    <3>2. Chan2Freq(c) = 5000 + 5 * c
      BY <3>1 DEF Chan2Freq
    <3> QED
      BY <2>3, <3>2 DEF c
  <2> QED
    BY <2>1, <2>2, <2>3
<1> QED
  BY <1>1, <1>2

\* Searching for a frequency no two channels have.
LEMMA FoundFreq ==
  ASSUME NEW t, \A i, j \in DOMAIN t : t[i].freq = t[j].freq => i = j, NEW k \in DOMAIN t
  PROVE  IdxFromFreq(t, t[k].freq) = k
<1>1. {i \in DOMAIN t : t[i].freq = t[k].freq} = {k}
  OBVIOUS
<1> QED
  BY <1>1 DEF IdxFromFreq, Lowest

\* The capabilities the table gives a channel.
LEMMA CapabTells ==
  ASSUME NEW t, NEW i \in DOMAIN t, NEW most \in Width,
         DOMAIN t[i] = {"chan", "freq", "max_width", "ht40plus", "ht40minus"}
  PROVE  LET c == CheckCapab(t, i, most)
         IN /\ c.freq = t[i].freq
            /\ c.max_width \in Width
            /\ c.ht40minus => IdxFromChan(t, t[i].chan - 4) # -1
            /\ c.ht40plus => IdxFromChan(t, t[i].chan + 4) # -1
            /\ \A w \in W80 .. c.max_width : VhtFits(t, i, w)
            /\ c.ht40plus \in BOOLEAN /\ c.ht40minus \in BOOLEAN
            /\ c.max_width = W20 \/ (c.max_width >= W40 /\ (c.ht40minus \/ c.ht40plus))
<1> DEFINE ht40  == most >= W40 /\ t[i].freq # 2484
           minus == ht40 /\ Ht40minus(t, i)
           plus  == ht40 /\ Ht40plus(t, i)
           wider == IF minus \/ plus THEN VhtUpTo(t, i, most) ELSE {}
           top == CASE ~minus /\ ~plus -> W20
                    [] (minus \/ plus) /\ wider = {} -> W40
                    [] OTHER -> CHOOSE w \in wider : \A v \in wider : v <= w
           c == CheckCapab(t, i, most)
<1>1. c.freq = t[i].freq /\ c.ht40minus = minus /\ c.ht40plus = plus /\ c.max_width = top
  BY DEF CheckCapab
<1> HIDE DEF c
<1>2. /\ minus => IdxFromChan(t, t[i].chan - 4) # -1
      /\ plus => IdxFromChan(t, t[i].chan + 4) # -1
  BY DEF Ht40minus, Ht40plus
<1>3. wider \in SUBSET (4 .. 6) /\ \A w \in wider : \A v \in W80 .. w : VhtFits(t, i, v)
  BY DEF VhtUpTo, Width, WUNSPEC, W80, W8080
<1>3a. (~minus /\ ~plus => top = W20) /\ minus \in BOOLEAN /\ plus \in BOOLEAN
  OBVIOUS
<1> HIDE DEF wider, minus, plus
<1>4. top \in {W20, W40} \/ top \in wider
  <2>1. wider # {} => \E w \in wider : \A v \in wider : v <= w
    <3>1. CASE 6 \in wider
      BY <1>3, <3>1
    <3>2. CASE 6 \notin wider /\ 5 \in wider
      BY <1>3, <3>2
    <3>3. CASE 6 \notin wider /\ 5 \notin wider
      <4>1. \A w \in wider : w = 4
        BY <1>3, <3>3
      <4> QED
        BY <4>1
    <3> QED
      BY <3>1, <3>2, <3>3
  <2> QED
    BY <2>1
<1> HIDE DEF top
<1>5. top \in Width /\ \A w \in W80 .. top : VhtFits(t, i, w)
  <2>1. CASE top \in {W20, W40}
    BY <2>1 DEF Width, WUNSPEC, W20, W40, W80, W8080
  <2>2. CASE top \in wider
    BY <1>3, <2>2 DEF Width, WUNSPEC, W80, W8080
  <2> QED
    BY <1>4, <2>1, <2>2
<1>6. top = W20 \/ (top >= W40 /\ (minus \/ plus))
  <2>1. top \in wider => top \in {4, 5, 6}
    BY <1>3
  <2>2. top = W20 \/ top >= W40
    BY <1>4, <2>1 DEF W40
  <2> QED
    BY <1>3a, <2>2
<1> QED
  BY <1>1, <1>2, <1>3a, <1>5, <1>6 DEF c

\* What a sequence holds.
LEMMA Elements ==
  ASSUME NEW S, NEW s \in Seq(S)
  PROVE  Len(s) \in Nat /\ \A k \in 1 .. Len(s) : s[k] \in S
  OBVIOUS

\* Every index of the table is a number, and has a frequency and a width of the answer.
LEMMA OfBands ==
  ASSUME NEW bands \in Seq([freqs : Seq(Grid), width : Width]), Len(bands) > 0
  PROVE  \A k \in DOMAIN RawTable(bands) : /\ k # -1
                                           /\ RawTable(bands)[k].freq \in Grid
                                           /\ BandWidth(bands, k) \in Width
<1> DEFINE more == IF Len(bands) > 1 THEN bands[2].freqs ELSE <<>>
           all == bands[1].freqs \o more
           n == IF Len(all) > MaxChannels THEN MaxChannels ELSE Len(all)
<1>0. Len(bands) \in Nat /\ \A k \in 1 .. Len(bands) : bands[k] \in [freqs : Seq(Grid), width : Width]
  BY Elements
<1>1. bands[1].freqs \in Seq(Grid) /\ bands[1].width \in Width
  BY <1>0
<1>2. Len(bands) > 1 => bands[2].freqs \in Seq(Grid) /\ bands[2].width \in Width
  BY <1>0
<1>3. more \in Seq(Grid)
  BY <1>2
<1>4. /\ all \in Seq(Grid) /\ Len(all) = Len(bands[1].freqs) + Len(more)
      /\ Len(bands[1].freqs) \in Nat /\ Len(more) \in Nat /\ Len(all) \in Nat
      /\ \A k \in 1 .. Len(all) : all[k] \in Grid
  <2>1. all \in Seq(Grid) /\ Len(all) = Len(bands[1].freqs) + Len(more)
    BY <1>1, <1>3
  <2> QED
    BY <1>1, <1>3, <2>1, Elements
<1> DEFINE raw == RawTable(bands)
<1>5. DOMAIN raw = 0 .. n - 1 /\ \A k \in DOMAIN raw : raw[k].freq = all[k + 1]
  BY DEF RawTable
<1> HIDE DEF raw, all
<1>6. n \in Nat /\ n <= Len(all) /\ Len(all) \in Nat
  <2>1. Len(all) \in Nat
    BY <1>4, Zenon
  <2> QED
    BY <2>1 DEF MaxChannels
<1> HIDE DEF n
<1>7. ASSUME NEW k \in DOMAIN raw PROVE BandWidth(bands, k) \in Width
  <2> HIDE DEF more
  <2>0. k \in 0 .. n - 1
    BY <1>5, Zenon
  <2>1. k \in Nat /\ k < Len(all)
    BY <1>6, <2>0
  <2>2. CASE k < Len(bands[1].freqs)
    BY <1>1, <2>2 DEF BandWidth
  <2>3. CASE ~(k < Len(bands[1].freqs))
    <3>1. Len(more) # 0
      BY <1>4, <2>1, <2>3
    <3>2. Len(bands) > 1
      BY <3>1 DEF more
    <3> QED
      BY <1>2, <2>3, <3>2 DEF BandWidth
  <2> QED
    BY <2>2, <2>3
<1>8. \A k \in DOMAIN raw : k # -1 /\ all[k + 1] \in Grid
  <2>1. \A k \in DOMAIN raw : k # -1 /\ k + 1 \in 1 .. Len(all)
    BY <1>5, <1>6
  <2> QED
    BY <1>4, <2>1
<1> QED
  BY <1>5, <1>7, <1>8 DEF raw

\* What uwifi_channel_init makes of an answer, row by row.
LEMMA TableTells ==
  ASSUME NEW bands \in Seq([freqs : Seq(Grid), width : Width]), Len(bands) > 0
  PROVE  /\ DOMAIN Table(bands) = DOMAIN RawTable(bands)
         /\ \A k \in DOMAIN Table(bands) :
              LET r == RawTable(bands)[k]
                  c == Table(bands)[k]
              IN /\ c.freq = r.freq /\ c.freq \in Grid
                 /\ c.chan = Freq2Chan(c.freq)
                 /\ c.ht40plus \in BOOLEAN /\ c.ht40minus \in BOOLEAN
                 /\ c.max_width = W20 \/ (c.max_width >= W40 /\ (c.ht40minus \/ c.ht40plus))
<1> DEFINE raw == RawTable(bands)
           t == Table(bands)
<1>1. \A k \in DOMAIN raw : raw[k].freq \in Grid /\ BandWidth(bands, k) \in Width
  BY OfBands
<1>2. \A k \in DOMAIN raw :
        /\ raw[k].chan = Freq2Chan(raw[k].freq)
        /\ DOMAIN raw[k] = {"chan", "freq", "max_width", "ht40plus", "ht40minus"}
  BY DEF RawTable
<1>3. DOMAIN t = DOMAIN raw /\ \A k \in DOMAIN raw : t[k] = CheckCapab(raw, k, BandWidth(bands, k))
  BY DEF Table
<1> HIDE DEF raw, t
<1>4. ASSUME NEW k \in DOMAIN raw
      PROVE  /\ t[k].freq = raw[k].freq /\ t[k].chan = raw[k].chan
             /\ t[k].ht40plus \in BOOLEAN /\ t[k].ht40minus \in BOOLEAN
             /\ \/ t[k].max_width = W20
                \/ t[k].max_width >= W40 /\ (t[k].ht40minus \/ t[k].ht40plus)
  <2>1. t[k] = CheckCapab(raw, k, BandWidth(bands, k))
    BY <1>3
  <2>2. t[k].chan = raw[k].chan
    BY <1>2, <2>1 DEF CheckCapab
  <2> QED
    BY <1>1, <1>2, <2>1, <2>2, CapabTells
<1> QED
  BY <1>1, <1>2, <1>3, <1>4 DEF raw, t

\* What the table offers verifies: every width up to a channel's widest, and HT40 on each
\* side it has a flag for, makes a channel that uwifi_channel_verify accepts, whatever
\* list a driver answers on the usual channels (chan_check_capab, channel.c:364).
THEOREM OfferedVerifies ==
  ASSUME NEW bands \in Seq([freqs : Seq(Grid), width : Width]), Len(bands) > 0,
         \A i, j \in DOMAIN RawTable(bands) :
            RawTable(bands)[i].freq = RawTable(bands)[j].freq => i = j,
         NEW i \in DOMAIN Table(bands), NEW plus \in BOOLEAN,
         NEW w \in W40 .. Table(bands)[i].max_width,
         w = W40 => IF plus THEN Table(bands)[i].ht40plus ELSE Table(bands)[i].ht40minus
  PROVE  Verify(FixCenterFreq([freq |-> Table(bands)[i].freq, width |-> w, center_freq |-> 0],
                              plus), Table(bands))
<1> DEFINE raw == RawTable(bands)
           t == Table(bands)
           f == t[i].freq
           spec == FixCenterFreq([freq |-> f, width |-> w, center_freq |-> 0], plus)
<1>1. /\ \A k \in DOMAIN raw : /\ DOMAIN raw[k] = {"chan", "freq", "max_width", "ht40plus", "ht40minus"}
                               /\ raw[k].chan = Freq2Chan(raw[k].freq)
  BY DEF RawTable
<1>2. DOMAIN t = DOMAIN raw /\ \A k \in DOMAIN raw : t[k] = CheckCapab(raw, k, BandWidth(bands, k))
  BY DEF Table
<1>3. \A k \in DOMAIN raw : k # -1 /\ raw[k].freq \in Grid /\ BandWidth(bands, k) \in Width
  BY OfBands
<1> HIDE DEF raw, t
<1>4. ASSUME NEW k \in DOMAIN raw
      PROVE  /\ t[k].freq = raw[k].freq
             /\ t[k].max_width \in Width
             /\ t[k].ht40minus => IdxFromChan(raw, raw[k].chan - 4) # -1
             /\ t[k].ht40plus => IdxFromChan(raw, raw[k].chan + 4) # -1
             /\ \A v \in W80 .. t[k].max_width : VhtFits(raw, k, v)
  BY <1>1, <1>2, <1>3, CapabTells
<1>5. i \in DOMAIN raw /\ f = raw[i].freq /\ f \in Grid
      /\ w \in W40 .. t[i].max_width /\ t[i].max_width \in Width
  BY <1>2, <1>3, <1>4 DEF t
<1>6. \A g : IdxFromFreq(t, g) = IdxFromFreq(raw, g)
  BY <1>2, <1>4 DEF IdxFromFreq
<1>7. /\ \A k \in DOMAIN raw : k # -1 /\ raw[k].freq \in Grid
      /\ \A k \in DOMAIN raw : IdxFromFreq(t, raw[k].freq) = k
  <2>1. \A k, j \in DOMAIN raw : raw[k].freq = raw[j].freq => k = j
    BY DEF raw
  <2>2. \A k \in DOMAIN raw : IdxFromFreq(raw, raw[k].freq) = k
    BY <2>1, FoundFreq
  <2> QED
    BY <1>3, <1>6, <2>2
<1>8. spec.freq = f /\ spec.width = w
  BY DEF FixCenterFreq
<1>9. VerifyCh(spec, t)
  <2>1. CASE w = W40
    <3>1. f \in Int
      BY <1>5, GridInt
    <3>2. spec.center_freq = f + (IF plus THEN 10 ELSE -10)
      BY <1>8, <2>1, <3>1 DEF FixCenterFreq, W40, W80, W160
    <3>3. PICK k \in DOMAIN raw : raw[k].chan = (IF plus THEN raw[i].chan + 4 ELSE raw[i].chan - 4)
      BY <1>4, <1>5, <2>1 DEF t, raw, IdxFromChan, Lowest
    <3>4. raw[k].freq = (IF plus THEN f + 20 ELSE f - 20)
      BY <1>1, <1>5, <1>7, <3>3, FourIsTwenty
    <3>5. /\ spec.center_freq - spec.freq \in {10, -10}
          /\ spec.center_freq + (spec.center_freq - spec.freq) = raw[k].freq
      BY <1>8, <3>1, <3>2, <3>4
    <3>6. IdxFromFreq(t, raw[k].freq) # -1
      BY <1>7
    <3> QED
      BY <1>8, <2>1, <3>5, <3>6 DEF VerifyCh, W40, W80, W160
  <2>2. CASE w \in W80 .. t[i].max_width
    <3>1. VhtFits(raw, i, w)
      BY <1>4, <1>5, <2>2
    <3>2. w # W40
      BY <1>5, <2>2 DEF W40, W80, Width, WUNSPEC, W8080
    <3>3. spec = FixCenterFreq([freq |-> f, width |-> w, center_freq |-> 0], FALSE)
      BY <3>2 DEF FixCenterFreq
    <3>4. VerifyCh(spec, raw)
      BY <1>5, <3>1, <3>3 DEF VhtFits
    <3> QED
      BY <1>6, <3>4 DEF VerifyCh
  <2> QED
    BY <2>1, <2>2, <1>5 DEF W40, W80, Width, WUNSPEC, W8080
<1> QED
  BY <1>5, <1>7, <1>8, <1>9 DEF Verify, t

\* A channel is found at the same index by its number (as a beacon or the limits of the scan
\* tell it, uwifi_channel_idx_from_chan) and by its frequency (as the driver tells it,
\* uwifi_channel_idx_from_freq), in the table of any answer on the usual channels.
THEOREM SameIndex ==
  ASSUME NEW bands \in Seq([freqs : Seq(Grid), width : Width]), Len(bands) > 0,
         NEW f \in Grid
  PROVE  IdxFromChan(Table(bands), Freq2Chan(f)) = IdxFromFreq(Table(bands), f)
<1> DEFINE t == Table(bands)
<1>1. \A k \in DOMAIN t : t[k].freq \in Grid /\ t[k].chan = Freq2Chan(t[k].freq)
  BY TableTells
<1> HIDE DEF t
<1>2. \A g \in Grid : Freq2Chan(g) = Freq2Chan(f) <=> g = f
  <2> SUFFICES ASSUME NEW g \in Grid, Freq2Chan(g) = Freq2Chan(f) PROVE g = f
    OBVIOUS
  <2>1. Chan2Freq(Freq2Chan(g)) = g /\ Chan2Freq(Freq2Chan(f)) = f
    BY NumberTellsFreq
  <2> QED
    BY <2>1
<1>3. {i \in DOMAIN t : t[i].chan = Freq2Chan(f)} = {i \in DOMAIN t : t[i].freq = f}
  BY <1>1, <1>2
<1> QED
  BY <1>3 DEF IdxFromChan, IdxFromFreq, t

\* The channel get_next comes to does not depend on what the caller's variable held before.
LEMMA CenterForgotten ==
  ASSUME NEW t, NEW f, NEW w, NEW plus, NEW c,
         Verify(FixCenterFreq([freq |-> f, width |-> w, center_freq |-> 0], plus), t)
  PROVE  Verify(FixCenterFreq([freq |-> f, width |-> w, center_freq |-> c], plus), t)
<1> DEFINE a == FixCenterFreq([freq |-> f, width |-> w, center_freq |-> 0], plus)
           b == FixCenterFreq([freq |-> f, width |-> w, center_freq |-> c], plus)
<1>1. a.freq = f /\ a.width = w /\ b.freq = f /\ b.width = w
  BY DEF FixCenterFreq
<1>2. CASE w \in {W40, W80, W160}
  <2>1. a = b
    BY <1>2 DEF FixCenterFreq
  <2> QED
    BY <2>1
<1>3. CASE w \notin {W40, W80, W160}
  <2> HIDE DEF b
  <2>1. VerifyCh(b, t)
    BY <1>1, <1>3 DEF VerifyCh
  <2> HIDE DEF a
  <2> QED
    BY <1>1, <2>1 DEF Verify, a, b
<1> QED
  BY <1>2, <1>3

\* "should always be OK" (channel.c:304) holds on the usual channels: with the table of any
\* such answer and usable limits, the channel uwifi_channel_get_next comes to verifies.
\* Finding 2 is the case of channel 14, which is not one of them.
THEOREM NextAlwaysOk ==
  ASSUME NEW CONSTANT bands \in Seq([freqs : Seq(Grid), width : Width]), Len(bands) > 0,
         Chans = Table(bands)
  PROVE  Spec => [](LimitsUsable => NextOk)
<1>1. ASSUME IInv, LimitsUsable, pc = "trying" PROVE Verify(NextSpec, Chans)
  <2> DEFINE i == NextIdx
             w == Chans[i].max_width
             plus == SecondVisit \/ ~Chans[i].ht40minus
  <2>0. \A k, j \in DOMAIN Chans : Chans[k].freq = Chans[j].freq => k = j
    BY ScanAssumption
  <2>1. i \in DOMAIN Chans
    BY <1>1, NextTyped DEF IInv, TryingKnown
  <2>2. i # -1
    BY <2>1, ScanAssumption
  <2>3. NextSpec = FixCenterFreq([freq |-> Chans[i].freq, width |-> w,
                                  center_freq |-> new_chan.center_freq], plus)
    BY <2>2 DEF NextSpec, SpecAt
  <2>4. SecondVisit => Chans[i].ht40plus
    BY DEF NextIdx, SecondVisit
  <2> HIDE DEF i
  <2>5. /\ Chans[i].ht40plus \in BOOLEAN /\ Chans[i].ht40minus \in BOOLEAN
        /\ w = W20 \/ (w >= W40 /\ (Chans[i].ht40minus \/ Chans[i].ht40plus))
    BY <2>1, TableTells
  <2>6. w \in Width
    BY <2>1, Entry
  <2> HIDE DEF w
  <2>7. Verify(FixCenterFreq([freq |-> Chans[i].freq, width |-> w, center_freq |-> 0], plus), Chans)
    <3>1. CASE w = W20
      <4> DEFINE a == FixCenterFreq([freq |-> Chans[i].freq, width |-> w, center_freq |-> 0], plus)
      <4>1. a.freq = Chans[i].freq /\ a.width = w
        BY DEF FixCenterFreq
      <4> HIDE DEF a
      <4>2. VerifyCh(a, Chans)
        BY <3>1, <4>1 DEF VerifyCh, W20, W40, W80, W160
      <4>3. IdxFromFreq(Chans, Chans[i].freq) = i
        <5>1. \A k, j \in DOMAIN Chans : Chans[k].freq = Chans[j].freq => k = j
          BY <2>0
        <5> QED
          BY <2>1, <5>1, FoundFreq
      <4>4. a.width <= Chans[i].max_width
        BY <2>6, <4>1 DEF w, Width, WUNSPEC, W8080
      <4> QED
        BY <2>2, <4>1, <4>2, <4>3, <4>4 DEF Verify, a
    <3>2. CASE w # W20
      <4>1. w \in W40 .. w
        BY <2>5, <2>6, <3>2 DEF Width, WUNSPEC, W8080, W40
      <4>2. IF plus THEN Chans[i].ht40plus ELSE Chans[i].ht40minus
        BY <2>4, <2>5, <3>2
      <4>3. \A k, j \in DOMAIN RawTable(bands) :
              RawTable(bands)[k].freq = RawTable(bands)[j].freq => k = j
        <5>1. \A k, j \in DOMAIN Chans : Chans[k].freq = Chans[j].freq => k = j
          BY <2>0
        <5>2. /\ DOMAIN Chans = DOMAIN RawTable(bands)
              /\ \A k \in DOMAIN Chans : Chans[k].freq = RawTable(bands)[k].freq
          BY TableTells
        <5> QED
          BY <5>1, <5>2
      <4>4. plus \in BOOLEAN
        OBVIOUS
      <4> HIDE DEF plus
      <4> QED
        BY <2>1, <4>1, <4>2, <4>3, <4>4, OfferedVerifies DEF w
    <3> QED
      BY <3>1, <3>2
  <2> HIDE DEF plus
  <2> QED
    BY <2>3, <2>7, CenterForgotten
<1>2. IInv => (LimitsUsable => NextOk)
  BY <1>1 DEF NextOk
<1> QED
  BY <1>2, Invariance, PTL
=============================================================================
