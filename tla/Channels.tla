------------------------------ MODULE Channels ------------------------------
(***************************************************************************)
(* Channel tables (core/channel.c): which channels, widths and centre      *)
(* frequencies a device is taken to support.  A table maps the indexes     *)
(* 0 .. n-1 to [chan, freq, max_width, ht40plus, ht40minus]; a channel     *)
(* specification is [freq, width, center_freq].  No state.                 *)
(***************************************************************************)
EXTENDS Integers, Sequences

\* enum uwifi_chan_width; the code compares its members as numbers.
WUNSPEC == 0
W20NOHT == 1
W20     == 2
W40     == 3
W80     == 4
W160    == 5
W8080   == 6
Width   == WUNSPEC .. W8080

MaxBands == 2
MaxChannels == 64

Freq2Chan(f) ==
  CASE f = 2484 -> 14
    [] f < 2484 -> (f - 2407) \div 5
    [] f >= 4910 /\ f <= 4980 -> (f - 4000) \div 5
    [] f > 2484 /\ f <= 45000 /\ ~(f >= 4910 /\ f <= 4980) -> (f - 5000) \div 5
    [] f >= 58320 /\ f <= 64800 -> (f - 56160) \div 2160
    [] OTHER -> 0

Chan2Freq(c) ==
  CASE c = 14 -> 2484
    [] c < 14 -> 2407 + 5 * c
    [] OTHER -> 5000 + 5 * c

\* Index of the first of some entries, -1 if there are none.
Lowest(hits) == IF hits = {} THEN -1 ELSE CHOOSE i \in hits : \A j \in hits : i <= j

IdxFromChan(t, c) == Lowest({i \in DOMAIN t : t[i].chan = c})
IdxFromFreq(t, f) == Lowest({i \in DOMAIN t : t[i].freq = f})
GetChan(t, i) == IF i \in DOMAIN t THEN t[i].chan ELSE -1

IsHt40plus(spec) == spec.width = W40 /\ spec.center_freq > spec.freq

\* Centre of the VHT block a frequency is in, 0 if there is none.  The second
\* block of 160 MHz repeats the range of the first, so it is never chosen.
GetCenterFreqVht(f, w) ==
  CASE w = W80 /\ 5180 <= f /\ f <= 5240 -> 5210
    [] w = W80 /\ 5260 <= f /\ f <= 5320 -> 5290
    [] w = W80 /\ 5500 <= f /\ f <= 5560 -> 5530
    [] w = W80 /\ 5580 <= f /\ f <= 5640 -> 5610
    [] w = W80 /\ 5660 <= f /\ f <= 5720 -> 5690
    [] w = W80 /\ 5745 <= f /\ f <= 5805 -> 5775
    [] w = W160 /\ 5180 <= f /\ f <= 5320 -> 5250
    [] OTHER -> 0

\* Other widths leave the centre frequency as it was.
FixCenterFreq(spec, ht40plus) ==
  [spec EXCEPT !.center_freq =
     CASE spec.width = W40 -> spec.freq + (IF ht40plus THEN 10 ELSE -10)
       [] spec.width \in {W80, W160} -> GetCenterFreqVht(spec.freq, spec.width)
       [] OTHER -> spec.center_freq]

\* uwifi_channel_verify_ch.  The offsets stop before the topmost channel of a
\* block (i < max).
VerifyCh(spec, t) ==
  LET d == spec.center_freq - spec.freq
      Offsets == IF spec.width = W80 THEN {-30, -10, 10}
                 ELSE {-70, -50, -30, -10, 10, 30, 50}
  IN CASE spec.width = W40 -> d \in {10, -10} /\ IdxFromFreq(t, spec.center_freq + d) # -1
       [] spec.width \in {W80, W160} ->
            \A o \in Offsets : IdxFromFreq(t, spec.center_freq + o) # -1
       [] OTHER -> TRUE

Verify(spec, t) ==
  LET i == IdxFromFreq(t, spec.freq)
  IN i # -1 /\ spec.width <= t[i].max_width /\ VerifyCh(spec, t)

\* chan_check_capab: HT40 needs a neighbour four channel numbers away, VHT
\* widths are tried upwards until one does not verify.
Ht40minus(t, i) == IdxFromChan(t, t[i].chan - 4) # -1
Ht40plus(t, i) == IdxFromChan(t, t[i].chan + 4) # -1
VhtFits(t, i, w) ==
  VerifyCh(FixCenterFreq([freq |-> t[i].freq, width |-> w, center_freq |-> 0], FALSE), t)
VhtUpTo(t, i, most) == {w \in W80 .. most : \A v \in W80 .. w : VhtFits(t, i, v)}

CheckCapab(t, i, most) ==
  LET ht40  == most >= W40 /\ t[i].freq # 2484
      minus == ht40 /\ Ht40minus(t, i)
      plus  == ht40 /\ Ht40plus(t, i)
      wider == IF minus \/ plus THEN VhtUpTo(t, i, most) ELSE {}
  IN [t[i] EXCEPT !.ht40minus = minus, !.ht40plus = plus,
                  !.max_width = CASE ~minus /\ ~plus -> W20
                                  [] (minus \/ plus) /\ wider = {} -> W40
                                  [] OTHER -> CHOOSE w \in wider : \A v \in wider : v <= w]

\* The driver's answer: a sequence of bands [freqs, width], of which the first
\* two are used.  bands[1] also serves every index below its number of channels.
BandWidth(bands, i) == IF i < Len(bands[1].freqs) THEN bands[1].width ELSE bands[2].width

RawTable(bands) ==
  LET all == bands[1].freqs \o (IF Len(bands) > 1 THEN bands[2].freqs ELSE <<>>)
      n   == IF Len(all) > MaxChannels THEN MaxChannels ELSE Len(all)
  IN [i \in 0 .. n - 1 |-> [chan |-> Freq2Chan(all[i + 1]), freq |-> all[i + 1],
                            max_width |-> WUNSPEC, ht40plus |-> FALSE, ht40minus |-> FALSE]]

\* What uwifi_channel_init makes of a first answer.
Table(bands) ==
  LET raw == RawTable(bands)
  IN [i \in DOMAIN raw |-> CheckCapab(raw, i, BandWidth(bands, i))]
=============================================================================
