--------------------------- MODULE MCChannelScan ----------------------------
(***************************************************************************)
(* Small devices for ChannelScan: real frequencies, few of them.  The      *)
(* tables are written out; that they are what uwifi_channel_init computes  *)
(* from the driver's answer is assumed, and so checked, below.             *)
(***************************************************************************)
EXTENDS ChannelScan, TLC

Row(c, f, w, plus, minus) ==
  [chan |-> c, freq |-> f, max_width |-> w, ht40plus |-> plus, ht40minus |-> minus]

\* HT40+, both, and HT40- at 2.4 GHz; one VHT80 block at 5 GHz.
TwoBands == <<[freqs |-> <<2412, 2432, 2452>>, width |-> W40],
              [freqs |-> <<5180, 5200, 5220, 5240>>, width |-> W80]>>
TwoBandsTable == 0 :> Row(1,  2412, W40, TRUE,  FALSE) @@ 1 :> Row(5,  2432, W40, TRUE, TRUE)
              @@ 2 :> Row(9,  2452, W40, FALSE, TRUE)  @@ 3 :> Row(36, 5180, W80, TRUE, FALSE)
              @@ 4 :> Row(40, 5200, W80, TRUE,  TRUE)  @@ 5 :> Row(44, 5220, W80, TRUE, TRUE)
              @@ 6 :> Row(48, 5240, W80, FALSE, TRUE)

\* Japan: channels 6, 10 and 14.
Japan == <<[freqs |-> <<2437, 2457, 2484>>, width |-> W40]>>
JapanTable == 0 :> Row(6,  2437, W40, TRUE,  FALSE) @@ 1 :> Row(10, 2457, W40, TRUE, TRUE)
           @@ 2 :> Row(14, 2484, W20, FALSE, FALSE)

ASSUME TablesAssumption ==
  TwoBandsTable = Table(TwoBands) /\ JapanTable = Table(Japan)

\* None, the first channel only, a range over both bands, and a minimum that is
\* not in the table.
NoLimits == {<<0, 0>>}
SomeLimits == {<<0, 0>>, <<0, 1>>, <<5, 40>>, <<2, 0>>}

On(f) == [freq |-> f, width |-> W20, center_freq |-> 0]
FortyMinus == [freq |-> 2452, width |-> W40, center_freq |-> 2442]
\* First and last channel, one as HT40-, and one that is not in the table.
Tunings == {On(2412), On(5240), FortyMinus, On(2484)}
TuneSix == {On(2437)}

-----------------------------------------------------------------------------
\* The channel whose visits are asked for, chosen once and for all.
VARIABLE goal
MCInit == Init /\ goal \in Visits
MCNext == Next /\ UNCHANGED goal
MCSpec == MCInit /\ [][MCNext]_<<vars, goal>> /\ Fairness

\* A scan that is left alone, with a driver that refuses only now and then,
\* comes to every channel of its range again and again, and on channels that
\* can do both to HT40- as well as HT40+.
VisitsAll == <>[]Scanning(goal[1]) => []<>Tuned(goal[1], goal[2])
=============================================================================
