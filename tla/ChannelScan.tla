---------------------------- MODULE ChannelScan -----------------------------
(***************************************************************************)
(* Channel control (core/channel.c): an interface is initialised, tuned by *)
(* the application, and scanned by uwifi_channel_auto_change, which the    *)
(* application calls when the dwell time is over.  Every tuning is one     *)
(* request to the driver, which may refuse it.  The retry loop of          *)
(* auto_change is taken one request at a time.                             *)
(*                                                                         *)
(* radio is the driver's side; quiet and asked are history, read by no     *)
(* guard.  The rate limit of the channel (max_phy_rate) is left out.       *)
(***************************************************************************)
EXTENDS Channels

CONSTANTS NumChannels,  \* channels.num_channels
          Chans,        \* channels.chan, indexes 0 .. NumChannels - 1
          ChannelTime,  \* channel_time, the dwell time, an int
          UINT32_MAX,   \* what is left of it while the scan is off
          Limits,       \* what the application may set channel_min and channel_max to
          AppSpecs,     \* the channels it may ask for itself
          Broken,       \* frequencies the driver lists but never accepts
          MaxEdits,     \* bound on the application's changes
          MaxRefusals   \* bound on requests the driver refuses for once

Spec3 == [freq : Nat, width : Width, center_freq : Nat]

\* Drivers list channels in ascending order; get_next, which compares channel
\* numbers while it counts indexes up, relies on it.
ASSUME ScanAssumption ==
  /\ NumChannels \in Nat \ {0}
  /\ Chans \in [0 .. NumChannels - 1 -> [chan : Nat \ {0}, freq : Nat, max_width : Width,
                                        ht40plus : BOOLEAN, ht40minus : BOOLEAN]]
  /\ \A i, j \in DOMAIN Chans : i < j => Chans[i].chan < Chans[j].chan
                                     /\ Chans[i].freq # Chans[j].freq
  /\ \A i \in DOMAIN Chans : Chans[i].freq > 10
  /\ ChannelTime \in Nat /\ UINT32_MAX \in Nat /\ ChannelTime < UINT32_MAX
  /\ MaxEdits \in Nat /\ MaxRefusals \in Nat
  /\ Limits \subseteq Nat \X Nat
  /\ AppSpecs \subseteq Spec3

VARIABLES
  channel_idx, channel, channel_min, channel_max, channel_scan,
  since,      \* now - last_channelchange, up to the dwell time
  pc,         \* "new": not initialised; "idle"; "trying": in auto_change
  tries, new_chan, ret,   \* its local variables and its last result
  radio,      \* what the driver is tuned to
  edits, refusals,        \* counters for the bounds
  quiet,      \* history: time since auto_change last asked the driver
  asked       \* history: frequencies this auto_change has asked for

config == <<channel_min, channel_max, channel_scan>>
tuned == <<channel_idx, channel, radio>>
loop == <<pc, tries, new_chan, ret>>
clock == <<since, quiet>>
vars == <<channel_idx, channel, channel_min, channel_max, channel_scan, since, pc,
          tries, new_chan, ret, radio, edits, refusals, quiet, asked>>

Unknown == [freq |-> 0, width |-> WUNSPEC, center_freq |-> 0]

\* What the table's own entries lead to, as get_next and init build it.
SpecAt(i, ht40plus, center) ==
  FixCenterFreq([freq |-> Chans[i].freq, width |-> Chans[i].max_width,
                 center_freq |-> center], ht40plus)

-----------------------------------------------------------------------------
\* uwifi_channel_get_next.  A channel below channel_min is left for it; when
\* channel_min is not in the table it is set to 0 instead (MinAfter).
Below == channel_min # 0 /\ GetChan(Chans, channel_idx) < channel_min
MinIdx == IdxFromChan(Chans, channel_min)
MinAfter == IF Below /\ MinIdx = -1 THEN 0 ELSE channel_min
StartIdx == IF Below /\ MinIdx # -1 THEN MinIdx ELSE channel_idx

\* An HT40 channel is visited twice, as HT40- and then as HT40+.
SecondVisitNever == FALSE       \* faulty: one visit of each channel
SecondVisit == /\ channel.width = W40 /\ ~Below /\ ~IsHt40plus(channel)
               /\ Chans[StartIdx].ht40plus

PastEndByIndex(i) == i >= NumChannels \/ (channel_max # 0 /\ i > channel_max) \* faulty
PastEnd(i) == i >= NumChannels \/ (channel_max # 0 /\ GetChan(Chans, i) > channel_max)

Following ==
  CASE ~PastEnd(StartIdx + 1) -> StartIdx + 1
    [] PastEnd(StartIdx + 1) /\ MinAfter # 0 -> IdxFromChan(Chans, MinAfter)
    [] OTHER -> 0

NextIdx == IF SecondVisit THEN StartIdx ELSE Following

\* With a channel_min that is not in the table the code wraps to index -1 and
\* reads what lies before the table: no channel the driver would accept.
NextSpec ==
  IF NextIdx = -1 THEN Unknown
  ELSE SpecAt(NextIdx, SecondVisit \/ ~Chans[NextIdx].ht40minus, new_chan.center_freq)

-----------------------------------------------------------------------------
\* ifctrl_iwset_freq: the driver refuses what it does not support at all, and
\* what it cannot do right now.
CanDo(spec) == /\ IdxFromFreq(Chans, spec.freq) # -1 /\ spec.freq \notin Broken
               /\ VerifyCh(spec, Chans)

\* The check of uwifi_channel_change before the driver is asked.
LacksCenter(spec) == spec.center_freq = 0 /\ spec.width \notin {W20NOHT, W20}

\* uwifi_channel_change, with both results.
ChangeDone(spec) ==
  /\ ~LacksCenter(spec) /\ CanDo(spec)
  /\ radio' = spec
  /\ channel' = spec
  /\ channel_idx' = IdxFromFreq(Chans, spec.freq)
  /\ since' = 0
  /\ UNCHANGED refusals
Refused(spec) ==
  \/ (LacksCenter(spec) \/ ~CanDo(spec)) /\ UNCHANGED refusals
  \/ /\ ~LacksCenter(spec) /\ CanDo(spec)
     /\ refusals < MaxRefusals /\ refusals' = refusals + 1
ChangeFailedStored(spec) ==       \* faulty: stored before the driver's answer
  /\ Refused(spec)
  /\ channel' = spec
  /\ UNCHANGED <<channel_idx, radio>>
ChangeFailed(spec) == Refused(spec) /\ UNCHANGED tuned

-----------------------------------------------------------------------------
TypeOK ==
  /\ channel_idx \in DOMAIN Chans \cup {-1}
  /\ channel \in Spec3 /\ radio \in Spec3 /\ new_chan \in Spec3
  /\ channel_min \in Nat /\ channel_max \in Nat /\ channel_scan \in BOOLEAN
  /\ since \in 0 .. ChannelTime /\ quiet \in 0 .. ChannelTime
  /\ pc \in {"new", "idle", "trying"} /\ ret \in {-1, 0, 1}
  /\ tries \in -1 .. 2 * NumChannels
  /\ edits \in 0 .. MaxEdits /\ refusals \in 0 .. MaxRefusals
  /\ asked \subseteq Nat

\* uwifi_init and ifctrl_iwget_interface_info have run: the interface knows
\* the channel the radio is on, one of the table, or, on a secondary interface,
\* none.
Init ==
  /\ radio \in {s \in AppSpecs : IdxFromFreq(Chans, s.freq) # -1}
  /\ channel \in {radio, Unknown}
  /\ channel_idx = -1
  /\ \E l \in Limits : channel_min = l[1] /\ channel_max = l[2]
  /\ channel_scan \in BOOLEAN
  /\ since = 0 /\ quiet = ChannelTime
  /\ pc = "new" /\ tries = 0 /\ new_chan = Unknown /\ ret = 0
  /\ edits = 0 /\ refusals = 0
  /\ asked = {}

\* uwifi_channel_init with a configured channel; when that fails the
\* application may try again.
InitConfigured(spec) ==
  /\ pc = "new"
  /\ \/ ChangeDone(spec) /\ pc' = "idle"
     \/ /\ ChangeFailed(spec) /\ since' = 0
        /\ pc' = "new"
  /\ UNCHANGED <<config, tries, new_chan, ret, edits, quiet, asked>>

\* ... on a secondary interface: the channel stays unknown.
InitUnknown ==
  /\ pc = "new" /\ channel.freq = 0
  /\ pc' = "idle" /\ since' = 0
  /\ UNCHANGED <<tuned, config, tries, new_chan, ret, edits, refusals, quiet, asked>>

\* ... on the channel the radio is on, widened as far as it goes.  It is kept
\* as it is when the driver refuses.
Widest(i) == SpecAt(i, Chans[i].max_width = W40 /\ ~Chans[i].ht40minus, channel.center_freq)
InitCurrent ==
  /\ pc = "new" /\ channel.freq # 0
  /\ LET i == IdxFromFreq(Chans, channel.freq)
         narrow == channel.width # Chans[i].max_width
     IN \/ narrow /\ ChangeDone(Widest(i))
        \/ /\ IF narrow THEN Refused(Widest(i)) ELSE UNCHANGED refusals
           /\ channel_idx' = i /\ since' = 0
           /\ UNCHANGED <<channel, radio>>
  /\ pc' = "idle"
  /\ UNCHANGED <<config, tries, new_chan, ret, edits, quiet, asked>>

\* The application tunes, changes the limits of the scan, or turns it on or off.
AppChange(spec) ==
  /\ pc = "idle" /\ edits < MaxEdits
  /\ ChangeDone(spec) \/ (ChangeFailed(spec) /\ UNCHANGED since)
  /\ edits' = edits + 1
  /\ UNCHANGED <<config, loop, quiet, asked>>

AppLimits(min, max) ==
  /\ pc = "idle" /\ edits < MaxEdits
  /\ channel_min' = min /\ channel_max' = max
  /\ edits' = edits + 1
  /\ UNCHANGED <<tuned, channel_scan, clock, loop, refusals, asked>>

AppScan ==
  /\ pc = "idle" /\ edits < MaxEdits
  /\ channel_scan' = ~channel_scan
  /\ edits' = edits + 1
  /\ UNCHANGED <<tuned, channel_min, channel_max, clock, loop, refusals, asked>>

\* uwifi_fixup_packet_channel: while the channel is unknown, a packet that
\* tells its frequency gives a guess.
FixupPacketChannel(i) ==
  /\ pc = "idle" /\ channel_idx = -1
  /\ channel_idx' = i
  /\ UNCHANGED <<channel, radio, config, clock, loop, edits, refusals, asked>>

Later(t) == IF t < ChannelTime THEN t + 1 ELSE t
Tick ==
  /\ pc = "idle"
  /\ since' = Later(since) /\ quiet' = Later(quiet)
  /\ UNCHANGED <<tuned, config, loop, edits, refusals, asked>>

\* uwifi_channel_auto_change.  A call that comes too early, or while the scan
\* is off or the channel unknown, changes nothing.
RemainingDwellTime ==
  IF channel_scan THEN ChannelTime - since ELSE UINT32_MAX

MaxTries ==
  LET last == IdxFromChan(Chans, channel_max)
  IN IF channel_max # 0 /\ last >= 0 THEN 2 * last ELSE 2 * NumChannels

AutoChange ==
  /\ pc = "idle" /\ channel_scan /\ channel_idx # -1 /\ RemainingDwellTime = 0
  /\ pc' = "trying" /\ tries' = MaxTries /\ new_chan' = Unknown
  /\ asked' = {}
  /\ UNCHANGED <<tuned, config, clock, ret, edits, refusals>>

\* One round of its loop: get_next and one request.
Round(spec) ==
  /\ channel_min' = MinAfter
  /\ new_chan' = spec /\ tries' = tries - 1
  /\ asked' = asked \cup {spec.freq}
  /\ UNCHANGED <<channel_max, channel_scan, edits>>

TrySet(spec) ==
  /\ ChangeDone(spec)
  /\ Round(spec)
  /\ pc' = "idle" /\ ret' = 1 /\ quiet' = 0

TryFailedBusy(spec) ==    \* faulty: the time is not set when every try failed
  /\ ChangeFailed(spec)
  /\ Round(spec)
  /\ IF tries > 1 THEN UNCHANGED <<pc, ret, clock>>
     ELSE pc' = "idle" /\ ret' = -1 /\ quiet' = 0 /\ UNCHANGED since
TryFailed(spec) ==
  /\ ChangeFailed(spec)
  /\ Round(spec)
  /\ IF tries > 1 THEN UNCHANGED <<pc, ret, clock>>
     ELSE pc' = "idle" /\ ret' = -1 /\ since' = 0 /\ quiet' = 0

Try == /\ pc = "trying"
       /\ \E spec \in {NextSpec} : TrySet(spec) \/ TryFailed(spec)

Next ==
  \/ InitUnknown \/ InitCurrent
  \/ \E s \in AppSpecs : InitConfigured(s) \/ AppChange(s)
  \/ \E l \in Limits : AppLimits(l[1], l[2])
  \/ AppScan
  \/ \E i \in DOMAIN Chans : FixupPacketChannel(i)
  \/ Tick \/ AutoChange \/ Try

\* The application calls auto_change from its main loop, time passes, and a
\* call goes on to its end.
Fairness ==
  /\ WF_vars(Tick)
  /\ WF_vars(AutoChange)
  /\ WF_vars(Try)

Spec == Init /\ [][Next]_vars /\ Fairness

-----------------------------------------------------------------------------
InRange(i) == /\ channel_min = 0 \/ Chans[i].chan >= channel_min
              /\ channel_max = 0 \/ Chans[i].chan <= channel_max

\* Limits that make sense: in the table, and in order.
LimitsUsable == /\ channel_min = 0 \/ IdxFromChan(Chans, channel_min) # -1
                /\ channel_max = 0 \/ IdxFromChan(Chans, channel_max) # -1
                /\ channel_min = 0 \/ channel_max = 0 \/ channel_min <= channel_max

\* What the interface says of its channel is what the radio is on, whichever
\* of the requests the driver refused; an index guessed from a packet stands
\* only as long as nothing is known.
InStep == pc # "new" /\ channel.freq # 0 =>
            channel = radio /\ channel_idx = IdxFromFreq(Chans, channel.freq)

\* A hop of the scan ends in the range the limits give, from wherever the
\* application or a change of the limits left the radio; only the second visit
\* of an HT40 channel stays where it is.
HopInRangeStep ==
  pc = "trying" /\ channel' # channel /\ LimitsUsable =>
    InRange(channel_idx') \/ channel_idx' = channel_idx
HopInRange == [][HopInRangeStep]_vars

\* auto_change never asks the driver again before the dwell time has passed
\* since it last did, also when every channel failed: no busy loop.
AttemptsSpacedStep == pc = "idle" /\ pc' = "trying" => quiet = ChannelTime
AttemptsSpaced == [][AttemptsSpacedStep]_vars

\* The inductive invariant: what InStep, HopInRange and AttemptsSpaced rest on.
KnownListed == channel.freq # 0 => channel = radio /\ IdxFromFreq(Chans, channel.freq) # -1
TryingKnown == pc = "trying" => channel_idx # -1 /\ tries >= 0
QuietLonger == since <= quiet
IInv == TypeOK /\ InStep /\ KnownListed /\ TryingKnown /\ QuietLonger

\* For liveness: a scan that is on, and what a visit is.  A channel that can do
\* HT40- and HT40+ is to be visited in both ways.
Scanning(i) == channel_scan /\ channel_idx # -1 /\ LimitsUsable /\ InRange(i)
Tuned(i, plus) == /\ channel_idx = i /\ channel.freq = Chans[i].freq
                  /\ channel.width = Chans[i].max_width
                  /\ channel.width = W40 => IsHt40plus(channel) = plus
Visits == {v \in (DOMAIN Chans) \X BOOLEAN :
             IF v[2] THEN Chans[v[1]].ht40plus ELSE Chans[v[1]].ht40minus}

\* The comment in auto_change: "try setting different channels in case we get
\* errors only on some channels ... stop if we tried all channels".  It is not
\* so: a failure leaves channel_idx where it was, and every round computes the
\* same next channel.
GivesUpAfterAllStep ==
  pc = "trying" /\ pc' = "idle" /\ ret' = -1 =>
    \A i \in DOMAIN Chans : InRange(i) => Chans[i].freq \in asked'
GivesUpAfterAll == [][GivesUpAfterAllStep]_vars

\* The comment in get_next: "should always be OK".  It is not so next to
\* channel 14, which is four channel numbers but not 20 MHz above channel 10.
NextOk == pc = "trying" => Verify(NextSpec, Chans)
=============================================================================
