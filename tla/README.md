# A verification project for libuwifi

TLA+ models, TLC runs and TLAPS proofs for libuwifi, the userspace Wi-Fi
library: 802.11 header parsing, a registry of the stations and networks that
were heard, channel management and scanning, and the Linux control paths
(nl80211, wpa_supplicant, raw sockets).

The library is single threaded. It keeps no thread and no timer of its own: an
application calls it from its main loop, once per captured packet and on its own
timers. What makes it hard is not preemption but *call order* (any API call may
follow any other), *pointers that outlive objects* (nodes, ESSIDs and AP lists
link each other without reference counts), *32-bit microsecond clocks*, and the
*other side* of its sockets (a driver that refuses a channel, a supplicant that
answers late, a kernel that drops a message).

## 1. Inventory

| component | sources | state it keeps | operations |
|---|---|---|---|
| frame parser | core/wlan_parser.c | none (fills `uwifi_packet`) | `uwifi_parse_80211_header`, `uwifi_parse_information_elements`, `uwifi_get_80211_header_ta/fc` |
| node registry | core/node.c, include/uwifi/node.h | list of `uwifi_node`, per node: BSSID, mode, AP pointer, list of its stations | `uwifi_node_update`, `uwifi_node_update_receiver`, `uwifi_nodes_find_ap`, `uwifi_nodes_timeout`, `uwifi_nodes_free` |
| ESSID registry | core/essid.c | list of `essid_info`: name, member list, `num_nodes`, `split` | `uwifi_essids_update`, `uwifi_essids_remove_node`, `uwifi_essids_free` |
| node statistics | core/node.c (`copy_nodeinfo`), util/average.c | counters, retries, signal average, channel, standard | part of the node updates; `ewma_*` |
| channel tables | core/channel.c, core/wlan_util.c | `uwifi_channels`: channels, bands, capabilities | `uwifi_channel_list_add`, `_band_add`, `_verify`, `chan_check_capab`, `_fix_center_freq` |
| channel control | core/channel.c, linux/raw_parser.c (`uwifi_fixup_packet_channel`) | `uwifi_interface`: current channel, index, dwell clock, scan limits | `uwifi_channel_init`, `_change`, `_auto_change`, `_get_next` |
| intrusive lists | include/uwifi/cc_list.h, core/cc_list.c | links | add, delete, iterate, debug checks |
| netlink transport | linux/netl80211.c | two sockets, family id | `nl80211_init/finish`, `nl80211_send_recv`, `nl_get_multicast_id` |
| nl80211 control | linux/ifctrl-nl80211.c | dump cursors, event socket | `ifctrl_iw*` |
| wpa_supplicant client | linux/wpa_ctrl.c | datagram socket, its path under /tmp | `wpa_ctrl_open/close/request` |
| capture headers | linux/raw_parser.c | none | radiotap and prism headers, `uwifi_parse_raw` |
| interface life cycle | linux/interface.c, netdev.c, packet_sock.c | socket, promiscuous flag | `uwifi_init`, `uwifi_fini` |
| tables | core/wlan_util.c | none | rates, standards, channel/frequency maps |
| injection | core/inject.c, linux/inject_rtap.c | none | beacon / probe response / null data frames |
| other platforms | osx/, esp8266/, esp32/, linux/ifctrl-wext.c, core/ifctrl-dummy.c | | |

How they interact: the application receives a buffer, `uwifi_parse_raw` fills a
`uwifi_packet` (capture header, then 802.11 header, then information elements);
`uwifi_fixup_packet_channel` completes it from the interface; `uwifi_node_update`
and `uwifi_node_update_receiver` file it under its transmitter and receiver;
`uwifi_nodes_find_ap` and `uwifi_essids_update` link the node to its AP and its
network; `uwifi_nodes_timeout` evicts silent nodes from everything they are linked
in. Independently, `uwifi_channel_auto_change` moves the radio through
`ifctrl_iwset_freq`, which is one netlink request.


## 2. Modules

| module | models | kind |
|---|---|---|
| `Registry` | core/node.c and core/essid.c: both registries with explicit memory, one action per API call | component, 440 lines |
| `RegistrySweep` | the eviction loop of `uwifi_nodes_timeout` node by node, in any list order | algorithm, compared with `Registry!NodesTimeout` |
| `Directory` | what the registries promise with no pointer in sight | abstract specification |
| `WlanUtil` | core/wlan_util.c: rates, streams, widths, standards | pure operators, EXTENDS `Channels` |
| `WlanParser` | core/wlan_parser.c: addresses, role and elements of a frame | pure operators |
| `RawParser` | linux/raw_parser.c: prism and radiotap headers, `uwifi_parse_raw` | pure operators, EXTENDS `WlanParser` |
| `Inject` | core/inject.c, linux/inject_rtap.c: the frames the library builds | pure operators |
| `Capture` | the capture socket between a hopping radio and `uwifi_parse_raw`, `uwifi_fixup_packet_channel`; loopback of injected frames | component, EXTENDS `RawParser` and `Inject` |
| `MCCapture` | a table of two channels and a capture of every kind | instance |
| `NodeInfo` | `copy_nodeinfo`, `copy_rx_nodeinfo`, util/average.c: the fields of a node, with a history of its frames | component, EXTENDS `Registry` |
| `MCNodeInfo` | an access point that hops and a station that repeats frames | instance |
| `MCRegistry` | small registries, fed with what `WlanParser` makes of frames | instance |
| `NodeAging` | the 32-bit clock and the two comparisons of `uwifi_nodes_timeout` | component |
| `Channels` | channel tables, capabilities, checks of channel specifications | pure operators |
| `ChannelScan` | core/channel.c's control part, one request to the driver at a time | component, EXTENDS `Channels` |
| `MCChannelScan` | devices with real frequencies; the tables are compared with `Channels!Table` by an ASSUME | instance |
| `WpaCtrl` | linux/wpa_ctrl.c, several handles of a process, and a supplicant | component |
| `Netlink` | linux/netl80211.c and the calls of ifctrl-nl80211.c made of it, and a kernel | component |
| `Interface` | linux/interface.c, packet_sock.c, netdev.c: init and fini by system call | component |
| `*Proofs` | theorems about the component of that name | proofs |

How they fit together. `WlanParser` produces the packets that `Registry` files, so
the registries are never given a packet the parser cannot make. `Capture` puts `RawParser`,
`WlanParser` and `Inject` behind a socket, where the frames of the one are parsed by the others.
`NodeInfo` adds fields to the nodes of `Registry`: each of its steps is a step of
`Registry` (`RefinesRegistry`), and so of `Directory`. `Registry` lets a
sweep evict any set of nodes, which is the interface between it and `NodeAging`:
the one says what an eviction does, the other when it happens. `RegistrySweep`
EXTENDS `Registry` and takes the same step the way the loop does. `Registry`
implements `Directory` under a refinement mapping (`INSTANCE Directory WITH known <- Known,
...`). `ChannelScan` builds on the operators of `Channels` and treats a tuning as one request
that succeeds or fails; `Netlink` shows that such a request, which is no dump, returns true exactly if
the kernel has carried it out. `Interface` stops where `uwifi_channel_init` tunes,
which is where `ChannelScan` begins.

### State and actions against the code

*Registry.* Every field of `struct uwifi_node` and `struct essid_info` that another
operation reads is a function from addresses. Lists are sets, because a linear
search by a unique key does not depend on order and the only loop that might, the
sweep, is examined in `RegistrySweep`. `NodeUpdate`, `NodeUpdateReceiver`, `FindAp`,
`EssidsUpdate`, `EssidsRemoveNode`, `NodesTimeout`, `NodesFree` and `EssidsFree` are the
public functions; an early return of the code is a step that changes nothing. `malloc` is a choice among free addresses, freed
objects are zeroed, and an address may be given out again at once. After the
first of the two `*_free` calls pointers are left into freed memory by design, so
the other one must follow; `phase` says so.

*NodeInfo.* `HearSender` and `HearReceiver` are `NodeUpdate` and `NodeUpdateReceiver` with what
they do to `info`; the calls that touch no field are `Relink`. `heard` is a history variable: signal, number
and retry flag of each frame a node sent since it was created. The properties compare the
running values of the code with it. Fields nothing is decided by are left out. Signals may be positive, as a
Prism header may carry such (linux/raw_parser.c:41-47): the average then gets their negation as an `unsigned long`, and
`EwmaAdd` computes modulo `ULong`, 2^64 in the code.

*Capture.* `socket` holds packets with the channel they were received on (`on`, which the
code does not know unless the driver tells). `Retune` is a successful channel change, `Read` is
`packet_socket_recv` followed by `uwifi_parse_raw`, `FixupPacketChannel` the function of that name.
A frame is a record of what its header and its elements say; bytes are counted, as the
parsers' decisions depend on lengths, but have no contents. Of a name the element carries the length byte, the length modulo 256
(core/inject.c:42), and `NameCut`, the name of its first 33 bytes, which is what the parser keeps (core/wlan_parser.c:34-36).

*NodeAging.* `now`, `last` and `last_seen` are readings of a clock that wraps at
`Modulus`; `age`, `elapsed` and `swept` are history variables with the real
time. `PollEarly` is the call that returns at once, `PollSweep` the one that sweeps.

*ChannelScan.* `tries`, `new_chan` and `ret` are local variables of
`uwifi_channel_auto_change`, whose loop is one `Try` per request so that a refusal may
come at any round. `radio` is the driver's side. The application's edits
(`AppChange`, `AppLimits`, `AppScan`) may come at any time between two calls.
A dwell-time clock that counts up to `ChannelTime` stands for the microsecond clock. `UINT32_MAX` is what is left of the dwell time
while the scan is off.

*WpaCtrl.* A request is a number and its answer carries it. `owner` is whoever the
socket path names: all handles of a process share it. `Crash` ends the process
without `wpa_ctrl_close`, `Restart` is the supplicant's. The ten seconds of a `select` are `Patience` units, of which
`waited` have passed: `Elapse` is time that passes while there is nothing to read, `TimeOut` the `select` that returns with none left. An
unsolicited message (`HandOver`) and a signal (`Interrupted`, the `EINTR` of wpa_ctrl.c:128) set the time again, as the loop does.

*Netlink.* A call is *prepared*, *sent* (the message is freed) and *waits*, `Receive`
is one round of `nl_recvmsgs`. The kernel answers once per request, by refusing it with an error message,
by carrying it out, or, a dump, by breaking it off after some of its entries (`BreakOff`). A dump that is broken off ends in the same
message as one that is complete, with the error inside, and `nl80211_finish_cb` (netl80211.c:110-115) does not look at it: the call
returns true, and `Exact` says just that. The kernel may lose the end of an answer (`MayLose`). Events share
a socket with the look-up of multicast groups, as in `ifctrl_iw_event_init_socket`.

*Interface.* One action per system call of `uwifi_init` and `uwifi_fini`. Descriptors
are numbered, lowest first, and shared with the application's own files. The
device may vanish, return with a new index and be administered between any two steps.

Operators marked *faulty* stand beside the definition they are a variant of. Nothing
uses them; replacing the definition by one of them shows which property depends on
that line of the code. `PROJECT.json` lists the pairs under `mutants`.

## 3. Runs

| run | instance | states | shows |
|---|---|---|---|
| `registry_links` | 3 nodes, 2 ESSIDs, packets of two APs, a roaming station, ad-hoc cells and a prober | 171 967 | no dangling pointer, both ends of every link agree, counters exact, keys unique, split flags fresh, links kept; the sweep taken node by node equals the sweep at once in every list order |
| `node_info` | 2 nodes, 1 ESSID, 8 kinds of frames, one with a positive signal, 3 frames by and 1 to a node, averages modulo 2^24 | 557 140 | average, maximum, retries, standard and channel are what the history makes them; the registries implement `Directory` |
| `capture` | 2 channels in two bands, a socket with room for 1 packet, a capture of every kind and the frames of one sender, with 3 names | 63 346 | round trip of built beacons, both transmitter parsers agree, what the order of elements changes and what not, channel of reception, strongest signal |
| `node_aging` | 2 nodes, clock range 12, timeout 4, poll gap 3 | 11 112 | nobody is evicted early, nobody silent stays, wherever the clock wraps |
| `channel_scan` | 7 channels in two bands, 4 limits, 4 tunings, 2 edits, 1 refusal | 100 600 | interface and radio in step, hops in range and spaced, every channel visited, HT40 both ways |
| `wpa_ctrl` | 2 handles, 3 requests, 2 datagrams a socket, a wait of 2 units | 58 192 | answers in order and once, stale only after a request was given up, requests end unless messages or signals never stop |
| `netlink` | room for 2 of 3 entries, 2 groups, 2 events | 4 252 | sockets drained, results exact up to broken dumps, dumps complete, calls end |
| `interface` | 2 handles, 3 descriptors, 2 plugs, 1 change by the administrator, 2 channel lists | 3 390 000 | own descriptors only, none left bound, an initialised handle listens, the table is the driver's |
| `channel_scan_retry` | one channel is always refused | – | finding 1 |
| `channel_scan_japan` | channels 6, 10, 14 | – | finding 2 |
| `wpa_ctrl_path` | 2 handles | – | finding 3 |
| `netlink_free` | as `netlink` | – | finding 4 |

### The bounds and why they suffice

* *Registry*: three nodes are needed for an AP that is evicted while it has a
  station and a third node takes its address; two ESSIDs for a node that moves.
  The frames are the ones that put nodes into every role, so that a node may be AP
  and station at once. Nodes' and ESSIDs' addresses are symmetric (`Memory`): no action
  or property tells them apart. MAC addresses are not and are left out of it.
* *NodeInfo*: three frames are the fewest in which a repetition can be interrupted by a frame without
  a number, and a maximum be forgotten and found again. Two nodes are an AP and its station; a MAC address
  may pass from one slot of memory to the other. One frame has a signal of 20; `ULong` is 2^24 here, since
  TLC's integers have 32 bits, and leaves room for every product of the average. Beyond the bounds the proofs take over.
* *Capture*: a packet in the socket lets the radio hop between its reception and its reading; a second one would wait behind it for no other reason. The captures are one of
  every branch of the parsers: each control subtype, a bad FCS, a malformed header, short buffers, signals of four antennas with an
  invalid one and the strongest in between, rates that are told, not told and impossible, an 802.11ac beacon with each useful width
  two 802.11n ones, of 40 and of 20 MHz, the first with a name that is too long. Of the sender's three names one has 32 bytes, the most
  there may be, and one 40, of which 33 are read.
* *NodeAging*: the range is the smallest that still exceeds `2 * Timeout + PollGap`, so
  the clock wraps within every node's life and between any two readings.
* *ChannelScan*: both bands, the ends of each, HT40+ only, HT40- only, both, and a VHT80
  block are in the table. The limits contain none, the first only, a range across
  bands, and a minimum that is not in the table. A second edit can undo or contradict the first.
* *WpaCtrl*: with three requests an answer may come one and two requests late;
  two datagrams make the socket overflow. A wait of two units (one in `wpa_ctrl_path`) can be interrupted with part of it gone.
* *Netlink*: a dump may have fewer, as many and more entries than room. Two groups are one that
  delivers events while the second is looked up.
* *Interface*: two handles, of which either may reuse the other's descriptor, the application's
  file, and descriptor 0; a second plug gives a new index.

Deadlock is checked in every run but `netlink`: a caller whose reply was
lost waits for ever (`nl_recvmsgs` blocks), and the system may stop there.

### Fairness

* *ChannelScan*: weak fairness of `Tick`, `AutoChange` and `Try`. Time passes, the
  application calls `uwifi_channel_auto_change` from its main loop, as the function's
  return value and `uwifi_channel_get_remaining_dwell_time` are made for, and a
  `do ... while` loop that has begun goes on. Nothing is assumed of the driver;
  refusals are bounded.
* *WpaCtrl*: weak fairness of a request that waits (`Wait`): a datagram that is there is read, time passes when none is,
  and the `select` returns when its time is up. That it is ever up is not assumed: each unsolicited message and each signal starts the
  ten seconds anew, and nothing limits the whole wait. Nothing is assumed of the supplicant, nor that signals stop: `RequestEnds` has the
  exceptions that unsolicited messages, or signals, go on for ever.
* *Netlink*: the kernel looks at every request, and a caller that waits reads what
  there is. `RequestEnds` has the exception of a lost reply.

The other specifications state no fairness and no liveness: an application may stop calling.

## 4. Proofs

All theorems hold for every value of the constants that satisfies the module's
ASSUME; the runs above evaluate those on their instances.

| module | theorems | assumptions |
|---|---|---|
| `RegistryProofs` | `TypeCorrect`, `PointersValid`, `StationListsCorrect`, `MemberListsCorrect`, `CountersCorrect`, `KeysCorrect`, `SplitCorrect`, `LinksKept`, `SplitsFresh`, `Refinement`, `SweepCorrect` | `RegistryAssumption`: finitely many addresses, null is none of them, the empty and the broadcast address differ |
| `NodeInfoProofs` | `RefinesRegistry`, `InfoImplementsDirectory`, `InfoTypeCorrect`, `AverageBounded`, `MaximumExact`, `RetriesCounted`, `StandardsFit`, `ChannelsFollow` | `NodeInfoAssumption`: what is heard are packets `Registry` knows, with signals of any sign whose scaled value leaves three bits of an `unsigned long` free |
| `NodeAgingProofs` | `TypeCorrect`, `NeverTooEarly`, `SilentNodesGo` | `AgingAssumption`: the caller asks at least once per timeout, and `2 * Timeout + PollGap` is below the clock's range (23 minutes with 2^32 µs) |
| `ChannelScanProofs` | `TypeCorrect`, `StaysInStep`, `HopsInRange`, `CallsSpaced`, `RefusedAgain`, `NumberTellsFreq`, `OfferedVerifies`, `SameIndex`, `NextAlwaysOk` | `ScanAssumption`: the table ascends in channel numbers and has no frequency twice. The theorems on the table are about any answer of a driver with channels 1 to 13 and 32 to 196 (`OfferedVerifies`: none twice; `NextAlwaysOk`: the device's table comes from one) |
| `WpaCtrlProofs` | `TypeCorrect`, `PathAlive`, `AnswersInOrder`, `AnswersNotStale` | `CtrlAssumption`: handles are neither "nobody" nor "left over" |
| `NetlinkProofs` | `TypeCorrect`, `SocketsDrained`, `ResultsExact`, `DumpsComplete` | `NetlinkAssumption`: sizes are numbers, there is room for one entry and at least one group |
| `InterfaceProofs` | `TypeCorrect`, `SocketsOwned`, `SocketsClosed`, `InitListens`, `TablesRight` | `InterfaceAssumption`: bounds and frequencies are numbers, and a handle is neither "free" nor "app" |
| `CaptureProofs` | `TypeCorrect`, `ChannelCorrect`, `StrongestSignal`, `TransmittersAgree`, `BuiltIsRead`, `OrderOfElements`, `RateAndIndex` | `CaptureAssumption`: captures are well formed (lengths of captures, headers and elements are numbers, signals fit a signed byte, an MCS a byte), the length of a name fits a byte, and the table has no frequency twice and channel numbers that fit a byte |

Each rests on an inductive invariant `IInv` of its component, which `Invariance` proves. Why the
properties alone do not do:

* *Registry.* The links are stated over allocated nodes; to be preserved they have to hold over all
  addresses, free ones included (`FreeClean`, `ApLinks`, `NetLinks`), since an address that is handed
  out again must be linked to nothing. `Counts` relates the counter to the cardinality of the member
  list, which is what makes "the counter reaches zero" the same as "the list is empty", and
  `Splits` says a set flag implies two members. `Teardown` is what holds between the two `*_free`
  calls. For the sweep, `Swept(D)` is the heap without the nodes of D, `EvictSweeps` shows that the loop's
  body takes `Swept(D)` to `Swept(D \cup {n})` whether the AP of n or its stations went before it, and an order
  visits every node once (`SweepIsSwept`). The refinement maps each key to the one node that has it (`UniqueKeys`); each call is an
  operation of `Directory` or a stutter.
* *NodeInfo.* Steps are first shown to be calls of `Registry` (`StepIsCall`), which gives its invariant for free, among it `OneNode`:
  the node a call returns is the only one of its address. `UnheardZero` says that memory no node
  uses is zero, so that a new node starts from nothing. With it `InfoInv` is inductive, and the others follow from how
  one more frame changes the history (`OneFrameMore`, `NoFrameMore`, `Forgotten`). `AverageBounded` rests on `EwmaBetween`, the
  rounding of one update; `RetriesCounted` needs `SeqnoLast`, the number the next frame is compared
  with is that of the last numbered one, and `RepetitionsStep`, what one more frame does to the two sets of repetitions.
* *NodeAging.* `SeenExact`: the code's difference is the real age, as long as no
  age reaches the range. `SweepTimely`: the same of the time since the sweep,
  but for the first one, when `last` is zero and means nothing: the clock
  may already have wrapped, and that sweep comes up to a poll gap late. `AgesBounded` adds the two.
* *ChannelScan.* `KnownListed` and `TryingKnown` carry `InStep` over the retry loop;
  `QuietLonger` relates the dwell clock to the time since the driver was last asked.
* *WpaCtrl.* The order of requests is split over three places, `pending` at the supplicant,
  each handle's `queue`, and what was `answered`; `PendingOrder` and `QueueOrder` say each is ascending
  and lies below the next, `NoneTwice` that no answer is in two queues, and `OnlyCurrent` that
  without a request given up the only answer in flight is to the one that waits.
* *Netlink.* Of what is still to be read, the end of the answer comes last but for events and says
  what became of this request (`AnswerTells`); while the kernel has not looked, there is nothing but
  events (`NothingAhead`); and the entries taken plus those to come are all there were, or the
  room is used up (`EntriesAdd`).
* *Interface.* A call is several system calls that may each fail, so the properties hold between calls only because of
  what holds at each stage: `Calls` (while a call runs, its handle is not open), `Sockets` (every socket noted is the
  handle's own, none is noted where the next `uwifi_init` would write over it, and the one about to be bound is the caller's), `Progress`
  (what has been done to device and socket before each stage, and what stays of it until somebody else changes the device)
  and `Lists` (the answers a handle has seen can be counted).
* *Capture.* `Waiting` says that what waits in the socket was received on the channel its header tells, if it tells one, and that the radio
  has not moved as long as the interface does not know its channel; `LastRead` that the packet in hand is what the parser makes of its capture, but for the channel `uwifi_fixup_packet_channel` has put in. The
  properties then speak of `ReadTells`, what a parse yields, stage by stage: fields, header, frame, elements. For
  `OrderOfElements`, `WalkWhole` shows which elements are looked at, `WalkTells` that the last one that sets a field tells its value, and
  `OrderTells` and `IdsTell` that the last ones are alike in two orders, or known in the order of ids.
* *Channels.* `OfferedVerifies` needs that channel numbers and frequencies go together: on these channels four numbers are 20 MHz (`FourIsTwenty`). Channel 14
  breaks it, which is finding 2. `NextAlwaysOk` is the other side of that finding: the comment "should always be OK" is right on every
  such table. `NextTyped` says where get_next comes to, `TableTells` that a channel wider than 20 MHz has one of the two
  HT40 flags, and get_next only goes to a side that has its flag. `RefusedAgain` is the cause of finding 1, for every device: nothing
  the choice of the next entry depends on changes with a refusal. `MCChannelScan` shows that the hypotheses can be met (`TablesAssumption`).

The ranges of the fields (`Octet`, `Seqno`, `Dbm`, `Rate`) are definitions of their own, and the proofs use them only through
the lemmas that say what they hold (`OctetIs`, `SeqnoIs`, `RateIs` and so on): an interval written out in a goal is
taken apart into its members by the provers. With that every proof is found in a quarter of the default
time limits (`tlapm --stretch 0.25`), none needs a limit of its own.

A loop of the code is a fold in the models, over fields, elements or nodes. An induction over its
steps would need a library theorem with an operator as a parameter. Instead the set of the steps
up to which the claim holds is shown to be all of them by the least-number principle (`Least`,
`UpTo`); `IterExists` shows that the fold's recursion has a function that satisfies it, once for every loop.

Model-checked only: the liveness properties (`VisitsAll`, `RequestEnds`), which
the prover does not reach. All other properties of the runs are proved. `ElementOrder` was found too strong on the way to its
proof: an empty element at the end is not looked at, and of two names, channels or HT operation elements the last one counts; it now says so. The type invariants of
`NodeAging`, `ChannelScan`, `WpaCtrl`, `Netlink` and `Interface` are proved and therefore no part of the runs.

## 5. Findings

Places where the code does otherwise than a comment of its own says. Each is a run
that ends in a counterexample.

1. `channel_scan_retry`: the retry loop (core/channel.c:341) asks for the same channel
   every time, since a failed change leaves the index it starts from alone. The comment says
   "try setting different channels". A channel that is never accepted ends the scan.
2. `channel_scan_japan`: channel 14 counts as the HT40+ neighbour of channel 10
   (core/channel.c:376); `uwifi_channel_get_next` then builds a channel that
   `uwifi_channel_verify` rejects under the comment "should always be OK".
3. `wpa_ctrl_path`: a second handle unlinks the path of the first
   (linux/wpa_ctrl.c:68), which the comment takes for one left over by an earlier run.
4. `netlink_free`: `nl_get_multicast_id` frees its message again after
   `nl80211_send_recv` has freed it and failed (linux/netl80211.c:270).

Smaller things met on the way, which the models follow:

* A relay that is linked to an AP as its station and then receives a frame from a station becomes an AP by mode
  (core/node.c:162) and stays on the list that include/uwifi/node.h:30 calls "stations associated to AP".
* "assume min rate for mode" (linux/raw_parser.c:210, :48) sets 120 and 20, which are 12 and 2 Mbit/s in units of 100 kbit/s, and
  leaves the rate index alone in the radiotap case.
* MCS 17 and 19 at 20 MHz with a long guard interval are 39 and 78 instead of 390 and 780 (core/wlan_util.c:162, :164).
* The index of HT rates is 12 plus the MCS, so MCS 0 has the index of 54 Mbit/s (linux/raw_parser.c:174).
* VHT operation, or an operating mode notification, sets 80 MHz, "minimum" by its comment (core/wlan_parser.c:73), also after VHT
  capabilities told 160. In a beacon the elements come in the order of their ids, so a 160 or 80+80 MHz network is taken for an 80 MHz one;
  `WidthIs` says what width results.
* A dump that fails in the kernel returns what came before the failure, as a success (linux/netl80211.c:110-115).
* A signal starts the ten seconds of a request anew (linux/wpa_ctrl.c:128).
* A positive signal, which a Prism header may carry (linux/raw_parser.c:41), makes the average a value near the top of the unsigned range,
  and is a maximum that no frame without a signal makes the node forget (core/node.c:69-73). `AverageInRange` and `MaxSinceUnknown` say up to
  where they hold.
* A name of more than 255 bytes has a length byte that does not tell its length (core/inject.c:42); one of more than 33 is cut when it is read.
* A frame without FCS loses its last element (core/wlan_parser.c:284), for a beacon of core/inject.c its channel.
* A null data frame is as long as `struct wlan_frame`, 36 bytes, of which 24 are written (core/inject.c:76).
* A frame without a signal makes `phy_sig_max` forget all before (core/node.c:72).
* `wlan_mode_string` tests for AP twice and never returns "IBSS" (core/wlan_util.c:363).

## 6. What is not modelled

* *A failed malloc.* node.c and essid.c do not test it; the models bound memory by
  disabling the call.
* *Fields of a node that are copied from its last packet* and decide nothing: rate, signal, TSF, streams, IP and mesh addresses.
* *What is read behind a frame's end* when its last element is longer than the frame.
* *The radiotap iterator*, which is not part of this source: `RawParser` starts from its fields.
* *VHT rates* (`wlan_vht_mcs_to_rate`, floating point) and `wlan_max_phy_rate`, whose result the library stores and never reads.
* *Contents*: netlink attributes, the text and length of wpa_supplicant's messages.
* *libnl, the kernel, the supplicant and the driver* are nondeterministic and as bad as their
  interfaces allow, and no more: a reply is lost, but not forged.
* *Strings* and accessors nobody calls.
* *`nl80211_finish` and a second `nl80211_init`*: `Netlink` is one cycle. `nl80211_finish` frees both sockets and keeps
  the pointers (linux/netl80211.c:68), so that a second call frees them again.
* *Intrusive lists*: CCAN's, third-party; sets and sequences stand for them.
* *Other platforms* (macOS, ESP, wireless extensions, stubs): no state of their own.

Hazards no property covers are listed with the reason in `PROJECT.json`.

## 7. Plan

In the order of their weight; what is done is above.

1. Done, with proofs: `Registry`, `Directory`, `RegistrySweep`; `NodeInfo`; `NodeAging`; `Channels`, `ChannelScan`;
   `WpaCtrl`; `Netlink`; `WlanParser`, `WlanUtil`, `RawParser`, `Inject`, `Capture`; `Interface`.
2. `nl80211_init` / `nl80211_finish` cycles, and a composition of `Interface` with `Netlink`.
3. The table after a second initialisation with a changed list.
