----------------------------- MODULE Interface ------------------------------
(***************************************************************************)
(* The life of a uwifi_interface (linux/interface.c): uwifi_init opens a   *)
(* packet socket, brings the device up and makes it promiscuous, checks    *)
(* the monitor mode and reads the list of channels; uwifi_fini undoes what *)
(* can be undone.  All handles are for the same device.                    *)
(*                                                                         *)
(* Calls of one process do not overlap, but between any two system calls   *)
(* the device may go and come back with a new index, its administrator may *)
(* change its flags, and the process may end.  What becomes of the channel *)
(* to tune to is in ChannelScan, of the nodes in Registry.  upset, answers *)
(* are history, read by no guard.                                          *)
(***************************************************************************)
EXTENDS Integers, Sequences, FiniteSets, FiniteSetsExt

CONSTANTS Handles,    \* the interfaces of the process
          MaxFd,      \* descriptors are 0 .. MaxFd
          Answers,    \* the lists of channels the driver may give
          MaxPlugs,   \* bound on the times the device appears
          MaxAdmin    \* bound on the administrator's changes

ASSUME InterfaceAssumption ==
  /\ MaxFd \in Nat /\ MaxPlugs \in Nat \ {0} /\ MaxAdmin \in Nat
  /\ Answers \subseteq Seq(Nat)
  /\ Handles \cap {"free", "app"} = {}

VARIABLES
  pc, op, cur,     \* the call that runs, "idle" between calls, and for which handle
  fd, ifindex,     \* local variables of packet_socket_open
  ifr,             \* the flags netdev_set_up_promisc has read
  life,            \* "zeroed", "ready", "failed" (init returned false), "closed"
  sock, table,     \* intf->sock and the entries of intf->channels
  fds, bound,      \* per descriptor, whose it is, and the index it is bound to
  index,           \* the device's index, 0 when it is not there
  plugs, flags, monitor,
  answer,          \* the driver's list of channels
  admin,           \* counts the administrator's changes
  upset,           \* history: the device was changed by others since init began
  answers          \* history: the lists this handle has read

call == <<pc, op, cur, fd, ifindex, ifr>>
handle == <<life, sock, table, answers>>
kernel == <<fds, bound>>
device == <<index, plugs, flags, monitor, answer, admin>>
vars == <<pc, op, cur, fd, ifindex, ifr, life, sock, table, answers, fds, bound,
          index, plugs, flags, monitor, answer, admin, upset>>

Fds == 0 .. MaxFd
Flags == {"up", "promisc"}

TypeOK ==
  /\ pc \in {"idle", "bind", "getflags", "putflags", "hwinfo", "info", "channels"}
  /\ op \in {"init", "fini"} /\ cur \in Handles
  /\ fd \in Fds /\ ifindex \in 0 .. MaxPlugs /\ ifr \subseteq Flags
  /\ life \in [Handles -> {"zeroed", "ready", "failed", "closed"}]
  /\ sock \in [Handles -> Fds \cup {-1}]
  /\ table \in [Handles -> Seq(Nat)]
  /\ \A h \in Handles : \E a \in Answers \cup {<<>>} : Len(table[h]) = Len(a)
  /\ fds \in [Fds -> {"free", "app"} \cup Handles]
  /\ bound \in [Fds -> 0 .. MaxPlugs]
  /\ index \in 0 .. plugs /\ plugs \in 0 .. MaxPlugs /\ admin \in 0 .. MaxAdmin
  /\ flags \subseteq Flags /\ monitor \in BOOLEAN /\ answer \in Answers
  /\ upset \in [Handles -> BOOLEAN] /\ answers \in [Handles -> SUBSET Answers]

\* A process starts with zeroed interfaces; its descriptor 0 is its own or, in
\* a daemon, closed.
Zeroed(v) == [h \in Handles |-> v]
FdsAtStart == {[f \in Fds |-> IF f = 0 THEN own ELSE "free"] : own \in {"free", "app"}}
Init ==
  /\ pc = "idle" /\ op = "init" /\ cur \in Handles
  /\ fd = 0 /\ ifindex = 0 /\ ifr = {}
  /\ life = Zeroed("zeroed") /\ sock = Zeroed(0)
  /\ table = Zeroed(<<>>) /\ answers = Zeroed({})
  /\ fds \in FdsAtStart /\ bound = [f \in Fds |-> 0]
  /\ plugs \in 0 .. 1 /\ index = plugs /\ flags = {} /\ monitor \in BOOLEAN
  /\ answer \in Answers /\ admin = 0
  /\ upset = Zeroed(FALSE)

Return(h, result) ==
  /\ pc' = "idle" /\ life' = [life EXCEPT ![h] = result]

-----------------------------------------------------------------------------
\* uwifi_init, up to the look for the device in packet_socket_open; without the
\* device the new socket is left open.  An interface that is in use, or whose
\* init failed, is finished first.
FreeFds == {f \in Fds : fds[f] = "free"}
Open(h) ==
  /\ pc = "idle" /\ life[h] \in {"zeroed", "closed"} /\ FreeFds # {}
  /\ op' = "init" /\ cur' = h
  /\ fds' = [fds EXCEPT ![Min(FreeFds)] = h]
  /\ upset' = [upset EXCEPT ![h] = FALSE]
  /\ \/ /\ index # 0
        /\ pc' = "bind" /\ fd' = Min(FreeFds) /\ ifindex' = index
        /\ UNCHANGED <<life, sock>>
     \/ /\ index = 0
        /\ Return(h, "failed") /\ sock' = [sock EXCEPT ![h] = -1]
        /\ UNCHANGED <<fd, ifindex>>
  /\ UNCHANGED <<ifr, table, answers, bound, device>>

\* A device that has gone by now ends the process (see Exit).
Bind ==
  /\ pc = "bind" /\ ifindex = index
  /\ bound' = [bound EXCEPT ![fd] = ifindex]
  /\ sock' = [sock EXCEPT ![cur] = fd]
  /\ pc' = "getflags" /\ fd' = 0 /\ ifindex' = 0
  /\ UNCHANGED <<op, cur, ifr, life, table, answers, fds, device, upset>>

\* netdev_set_up_promisc reads the flags and writes them back, by the name of
\* the device.  uwifi_fini does not look at the result.
WantedSwapped == IF op = "init" THEN {"up"} ELSE {"up", "promisc"}  \* faulty
Wanted == IF op = "init" THEN {"up", "promisc"} ELSE {"up"}
AfterFlags(ok) ==
  CASE op = "init" /\ ok  -> pc' = "hwinfo" /\ UNCHANGED life
    [] op = "init" /\ ~ok -> Return(cur, "failed")
    [] op = "fini"        -> pc' = "idle" /\ UNCHANGED life

GetFlags ==
  /\ pc = "getflags"
  /\ \/ /\ index # 0 /\ ifr' = flags
        /\ pc' = "putflags" /\ UNCHANGED life
     \/ AfterFlags(FALSE) /\ UNCHANGED ifr
  /\ UNCHANGED <<op, cur, fd, ifindex, sock, table, answers, kernel, device, upset>>

\* What uwifi_fini takes away is missed by the other handles.
PutFlags ==
  /\ pc = "putflags"
  /\ \/ /\ index # 0 /\ flags' = (ifr \ {"promisc"}) \cup Wanted
        /\ upset' = [h \in Handles |-> upset[h] \/ (op = "fini" /\ h # cur)]
        /\ AfterFlags(TRUE)
     \/ AfterFlags(FALSE) /\ UNCHANGED <<flags, upset>>
  /\ ifr' = {}
  /\ UNCHANGED <<op, cur, fd, ifindex, sock, table, answers, kernel,
                 index, plugs, monitor, answer, admin>>

\* netdev_get_hwinfo and ifctrl_iwget_interface_info
HwInfo ==
  /\ pc = "hwinfo"
  /\ \/ index # 0 /\ monitor /\ pc' = "info" /\ UNCHANGED life
     \/ Return(cur, "failed")
  /\ UNCHANGED <<op, cur, fd, ifindex, ifr, sock, table, answers, kernel, device, upset>>
InterfaceInfo ==
  /\ pc = "info"
  /\ \/ index # 0 /\ pc' = "channels" /\ UNCHANGED life
     \/ Return(cur, "failed")
  /\ UNCHANGED <<op, cur, fd, ifindex, ifr, sock, table, answers, kernel, device, upset>>

\* nl80211_get_freqlist_cb appends to the entries that are there and then counts
\* the new ones only, so that the first so many entries of both remain.
ListedBoth(old, new) == old \o new         \* faulty: all of them are counted
Listed(old, new) == SubSeq(old \o new, 1, Len(new))

\* uwifi_channel_init goes on with the old list when there is no new one; it
\* fails without a channel, or when the configured channel cannot be set.
ChannelInit ==
  /\ pc = "channels"
  /\ \/ /\ index # 0
        /\ table' = [table EXCEPT ![cur] = Listed(@, answer)]
        /\ answers' = [answers EXCEPT ![cur] = @ \cup {answer}]
     \/ UNCHANGED <<table, answers>>
  /\ \/ table'[cur] # <<>> /\ Return(cur, "ready")
     \/ Return(cur, "failed")
  /\ UNCHANGED <<op, cur, fd, ifindex, ifr, sock, kernel, device, upset>>

\* uwifi_fini, between any two calls and any number of times.
Closing(s) == s > 0
ClosedSockKept(s) == s                     \* faulty: the closed socket stays noted
ClosedSock(s) == IF Closing(s) THEN -1 ELSE s
CloseReadyOnly(h) ==                       \* faulty: not after an init that failed
  IF Closing(sock[h]) /\ life[h] = "ready"
  THEN /\ fds' = [fds EXCEPT ![sock[h]] = "free"]
       /\ bound' = [bound EXCEPT ![sock[h]] = 0]
  ELSE UNCHANGED kernel
Close(h) ==
  IF Closing(sock[h])
  THEN /\ fds' = [fds EXCEPT ![sock[h]] = "free"]
       /\ bound' = [bound EXCEPT ![sock[h]] = 0]
  ELSE UNCHANGED kernel
Fini(h) ==
  /\ pc = "idle"
  /\ Close(h)
  /\ sock' = [sock EXCEPT ![h] = ClosedSock(@)]
  /\ life' = [life EXCEPT ![h] = "closed"]
  /\ op' = "fini" /\ cur' = h /\ pc' = "getflags"
  /\ UNCHANGED <<fd, ifindex, ifr, table, answers, device, upset>>

-----------------------------------------------------------------------------
\* The process ends, by exit, err or a signal, and is started again; the
\* device stays as it is.
Exit ==
  /\ pc' = "idle"
  /\ life' = Zeroed("zeroed") /\ sock' = Zeroed(0)
  /\ table' = Zeroed(<<>>) /\ answers' = Zeroed({})
  /\ fds' \in FdsAtStart /\ bound' = [f \in Fds |-> 0]
  /\ upset' = Zeroed(FALSE)
  /\ fd' = 0 /\ ifindex' = 0 /\ ifr' = {}
  /\ UNCHANGED <<op, cur, device>>

\* The application opens and closes files of its own between the calls.
AppFile ==
  /\ pc = "idle"
  /\ \/ FreeFds # {} /\ fds' = [fds EXCEPT ![Min(FreeFds)] = "app"]
     \/ \E f \in Fds : fds[f] = "app" /\ fds' = [fds EXCEPT ![f] = "free"]
  /\ UNCHANGED <<call, handle, bound, device, upset>>

Unplug ==
  /\ index # 0 /\ index' = 0 /\ flags' = {}
  /\ upset' = [h \in Handles |-> TRUE]
  /\ UNCHANGED <<call, handle, kernel, plugs, monitor, answer, admin>>
Plug ==
  /\ index = 0 /\ plugs < MaxPlugs
  /\ plugs' = plugs + 1 /\ index' = plugs + 1
  /\ monitor' \in BOOLEAN
  /\ upset' = [h \in Handles |-> TRUE]
  /\ UNCHANGED <<call, handle, kernel, flags, answer, admin>>
Admin ==
  /\ index # 0 /\ admin < MaxAdmin /\ admin' = admin + 1
  /\ \/ flags' \in SUBSET Flags /\ UNCHANGED answer
     \/ answer' \in Answers /\ UNCHANGED flags
  /\ upset' = [h \in Handles |-> TRUE]
  /\ UNCHANGED <<call, handle, kernel, index, plugs, monitor>>

Next ==
  \/ \E h \in Handles : Open(h) \/ Fini(h)
  \/ Bind \/ GetFlags \/ PutFlags \/ HwInfo \/ InterfaceInfo \/ ChannelInit
  \/ Exit \/ AppFile \/ Unplug \/ Plug \/ Admin

Spec == Init /\ [][Next]_vars

-----------------------------------------------------------------------------
\* A socket uwifi_fini will close, and the application reads from, is this
\* interface's own: never a descriptor that was closed and is in use again by
\* the application or another interface.
OwnSocket ==
  \A h \in Handles : life[h] # "zeroed" /\ sock[h] > 0 => fds[sock[h]] = h

\* A socket that receives frames is the one its interface closes, but for
\* descriptor 0, which uwifi_fini takes for none.
NoSocketLeft ==
  \A f \in Fds \ {0} : bound[f] # 0 =>
    \E h \in Handles : fds[f] = h /\ (sock[h] = f \/ (pc = "bind" /\ fd = f))

\* An interface that was initialised has a socket on the device as it is now,
\* and the device is up and promiscuous, unless the administrator, a plug or
\* uwifi_fini for another handle came in between.
Listens ==
  \A h \in Handles : life[h] = "ready" /\ ~upset[h] =>
    /\ fds[sock[h]] = h /\ bound[sock[h]] = index /\ index # 0
    /\ flags = {"up", "promisc"}

\* However often an interface is initialised, with the list of channels read
\* or not, its table is the driver's list, as long as that does not change.
TableOfAnswer ==
  \A h \in Handles : Cardinality(answers[h]) < 2 => table[h] \in answers[h] \cup {<<>>}

-----------------------------------------------------------------------------
\* The inductive invariant.  A handle is "zeroed" or "closed" as long as
\* a call for it runs, so what the four properties say of an initialised
\* handle is said here of one on its way, stage by stage.

Unopened(h) == life[h] \in {"zeroed", "closed"}
Opening(h) == op = "init" /\ cur = h /\ pc \notin {"idle", "bind"}

Calls ==
  /\ pc # "idle" => Unopened(cur)
  /\ op = "fini" => pc \in {"idle", "getflags", "putflags"}

\* Every socket noted is this handle's own, and none is noted where the next
\* uwifi_init would write over it.
Sockets ==
  /\ \A h \in Handles : sock[h] > 0 => fds[sock[h]] = h
  /\ \A h \in Handles : Unopened(h) /\ ~Opening(h) => sock[h] <= 0
  /\ pc = "bind" => fds[fd] = cur

Attached(h) ==
  /\ sock[h] \in Fds /\ fds[sock[h]] = h
  /\ index # 0 /\ bound[sock[h]] = index
Hearing == flags = {"up", "promisc"}

\* How far an uwifi_init nobody disturbed has come, and what stays of it.
Progress ==
  /\ pc # "idle" /\ op = "init" /\ ~upset[cur] =>
       /\ pc = "bind" => index # 0 /\ ifindex = index
       /\ pc # "bind" => Attached(cur)
       /\ pc \in {"hwinfo", "info", "channels"} => Hearing
  /\ \A h \in Handles : life[h] = "ready" /\ ~upset[h] => Attached(h) /\ Hearing

Lists == \A h \in Handles : IsFiniteSet(answers[h])

IInv == TypeOK /\ Calls /\ Sockets /\ NoSocketLeft /\ Progress /\ Lists /\ TableOfAnswer
=============================================================================
