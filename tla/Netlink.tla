------------------------------ MODULE Netlink -------------------------------
(***************************************************************************)
(* Requests to nl80211 (linux/netl80211.c) and the calls of                *)
(* linux/ifctrl-nl80211.c that are made of them: a message is prepared,    *)
(* sent and freed, replies go to a callback, and the call returns with the *)
(* acknowledgement, the end of a dump or an error.  Commands go over       *)
(* nl_sock; nl_event first looks up the ids of the multicast groups and    *)
(* then receives events.                                                   *)
(*                                                                         *)
(* What a command asks for and what a reply says is left out but for:      *)
(* "valid" is a reply the callback uses, "short" one that lacks what it    *)
(* looks for.  total and carried are history, read by no guard.            *)
(***************************************************************************)
EXTENDS Integers, Sequences, FiniteSets, SequencesExt

CONSTANTS MaxLen,      \* room for the entries of a dump
          MaxEntries,  \* bound on the entries the kernel sends
          NumGroups,   \* multicast groups to subscribe to
          MaxEvents,   \* events the socket holds
          MayLose      \* can a reply be lost for want of memory?

ASSUME NetlinkAssumption ==
  /\ MaxLen \in Nat \ {0} /\ MaxEntries \in Nat
  /\ NumGroups \in Nat \ {0} /\ MaxEvents \in Nat
  /\ MayLose \in BOOLEAN

VARIABLES
  phase,    \* "idle"; "held": a message is prepared; "waiting": it was sent
  kind,     \* what is asked for
  resolved, \* is the family id of the message a valid one?
  msg,      \* the message: "none", "held", "freed", "leaked", "twice" (freed)
  asked,    \* has the kernel still to look at it?
  queue,    \* per socket, what it has received
  entries,  \* replies taken: sta_idx, surv_idx, or the group that was found
  ret,      \* what the last call returned
  evpc,     \* nl_event: "closed", "joining", "ready", "failed"
  tried, groups, \* groups looked up, and subscribed to
  carried,  \* history: what became of the request: "no", "yes", "refused",
            \* or "broken": a dump that failed after some of its entries
  total,    \* history: the usable entries the kernel sent
  lost      \* history: a reply was lost

event == <<evpc, tried, groups>>
vars == <<phase, kind, resolved, msg, asked, queue, entries, ret, evpc, tried, groups,
          carried, total, lost>>

Kinds == {"do", "get", "dump", "group"}
Sock(k) == IF k = "group" THEN "event" ELSE "cmd"
Limit(k) == IF k = "dump" THEN MaxLen ELSE 1
Messages == {"valid", "short", "ack", "done", "err", "event"}

TypeOK ==
  /\ phase \in {"idle", "held", "waiting"} /\ kind \in Kinds
  /\ msg \in {"none", "held", "freed", "leaked", "twice"}
  /\ resolved \in BOOLEAN /\ asked \in BOOLEAN /\ ret \in BOOLEAN /\ lost \in BOOLEAN
  /\ queue \in [{"cmd", "event"} -> Seq(Messages)]
  /\ entries \in 0 .. Limit(kind) /\ total \in 0 .. MaxEntries + 1
  /\ evpc \in {"closed", "joining", "ready", "failed"}
  /\ tried \in 0 .. NumGroups /\ groups \in 0 .. tried
  /\ carried \in {"no", "yes", "refused", "broken"}

\* nl80211_init has connected nl_sock.
Init ==
  /\ phase = "idle" /\ kind = "do" /\ msg = "none"
  /\ resolved = TRUE /\ asked = FALSE /\ ret = FALSE
  /\ queue = [s \in {"cmd", "event"} |-> <<>>]
  /\ entries = 0 /\ evpc = "closed" /\ tried = 0 /\ groups = 0
  /\ carried = "no" /\ total = 0 /\ lost = FALSE

-----------------------------------------------------------------------------
\* ifctrl_iw_event_init_socket goes on to the next group when one has no id.  The
\* group that was found is subscribed to; a subscription that fails ends it.
Progress == evpc' = IF tried + 1 = NumGroups THEN "ready" ELSE evpc
NotJoined == tried' = tried + 1 /\ groups' = groups /\ Progress
Joins ==
  /\ tried' = tried + 1
  /\ \/ groups' = groups + 1 /\ Progress
     \/ groups' = groups /\ evpc' = "failed"

\* The call ends.  In nl_get_multicast_id a failure frees the message.
Freed(m) == IF m = "held" THEN "freed" ELSE "twice"
Returns(r, m) ==
  /\ phase' = "idle" /\ ret' = r
  /\ msg' = IF kind = "group" /\ ~r THEN Freed(m) ELSE m
  /\ \/ kind # "group" /\ UNCHANGED event
     \/ kind = "group" /\ (~r \/ entries = 0) /\ NotJoined
     \/ kind = "group" /\ r /\ entries > 0 /\ Joins

\* nl80211_msg_prepare and the attributes of the command.  A dump starts with
\* an empty result.  The result of genl_ctrl_resolve is not looked at, so a
\* group may be asked for with a family id that is none.
Callable(k) == phase = "idle" /\ (k = "group" <=> evpc = "joining")
PrepareCursorKept(k) ==        \* faulty: the cursor of the last dump stays
  /\ Callable(k)
  /\ phase' = "held" /\ kind' = k /\ msg' = "held"
  /\ resolved' \in (IF k = "group" THEN BOOLEAN ELSE {TRUE})
  /\ entries' = IF k = kind THEN entries ELSE 0
  /\ total' = 0 /\ carried' = "no"
  /\ UNCHANGED <<asked, queue, ret, event, lost>>
Prepare(k) ==
  /\ Callable(k)
  /\ phase' = "held" /\ kind' = k /\ msg' = "held"
  /\ resolved' \in (IF k = "group" THEN BOOLEAN ELSE {TRUE})
  /\ entries' = 0
  /\ total' = 0 /\ carried' = "no"
  /\ UNCHANGED <<asked, queue, ret, event, lost>>

\* No memory, no such interface, or no room for an attribute.
Unprepared(k) ==
  /\ Callable(k)
  /\ msg' \in {"none", "freed"} /\ ret' = FALSE
  /\ IF k = "group" THEN NotJoined ELSE UNCHANGED event
  /\ UNCHANGED <<phase, kind, resolved, asked, queue, entries, carried, total, lost>>

\* nl80211_send_recv: without memory for the callbacks it returns at once, ...
NoCallbacks ==
  /\ phase = "held"
  /\ Returns(FALSE, IF kind = "group" THEN "held" ELSE "leaked")
  /\ UNCHANGED <<kind, resolved, asked, queue, entries, carried, total, lost>>

\* ... the message is freed whether it could be sent or not.
SendFailed ==
  /\ phase = "held"
  /\ Returns(FALSE, "freed")
  /\ UNCHANGED <<kind, resolved, asked, queue, entries, carried, total, lost>>
Send ==
  /\ phase = "held"
  /\ phase' = "waiting" /\ msg' = "freed" /\ asked' = TRUE
  /\ UNCHANGED <<kind, resolved, queue, entries, ret, event, carried, total, lost>>

\* Only these three end the wait: "wait for reply message *and* ACK, or error".
EndsOnReply(m) == m # "event"          \* faulty: the reply is enough
EndsOnAck(m) == m \in {"ack", "err"}   \* faulty: no callback for the end of a dump
Ends(m) == m \in {"ack", "done", "err"}
GoodAlways(m) == TRUE                  \* faulty: an error is an acknowledgement
\* The end of a dump carries an error if the kernel broke it off, but
\* nl80211_finish_cb does not look at it.
Good(m) == m # "err"

\* Entries beyond the room there is are dropped, those that lack the
\* information are skipped; an event fails the sequence check.
Taken(m) == IF m = "valid" /\ entries < Limit(kind) THEN entries + 1 ELSE entries

Receive ==
  /\ phase = "waiting" /\ queue[Sock(kind)] # <<>>
  /\ LET m == Head(queue[Sock(kind)])
     IN /\ entries' = Taken(m)
        /\ IF Ends(m) THEN Returns(Good(m), msg)
           ELSE UNCHANGED <<phase, ret, msg, event>>
  /\ queue' = [queue EXCEPT ![Sock(kind)] = Tail(@)]
  /\ UNCHANGED <<kind, resolved, asked, carried, total, lost>>

-----------------------------------------------------------------------------
\* ifctrl_iw_event_init_socket: again after a failure, with a new socket.
EventOpen ==
  /\ phase = "idle" /\ evpc \in {"closed", "failed"}
  /\ evpc' \in {"joining", "failed"}
  /\ tried' = 0 /\ groups' = 0
  /\ queue' = [queue EXCEPT !["event"] = <<>>]
  /\ UNCHANGED <<phase, kind, resolved, msg, asked, entries, ret, carried, total, lost>>

\* ifctrl_iw_event_receive: one event is handed to the application.
EventReceive ==
  /\ phase = "idle" /\ evpc = "ready" /\ queue["event"] # <<>>
  /\ queue' = [queue EXCEPT !["event"] = Tail(@)]
  /\ UNCHANGED <<phase, kind, resolved, msg, asked, entries, ret, event, carried, total, lost>>

-----------------------------------------------------------------------------
\* The kernel.
EntryLists == UNION {[1 .. n -> {"valid", "short"}] : n \in 0 .. MaxEntries}
Replies ==
  CASE kind = "do"    -> {<<"ack">>}
    [] kind = "get"   -> {<<"valid", "ack">>}
    [] kind = "group" -> {<<"valid", "ack">>, <<"short", "ack">>}
    [] kind = "dump"  -> {Append(l, "done") : l \in EntryLists}
Valid(s) == Cardinality({i \in DOMAIN s : s[i] = "valid"})
Queued(s) == queue' = [queue EXCEPT ![Sock(kind)] = @ \o s]

Refuse ==
  /\ asked /\ asked' = FALSE
  /\ carried' = "refused" /\ Queued(<<"err">>)
  /\ UNCHANGED <<phase, kind, resolved, msg, entries, ret, event, total, lost>>

\* The answer, but for its end if a reply is lost.
Sends ==
  \E s \in Replies : /\ total' = Valid(s)
                     /\ \/ Queued(s) /\ UNCHANGED lost
                        \/ MayLose /\ Queued(Front(s)) /\ lost' = TRUE

CarryOut ==
  /\ asked /\ resolved /\ asked' = FALSE
  /\ carried' = "yes" /\ Sends
  /\ UNCHANGED <<phase, kind, resolved, msg, entries, ret, event>>

\* A dump that fails on its way ends like any other, the error inside.
BreakOff ==
  /\ asked /\ kind = "dump" /\ asked' = FALSE
  /\ carried' = "broken" /\ Sends
  /\ UNCHANGED <<phase, kind, resolved, msg, entries, ret, event>>

Event ==
  /\ groups > 0 /\ Len(queue["event"]) < MaxEvents
  /\ queue' = [queue EXCEPT !["event"] = Append(@, "event")]
  /\ UNCHANGED <<phase, kind, resolved, msg, asked, entries, ret, event, carried, total, lost>>

Next ==
  \/ \E k \in Kinds : Prepare(k) \/ Unprepared(k)
  \/ NoCallbacks \/ SendFailed \/ Send \/ Receive
  \/ EventOpen \/ EventReceive
  \/ Refuse \/ CarryOut \/ BreakOff \/ Event

\* The kernel looks at what it was sent, and a call that waits goes on reading.
Fairness == WF_vars(Refuse \/ CarryOut \/ BreakOff) /\ WF_vars(Receive)

Spec == Init /\ [][Next]_vars /\ Fairness

-----------------------------------------------------------------------------
OnlyEvents(q) == \A i \in DOMAIN q : q[i] = "event"

\* Between two calls no reply is left in a socket: the next call, or the
\* application's event handler, would take it for its own.
Drained ==
  phase = "idle" => \A s \in {"cmd", "event"} : OnlyEvents(queue[s])

\* A call that was sent returns true exactly if the kernel has carried out what
\* this call asked for, or has broken off its dump: of the requests the kernel
\* failed, only those it refused with an error message come back as failed.
Succeeds(c) == c \in {"yes", "broken"}
ExactStep == phase = "waiting" /\ phase' = "idle" => (ret' <=> Succeeds(carried))
Exact == [][ExactStep]_vars

\* A dump that succeeds has returned all usable entries the kernel sent for this
\* dump, as far as there is room, and no entry of an earlier one.  If the kernel
\* broke it off these are not all there are, and the caller cannot tell.
DumpCompleteStep ==
  phase = "waiting" /\ phase' = "idle" /\ ret' /\ kind = "dump" =>
    entries' = IF total < MaxLen THEN total ELSE MaxLen
DumpComplete == [][DumpCompleteStep]_vars

\* A call that waits ends, unless the kernel loses a reply.
RequestEnds == []<>(phase # "waiting") \/ <>lost

\* The inductive invariant.  A request is looked at while its caller waits; before
\* that, and between calls, the sockets hold events only.  Of what is still to
\* read, the end of the answer comes last but for events and says what became
\* of this request, and with the entries already taken a dump is complete.
EndsLast(q) == \A i, j \in DOMAIN q : i < j /\ Ends(q[i]) => q[j] = "event"
EndsTell(q, c) == \A i \in DOMAIN q : Ends(q[i]) => (Good(q[i]) <=> Succeeds(c))
AskedWaits == /\ asked => phase = "waiting"
              /\ phase = "held" \/ asked => entries = 0
NothingAhead ==
  /\ phase # "waiting" \/ asked => OnlyEvents(queue[Sock(kind)])
  /\ \A s \in {"cmd", "event"} : s # Sock(kind) => OnlyEvents(queue[s])
AnswerTells == EndsLast(queue[Sock(kind)]) /\ EndsTell(queue[Sock(kind)], carried)
\* All usable entries of the answer were taken, are still to come, or found no room.
EntriesAdd ==
  phase = "waiting" /\ ~asked /\ Succeeds(carried) =>
    LET left == Valid(queue[Sock(kind)])
    IN \/ entries + left = total
       \/ entries = Limit(kind) /\ total >= entries + left
\* A group that is asked for is one of those to subscribe to.
Joining == /\ evpc = "joining" => tried < NumGroups
           /\ phase # "idle" => (kind = "group" <=> evpc = "joining")
IInv == /\ TypeOK /\ Joining /\ AskedWaits
        /\ NothingAhead /\ AnswerTells /\ EntriesAdd

\* The comment on nl80211_send_recv: "send message, free msg, receive reply and
\* wait for ACK".  nl_get_multicast_id frees the message once more when the
\* call has failed.
NotFreedTwice == msg # "twice"
=============================================================================
