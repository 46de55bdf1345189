------------------------------ MODULE WpaCtrl -------------------------------
(***************************************************************************)
(* The control connection to wpa_supplicant (linux/wpa_ctrl.c): datagram   *)
(* sockets of one process, requests that wait for an answer, and a         *)
(* supplicant that answers late, sends messages nobody asked for, or       *)
(* restarts.                                                               *)
(*                                                                         *)
(* A request is its number; its answer carries the same number and an      *)
(* unsolicited message ('<...') is 0.  Contents and lengths are left out.  *)
(* Every handle of a process binds its socket to the same path, so the     *)
(* supplicant, who replies to the sender's path, reaches whoever owns it.  *)
(* answered and gaveUp are history, read by no guard.                      *)
(***************************************************************************)
EXTENDS Integers, Sequences

CONSTANTS Handles,      \* struct wpa_ctrl objects
          None, Left,   \* nobody; a socket file left by an earlier run
          MaxRequests,  \* bound on the requests sent
          MaxQueue,     \* datagrams a socket holds
          Patience      \* the ten seconds a wait lasts, in units of time

ASSUME CtrlAssumption ==
  /\ None \notin Handles /\ Left \notin Handles /\ None # Left
  /\ MaxRequests \in Nat /\ MaxQueue \in Nat /\ Patience \in Nat \ {0}

VARIABLES
  open,       \* the handles in use
  connected,  \* those whose supplicant has not restarted since
  owner,      \* whose socket the path /tmp/wpa_ctrl_<pid>-0 names
  queue,      \* per handle, what its socket has received
  pending,    \* requests the supplicant has not answered
  cur,        \* the handle whose wpa_ctrl_request is waiting
  waited,     \* how long its select has lasted (0 when none waits)
  sent,       \* number of the last request
  code,       \* how the last request ended (-1 is "error", -2 "timeout")
  answered,   \* history, per handle: the last answer it was given
  gaveUp      \* history: some request that was sent ended without an answer

sockets == <<open, connected, owner>>
history == <<answered, gaveUp>>
vars == <<open, connected, owner, queue, pending, cur, waited, sent, code, answered, gaveUp>>

Event == 0
Codes == {"none", "answer", "error", "timeout"}

TypeOK ==
  /\ open \subseteq Handles /\ connected \subseteq open
  /\ owner \in Handles \cup {None, Left}
  /\ queue \in [Handles -> Seq(0 .. MaxRequests)]
  /\ \A h \in Handles : Len(queue[h]) <= MaxQueue
  /\ pending \in Seq(1 .. MaxRequests) /\ Len(pending) <= MaxQueue
  /\ cur \in open \cup {None} /\ waited \in 0 .. Patience
  /\ sent \in 0 .. MaxRequests /\ code \in Codes
  /\ answered \in [Handles -> 0 .. MaxRequests] /\ gaveUp \in BOOLEAN

\* The first run, or one that finds the path of an earlier one.
Init ==
  /\ open = {} /\ connected = {} /\ owner \in {None, Left}
  /\ queue = [h \in Handles |-> <<>>] /\ pending = <<>>
  /\ cur = None /\ waited = 0 /\ sent = 0 /\ code = "none"
  /\ answered = [h \in Handles |-> 0] /\ gaveUp = FALSE

-----------------------------------------------------------------------------
\* wpa_ctrl_open: the path is taken, whoever has it.
Open(h) ==
  /\ cur = None /\ h \notin open
  /\ open' = open \cup {h} /\ connected' = connected \cup {h}
  /\ owner' = h
  /\ queue' = [queue EXCEPT ![h] = <<>>]
  /\ answered' = [answered EXCEPT ![h] = 0]
  /\ UNCHANGED <<pending, cur, waited, sent, code, gaveUp>>

\* ... when there is no supplicant to connect to.
OpenFailed(h) ==
  /\ cur = None /\ h \notin open
  /\ owner' = None
  /\ UNCHANGED <<open, connected, queue, pending, cur, waited, sent, code, history>>

\* wpa_ctrl_close: the path is removed, whoever has it.
CloseKeepsPath(h) ==            \* faulty: the file stays
  /\ cur = None /\ h \in open
  /\ open' = open \ {h} /\ connected' = connected \ {h}
  /\ queue' = [queue EXCEPT ![h] = <<>>]
  /\ UNCHANGED <<owner, pending, cur, waited, sent, code, history>>
Close(h) ==
  /\ cur = None /\ h \in open
  /\ open' = open \ {h} /\ connected' = connected \ {h}
  /\ owner' = None
  /\ queue' = [queue EXCEPT ![h] = <<>>]
  /\ UNCHANGED <<pending, cur, waited, sent, code, history>>

\* The process ends without wpa_ctrl_close; a later one has the same number.
Crash ==
  /\ open' = {} /\ connected' = {} /\ cur' = None /\ waited' = 0
  /\ owner' = IF owner = None THEN None ELSE Left
  /\ queue' = [h \in Handles |-> <<>>]
  /\ gaveUp' = (gaveUp \/ cur # None)
  /\ UNCHANGED <<pending, sent, code, answered>>

-----------------------------------------------------------------------------
\* wpa_ctrl_request: the command is sent, ...
Send(h) ==
  /\ cur = None /\ h \in connected
  /\ sent < MaxRequests /\ Len(pending) < MaxQueue
  /\ sent' = sent + 1 /\ pending' = Append(pending, sent + 1)
  /\ cur' = h /\ waited' = 0
  /\ UNCHANGED <<sockets, queue, code, history>>

\* ... or cannot be: the supplicant is gone, or its socket is full.
SendFailed(h) ==
  /\ cur = None /\ h \in open
  /\ h \notin connected \/ Len(pending) = MaxQueue
  /\ code' = "error"
  /\ UNCHANGED <<sockets, queue, pending, cur, waited, sent, history>>

\* An unsolicited message goes to the callback, and the wait starts anew.
HandOver ==
  /\ cur # None /\ queue[cur] # <<>> /\ Head(queue[cur]) = Event
  /\ queue' = [queue EXCEPT ![cur] = Tail(@)] /\ waited' = 0
  /\ UNCHANGED <<sockets, pending, cur, sent, code, history>>

\* Anything else is returned as the answer, whatever it answers.
ReturnAnswerPeeked ==           \* faulty: the datagram stays in the socket
  /\ cur # None /\ queue[cur] # <<>> /\ Head(queue[cur]) # Event
  /\ code' = "answer" /\ answered' = [answered EXCEPT ![cur] = Head(queue[cur])]
  /\ cur' = None /\ waited' = 0
  /\ UNCHANGED <<sockets, queue, pending, sent, gaveUp>>
ReturnFirst ==                  \* faulty: '<' is not looked at
  /\ cur # None /\ queue[cur] # <<>>
  /\ code' = "answer" /\ answered' = [answered EXCEPT ![cur] = Head(queue[cur])]
  /\ queue' = [queue EXCEPT ![cur] = Tail(@)]
  /\ cur' = None /\ waited' = 0
  /\ UNCHANGED <<sockets, pending, sent, gaveUp>>
ReturnAnswer ==
  /\ cur # None /\ queue[cur] # <<>> /\ Head(queue[cur]) # Event
  /\ code' = "answer" /\ answered' = [answered EXCEPT ![cur] = Head(queue[cur])]
  /\ queue' = [queue EXCEPT ![cur] = Tail(@)]
  /\ cur' = None /\ waited' = 0
  /\ UNCHANGED <<sockets, pending, sent, gaveUp>>

\* Time passes while there is nothing to read, ...
Elapse ==
  /\ cur # None /\ queue[cur] = <<>> /\ waited < Patience
  /\ waited' = waited + 1
  /\ UNCHANGED <<sockets, queue, pending, cur, sent, code, history>>

\* ... a signal interrupts the select, and all of the time is set again, ...
Interrupted ==
  /\ cur # None /\ queue[cur] = <<>>
  /\ waited' = 0
  /\ UNCHANGED <<sockets, queue, pending, cur, sent, code, history>>

\* ... or the time is up.
TimeOutOnce ==                  \* faulty: the wait goes on, with no time left
  /\ cur # None /\ queue[cur] = <<>> /\ waited = Patience
  /\ code' = "timeout"
  /\ gaveUp' = TRUE
  /\ UNCHANGED <<sockets, queue, pending, cur, waited, sent, answered>>
TimeOut ==
  /\ cur # None /\ queue[cur] = <<>> /\ waited = Patience
  /\ code' = "timeout" /\ cur' = None /\ waited' = 0
  /\ gaveUp' = TRUE
  /\ UNCHANGED <<sockets, queue, pending, sent, answered>>

\* select or recv fails, other than by a signal.
WaitFailed ==
  /\ cur # None
  /\ code' = "error" /\ cur' = None /\ waited' = 0
  /\ gaveUp' = TRUE
  /\ UNCHANGED <<sockets, queue, pending, sent, answered>>

-----------------------------------------------------------------------------
\* The supplicant replies to the path the request came from.  Nobody is there,
\* or the socket is full: the datagram is lost.
Reaches == owner \in open /\ Len(queue[owner]) < MaxQueue
Delivered(m) == IF Reaches THEN [queue EXCEPT ![owner] = Append(@, m)] ELSE queue

Answer ==
  /\ pending # <<>>
  /\ queue' = Delivered(Head(pending)) /\ pending' = Tail(pending)
  /\ UNCHANGED <<sockets, cur, waited, sent, code, history>>

Announce ==
  /\ Reaches
  /\ queue' = Delivered(Event)
  /\ UNCHANGED <<sockets, pending, cur, waited, sent, code, history>>

Restart ==
  /\ pending' = <<>> /\ connected' = {}
  /\ UNCHANGED <<open, owner, queue, cur, waited, sent, code, history>>

Next ==
  \/ \E h \in Handles : Open(h) \/ OpenFailed(h) \/ Close(h) \/ Send(h) \/ SendFailed(h)
  \/ HandOver \/ ReturnAnswer \/ Elapse \/ Interrupted \/ TimeOut \/ WaitFailed
  \/ Crash
  \/ Answer \/ Announce \/ Restart

\* A request that waits goes on: a datagram that is there is read, time passes
\* when none is, and the select returns when its time is up.
Wait == HandOver \/ ReturnAnswer \/ Elapse \/ TimeOut
Fairness == WF_vars(Wait)

Spec == Init /\ [][Next]_vars /\ Fairness

-----------------------------------------------------------------------------
\* The path of a process never names the socket of a handle it has closed, so
\* the supplicant never talks to one.
NoDeadSocket == owner \in Handles => owner \in open

\* Answers come in the order of the requests, and none twice, on each handle.
InOrderStep ==
  cur # None /\ cur' = None /\ code' = "answer" /\ cur \in open' =>
    answered'[cur] > answered[cur]
InOrder == [][InOrderStep]_vars

\* As long as no request was given up, the answer is to the request that asked,
\* whichever of the handles it went through.
NotStaleStep ==
  cur # None /\ cur' = None /\ code' = "answer" /\ cur \in open' /\ ~gaveUp =>
    answered'[cur] = sent
NotStale == [][NotStaleStep]_vars

\* A request ends, unless unsolicited messages or signals go on coming for
\* ever: each starts the ten seconds anew, and no code limits the whole wait.
RequestEnds ==
  []<>(cur = None) \/ []<><<Announce>>_vars \/ []<><<Interrupted>>_vars

\* The inductive invariant.  In flight, answers keep the order of the requests
\* and none exists twice; and while no request was given up, the only answer in
\* flight is to the request that waits.
InFlight == {pending[i] : i \in DOMAIN pending}
              \cup UNION {{queue[h][i] : i \in DOMAIN queue[h]} : h \in Handles}
Sent == \A h \in Handles : answered[h] <= sent
PendingOrder ==
  /\ \A i, j \in DOMAIN pending : i < j => pending[i] < pending[j]
  /\ \A i \in DOMAIN pending : /\ pending[i] <= sent
                               /\ \A h \in Handles : answered[h] < pending[i]
QueueOrder ==
  \A h \in Handles : \A i \in DOMAIN queue[h] :
    /\ queue[h][i] <= sent
    /\ queue[h][i] # Event => answered[h] < queue[h][i]
    /\ \A j \in DOMAIN queue[h] : i < j /\ queue[h][j] # Event => queue[h][i] < queue[h][j]
    /\ \A j \in DOMAIN pending : queue[h][i] < pending[j]
NoneTwice ==
  \A g, h \in Handles : \A i \in DOMAIN queue[g], j \in DOMAIN queue[h] :
    g # h /\ queue[g][i] # Event => queue[g][i] # queue[h][j]
OnlyCurrent ==
  ~gaveUp => \A m \in InFlight : m # Event => cur # None /\ m = sent
IInv == /\ TypeOK /\ NoDeadSocket /\ Sent
        /\ PendingOrder /\ QueueOrder /\ NoneTwice /\ OnlyCurrent

\* The comment in wpa_ctrl_open: "the existing socket file must have been left
\* by unclean termination of an earlier run".  It is not so when the process
\* has two handles: the second takes the path of the first.
TakesOnlyLeftoversStep == owner \in open /\ owner' # owner => owner \notin open'
TakesOnlyLeftovers == [][TakesOnlyLeftoversStep]_vars
=============================================================================
