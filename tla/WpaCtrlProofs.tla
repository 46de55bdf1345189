--------------------------- MODULE WpaCtrlProofs ----------------------------
(***************************************************************************)
(* Proofs about WpaCtrl, for any number of handles and requests and any    *)
(* size of the sockets' queues.                                            *)
(***************************************************************************)
EXTENDS WpaCtrl, SequenceTheorems, TLAPS

\* s is what is left of t when some elements are taken from its front.
Shifted(s, t) ==
  \E k \in Nat : \A i \in DOMAIN s : i + k \in DOMAIN t /\ s[i] = t[i + k]

\* What TypeOK says of the sequences, in the form the steps below use.
LEMMA Sequences ==
  ASSUME TypeOK
  PROVE  /\ pending \in Seq(1 .. MaxRequests) /\ Len(pending) \in Nat
         /\ DOMAIN pending = 1 .. Len(pending)
         /\ \A i \in DOMAIN pending : pending[i] \in 1 .. MaxRequests
         /\ \A h \in Handles :
              /\ queue[h] \in Seq(0 .. MaxRequests) /\ Len(queue[h]) \in Nat
              /\ DOMAIN queue[h] = 1 .. Len(queue[h])
              /\ \A i \in DOMAIN queue[h] : queue[h][i] \in 0 .. MaxRequests
<1>1. pending \in Seq(1 .. MaxRequests) /\ \A h \in Handles : queue[h] \in Seq(0 .. MaxRequests)
  BY DEF TypeOK
<1>2. /\ Len(pending) \in Nat /\ DOMAIN pending = 1 .. Len(pending)
      /\ \A i \in 1 .. Len(pending) : pending[i] \in 1 .. MaxRequests
  BY <1>1, LenProperties, ElementOfSeq
<1>3. ASSUME NEW h \in Handles
      PROVE  /\ Len(queue[h]) \in Nat /\ DOMAIN queue[h] = 1 .. Len(queue[h])
             /\ \A i \in 1 .. Len(queue[h]) : queue[h][i] \in 0 .. MaxRequests
  BY <1>1, LenProperties, ElementOfSeq
<1> QED
  BY <1>1, <1>2, <1>3

LEMMA QueueBound ==
  ASSUME TypeOK
  PROVE  \A h \in Handles : Len(queue[h]) <= MaxQueue /\ MaxQueue \in Nat
BY CtrlAssumption DEF TypeOK

LEMMA ShiftedSelf == ASSUME NEW S, NEW s \in Seq(S) PROVE Shifted(s, s)
<1>1. DOMAIN s = 1 .. Len(s) /\ Len(s) \in Nat
  BY LenProperties
<1>2. 0 \in Nat /\ \A i \in DOMAIN s : i + 0 \in DOMAIN s /\ s[i] = s[i + 0]
  BY <1>1
<1> QED
  BY <1>2 DEF Shifted

LEMMA ShiftedEmpty == ASSUME NEW t PROVE Shifted(<<>>, t)
<1>1. 0 \in Nat /\ \A i \in DOMAIN <<>> : i + 0 \in DOMAIN t /\ <<>>[i] = t[i + 0]
  OBVIOUS
<1> QED
  BY <1>1 DEF Shifted

LEMMA ShiftedTail ==
  ASSUME NEW S, NEW s \in Seq(S), s # <<>>
  PROVE  Shifted(Tail(s), s)
<1>1. /\ Tail(s) \in Seq(S) /\ Len(Tail(s)) = Len(s) - 1
      /\ \A i \in 1 .. Len(Tail(s)) : Tail(s)[i] = s[i + 1]
  BY HeadTailProperties
<1>2. /\ DOMAIN s = 1 .. Len(s) /\ Len(s) \in Nat
      /\ DOMAIN Tail(s) = 1 .. Len(Tail(s)) /\ Len(Tail(s)) \in Nat
  BY <1>1, LenProperties
<1>3. 1 \in Nat /\ \A i \in DOMAIN Tail(s) : i + 1 \in DOMAIN s /\ Tail(s)[i] = s[i + 1]
  BY <1>1, <1>2
<1> QED
  BY <1>3 DEF Shifted

\* Taking messages from the front of the queues keeps the order of the rest,
\* and brings nothing into flight.
LEMMA ShiftKeeps ==
  ASSUME TypeOK, TypeOK', PendingOrder, QueueOrder, NoneTwice, sent' = sent,
         Shifted(pending', pending), \A h \in Handles : Shifted(queue'[h], queue[h])
  PROVE  /\ \A i, j \in DOMAIN pending' : i < j => pending'[i] < pending'[j]
         /\ \A i \in DOMAIN pending' : pending'[i] <= sent'
         /\ \A h \in Handles : \A i \in DOMAIN queue'[h] :
              /\ queue'[h][i] <= sent'
              /\ \A j \in DOMAIN queue'[h] :
                   i < j /\ queue'[h][j] # Event => queue'[h][i] < queue'[h][j]
              /\ \A j \in DOMAIN pending' : queue'[h][i] < pending'[j]
         /\ NoneTwice'
         /\ InFlight' \subseteq InFlight
<1>1. PICK k \in Nat : \A i \in DOMAIN pending' :
                         i + k \in DOMAIN pending /\ pending'[i] = pending[i + k]
  BY DEF Shifted
<1>2. \A i \in DOMAIN pending' : i \in Int
  BY Sequences
<1>3. \A i, j \in DOMAIN pending' : i < j => pending'[i] < pending'[j]
  BY <1>1, <1>2 DEF PendingOrder
<1>4. \A i \in DOMAIN pending' : pending'[i] <= sent'
  BY <1>1 DEF PendingOrder
<1>5. ASSUME NEW h \in Handles, NEW i \in DOMAIN queue'[h]
      PROVE  /\ queue'[h][i] <= sent'
             /\ \A j \in DOMAIN queue'[h] :
                  i < j /\ queue'[h][j] # Event => queue'[h][i] < queue'[h][j]
             /\ \A j \in DOMAIN pending' : queue'[h][i] < pending'[j]
             /\ \E n \in DOMAIN queue[h] : queue'[h][i] = queue[h][n]
  <2>1. PICK m \in Nat : \A n \in DOMAIN queue'[h] :
                           n + m \in DOMAIN queue[h] /\ queue'[h][n] = queue[h][n + m]
    BY DEF Shifted
  <2>2. \A n \in DOMAIN queue'[h] : n \in Int
    <3>1. DOMAIN queue'[h] = 1 .. Len(queue'[h])
      BY Sequences
    <3> QED
      BY <3>1
  <2>3. queue'[h][i] <= sent'
    BY <2>1 DEF QueueOrder
  <2>4. ASSUME NEW j \in DOMAIN queue'[h], i < j, queue'[h][j] # Event
        PROVE  queue'[h][i] < queue'[h][j]
    <3>1. i + m < j + m
      BY <2>2, <2>4
    <3> QED
      BY <2>1, <2>4, <3>1 DEF QueueOrder
  <2>5. \A j \in DOMAIN pending' : queue'[h][i] < pending'[j]
    BY <1>1, <2>1 DEF QueueOrder
  <2> QED
    BY <2>1, <2>3, <2>4, <2>5
<1>6. NoneTwice'
  <2> SUFFICES ASSUME NEW g \in Handles, NEW h \in Handles, g # h,
                      NEW i \in DOMAIN queue'[g], NEW j \in DOMAIN queue'[h],
                      queue'[g][i] # Event
               PROVE  queue'[g][i] # queue'[h][j]
    BY DEF NoneTwice
  <2>1. PICK a \in DOMAIN queue[g] : queue'[g][i] = queue[g][a]
    BY <1>5
  <2>2. PICK b \in DOMAIN queue[h] : queue'[h][j] = queue[h][b]
    BY <1>5
  <2> QED
    BY <2>1, <2>2 DEF NoneTwice
<1>7. InFlight' \subseteq InFlight
  <2> SUFFICES ASSUME NEW m \in InFlight' PROVE m \in InFlight
    OBVIOUS
  <2>1. CASE \E i \in DOMAIN pending' : m = pending'[i]
    BY <1>1, <2>1 DEF InFlight
  <2>2. CASE \E h \in Handles : \E i \in DOMAIN queue'[h] : m = queue'[h][i]
    BY <1>5, <2>2 DEF InFlight
  <2> QED
    BY <2>1, <2>2 DEF InFlight
<1> QED
  BY <1>3, <1>4, <1>5, <1>6, <1>7

\* The steps that only take messages away and forget answers at most.
LEMMA OnlyShifted ==
  ASSUME IInv, TypeOK', sent' = sent,
         Shifted(pending', pending), \A h \in Handles : Shifted(queue'[h], queue[h]),
         \A h \in Handles : answered'[h] <= answered[h],
         gaveUp' \/ (gaveUp' = gaveUp /\ cur' = cur)
  PROVE  PendingOrder' /\ QueueOrder' /\ NoneTwice' /\ OnlyCurrent'
<1> USE DEF IInv
<1>1. /\ \A i, j \in DOMAIN pending' : i < j => pending'[i] < pending'[j]
      /\ \A i \in DOMAIN pending' : pending'[i] <= sent'
      /\ \A h \in Handles : \A i \in DOMAIN queue'[h] :
           /\ queue'[h][i] <= sent'
           /\ \A j \in DOMAIN queue'[h] :
                i < j /\ queue'[h][j] # Event => queue'[h][i] < queue'[h][j]
           /\ \A j \in DOMAIN pending' : queue'[h][i] < pending'[j]
      /\ NoneTwice'
      /\ InFlight' \subseteq InFlight
  BY ShiftKeeps
<1>2. \A h \in Handles : answered[h] \in Int /\ answered'[h] \in Int
  BY DEF TypeOK
<1>3. ASSUME NEW i \in DOMAIN pending', NEW h \in Handles PROVE answered'[h] < pending'[i]
  <2>1. PICK n \in DOMAIN pending : pending'[i] = pending[n]
    BY <1>3 DEF Shifted
  <2>2. answered[h] < pending[n] /\ pending[n] \in Int
    BY <2>1, Sequences DEF PendingOrder
  <2> QED
    BY <1>2, <2>1, <2>2
<1>4. ASSUME NEW h \in Handles, NEW i \in DOMAIN queue'[h], queue'[h][i] # Event
      PROVE  answered'[h] < queue'[h][i]
  <2>1. PICK n \in DOMAIN queue[h] : queue'[h][i] = queue[h][n]
    BY <1>4 DEF Shifted
  <2>2. answered[h] < queue[h][n] /\ queue[h][n] \in Int
    BY <1>4, <2>1, Sequences DEF QueueOrder
  <2> QED
    BY <1>2, <2>1, <2>2
<1>5. PendingOrder'
  BY <1>1, <1>3 DEF PendingOrder
<1>6. QueueOrder'
  BY <1>1, <1>4 DEF QueueOrder, Event
<1>7. OnlyCurrent'
  BY <1>1 DEF OnlyCurrent, Event
<1> QED
  BY <1>1, <1>5, <1>6, <1>7

-----------------------------------------------------------------------------
LEMMA InitInv == Init => IInv
<1> SUFFICES ASSUME Init PROVE IInv
  OBVIOUS
<1>1. TypeOK
  <2>1. /\ <<>> \in Seq(0 .. MaxRequests) /\ <<>> \in Seq(1 .. MaxRequests)
        /\ Len(<<>>) = 0 /\ 0 <= MaxQueue /\ 0 \in 0 .. MaxRequests
    BY CtrlAssumption, EmptySeq
  <2>2. waited \in 0 .. Patience
    BY CtrlAssumption DEF Init
  <2> QED
    BY <2>1, <2>2 DEF Init, TypeOK, Codes
<1>2. NoDeadSocket /\ Sent
  BY CtrlAssumption DEF Init, NoDeadSocket, Sent
<1>4. PendingOrder /\ QueueOrder /\ NoneTwice
  BY DEF Init, PendingOrder, QueueOrder, NoneTwice
<1>3. InFlight = {}
  BY DEF Init, InFlight
<1>5. OnlyCurrent
  BY <1>3 DEF OnlyCurrent
<1> QED
  BY <1>1, <1>2, <1>4, <1>5 DEF IInv

\* No wait lasts longer than its time.
LEMMA WaitedStep == ASSUME TypeOK, Next PROVE waited' \in 0 .. Patience
<1>1. waited \in 0 .. Patience /\ 0 \in 0 .. Patience
  BY CtrlAssumption DEF TypeOK
<1>2. waited' \in {waited, 0} \/ Elapse
  BY DEF Next, Open, OpenFailed, Close, Send, SendFailed, HandOver, ReturnAnswer, Interrupted,
         TimeOut, WaitFailed, Crash, Answer, Announce, Restart
<1>3. CASE Elapse
  BY <1>1, <1>3, CtrlAssumption DEF Elapse
<1> QED
  BY <1>1, <1>2, <1>3

\* Every step keeps the types.
LEMMA TypeStep == ASSUME TypeOK, NoDeadSocket, Next PROVE TypeOK'
<1>0. waited' \in 0 .. Patience
  BY WaitedStep
<1> USE CtrlAssumption DEF TypeOK, Codes, sockets, history
<1>1. ASSUME NEW h \in Handles, Open(h) \/ OpenFailed(h) \/ Close(h) PROVE TypeOK'
  <2>1. /\ queue' \in [Handles -> Seq(0 .. MaxRequests)]
        /\ \A g \in Handles : Len(queue'[g]) <= MaxQueue
    <3>1. <<>> \in Seq(0 .. MaxRequests) /\ Len(<<>>) = 0 /\ 0 <= MaxQueue
      BY EmptySeq
    <3>2. queue' = queue \/ queue' = [queue EXCEPT ![h] = <<>>]
      BY <1>1 DEF Open, OpenFailed, Close
    <3> QED
      BY <3>1, <3>2
  <2>2. answered' \in [Handles -> 0 .. MaxRequests]
    <3>1. answered' = answered \/ answered' = [answered EXCEPT ![h] = 0]
      BY <1>1 DEF Open, OpenFailed, Close
    <3>2. 0 \in 0 .. MaxRequests
      OBVIOUS
    <3> QED
      BY <3>1, <3>2
  <2>3. open' \subseteq Handles /\ connected' \subseteq open' /\ owner' \in Handles \cup {None, Left}
    BY <1>1 DEF Open, OpenFailed, Close
  <2>4. /\ cur' \in open' \cup {None} /\ code' \in Codes /\ gaveUp' \in BOOLEAN
        /\ UNCHANGED <<pending, sent, waited>>
    BY <1>1 DEF Open, OpenFailed, Close
  <2> QED
    BY <1>0, <2>1, <2>2, <2>3, <2>4
<1>2. ASSUME NEW h \in Handles, Send(h) PROVE TypeOK'
  <2>1. sent' \in 0 .. MaxRequests /\ sent + 1 \in 1 .. MaxRequests
    BY <1>2 DEF Send
  <2>2. pending' \in Seq(1 .. MaxRequests) /\ Len(pending') = Len(pending) + 1
    BY <1>2, <2>1, AppendProperties DEF Send
  <2>3. Len(pending') <= MaxQueue
    BY <1>2, <2>2, Sequences DEF Send
  <2> QED
    BY <1>0, <1>2, <2>1, <2>2, <2>3 DEF Send
<1>3. ASSUME NEW h \in Handles, SendFailed(h) PROVE TypeOK'
  BY <1>3 DEF SendFailed
<1>4. CASE HandOver \/ ReturnAnswer
  <2>1. /\ cur \in Handles /\ queue[cur] # <<>>
        /\ queue' = [queue EXCEPT ![cur] = Tail(queue[cur])]
        /\ UNCHANGED <<open, connected, owner, pending, sent, gaveUp>>
    BY <1>4 DEF HandOver, ReturnAnswer
  <2>2. /\ Head(queue[cur]) \in 0 .. MaxRequests
        /\ Tail(queue[cur]) \in Seq(0 .. MaxRequests)
        /\ Len(Tail(queue[cur])) = Len(queue[cur]) - 1 /\ Len(queue[cur]) \in Nat
    BY <2>1, HeadTailProperties, Sequences
  <2>3. queue' \in [Handles -> Seq(0 .. MaxRequests)]
    BY <2>1, <2>2
  <2>4. \A h \in Handles : Len(queue'[h]) <= MaxQueue
    <3>1. Len(Tail(queue[cur])) <= MaxQueue
      BY <2>1, <2>2, QueueBound
    <3> QED
      BY <2>1, <3>1, QueueBound
  <2>5. answered' \in [Handles -> 0 .. MaxRequests] /\ cur' \in {cur, None} /\ code' \in Codes
    BY <1>4, <2>2 DEF HandOver, ReturnAnswer
  <2>6. /\ open' \subseteq Handles /\ connected' \subseteq open'
        /\ owner' \in Handles \cup {None, Left} /\ cur' \in open' \cup {None}
    BY <2>1, <2>5
  <2>7. /\ pending' \in Seq(1 .. MaxRequests) /\ Len(pending') <= MaxQueue
        /\ sent' \in 0 .. MaxRequests /\ gaveUp' \in BOOLEAN
    BY <2>1
  <2> HIDE DEF Codes
  <2> QED
    BY <1>0, <2>3, <2>4, <2>5, <2>6, <2>7
<1>5. CASE TimeOut \/ WaitFailed \/ Elapse \/ Interrupted
  BY <1>0, <1>5 DEF TimeOut, WaitFailed, Elapse, Interrupted
<1>6. CASE Crash
  BY <1>0, <1>6 DEF Crash
<1>7. ASSUME NEW m \in 0 .. MaxRequests, queue' = Delivered(m)
      PROVE  /\ queue' \in [Handles -> Seq(0 .. MaxRequests)]
             /\ \A h \in Handles : Len(queue'[h]) <= MaxQueue
  <2>1. CASE Reaches
    <3>1. owner \in Handles /\ queue' = [queue EXCEPT ![owner] = Append(queue[owner], m)]
      BY <1>7, <2>1 DEF Reaches, Delivered
    <3>2. /\ Append(queue[owner], m) \in Seq(0 .. MaxRequests)
          /\ Len(Append(queue[owner], m)) = Len(queue[owner]) + 1
          /\ Len(queue[owner]) \in Nat /\ Len(queue[owner]) < MaxQueue
      BY <2>1, <3>1, AppendProperties, Sequences DEF Reaches
    <3>3. Len(Append(queue[owner], m)) <= MaxQueue
      BY <3>2
    <3> QED
      BY <3>1, <3>2, <3>3
  <2>2. CASE ~Reaches
    BY <1>7, <2>2 DEF Delivered
  <2> QED
    BY <2>1, <2>2
<1>8. CASE Answer
  <2>1. /\ Head(pending) \in 0 .. MaxRequests
        /\ Tail(pending) \in Seq(1 .. MaxRequests)
        /\ Len(Tail(pending)) = Len(pending) - 1 /\ Len(pending) \in Nat
    BY <1>8, HeadTailProperties, Sequences DEF Answer
  <2>2. Len(Tail(pending)) <= MaxQueue
    BY <2>1
  <2> QED
    BY <1>0, <1>7, <1>8, <2>1, <2>2 DEF Answer
<1>9. CASE Announce
  BY <1>7, <1>9 DEF Announce, Event
<1>10. CASE Restart
  BY <1>10 DEF Restart
<1> QED
  BY <1>1, <1>2, <1>3, <1>4, <1>5, <1>6, <1>8, <1>9, <1>10 DEF Next

LEMMA DeadStep == ASSUME TypeOK, NoDeadSocket, Next PROVE NoDeadSocket'
BY CtrlAssumption
   DEF NoDeadSocket, Next, Open, OpenFailed, Close, Send, SendFailed, HandOver, ReturnAnswer,
       Elapse, Interrupted, TimeOut, WaitFailed, Crash, Answer, Announce, Restart, sockets, TypeOK

-----------------------------------------------------------------------------
\* The steps that add a message, and the one that returns an answer.
LEMMA SendInv ==
  ASSUME IInv, TypeOK', NEW h \in Handles, Send(h)
  PROVE  PendingOrder' /\ QueueOrder' /\ NoneTwice' /\ OnlyCurrent'
<1> DEFINE n == Len(pending) + 1
<1>1. /\ sent \in Int /\ sent' = sent + 1 /\ cur = None /\ cur' = h
      /\ UNCHANGED <<queue, answered, gaveUp>> /\ h # None
  BY CtrlAssumption DEF Send, IInv, TypeOK, history
<1>2. /\ DOMAIN pending' = 1 .. n /\ DOMAIN pending = 1 .. Len(pending) /\ Len(pending) \in Nat
      /\ \A i \in 1 .. Len(pending) : pending'[i] = pending[i]
      /\ pending'[n] = sent + 1
  <2>1. /\ pending \in Seq(1 .. MaxRequests) /\ sent + 1 \in 1 .. MaxRequests
        /\ pending' = Append(pending, sent + 1)
    BY CtrlAssumption DEF Send, IInv, TypeOK
  <2> QED
    BY <2>1, AppendProperties, LenProperties
<1>3. /\ \A i \in DOMAIN pending : pending[i] \in Int /\ pending[i] <= sent
      /\ \A g \in Handles : answered[g] \in Int /\ answered[g] <= sent
      /\ \A g \in Handles : \A i \in DOMAIN queue[g] : queue[g][i] \in Int /\ queue[g][i] <= sent
  <2>1. \A g \in Handles : answered[g] \in 0 .. MaxRequests
    BY DEF IInv, TypeOK
  <2>2. \A g \in Handles : answered[g] <= sent
    BY DEF IInv, Sent
  <2> QED
    BY <2>1, <2>2, Sequences DEF IInv, PendingOrder, QueueOrder
<1>4. PendingOrder'
  <2>1. ASSUME NEW i \in 1 .. n, NEW j \in 1 .. n, i < j PROVE pending'[i] < pending'[j]
    <3>1. i \in 1 .. Len(pending)
      BY <1>2, <2>1
    <3>2. CASE j = n
      BY <1>1, <1>2, <1>3, <3>1, <3>2
    <3>3. CASE j # n
      <4>1. j \in 1 .. Len(pending)
        BY <1>2, <3>3
      <4> QED
        BY <1>2, <2>1, <3>1, <4>1 DEF IInv, PendingOrder
    <3> QED
      BY <3>2, <3>3
  <2>2. ASSUME NEW i \in 1 .. n
        PROVE  pending'[i] <= sent' /\ \A g \in Handles : answered'[g] < pending'[i]
    <3>1. CASE i = n
      BY <1>1, <1>2, <1>3, <3>1
    <3>2. CASE i # n
      <4>1. i \in 1 .. Len(pending)
        BY <1>2, <3>2
      <4> QED
        BY <1>1, <1>2, <1>3, <4>1 DEF IInv, PendingOrder
    <3> QED
      BY <3>1, <3>2
  <2> QED
    BY <1>2, <2>1, <2>2 DEF PendingOrder
<1>5. QueueOrder'
  <2>1. ASSUME NEW g \in Handles, NEW i \in DOMAIN queue[g], NEW j \in 1 .. n
        PROVE  queue[g][i] < pending'[j]
    <3>1. CASE j = n
      BY <1>1, <1>2, <1>3, <3>1
    <3>2. CASE j # n
      <4>1. j \in 1 .. Len(pending)
        BY <1>2, <3>2
      <4> QED
        BY <1>2, <4>1 DEF IInv, QueueOrder
    <3> QED
      BY <3>1, <3>2
  <2>2. ASSUME NEW g \in Handles, NEW i \in DOMAIN queue[g] PROVE queue[g][i] <= sent'
    BY <1>1, <1>3
  <2> QED
    BY <1>1, <1>2, <2>1, <2>2 DEF IInv, QueueOrder, Event
<1>6. NoneTwice'
  BY <1>1 DEF IInv, NoneTwice, Event
<1>7. OnlyCurrent'
  <2> SUFFICES ASSUME ~gaveUp, NEW m \in InFlight', m # Event PROVE m = sent + 1
    BY <1>1 DEF OnlyCurrent, Event
  <2>1. m \notin InFlight
    BY <1>1 DEF IInv, OnlyCurrent
  <2>2. PICK i \in DOMAIN pending' : m = pending'[i]
    BY <1>1, <2>1 DEF InFlight
  <2>3. i \notin 1 .. Len(pending)
    BY <1>2, <2>1, <2>2 DEF InFlight
  <2> QED
    BY <1>2, <2>2, <2>3
<1> QED
  BY <1>4, <1>5, <1>6, <1>7

\* What a message put at the end of the owner's queue does.
LEMMA Appended ==
  ASSUME TypeOK, NEW m \in 0 .. MaxRequests, queue' = Delivered(m)
  PROVE  \/ queue' = queue
         \/ /\ owner \in Handles /\ Reaches
            /\ \A h \in Handles : h # owner => queue'[h] = queue[h]
            /\ DOMAIN queue'[owner] = 1 .. Len(queue[owner]) + 1
            /\ \A i \in DOMAIN queue[owner] : queue'[owner][i] = queue[owner][i]
            /\ queue'[owner][Len(queue[owner]) + 1] = m
<1>1. CASE ~Reaches
  <2>1. Delivered(m) = queue
    BY <1>1, SMT DEF Delivered
  <2> QED
    BY <2>1, Zenon
<1>2. CASE Reaches
  <2>1. owner \in Handles /\ queue' = [queue EXCEPT ![owner] = Append(queue[owner], m)]
    BY <1>2 DEF Reaches, Delivered, TypeOK
  <2>2. queue'[owner] = Append(queue[owner], m) /\ queue[owner] \in Seq(0 .. MaxRequests)
    BY <2>1 DEF TypeOK
  <2>3. /\ DOMAIN queue'[owner] = 1 .. Len(queue[owner]) + 1
        /\ \A i \in 1 .. Len(queue[owner]) : queue'[owner][i] = queue[owner][i]
        /\ queue'[owner][Len(queue[owner]) + 1] = m
        /\ DOMAIN queue[owner] = 1 .. Len(queue[owner])
    BY <2>2, AppendProperties, LenProperties
  <2> QED
    BY <1>2, <2>1, <2>3, Zenon DEF TypeOK
<1> QED
  BY <1>1, <1>2

\* The supplicant's answer moves from the head of pending to a queue or is lost.
LEMMA AnswerInv ==
  ASSUME IInv, TypeOK', Answer
  PROVE  PendingOrder' /\ QueueOrder' /\ NoneTwice' /\ OnlyCurrent'
<1> DEFINE m == pending[1]
<1>1. /\ m \in 1 .. MaxRequests /\ Head(pending) = m /\ Shifted(pending', pending)
      /\ 1 \in DOMAIN pending /\ DOMAIN pending' = 1 .. Len(pending) - 1
      /\ \A i \in DOMAIN pending' : i + 1 \in DOMAIN pending /\ pending'[i] = pending[i + 1]
  <2>1. /\ pending \in Seq(1 .. MaxRequests) /\ pending # <<>>
        /\ pending' = Tail(pending)
    BY DEF IInv, TypeOK, Answer
  <2>2. /\ pending' \in Seq(1 .. MaxRequests) /\ Len(pending') = Len(pending) - 1
        /\ \A i \in 1 .. Len(pending') : pending'[i] = pending[i + 1]
        /\ Len(pending) \in Nat \ {0} /\ DOMAIN pending = 1 .. Len(pending)
        /\ DOMAIN pending' = 1 .. Len(pending') /\ Head(pending) = pending[1]
    BY <2>1, HeadTailProperties, LenProperties, EmptySeq
  <2>3. Shifted(pending', pending)
    BY <2>1, ShiftedTail
  <2>4. pending[1] \in 1 .. MaxRequests
    BY <2>2, Sequences DEF IInv
  <2> QED
    BY <2>2, <2>3, <2>4
<1>2. /\ queue' = Delivered(m) /\ m \in 0 .. MaxRequests
      /\ UNCHANGED <<cur, sent, answered, gaveUp>>
  BY <1>1 DEF Answer, history
<1>3. CASE queue' = queue
  <2>1. \A h \in Handles : Shifted(queue'[h], queue[h])
    BY <1>3, ShiftedSelf, Sequences DEF IInv
  <2>2. \A h \in Handles : answered'[h] <= answered[h]
    BY <1>2 DEF IInv, TypeOK
  <2> QED
    BY <1>1, <1>2, <2>1, <2>2, OnlyShifted
<1>4. CASE /\ owner \in Handles
           /\ \A h \in Handles : h # owner => queue'[h] = queue[h]
           /\ DOMAIN queue'[owner] = 1 .. Len(queue[owner]) + 1
           /\ \A i \in DOMAIN queue[owner] : queue'[owner][i] = queue[owner][i]
           /\ queue'[owner][Len(queue[owner]) + 1] = m
  <2> DEFINE last == Len(queue[owner]) + 1
  <2>1. /\ Len(queue[owner]) \in Nat /\ DOMAIN queue[owner] = 1 .. Len(queue[owner])
        /\ last \notin DOMAIN queue[owner]
    BY <1>4, Sequences DEF IInv
  <2>2. ASSUME NEW h \in Handles, NEW i \in DOMAIN queue'[h]
        PROVE  \/ h = owner /\ i = last /\ queue'[h][i] = m
               \/ i \in DOMAIN queue[h] /\ queue'[h][i] = queue[h][i]
    BY <1>4, <2>1, <2>2
  <2>3. \A j \in DOMAIN pending' : m < pending'[j]
    <3>1. \A j \in DOMAIN pending' : 1 < j + 1
      BY <1>1
    <3> QED
      BY <1>1, <3>1 DEF IInv, PendingOrder
  <2>4. /\ m <= sent /\ m # Event /\ m \in Int
        /\ \A h \in Handles : answered[h] < m
        /\ \A h \in Handles : \A i \in DOMAIN queue[h] : queue[h][i] < m /\ queue[h][i] \in Int
    BY <1>1, Sequences DEF IInv, PendingOrder, QueueOrder, Event
  <2>5. PendingOrder'
    <3>1. \A i, j \in DOMAIN pending' : i < j => pending'[i] < pending'[j]
      <4>1. \A i, j \in DOMAIN pending' : i < j => i + 1 < j + 1
        BY <1>1
      <4> QED
        BY <1>1, <4>1 DEF IInv, PendingOrder
    <3> QED
      BY <1>1, <1>2, <3>1 DEF IInv, PendingOrder
  <2>6. QueueOrder'
    <3>1. ASSUME NEW h \in Handles, NEW i \in DOMAIN queue'[h]
          PROVE  /\ queue'[h][i] <= sent'
                 /\ queue'[h][i] # Event => answered'[h] < queue'[h][i]
                 /\ \A j \in DOMAIN pending' : queue'[h][i] < pending'[j]
      <4>1. CASE queue'[h][i] = m
        BY <1>2, <2>3, <2>4, <4>1
      <4>2. CASE i \in DOMAIN queue[h] /\ queue'[h][i] = queue[h][i]
        BY <1>1, <1>2, <4>2 DEF IInv, QueueOrder
      <4> QED
        BY <2>2, <3>1, <4>1, <4>2
    <3>2. ASSUME NEW h \in Handles, NEW i \in DOMAIN queue'[h], NEW j \in DOMAIN queue'[h],
                 i < j, queue'[h][j] # Event
          PROVE  queue'[h][i] < queue'[h][j]
      <4>1. CASE h = owner /\ j = last /\ queue'[h][j] = m
        <5>1. i \in DOMAIN queue[h] /\ queue'[h][i] = queue[h][i]
          BY <2>1, <2>2, <3>2, <4>1
        <5> QED
          BY <2>4, <4>1, <5>1
      <4>2. CASE j \in DOMAIN queue[h] /\ queue'[h][j] = queue[h][j]
        <5>1. i \in DOMAIN queue[h] /\ queue'[h][i] = queue[h][i]
          BY <2>1, <2>2, <3>2, <4>2
        <5> QED
          BY <3>2, <4>2, <5>1 DEF IInv, QueueOrder
      <4> QED
        BY <2>2, <4>1, <4>2
    <3> QED
      BY <3>1, <3>2 DEF QueueOrder, Event
  <2>7. NoneTwice'
    <3> SUFFICES ASSUME NEW g \in Handles, NEW h \in Handles, g # h,
                        NEW i \in DOMAIN queue'[g], NEW j \in DOMAIN queue'[h],
                        queue'[g][i] # Event
                 PROVE  queue'[g][i] # queue'[h][j]
      BY DEF NoneTwice, Event
    <3>1. CASE g = owner /\ queue'[g][i] = m
      BY <2>2, <2>4, <3>1
    <3>2. CASE h = owner /\ queue'[h][j] = m
      BY <2>2, <2>4, <3>2
    <3>3. CASE /\ i \in DOMAIN queue[g] /\ queue'[g][i] = queue[g][i]
               /\ j \in DOMAIN queue[h] /\ queue'[h][j] = queue[h][j]
      BY <3>3 DEF IInv, NoneTwice
    <3> QED
      BY <2>2, <3>1, <3>2, <3>3
  <2>8. OnlyCurrent'
    <3>1. InFlight' \subseteq InFlight
      <4> SUFFICES ASSUME NEW x \in InFlight' PROVE x \in InFlight
        OBVIOUS
      <4>1. m \in InFlight
        BY <1>1 DEF InFlight
      <4>2. CASE \E i \in DOMAIN pending' : x = pending'[i]
        BY <1>1, <4>2 DEF InFlight
      <4>3. CASE \E h \in Handles : \E i \in DOMAIN queue'[h] : x = queue'[h][i]
        BY <2>2, <4>1, <4>3 DEF InFlight
      <4> QED
        BY <4>2, <4>3 DEF InFlight
    <3> QED
      BY <1>2, <3>1 DEF IInv, OnlyCurrent, Event
  <2> QED
    BY <2>5, <2>6, <2>7, <2>8
<1> QED
  BY <1>2, <1>3, <1>4, Appended DEF IInv

\* An unsolicited message is no answer.
LEMMA AnnounceInv ==
  ASSUME IInv, TypeOK', Announce
  PROVE  PendingOrder' /\ QueueOrder' /\ NoneTwice' /\ OnlyCurrent'
<1>1. /\ queue' = Delivered(Event) /\ Event \in 0 .. MaxRequests
      /\ UNCHANGED <<pending, cur, sent, answered, gaveUp>>
  BY CtrlAssumption DEF Announce, history, Event
<1>2. ASSUME NEW h \in Handles, NEW i \in DOMAIN queue'[h]
      PROVE  \/ i \in DOMAIN queue[h] /\ queue'[h][i] = queue[h][i]
             \/ /\ queue'[h][i] = Event
                /\ \A j \in DOMAIN queue[h] : i > j /\ j \in DOMAIN queue'[h]
                /\ \A j \in DOMAIN queue'[h] : j <= i
  <2>1. /\ \A g \in Handles : DOMAIN queue[g] = 1 .. Len(queue[g]) /\ Len(queue[g]) \in Nat
        /\ TypeOK
    BY Sequences DEF IInv
  <2>2. CASE queue' = queue
    BY <1>2, <2>2
  <2>3. CASE /\ owner \in Handles
             /\ \A g \in Handles : g # owner => queue'[g] = queue[g]
             /\ DOMAIN queue'[owner] = 1 .. Len(queue[owner]) + 1
             /\ \A n \in DOMAIN queue[owner] : queue'[owner][n] = queue[owner][n]
             /\ queue'[owner][Len(queue[owner]) + 1] = Event
    BY <1>2, <2>1, <2>3
  <2> QED
    BY <1>1, <2>1, <2>2, <2>3, Appended
<1>3. /\ sent \in Int /\ sent >= 0
      /\ \A i \in DOMAIN pending : pending[i] \in Int /\ pending[i] > 0
      /\ \A h \in Handles : \A i \in DOMAIN queue'[h] : i \in Int
  <2>1. sent \in Int /\ sent >= 0
    BY CtrlAssumption DEF IInv, TypeOK
  <2>2. \A i \in DOMAIN pending : pending[i] \in 1 .. MaxRequests
    BY Sequences DEF IInv
  <2>3. \A h \in Handles : DOMAIN queue'[h] = 1 .. Len(queue'[h])
    BY Sequences
  <2> QED
    BY <2>1, <2>2, <2>3
<1>4. PendingOrder'
  BY <1>1 DEF IInv, PendingOrder
<1>5. QueueOrder'
  <2>1. ASSUME NEW h \in Handles, NEW i \in DOMAIN queue'[h]
        PROVE  /\ queue'[h][i] <= sent'
               /\ queue'[h][i] # Event => answered'[h] < queue'[h][i]
               /\ \A j \in DOMAIN pending' : queue'[h][i] < pending'[j]
    <3>1. CASE queue'[h][i] = Event
      BY <1>1, <1>3, <3>1 DEF Event
    <3>2. CASE i \in DOMAIN queue[h] /\ queue'[h][i] = queue[h][i]
      BY <1>1, <3>2 DEF IInv, QueueOrder
    <3> QED
      BY <1>2, <2>1, <3>1, <3>2
  <2>2. ASSUME NEW h \in Handles, NEW i \in DOMAIN queue'[h], NEW j \in DOMAIN queue'[h],
               i < j, queue'[h][j] # Event
        PROVE  queue'[h][i] < queue'[h][j]
    <3>1. j \in DOMAIN queue[h] /\ queue'[h][j] = queue[h][j]
      BY <1>2, <2>2
    <3>2. i \in DOMAIN queue[h] /\ queue'[h][i] = queue[h][i]
      BY <1>2, <1>3, <2>2, <3>1
    <3> QED
      BY <2>2, <3>1, <3>2 DEF IInv, QueueOrder
  <2> QED
    BY <2>1, <2>2 DEF QueueOrder, Event
<1>6. NoneTwice'
  <2> SUFFICES ASSUME NEW g \in Handles, NEW h \in Handles, g # h,
                      NEW i \in DOMAIN queue'[g], NEW j \in DOMAIN queue'[h],
                      queue'[g][i] # Event
               PROVE  queue'[g][i] # queue'[h][j]
    BY DEF NoneTwice, Event
  <2>1. i \in DOMAIN queue[g] /\ queue'[g][i] = queue[g][i]
    BY <1>2
  <2>2. CASE j \in DOMAIN queue[h] /\ queue'[h][j] = queue[h][j]
    BY <2>1, <2>2 DEF IInv, NoneTwice
  <2>3. CASE queue'[h][j] = Event
    BY <2>3
  <2> QED
    BY <1>2, <2>2, <2>3
<1>7. OnlyCurrent'
  <2>1. ASSUME NEW x \in InFlight', x # Event PROVE x \in InFlight
    <3>1. CASE \E i \in DOMAIN pending' : x = pending'[i]
      BY <1>1, <3>1 DEF InFlight
    <3>2. CASE \E h \in Handles : \E i \in DOMAIN queue'[h] : x = queue'[h][i]
      BY <1>2, <2>1, <3>2 DEF InFlight
    <3> QED
      BY <2>1, <3>1, <3>2 DEF InFlight
  <2> QED
    BY <1>1, <2>1 DEF IInv, OnlyCurrent, Event
<1> QED
  BY <1>4, <1>5, <1>6, <1>7

\* What both readers of the socket find at its front.
LEMMA Front ==
  ASSUME IInv, cur # None, queue[cur] # <<>>, queue' = [queue EXCEPT ![cur] = Tail(@)],
         pending' = pending
  PROVE  /\ cur \in Handles /\ 1 \in DOMAIN queue[cur] /\ Head(queue[cur]) = queue[cur][1]
         /\ \A i \in DOMAIN queue'[cur] :
              i + 1 \in DOMAIN queue[cur] /\ queue'[cur][i] = queue[cur][i + 1] /\ 1 < i + 1
         /\ \A h \in Handles : h # cur => queue'[h] = queue[h]
         /\ \A h \in Handles : Shifted(queue'[h], queue[h])
         /\ Shifted(pending', pending)
<1>1. cur \in Handles /\ queue[cur] \in Seq(0 .. MaxRequests)
  BY DEF IInv, TypeOK
<1>2. queue'[cur] = Tail(queue[cur]) /\ \A h \in Handles : h # cur => queue'[h] = queue[h]
  BY <1>1 DEF IInv, TypeOK
<1>3. /\ queue'[cur] \in Seq(0 .. MaxRequests) /\ Len(queue'[cur]) = Len(queue[cur]) - 1
      /\ \A i \in 1 .. Len(queue'[cur]) : queue'[cur][i] = queue[cur][i + 1]
      /\ Len(queue[cur]) \in Nat \ {0} /\ DOMAIN queue[cur] = 1 .. Len(queue[cur])
      /\ DOMAIN queue'[cur] = 1 .. Len(queue'[cur])
  <2> DEFINE s == queue[cur]
  <2>1. s \in Seq(0 .. MaxRequests) /\ s # <<>>
    BY <1>1
  <2> HIDE DEF s
  <2>2. /\ Tail(s) \in Seq(0 .. MaxRequests) /\ Len(Tail(s)) = Len(s) - 1
        /\ \A i \in 1 .. Len(Tail(s)) : Tail(s)[i] = s[i + 1]
    BY <2>1, HeadTailProperties
  <2>3. /\ Len(s) \in Nat \ {0} /\ DOMAIN s = 1 .. Len(s)
        /\ DOMAIN Tail(s) = 1 .. Len(Tail(s))
    BY <2>1, <2>2, LenProperties, EmptySeq
  <2> QED
    BY <1>2, <2>2, <2>3 DEF s
<1>4. Head(queue[cur]) = queue[cur][1]
  BY <1>1, <1>3
<1>5. \A h \in Handles : Shifted(queue'[h], queue[h])
  BY <1>1, <1>2, ShiftedTail, ShiftedSelf, Sequences DEF IInv
<1>6. Shifted(pending', pending)
  BY ShiftedSelf, Sequences DEF IInv
<1> QED
  BY <1>1, <1>2, <1>3, <1>4, <1>5, <1>6

LEMMA ReturnAnswerInv ==
  ASSUME IInv, TypeOK', ReturnAnswer
  PROVE  PendingOrder' /\ QueueOrder' /\ NoneTwice' /\ OnlyCurrent' /\ Sent'
<1> DEFINE m == queue[cur][1]
<1>1. /\ cur # None /\ queue[cur] # <<>> /\ Head(queue[cur]) # Event
      /\ queue' = [queue EXCEPT ![cur] = Tail(@)] /\ pending' = pending
      /\ UNCHANGED <<sent, gaveUp>> /\ cur' = None
  BY DEF ReturnAnswer
<1>2. /\ cur \in Handles /\ 1 \in DOMAIN queue[cur] /\ Head(queue[cur]) = m
      /\ \A i \in DOMAIN queue'[cur] :
           i + 1 \in DOMAIN queue[cur] /\ queue'[cur][i] = queue[cur][i + 1] /\ 1 < i + 1
      /\ \A h \in Handles : h # cur => queue'[h] = queue[h]
      /\ \A h \in Handles : Shifted(queue'[h], queue[h])
      /\ Shifted(pending', pending)
  BY <1>1, Front
<1>3. /\ \A i, j \in DOMAIN pending' : i < j => pending'[i] < pending'[j]
      /\ \A i \in DOMAIN pending' : pending'[i] <= sent'
      /\ \A h \in Handles : \A i \in DOMAIN queue'[h] :
           /\ queue'[h][i] <= sent'
           /\ \A j \in DOMAIN queue'[h] :
                i < j /\ queue'[h][j] # Event => queue'[h][i] < queue'[h][j]
           /\ \A j \in DOMAIN pending' : queue'[h][i] < pending'[j]
      /\ NoneTwice'
      /\ InFlight' \subseteq InFlight
  BY <1>1, <1>2, ShiftKeeps DEF IInv
<1>4. /\ answered'[cur] = m /\ \A h \in Handles : h # cur => answered'[h] = answered[h]
      /\ m # Event
  BY <1>1, <1>2 DEF ReturnAnswer, IInv, TypeOK
<1>5. PendingOrder'
  <2>1. ASSUME NEW i \in DOMAIN pending', NEW h \in Handles PROVE answered'[h] < pending'[i]
    BY <1>1, <1>2, <1>4 DEF IInv, PendingOrder, QueueOrder
  <2> QED
    BY <1>3, <2>1 DEF PendingOrder
<1>6. QueueOrder'
  <2>1. ASSUME NEW h \in Handles, NEW i \in DOMAIN queue'[h], queue'[h][i] # Event
        PROVE  answered'[h] < queue'[h][i]
    <3>1. CASE h = cur
      BY <1>2, <1>4, <2>1, <3>1 DEF IInv, QueueOrder
    <3>2. CASE h # cur
      BY <1>2, <1>4, <2>1, <3>2 DEF IInv, QueueOrder
    <3> QED
      BY <3>1, <3>2
  <2> QED
    BY <1>3, <2>1 DEF QueueOrder, Event
<1>7. OnlyCurrent'
  <2> SUFFICES ASSUME ~gaveUp, NEW x \in InFlight', x # Event PROVE FALSE
    BY <1>1 DEF OnlyCurrent, Event
  <2>1. x = sent /\ m = sent
    <3>1. x \in InFlight /\ m \in InFlight
      BY <1>2, <1>3 DEF InFlight
    <3> QED
      BY <1>4, <3>1 DEF IInv, OnlyCurrent
  <2>2. CASE \E i \in DOMAIN pending' : x = pending'[i]
    <3>1. PICK i \in DOMAIN pending : x = pending[i]
      BY <1>1, <2>2
    <3>2. m < pending[i] /\ pending[i] \in Int
      BY <1>2, Sequences DEF IInv, QueueOrder
    <3> QED
      BY <2>1, <3>1, <3>2
  <2>3. CASE \E i \in DOMAIN queue'[cur] : x = queue'[cur][i]
    <3>1. PICK i \in DOMAIN queue[cur] : x = queue[cur][i] /\ 1 < i
      BY <1>2, <2>3
    <3>2. m < queue[cur][i] /\ queue[cur][i] \in Int
      BY <1>2, <3>1, Sequences DEF IInv, QueueOrder
    <3> QED
      BY <2>1, <3>1, <3>2
  <2>4. CASE \E h \in Handles \ {cur} : \E i \in DOMAIN queue'[h] : x = queue'[h][i]
    BY <1>2, <1>4, <2>1, <2>4 DEF IInv, NoneTwice
  <2> QED
    BY <2>2, <2>3, <2>4 DEF InFlight
<1>8. Sent'
  <2>1. m <= sent
    BY <1>2 DEF IInv, QueueOrder
  <2> QED
    BY <1>1, <1>4, <2>1 DEF IInv, Sent
<1> QED
  BY <1>3, <1>5, <1>6, <1>7, <1>8

\* All other steps only take messages away.
LEMMA OtherInv ==
  ASSUME IInv, TypeOK', Next,
         \A h \in Handles : ~Send(h), ~ReturnAnswer, ~Answer, ~Announce
  PROVE  PendingOrder' /\ QueueOrder' /\ NoneTwice' /\ OnlyCurrent' /\ Sent'
<1>1. /\ pending \in Seq(1 .. MaxRequests)
      /\ \A h \in Handles : queue[h] \in Seq(0 .. MaxRequests)
      /\ answered \in [Handles -> 0 .. MaxRequests] /\ sent \in 0 .. MaxRequests
  BY Sequences DEF IInv, TypeOK
<1>2. /\ Shifted(pending, pending) /\ Shifted(<<>>, pending)
      /\ \A h \in Handles : Shifted(queue[h], queue[h]) /\ Shifted(<<>>, queue[h])
  BY <1>1, ShiftedSelf, ShiftedEmpty
<1>3. \A h \in Handles : answered[h] \in Int /\ answered[h] >= 0
  BY <1>1
<1>4. CASE HandOver
  <2>1. /\ \A h \in Handles : Shifted(queue'[h], queue[h])
        /\ Shifted(pending', pending)
    BY <1>4, Front DEF HandOver
  <2>2. UNCHANGED <<sent, answered, gaveUp, cur>>
    BY <1>4 DEF HandOver, history
  <2>3. Sent'
    BY <2>2 DEF IInv, Sent
  <2> QED
    BY <1>3, <2>1, <2>2, <2>3, OnlyShifted
<1>5. CASE ~HandOver
  <2> DEFINE OnlyLess ==
        /\ sent' = sent
        /\ pending' \in {pending, <<>>}
        /\ \A h \in Handles : queue'[h] \in {queue[h], <<>>}
        /\ \A h \in Handles : answered'[h] \in {answered[h], 0}
        /\ gaveUp' \/ (gaveUp' = gaveUp /\ cur' = cur)
  <2>1. \/ \E h \in Handles : Open(h) \/ OpenFailed(h) \/ Close(h) \/ SendFailed(h)
        \/ Elapse \/ Interrupted \/ TimeOut \/ WaitFailed \/ Crash \/ Restart
    BY <1>5 DEF Next
  <2>2. OnlyLess
    <3>1. ASSUME NEW h \in Handles, Open(h) \/ OpenFailed(h) \/ Close(h) \/ SendFailed(h)
          PROVE  OnlyLess
      <4>1. /\ UNCHANGED <<sent, pending, gaveUp, cur>>
            /\ queue' = queue \/ queue' = [queue EXCEPT ![h] = <<>>]
            /\ answered' = answered \/ answered' = [answered EXCEPT ![h] = 0]
        BY <3>1 DEF Open, OpenFailed, Close, SendFailed, history
      <4>2. \A g \in Handles : queue'[g] \in {queue[g], <<>>}
        BY <4>1 DEF IInv, TypeOK
      <4>3. \A g \in Handles : answered'[g] \in {answered[g], 0}
        BY <1>1, <4>1
      <4> QED
        BY <4>1, <4>2, <4>3
    <3>2. CASE Elapse \/ Interrupted \/ TimeOut \/ WaitFailed \/ Restart
      BY <3>2 DEF Elapse, Interrupted, TimeOut, WaitFailed, Restart, history
    <3>3. CASE Crash
      <4>1. /\ sent' = sent /\ pending' = pending /\ answered' = answered
            /\ \A g \in Handles : queue'[g] = <<>>
        BY <3>3 DEF Crash
      <4>2. gaveUp' \/ (gaveUp' = gaveUp /\ cur' = cur)
        BY <3>3 DEF Crash, IInv, TypeOK
      <4> QED
        BY <4>1, <4>2
    <3> QED
      BY <2>1, <3>1, <3>2, <3>3
  <2>3. Shifted(pending', pending) /\ \A h \in Handles : Shifted(queue'[h], queue[h])
    BY <1>2, <2>2
  <2>4. \A h \in Handles : answered'[h] <= answered[h]
    BY <1>3, <2>2
  <2>5. Sent'
    BY <1>1, <1>3, <2>2 DEF IInv, Sent
  <2> QED
    BY <2>2, <2>3, <2>4, <2>5, OnlyShifted
<1> QED
  BY <1>4, <1>5

LEMMA StepInv == ASSUME IInv, [Next]_vars PROVE IInv'
<1>1. CASE UNCHANGED vars
  <2>1. TypeOK' /\ NoDeadSocket' /\ Sent'
    BY <1>1 DEF vars, IInv, TypeOK, NoDeadSocket, Sent
  <2>2. PendingOrder' /\ QueueOrder' /\ NoneTwice'
    BY <1>1 DEF vars, IInv, PendingOrder, QueueOrder, NoneTwice, Event
  <2>3. InFlight' = InFlight
    BY <1>1 DEF vars, InFlight
  <2>4. OnlyCurrent'
    BY <1>1, <2>3 DEF vars, IInv, OnlyCurrent, Event
  <2> QED
    BY <2>1, <2>2, <2>4 DEF IInv
<1>2. CASE Next
  <2>1. TypeOK' /\ NoDeadSocket'
    BY <1>2, TypeStep, DeadStep DEF IInv
  <2>2. CASE \E h \in Handles : Send(h)
    <3>1. PICK h \in Handles : Send(h)
      BY <2>2
    <3>2. Sent'
      BY <3>1 DEF Send, IInv, Sent, TypeOK, history
    <3> QED
      BY <2>1, <3>1, <3>2, SendInv DEF IInv
  <2>3. CASE ReturnAnswer
    BY <2>1, <2>3, ReturnAnswerInv DEF IInv
  <2>4. CASE Answer
    <3>1. Sent'
      BY <2>4 DEF Answer, history, IInv, Sent
    <3> QED
      BY <2>1, <2>4, <3>1, AnswerInv DEF IInv
  <2>5. CASE Announce
    <3>1. Sent'
      BY <2>5 DEF Announce, history, IInv, Sent
    <3> QED
      BY <2>1, <2>5, <3>1, AnnounceInv DEF IInv
  <2>6. CASE (\A h \in Handles : ~Send(h)) /\ ~ReturnAnswer /\ ~Answer /\ ~Announce
    BY <1>2, <2>1, <2>6, OtherInv DEF IInv
  <2> QED
    BY <2>2, <2>3, <2>4, <2>5, <2>6
<1> QED
  BY <1>1, <1>2

-----------------------------------------------------------------------------
\* IInv holds in every reachable state.
THEOREM Invariance == Spec => []IInv
<1>1. Init => IInv
  BY InitInv
<1>2. IInv /\ [Next]_vars => IInv'
  BY StepInv
<1> QED
  BY <1>1, <1>2, PTL DEF Spec

\* Every variable keeps its type, and no queue outgrows the socket.
THEOREM TypeCorrect == Spec => []TypeOK
<1>1. IInv => TypeOK
  BY DEF IInv
<1> QED
  BY <1>1, Invariance, PTL

\* The path never leads to the socket of a closed handle.
THEOREM PathAlive == Spec => []NoDeadSocket
<1>1. IInv => NoDeadSocket
  BY DEF IInv
<1> QED
  BY <1>1, Invariance, PTL

\* Only one step returns an answer.
LEMMA Returning ==
  ASSUME IInv, [Next]_vars, cur # None, cur' = None, code' = "answer", cur \in open'
  PROVE  /\ ReturnAnswer /\ cur \in Handles
         /\ 1 \in DOMAIN queue[cur] /\ queue[cur][1] # Event
         /\ answered'[cur] = queue[cur][1]
<1>1. Next
  BY DEF vars
<1>2. ReturnAnswer
  BY <1>1 DEF Next, Open, OpenFailed, Close, Send, SendFailed, HandOver, Elapse,
              Interrupted, TimeOut, WaitFailed, Crash, Answer, Announce, Restart
<1>3. /\ cur \in Handles /\ 1 \in DOMAIN queue[cur] /\ Head(queue[cur]) = queue[cur][1]
  BY <1>2, Front DEF ReturnAnswer
<1>4. answered'[cur] = Head(queue[cur]) /\ Head(queue[cur]) # Event
  BY <1>2, <1>3 DEF ReturnAnswer, IInv, TypeOK
<1> QED
  BY <1>2, <1>3, <1>4

\* Answers come in the order of the requests and none comes twice.
THEOREM AnswersInOrder == Spec => InOrder
<1>1. ASSUME IInv, [Next]_vars PROVE InOrderStep
  <2> SUFFICES ASSUME cur # None, cur' = None, code' = "answer", cur \in open'
               PROVE  answered'[cur] > answered[cur]
    BY DEF InOrderStep
  <2>1. /\ cur \in Handles /\ 1 \in DOMAIN queue[cur] /\ queue[cur][1] # Event
        /\ answered'[cur] = queue[cur][1]
    BY <1>1, Returning
  <2>2. answered[cur] < queue[cur][1]
    BY <1>1, <2>1 DEF IInv, QueueOrder
  <2> QED
    BY <2>1, <2>2
<1> QED
  BY <1>1, Invariance, PTL DEF Spec, InOrder

\* While no request was given up, the answer is to the request that waits.
THEOREM AnswersNotStale == Spec => NotStale
<1>1. ASSUME IInv, [Next]_vars PROVE NotStaleStep
  <2> SUFFICES ASSUME cur # None, cur' = None, code' = "answer", cur \in open', ~gaveUp
               PROVE  answered'[cur] = sent
    BY DEF NotStaleStep
  <2>1. /\ cur \in Handles /\ 1 \in DOMAIN queue[cur] /\ queue[cur][1] # Event
        /\ answered'[cur] = queue[cur][1]
    BY <1>1, Returning
  <2>2. queue[cur][1] \in InFlight
    BY <2>1 DEF InFlight
  <2> QED
    BY <1>1, <2>1, <2>2 DEF IInv, OnlyCurrent
<1> QED
  BY <1>1, Invariance, PTL DEF Spec, NotStale
=============================================================================
