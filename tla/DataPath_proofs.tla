--------------------------- MODULE DataPath_proofs ---------------------------
(***************************************************************************)
(* The data path for all queue lengths, all sizes of rx_buf and any number  *)
(* of bytes, lines, frames and network events.                              *)
(***************************************************************************)
EXTENDS DataPath, SequenceTheorems, TLAPS

-----------------------------------------------------------------------------
(* Types *)

\* The parts of ZbusTypeOK that a publisher, the reader and the sender change.
ChannelTypes == /\ pc \in [Chans -> PublisherLabels]
                /\ value \in [Chans -> Message]
                /\ notif \in Seq(Chans) /\ Len(notif) <= NotifLen
                /\ waiters \in Seq(Chans)
                /\ missed \in [Chans -> BOOLEAN]

ReaderTypes == /\ transport \in {"wait", "read", "await", "run", "ended"}
               /\ chan \in Chans /\ overtaken \in BOOLEAN
               /\ put \in [DataChans -> Message]

QueueTypes == /\ queue \in [DataChans -> Seq(Message)]
              /\ \A c \in DataChans : Len(queue[c]) <= QueueLen

SenderTypes == /\ work \in {"idle", "drain_gps", "drain_sensor"}
               /\ submitted \in BOOLEAN /\ session \in BOOLEAN
               /\ handed \in [DataChans -> Nat]

UartTypes == /\ index \in 0..(RX_BUF_SIZE - 1) /\ length \in Nat
             /\ lines \in Nat /\ size \in Nat
             /\ payload \in Message /\ uart_sem \in {0, 1}
             /\ hurried \in BOOLEAN

GnssTypes == /\ frame \in Nat /\ announced \in Nat /\ velo \in Message
             /\ gnss_fix_sem \in {0, 1} /\ due \in Nat

Types == /\ ChannelTypes /\ ReaderTypes /\ QueueTypes /\ SenderTypes
         /\ UartTypes /\ GnssTypes
         /\ published \in Nat /\ budget \in [Events -> Nat]

\* The parts of the type invariant are what TLC checks.
LEMMA TypesAreTypeOK == Types <=> TypeOK
BY DEF Types, TypeOK, ZbusTypeOK, ChannelTypes, ReaderTypes, QueueTypes, SenderTypes,
   UartTypes, GnssTypes

\* Sequences: what is in them when an element is added or removed.
LEMMA InAppend ==
  ASSUME NEW S, NEW s \in Seq(S), NEW e \in S
  PROVE  /\ Append(s, e) \in Seq(S) /\ Len(Append(s, e)) = Len(s) + 1
         /\ Contains(Append(s, e), e)
         /\ \A x : Contains(s, x) => Contains(Append(s, e), x)
<1>1. /\ Append(s, e) \in Seq(S) /\ Len(Append(s, e)) = Len(s) + 1 /\ Len(s) \in Nat
      /\ \A i \in 1..Len(s) : Append(s, e)[i] = s[i]
      /\ Append(s, e)[Len(s) + 1] = e
  OBVIOUS
<1> QED
  BY <1>1 DEF Contains

\* What a queue holds is at its head or behind it.
LEMMA InTail ==
  ASSUME NEW S, NEW s \in Seq(S), s # <<>>
  PROVE  /\ Head(s) \in S /\ Tail(s) \in Seq(S)
         /\ Len(s) \in Nat \ {0} /\ Len(Tail(s)) = Len(s) - 1
         /\ \A x : Contains(s, x) => x = Head(s) \/ Contains(Tail(s), x)
<1>1. /\ Head(s) \in S /\ Tail(s) \in Seq(S) /\ Len(s) \in Nat \ {0}
      /\ Len(Tail(s)) = Len(s) - 1 /\ Head(s) = s[1]
      /\ \A i \in 1..Len(s) - 1 : Tail(s)[i] = s[i + 1]
  BY EmptySeq
<1>2. ASSUME NEW x, Contains(s, x), x # Head(s)
      PROVE  Contains(Tail(s), x)
  <2>1. PICK i \in 1..Len(s) : s[i] = x
    BY <1>2 DEF Contains
  <2>2. i - 1 \in 1..Len(s) - 1 /\ Tail(s)[i - 1] = x
    BY <1>1, <1>2, <2>1
  <2> QED
    BY <1>1, <2>2 DEF Contains
<1> QED
  BY <1>1, <1>2

\* What a queue holds when one element is taken out of it, by position ...
LEMMA Removal ==
  ASSUME NEW S, NEW s \in Seq(S), NEW i \in 1..Len(s)
  PROVE  /\ RemoveAt(s, i) \in Seq(S) /\ Len(RemoveAt(s, i)) = Len(s) - 1
         /\ Len(s) \in Nat
         /\ \A k \in 1..i - 1 : RemoveAt(s, i)[k] = s[k]
         /\ \A k \in i..Len(s) - 1 : RemoveAt(s, i)[k] = s[k + 1]
<1> DEFINE front == SubSeq(s, 1, i - 1)
           back == SubSeq(s, i + 1, Len(s))
<1>1. /\ front \in Seq(S) /\ Len(front) = i - 1
      /\ \A k \in 1..i - 1 : front[k] = s[k]
  BY SubSeqProperties
<1>2. /\ back \in Seq(S) /\ Len(back) = Len(s) - i
      /\ \A k \in 1..Len(s) - i : back[k] = s[i + k]
  BY SubSeqProperties
<1> HIDE DEF front, back
<1>3. RemoveAt(s, i) = front \o back
  BY DEF RemoveAt, front, back
<1>4. Len(s) \in Nat
  OBVIOUS
<1>5. /\ front \o back \in Seq(S)
      /\ Len(front \o back) = Len(front) + Len(back)
      /\ \A k \in 1..Len(front) + Len(back) :
             (front \o back)[k] = IF k <= Len(front) THEN front[k]
                                                     ELSE back[k - Len(front)]
  BY <1>1, <1>2, ConcatProperties
<1>6. \A k \in i..Len(s) - 1 : back[k - (i - 1)] = s[k + 1]
  <2> SUFFICES ASSUME NEW k \in i..Len(s) - 1 PROVE back[k - (i - 1)] = s[k + 1]
    OBVIOUS
  <2>1. k - (i - 1) \in 1..Len(s) - i
    BY <1>4
  <2>2. back[k - (i - 1)] = s[i + (k - (i - 1))]
    BY <1>2, <2>1
  <2> QED
    BY <1>4, <2>2
<1> QED
  BY <1>1, <1>2, <1>3, <1>4, <1>5, <1>6

\* ... and by membership.
LEMMA InRemoved ==
  ASSUME NEW S, NEW s \in Seq(S), NEW i \in 1..Len(s)
  PROVE  /\ RemoveAt(s, i) \in Seq(S)
         /\ \A x : Contains(s, x) => x = s[i] \/ Contains(RemoveAt(s, i), x)
<1>1. /\ RemoveAt(s, i) \in Seq(S) /\ Len(RemoveAt(s, i)) = Len(s) - 1
      /\ \A k \in 1..i - 1 : RemoveAt(s, i)[k] = s[k]
      /\ \A k \in i..Len(s) - 1 : RemoveAt(s, i)[k] = s[k + 1]
  BY Removal
<1>2. ASSUME NEW x, Contains(s, x), x # s[i]
      PROVE  Contains(RemoveAt(s, i), x)
  <2>1. PICK k \in 1..Len(s) : s[k] = x
    BY <1>2 DEF Contains
  <2>2. CASE k < i
    <3>1. k \in 1..Len(s) - 1 /\ RemoveAt(s, i)[k] = x
      BY <1>1, <2>1, <2>2
    <3> QED
      BY <1>1, <3>1 DEF Contains
  <2>3. CASE k > i
    <3>1. k - 1 \in 1..Len(s) - 1 /\ RemoveAt(s, i)[k - 1] = x
      BY <1>1, <2>1, <2>3
    <3> QED
      BY <1>1, <3>1 DEF Contains
  <2> QED
    BY <1>2, <2>1, <2>2, <2>3
<1> QED
  BY <1>1, <1>2

\* The fields of a message.
LEMMA MessageParts ==
  /\ Empty \in Message /\ Empty.tag = 0 /\ Empty.head = 0 /\ Empty.tail = 0
  /\ \A m \in Message : m.tag \in Nat /\ m.head \in Nat /\ m.tail \in Nat
  /\ \A m \in Message, n \in Nat :
         /\ [m EXCEPT !.tag = n] \in Message /\ [m EXCEPT !.tail = n] \in Message
         /\ [m EXCEPT !.head = n] \in Message
BY DEF Message, Empty

-----------------------------------------------------------------------------
(* Types: the steps of a publisher *)

\* Where a publisher goes on after it has published.
LEMMA AfterTyped ==
  \A c \in Chans : /\ After[c] \in PublisherLabels
                   /\ After[c] \notin {"copy_head", "copy_tail", "notify", "wait"}
BY DEF Chans, DataChans, EventChans, After, PublisherLabels

\* A step of a publication keeps the channels typed.
LEMMA PublishTyped ==
  ASSUME ChannelTypes, NEW c \in Chans, NEW m \in Message, Publish(c, m)
  PROVE  ChannelTypes'
<1> USE DEF ChannelTypes
<1>1. CASE CopyHead(c, m)
  <2>1. pc' \in [Chans -> PublisherLabels]
    BY <1>1 DEF CopyHead, PublisherLabels
  <2>2. value' = [value EXCEPT ![c] = [value[c] EXCEPT !.tag = m.tag, !.head = m.head]]
    BY <1>1 DEF CopyHead, Message
  <2>3. [value[c] EXCEPT !.tag = m.tag, !.head = m.head] \in Message
    BY DEF Message
  <2>4. value' \in [Chans -> Message]
    BY <2>2, <2>3
  <2> QED
    BY <1>1, <2>1, <2>4 DEF CopyHead
<1>2. CASE CopyTail(c, m)
  <2>1. pc' \in [Chans -> PublisherLabels]
    BY <1>2 DEF CopyTail, PublisherLabels
  <2>2. value' = [value EXCEPT ![c] = [value[c] EXCEPT !.tail = m.tail]]
    BY <1>2 DEF CopyTail, Message
  <2>3. [value[c] EXCEPT !.tail = m.tail] \in Message
    BY DEF Message
  <2>4. value' \in [Chans -> Message]
    BY <2>2, <2>3
  <2> QED
    BY <1>2, <2>1, <2>4 DEF CopyTail
<1>3. CASE Notify(c)
  <2>0. CASE /\ missed' = [missed EXCEPT ![c] = FALSE]
             /\ pc' = [pc EXCEPT ![c] = After[c]]
             /\ UNCHANGED <<notif, waiters>>
    <3>1. missed' \in [Chans -> BOOLEAN]
      BY <2>0
    <3> QED
      BY <1>3, <2>0, <3>1, AfterTyped DEF Notify
  <2>1. CASE /\ Len(notif) < NotifLen
             /\ notif' = Append(notif, c)
             /\ missed' = [missed EXCEPT ![c] = FALSE]
             /\ pc' = [pc EXCEPT ![c] = After[c]]
             /\ UNCHANGED waiters
    <3>1. notif' \in Seq(Chans) /\ Len(notif') = Len(notif) + 1 /\ Len(notif) \in Nat
      BY <2>1, InAppend
    <3>2. missed' \in [Chans -> BOOLEAN]
      BY <2>1
    <3> QED
      BY <1>3, <2>1, <3>1, <3>2, AfterTyped, ZbusAssumption DEF Notify
  <2>2. CASE /\ waiters' = Append(waiters, c)
             /\ pc' = [pc EXCEPT ![c] = "wait"]
             /\ UNCHANGED <<notif, missed>>
    BY <1>3, <2>2, InAppend DEF Notify, PublisherLabels
  <2> QED
    BY <1>3, <2>0, <2>1, <2>2 DEF Notify
<1>4. CASE GiveUp(c)
  <2>1. PICK i \in DOMAIN waiters : waiters[i] = c /\ waiters' = RemoveAt(waiters, i)
    BY <1>4 DEF GiveUp
  <2>2. waiters' \in Seq(Chans)
    BY <2>1, InRemoved
  <2>3. missed' \in [Chans -> BOOLEAN]
    <3> DEFINE b == ~Contains(notif, c) /\ ~InHand(c)
    <3>1. b \in BOOLEAN
      BY Zenon
    <3>2. missed' = [missed EXCEPT ![c] = b]
      BY <1>4 DEF GiveUp
    <3> HIDE DEF b
    <3> QED
      BY <3>1, <3>2
  <2>4. pc' \in [Chans -> PublisherLabels]
    BY <1>4, AfterTyped DEF GiveUp
  <2> QED
    BY <1>4, <2>2, <2>3, <2>4 DEF GiveUp
<1> QED
  BY <1>1, <1>2, <1>3, <1>4 DEF Publish

\* Where a reference that has been taken leaves transport_task.
LEMMA TakeTyped ==
  ASSUME ReaderTypes, NEW c \in Chans, Take(c)
  PROVE  ReaderTypes'
<1>1. overtaken' \in BOOLEAN
  BY Zenon DEF Take
<1> QED
  BY <1>1 DEF Take, ReaderTypes

\* The same of a publisher's lock.
LEMMA LockTyped ==
  ASSUME ReaderTypes, NEW c \in Chans, Lock(c)
  PROVE  ReaderTypes'
<1>1. overtaken' \in BOOLEAN
  BY Zenon DEF Lock
<1> QED
  BY <1>1 DEF Lock, ReaderTypes

\* What transport_task does not do does not change its state.
LEMMA ReaderKept == ReaderTypes /\ UNCHANGED reader => ReaderTypes'
<1> SUFFICES ASSUME ReaderTypes, UNCHANGED reader PROVE ReaderTypes'
  OBVIOUS
<1>1. UNCHANGED <<transport, chan, put, overtaken>>
  BY DEF reader
<1>2. overtaken' \in BOOLEAN
  BY <1>1, Zenon DEF ReaderTypes
<1> QED
  BY <1>1, <1>2 DEF ReaderTypes

\* A publication hands its reference over or leaves transport_task alone.
LEMMA PublishReader ==
  ASSUME ReaderTypes, NEW c \in Chans, NEW m, Publish(c, m)
  PROVE  ReaderTypes'
<1>1. Lock(c) \/ Take(c) \/ UNCHANGED reader
  BY DEF Publish, CopyHead, CopyTail, Notify, GiveUp
<1> QED
  BY <1>1, LockTyped, TakeTyped, ReaderKept

\* What a publication leaves alone.
LEMMA PublishKeeps ==
  ASSUME NEW c, NEW m, Publish(c, m)
  PROVE  UNCHANGED <<put, queue, work, submitted, session, handed, budget>>
BY DEF Publish, CopyHead, CopyTail, Notify, GiveUp, Lock, Take, reader, sender

-----------------------------------------------------------------------------
(* Types: the reader and the sender *)

\* The steps of transport_task.
LEMMA TransportTyped ==
  ASSUME ChannelTypes, ReaderTypes, QueueTypes, TransportTask
  PROVE  ChannelTypes' /\ ReaderTypes' /\ QueueTypes'
<1>1. CASE SubWait
  <2>1. /\ notif # <<>> /\ notif \in Seq(Chans) /\ Len(notif) <= NotifLen
        /\ waiters \in Seq(Chans) /\ Take(Head(notif))
    BY <1>1 DEF SubWait, ChannelTypes
  <2>2. /\ Head(notif) \in Chans /\ Tail(notif) \in Seq(Chans)
        /\ Len(notif) \in Nat /\ Len(Tail(notif)) = Len(notif) - 1
    BY <2>1, InTail
  <2>3. ReaderTypes' /\ QueueTypes'
    BY <1>1, <2>1, <2>2, TakeTyped DEF SubWait, QueueTypes
  <2>4. CASE /\ notif' = Tail(notif)
             /\ UNCHANGED <<pc, waiters, missed>>
    <3>1. Len(notif') <= NotifLen
      BY <2>1, <2>2, <2>4, ZbusAssumption
    <3>2. notif' \in Seq(Chans)
      BY <2>2, <2>4
    <3>3. value' = value
      BY <1>1 DEF SubWait
    <3> QED
      BY <2>3, <2>4, <3>1, <3>2, <3>3 DEF ChannelTypes
  <2>5. CASE /\ waiters # <<>>
             /\ notif' = Append(Tail(notif), Head(waiters))
             /\ waiters' = Tail(waiters)
             /\ missed' = [missed EXCEPT ![Head(waiters)] = FALSE]
             /\ pc' = [pc EXCEPT ![Head(waiters)] = After[Head(waiters)]]
    <3>1. Head(waiters) \in Chans /\ waiters' \in Seq(Chans)
      BY <2>1, <2>5, InTail
    <3>2. notif' \in Seq(Chans) /\ Len(notif') = Len(notif)
      BY <2>2, <2>5, <3>1, InAppend
    <3>3. missed' \in [Chans -> BOOLEAN] /\ pc' \in [Chans -> PublisherLabels]
      BY <2>5, <3>1, AfterTyped DEF ChannelTypes
    <3>4. value' = value
      BY <1>1 DEF SubWait
    <3> QED
      BY <2>1, <2>3, <3>1, <3>2, <3>3, <3>4 DEF ChannelTypes
  <2> QED
    BY <1>1, <2>3, <2>4, <2>5 DEF SubWait
<1>2. CASE Read
  <2>0. overtaken' \in BOOLEAN
    BY <1>2, Zenon DEF Read
  <2>1. /\ UNCHANGED <<pc, value, notif, waiters, missed, chan>>
        /\ transport' \in {"run", "wait"}
    BY <1>2 DEF Read, channels
  <2>2. ChannelTypes'
    BY <2>1 DEF ChannelTypes
  <2>3. CASE UNCHANGED <<put, queue>>
    BY <2>0, <2>1, <2>2, <2>3 DEF ReaderTypes, QueueTypes
  <2>4. CASE /\ chan \in DataChans
             /\ put' = [put EXCEPT ![chan] = value[chan]]
             /\ queue' = IF Len(queue[chan]) < QueueLen
                         THEN [queue EXCEPT ![chan] = Append(@, value[chan])] ELSE queue
    <3>1. value[chan] \in Message
      BY <2>4 DEF ChannelTypes, Chans
    <3>2. put' \in [DataChans -> Message]
      BY <2>4, <3>1 DEF ReaderTypes
    <3>3. QueueTypes'
      <4>1. CASE queue' = queue
        BY <4>1 DEF QueueTypes
      <4>2. CASE /\ queue' = [queue EXCEPT ![chan] = Append(queue[chan], value[chan])]
                 /\ Len(queue[chan]) < QueueLen
        <5>1. /\ queue[chan] \in Seq(Message) /\ Len(queue[chan]) \in Nat
          BY <2>4 DEF QueueTypes
        <5>2. /\ Append(queue[chan], value[chan]) \in Seq(Message)
              /\ Len(Append(queue[chan], value[chan])) <= QueueLen
          BY <3>1, <4>2, <5>1, InAppend, ZbusAssumption
        <5>3. \A c \in DataChans : queue'[c] \in Seq(Message) /\ Len(queue'[c]) <= QueueLen
          BY <2>4, <4>2, <5>2 DEF QueueTypes
        <5>4. queue' \in [DataChans -> Seq(Message)]
          BY <2>4, <4>2, <5>2 DEF QueueTypes
        <5> QED
          BY <5>3, <5>4 DEF QueueTypes
      <4> QED
        BY <2>4, <4>1, <4>2
    <3> QED
      BY <2>0, <2>1, <2>2, <3>2, <3>3 DEF ReaderTypes
  <2> QED
    BY <1>2, <2>3, <2>4 DEF Read
<1>3. CASE AwaitLock \/ ReadTimeout \/ Run
  <2>1. /\ UNCHANGED <<pc, value, notif, waiters, missed, chan, overtaken, put, queue>>
        /\ transport' \in {"await", "ended", "wait"}
    BY <1>3 DEF AwaitLock, ReadTimeout, Run, channels
  <2>2. overtaken' \in BOOLEAN
    BY <2>1, Zenon DEF ReaderTypes
  <2> QED
    BY <2>1, <2>2 DEF ChannelTypes, ReaderTypes, QueueTypes
<1> QED
  BY <1>1, <1>2, <1>3 DEF TransportTask

\* The steps of mqtt_pub_work.
LEMMA DrainTyped ==
  ASSUME QueueTypes, SenderTypes, NEW c \in DataChans, NEW here,
         NEW next \in {"idle", "drain_sensor"}, Drain(c, here, next)
  PROVE  QueueTypes' /\ SenderTypes'
<1>1. UNCHANGED <<submitted, session>>
  BY DEF Drain
<1>2. submitted' \in BOOLEAN /\ session' \in BOOLEAN
  BY <1>1, Zenon DEF SenderTypes
<1>3. CASE work' = next /\ UNCHANGED <<queue, handed>>
  BY <1>2, <1>3 DEF QueueTypes, SenderTypes
<1>4. CASE /\ queue[c] # <<>> /\ queue' = [queue EXCEPT ![c] = Tail(queue[c])]
           /\ HandOver(c, Head(queue[c])) /\ UNCHANGED work
  <2>1. /\ Tail(queue[c]) \in Seq(Message) /\ Head(queue[c]) \in Message
        /\ Len(Tail(queue[c])) <= QueueLen
    BY <1>4, InTail, ZbusAssumption DEF QueueTypes
  <2>2. \A d \in DataChans : Len(queue'[d]) <= QueueLen
    BY <1>4, <2>1 DEF QueueTypes
  <2>3. queue' \in [DataChans -> Seq(Message)]
    BY <1>4, <2>1 DEF QueueTypes
  <2>4. Head(queue[c]).head \in Nat
    BY <2>1, MessageParts
  <2>5. handed' \in [DataChans -> Nat]
    BY <1>4, <2>4 DEF HandOver, SenderTypes
  <2> QED
    BY <1>2, <1>4, <2>2, <2>3, <2>5 DEF QueueTypes, SenderTypes
<1> QED
  BY <1>3, <1>4 DEF Drain

-----------------------------------------------------------------------------
(* Types: the whole step *)

\* A step that leaves a part alone keeps it typed.
LEMMA ChannelsKept == ChannelTypes /\ UNCHANGED <<pc, channels>> => ChannelTypes'
BY DEF ChannelTypes, channels

\* The same of the message queues ...
LEMMA QueueKept == QueueTypes /\ UNCHANGED queue => QueueTypes'
BY DEF QueueTypes

\* ... of mqtt_pub_work ...
LEMMA SenderKept == SenderTypes /\ UNCHANGED sender => SenderTypes'
<1> SUFFICES ASSUME SenderTypes, UNCHANGED sender PROVE SenderTypes'
  OBVIOUS
<1>1. UNCHANGED <<work, submitted, session, handed>>
  BY DEF sender
<1>2. submitted' \in BOOLEAN /\ session' \in BOOLEAN
  BY <1>1, Zenon DEF SenderTypes
<1> QED
  BY <1>1, <1>2 DEF SenderTypes

\* ... of the UART ...
LEMMA UartKept == UartTypes /\ UNCHANGED uart => UartTypes'
<1> SUFFICES ASSUME UartTypes, UNCHANGED uart PROVE UartTypes'
  OBVIOUS
<1>1. UNCHANGED <<index, length, lines, size, payload, uart_sem, hurried>>
  BY DEF uart
<1>2. hurried' \in BOOLEAN
  BY <1>1, Zenon DEF UartTypes
<1> QED
  BY <1>1, <1>2 DEF UartTypes

\* ... and of the modem's positions.
LEMMA GnssKept == GnssTypes /\ UNCHANGED gnss => GnssTypes'
BY DEF GnssTypes, gnss

\* A label of a task that holds no lock, changed by the task itself.
LEMMA GotoTyped ==
  ASSUME ChannelTypes, NEW c \in Chans, NEW l \in PublisherLabels, Goto(c, l),
         UNCHANGED channels
  PROVE  ChannelTypes'
BY DEF ChannelTypes, Goto, channels

\* A byte on the UART.
LEMMA ByteTyped ==
  ASSUME Types, Byte \/ LineEnd
  PROVE  (uart_sem' \in {0, 1} => UartTypes') /\ budget' \in [Events -> Nat]
<1>0. UartTypes /\ budget \in [Events -> Nat]
  BY DEF Types
<1>1. budget' \in [Events -> Nat]
  BY <1>0 DEF Byte, LineEnd, Spend, Events
<1>2. hurried' \in BOOLEAN
  BY <1>0, Zenon DEF Byte, LineEnd, UartTypes
<1>3. CASE Byte
  <2>1. index' \in 0..(RX_BUF_SIZE - 1) /\ length' \in Nat
    BY <1>0, <1>3, RxAssumption DEF Byte, UartTypes, Lesser
  <2> QED
    BY <1>0, <1>1, <1>2, <1>3, <2>1 DEF Byte, UartTypes
<1>4. CASE LineEnd
  <2>1. index' \in 0..(RX_BUF_SIZE - 1) /\ length' \in Nat
    BY <1>0, <1>4, RxAssumption DEF LineEnd, UartTypes
  <2>2. CASE payload' = Empty /\ UNCHANGED <<lines, size>>
    BY <1>0, <1>1, <1>2, <2>1, <2>2, MessageParts DEF UartTypes
  <2>3. CASE /\ lines' = lines + 1 /\ size' = length
             /\ payload' = [tag |-> index, head |-> lines', tail |-> lines']
    <3>1. payload' \in Message /\ lines' \in Nat /\ size' \in Nat
      BY <1>0, <2>3, RxAssumption DEF UartTypes, Message
    <3> QED
      BY <1>1, <1>2, <2>1, <3>1 DEF UartTypes
  <2> QED
    BY <1>4, <2>2, <2>3 DEF LineEnd
<1> QED
  BY <1>3, <1>4

\* The steps of trigger_task.
LEMMA TriggerTyped ==
  ASSUME Types, TriggerTask
  PROVE  Types'
<1>0. /\ ChannelTypes /\ ReaderTypes /\ QueueTypes /\ SenderTypes /\ UartTypes
      /\ GnssTypes /\ published \in Nat /\ budget \in [Events -> Nat]
      /\ "MQTT_CHAN" \in Chans /\ payload \in Message
  BY DEF Types, UartTypes, Chans, DataChans
<1>1. CASE PublishLine
  <2>1. Publish("MQTT_CHAN", payload) /\ UNCHANGED <<uart, gnss>>
    BY <1>1 DEF PublishLine
  <2>2. published' \in Nat
    BY <1>0, <1>1 DEF PublishLine
  <2>3. UNCHANGED <<put, queue, work, submitted, session, handed, budget>>
    BY <2>1, PublishKeeps
  <2>4. UNCHANGED sender /\ queue' = queue /\ budget' = budget
    BY <2>3 DEF sender
  <2>5. ChannelTypes' /\ ReaderTypes'
    BY <1>0, <2>1, PublishTyped, PublishReader
  <2> QED
    BY <1>0, <2>1, <2>2, <2>4, <2>5, QueueKept, SenderKept, UartKept, GnssKept
       DEF Types
<1>2. CASE TakeUart \/ Test \/ ClearHead \/ ClearTail
  <2>1. /\ UNCHANGED channels /\ UNCHANGED reader /\ UNCHANGED queue /\ UNCHANGED sender
        /\ UNCHANGED budget /\ UNCHANGED published /\ UNCHANGED gnss
    BY <1>2 DEF TakeUart, Test, ClearHead, ClearTail
  <2>2. \E l \in {"test", "copy_head", "idle", "clear_tail"} : Goto("MQTT_CHAN", l)
    BY <1>2 DEF TakeUart, Test, ClearHead, ClearTail
  <2>3. ChannelTypes'
    BY <1>0, <2>1, <2>2, GotoTyped DEF PublisherLabels
  <2>4. UNCHANGED <<index, length, lines, size, hurried>>
    BY <1>2 DEF TakeUart, Test, ClearHead, ClearTail, uart
  <2>5. payload' \in Message
    BY <1>0, <1>2, MessageParts DEF TakeUart, Test, ClearHead, ClearTail, uart, Message
  <2>6. uart_sem' \in {0, 1}
    BY <1>0, <1>2 DEF TakeUart, Test, ClearHead, ClearTail, uart, UartTypes
  <2>7. hurried' \in BOOLEAN
    BY <1>0, <2>4, Zenon DEF UartTypes
  <2>8. UartTypes'
    BY <1>0, <2>4, <2>5, <2>6, <2>7 DEF UartTypes
  <2> QED
    BY <1>0, <2>1, <2>3, <2>8, ReaderKept, QueueKept, SenderKept, GnssKept DEF Types
<1> QED
  BY <1>1, <1>2 DEF TriggerTask

\* What the UART and the modem do.
LEMMA EventTyped ==
  ASSUME Types, Byte \/ Newline \/ Pvt \/ Fix
  PROVE  Types'
<1>0. /\ ChannelTypes /\ ReaderTypes /\ QueueTypes /\ SenderTypes /\ UartTypes
      /\ GnssTypes /\ published \in Nat /\ budget \in [Events -> Nat]
  BY DEF Types
<1>1. /\ UNCHANGED <<pc, channels>> /\ UNCHANGED reader /\ UNCHANGED queue
      /\ UNCHANGED sender /\ UNCHANGED published
  BY DEF Byte, Newline, LineEnd, Pvt, Fix, zbusVars
<1>2. ChannelTypes' /\ ReaderTypes' /\ QueueTypes' /\ SenderTypes' /\ published' \in Nat
  BY <1>0, <1>1, ChannelsKept, ReaderKept, QueueKept, SenderKept
<1>3. CASE Byte \/ Newline
  <2>1. uart_sem' \in {0, 1} /\ UNCHANGED gnss
    BY <1>3 DEF Byte, Newline, LineEnd
  <2>2. UartTypes' /\ budget' \in [Events -> Nat]
    BY <1>3, <2>1, ByteTyped DEF Newline
  <2> QED
    BY <1>0, <1>2, <2>1, <2>2, GnssKept DEF Types
<1>4. CASE Pvt \/ Fix
  <2>1. UNCHANGED uart
    BY <1>4 DEF Pvt, Fix
  <2>2. budget' \in [Events -> Nat]
    BY <1>0, <1>4 DEF Pvt, Fix, Spend, Events, zbusVars
  <2>3. frame' \in Nat /\ announced' \in Nat /\ gnss_fix_sem' \in {0, 1}
        /\ due' \in Nat
    BY <1>0, <1>4 DEF Pvt, Fix, GnssTypes
  <2>4. velo' \in Message
    <3>1. velo \in Message /\ frame \in Nat /\ frame + 1 \in Nat
      BY <1>0 DEF GnssTypes
    <3>3. ASSUME NEW n \in Nat
          PROVE  [velo EXCEPT !.head = n, !.tail = n] \in Message
      BY <3>1 DEF Message
    <3>4. CASE Pvt
      BY <3>1, <3>3, <3>4 DEF Pvt
    <3>5. CASE Fix
      BY <3>1, <3>3, <3>5 DEF Fix
    <3> QED
      BY <1>4, <3>4, <3>5
  <2> QED
    BY <1>0, <1>2, <2>1, <2>2, <2>3, <2>4, UartKept DEF Types, GnssTypes
<1> QED
  BY <1>3, <1>4

\* The steps of location_task.
LEMMA LocationTyped ==
  ASSUME Types, LocationTask
  PROVE  Types'
<1>0. /\ ChannelTypes /\ ReaderTypes /\ QueueTypes /\ SenderTypes /\ UartTypes
      /\ GnssTypes /\ published \in Nat /\ budget \in [Events -> Nat]
      /\ "GPS_CHAN" \in Chans /\ velo \in Message
  BY DEF Types, GnssTypes, Chans, DataChans
<1>1. CASE PublishPosition
  <2>1. /\ Publish("GPS_CHAN", velo) /\ UNCHANGED uart /\ UNCHANGED gnss
        /\ UNCHANGED published
    BY <1>1 DEF PublishPosition
  <2>2. UNCHANGED <<put, queue, work, submitted, session, handed, budget>>
    BY <2>1, PublishKeeps
  <2>3. UNCHANGED sender /\ queue' = queue /\ budget' = budget
    BY <2>2 DEF sender
  <2>4. ChannelTypes' /\ ReaderTypes'
    BY <1>0, <2>1, PublishTyped, PublishReader
  <2> QED
    BY <1>0, <2>1, <2>3, <2>4, QueueKept, SenderKept, UartKept, GnssKept
       DEF Types
<1>2. CASE TakeFix \/ Inc
  <2>1. /\ UNCHANGED channels /\ UNCHANGED reader /\ UNCHANGED queue /\ UNCHANGED sender
        /\ UNCHANGED budget /\ UNCHANGED published /\ UNCHANGED uart
    BY <1>2 DEF TakeFix, Inc
  <2>2. \E l \in {"copy_head", "idle"} : Goto("GPS_CHAN", l)
    BY <1>2 DEF TakeFix, Inc
  <2>3. ChannelTypes'
    BY <1>0, <2>1, <2>2, GotoTyped DEF PublisherLabels
  <2>4. frame' \in Nat /\ announced' \in Nat /\ gnss_fix_sem' \in {0, 1}
    BY <1>0, <1>2 DEF TakeFix, Inc, GnssTypes
  <2>5. velo.tag \in Nat /\ due \in Nat /\ announced \in Nat
    BY <1>0, MessageParts DEF GnssTypes
  <2>6. due' \in Nat
    BY <1>2, <2>5 DEF TakeFix, Inc
  <2>7. velo' \in Message
    <3>1. velo.tag + 1 \in Nat
      BY <2>5
    <3>2. [velo EXCEPT !.tag = velo.tag + 1] \in Message
      BY <1>0, <3>1, MessageParts
    <3> QED
      BY <1>0, <1>2, <3>2 DEF TakeFix, Inc
  <2> QED
    BY <1>0, <2>1, <2>3, <2>4, <2>6, <2>7, ReaderKept, QueueKept, SenderKept, UartKept
       DEF Types, GnssTypes
<1> QED
  BY <1>1, <1>2 DEF LocationTask

\* The steps of the network and of the transport module.
LEMMA ReaderStepTyped ==
  ASSUME Types, PdnEvent \/ FotaRequest \/ PublishEvent \/ Transport \/ PubWorker \/ Session
  PROVE  Types'
<1>0. /\ ChannelTypes /\ ReaderTypes /\ QueueTypes /\ SenderTypes /\ UartTypes
      /\ GnssTypes /\ published \in Nat /\ budget \in [Events -> Nat]
      /\ EventChans \subseteq Chans /\ Empty \in Message
  BY MessageParts DEF Types, Chans
<1>1. UNCHANGED uart /\ UNCHANGED published /\ UNCHANGED gnss
  BY DEF PdnEvent, FotaRequest, PublishOn, PublishEvent, Transport, PubWorker, Session
<1>2. UartTypes' /\ GnssTypes' /\ published' \in Nat
  BY <1>0, <1>1, UartKept, GnssKept
<1>3. CASE PdnEvent \/ FotaRequest
  <2>1. PICK c \in EventChans : PublishOn(c)
    BY <1>3 DEF PdnEvent, FotaRequest, EventChans
  <2>2. budget' \in [Events -> Nat]
    BY <1>0, <2>1 DEF PublishOn, Spend, Events
  <2>3. ChannelTypes'
    BY <1>0, <2>1, GotoTyped DEF PublishOn, PublisherLabels
  <2>4. ReaderTypes' /\ QueueTypes' /\ SenderTypes'
    BY <1>0, <2>1, LockTyped, QueueKept, SenderKept DEF PublishOn
  <2> QED
    BY <1>2, <2>2, <2>3, <2>4 DEF Types
<1>4. CASE PublishEvent
  <2>1. PICK c \in EventChans : Publish(c, Empty)
    BY <1>4 DEF PublishEvent, Publish
  <2>2. UNCHANGED <<put, queue, work, submitted, session, handed, budget>>
    BY <2>1, PublishKeeps
  <2>3. UNCHANGED sender /\ queue' = queue /\ budget' = budget
    BY <2>2 DEF sender
  <2>4. ChannelTypes' /\ ReaderTypes'
    BY <1>0, <2>1, PublishTyped, PublishReader
  <2> QED
    BY <1>0, <1>2, <2>3, <2>4, QueueKept, SenderKept DEF Types
<1>5. CASE Transport
  <2>1. TransportTask
    BY <1>5 DEF Transport
  <2>2. ChannelTypes' /\ ReaderTypes' /\ QueueTypes'
    BY <1>0, <2>1, TransportTyped
  <2>3. UNCHANGED <<work, session, handed, budget>>
    BY <2>1 DEF TransportTask, SubWait, AwaitLock, Read, ReadTimeout, Run, sender
  <2>4. submitted' \in BOOLEAN
    <3>1. submitted' = submitted \/ submitted' = (submitted \/ session)
      BY <2>1 DEF TransportTask, SubWait, AwaitLock, Read, ReadTimeout, Run, sender
    <3> QED
      BY <1>0, <3>1, Zenon DEF SenderTypes
  <2>5. session' \in BOOLEAN
    BY <1>0, <2>3, Zenon DEF SenderTypes
  <2>6. SenderTypes'
    BY <1>0, <2>3, <2>4, <2>5 DEF SenderTypes
  <2> QED
    BY <1>0, <1>2, <2>2, <2>3, <2>6 DEF Types
<1>6. CASE PubWorker
  <2>1. UNCHANGED <<pc, channels>> /\ UNCHANGED reader /\ UNCHANGED budget
    BY <1>6 DEF PubWorker, PubWork, WorkStart, Drain
  <2>2. ChannelTypes' /\ ReaderTypes' /\ budget' \in [Events -> Nat]
    BY <1>0, <2>1, ChannelsKept, ReaderKept
  <2>3. QueueTypes' /\ SenderTypes'
    <3>1. CASE WorkStart
      <4>1. session' \in BOOLEAN /\ submitted' \in BOOLEAN
        BY <1>0, <3>1, Zenon DEF WorkStart, SenderTypes
      <4> QED
        BY <1>0, <3>1, <4>1, QueueKept DEF WorkStart, SenderTypes
    <3>2. CASE ~WorkStart
      BY <1>0, <1>6, <3>2, DrainTyped DEF PubWorker, PubWork, DataChans
    <3> QED
      BY <3>1, <3>2
  <2> QED
    BY <1>2, <2>2, <2>3 DEF Types
<1>7. CASE Session
  <2>1. /\ UNCHANGED <<pc, channels>> /\ UNCHANGED reader /\ UNCHANGED queue
        /\ UNCHANGED <<work, handed>>
    BY <1>7 DEF Session, SessionUp, SessionDown
  <2>2. budget' \in [Events -> Nat]
    BY <1>0, <1>7 DEF Session, SessionUp, SessionDown, Spend, Events
  <2>3. session' \in BOOLEAN /\ submitted' \in BOOLEAN
    BY <1>0, <1>7, Zenon DEF Session, SessionUp, SessionDown, SenderTypes
  <2>4. SenderTypes'
    BY <1>0, <2>1, <2>3 DEF SenderTypes
  <2> QED
    BY <1>0, <1>2, <2>1, <2>2, <2>4, ChannelsKept, ReaderKept, QueueKept DEF Types
<1> QED
  BY <1>3, <1>4, <1>5, <1>6, <1>7

\* Types is inductive: it holds at first ...
LEMMA StartTyped == Init => Types
<1> SUFFICES ASSUME Init PROVE Types
  OBVIOUS
<1> USE DEF Init, ZbusInit
<1>1. ChannelTypes
  BY MessageParts, EmptySeq, ZbusAssumption DEF ChannelTypes, PublisherLabels
<1>2. ReaderTypes
  <2>1. overtaken \in BOOLEAN
    BY Zenon
  <2> QED
    BY <2>1, MessageParts DEF ReaderTypes, Chans, EventChans
<1>3. QueueTypes
  BY EmptySeq, ZbusAssumption DEF QueueTypes
<1>4. submitted \in BOOLEAN /\ session \in BOOLEAN /\ hurried \in BOOLEAN
  BY Zenon
<1>5. SenderTypes
  BY <1>4 DEF SenderTypes
<1>6. UartTypes
  BY <1>4, MessageParts, RxAssumption DEF UartTypes
<1>7. GnssTypes /\ published \in Nat /\ budget \in [Events -> Nat]
  BY MessageParts, ZbusAssumption DEF GnssTypes
<1> QED
  BY <1>1, <1>2, <1>3, <1>5, <1>6, <1>7 DEF Types

\* ... every step keeps it ...
LEMMA StepTyped ==
  ASSUME Types, [Next]_vars
  PROVE  Types'
<1>1. CASE UNCHANGED vars
  <2>1. /\ UNCHANGED <<pc, channels>> /\ UNCHANGED reader /\ UNCHANGED queue
        /\ UNCHANGED sender /\ UNCHANGED budget
        /\ UNCHANGED uart /\ UNCHANGED gnss /\ UNCHANGED published
    BY <1>1 DEF vars, zbusVars
  <2> QED
    BY <2>1, ChannelsKept, ReaderKept, QueueKept, SenderKept, UartKept, GnssKept DEF Types
<1> QED
  BY <1>1, EventTyped, TriggerTyped, LocationTyped, ReaderStepTyped DEF Next

\* ... so that it always holds.
LEMMA TypesInvariant == Spec => []Types
<1>1. Types /\ [Next]_vars => Types'
  BY StepTyped
<1> QED
  BY StartTyped, <1>1, PTL DEF Spec

\* Types; in particular rx_buf is never written past its end, and neither queue
\* ever holds more than it has room for.
THEOREM TypeCorrect == Spec => []TypeOK
<1>1. Types => TypeOK
  BY TypesAreTypeOK
<1> QED
  BY TypesInvariant, <1>1, PTL

-----------------------------------------------------------------------------
(* The channels: what waits for what *)

\* The publishers in the list of waiters are the ones that wait, each once.
Waiting ==
    /\ \A c \in Chans : pc[c] = "wait" => Contains(waiters, c)
    /\ \A i \in 1..Len(waiters) : pc[waiters[i]] = "wait"
    /\ \A i, j \in 1..Len(waiters) : waiters[i] = waiters[j] => i = j

OtherQueued == \E c \in Chans \ {chan} : Contains(notif, c)

\* While transport_task is to read a channel, its publisher does not wait for
\* room in the queue, nor will it, unless somebody else has taken the place.
Crossed ==
    transport \in {"read", "await"} =>
        \/ overtaken \/ OtherQueued
        \/ pc[chan] # "wait" /\ (Locked(chan) => Len(notif) < NotifLen)

FlowInv == Waiting /\ UpToDate /\ Crossed /\ EndsOnlyOvertaken

\* A step of the publisher of c outside zbus_chan_pub, or one that begins with
\* the notification.
OwnStep(c) ==
    \E l \in PublisherLabels \ {"copy_tail", "wait"} :
        /\ Goto(c, l) /\ ~Locked(c)
        /\ \/ l # "notify" /\ UNCHANGED reader
           \/ Lock(c)
        /\ UNCHANGED channels

\* A publisher that takes the lock overtakes the reader of its channel, and no
\* other.
LEMMA LockOvertakes ==
  ASSUME NEW c, Lock(c)
  PROVE  /\ UNCHANGED <<transport, chan, put>>
         /\ overtaken => overtaken'
         /\ transport \in {"read", "await"} /\ chan = c => transport = "read" /\ overtaken'
<1>1. overtaken' <=> (overtaken \/ InHand(c))
  BY Zenon DEF Lock
<1> QED
  BY <1>1 DEF Lock, InHand

\* A task's steps outside a publication keep FlowInv.
LEMMA OwnFlow ==
  ASSUME Types, FlowInv, NEW c \in Chans, OwnStep(c)
  PROVE  FlowInv'
<1>1. PICK l \in PublisherLabels \ {"copy_tail", "wait"} :
          /\ Goto(c, l) /\ ~Locked(c)
          /\ \/ l # "notify" /\ UNCHANGED reader
             \/ Lock(c)
          /\ UNCHANGED channels
  BY DEF OwnStep
<1>2. /\ UNCHANGED <<value, notif, waiters, missed, transport, chan, put>>
      /\ pc \in [Chans -> PublisherLabels] /\ pc'[c] = l
      /\ \A d \in Chans \ {c} : pc'[d] = pc[d]
      /\ pc[c] \notin {"copy_tail", "notify", "wait"}
  BY <1>1, LockOvertakes DEF channels, reader, Goto, Types, ChannelTypes, Locked
<1>8. overtaken => overtaken'
  <2>1. CASE UNCHANGED reader
    <3>1. overtaken' = overtaken
      BY <2>1 DEF reader
    <3> QED
      BY <3>1
  <2> QED
    BY <1>1, <2>1, LockOvertakes
<1>3. Waiting'
  <2>1. \A d \in Chans : pc'[d] = "wait" => Contains(waiters, d)
    BY <1>1, <1>2 DEF FlowInv, Waiting
  <2>2. \A i \in 1..Len(waiters) : waiters[i] \in Chans
    BY DEF Types, ChannelTypes
  <2>3. \A i \in 1..Len(waiters) : pc'[waiters[i]] = "wait"
    BY <1>2, <2>2 DEF FlowInv, Waiting
  <2> QED
    BY <1>2, <2>1, <2>3 DEF FlowInv, Waiting
<1>4. UpToDate'
  BY <1>2 DEF FlowInv, UpToDate, Locked, InHand, Chans
<1>5. OtherQueued' <=> OtherQueued
  BY <1>2 DEF OtherQueued
<1>6. Crossed'
  <2>1. CASE chan = c
    BY <1>1, <1>2, <1>5, <1>8, <2>1, LockOvertakes DEF FlowInv, Crossed, Locked
  <2>2. CASE chan # c
    BY <1>2, <1>5, <1>8, <2>2 DEF FlowInv, Crossed, Locked, Types, ReaderTypes
  <2> QED
    BY <2>1, <2>2
<1>7. EndsOnlyOvertaken'
  BY <1>2, <1>8 DEF FlowInv, EndsOnlyOvertaken
<1> QED
  BY <1>3, <1>4, <1>6, <1>7 DEF FlowInv

\* A step that leaves the channels alone.
LEMMA OtherFlow ==
  ASSUME FlowInv, UNCHANGED <<pc, channels>>, UNCHANGED reader
  PROVE  FlowInv'
<1>1. UNCHANGED <<pc, value, notif, waiters, missed, transport, chan, put, overtaken>>
  BY DEF channels, reader
<1>6. overtaken' <=> overtaken
  BY <1>1
<1>2. Waiting'
  BY <1>1 DEF FlowInv, Waiting
<1>3. UpToDate'
  BY <1>1 DEF FlowInv, UpToDate, Locked, InHand
<1>4. Crossed'
  BY <1>1, <1>6 DEF FlowInv, Crossed, OtherQueued, Locked
<1>5. EndsOnlyOvertaken'
  BY <1>1, <1>6 DEF FlowInv, EndsOnlyOvertaken
<1> QED
  BY <1>2, <1>3, <1>4, <1>5 DEF FlowInv

\* A waiter that is woken was in the queue once, and the others stay.
LEMMA RemovedWaiter ==
  ASSUME Types, Waiting, NEW i \in 1..Len(waiters)
  PROVE  LET w == RemoveAt(waiters, i) IN
         /\ \A k \in 1..Len(w) :
                w[k] # waiters[i] /\ \E j \in 1..Len(waiters) : w[k] = waiters[j]
         /\ \A k, j \in 1..Len(w) : w[k] = w[j] => k = j
<1> DEFINE w == RemoveAt(waiters, i)
           old(k) == IF k <= i - 1 THEN k ELSE k + 1
<1>1. waiters \in Seq(Chans) /\ Len(waiters) \in Nat
  BY DEF Types, ChannelTypes
<1>2. /\ Len(w) = Len(waiters) - 1
      /\ \A k \in 1..i - 1 : w[k] = waiters[k]
      /\ \A k \in i..Len(waiters) - 1 : w[k] = waiters[k + 1]
  BY <1>1, Removal
<1> HIDE DEF w
<1>3. \A k \in 1..Len(waiters) - 1 :
          /\ w[k] = waiters[old(k)]
          /\ old(k) \in 1..Len(waiters) /\ old(k) # i
  BY <1>1, <1>2
<1>4. \A k, j \in 1..Len(waiters) - 1 : old(k) = old(j) => k = j
  BY <1>1
<1> HIDE DEF old
<1>5. Len(w) = Len(waiters) - 1
  BY <1>2
<1>6. \A k \in 1..Len(w) : w[k] # waiters[i] /\ \E j \in 1..Len(waiters) : w[k] = waiters[j]
  BY <1>3, <1>5 DEF Waiting
<1>7. \A k, j \in 1..Len(w) : w[k] = w[j] => k = j
  BY <1>3, <1>4, <1>5 DEF Waiting
<1> QED
  BY <1>6, <1>7 DEF w

\* A publisher queues for a channel once, and leaves the queue with the channel.
LEMMA PublishWaits ==
  ASSUME Types, Waiting, NEW c \in Chans, NEW m, Publish(c, m)
  PROVE  Waiting'
<1>0. /\ pc \in [Chans -> PublisherLabels] /\ waiters \in Seq(Chans)
      /\ Len(waiters) \in Nat
      /\ \A i \in 1..Len(waiters) : waiters[i] \in Chans
  BY DEF Types, ChannelTypes
<1>1. ASSUME NEW l, l # "wait", pc[c] # "wait", pc' = [pc EXCEPT ![c] = l], waiters' = waiters
      PROVE  Waiting'
  BY <1>0, <1>1 DEF Waiting
<1>2. CASE CopyHead(c, m) \/ CopyTail(c, m)
  BY <1>1, <1>2 DEF CopyHead, CopyTail
<1>3. CASE Notify(c)
  <2>1. pc[c] = "notify" /\ After[c] # "wait"
    BY <1>3, AfterTyped DEF Notify
  <2>2. CASE pc' = [pc EXCEPT ![c] = After[c]] /\ waiters' = waiters
    BY <1>1, <2>1, <2>2
  <2>3. CASE pc' = [pc EXCEPT ![c] = "wait"] /\ waiters' = Append(waiters, c)
    <3>1. /\ waiters' \in Seq(Chans) /\ Len(waiters') = Len(waiters) + 1
          /\ \A i \in 1..Len(waiters) : waiters'[i] = waiters[i]
          /\ waiters'[Len(waiters) + 1] = c
      BY <1>0, <2>3
    <3>2. \A i \in 1..Len(waiters) : waiters[i] # c
      BY <2>1 DEF Waiting
    <3>3. \A d \in Chans : pc'[d] = "wait" => Contains(waiters', d)
      BY <1>0, <2>3, InAppend DEF Waiting
    <3>4. \A i \in 1..Len(waiters') : pc'[waiters'[i]] = "wait"
      BY <1>0, <2>3, <3>1, <3>2 DEF Waiting
    <3>5. \A i, j \in 1..Len(waiters') : waiters'[i] = waiters'[j] => i = j
      BY <1>0, <3>1, <3>2 DEF Waiting
    <3> QED
      BY <3>3, <3>4, <3>5 DEF Waiting
  <2> QED
    BY <1>3, <2>2, <2>3 DEF Notify
<1>4. CASE GiveUp(c)
  <2>1. PICK i \in 1..Len(waiters) : waiters[i] = c /\ waiters' = RemoveAt(waiters, i)
    BY <1>0, <1>4 DEF GiveUp
  <2>2. pc' = [pc EXCEPT ![c] = After[c]] /\ After[c] # "wait"
    BY <1>4, AfterTyped DEF GiveUp
  <2>3. /\ \A k \in 1..Len(waiters') :
               waiters'[k] # c /\ \E j \in 1..Len(waiters) : waiters'[k] = waiters[j]
        /\ \A k, j \in 1..Len(waiters') : waiters'[k] = waiters'[j] => k = j
    BY <2>1, RemovedWaiter
  <2>4. \A d \in Chans : pc'[d] = "wait" => Contains(waiters', d)
    BY <1>0, <2>1, <2>2, InRemoved DEF Waiting
  <2>5. \A k \in 1..Len(waiters') : pc'[waiters'[k]] = "wait"
    BY <1>0, <2>2, <2>3 DEF Waiting
  <2> QED
    BY <2>3, <2>4, <2>5 DEF Waiting
<1> QED
  BY <1>2, <1>3, <1>4 DEF Publish

\* The notification that is handed over to a task that waits for one.
Handed(c) ==
    /\ pc[c] = "notify"
    /\ transport = "wait" /\ Take(c)
    /\ missed' = [missed EXCEPT ![c] = FALSE]
    /\ pc' = [pc EXCEPT ![c] = After[c]]
    /\ UNCHANGED <<value, notif, waiters>>

\* A publication leaves transport_task where it is, or hands its reference over.
LEMMA PublishHands ==
  ASSUME NEW c, NEW m, Publish(c, m)
  PROVE  \/ Notify(c) /\ Handed(c)
         \/ /\ UNCHANGED <<transport, chan, put>>
            /\ overtaken => overtaken'
            /\ \/ CopyHead(c, m) \/ CopyTail(c, m) \/ GiveUp(c)
               \/ /\ pc[c] = "notify" /\ Len(notif) < NotifLen
                  /\ notif' = Append(notif, c)
                  /\ missed' = [missed EXCEPT ![c] = FALSE]
                  /\ pc' = [pc EXCEPT ![c] = After[c]]
                  /\ value' = value
               \/ /\ pc[c] = "notify" /\ Len(notif) = NotifLen
                  /\ pc' = [pc EXCEPT ![c] = "wait"]
                  /\ UNCHANGED <<value, notif, missed>>
<1>1. UNCHANGED reader => UNCHANGED <<transport, chan, put>> /\ (overtaken => overtaken')
  <2> SUFFICES ASSUME UNCHANGED reader
               PROVE  UNCHANGED <<transport, chan, put>> /\ (overtaken => overtaken')
    OBVIOUS
  <2>1. UNCHANGED <<transport, chan, put, overtaken>>
    BY DEF reader
  <2>2. overtaken' <=> overtaken
    BY <2>1
  <2> QED
    BY <2>1, <2>2
<1>2. CASE CopyHead(c, m)
  BY <1>2, LockOvertakes DEF CopyHead
<1>3. CASE CopyTail(c, m) \/ GiveUp(c)
  BY <1>1, <1>3 DEF CopyTail, GiveUp
<1>4. CASE Notify(c)
  BY <1>1, <1>4 DEF Notify, Handed
<1> QED
  BY <1>2, <1>3, <1>4 DEF Publish

\* A publication keeps FlowInv.
LEMMA PublishFlow ==
  ASSUME Types, FlowInv, NEW c \in Chans, NEW m, Publish(c, m)
  PROVE  FlowInv'
<1>0. /\ pc \in [Chans -> PublisherLabels] /\ value \in [Chans -> Message]
      /\ missed \in [Chans -> BOOLEAN]
      /\ notif \in Seq(Chans) /\ Len(notif) \in Nat /\ Len(notif) <= NotifLen
      /\ NotifLen \in Nat \ {0} /\ chan \in Chans /\ put' = put
      /\ After[c] \notin {"copy_tail", "notify", "wait"}
  BY PublishKeeps, ZbusAssumption, AfterTyped DEF Types, ChannelTypes, ReaderTypes
<1>1. Waiting'
  BY PublishWaits DEF FlowInv
<1>2. CASE Notify(c) /\ Handed(c)
  <2>1. /\ chan' = c
        /\ transport = "wait" /\ transport' = IF c = "FOTA_CHAN" THEN "wait" ELSE "read"
        /\ pc'[c] \notin {"copy_tail", "notify", "wait"}
        /\ \A d \in Chans \ {c} : pc'[d] = pc[d] /\ (missed'[d] <=> missed[d])
        /\ UNCHANGED <<value, notif>>
    BY <1>0, <1>2 DEF Handed, Take
  <2>2. UpToDate'
    <3>1. ASSUME NEW d \in DataChans
          PROVE  \/ put[d] = value[d] \/ (Locked(d))' \/ missed'[d]
                 \/ Contains(notif, d) \/ (InHand(d))'
      <4>1. CASE d = c
        BY <2>1, <4>1 DEF InHand, DataChans
      <4>2. CASE d # c
        BY <2>1, <4>2 DEF FlowInv, UpToDate, Locked, InHand, Chans
      <4> QED
        BY <4>1, <4>2
    <3> QED
      BY <1>0, <2>1, <3>1 DEF UpToDate
  <2>3. Crossed' /\ EndsOnlyOvertaken'
    BY <2>1 DEF Crossed, EndsOnlyOvertaken, Locked
  <2> QED
    BY <1>1, <2>2, <2>3 DEF FlowInv
<1>3. ASSUME UNCHANGED <<transport, chan, put>>, overtaken => overtaken',
             \/ CopyHead(c, m) \/ CopyTail(c, m) \/ GiveUp(c)
             \/ /\ pc[c] = "notify" /\ Len(notif) < NotifLen
                /\ notif' = Append(notif, c)
                /\ missed' = [missed EXCEPT ![c] = FALSE]
                /\ pc' = [pc EXCEPT ![c] = After[c]]
                /\ value' = value
             \/ /\ pc[c] = "notify" /\ Len(notif) = NotifLen
                /\ pc' = [pc EXCEPT ![c] = "wait"]
                /\ UNCHANGED <<value, notif, missed>>
      PROVE  FlowInv'
  <2>1. CASE CopyHead(c, m)
    <3>1. /\ pc[c] = "copy_head" /\ Lock(c)
          /\ pc'[c] = "copy_tail" /\ \A d \in Chans \ {c} : pc'[d] = pc[d]
          /\ \A d \in Chans \ {c} : value'[d] = value[d]
          /\ UNCHANGED <<notif, missed>>
      BY <1>0, <1>3, <2>1 DEF CopyHead
    <3>2. UpToDate'
      BY <1>0, <1>3, <3>1 DEF FlowInv, UpToDate, Locked, InHand, Chans
    <3>3. Crossed' /\ EndsOnlyOvertaken'
      BY <1>0, <1>3, <3>1, LockOvertakes DEF FlowInv, Crossed, OtherQueued, EndsOnlyOvertaken, Locked
    <3> QED
      BY <1>1, <3>2, <3>3 DEF FlowInv
  <2>2. CASE CopyTail(c, m)
    <3>1. /\ pc[c] = "copy_tail"
          /\ pc'[c] = "notify" /\ \A d \in Chans \ {c} : pc'[d] = pc[d]
          /\ \A d \in Chans \ {c} : value'[d] = value[d]
          /\ UNCHANGED <<notif, missed>>
      BY <1>0, <1>3, <2>2 DEF CopyTail
    <3>2. UpToDate'
      BY <1>0, <1>3, <3>1 DEF FlowInv, UpToDate, Locked, InHand, Chans
    <3>3. Crossed' /\ EndsOnlyOvertaken'
      BY <1>0, <1>3, <3>1 DEF FlowInv, Crossed, OtherQueued, EndsOnlyOvertaken, Locked
    <3> QED
      BY <1>1, <3>2, <3>3 DEF FlowInv
  <2>3. CASE /\ pc[c] = "notify" /\ Len(notif) < NotifLen
             /\ notif' = Append(notif, c)
             /\ missed' = [missed EXCEPT ![c] = FALSE]
             /\ pc' = [pc EXCEPT ![c] = After[c]]
             /\ value' = value
    <3>1. /\ Contains(notif', c) /\ \A x : Contains(notif, x) => Contains(notif', x)
          /\ \A d \in Chans \ {c} : pc'[d] = pc[d] /\ (missed'[d] <=> missed[d])
          /\ pc'[c] = After[c]
      BY <1>0, <1>3, <2>3, InAppend
    <3>2. UpToDate'
      BY <1>0, <1>3, <2>3, <3>1 DEF FlowInv, UpToDate, Locked, InHand, Chans
    <3>3. c # chan => OtherQueued'
      BY <1>0, <1>3, <3>1 DEF OtherQueued
    <3>4. OtherQueued => OtherQueued'
      BY <1>0, <1>3, <3>1 DEF OtherQueued
    <3>5. Crossed'
      BY <1>0, <1>3, <3>1, <3>3, <3>4 DEF FlowInv, Crossed, Locked
    <3>6. EndsOnlyOvertaken'
      BY <1>0, <1>3, <3>1 DEF FlowInv, EndsOnlyOvertaken
    <3> QED
      BY <1>1, <3>2, <3>5, <3>6 DEF FlowInv
  <2>4. CASE /\ pc[c] = "notify" /\ Len(notif) = NotifLen
             /\ pc' = [pc EXCEPT ![c] = "wait"]
             /\ UNCHANGED <<value, notif, missed>>
    <3>1. \A d \in Chans \ {c} : pc'[d] = pc[d]
      BY <1>0, <1>3, <2>4
    <3>2. UpToDate'
      BY <1>0, <1>3, <2>4, <3>1 DEF FlowInv, UpToDate, Locked, InHand, Chans
    <3>3. Crossed'
      BY <1>0, <1>3, <2>4, <3>1 DEF FlowInv, Crossed, OtherQueued, Locked
    <3>4. EndsOnlyOvertaken'
      BY <1>0, <1>3, <2>4 DEF FlowInv, EndsOnlyOvertaken
    <3> QED
      BY <1>1, <3>2, <3>3, <3>4 DEF FlowInv
  <2>5. CASE GiveUp(c)
    <3>1. /\ pc'[c] = After[c] /\ \A d \in Chans \ {c} : pc'[d] = pc[d]
          /\ UNCHANGED <<value, notif>>
      BY <1>0, <1>3, <2>5 DEF GiveUp
    <3>2. \A d \in Chans \ {c} : missed'[d] <=> missed[d]
      BY <1>0, <1>3, <2>5 DEF GiveUp
    <3>3. missed'[c] \/ Contains(notif, c) \/ InHand(c)
      BY <1>0, <1>3, <2>5 DEF GiveUp
    <3>4. UpToDate'
      BY <1>0, <1>3, <3>1, <3>2, <3>3 DEF FlowInv, UpToDate, Locked, InHand, Chans
    <3>5. Crossed' /\ EndsOnlyOvertaken'
      BY <1>0, <1>3, <3>1 DEF FlowInv, Crossed, OtherQueued, EndsOnlyOvertaken, Locked
    <3> QED
      BY <1>1, <3>4, <3>5 DEF FlowInv
  <2> QED
    BY <1>3, <2>1, <2>2, <2>3, <2>4, <2>5
<1> QED
  BY <1>2, <1>3, PublishHands

\* So does the subscriber that takes a notification ...
LEMMA TakeReference ==
  ASSUME Types, FlowInv, SubWait
  PROVE  FlowInv'
<1>0. /\ pc \in [Chans -> PublisherLabels] /\ missed \in [Chans -> BOOLEAN]
      /\ notif \in Seq(Chans) /\ notif # <<>> /\ Len(notif) <= NotifLen
      /\ waiters \in Seq(Chans) /\ Len(waiters) \in Nat /\ NotifLen \in Nat
      /\ UNCHANGED <<value, put>> /\ transport = "wait" /\ chan' = Head(notif)
      /\ transport' = IF chan' = "FOTA_CHAN" THEN "wait" ELSE "read"
  BY ZbusAssumption DEF SubWait, Take, Types, ChannelTypes
<1>1. /\ Head(notif) \in Chans /\ Tail(notif) \in Seq(Chans)
      /\ Len(notif) \in Nat \ {0} /\ Len(Tail(notif)) = Len(notif) - 1
      /\ \A x : Contains(notif, x) => x = chan' \/ Contains(Tail(notif), x)
  BY <1>0, InTail
<1>2. CASE /\ waiters = <<>> /\ notif' = Tail(notif)
           /\ UNCHANGED <<pc, waiters, missed>>
  <2>1. Waiting'
    BY <1>2 DEF FlowInv, Waiting
  <2>2. UpToDate'
    BY <1>0, <1>1, <1>2 DEF FlowInv, UpToDate, Locked, InHand, DataChans
  <2>3. \A c \in Chans : pc[c] # "wait"
    BY <1>2 DEF FlowInv, Waiting, Contains
  <2>4. Len(notif') < NotifLen
    BY <1>0, <1>1, <1>2
  <2>5. Crossed' /\ EndsOnlyOvertaken'
    BY <1>0, <1>1, <1>2, <2>3, <2>4 DEF Crossed, EndsOnlyOvertaken
  <2> QED
    BY <2>1, <2>2, <2>5 DEF FlowInv
<1>3. CASE /\ waiters # <<>>
           /\ notif' = Append(Tail(notif), Head(waiters))
           /\ waiters' = Tail(waiters)
           /\ missed' = [missed EXCEPT ![Head(waiters)] = FALSE]
           /\ pc' = [pc EXCEPT ![Head(waiters)] = After[Head(waiters)]]
  <2> DEFINE w == Head(waiters)
  <2>1. /\ w \in Chans /\ waiters' \in Seq(Chans) /\ Len(waiters') = Len(waiters) - 1
        /\ Len(waiters) \in Nat \ {0} /\ w = waiters[1]
        /\ \A i \in 1..Len(waiters') : waiters'[i] = waiters[i + 1]
        /\ \A x : Contains(waiters, x) => x = w \/ Contains(waiters', x)
    BY <1>0, <1>3, InTail
  <2> HIDE DEF w
  <2>2. /\ Contains(notif', w)
        /\ \A x : Contains(notif, x) => x = chan' \/ Contains(notif', x)
    BY <1>1, <1>3, <2>1, InAppend DEF w
  <2>3. /\ pc'[w] \notin {"copy_tail", "notify", "wait"}
        /\ \A d \in Chans \ {w} : pc'[d] = pc[d] /\ (missed'[d] <=> missed[d])
    BY <1>0, <1>3, <2>1, AfterTyped DEF w
  <2>4. Waiting'
    <3>1. \A d \in Chans : pc'[d] = "wait" => Contains(waiters', d)
      BY <2>1, <2>3 DEF FlowInv, Waiting
    <3>2. \A i \in 1..Len(waiters') :
              i + 1 \in 1..Len(waiters) /\ waiters[i + 1] # w /\ waiters[i + 1] \in Chans
      BY <1>0, <2>1 DEF FlowInv, Waiting
    <3>3. \A i \in 1..Len(waiters') : pc'[waiters'[i]] = "wait"
      BY <2>1, <2>3, <3>2 DEF FlowInv, Waiting
    <3>4. \A i, j \in 1..Len(waiters') : waiters'[i] = waiters'[j] => i = j
      BY <2>1, <3>2 DEF FlowInv, Waiting
    <3> QED
      BY <3>1, <3>3, <3>4 DEF Waiting
  <2>5. UpToDate'
    BY <1>0, <2>2, <2>3 DEF FlowInv, UpToDate, Locked, InHand, Chans, DataChans
  <2>6. Crossed'
    <3>1. CASE w = chan'
      BY <2>3, <3>1 DEF Crossed, Locked
    <3>2. CASE w # chan'
      BY <2>1, <2>2, <3>2 DEF Crossed, OtherQueued
    <3> QED
      BY <3>1, <3>2
  <2> QED
    BY <1>0, <2>4, <2>5, <2>6 DEF FlowInv, EndsOnlyOvertaken
<1> QED
  BY <1>2, <1>3 DEF SubWait

\* ... and the task that reads the channel it names.
LEMMA TransportFlow ==
  ASSUME Types, FlowInv, TransportTask
  PROVE  FlowInv'
<1>1. CASE SubWait
  BY <1>1, TakeReference
<1>2. CASE AwaitLock
  <2>1. /\ UNCHANGED <<pc, value, notif, waiters, missed, chan, overtaken, put>>
        /\ transport = "read" /\ transport' = "await"
    BY <1>2 DEF AwaitLock, channels
  <2>2. overtaken' <=> overtaken
    BY <2>1
  <2>3. Waiting' /\ UpToDate'
    BY <2>1 DEF FlowInv, Waiting, UpToDate, Locked, InHand
  <2>4. Crossed' /\ EndsOnlyOvertaken'
    BY <2>1, <2>2 DEF FlowInv, Crossed, OtherQueued, EndsOnlyOvertaken, Locked
  <2> QED
    BY <2>3, <2>4 DEF FlowInv
<1>3. CASE Read \/ ReadTimeout \/ Run
  <2>1. UNCHANGED <<pc, value, notif, waiters, missed, chan>>
    BY <1>3 DEF Read, ReadTimeout, Run, channels
  <2>2. Waiting'
    BY <2>1 DEF FlowInv, Waiting
  <2>3. transport' \notin {"read", "await"}
    BY <1>3 DEF Read, ReadTimeout, Run
  <2>4. Crossed'
    BY <2>3 DEF Crossed
  <2>5. EndsOnlyOvertaken'
    <3>1. CASE ReadTimeout
      <4>1. /\ transport = "await" /\ pc[chan] = "wait" /\ overtaken' = overtaken
        BY <3>1 DEF ReadTimeout
      <4>2. overtaken' <=> overtaken
        BY <4>1
      <4>3. overtaken \/ OtherQueued
        BY <4>1 DEF FlowInv, Crossed
      <4> QED
        BY <2>1, <4>2, <4>3 DEF EndsOnlyOvertaken, OtherQueued
    <3>2. CASE Read \/ Run
      BY <3>2 DEF Read, Run, EndsOnlyOvertaken
    <3> QED
      BY <1>3, <3>1, <3>2
  <2>6. UpToDate'
    <3>1. CASE Read
      <4>1. /\ put \in [DataChans -> Message]
            /\ \/ chan = "NETWORK_CHAN" /\ put' = put
               \/ chan \in DataChans /\ put' = [put EXCEPT ![chan] = value[chan]]
            /\ "NETWORK_CHAN" \notin DataChans /\ transport # "ended"
        BY <3>1 DEF Read, Types, ReaderTypes, DataChans
      <4> QED
        BY <2>1, <4>1 DEF FlowInv, UpToDate, Locked, InHand
    <3>2. CASE ReadTimeout
      BY <3>2 DEF ReadTimeout, UpToDate
    <3>3. CASE Run
      BY <2>1, <3>3 DEF Run, FlowInv, UpToDate, Locked, InHand
    <3> QED
      BY <1>3, <3>1, <3>2, <3>3
  <2> QED
    BY <2>2, <2>4, <2>5, <2>6 DEF FlowInv
<1> QED
  BY <1>1, <1>2, <1>3 DEF TransportTask

\* FlowInv is inductive: it holds at first ...
LEMMA FlowStart == Init => FlowInv
<1> SUFFICES ASSUME Init PROVE FlowInv
  OBVIOUS
<1>1. /\ waiters = <<>> /\ transport = "wait" /\ \A c \in Chans : pc[c] = "idle"
      /\ \A c \in DataChans : put[c] = value[c]
  BY DEF Init, ZbusInit, Chans
<1> QED
  BY <1>1 DEF FlowInv, Waiting, UpToDate, Crossed, EndsOnlyOvertaken

\* ... every step keeps it ...
LEMMA FlowStep ==
  ASSUME Types, FlowInv, [Next]_vars
  PROVE  FlowInv'
<1>0. {"MQTT_CHAN", "GPS_CHAN"} \subseteq Chans /\ EventChans \subseteq Chans
  BY DEF Chans, DataChans
<1>1. CASE Byte \/ Newline \/ Pvt \/ Fix \/ PubWorker \/ Session
  <2>1. UNCHANGED <<pc, channels>> /\ UNCHANGED reader
    BY <1>1 DEF Byte, Newline, LineEnd, Pvt, Fix, zbusVars, PubWorker, PubWork,
       WorkStart, Drain, Session, SessionUp, SessionDown
  <2> QED
    BY <2>1, OtherFlow
<1>2. CASE UNCHANGED vars
  BY <1>2, OtherFlow DEF vars, zbusVars
<1>3. CASE TakeUart \/ Test \/ ClearHead \/ ClearTail
  <2>1. OwnStep("MQTT_CHAN")
    <3>1. UNCHANGED channels /\ UNCHANGED reader
      BY <1>3 DEF TakeUart, Test, ClearHead, ClearTail
    <3>2. pc["MQTT_CHAN"] \in {"idle", "test", "clear_head", "clear_tail"}
      BY <1>3 DEF TakeUart, Test, ClearHead, ClearTail
    <3>3. \E l \in {"test", "copy_head", "idle", "clear_tail"} : Goto("MQTT_CHAN", l)
      BY <1>3 DEF TakeUart, Test, ClearHead, ClearTail
    <3> QED
      BY <3>1, <3>2, <3>3 DEF OwnStep, PublisherLabels, Locked
  <2> QED
    BY <1>0, <2>1, OwnFlow
<1>4. CASE TakeFix \/ Inc
  <2>1. OwnStep("GPS_CHAN")
    <3>1. UNCHANGED channels /\ UNCHANGED reader
      BY <1>4 DEF TakeFix, Inc
    <3>2. pc["GPS_CHAN"] \in {"idle", "inc"}
      BY <1>4 DEF TakeFix, Inc
    <3>3. \E l \in {"copy_head", "idle"} : Goto("GPS_CHAN", l)
      BY <1>4 DEF TakeFix, Inc
    <3> QED
      BY <3>1, <3>2, <3>3 DEF OwnStep, PublisherLabels, Locked
  <2> QED
    BY <1>0, <2>1, OwnFlow
<1>5. CASE PdnEvent \/ FotaRequest
  <2>1. PICK c \in EventChans : PublishOn(c)
    BY <1>5 DEF PdnEvent, FotaRequest, EventChans
  <2>2. OwnStep(c)
    BY <2>1 DEF PublishOn, OwnStep, PublisherLabels, Locked
  <2> QED
    BY <1>0, <2>1, <2>2, OwnFlow
<1>6. CASE PublishLine \/ PublishPosition \/ PublishEvent
  BY <1>0, <1>6, PublishFlow DEF PublishLine, PublishPosition, PublishEvent, Publish
<1>7. CASE Transport
  BY <1>7, TransportFlow DEF Transport
<1> QED
  BY <1>1, <1>2, <1>3, <1>4, <1>5, <1>6, <1>7 DEF Next, TriggerTask, LocationTask

\* ... so that it always holds.
LEMMA FlowInvariant == Spec => []FlowInv
<1>1. Types /\ FlowInv /\ [Next]_vars => FlowInv'
  BY FlowStep
<1> QED
  BY FlowStart, TypesInvariant, <1>1, PTL DEF Spec

\* What is read from a channel last is what was published last, whatever the
\* length of the queue and however the publishers get in each other's way.
THEOREM ReadsUpToDate == Spec => []UpToDate
<1>1. FlowInv => UpToDate
  BY DEF FlowInv
<1> QED
  BY FlowInvariant, <1>1, PTL

\* A backlog that is in the queue when transport_task takes a reference cannot
\* end it, whatever the length of the queue: it takes a new publication, on the
\* channel it is about to read or on another.
THEOREM EndsOvertaken == Spec => []EndsOnlyOvertaken
<1>1. FlowInv => EndsOnlyOvertaken
  BY DEF FlowInv
<1> QED
  BY FlowInvariant, <1>1, PTL

-----------------------------------------------------------------------------
(* The two buffers *)

\* A publication, seen from its channel.
LEMMA OwnPublish ==
  ASSUME Types, NEW c \in Chans, NEW m \in Message, Publish(c, m)
  PROVE  \/ /\ pc[c] = "copy_head" /\ pc'[c] = "copy_tail"
            /\ value'[c] = [value[c] EXCEPT !.tag = m.tag, !.head = m.head]
         \/ /\ pc[c] = "copy_tail" /\ pc'[c] = "notify"
            /\ value'[c] = [value[c] EXCEPT !.tail = m.tail]
         \/ /\ pc[c] \in {"notify", "wait"} /\ pc'[c] \in {After[c], "wait"}
            /\ value'[c] = value[c]
<1>1. pc \in [Chans -> PublisherLabels] /\ value \in [Chans -> Message]
  BY DEF Types, ChannelTypes
<1>2. value[c] \in Message
  BY <1>1
<1>3. CASE CopyHead(c, m)
  BY <1>1, <1>2, <1>3 DEF CopyHead, Message
<1>4. CASE CopyTail(c, m)
  BY <1>1, <1>2, <1>4 DEF CopyTail, Message
<1>5. CASE Notify(c) \/ GiveUp(c)
  BY <1>1, <1>5 DEF Notify, GiveUp
<1> QED
  BY <1>3, <1>4, <1>5 DEF Publish

\* A publication, seen from another channel.
LEMMA ForeignPublish ==
  ASSUME Types, NEW c \in Chans, NEW m, Publish(c, m), NEW d \in Chans \ {c}
  PROVE  pc'[d] = pc[d] /\ value'[d] = value[d]
<1>1. pc \in [Chans -> PublisherLabels] /\ value \in [Chans -> Message]
  BY DEF Types, ChannelTypes
<1> QED
  BY <1>1 DEF Publish, CopyHead, CopyTail, Notify, GiveUp

\* transport_task ends the wait of a publisher, and does nothing else to it.
LEMMA ForeignTransport ==
  ASSUME Types, Waiting, TransportTask, NEW d \in Chans
  PROVE  /\ value' = value
         /\ pc'[d] = pc[d] \/ (pc[d] = "wait" /\ pc'[d] = After[d])
<1>1. pc \in [Chans -> PublisherLabels] /\ waiters \in Seq(Chans)
  BY DEF Types, ChannelTypes
<1>2. value' = value
  BY DEF TransportTask, SubWait, AwaitLock, Read, ReadTimeout, Run, channels
<1>3. CASE pc' = pc
  BY <1>2, <1>3
<1>4. CASE /\ waiters # <<>>
           /\ pc' = [pc EXCEPT ![Head(waiters)] = After[Head(waiters)]]
  <2>1. Head(waiters) \in Chans /\ Len(waiters) \in Nat \ {0} /\ Head(waiters) = waiters[1]
    BY <1>1, <1>4, InTail
  <2>2. pc[Head(waiters)] = "wait"
    BY <2>1 DEF Waiting
  <2> QED
    BY <1>1, <1>2, <1>4, <2>1, <2>2
<1> QED
  BY <1>3, <1>4 DEF TransportTask, SubWait, AwaitLock, Read, ReadTimeout, Run, channels

\* All steps but those of trigger.c, seen from there.
LEMMA LineElse ==
  ASSUME Types, Waiting, [Next]_vars, ~Byte, ~Newline, ~TriggerTask
  PROVE  /\ UNCHANGED uart /\ UNCHANGED published
         /\ value'["MQTT_CHAN"] = value["MQTT_CHAN"]
         /\ \/ pc'["MQTT_CHAN"] = pc["MQTT_CHAN"]
            \/ pc["MQTT_CHAN"] = "wait" /\ pc'["MQTT_CHAN"] = "clear_head"
<1>0. /\ {"MQTT_CHAN", "GPS_CHAN"} \subseteq Chans /\ EventChans \subseteq Chans
      /\ {"MQTT_CHAN", "GPS_CHAN"} \cap EventChans = {}
      /\ After["MQTT_CHAN"] = "clear_head" /\ pc \in [Chans -> PublisherLabels]
  BY DEF Chans, DataChans, EventChans, After, Types, ChannelTypes
<1>1. CASE Pvt \/ Fix \/ PubWorker \/ Session \/ UNCHANGED vars
  BY <1>1 DEF Pvt, Fix, zbusVars, PubWorker, PubWork, WorkStart, Drain, Session,
     SessionUp, SessionDown, vars, channels
<1>2. CASE TakeFix \/ Inc
  BY <1>0, <1>2 DEF TakeFix, Inc, Goto, channels
<1>6. CASE PdnEvent \/ FotaRequest
  <2>1. PICK c \in EventChans : PublishOn(c)
    BY <1>6 DEF PdnEvent, FotaRequest, EventChans
  <2> QED
    BY <1>0, <2>1 DEF PublishOn, Goto, channels, uart, gnss
<1>3. CASE PublishPosition
  BY <1>0, <1>3, ForeignPublish DEF PublishPosition
<1>4. CASE PublishEvent
  <2>1. PICK c \in EventChans : Publish(c, Empty)
    BY <1>4 DEF PublishEvent, Publish
  <2> QED
    BY <1>0, <1>4, <2>1, ForeignPublish DEF PublishEvent
<1>5. CASE Transport
  BY <1>0, <1>5, ForeignTransport DEF Transport
<1> QED
  BY <1>1, <1>2, <1>3, <1>4, <1>5, <1>6 DEF Next, LocationTask

\* All steps but those of location.c, seen from there.
LEMMA PositionElse ==
  ASSUME Types, Waiting, [Next]_vars, ~Pvt, ~Fix, ~LocationTask
  PROVE  /\ UNCHANGED gnss
         /\ value'["GPS_CHAN"] = value["GPS_CHAN"]
         /\ \/ pc'["GPS_CHAN"] = pc["GPS_CHAN"]
            \/ pc["GPS_CHAN"] = "wait" /\ pc'["GPS_CHAN"] = "inc"
<1>0. /\ {"MQTT_CHAN", "GPS_CHAN"} \subseteq Chans /\ EventChans \subseteq Chans
      /\ {"MQTT_CHAN", "GPS_CHAN"} \cap EventChans = {}
      /\ After["GPS_CHAN"] = "inc" /\ pc \in [Chans -> PublisherLabels]
  BY DEF Chans, DataChans, EventChans, After, Types, ChannelTypes
<1>1. CASE Byte \/ Newline \/ PubWorker \/ Session \/ UNCHANGED vars
  BY <1>1 DEF Byte, Newline, LineEnd, zbusVars, PubWorker, PubWork, WorkStart, Drain,
     Session, SessionUp, SessionDown, vars, channels
<1>2. CASE TakeUart \/ Test \/ ClearHead \/ ClearTail
  BY <1>0, <1>2 DEF TakeUart, Test, ClearHead, ClearTail, Goto, channels
<1>6. CASE PdnEvent \/ FotaRequest
  <2>1. PICK c \in EventChans : PublishOn(c)
    BY <1>6 DEF PdnEvent, FotaRequest, EventChans
  <2> QED
    BY <1>0, <2>1 DEF PublishOn, Goto, channels, uart, gnss
<1>3. CASE PublishLine
  BY <1>0, <1>3, ForeignPublish DEF PublishLine
<1>4. CASE PublishEvent
  <2>1. PICK c \in EventChans : Publish(c, Empty)
    BY <1>4 DEF PublishEvent, Publish
  <2> QED
    BY <1>0, <1>4, <2>1, ForeignPublish DEF PublishEvent
<1>5. CASE Transport
  BY <1>0, <1>5, ForeignTransport DEF Transport
<1> QED
  BY <1>1, <1>2, <1>3, <1>4, <1>5, <1>6 DEF Next, TriggerTask

\* No line is left in the buffer while the task is about to sleep.
Noticed ==
    pc["MQTT_CHAN"] \in {"idle", "clear_tail"} /\ payload.head # 0 => uart_sem = 1

\* Every step keeps a notified task on its way to the channel.
LEMMA NoticedStep ==
  ASSUME Types, Waiting, Noticed, [Next]_vars
  PROVE  Noticed'
<1>0. /\ "MQTT_CHAN" \in Chans /\ pc \in [Chans -> PublisherLabels]
      /\ payload \in Message /\ After["MQTT_CHAN"] = "clear_head"
  BY DEF Chans, DataChans, After, Types, ChannelTypes, UartTypes
<1>1. CASE Byte \/ Newline
  BY <1>1 DEF Byte, Newline, Noticed
<1>2. CASE PublishLine
  <2>1. pc'["MQTT_CHAN"] \in {"copy_tail", "notify", "clear_head", "wait"}
    BY <1>0, <1>2, OwnPublish DEF PublishLine
  <2> QED
    BY <2>1 DEF Noticed
<1>3. CASE TakeUart \/ Test
  BY <1>0, <1>3 DEF TakeUart, Test, Goto, Noticed, uart
<1>4. CASE ClearHead
  <2>1. payload'.head = 0
    BY <1>0, <1>4 DEF ClearHead, Message
  <2> QED
    BY <2>1 DEF Noticed
<1>5. CASE ClearTail
  <2>1. payload'.head = payload.head /\ pc["MQTT_CHAN"] = "clear_tail" /\ uart_sem' = uart_sem
    BY <1>0, <1>5 DEF ClearTail, Message
  <2> QED
    BY <2>1 DEF Noticed
<1>6. CASE ~Byte /\ ~Newline /\ ~TriggerTask
  BY <1>6, LineElse DEF Noticed, uart
<1> QED
  BY <1>1, <1>2, <1>3, <1>4, <1>5, <1>6 DEF TriggerTask

\* A line is never left behind without a token of uart_sem.
THEOREM NoLineUnnoticed == Spec => []LineNoticed
<1>1. Init => Noticed
  BY DEF Init, ZbusInit, Noticed, Empty
<1>2. Types /\ FlowInv /\ Noticed /\ [Next]_vars => Noticed'
  BY NoticedStep DEF FlowInv
<1>3. Noticed => LineNoticed
  BY DEF Noticed, LineNoticed
<1> QED
  BY TypesInvariant, FlowInvariant, <1>1, <1>2, <1>3, PTL DEF Spec

\* The position in the buffer is of a fix announced or of a later frame, and is
\* whole; what has been copied of it is no older.
Ordered ==
    LET copied == value["GPS_CHAN"] IN
    /\ due <= announced /\ announced <= velo.head /\ velo.head <= frame
    /\ velo.tail = velo.head /\ copied.head <= velo.head
    /\ pc["GPS_CHAN"] \in {"copy_tail", "notify", "wait", "inc"} => due <= copied.head
    /\ pc["GPS_CHAN"] # "copy_tail" => copied.head <= copied.tail

\* The task is only woken by a fix, so that what it publishes is not empty.
Started == /\ gnss_fix_sem = 1 => announced > 0
           /\ pc["GPS_CHAN"] # "idle" => due > 0

\* The number in the buffer is that of the next position, or of the one that is
\* being published.
Numbered ==
    LET copied == value["GPS_CHAN"] IN
    /\ pc["GPS_CHAN"] \in {"idle", "copy_head"} =>
           velo.tag = IF copied = Empty THEN 0 ELSE copied.tag + 1
    /\ pc["GPS_CHAN"] \in {"copy_tail", "notify", "wait", "inc"} => velo.tag = copied.tag

PositionInv == Ordered /\ Started /\ Numbered

\* Every step keeps PositionInv ...
LEMMA PositionStep ==
  ASSUME Types, Waiting, PositionInv, [Next]_vars
  PROVE  PositionInv'
<1>0. /\ "GPS_CHAN" \in Chans /\ pc \in [Chans -> PublisherLabels]
      /\ value["GPS_CHAN"] \in Message /\ velo \in Message
      /\ After["GPS_CHAN"] = "inc" /\ Empty.head = 0
      /\ frame \in Nat /\ announced \in Nat /\ due \in Nat
      /\ velo.head \in Nat /\ velo.tail \in Nat /\ velo.tag \in Nat
      /\ value["GPS_CHAN"].head \in Nat /\ value["GPS_CHAN"].tag \in Nat
      /\ value["GPS_CHAN"].tail \in Nat
  BY MessageParts DEF Chans, DataChans, After, Types, ChannelTypes, GnssTypes
<1>1. CASE Pvt \/ Fix
  <2>1. pc' = pc /\ value' = value /\ due' = due
    BY <1>1 DEF Pvt, Fix, zbusVars, channels
  <2>2. ASSUME NEW n \in Nat, velo' = [velo EXCEPT !.head = n, !.tail = n]
        PROVE  velo'.head = n /\ velo'.tail = n /\ velo'.tag = velo.tag
    BY <1>0, <2>2 DEF Message
  <2>3. CASE Pvt
    <3>1. frame' = frame + 1 /\ announced' = announced /\ gnss_fix_sem' = gnss_fix_sem
      BY <2>3 DEF Pvt
    <3>2. velo' = velo \/ velo' = [velo EXCEPT !.head = frame + 1, !.tail = frame + 1]
      BY <2>3 DEF Pvt
    <3>3. frame + 1 \in Nat
      BY <1>0
    <3>4. velo' = velo \/ (velo'.head = frame + 1 /\ velo'.tail = frame + 1 /\ velo'.tag = velo.tag)
      BY <2>2, <3>2, <3>3
    <3> QED
      BY <1>0, <2>1, <3>1, <3>4 DEF PositionInv, Ordered, Started, Numbered
  <2>4. CASE Fix
    <3>1. frame' = frame /\ announced' = frame /\ announced < frame
      BY <1>0, <2>4 DEF Fix
    <3>2. velo'.head = frame /\ velo'.tail = frame /\ velo'.tag = velo.tag
      BY <1>0, <2>2, <2>4 DEF Fix
    <3> QED
      BY <1>0, <2>1, <3>1, <3>2 DEF PositionInv, Ordered, Started, Numbered
  <2> QED
    BY <1>1, <2>3, <2>4
<1>2. CASE PublishPosition
  <2>1. UNCHANGED <<frame, announced, velo, due, gnss_fix_sem>>
    BY <1>2 DEF PublishPosition, gnss
  <2>2. CASE /\ pc["GPS_CHAN"] = "copy_head" /\ pc'["GPS_CHAN"] = "copy_tail"
             /\ value'["GPS_CHAN"] = [value["GPS_CHAN"] EXCEPT !.tag = velo.tag, !.head = velo.head]
    <3>1. value'["GPS_CHAN"].tag = velo.tag /\ value'["GPS_CHAN"].head = velo.head
      BY <1>0, <2>2 DEF Message
    <3> QED
      BY <1>0, <2>1, <2>2, <3>1 DEF PositionInv, Ordered, Started, Numbered
  <2>3. CASE /\ pc["GPS_CHAN"] = "copy_tail" /\ pc'["GPS_CHAN"] = "notify"
             /\ value'["GPS_CHAN"] = [value["GPS_CHAN"] EXCEPT !.tail = velo.tail]
    <3>1. /\ value'["GPS_CHAN"].tag = value["GPS_CHAN"].tag
          /\ value'["GPS_CHAN"].head = value["GPS_CHAN"].head
          /\ value'["GPS_CHAN"].tail = velo.tail
      BY <1>0, <2>3 DEF Message
    <3> QED
      BY <1>0, <2>1, <2>3, <3>1 DEF PositionInv, Ordered, Started, Numbered
  <2>4. CASE /\ pc["GPS_CHAN"] \in {"notify", "wait"} /\ pc'["GPS_CHAN"] \in {"inc", "wait"}
             /\ value'["GPS_CHAN"] = value["GPS_CHAN"]
    BY <1>0, <2>1, <2>4 DEF PositionInv, Ordered, Started, Numbered
  <2> QED
    BY <1>0, <1>2, <2>2, <2>3, <2>4, OwnPublish DEF PublishPosition
<1>3. CASE TakeFix
  <2>1. /\ pc["GPS_CHAN"] = "idle" /\ pc'["GPS_CHAN"] = "copy_head" /\ value' = value
        /\ gnss_fix_sem = 1 /\ gnss_fix_sem' = 0
        /\ due' = announced /\ UNCHANGED <<frame, announced, velo>>
    BY <1>0, <1>3 DEF TakeFix, Goto, channels
  <2> QED
    BY <1>0, <2>1 DEF PositionInv, Ordered, Started, Numbered
<1>4. CASE Inc
  <2>1. /\ pc["GPS_CHAN"] = "inc" /\ pc'["GPS_CHAN"] = "idle" /\ value' = value
        /\ velo'.tag = velo.tag + 1 /\ velo'.head = velo.head /\ velo'.tail = velo.tail
        /\ UNCHANGED <<frame, announced, due, gnss_fix_sem>>
    BY <1>0, <1>4 DEF Inc, Goto, channels, Message
  <2>2. value["GPS_CHAN"] # Empty
    BY <1>0, <2>1 DEF PositionInv, Ordered, Started
  <2> QED
    BY <1>0, <2>1, <2>2 DEF PositionInv, Ordered, Started, Numbered
<1>5. CASE ~Pvt /\ ~Fix /\ ~LocationTask
  <2>1. /\ UNCHANGED <<frame, announced, velo, due, gnss_fix_sem>>
        /\ value'["GPS_CHAN"] = value["GPS_CHAN"]
        /\ \/ pc'["GPS_CHAN"] = pc["GPS_CHAN"]
           \/ pc["GPS_CHAN"] = "wait" /\ pc'["GPS_CHAN"] = "inc"
    BY <1>5, PositionElse DEF gnss
  <2> QED
    BY <1>0, <2>1 DEF PositionInv, Ordered, Started, Numbered
<1> QED
  BY <1>1, <1>2, <1>3, <1>4, <1>5 DEF LocationTask

\* ... so that it always holds.
LEMMA PositionInvariant == Spec => []PositionInv
<1>1. Init => PositionInv
  <2> SUFFICES ASSUME Init PROVE PositionInv
    OBVIOUS
  <2>1. /\ pc["GPS_CHAN"] = "idle" /\ value["GPS_CHAN"] = Empty /\ velo = Empty
        /\ frame = 0 /\ announced = 0 /\ due = 0 /\ gnss_fix_sem = 0
    BY DEF Init, ZbusInit, Chans, DataChans
  <2> QED
    BY <2>1, MessageParts DEF PositionInv, Ordered, Started, Numbered
<1>2. Types /\ FlowInv /\ PositionInv /\ [Next]_vars => PositionInv'
  BY PositionStep DEF FlowInv
<1> QED
  BY TypesInvariant, FlowInvariant, <1>1, <1>2, PTL DEF Spec

\* No position is published of which a part is older than the fix that woke the
\* task, and none of which the last part is older than the first.
THEOREM NoStalePosition == Spec => []PositionFresh
<1>1. Types /\ PositionInv => PositionFresh
  <2>1. "GPS_CHAN" \in Chans
    BY DEF Chans, DataChans
  <2> QED
    BY <2>1, MessageParts DEF Types, ChannelTypes, GnssTypes, PositionInv, Ordered, PositionFresh
<1> QED
  BY TypesInvariant, PositionInvariant, <1>1, PTL

\* The positions published are numbered one by one.
THEOREM NumbersFollow == Spec => MeasIdsFollow
<1>1. ASSUME Types, Waiting, PositionInv, [Next]_vars
      PROVE  [pc["GPS_CHAN"] = "copy_head" /\ pc'["GPS_CHAN"] = "copy_tail" =>
                value'["GPS_CHAN"].tag = IF value["GPS_CHAN"] = Empty
                                           THEN 0 ELSE value["GPS_CHAN"].tag + 1]_vars
  <2> SUFFICES ASSUME pc["GPS_CHAN"] = "copy_head", pc'["GPS_CHAN"] = "copy_tail"
               PROVE  value'["GPS_CHAN"].tag = IF value["GPS_CHAN"] = Empty
                                                 THEN 0 ELSE value["GPS_CHAN"].tag + 1
    OBVIOUS
  <2>0. /\ "GPS_CHAN" \in Chans /\ velo \in Message /\ pc \in [Chans -> PublisherLabels]
        /\ value["GPS_CHAN"] \in Message
    BY <1>1 DEF Chans, DataChans, Types, ChannelTypes, GnssTypes
  <2>1. LocationTask \/ Pvt \/ Fix
    BY <1>1, PositionElse
  <2>2. PublishPosition
    BY <2>0, <2>1 DEF LocationTask, TakeFix, Inc, Goto, Pvt, Fix, zbusVars
  <2>3. value'["GPS_CHAN"] = [value["GPS_CHAN"] EXCEPT !.tag = velo.tag, !.head = velo.head]
    BY <1>1, <2>0, <2>2, OwnPublish DEF PublishPosition
  <2>4. value'["GPS_CHAN"].tag = velo.tag
    BY <2>0, <2>3 DEF Message
  <2> QED
    BY <1>1, <2>4 DEF PositionInv, Numbered
<1>2. FlowInv => Waiting
  BY DEF FlowInv
<1> QED
  BY TypesInvariant, FlowInvariant, PositionInvariant, <1>1, <1>2, PTL DEF Spec, MeasIdsFollow

-----------------------------------------------------------------------------
(* Lines on their own are whole *)

\* Where a line is that comes on its own, and what buffer and channel then hold.
Alone ==
    LET at == pc["MQTT_CHAN"]
        published_line == value["MQTT_CHAN"] IN
    \/ /\ at \in {"idle", "test", "copy_head"}
       /\ lines > 0 /\ published = lines - 1 /\ payload = Whole(lines)
    \/ /\ at \in {"idle", "test"}
       /\ published = lines /\ payload = Empty
       /\ lines > 0 => published_line = Whole(lines)
    \/ /\ at = "copy_tail"
       /\ lines > 0 /\ published = lines /\ payload = Whole(lines)
       /\ published_line = [Whole(lines) EXCEPT !.tail = published_line.tail]
    \/ /\ at \in {"notify", "wait", "clear_head"}
       /\ lines > 0 /\ published = lines /\ published_line = Whole(lines)
    \/ /\ at = "clear_tail"
       /\ lines > 0 /\ published = lines /\ published_line = Whole(lines)
       /\ payload = [Empty EXCEPT !.tail = payload.tail]

AloneInv == index = Lesser(length, RX_BUF_SIZE - 1) /\ (~hurried => Alone)

\* Every step keeps AloneInv ...
LEMMA AloneStep ==
  ASSUME Types, Waiting, AloneInv, [Next]_vars
  PROVE  AloneInv'
<1>0. /\ "MQTT_CHAN" \in Chans /\ pc \in [Chans -> PublisherLabels]
      /\ payload \in Message /\ value["MQTT_CHAN"] \in Message
      /\ After["MQTT_CHAN"] = "clear_head"
      /\ lines \in Nat /\ published \in Nat /\ length \in Nat /\ index \in Nat
      /\ size \in Nat /\ RX_BUF_SIZE \in Nat \ {0, 1}
  BY RxAssumption DEF Chans, DataChans, After, Types, ChannelTypes, UartTypes
<1>1. CASE Byte
  <2>1. index' = Lesser(length', RX_BUF_SIZE - 1)
    BY <1>0, <1>1 DEF Byte, AloneInv, Lesser
  <2>2. UNCHANGED <<pc, value, lines, size, payload, published, hurried>>
    BY <1>1 DEF Byte, channels
  <2> QED
    BY <2>1, <2>2 DEF AloneInv, Alone, Whole
<1>2. CASE Newline
  <2>1. /\ index' = 0 /\ length' = 0 /\ UNCHANGED <<pc, value, published>>
        /\ hurried' = (hurried \/ ~TriggerFree)
    BY <1>2 DEF Newline, LineEnd, channels
  <2>2. index' = Lesser(length', RX_BUF_SIZE - 1)
    BY <1>0, <2>1 DEF Lesser
  <2>3. ASSUME ~hurried' PROVE Alone'
    <3>1. /\ ~hurried /\ pc["MQTT_CHAN"] \in {"idle", "test"} /\ payload = Empty
      BY <2>1, <2>3 DEF TriggerFree
    <3>2. published = lines /\ (lines > 0 => value["MQTT_CHAN"] = Whole(lines))
      <4>1. lines > 0 => payload # Whole(lines)
        BY <1>0, <3>1 DEF Whole, Empty
      <4> QED
        BY <3>1, <4>1 DEF AloneInv, Alone
    <3>3. CASE payload' = Empty /\ UNCHANGED <<lines, size>>
      BY <2>1, <3>1, <3>2, <3>3 DEF Alone, Whole
    <3>4. CASE /\ lines' = lines + 1 /\ size' = length
               /\ payload' = [tag |-> index, head |-> lines', tail |-> lines']
      <4>1. payload' = Whole(lines)'
        BY <3>4 DEF Whole, AloneInv
      <4> QED
        BY <1>0, <2>1, <3>1, <3>2, <3>4, <4>1 DEF Alone
    <3> QED
      BY <1>2, <3>3, <3>4 DEF Newline, LineEnd
  <2> QED
    BY <2>2, <2>3 DEF AloneInv
<1>3. CASE TakeUart \/ Test
  <2>1. /\ UNCHANGED <<index, length, lines, size, payload, published, hurried, value>>
        /\ \/ pc["MQTT_CHAN"] = "idle" /\ pc'["MQTT_CHAN"] = "test"
           \/ /\ pc["MQTT_CHAN"] = "test"
              /\ pc'["MQTT_CHAN"] = IF payload.head # 0 THEN "copy_head" ELSE "idle"
    BY <1>0, <1>3 DEF TakeUart, Test, Goto, uart, channels
  <2>2. Whole(lines).head = lines /\ Empty.head = 0
    BY DEF Whole, Empty
  <2>3. Whole(lines)' = Whole(lines)
    BY <2>1 DEF Whole
  <2> QED
    BY <1>0, <2>1, <2>2, <2>3 DEF AloneInv, Alone
<1>4. CASE PublishLine
  <2>1. /\ UNCHANGED <<index, length, lines, size, payload, hurried>>
        /\ published' = IF pc["MQTT_CHAN"] = "copy_head" THEN published + 1 ELSE published
    BY <1>4 DEF PublishLine, uart
  <2>2. Whole(lines)' = Whole(lines) /\ Whole(lines).tail = lines
    BY <2>1 DEF Whole
  <2>3. SUFFICES ASSUME ~hurried PROVE Alone'
    BY <2>1 DEF AloneInv
  <2>4. CASE /\ pc["MQTT_CHAN"] = "copy_head" /\ pc'["MQTT_CHAN"] = "copy_tail"
             /\ value'["MQTT_CHAN"] =
                    [value["MQTT_CHAN"] EXCEPT !.tag = payload.tag, !.head = payload.head]
    <3>1. lines > 0 /\ published = lines - 1 /\ payload = Whole(lines)
      BY <2>3, <2>4 DEF AloneInv, Alone
    <3>2. value'["MQTT_CHAN"] = [Whole(lines) EXCEPT !.tail = value'["MQTT_CHAN"].tail]
      BY <1>0, <2>4, <3>1 DEF Whole, Message
    <3> QED
      BY <1>0, <2>1, <2>2, <2>4, <3>1, <3>2 DEF Alone
  <2>5. CASE /\ pc["MQTT_CHAN"] = "copy_tail" /\ pc'["MQTT_CHAN"] = "notify"
             /\ value'["MQTT_CHAN"] = [value["MQTT_CHAN"] EXCEPT !.tail = payload.tail]
    <3>1. /\ lines > 0 /\ published = lines /\ payload = Whole(lines)
          /\ value["MQTT_CHAN"] = [Whole(lines) EXCEPT !.tail = value["MQTT_CHAN"].tail]
      BY <2>3, <2>5 DEF AloneInv, Alone
    <3>2. value'["MQTT_CHAN"] = Whole(lines)
      BY <1>0, <2>5, <3>1 DEF Whole, Message
    <3> QED
      BY <1>0, <2>1, <2>2, <2>5, <3>1, <3>2 DEF Alone
  <2>6. CASE /\ pc["MQTT_CHAN"] \in {"notify", "wait"}
             /\ pc'["MQTT_CHAN"] \in {"clear_head", "wait"}
             /\ value'["MQTT_CHAN"] = value["MQTT_CHAN"]
    BY <1>0, <2>1, <2>2, <2>3, <2>6 DEF AloneInv, Alone
  <2> QED
    BY <1>0, <1>4, <2>4, <2>5, <2>6, OwnPublish DEF PublishLine
<1>5. CASE ClearHead
  <2>1. /\ UNCHANGED <<index, length, lines, size, published, hurried, value>>
        /\ pc["MQTT_CHAN"] = "clear_head" /\ pc'["MQTT_CHAN"] = "clear_tail"
    BY <1>0, <1>5 DEF ClearHead, Goto, channels
  <2>2. payload' = [Empty EXCEPT !.tail = payload'.tail]
    <3>1. payload \in [tag : Nat, head : Nat, tail : Nat]
      BY <1>0 DEF Types, UartTypes, Message
    <3>2. payload' = [tag |-> 0, head |-> 0, tail |-> payload.tail]
      BY <1>5, <3>1 DEF ClearHead
    <3> QED
      BY <3>2 DEF Empty
  <2> QED
    BY <2>1, <2>2 DEF AloneInv, Alone, Whole
<1>6. CASE ClearTail
  <2>1. /\ UNCHANGED <<index, length, lines, size, published, hurried, value>>
        /\ pc["MQTT_CHAN"] = "clear_tail" /\ pc'["MQTT_CHAN"] = "idle"
    BY <1>0, <1>6 DEF ClearTail, Goto, channels
  <2>2. payload = [Empty EXCEPT !.tail = payload.tail] => payload' = Empty
    BY <1>0, <1>6 DEF ClearTail, Empty, Message
  <2> QED
    BY <2>1, <2>2 DEF AloneInv, Alone, Whole
<1>7. CASE ~Byte /\ ~Newline /\ ~TriggerTask
  <2>1. /\ UNCHANGED <<index, length, lines, size, payload, published, hurried>>
        /\ value'["MQTT_CHAN"] = value["MQTT_CHAN"]
        /\ \/ pc'["MQTT_CHAN"] = pc["MQTT_CHAN"]
           \/ pc["MQTT_CHAN"] = "wait" /\ pc'["MQTT_CHAN"] = "clear_head"
    BY <1>7, LineElse DEF uart
  <2> QED
    BY <2>1 DEF AloneInv, Alone, Whole
<1> QED
  BY <1>1, <1>2, <1>3, <1>4, <1>5, <1>6, <1>7 DEF TriggerTask

\* ... so that it always holds.
LEMMA AloneInvariant == Spec => []AloneInv
<1>1. Init => AloneInv
  <2> SUFFICES ASSUME Init PROVE AloneInv
    OBVIOUS
  <2>1. /\ pc["MQTT_CHAN"] = "idle" /\ payload = Empty /\ lines = 0 /\ published = 0
        /\ index = 0 /\ length = 0
    BY DEF Init, ZbusInit, Chans, DataChans
  <2> QED
    BY <2>1, RxAssumption DEF AloneInv, Alone, Lesser
<1>2. Types /\ FlowInv /\ AloneInv /\ [Next]_vars => AloneInv'
  BY AloneStep DEF FlowInv
<1> QED
  BY TypesInvariant, FlowInvariant, <1>1, <1>2, PTL DEF Spec

\* Lines that come one at a time are published once each, and whole.
THEOREM WholeLines == Spec => []LinesWhole
<1>1. Types /\ AloneInv => LinesWhole
  BY DEF Types, UartTypes, AloneInv, Alone, LinesWhole
<1> QED
  BY TypesInvariant, AloneInvariant, <1>1, PTL

-----------------------------------------------------------------------------
(* The data path implements two lossy streams *)

\* A stream of which v is in the channel, q in the queue and h handed over, with
\* nothing newer than top; empty messages apart, all is in order.
InOrder(v, h, q, top) ==
    /\ v <= top /\ h <= top
    /\ \A i \in 1..Len(q) : q[i].head <= top
    /\ \A i \in 1..Len(q) : q[i].head # 0 => h <= q[i].head
    /\ \A i, j \in 1..Len(q) :
           i < j /\ q[i].head # 0 /\ q[j].head # 0 => q[i].head <= q[j].head
    /\ v # 0 => h <= v /\ \A i \in 1..Len(q) : q[i].head <= v

\* A queue in order stays so when newer data is produced ...
LEMMA OrderGrows ==
  ASSUME NEW v \in Nat, NEW h \in Nat, NEW q \in Seq(Message), NEW top \in Nat,
         InOrder(v, h, q, top), NEW newer \in Nat, top <= newer
  PROVE  InOrder(v, h, q, newer)
<1>1. \A i \in 1..Len(q) : q[i].head \in Nat
  BY MessageParts
<1> QED
  BY <1>1 DEF InOrder

\* ... when the newest, or none, is published ...
LEMMA OrderPublished ==
  ASSUME NEW v \in Nat, NEW h \in Nat, NEW q \in Seq(Message), NEW top \in Nat,
         InOrder(v, h, q, top), NEW w \in {0, top}
  PROVE  InOrder(w, h, q, top)
BY DEF InOrder

\* ... when what was published is queued ...
LEMMA OrderRead ==
  ASSUME NEW m \in Message, NEW h \in Nat, NEW q \in Seq(Message), NEW top \in Nat,
         InOrder(m.head, h, q, top)
  PROVE  InOrder(m.head, h, Append(q, m), top)
<1> DEFINE s == Append(q, m)
<1>1. /\ Len(q) \in Nat /\ Len(s) = Len(q) + 1
      /\ \A i \in 1..Len(q) : s[i] = q[i]
      /\ s[Len(q) + 1] = m
  OBVIOUS
<1>2. m.head \in Nat /\ \A i \in 1..Len(q) : q[i].head \in Nat
  BY MessageParts
<1> HIDE DEF s
<1>3. \A i \in 1..Len(s) : i \in 1..Len(q) \/ i = Len(q) + 1
  BY <1>1
<1>4. \A i \in 1..Len(s) : s[i].head <= top
  BY <1>1, <1>2, <1>3 DEF InOrder
<1>5. \A i \in 1..Len(s) : s[i].head # 0 => h <= s[i].head
  BY <1>1, <1>2, <1>3 DEF InOrder
<1>6. \A i, j \in 1..Len(s) :
          i < j /\ s[i].head # 0 /\ s[j].head # 0 => s[i].head <= s[j].head
  <2> SUFFICES ASSUME NEW i \in 1..Len(s), NEW j \in 1..Len(s), i < j,
                      s[i].head # 0, s[j].head # 0
               PROVE  s[i].head <= s[j].head
    OBVIOUS
  <2>1. i \in 1..Len(q)
    BY <1>1
  <2>2. CASE j \in 1..Len(q)
    BY <1>1, <2>1, <2>2 DEF InOrder
  <2>3. CASE j = Len(q) + 1
    BY <1>1, <2>1, <2>3 DEF InOrder
  <2> QED
    BY <1>3, <2>2, <2>3
<1>7. m.head # 0 => h <= m.head /\ \A i \in 1..Len(s) : s[i].head <= m.head
  BY <1>1, <1>2, <1>3 DEF InOrder
<1>8. m.head <= top /\ h <= top
  BY DEF InOrder
<1>9. InOrder(m.head, h, s, top)
  BY <1>4, <1>5, <1>6, <1>7, <1>8 DEF InOrder
<1> QED
  BY <1>9 DEF s

\* ... and when the oldest in the queue is sent.
LEMMA OrderDrained ==
  ASSUME NEW v \in Nat, NEW h \in Nat, NEW q \in Seq(Message), NEW top \in Nat,
         InOrder(v, h, q, top), q # <<>>,
         NEW g, g = h \/ (Head(q).head # 0 /\ g = Head(q).head)
  PROVE  InOrder(v, g, Tail(q), top) /\ g \in h..top
<1> DEFINE s == Tail(q)
<1>1. /\ Len(q) \in Nat \ {0} /\ Len(s) = Len(q) - 1 /\ Head(q) = q[1]
      /\ \A i \in 1..Len(q) - 1 : s[i] = q[i + 1] /\ i + 1 \in 1..Len(q)
  BY EmptySeq
<1>2. \A i \in 1..Len(q) : q[i].head \in Nat
  BY MessageParts
<1> HIDE DEF s
<1>3. g \in Nat /\ h <= g /\ g <= top
  BY <1>1, <1>2 DEF InOrder
<1>4. \A i \in 1..Len(s) : s[i].head <= top /\ (s[i].head # 0 => g <= s[i].head)
  <2> SUFFICES ASSUME NEW i \in 1..Len(s)
               PROVE  s[i].head <= top /\ (s[i].head # 0 => g <= s[i].head)
    OBVIOUS
  <2>1. i + 1 \in 1..Len(q) /\ s[i] = q[i + 1] /\ 1 \in 1..Len(q) /\ 1 < i + 1
    BY <1>1
  <2>2. q[i + 1].head <= top /\ (q[i + 1].head # 0 => h <= q[i + 1].head)
    BY <2>1 DEF InOrder
  <2>3. q[1].head # 0 /\ q[i + 1].head # 0 => q[1].head <= q[i + 1].head
    BY <2>1 DEF InOrder
  <2> QED
    BY <1>1, <2>1, <2>2, <2>3
<1>5. \A i, j \in 1..Len(s) :
          i < j /\ s[i].head # 0 /\ s[j].head # 0 => s[i].head <= s[j].head
  <2> SUFFICES ASSUME NEW i \in 1..Len(s), NEW j \in 1..Len(s), i < j,
                      s[i].head # 0, s[j].head # 0
               PROVE  s[i].head <= s[j].head
    OBVIOUS
  <2>1. i \in 1..Len(q) - 1 /\ j \in 1..Len(q) - 1
    BY <1>1
  <2>2. s[i] = q[i + 1] /\ i + 1 \in 1..Len(q)
    BY <1>1, <2>1
  <2>3. s[j] = q[j + 1] /\ j + 1 \in 1..Len(q)
    BY <1>1, <2>1
  <2>4. i + 1 < j + 1
    OBVIOUS
  <2> QED
    BY <2>2, <2>3, <2>4 DEF InOrder
<1>6. v # 0 => g <= v /\ \A i \in 1..Len(s) : s[i].head <= v
  <2> SUFFICES ASSUME v # 0 PROVE g <= v /\ \A i \in 1..Len(s) : s[i].head <= v
    OBVIOUS
  <2>1. h <= v /\ \A i \in 1..Len(q) : q[i].head <= v
    BY DEF InOrder
  <2>2. \A i \in 1..Len(s) : i + 1 \in 1..Len(q) /\ s[i] = q[i + 1]
    BY <1>1
  <2>3. 1 \in 1..Len(q)
    BY <1>1
  <2> QED
    BY <1>1, <2>1, <2>2, <2>3
<1>7. InOrder(v, g, s, top)
  BY <1>3, <1>4, <1>5, <1>6 DEF InOrder
<1> QED
  BY <1>3, <1>7 DEF s

\* What may happen to a queue and to what is handed over.
LEMMA QueueSteps ==
  ASSUME Types, NEW c \in DataChans, [Next]_vars
  PROVE  \/ queue'[c] = queue[c] /\ handed'[c] = handed[c]
         \/ /\ value' = value /\ UNCHANGED uart /\ UNCHANGED gnss
            /\ \/ queue'[c] = Append(queue[c], value[c]) /\ handed'[c] = handed[c]
               \/ /\ queue[c] # <<>> /\ queue'[c] = Tail(queue[c])
                  /\ \/ handed'[c] = handed[c]
                     \/ Head(queue[c]).head # 0 /\ handed'[c] = Head(queue[c]).head
<1>0. /\ queue \in [DataChans -> Seq(Message)] /\ handed \in [DataChans -> Nat]
      /\ DataChans = {"MQTT_CHAN", "GPS_CHAN"}
  BY DEF Types, QueueTypes, SenderTypes, DataChans
<1>1. CASE UNCHANGED vars
  BY <1>1 DEF vars, zbusVars, sender
<1>2. CASE \/ Byte \/ Newline \/ Pvt \/ Fix \/ Session \/ PdnEvent \/ FotaRequest
           \/ TakeUart \/ Test \/ ClearHead \/ ClearTail \/ TakeFix \/ Inc
  <2>1. queue' = queue /\ handed' = handed
    BY <1>2 DEF Byte, Newline, LineEnd, Pvt, Fix, zbusVars, Session, SessionUp,
       SessionDown, PdnEvent, FotaRequest, PublishOn, TakeUart, Test, ClearHead, ClearTail,
       TakeFix, Inc, sender
  <2> QED
    BY <2>1
<1>3. CASE PublishLine \/ PublishPosition \/ PublishEvent
  <2>1. queue' = queue /\ handed' = handed
    BY <1>3, PublishKeeps DEF PublishLine, PublishPosition, PublishEvent, Publish
  <2> QED
    BY <2>1
<1>4. CASE Transport
  <2>1. UNCHANGED uart /\ UNCHANGED gnss /\ value' = value /\ handed' = handed
    BY <1>4 DEF Transport, TransportTask, SubWait, AwaitLock, Read, ReadTimeout, Run, channels, sender
  <2>2. \/ queue' = queue
        \/ /\ chan \in DataChans
           /\ queue' = [queue EXCEPT ![chan] = Append(queue[chan], value[chan])]
    BY <1>4 DEF Transport, TransportTask, SubWait, AwaitLock, Read, ReadTimeout, Run
  <2> QED
    BY <1>0, <2>1, <2>2
<1>5. CASE PubWorker
  <2>1. UNCHANGED uart /\ UNCHANGED gnss /\ value' = value
    BY <1>5 DEF PubWorker, PubWork, WorkStart, Drain, channels
  <2>2. CASE queue' = queue /\ handed' = handed
    BY <2>2
  <2>3. ASSUME NEW d \in DataChans, queue[d] # <<>>,
               queue' = [queue EXCEPT ![d] = Tail(queue[d])], HandOver(d, Head(queue[d]))
        PROVE  \/ queue'[c] = queue[c] /\ handed'[c] = handed[c]
               \/ /\ queue[c] # <<>> /\ queue'[c] = Tail(queue[c])
                  /\ \/ handed'[c] = handed[c]
                     \/ Head(queue[c]).head # 0 /\ handed'[c] = Head(queue[c]).head
    <3>1. CASE c = d
      BY <1>0, <2>3, <3>1 DEF HandOver
    <3>2. CASE c # d
      BY <1>0, <2>3, <3>2 DEF HandOver
    <3> QED
      BY <3>1, <3>2
  <2>4. \/ queue' = queue /\ handed' = handed
        \/ \E d \in DataChans : /\ queue[d] # <<>>
                                /\ queue' = [queue EXCEPT ![d] = Tail(queue[d])]
                                /\ HandOver(d, Head(queue[d]))
    BY <1>0, <1>5 DEF PubWorker, PubWork, WorkStart, Drain
  <2> QED
    BY <2>1, <2>2, <2>3, <2>4
<1> QED
  BY <1>1, <1>2, <1>3, <1>4, <1>5 DEF Next, TriggerTask, LocationTask

LineOrder == /\ payload.head \in {0, lines}
             /\ InOrder(value["MQTT_CHAN"].head, handed["MQTT_CHAN"], queue["MQTT_CHAN"], lines)

PositionOrder == InOrder(value["GPS_CHAN"].head, handed["GPS_CHAN"], queue["GPS_CHAN"], velo.head)

\* Where the newest line is in the buffer and in the channel.
LEMMA LineHeads ==
  ASSUME Types, Waiting, payload.head \in {0, lines}, [Next]_vars
  PROVE  /\ payload'.head \in {0, lines'}
         /\ lines' = lines \/ (lines' = lines + 1 /\ value' = value)
         /\ value'["MQTT_CHAN"].head \in {value["MQTT_CHAN"].head, 0, lines}
<1>0. /\ "MQTT_CHAN" \in Chans /\ payload \in Message
      /\ value["MQTT_CHAN"] \in Message
  BY DEF Chans, DataChans, Types, ChannelTypes, UartTypes
<1>1. CASE Byte \/ TakeUart \/ Test
  BY <1>1 DEF Byte, TakeUart, Test, uart, channels
<1>2. CASE Newline
  BY <1>2, MessageParts DEF Newline, LineEnd, channels
<1>3. CASE PublishLine
  <2>1. UNCHANGED <<payload, lines>>
    BY <1>3 DEF PublishLine, uart
  <2>2. value'["MQTT_CHAN"].head \in {value["MQTT_CHAN"].head, payload.head}
    BY <1>0, <1>3, OwnPublish DEF PublishLine, Message
  <2> QED
    BY <2>1, <2>2
<1>4. CASE ClearHead \/ ClearTail
  <2>1. payload'.head \in {payload.head, 0}
    BY <1>0, <1>4 DEF ClearHead, ClearTail, Message
  <2> QED
    BY <1>4, <2>1 DEF ClearHead, ClearTail, channels
<1>5. CASE ~Byte /\ ~Newline /\ ~TriggerTask
  BY <1>5, LineElse DEF uart
<1> QED
  BY <1>1, <1>2, <1>3, <1>4, <1>5 DEF TriggerTask

\* Positions are published in the order in which they are made.
LEMMA PositionHeads ==
  ASSUME Types, Waiting, PositionInv, [Next]_vars
  PROVE  /\ velo.head <= velo'.head
         /\ velo' = velo \/ value' = value
         /\ value'["GPS_CHAN"].head \in {value["GPS_CHAN"].head, velo.head}
<1>0. /\ "GPS_CHAN" \in Chans /\ velo \in Message /\ velo.head \in Nat
      /\ value["GPS_CHAN"] \in Message /\ frame \in Nat
  BY MessageParts DEF Chans, DataChans, Types, ChannelTypes, GnssTypes
<1>1. CASE Pvt \/ Fix
  <2>1. value' = value
    BY <1>1 DEF Pvt, Fix, zbusVars, channels
  <2>2. [velo EXCEPT !.head = frame + 1, !.tail = frame + 1].head = frame + 1
    BY <1>0 DEF Message
  <2>3. velo'.head \in {velo.head, frame, frame + 1}
    BY <1>0, <1>1, <2>2 DEF Pvt, Fix, Message
  <2>4. velo.head <= frame
    BY DEF PositionInv, Ordered
  <2> QED
    BY <1>0, <2>1, <2>3, <2>4
<1>2. CASE PublishPosition
  <2>1. velo' = velo
    BY <1>2 DEF PublishPosition, gnss
  <2>2. value'["GPS_CHAN"].head \in {value["GPS_CHAN"].head, velo.head}
    BY <1>0, <1>2, OwnPublish DEF PublishPosition, Message
  <2> QED
    BY <1>0, <2>1, <2>2
<1>3. CASE TakeFix \/ Inc
  <2>1. velo'.head = velo.head /\ value' = value
    BY <1>0, <1>3 DEF TakeFix, Inc, channels, Message
  <2> QED
    BY <1>0, <2>1
<1>4. CASE ~Pvt /\ ~Fix /\ ~LocationTask
  BY <1>0, <1>4, PositionElse DEF gnss
<1> QED
  BY <1>1, <1>2, <1>3, <1>4 DEF LocationTask

\* Every step keeps lines in order, and hands over none before the last one ...
LEMMA LineOrderStep ==
  ASSUME Types, Types', Waiting, LineOrder, [Next]_vars
  PROVE  /\ LineOrder'
         /\ handed'["MQTT_CHAN"] \in handed["MQTT_CHAN"]..lines
         /\ lines' = lines \/ (lines' = lines + 1 /\ handed'["MQTT_CHAN"] = handed["MQTT_CHAN"])
<1> DEFINE v == value["MQTT_CHAN"].head
           h == handed["MQTT_CHAN"]
           q == queue["MQTT_CHAN"]
<1>0. /\ "MQTT_CHAN" \in DataChans /\ value["MQTT_CHAN"] \in Message
      /\ v \in Nat /\ h \in Nat /\ q \in Seq(Message) /\ lines \in Nat /\ lines' \in Nat
      /\ InOrder(v, h, q, lines) /\ h <= lines
  BY MessageParts DEF Chans, DataChans, Types, ChannelTypes, SenderTypes, QueueTypes,
     UartTypes, LineOrder, InOrder
<1>1. /\ payload'.head \in {0, lines'}
      /\ lines' = lines \/ (lines' = lines + 1 /\ value' = value)
      /\ v' \in {v, 0, lines}
  BY LineHeads DEF LineOrder
<1> HIDE DEF v, h, q
<1>2. CASE q' = q /\ h' = h
  <2>1. InOrder(v', h, q, lines)
    BY <1>0, <1>1, OrderPublished
  <2>2. v' \in Nat
    BY <1>0, <1>1
  <2>3. InOrder(v', h, q, lines')
    BY <1>0, <1>1, <2>1, <2>2, OrderGrows
  <2> QED
    BY <1>0, <1>1, <1>2, <2>3 DEF LineOrder, v, h, q
<1>3. CASE value' = value /\ lines' = lines /\ q' = Append(q, value["MQTT_CHAN"]) /\ h' = h
  <2>1. InOrder(v, h, q', lines)
    BY <1>0, <1>3, OrderRead DEF v
  <2> QED
    BY <1>0, <1>1, <1>3, <2>1 DEF LineOrder, v, h, q
<1>4. CASE /\ value' = value /\ lines' = lines /\ q # <<>> /\ q' = Tail(q)
           /\ h' = h \/ (Head(q).head # 0 /\ h' = Head(q).head)
  <2>1. InOrder(v, h', q', lines) /\ h' \in h..lines
    BY <1>0, <1>4, OrderDrained
  <2> QED
    BY <1>1, <1>4, <2>1 DEF LineOrder, v, h, q
<1> QED
  BY <1>0, <1>2, <1>3, <1>4, QueueSteps DEF uart, h, q

\* ... and the same of positions ...
LEMMA PositionOrderStep ==
  ASSUME Types, Types', Waiting, PositionInv, PositionOrder, [Next]_vars
  PROVE  /\ PositionOrder'
         /\ handed'["GPS_CHAN"] \in handed["GPS_CHAN"]..velo.head
<1> DEFINE v == value["GPS_CHAN"].head
           h == handed["GPS_CHAN"]
           q == queue["GPS_CHAN"]
<1>0. /\ "GPS_CHAN" \in DataChans /\ value["GPS_CHAN"] \in Message
      /\ v \in Nat /\ h \in Nat /\ q \in Seq(Message)
      /\ velo.head \in Nat /\ velo'.head \in Nat
      /\ InOrder(v, h, q, velo.head) /\ h <= velo.head
  BY MessageParts DEF Chans, DataChans, Types, ChannelTypes, SenderTypes, QueueTypes,
     GnssTypes, PositionOrder, InOrder
<1>1. velo.head <= velo'.head /\ v' \in {v, velo.head}
  BY PositionHeads
<1> HIDE DEF v, h, q
<1>2. CASE q' = q /\ h' = h
  <2>1. InOrder(v', h, q, velo.head)
    BY <1>0, <1>1, OrderPublished
  <2>2. v' \in Nat
    BY <1>0, <1>1
  <2>3. InOrder(v', h, q, velo'.head)
    BY <1>0, <1>1, <2>1, <2>2, OrderGrows
  <2> QED
    BY <1>0, <1>2, <2>3 DEF PositionOrder, v, h, q
<1>3. CASE value' = value /\ velo' = velo /\ q' = Append(q, value["GPS_CHAN"]) /\ h' = h
  <2>1. InOrder(v, h, q', velo.head)
    BY <1>0, <1>3, OrderRead DEF v
  <2> QED
    BY <1>0, <1>3, <2>1 DEF PositionOrder, v, h, q
<1>4. CASE /\ value' = value /\ velo' = velo /\ q # <<>> /\ q' = Tail(q)
           /\ h' = h \/ (Head(q).head # 0 /\ h' = Head(q).head)
  <2>1. InOrder(v, h', q', velo.head) /\ h' \in h..velo.head
    BY <1>0, <1>4, OrderDrained
  <2> QED
    BY <1>4, <2>1 DEF PositionOrder, v, h, q
<1> QED
  BY <1>0, <1>2, <1>3, <1>4, QueueSteps DEF gnss, h, q

StreamInv == LineOrder /\ PositionOrder

\* ... so that both streams always are in order.
LEMMA StreamInvariant == Spec => []StreamInv
<1>1. Init => StreamInv
  <2> SUFFICES ASSUME Init PROVE StreamInv
    OBVIOUS
  <2>1. /\ payload.head = 0 /\ lines = 0 /\ velo.head = 0
        /\ \A c \in DataChans : value[c].head = 0 /\ handed[c] = 0 /\ queue[c] = <<>>
    BY MessageParts DEF Init, ZbusInit, Chans
  <2> QED
    BY <2>1 DEF StreamInv, LineOrder, PositionOrder, InOrder, DataChans
<1>2. /\ Types /\ Types' /\ FlowInv /\ PositionInv /\ StreamInv /\ [Next]_vars
      => StreamInv'
  BY LineOrderStep, PositionOrderStep DEF FlowInv, StreamInv
<1> QED
  BY TypesInvariant, FlowInvariant, PositionInvariant, <1>1, <1>2, PTL DEF Spec

\* Every line and every position goes through two lossy streams that keep the
\* order: LossyStream is what the data path promises.
THEOREM StreamsImplemented == Spec => ImplementsStreams
<1>1. Init => Lines!Init /\ Positions!Init
  BY DEF Init, ZbusInit, Lines!Init, Positions!Init, DataChans
<1>2. ASSUME Types, Types', FlowInv, PositionInv, StreamInv, [Next]_vars
      PROVE  [Lines!Next]_<<lines, handed["MQTT_CHAN"]>>
  <2>1. /\ handed'["MQTT_CHAN"] \in handed["MQTT_CHAN"]..lines
        /\ \/ lines' = lines
           \/ lines' = lines + 1 /\ handed'["MQTT_CHAN"] = handed["MQTT_CHAN"]
    BY <1>2, LineOrderStep DEF FlowInv, StreamInv
  <2> QED
    BY <2>1 DEF Lines!Next, Lines!Make, Lines!Pass
<1>3. ASSUME Types, Types', FlowInv, PositionInv, StreamInv, [Next]_vars
      PROVE  [Positions!Next]_<<frame, handed["GPS_CHAN"]>>
  <2>0. /\ "GPS_CHAN" \in DataChans /\ frame \in Nat /\ velo.head \in Nat
        /\ handed["GPS_CHAN"] \in Nat /\ velo.head <= frame
    BY <1>3, MessageParts DEF DataChans, Types, GnssTypes, SenderTypes, PositionInv, Ordered
  <2>1. handed'["GPS_CHAN"] \in handed["GPS_CHAN"]..velo.head
    BY <1>3, PositionOrderStep DEF FlowInv, StreamInv
  <2>2. \/ frame' = frame
        \/ frame' = frame + 1 /\ handed' = handed
    <3>1. CASE Pvt
      BY <3>1 DEF Pvt, sender
    <3>2. CASE ~Pvt
      <4>1. CASE Fix \/ TakeFix \/ PublishPosition \/ Inc
        BY <4>1 DEF Fix, TakeFix, PublishPosition, Inc, gnss
      <4>2. CASE ~Fix /\ ~LocationTask
        BY <1>3, <3>2, <4>2, PositionElse DEF FlowInv, gnss
      <4> QED
        BY <4>1, <4>2 DEF LocationTask
    <3> QED
      BY <3>1, <3>2
  <2>3. handed'["GPS_CHAN"] \in handed["GPS_CHAN"]..frame
    BY <2>0, <2>1
  <2> QED
    BY <2>2, <2>3 DEF Positions!Next, Positions!Make, Positions!Pass
<1> QED
  BY TypesInvariant, FlowInvariant, PositionInvariant, StreamInvariant, <1>1, <1>2, <1>3, PTL
     DEF Spec, ImplementsStreams, Lines!Spec, Positions!Spec
=============================================================================
