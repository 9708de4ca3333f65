-------------------------------- MODULE Zbus --------------------------------
(***************************************************************************)
(* The channels that carry data to the transport module (message_channel.c) *)
(* and what transport_task and mqtt_pub_work_fn (transport.c) make of them. *)
(* A publisher copies its message into the channel and queues a reference   *)
(* to the channel for the subscriber, holding the channel's lock over both, *)
(* also while it waits for room in that queue.  The task takes a reference  *)
(* and then reads whatever value the channel has.                           *)
(***************************************************************************)
EXTENDS Integers, Sequences, SequencesExt

CONSTANTS NotifLen,   \* CONFIG_MQTT_SAMPLE_TRANSPORT_MESSAGE_QUEUE_SIZE
          QueueLen,   \* length of gps_data_queue and of sensor_data_queue
          Budget      \* how often each event of the environment may happen

Events == {"byte", "newline", "frame", "readfail", "event", "session"}

ASSUME ZbusAssumption == /\ NotifLen \in Nat \ {0} /\ QueueLen \in Nat \ {0}
                         /\ Budget \in [Events -> Nat]

VARIABLES pc,         \* where the publisher of each channel is
          value,      \* the channel's message
          notif,      \* the subscriber's queue of references to channels
          waiters,    \* publishers that wait for room in it, in order
          missed,     \* the channel's value was published with no reference left
          transport, chan,   \* where transport_task is, its reference
          overtaken,  \* the channel was published on again since it took that
          put,        \* the last value read from each data channel
          queue,      \* sensor_data_queue and gps_data_queue
          work, submitted,    \* mqtt_pub_work: where its handler is, pending
          session,    \* the MQTT helper has a session
          handed,     \* the newest message of each kind it took over
          budget

channels == <<value, notif, waiters, missed>>
reader == <<transport, chan, overtaken, put>>
sender == <<work, submitted, session, handed>>
zbusVars == <<pc, channels, reader, queue, sender, budget>>

DataChans == {"MQTT_CHAN", "GPS_CHAN"}
EventChans == {"NETWORK_CHAN", "FOTA_CHAN"}
Chans == DataChans \cup EventChans

\* A message as a copy can see it: which line or position its first and its
\* last bytes are from, 0 where there is none, and a number at its front: the
\* length of a line, the meas_id of a position.
Message == [tag : Nat, head : Nat, tail : Nat]
Empty == [tag |-> 0, head |-> 0, tail |-> 0]

Spend(e) == budget[e] > 0 /\ budget' = [budget EXCEPT ![e] = @ - 1]

-----------------------------------------------------------------------------
(* zbus_chan_pub: a publisher's steps, from "copy_head" to After *)

After == [MQTT_CHAN |-> "clear_head", GPS_CHAN |-> "inc",
          NETWORK_CHAN |-> "idle", FOTA_CHAN |-> "idle"]

\* The publisher holds the channel's lock.
Locked(c) == pc[c] \in {"copy_tail", "notify", "wait"}

\* transport_task has a reference to the channel and has not read it yet.
InHand(c) == transport \in {"read", "await"} /\ chan = c

\* The publisher takes the lock; one that is given back goes to transport_task
\* first if that waits for it.
Lock(c) == /\ ~(transport = "await" /\ chan = c)
           /\ overtaken' = (overtaken \/ InHand(c))
           /\ UNCHANGED <<transport, chan, put>>

CopyHead(c, message) ==
    /\ pc[c] = "copy_head"
    /\ Lock(c)
    /\ value' = [value EXCEPT ![c].tag = message.tag, ![c].head = message.head]
    /\ pc' = [pc EXCEPT ![c] = "copy_tail"]
    /\ UNCHANGED <<notif, waiters, missed, queue, sender, budget>>

CopyTail(c, message) ==
    /\ pc[c] = "copy_tail"
    /\ value' = [value EXCEPT ![c].tail = message.tail]
    /\ pc' = [pc EXCEPT ![c] = "notify"]
    /\ UNCHANGED <<notif, waiters, missed, reader, queue, sender, budget>>

\* Of FOTA_CHAN transport_task does not read the message.
Take(c) == /\ chan' = c
           /\ transport' = IF c = "FOTA_CHAN" THEN "wait" ELSE "read"
           /\ overtaken' = FALSE
           /\ UNCHANGED put

\* A reference for the subscriber: handed to transport_task when that waits for
\* one, in the queue while there is room, and waited with otherwise.
Notify(c) ==
    /\ pc[c] = "notify"
    /\ \/ /\ transport = "wait" /\ notif = <<>>
          /\ Take(c)
          /\ missed' = [missed EXCEPT ![c] = FALSE]
          /\ pc' = [pc EXCEPT ![c] = After[c]]
          /\ UNCHANGED <<notif, waiters>>
       \/ /\ Len(notif) < NotifLen
          /\ notif' = Append(notif, c)
          /\ missed' = [missed EXCEPT ![c] = FALSE]
          /\ pc' = [pc EXCEPT ![c] = After[c]]
          /\ UNCHANGED <<waiters, reader>>
       \/ /\ Len(notif) = NotifLen
          /\ waiters' = Append(waiters, c)
          /\ pc' = [pc EXCEPT ![c] = "wait"]
          /\ UNCHANGED <<notif, missed, reader>>
    /\ UNCHANGED <<value, queue, sender, budget>>

\* Ten seconds without room.  The new value has no reference of its own; it is
\* read all the same if an older reference is still to be worked off.
GiveUp(c) ==
    /\ pc[c] = "wait"
    /\ \E i \in DOMAIN waiters : waiters[i] = c /\ waiters' = RemoveAt(waiters, i)
    /\ pc' = [pc EXCEPT ![c] = After[c]]
    /\ missed' = [missed EXCEPT ![c] = ~Contains(notif, c) /\ ~InHand(c)]
    /\ UNCHANGED <<value, notif, reader, queue, sender, budget>>

Publish(c, message) == \/ CopyHead(c, message) \/ CopyTail(c, message)
                       \/ Notify(c) \/ GiveUp(c)

-----------------------------------------------------------------------------
(* transport_task *)

\* Mutant: the references left in the queue are dropped as out of date.
SubWaitPurging ==
    /\ transport = "wait"
    /\ notif # <<>>
    /\ Take(Head(notif))
    /\ waiters = <<>>
    /\ notif' = <<>>
    /\ UNCHANGED <<pc, waiters, missed, value, queue, sender, budget>>

\* zbus_sub_wait with references in the queue.  The place that becomes free goes
\* to the first publisher that waits for one.
SubWait ==
    /\ transport = "wait"
    /\ notif # <<>>
    /\ Take(Head(notif))
    /\ \/ /\ waiters = <<>>
          /\ notif' = Tail(notif)
          /\ UNCHANGED <<pc, waiters, missed>>
       \/ /\ waiters # <<>>
          /\ notif' = Append(Tail(notif), Head(waiters))
          /\ waiters' = Tail(waiters)
          /\ missed' = [missed EXCEPT ![Head(waiters)] = FALSE]
          /\ pc' = [pc EXCEPT ![Head(waiters)] = After[Head(waiters)]]
    /\ UNCHANGED <<value, queue, sender, budget>>

\* zbus_chan_read: the channel is locked and transport_task waits for it.
AwaitLock == /\ transport = "read"
             /\ Locked(chan)
             /\ transport' = "await"
             /\ UNCHANGED <<pc, channels, chan, overtaken, put, queue, sender, budget>>

\* Mutant: the channel is not read when its message would be dropped.
ReadIfRoom ==
    /\ transport \in {"read", "await"}
    /\ ~Locked(chan)
    /\ overtaken' = FALSE
    /\ \/ /\ chan = "NETWORK_CHAN"
          /\ transport' = "run"
          /\ UNCHANGED <<put, queue>>
       \/ /\ chan \in DataChans
          /\ transport' = "wait"
          /\ \/ /\ Len(queue[chan]) < QueueLen
                /\ put' = [put EXCEPT ![chan] = value[chan]]
                /\ queue' = [queue EXCEPT ![chan] = Append(@, value[chan])]
             \/ Len(queue[chan]) = QueueLen /\ UNCHANGED <<put, queue>>
    /\ UNCHANGED <<pc, channels, chan, sender, budget>>

\* zbus_chan_read and k_msgq_put, which drops the message when there is no room
Read ==
    /\ transport \in {"read", "await"}
    /\ ~Locked(chan)
    /\ overtaken' = FALSE
    /\ \/ /\ chan = "NETWORK_CHAN"
          /\ transport' = "run"
          /\ UNCHANGED <<put, queue>>
       \/ /\ chan \in DataChans
          /\ transport' = "wait"
          /\ put' = [put EXCEPT ![chan] = value[chan]]
          /\ queue' = IF Len(queue[chan]) < QueueLen
                        THEN [queue EXCEPT ![chan] = Append(@, value[chan])] ELSE queue
    /\ UNCHANGED <<pc, channels, chan, sender, budget>>

\* Mutant: the value is not waited for.
ReadBusy == /\ transport = "read"
            /\ Locked(chan)
            /\ transport' = "ended"
            /\ UNCHANGED <<pc, channels, chan, overtaken, put, queue, sender, budget>>

\* The lock is not free within a second, because its holder waits for room in
\* the queue: the error ends the task.
ReadTimeout == /\ transport = "await"
               /\ pc[chan] = "wait"
               /\ transport' = "ended"
               /\ UNCHANGED <<pc, channels, chan, overtaken, put, queue, sender, budget>>

\* The state machine runs on a new network status, for as long as the modem and
\* the broker take; in a session it has the samples published.
Run == /\ transport = "run"
       /\ transport' = "wait"
       /\ submitted' \in {submitted, submitted \/ session}
       /\ UNCHANGED <<pc, channels, chan, overtaken, put, queue, work, session,
                      handed, budget>>

TransportTask == SubWait \/ AwaitLock \/ Read \/ ReadTimeout \/ Run

-----------------------------------------------------------------------------
(* mqtt_pub_work_fn *)

\* connected_entry at the end of a connect, and the loss of a session
SessionUp == /\ ~session
             /\ session' = TRUE
             /\ submitted' = TRUE
             /\ Spend("session")
             /\ UNCHANGED <<pc, channels, reader, queue, work, handed>>

SessionDown == /\ session
               /\ session' = FALSE
               /\ UNCHANGED <<pc, channels, reader, queue, work, submitted, handed, budget>>

WorkStart == /\ work = "idle"
             /\ submitted
             /\ submitted' = FALSE
             /\ work' = "drain_gps"
             /\ UNCHANGED <<pc, channels, reader, queue, session, handed, budget>>

\* What is handed over is the newest message so far, unless it is an empty one;
\* without a session publish fails and the message is lost.
HandOver(c, message) ==
    handed' = IF session /\ message.head # 0
                THEN [handed EXCEPT ![c] = message.head] ELSE handed

\* Mutant: the message queued last is published first.
DrainLast(c, here, next) ==
    /\ work = here
    /\ \/ /\ queue[c] = <<>>
          /\ work' = next
          /\ UNCHANGED <<queue, handed>>
       \/ /\ queue[c] # <<>>
          /\ queue' = [queue EXCEPT ![c] = Front(@)]
          /\ HandOver(c, Last(queue[c]))
          /\ UNCHANGED work
    /\ UNCHANGED <<pc, channels, reader, submitted, session, budget>>

\* One turn of one of the two loops; while publish blocks, others go on.
Drain(c, here, next) ==
    /\ work = here
    /\ \/ /\ queue[c] = <<>>
          /\ work' = next
          /\ UNCHANGED <<queue, handed>>
       \/ /\ queue[c] # <<>>
          /\ queue' = [queue EXCEPT ![c] = Tail(@)]
          /\ HandOver(c, Head(queue[c]))
          /\ UNCHANGED work
    /\ UNCHANGED <<pc, channels, reader, submitted, session, budget>>

PubWork == \/ WorkStart
           \/ Drain("GPS_CHAN", "drain_gps", "drain_sensor")
           \/ Drain("MQTT_CHAN", "drain_sensor", "idle")

-----------------------------------------------------------------------------

ZbusInit == /\ pc = [c \in Chans |-> "idle"]
            /\ value = [c \in Chans |-> Empty]
            /\ notif = <<>>
            /\ waiters = <<>>
            /\ missed = [c \in Chans |-> FALSE]
            /\ transport = "wait" /\ chan = "NETWORK_CHAN" /\ overtaken = FALSE
            /\ put = [c \in DataChans |-> Empty]
            /\ queue = [c \in DataChans |-> <<>>]
            /\ work = "idle" /\ submitted = FALSE
            /\ session = FALSE
            /\ handed = [c \in DataChans |-> 0]
            /\ budget = Budget

PublisherLabels == {"idle", "test", "copy_head", "copy_tail", "notify", "wait",
                    "clear_head", "clear_tail", "inc"}

ZbusTypeOK ==
    /\ pc \in [Chans -> PublisherLabels]
    /\ value \in [Chans -> Message]
    /\ notif \in Seq(Chans) /\ Len(notif) <= NotifLen
    /\ waiters \in Seq(Chans)
    /\ missed \in [Chans -> BOOLEAN]
    /\ transport \in {"wait", "read", "await", "run", "ended"}
    /\ chan \in Chans /\ overtaken \in BOOLEAN
    /\ put \in [DataChans -> Message]
    /\ queue \in [DataChans -> Seq(Message)]
    /\ \A c \in DataChans : Len(queue[c]) <= QueueLen
    /\ work \in {"idle", "drain_gps", "drain_sensor"}
    /\ submitted \in BOOLEAN /\ session \in BOOLEAN
    /\ handed \in [DataChans -> Nat]
    /\ budget \in [Events -> Nat]
=============================================================================
