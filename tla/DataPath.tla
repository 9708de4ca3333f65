------------------------------ MODULE DataPath ------------------------------
(***************************************************************************)
(* Lines from the UART (trigger.c) and positions from GNSS (location.c) on  *)
(* their way to the MQTT helper.  Each of the two modules has a buffer that *)
(* an interrupt handler writes and a task publishes, with no lock but a     *)
(* binary semaphore that wakes the task: the handler may write at any point *)
(* of the task's work.                                                      *)
(***************************************************************************)
EXTENDS Zbus

CONSTANT RX_BUF_SIZE

ASSUME RxAssumption == RX_BUF_SIZE \in Nat \ {0, 1}

VARIABLES index,      \* bytes of the current line in rx_buf
          length,     \* bytes of it received
          lines,      \* lines completed so far, empty ones apart
          size,       \* bytes the last of them had
          payload,    \* trigger.c's buffer
          uart_sem,
          published,  \* messages published on MQTT_CHAN
          hurried,    \* a line end came before the line before it was through
          frame,      \* GNSS frames so far; frame n is the n-th
          announced,  \* the frame read on the last fix event
          velo,       \* velo_gps_data
          gnss_fix_sem,
          due         \* the fix location_task was woken for

uart == <<index, length, lines, size, payload, uart_sem, hurried>>
gnss == <<frame, announced, velo, gnss_fix_sem, due>>
vars == <<zbusVars, uart, published, gnss>>

Lesser(a, b) == IF a < b THEN a ELSE b
Goto(c, label) == pc' = [pc EXCEPT ![c] = label]

-----------------------------------------------------------------------------
(* uart_handler: one interrupt for each byte *)

\* Mutant: the last byte of the buffer, which ends the string, is used too.
ByteOverrun == /\ Spend("byte")
               /\ length' = length + 1
               /\ index' = Lesser(index + 1, RX_BUF_SIZE)
               /\ uart_sem' = 1
               /\ UNCHANGED <<pc, channels, reader, queue, sender, lines, size,
                              payload, hurried, published, gnss>>

\* A byte that does not fit is reported as a fatal error and left out.
Byte == /\ Spend("byte")
        /\ length' = length + 1
        /\ index' = Lesser(index + 1, RX_BUF_SIZE - 1)
        /\ uart_sem' = 1
        /\ UNCHANGED <<pc, channels, reader, queue, sender, lines, size, payload,
                       hurried, published, gnss>>

TriggerFree == pc["MQTT_CHAN"] \in {"idle", "test"} /\ payload = Empty

\* The line end: rx_buf becomes the payload, whatever the task is doing.
LineEnd ==
    /\ Spend("newline")
    /\ index' = 0 /\ length' = 0
    /\ \/ /\ index = 0
          /\ payload' = Empty
          /\ UNCHANGED <<lines, size>>
       \/ /\ index > 0
          /\ lines' = lines + 1
          /\ size' = length
          /\ payload' = [tag |-> index, head |-> lines', tail |-> lines']
    /\ hurried' = (hurried \/ ~TriggerFree)
    /\ UNCHANGED <<pc, channels, reader, queue, sender, published, gnss>>

\* Mutant: only bytes give the semaphore.
NewlineUngiven == LineEnd /\ UNCHANGED uart_sem

Newline == LineEnd /\ uart_sem' = 1

-----------------------------------------------------------------------------
(* trigger_task *)

TakeUart == /\ pc["MQTT_CHAN"] = "idle"
            /\ uart_sem = 1
            /\ uart_sem' = 0
            /\ Goto("MQTT_CHAN", "test")
            /\ UNCHANGED <<channels, reader, queue, sender, budget, index, length,
                           lines, size, payload, hurried, published, gnss>>

Test == /\ pc["MQTT_CHAN"] = "test"
        /\ Goto("MQTT_CHAN", IF payload.head # 0 THEN "copy_head" ELSE "idle")
        /\ UNCHANGED <<channels, reader, queue, sender, budget, uart, published,
                       gnss>>

PublishLine == /\ Publish("MQTT_CHAN", payload)
               /\ published' = IF pc["MQTT_CHAN"] = "copy_head"
                                 THEN published + 1 ELSE published
               /\ UNCHANGED <<uart, gnss>>

\* Mutant: the payload stays.
ClearForgotten == /\ pc["MQTT_CHAN"] = "clear_head"
                  /\ Goto("MQTT_CHAN", "idle")
                  /\ UNCHANGED <<channels, reader, queue, sender, budget, uart,
                                 published, gnss>>

\* memset, front first
ClearHead == /\ pc["MQTT_CHAN"] = "clear_head"
             /\ payload' = [payload EXCEPT !.tag = 0, !.head = 0]
             /\ Goto("MQTT_CHAN", "clear_tail")
             /\ UNCHANGED <<channels, reader, queue, sender, budget, index, length,
                            lines, size, uart_sem, hurried, published, gnss>>

ClearTail == /\ pc["MQTT_CHAN"] = "clear_tail"
             /\ payload' = [payload EXCEPT !.tail = 0]
             /\ Goto("MQTT_CHAN", "idle")
             /\ UNCHANGED <<channels, reader, queue, sender, budget, index, length,
                            lines, size, uart_sem, hurried, published, gnss>>

TriggerTask == TakeUart \/ Test \/ PublishLine \/ ClearHead \/ ClearTail

-----------------------------------------------------------------------------
(* gnss_event_handler; a read of the modem fails or yields the last frame *)

\* The receiver has made a frame: NRF_MODEM_GNSS_EVT_PVT
Pvt == /\ frame' = frame + 1
       /\ budget["frame"] > 0
       /\ \/ /\ velo' = [velo EXCEPT !.head = frame', !.tail = frame']
             /\ budget' = [budget EXCEPT !["frame"] = @ - 1]
          \/ /\ budget["readfail"] > 0
             /\ budget' = [budget EXCEPT !["frame"] = @ - 1, !["readfail"] = @ - 1]
             /\ UNCHANGED velo
       /\ UNCHANGED <<pc, channels, reader, queue, sender, uart, published,
                      announced, gnss_fix_sem, due>>

\* Mutant: the fix is announced although it could not be read.
FixUnread == /\ frame > announced
             /\ announced' = frame
             /\ gnss_fix_sem' = 1
             /\ \/ velo' = [velo EXCEPT !.head = frame, !.tail = frame]
                \/ UNCHANGED velo
             /\ UNCHANGED <<zbusVars, uart, published, frame, due>>

\* The frame is a fix: NRF_MODEM_GNSS_EVT_FIX, after the event of the frame.
\* When the read fails nothing happens.
Fix == /\ frame > announced
       /\ announced' = frame
       /\ velo' = [velo EXCEPT !.head = frame, !.tail = frame]
       /\ gnss_fix_sem' = 1
       /\ UNCHANGED <<zbusVars, uart, published, frame, due>>

-----------------------------------------------------------------------------
(* location_task while GNSS is active *)

TakeFix == /\ pc["GPS_CHAN"] = "idle"
           /\ gnss_fix_sem = 1
           /\ gnss_fix_sem' = 0
           /\ due' = announced
           /\ Goto("GPS_CHAN", "copy_head")
           /\ UNCHANGED <<channels, reader, queue, sender, budget, uart, published,
                          frame, announced, velo>>

PublishPosition == /\ Publish("GPS_CHAN", velo)
                   /\ UNCHANGED <<uart, published, gnss>>

\* Mutant: the number counts fixes announced, not positions published.
IncByFixes == /\ pc["GPS_CHAN"] = "inc"
              /\ velo' = [velo EXCEPT !.tag = announced]
              /\ Goto("GPS_CHAN", "idle")
              /\ UNCHANGED <<channels, reader, queue, sender, budget, uart,
                             published, frame, announced, gnss_fix_sem, due>>

\* meas_id++.  The fix interval is 1 s, so GNSS never wakes up from a sleep and
\* nothing else writes the number.
Inc == /\ pc["GPS_CHAN"] = "inc"
       /\ velo' = [velo EXCEPT !.tag = @ + 1]
       /\ Goto("GPS_CHAN", "idle")
       /\ UNCHANGED <<channels, reader, queue, sender, budget, uart, published,
                      frame, announced, gnss_fix_sem, due>>

LocationTask == TakeFix \/ PublishPosition \/ Inc

-----------------------------------------------------------------------------
(* pdn_event_handler; on_mqtt_publish in a session *)

\* The message is left out: no step of the data depends on it.
PublishOn(c) == /\ pc[c] = "idle"
                /\ Lock(c)
                /\ Spend("event")
                /\ Goto(c, "notify")
                /\ UNCHANGED <<channels, queue, sender, uart, published, gnss>>

PdnEvent == PublishOn("NETWORK_CHAN")
FotaRequest == session /\ PublishOn("FOTA_CHAN")

PublishEvent == /\ \E c \in EventChans : Notify(c) \/ GiveUp(c)
                /\ UNCHANGED <<uart, published, gnss>>

-----------------------------------------------------------------------------

Init == /\ ZbusInit
        /\ index = 0 /\ length = 0 /\ lines = 0 /\ size = 0
        /\ payload = Empty /\ uart_sem = 0
        /\ published = 0 /\ hurried = FALSE
        /\ frame = 0 /\ announced = 0 /\ velo = Empty /\ gnss_fix_sem = 0
        /\ due = 0

Transport == TransportTask /\ UNCHANGED <<uart, published, gnss>>
PubWorker == PubWork /\ UNCHANGED <<uart, published, gnss>>
Session == (SessionUp \/ SessionDown) /\ UNCHANGED <<uart, published, gnss>>

Next == \/ Byte \/ Newline \/ TriggerTask
        \/ Pvt \/ Fix \/ LocationTask
        \/ PdnEvent \/ FotaRequest \/ PublishEvent
        \/ Transport \/ PubWorker \/ Session

Spec == Init /\ [][Next]_vars

\* The tasks get the CPU; what a publisher waits for comes or times out.
Fairness == /\ WF_vars(TriggerTask)
            /\ WF_vars(LocationTask)
            /\ WF_vars(PublishEvent)
            /\ WF_vars(Transport)

FairSpec == Spec /\ Fairness

-----------------------------------------------------------------------------
(* Properties *)

\* Types of the channels' and the two modules' state.
TypeOK ==
    /\ ZbusTypeOK
    /\ index \in 0..(RX_BUF_SIZE - 1) /\ length \in Nat
    /\ lines \in Nat /\ size \in Nat
    /\ payload \in Message /\ uart_sem \in {0, 1}
    /\ published \in Nat /\ hurried \in BOOLEAN
    /\ frame \in Nat /\ announced \in Nat /\ velo \in Message
    /\ gnss_fix_sem \in {0, 1} /\ due \in Nat

Whole(n) == [tag |-> Lesser(size, RX_BUF_SIZE - 1), head |-> n, tail |-> n]

\* As long as each line end comes after the line before it is through (published
\* and cleared away), every line is published exactly once and whole, cut to
\* what rx_buf holds: neither the semaphore given by every byte nor the bytes of
\* the next line disturb that (trigger.c:43-65, 103-115).
LinesWhole ==
    ~hurried =>
        \/ published = lines - 1 /\ payload = Whole(lines)
        \/ /\ published = lines
           /\ pc["MQTT_CHAN"] \in {"idle", "test"} => payload = Empty
           /\ lines > 0 /\ pc["MQTT_CHAN"] # "copy_tail" =>
                  value["MQTT_CHAN"] = Whole(lines)

\* A line is never left in the buffer unnoticed: the task is awake for it or will
\* be woken (one token of uart_sem stands for any number of bytes).
LineNoticed == (pc["MQTT_CHAN"] = "idle" /\ payload.head # 0) => uart_sem = 1

\* What location_task publishes is at least as new as the fix it was woken for,
\* and where the handler writes during the copy the rest is newer, never older
\* (location.c:84-99, 194-195).
PositionFresh ==
    LET position == value["GPS_CHAN"]
    IN  /\ pc["GPS_CHAN"] \in {"copy_tail", "notify", "wait"} => position.head >= due
        /\ pc["GPS_CHAN"] # "copy_tail" => position.tail >= position.head

\* The positions published are numbered without a gap and without a repetition,
\* although a give-up and a fix that comes early take other ways round the loop
\* and the handler writes to the same structure (location.c:84-99, 194-196).
MeasIdsFollow ==
    [][pc["GPS_CHAN"] = "copy_head" /\ pc'["GPS_CHAN"] = "copy_tail" =>
         value'["GPS_CHAN"].tag = IF value["GPS_CHAN"] = Empty
                                    THEN 0 ELSE value["GPS_CHAN"].tag + 1]_vars

\* Once the references to a channel are worked off, the value read from it last
\* is the one published last, although a reference does not say which value it
\* was for; unless the only reference to it was refused by a full queue
\* (transport.c:561-602, zbus subscriber).
UpToDate ==
    \A c \in DataChans :
        \/ put[c] = value[c]
        \/ Locked(c) \/ missed[c] \/ transport = "ended"
        \/ Contains(notif, c) \/ InHand(c)

\* References that were in the queue when transport_task took the one in its hand
\* never end it, however many: the place it has made is its publisher's.  Its read
\* times out only when the channel has been published on again in the meantime, or
\* another channel's publisher has taken the place (transport.c:532-602).
EndsOnlyOvertaken ==
    transport = "ended" => overtaken \/ \E c \in Chans \ {chan} : Contains(notif, c)

\* Lines and positions reach the helper as through lossy streams: none comes
\* after a newer one, across buffer, channel, queue and the two loops.
Lines     == INSTANCE LossyStream WITH made <- lines, passed <- handed["MQTT_CHAN"]
Positions == INSTANCE LossyStream WITH made <- frame, passed <- handed["GPS_CHAN"]
ImplementsStreams == Lines!Spec /\ Positions!Spec

\* A line that comes on its own, and is the last, is read by transport_task in the
\* end unless its notification was refused or the task has ended.
LineArrives ==
    [](lines > 0 => <>(\/ put["MQTT_CHAN"].head = lines
                       \/ hurried \/ missed["MQTT_CHAN"] \/ transport = "ended"))
=============================================================================
