------------------------------- MODULE Uplink -------------------------------
(***************************************************************************)
(* The transport module (transport.c) on top of the MQTT helper: the task  *)
(* that follows NETWORK_CHAN and queues samples, the application work      *)
(* queue that connects and publishes, and the helper's callbacks, which    *)
(* drive the two-state machine smf from whatever thread they run in.       *)
(***************************************************************************)
EXTENDS MqttHelper, Sequences, SequencesExt

CONSTANTS Task,        \* transport_task
          WorkQ,       \* transport_queue's thread
          Timer,       \* the timer of connect_work
          NotifLen,    \* CONFIG_MQTT_SAMPLE_TRANSPORT_MESSAGE_QUEUE_SIZE
          QueueLen     \* length of gps_data_queue and of sensor_data_queue

Works == {"connect", "pub"}
Channels == {"NETWORK_CHAN", "MQTT_CHAN", "GPS_CHAN", "FOTA_CHAN"}

ASSUME UplinkAssumption ==
    /\ Callers = {Task, WorkQ}
    /\ Task # WorkQ
    /\ Timer \notin Threads
    /\ NotifLen \in Nat \ {0} /\ QueueLen \in Nat \ {0}
    /\ {"pdn", "sample"} \subseteq DOMAIN Budget
    /\ None \notin Works

VARIABLES smf,        \* s_obj.ctx: "MQTT_CONNECTED" or "MQTT_DISCONNECTED"
          status,     \* s_obj.status: the network is connected
          seen,       \* the status transport_task has read but not yet stored
          notif,      \* the subscriber's queue of channel notifications
          missed,     \* a notification of NETWORK_CHAN found that queue full
          workq,      \* submitted works, in order
          running,    \* the work whose handler runs, or None
          canceling,  \* works cancelled while their handler runs
          armed,      \* connect_work waits for its timer
          gps_data_queue, sensor_data_queue   \* how full they are

work == <<workq, running, canceling, armed>>
data == <<gps_data_queue, sensor_data_queue>>
smfVars == <<smf, status, seen>>
uplinkVars == <<smfVars, notif, missed, work, data>>
vars == <<helperVars, uplinkVars>>

-----------------------------------------------------------------------------
(* Zephyr's work queue *)

\* k_work_submit_to_queue: nothing happens to a work already queued, and one
\* whose cancellation is under way is refused.
Submit(w) == workq' = IF Contains(workq, w) \/ w \in canceling
                        THEN workq ELSE Append(workq, w)

\* k_work_reschedule_for_queue(connect_work): at once, or by the timer.
RescheduleNow   == /\ armed' = FALSE
                   /\ mature' = mature \ {Timer}
                   /\ Submit("connect")
RescheduleLater == /\ armed' = TRUE
                   /\ mature' = mature \ {Timer}
                   /\ UNCHANGED workq

\* k_work_cancel: a queued work is taken off, a running one goes on to its end.
Unqueue(w) ==
    \/ ~Contains(workq, w) /\ UNCHANGED workq
    \/ \E i \in DOMAIN workq : workq[i] = w /\ workq' = RemoveAt(workq, i)

CancelConnect == /\ Unqueue("connect")
                 /\ canceling' = canceling \cup ({"connect"} \cap {running})
                 /\ armed' = FALSE
                 /\ mature' = mature \ {Timer}

CancelAll == /\ workq' = <<>>
             /\ canceling' = canceling \cup (Works \cap {running})
             /\ armed' = FALSE
             /\ mature' = mature \ {Timer}

-----------------------------------------------------------------------------
(* Scheduling: the work queue's thread is cooperative and outranks the task, *)
(* which outranks the poll thread.                                           *)

Outranks(t) == CASE t = WorkQ -> {} [] t = Task -> {WorkQ} [] OTHER -> Callers

UplinkLabels == {"sub_wait", "modem_info", "run", "work_wait", "rearm",
                 "drain_gps", "drain_sensor", "connected_entry", "subscribe",
                 "submit_pub", "disconnected_entry"}

Ready(t) == \/ HelperReady(t)
            \/ pc[t] \in UplinkLabels \ {"sub_wait", "modem_info", "work_wait"}
            \/ pc[t] = "sub_wait" /\ notif # <<>>
            \/ pc[t] = "work_wait" /\ workq # <<>>

CanRun(t) == \A u \in Outranks(t) : ~Ready(u)

Waiting == {t \in Threads : InIo(t) \/ pc[t] = "modem_info"}
             \cup (IF armed THEN {Timer} ELSE {})

\* The CPU is idle: I/O begun and timers set before have time to finish.
TimePasses ==
    /\ \A t \in Threads : ~Ready(t)
    /\ mature # Waiting
    /\ mature' = Waiting
    /\ UNCHANGED <<machine, connection_poll_sem, boundary, lib, lock, fd, pc,
                   returns, budget, uplinkVars>>

\* The timer of connect_work submits it.
TimerExpires ==
    /\ armed
    /\ Patient => Timer \in mature
    /\ RescheduleNow
    /\ UNCHANGED <<machine, connection_poll_sem, boundary, lib, lock, fd, pc,
                   returns, budget, smfVars, notif, missed, running, canceling,
                   data>>

-----------------------------------------------------------------------------
(* The other modules: NETWORK_CHAN follows the link, samples come in *)

\* A publication notifies the subscriber unless its queue stays full, which
\* it does only while the task is held up.
Notify(chan) ==
    \/ Len(notif) < NotifLen /\ notif' = Append(notif, chan) /\ UNCHANGED missed
    \/ /\ Len(notif) = NotifLen
       /\ ~Ready(Task)
       /\ missed' = (missed \/ chan = "NETWORK_CHAN")
       /\ UNCHANGED notif

\* pdn_event_handler: the link changes and the new status is published.  Losing
\* the link in the middle of an unanswered CONNECT also costs a "refuse".
PdnEvent ==
    /\ Notify("NETWORK_CHAN")
    /\ link' = ~link
    /\ dead' = IF link THEN open ELSE dead
    /\ budget["pdn"] > 0
    /\ (link /\ client = "tcp") => budget["refuse"] > 0
    /\ budget' = [budget EXCEPT !["pdn"] = @ - 1,
                                !["refuse"] = IF link /\ client = "tcp" THEN @ - 1
                                                                        ELSE @]
    /\ UNCHANGED <<machine, connection_poll_sem, registered, client, sock,
                   unread, open, lock, fd, pc, returns, mature, smfVars, work,
                   data>>

Sample == /\ \E chan \in {"MQTT_CHAN", "GPS_CHAN"} : Notify(chan)
          /\ Spend("sample")
          /\ UNCHANGED <<machine, connection_poll_sem, boundary, lib, lock, fd,
                         pc, returns, mature, smfVars, work, data>>

-----------------------------------------------------------------------------
(* transport_task *)

calm == <<machine, connection_poll_sem, boundary, lib, lock, fd, budget>>

\* Mutant: samples are queued whether or not there is room.
SubWaitUnbounded ==
    /\ pc[Task] = "sub_wait"
    /\ notif # <<>>
    /\ notif' = Tail(notif)
    /\ \/ /\ Head(notif) = "NETWORK_CHAN"
          /\ seen' = link
          /\ Goto(Task, "modem_info")
          /\ UNCHANGED data
       \/ /\ Head(notif) = "MQTT_CHAN"
          /\ sensor_data_queue' = sensor_data_queue + 1
          /\ UNCHANGED <<seen, pc, gps_data_queue>>
       \/ /\ Head(notif) = "GPS_CHAN"
          /\ gps_data_queue' = gps_data_queue + 1
          /\ UNCHANGED <<seen, pc, sensor_data_queue>>
       \/ Head(notif) = "FOTA_CHAN" /\ UNCHANGED <<seen, pc, data>>
    /\ UNCHANGED <<calm, returns, mature, smf, status, missed, work>>

\* zbus_sub_wait and zbus_chan_read, which reads the latest value whatever the
\* notification was for; samples are queued, or dropped when there is no room.
SubWait ==
    /\ pc[Task] = "sub_wait"
    /\ notif # <<>>
    /\ notif' = Tail(notif)
    /\ \/ /\ Head(notif) = "NETWORK_CHAN"
          /\ seen' = link
          /\ Goto(Task, "modem_info")
          /\ UNCHANGED data
       \/ /\ Head(notif) = "MQTT_CHAN"
          /\ sensor_data_queue' = IF sensor_data_queue < QueueLen
                                    THEN sensor_data_queue + 1 ELSE sensor_data_queue
          /\ UNCHANGED <<seen, pc, gps_data_queue>>
       \/ /\ Head(notif) = "GPS_CHAN"
          /\ gps_data_queue' = IF gps_data_queue < QueueLen
                                 THEN gps_data_queue + 1 ELSE gps_data_queue
          /\ UNCHANGED <<seen, pc, sensor_data_queue>>
       \/ Head(notif) = "FOTA_CHAN" /\ UNCHANGED <<seen, pc, data>>
    /\ UNCHANGED <<calm, returns, mature, smf, status, missed, work>>

\* Mutant: the status is not stored when the modem does not answer.
ModemInfoFails ==
    /\ pc[Task] = "modem_info"
    /\ Io(Task)
    /\ status' \in {seen, status}
    /\ seen' = FALSE
    /\ Goto(Task, "run")
    /\ UNCHANGED <<calm, returns, smf, notif, missed, work, data>>

\* modify_login_info_msg asks the modem, and only then is the status stored.
ModemInfo ==
    /\ pc[Task] = "modem_info"
    /\ Io(Task)
    /\ status' = seen
    /\ seen' = FALSE
    /\ Goto(Task, "run")
    /\ UNCHANGED <<calm, returns, smf, notif, missed, work, data>>

\* smf_run_state: disconnected_run and connected_run
Run ==
    /\ pc[Task] = "run"
    /\ \/ /\ smf = "MQTT_DISCONNECTED" /\ ~status
          /\ CancelAll
          /\ Goto(Task, "sub_wait")
          /\ UNCHANGED returns
       \/ /\ smf = "MQTT_DISCONNECTED" /\ status
          /\ RescheduleLater
          /\ Goto(Task, "sub_wait")
          /\ UNCHANGED <<returns, canceling>>
       \/ /\ smf = "MQTT_CONNECTED" /\ ~status
          /\ Call(Task, "disconnect", "sub_wait")
          /\ UNCHANGED <<workq, canceling, armed, mature>>
       \/ /\ smf = "MQTT_CONNECTED" /\ status
          /\ Submit("pub")
          /\ Goto(Task, "sub_wait")
          /\ UNCHANGED <<returns, canceling, armed, mature>>
    /\ UNCHANGED <<calm, smfVars, notif, missed, running, data>>

-----------------------------------------------------------------------------
(* The work queue: connect_work_fn and mqtt_pub_work_fn *)

WorkWait ==
    /\ pc[WorkQ] = "work_wait"
    /\ workq # <<>>
    /\ workq' = Tail(workq)
    /\ running' = Head(workq)
    /\ \/ Head(workq) = "connect" /\ Call(WorkQ, "connect", "rearm")
       \/ Head(workq) = "pub" /\ Goto(WorkQ, "drain_gps") /\ UNCHANGED returns
    /\ UNCHANGED <<calm, mature, smfVars, notif, missed, canceling, armed, data>>

WorkDone == /\ running' = None
            /\ canceling' = canceling \ {running}
            /\ Goto(WorkQ, "work_wait")

\* Mutant: connect_work_fn does not schedule its next attempt.
RearmForgotten == /\ pc[WorkQ] = "rearm"
                  /\ WorkDone
                  /\ UNCHANGED <<calm, returns, mature, smfVars, notif, missed,
                                 workq, armed, data>>

Rearm == /\ pc[WorkQ] = "rearm"
         /\ RescheduleLater
         /\ WorkDone
         /\ UNCHANGED <<calm, returns, smfVars, notif, missed, data>>

DrainGps ==
    /\ pc[WorkQ] = "drain_gps"
    /\ \/ /\ gps_data_queue > 0
          /\ gps_data_queue' = gps_data_queue - 1
          /\ Call(WorkQ, "send", "drain_gps")
       \/ /\ gps_data_queue = 0
          /\ Goto(WorkQ, "drain_sensor")
          /\ UNCHANGED <<returns, gps_data_queue>>
    /\ UNCHANGED <<calm, mature, smfVars, notif, missed, work, sensor_data_queue>>

DrainSensor ==
    /\ pc[WorkQ] = "drain_sensor"
    /\ \/ /\ sensor_data_queue > 0
          /\ sensor_data_queue' = sensor_data_queue - 1
          /\ Call(WorkQ, "send", "drain_sensor")
          /\ UNCHANGED <<running, canceling>>
       \/ /\ sensor_data_queue = 0
          /\ WorkDone
          /\ UNCHANGED <<returns, sensor_data_queue>>
    /\ UNCHANGED <<calm, mature, smfVars, notif, missed, workq, armed,
                   gps_data_queue>>

-----------------------------------------------------------------------------
(* The callbacks *)

\* on_mqtt_connack does not look at the return code.
OnConnack ==
    /\ pc[Poll] = "on_connack"
    /\ smf' = "MQTT_CONNECTED"
    /\ Goto(Poll, "connected_entry")
    /\ UNCHANGED <<calm, returns, mature, status, seen, notif, missed, work, data>>

\* connected_entry: cancel the reconnection, publish the login message ...
ConnectedEntry ==
    /\ pc[Poll] = "connected_entry"
    /\ CancelConnect
    /\ Call(Poll, "send", "subscribe")
    /\ UNCHANGED <<calm, smfVars, notif, missed, running, data>>

\* ... subscribe ...
Subscribe ==
    /\ pc[Poll] = "subscribe"
    /\ Call(Poll, "send", "submit_pub")
    /\ UNCHANGED <<calm, mature, uplinkVars>>

\* ... and have the work queue publish what is queued.
SubmitPub ==
    /\ pc[Poll] = "submit_pub"
    /\ Submit("pub")
    /\ EventHandled
    /\ UNCHANGED <<calm, mature, smfVars, notif, missed, running, canceling,
                   armed, data>>

OnDisconnect(t) ==
    /\ pc[t] = "on_disconnect"
    /\ smf' = "MQTT_DISCONNECTED"
    /\ Goto(t, "disconnected_entry")
    /\ UNCHANGED <<calm, returns, mature, status, seen, notif, missed, work, data>>

\* Mutant: the loss of a session schedules nothing.
DisconnectedEntryIdle(t) ==
    /\ pc[t] = "disconnected_entry"
    /\ DisconnectHandled(t)
    /\ UNCHANGED <<calm, mature, smfVars, notif, missed, work, data>>

DisconnectedEntry(t) ==
    /\ pc[t] = "disconnected_entry"
    /\ \/ status /\ RescheduleNow
       \/ ~status /\ UNCHANGED <<workq, armed, mature>>
    /\ DisconnectHandled(t)
    /\ UNCHANGED <<calm, smfVars, notif, missed, running, canceling, data>>

\* on_mqtt_publish: a FOTA request goes to FOTA_CHAN, of which the transport
\* module itself is notified too.
OnPublish ==
    /\ pc[Poll] = "on_publish"
    /\ Notify("FOTA_CHAN") \/ UNCHANGED <<notif, missed>>
    /\ EventHandled
    /\ UNCHANGED <<calm, mature, smfVars, work, data>>

-----------------------------------------------------------------------------

TaskStep == SubWait \/ ModemInfo \/ Run
WorkStep == WorkWait \/ Rearm \/ DrainGps \/ DrainSensor
CallbackStep == \/ OnConnack \/ ConnectedEntry \/ Subscribe \/ SubmitPub \/ OnPublish

Thread(t) ==
    /\ ~asserted
    /\ CanRun(t)
    /\ \/ ApiStep(t) /\ UNCHANGED uplinkVars
       \/ OnDisconnect(t) \/ DisconnectedEntry(t)
       \/ t = Task /\ TaskStep
       \/ t = WorkQ /\ WorkStep
       \/ t = Poll /\ (CallbackStep \/ (PollStep /\ UNCHANGED uplinkVars))

Environment == \/ PdnEvent
               \/ Sample
               \/ (Drop \/ DropWhileConnecting) /\ UNCHANGED uplinkVars

Next == \/ \E t \in Threads : Thread(t)
        \/ TimePasses
        \/ TimerExpires
        \/ Environment

\* transport_task starts the work queue and calls helper_init; smf_set_initial
\* enters MQTT_DISCONNECTED while no network status is known.
Init ==
    /\ HelperInit
    /\ link = FALSE
    /\ pc = [t \in Threads |-> CASE t = Task  -> "init"
                                 [] t = WorkQ -> "work_wait"
                                 [] OTHER     -> "sem_take"]
    /\ ret = [t \in Threads |-> IF t = Task THEN "sub_wait" ELSE None]
    /\ smf = "MQTT_DISCONNECTED"
    /\ status = FALSE
    /\ seen = FALSE
    /\ notif = <<>>
    /\ missed = FALSE
    /\ workq = <<>>
    /\ running = None
    /\ canceling = {}
    /\ armed = FALSE
    /\ gps_data_queue = 0
    /\ sensor_data_queue = 0

Spec == Init /\ [][Next]_vars

\* Every thread makes progress: a thread that is outranked gets the CPU again
\* whenever the others block, which they do after every burst (hence SF).
\* Blocking I/O ends and timers expire.
Fairness == /\ WF_vars(Thread(WorkQ))
            /\ \A t \in {Task, Poll} : SF_vars(Thread(t))
            /\ WF_vars(TimePasses)
            /\ WF_vars(TimerExpires)

FairSpec == Spec /\ Fairness

-----------------------------------------------------------------------------
(* Properties *)

Labels == HelperLabels \cup UplinkLabels

\* Types of the helper's and the transport module's state.
TypeOK ==
    /\ mqtt_state \in MqttStates
    /\ asserted \in BOOLEAN /\ registered \in BOOLEAN
    /\ unread \in BOOLEAN /\ link \in BOOLEAN
    /\ connection_poll_sem \in {0, 1}
    /\ client \in {"idle", "tcp", "session"}
    /\ sock \in Fds \cup {None} /\ fd \in Fds \cup {None}
    /\ lock \in Threads \cup {None}
    /\ open \subseteq Fds /\ dead \subseteq open
    /\ pc \in [Threads -> Labels]
    /\ ret \in [Threads -> Labels \cup {None}]
    /\ after \in [Threads -> Labels \cup {None}]
    /\ resume \in Labels \cup {None}
    /\ mature \subseteq Threads \cup {Timer}
    /\ budget \in [DOMAIN Budget -> Nat]
    /\ smf \in {"MQTT_CONNECTED", "MQTT_DISCONNECTED"}
    /\ status \in BOOLEAN /\ seen \in BOOLEAN
    /\ notif \in Seq(Channels) /\ Len(notif) <= NotifLen
    /\ missed \in BOOLEAN
    /\ workq \in Seq(Works)
    /\ running \in Works \cup {None}
    /\ canceling \subseteq Works
    /\ armed \in BOOLEAN
    /\ gps_data_queue \in 0..QueueLen /\ sensor_data_queue \in 0..QueueLen

\* As long as the module is disconnected and believes in the network, a
\* reconnection is on its way: connect_work is queued, running or waiting for
\* its timer, or a thread is just about to schedule it (disconnected_entry,
\* disconnected_run).  No order of network events, lost sessions and callbacks
\* in three threads cancels the last attempt.
RetryPending ==
    (smf = "MQTT_DISCONNECTED" /\ status) =>
        \/ armed \/ Contains(workq, "connect") \/ running = "connect"
        \/ pc[Task] = "run"
        \/ \E t \in Threads : pc[t] = "disconnected_entry"

Idle == /\ pc[Task] = "sub_wait" /\ notif = <<>>
        /\ pc[WorkQ] = "work_wait" /\ workq = <<>>
        /\ pc[Poll] \in {"sem_take", "poll"} /\ ~HelperReady(Poll)

\* Every CONNECT so far was answered and accepted, and poll() never failed.
Undisturbed == \A f \in {"refuse", "mute", "pollerr"} : budget[f] = Budget[f]

\* When every thread waits, the two-state machine of the transport module and
\* the state machine of the helper agree on whether there is a session, though
\* their transitions are made in different threads and at different times.
MachinesAgree ==
    (Idle /\ Undisturbed) => (smf = "MQTT_CONNECTED" <=> mqtt_state = "CONNECTED")

\* The network status the module acts on is the one last published, once it
\* has worked off its notifications, unless one of NETWORK_CHAN was refused
\* because the queue was full of others.
StatusFollows ==
    (pc[Task] = "sub_wait" /\ ~Contains(notif, "NETWORK_CHAN") /\ ~missed)
        => status = link

\* No socket is forgotten: what is open is what the library holds.
NoSocketLeak == open \subseteq {sock}

\* The __ASSERT of mqtt_state_set on an illegal transition never fails
\* (dynsec_mqtt_helper.c:144).
NoIllegalTransition == ~asserted

Connected == smf = "MQTT_CONNECTED" /\ mqtt_state = "CONNECTED"

\* A reconnection is attempted until there is a session: if the network stays,
\* the module does not stay without one for ever (unless an assertion stopped
\* the program or it was not told of the network: see missed).
StaysConnected == <>[]link => []<>(Connected \/ asserted \/ missed)

\* A sample queued while there is a session is taken to the broker.
SamplesLeave ==
    (sensor_data_queue > 0 /\ Connected)
        ~> (sensor_data_queue = 0 \/ ~Connected \/ asserted)
=============================================================================
