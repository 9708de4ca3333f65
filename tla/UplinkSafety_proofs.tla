-------------------------- MODULE UplinkSafety_proofs --------------------------
(***************************************************************************)
(* The transport module and the MQTT helper together: no socket is         *)
(* forgotten, a reconnection stays under way, and the two state machines   *)
(* agree once all is quiet, if network I/O is patient.                     *)
(*                                                                         *)
(* Places says which labels each of the three threads can be at; Joint     *)
(* relates the threads, the helper's state and the library as long as no   *)
(* assertion has failed.  Both use that a thread runs only while those     *)
(* that outrank it wait, and Joint that I/O ends only after the CPU has    *)
(* been idle: a name is not resolved before the poll thread has left the   *)
(* session before, and no write ends between the arrival of a CONNACK and  *)
(* its callback.                                                           *)
(***************************************************************************)
EXTENDS Uplink_proofs

\* The calls the threads make, and what they do between them.
ConnectLabels == {"connect", "getaddrinfo", "mqtt_connect", "handshake", "connecting"}
DisconnectLabels == {"disconnect", "set_disconnecting", "mqtt_disconnect",
                     "disconnect_write", "disconnect_failed"}
SendLabels == {"send", "mqtt_send", "write"}
Draining   == {"drain_gps", "drain_sensor"}
Working    == {"work_wait", "rearm"} \cup Draining
LoopLabels == {"sem_take", "loop", "poll", "mqtt_input", "mqtt_abort", "mqtt_live",
               "input_done"}

\* The places of the threads.  The work queue's thread returns from a connection
\* to rearm it, and from a publication to its queues; only a disconnect of the
\* task goes on after an event.
TaskFine(p) == p \in {"init", "sub_wait", "modem_info", "run"}
                       \cup DisconnectLabels \cup EvtLabels

WorkFine(p, r, a) ==
    /\ p \in Working \cup ConnectLabels \cup SendLabels \cup EvtLabels
    /\ p \in ConnectLabels => r = "rearm"
    /\ p \in SendLabels => r \in Draining
    /\ p \in EvtLabels => a \in Draining

PollFine(p, a) ==
    /\ p \in LoopLabels \cup PollEvtLabels \cup SendLabels \cup EvtLabels
    /\ p \in EvtLabels => a # "disconnect_failed"

Places == /\ TaskFine(pc[Task])
          /\ WorkFine(pc[WorkQ], ret[WorkQ], after[WorkQ])
          /\ PollFine(pc[Poll], after[Poll])

-----------------------------------------------------------------------------
(* Places *)

\* There are three threads.
LEMMA ThreeThreads ==
  /\ Threads = {Task, WorkQ, Poll}
  /\ Task # WorkQ /\ Task # Poll /\ WorkQ # Poll
  /\ Task # None /\ WorkQ # None /\ Poll # None
  /\ Back(Task) = {"sub_wait"}
  /\ Back(WorkQ) = {"rearm"} \cup Draining
  /\ Back(Poll) = {"subscribe", "submit_pub", "on_publish"}
  BY HelperAssumption, UplinkAssumption DEF Threads, Back, Draining

\* One thread moves to p.
TaskAt(p) == /\ Places' /\ pc'[Task] = p
             /\ pc'[WorkQ] = pc[WorkQ] /\ pc'[Poll] = pc[Poll]
WorkAt(p) == /\ Places' /\ pc'[WorkQ] = p
             /\ pc'[Task] = pc[Task] /\ pc'[Poll] = pc[Poll]
PollAt(p) == /\ Places' /\ pc'[Poll] = p
             /\ pc'[Task] = pc[Task] /\ pc'[WorkQ] = pc[WorkQ]

\* A thread moves, and only it: first the task ...
LEMMA TaskMoves ==
  ASSUME Control, Places, NEW p, TaskFine(p), NEW r, NEW a,
         pc' = [pc EXCEPT ![Task] = p],
         ret' = [ret EXCEPT ![Task] = r],
         after' = [after EXCEPT ![Task] = a]
  PROVE  TaskAt(p)
<1>1. /\ pc'[Task] = p
      /\ pc'[WorkQ] = pc[WorkQ] /\ ret'[WorkQ] = ret[WorkQ] /\ after'[WorkQ] = after[WorkQ]
      /\ pc'[Poll] = pc[Poll] /\ after'[Poll] = after[Poll]
  BY ThreeThreads DEF Control
<1> QED
  BY <1>1 DEF Places, TaskAt

\* The same of the work queue's thread, with the place it returns to ...
LEMMA WorkMoves ==
  ASSUME Control, Places, NEW p, NEW r, NEW a, WorkFine(p, r, a),
         pc' = [pc EXCEPT ![WorkQ] = p],
         ret' = [ret EXCEPT ![WorkQ] = r],
         after' = [after EXCEPT ![WorkQ] = a]
  PROVE  WorkAt(p)
<1>1. /\ pc'[WorkQ] = p /\ ret'[WorkQ] = r /\ after'[WorkQ] = a
      /\ pc'[Task] = pc[Task] /\ pc'[Poll] = pc[Poll] /\ after'[Poll] = after[Poll]
  BY ThreeThreads DEF Control
<1> QED
  BY <1>1 DEF Places, WorkAt

\* ... and of the poll thread, with the place an event returns to.
LEMMA PollMoves ==
  ASSUME Control, Places, NEW p, NEW r, NEW a, PollFine(p, a),
         pc' = [pc EXCEPT ![Poll] = p],
         ret' = [ret EXCEPT ![Poll] = r],
         after' = [after EXCEPT ![Poll] = a]
  PROVE  PollAt(p)
<1>1. /\ pc'[Poll] = p /\ after'[Poll] = a
      /\ pc'[Task] = pc[Task] /\ pc'[WorkQ] = pc[WorkQ]
      /\ ret'[WorkQ] = ret[WorkQ] /\ after'[WorkQ] = after[WorkQ]
  BY ThreeThreads DEF Control
<1> QED
  BY <1>1 DEF Places, PollAt

\* What is left alone is a function still.
LEMMA Still ==
  ASSUME Control, NEW t \in Threads
  PROVE  /\ UNCHANGED ret => ret' = [ret EXCEPT ![t] = ret[t]]
         /\ UNCHANGED after => after' = [after EXCEPT ![t] = after[t]]
  BY DEF Control

\* The task goes from label to label.
LEMMA TaskGoto ==
  ASSUME Control, Places, NEW l, TaskFine(l), Goto(Task, l),
         UNCHANGED after, UNCHANGED ret \/ \E b : ret' = [ret EXCEPT ![Task] = b]
  PROVE  TaskAt(l)
  BY ThreeThreads, Still, TaskMoves DEF Goto

\* Its calls return to the loop of transport_task.
LEMMA TaskReturn ==
  ASSUME Control, Places, pc[Task] \in ApiLabels, Return(Task)
  PROVE  TaskAt("sub_wait")
<1>1. ret[Task] = "sub_wait"
  BY ThreeThreads DEF Control, Good
<1> QED
  BY <1>1, TaskGoto DEF Return, TaskFine

\* A disconnect raises the DISCONNECT event, whether it sent the packet or not.
LEMMA TaskRaise ==
  ASSUME Control, Places, Raise(Task, "disconnect_failed") \/ RaiseReturn(Task)
  PROVE  TaskAt("evt_disconnect")
<1>1. TaskFine("evt_disconnect")
  BY DEF TaskFine, EvtLabels
<1>2. CASE Raise(Task, "disconnect_failed")
  BY <1>1, <1>2, ThreeThreads, Still, TaskMoves DEF Raise, Goto
<1>3. CASE RaiseReturn(Task)
  BY <1>1, <1>3, TaskMoves DEF RaiseReturn, Goto
<1> QED
  BY <1>2, <1>3

\* The event's callback ends, and the call that raised it goes on or returns.
LEMMA TaskHandled ==
  ASSUME Control, Places, pc[Task] \in EvtLabels, DisconnectHandled(Task)
  PROVE  TaskAt("sub_wait") \/ TaskAt("disconnect_failed")
<1>1. after[Task] \in {"sub_wait", "disconnect_failed"}
  BY ThreeThreads DEF Control, Good, After, InCall
<1>2. TaskFine(after[Task]) /\ ret' = [ret EXCEPT ![Task] = ret[Task]]
  BY <1>1, ThreeThreads, Still DEF TaskFine, DisconnectLabels, DisconnectHandled
<1>3. TaskAt(after[Task])
  BY <1>2, TaskMoves DEF DisconnectHandled, Goto
<1> QED
  BY <1>1, <1>3

\* The same of the work queue's thread, which also makes calls ...
LEMMA WorkGoto ==
  ASSUME Control, Places, NEW l \in Working \cup ConnectLabels \cup SendLabels \cup EvtLabels,
         Goto(WorkQ, l), UNCHANGED returns,
         l \in ConnectLabels => pc[WorkQ] \in ConnectLabels,
         l \in SendLabels => pc[WorkQ] \in SendLabels,
         l \in EvtLabels => pc[WorkQ] \in EvtLabels
  PROVE  WorkAt(l)
<1>1. WorkFine(l, ret[WorkQ], after[WorkQ])
  BY DEF Places, WorkFine
<1> QED
  BY <1>1, ThreeThreads, Still, WorkMoves DEF Goto, returns

\* connect_work calls the helper from its start, mqtt_pub_work from its drains.
LEMMA WorkCall ==
  ASSUME Control, Places, NEW l, NEW b,
         \/ l = "connect" /\ b = "rearm"
         \/ l = "send" /\ b \in Draining,
         Call(WorkQ, l, b)
  PROVE  WorkAt(l)
<1>1. WorkFine(l, b, after[WorkQ])
  BY DEF WorkFine, ConnectLabels, SendLabels, EvtLabels, Draining
<1> QED
  BY <1>1, ThreeThreads, Still, WorkMoves DEF Call, Goto

\* A connection returns to the work that rearms it, a publication to a drain.
LEMMA WorkReturn ==
  ASSUME Control, Places, pc[WorkQ] \in ConnectLabels \cup SendLabels, Return(WorkQ)
  PROVE  /\ pc[WorkQ] \in ConnectLabels => WorkAt("rearm")
         /\ pc[WorkQ] \in SendLabels => WorkAt("drain_gps") \/ WorkAt("drain_sensor")
<1>1. /\ pc[WorkQ] \in ConnectLabels => ret[WorkQ] = "rearm"
      /\ pc[WorkQ] \in SendLabels => ret[WorkQ] \in Draining
  BY DEF Places, WorkFine
<1>2. WorkFine(ret[WorkQ], None, after[WorkQ])
  BY <1>1 DEF WorkFine, Working, Draining, ConnectLabels, SendLabels, EvtLabels
<1>3. WorkAt(ret[WorkQ])
  BY <1>2, ThreeThreads, Still, WorkMoves DEF Return, Goto
<1> QED
  BY <1>1, <1>3 DEF Draining

\* A write that fails raises the DISCONNECT event and then returns.
LEMMA WorkRaise ==
  ASSUME Control, Places, pc[WorkQ] \in SendLabels, RaiseReturn(WorkQ)
  PROVE  WorkAt("evt_disconnect")
<1>1. WorkFine("evt_disconnect", None, ret[WorkQ])
  BY DEF Places, WorkFine, ConnectLabels, SendLabels, EvtLabels, Draining
<1> QED
  BY <1>1, WorkMoves DEF RaiseReturn, Goto

\* After the event the publication goes on with its queues.
LEMMA WorkHandled ==
  ASSUME Control, Places, pc[WorkQ] \in EvtLabels, DisconnectHandled(WorkQ)
  PROVE  WorkAt("drain_gps") \/ WorkAt("drain_sensor")
<1>1. after[WorkQ] \in Draining
  BY DEF Places, WorkFine
<1>2. WorkFine(after[WorkQ], ret[WorkQ], None)
  BY <1>1 DEF WorkFine, Working, Draining, ConnectLabels, SendLabels, EvtLabels
<1>3. WorkAt(after[WorkQ])
  BY <1>2, ThreeThreads, Still, WorkMoves DEF DisconnectHandled, Goto
<1> QED
  BY <1>1, <1>3 DEF Draining

\* ... and of the poll thread, whose events interrupt its loop.
LEMMA PollGoto ==
  ASSUME Control, Places,
         NEW l \in LoopLabels \cup PollEvtLabels \cup SendLabels \cup EvtLabels,
         l \in EvtLabels => pc[Poll] \in EvtLabels,
         Goto(Poll, l), UNCHANGED after,
         UNCHANGED ret \/ \E b : ret' = [ret EXCEPT ![Poll] = b]
  PROVE  PollAt(l)
<1>1. PollFine(l, after[Poll])
  BY DEF Places, PollFine
<1> QED
  BY <1>1, ThreeThreads, Still, PollMoves DEF Goto

\* A publication returns to the callback that made it.
LEMMA PollReturn ==
  ASSUME Control, Places, pc[Poll] \in SendLabels, Return(Poll)
  PROVE  \E b \in Back(Poll) : PollAt(b)
<1>1. ret[Poll] \in Back(Poll)
  BY ThreeThreads DEF Control, Good, SendLabels, ApiLabels
<1>2. PollFine(ret[Poll], after[Poll])
  BY <1>1, ThreeThreads DEF PollFine, PollEvtLabels, EvtLabels
<1>3. PollAt(ret[Poll])
  BY <1>2, ThreeThreads, Still, PollMoves DEF Return, Goto
<1> QED
  BY <1>1, <1>3

\* An event comes from the loop or from a write in a callback.
LEMMA PollRaise ==
  ASSUME Control, Places,
         \/ \E l \in {"sem_take", "mqtt_abort"} : Raise(Poll, l)
         \/ pc[Poll] \in SendLabels /\ RaiseReturn(Poll)
  PROVE  PollAt("evt_disconnect")
<1>1. CASE \E l \in {"sem_take", "mqtt_abort"} : Raise(Poll, l)
  <2>1. PICK l \in {"sem_take", "mqtt_abort"} : Raise(Poll, l)
    BY <1>1
  <2>2. PollFine("evt_disconnect", l)
    BY DEF PollFine, EvtLabels
  <2> QED
    BY <2>1, <2>2, ThreeThreads, Still, PollMoves DEF Raise, Goto
<1>2. CASE pc[Poll] \in SendLabels /\ RaiseReturn(Poll)
  <2>1. ret[Poll] \in Back(Poll)
    BY <1>2, ThreeThreads DEF Control, Good, SendLabels, ApiLabels
  <2>2. PollFine("evt_disconnect", ret[Poll])
    BY <2>1, ThreeThreads DEF PollFine, EvtLabels
  <2> QED
    BY <1>2, <2>2, PollMoves DEF RaiseReturn, Goto
<1> QED
  BY <1>1, <1>2

\* After the DISCONNECT event the loop goes on, or the callback that wrote.
LEMMA PollHandled ==
  ASSUME Control, Places, pc[Poll] \in EvtLabels, DisconnectHandled(Poll)
  PROVE  \E b \in Back(Poll) \cup {"sem_take", "mqtt_abort"} : PollAt(b)
<1>1. after[Poll] \in Back(Poll) \cup {"sem_take", "mqtt_abort"}
  BY ThreeThreads DEF Places, PollFine, Control, Good, After, InCall
<1>2. PollFine(after[Poll], None)
  BY <1>1, ThreeThreads DEF PollFine, PollEvtLabels, EvtLabels, LoopLabels
<1>3. PollAt(after[Poll])
  BY <1>2, ThreeThreads, Still, PollMoves DEF DisconnectHandled, Goto
<1> QED
  BY <1>1, <1>3

\* After a CONNACK or PUBLISH the loop goes on where it was interrupted.
LEMMA PollEventHandled ==
  ASSUME Control, Places, pc[Poll] \in PollEvtLabels, EventHandled
  PROVE  PollAt(resume) /\ resume \in Resumes
<1>1. resume \in Resumes
  BY ThreeThreads DEF Control, Good
<1>2. resume \in LoopLabels /\ resume \notin EvtLabels
  BY <1>1 DEF Resumes, LoopLabels, EvtLabels
<1> QED
  BY <1>1, <1>2, PollGoto DEF EventHandled

-----------------------------------------------------------------------------
(* The joint invariant *)

\* The task outside of its call, or in its check of the state.
Listening == {"sub_wait", "modem_info", "run", "disconnect"}

\* In which states of the helper the task can be where ...
TaskInState ==
    /\ mqtt_state = "UNINIT" <=> pc[Task] = "init"
    /\ mqtt_state \in {"TRANSPORT_CONNECTING", "TRANSPORT_CONNECTED", "CONNECTING"} =>
           pc[Task] \in Listening
    /\ mqtt_state = "CONNECTED" => pc[Task] \in Listening \cup {"set_disconnecting"}
    /\ mqtt_state = "DISCONNECTING" =>
           pc[Task] \in {"mqtt_disconnect", "disconnect_write", "disconnect_failed",
                         "evt_disconnect"}
    /\ mqtt_state = "DISCONNECTED" => pc[Task] \notin {"disconnect_write", "evt_disconnect"}
    /\ pc[WorkQ] \in EvtLabels =>
           pc[Task] \in Listening \cup {"set_disconnecting", "mqtt_disconnect"}

\* ... and the work queue's thread.
WorkInState ==
    /\ mqtt_state = "UNINIT" => pc[WorkQ] = "work_wait"
    /\ mqtt_state = "DISCONNECTED" =>
           pc[WorkQ] \in Working \cup {"connect", "getaddrinfo", "send", "on_disconnect",
                                       "disconnected_entry"}
    /\ mqtt_state = "TRANSPORT_CONNECTING" => pc[WorkQ] \in {"mqtt_connect", "handshake"}
    /\ mqtt_state = "TRANSPORT_CONNECTED" => pc[WorkQ] = "connecting"
    /\ mqtt_state = "CONNECTING" => pc[WorkQ] \in Working \cup {"connect", "send"}
    /\ mqtt_state \in {"CONNECTED", "DISCONNECTING"} =>
           pc[WorkQ] \in Working \cup {"connect", "send", "mqtt_send", "write",
                                       "evt_disconnect"}

\* The library is connected as far as the state says, or the event that will
\* correct the state is on its way.
LibInState ==
    /\ mqtt_state \in {"UNINIT", "DISCONNECTED", "TRANSPORT_CONNECTING"} => client = "idle"
    /\ mqtt_state = "TRANSPORT_CONNECTED" => client = "tcp"
    /\ mqtt_state = "CONNECTING" =>
           \/ client = "tcp" /\ pc[Poll] \in LoopLabels
           \/ client = "session" /\ pc[Poll] = "evt_accepted"
           \/ client = "idle" /\ pc[Poll] = "evt_refused"
    /\ mqtt_state = "CONNECTED" =>
           \/ client = "session"
           \/ client = "idle" /\ "evt_disconnect" \in {pc[WorkQ], pc[Poll]}
    /\ mqtt_state = "DISCONNECTING" =>
           \/ client = "session" /\ pc[Task] \in {"mqtt_disconnect", "disconnect_write"}
           \/ client = "idle" /\ (\/ "evt_disconnect" \in {pc[Task], pc[WorkQ], pc[Poll]}
                                  \/ pc[Task] = "disconnect_failed")
    /\ pc[Task] = "disconnect_write" => client = "session"
    /\ "write" \in {pc[WorkQ], pc[Poll]} => client = "session"
    /\ pc[Task] \in {"disconnect_failed", "evt_disconnect"} => client = "idle"
    /\ pc[WorkQ] = "evt_disconnect" => client = "idle"

\* There is a socket as long as the library is not idle, and no other.
OneSocket == /\ open = IF client = "idle" THEN {} ELSE {sock}
             /\ client = "idle" => sock = None

\* The poll thread waits for a connection.
Parked == pc[Poll] = "sem_take" /\ connection_poll_sem = 0

\* In which states of the helper the poll thread can be where.
PollInState ==
    /\ pc[Poll] = "evt_accepted" =>
           mqtt_state = "CONNECTING" /\ client = "session" /\ resume = "input_done"
    /\ pc[Poll] = "evt_refused" =>
           mqtt_state = "CONNECTING" /\ client = "idle" /\ resume # "input_done"
    /\ pc[Poll] = "evt_disconnect" =>
           /\ client = "idle"
           /\ mqtt_state \in {"CONNECTED", "DISCONNECTING", "DISCONNECTED"}
    /\ pc[Poll] \in {"on_disconnect", "disconnected_entry"} => mqtt_state = "DISCONNECTED"
    /\ connection_poll_sem = 1 => mqtt_state = "CONNECTING" /\ pc[Poll] = "sem_take"
    /\ mqtt_state \in {"UNINIT", "TRANSPORT_CONNECTING", "TRANSPORT_CONNECTED"} => Parked

\* Between a CONNACK and connected_entry no other thread gets to the end of a
\* session: what they write takes longer.
Greeting ==
    pc[Poll] \in {"on_connack", "connected_entry"} =>
        /\ WorkQ \notin mature /\ pc[WorkQ] \notin EvtLabels
        /\ resume = "input_done" =>
               /\ client = "session"
               /\ pc[Task] \notin EvtLabels \cup {"disconnect_failed"}
               /\ pc[Task] = "disconnect_write" => Task \notin mature
        /\ resume # "input_done" => mqtt_state = "DISCONNECTED" /\ pc[Task] \in Listening

\* Who holds the library's mutex.
Holds ==
    /\ lock = Task  <=> pc[Task] = "disconnect_write"
    /\ lock = WorkQ <=> pc[WorkQ] \in {"handshake", "write"}
    /\ lock = Poll  <=> pc[Poll] = "write"

\* The I/O that has had its time; name resolution is over only after the other
\* threads have left the last session.
Matured ==
    /\ Task \in mature => pc[Task] \in {"modem_info", "disconnect_write"}
    /\ WorkQ \in mature => pc[WorkQ] \in IoLabels
    /\ WorkQ \in mature /\ pc[WorkQ] = "getaddrinfo" => Parked /\ pc[Task] \in Listening
    /\ Poll \in mature => pc[Poll] \in {"poll", "write"}

\* Nothing happens before the call of init.
Fresh ==
    /\ registered <=> mqtt_state # "UNINIT"
    /\ mqtt_state = "UNINIT" => workq = <<>> /\ ~armed

\* The inductive invariant, as long as no assertion fails.
Joint == /\ TaskInState /\ WorkInState /\ LibInState /\ OneSocket /\ PollInState
         /\ Greeting /\ Holds /\ Matured /\ Fresh

\* After that all threads stand still.
Sound == /\ ~asserted => Joint
         /\ asserted => pc[Task] = "mqtt_disconnect" /\ open \subseteq {sock}

-----------------------------------------------------------------------------
(* The work queue's thread connects *)

\* What the steps of a connection do.
LEMMA ConnectDoes ==
  ASSUME Control, Places, Connect(WorkQ)
  PROVE  /\ pc[WorkQ] = "connect"
         /\ \/ /\ mqtt_state = "DISCONNECTED" /\ WorkAt("getaddrinfo")
               /\ client' = "idle" /\ sock' = None /\ unread' = FALSE /\ lock' = None
            \/ /\ mqtt_state # "DISCONNECTED" /\ WorkAt("rearm")
               /\ UNCHANGED <<client, sock, unread, lock>>
         /\ UNCHANGED <<mqtt_state, asserted, registered, connection_poll_sem, open, dead,
                        fd, resume, mature, budget>>
  BY WorkGoto, WorkReturn
     DEF Connect, ConnectLabels, SendLabels, EvtLabels, Return, returns, machine, boundary

\* The name is resolved, or the connection is given up.
LEMMA GetAddrInfoDoes ==
  ASSUME Control, Places, Patient, GetAddrInfo(WorkQ)
  PROVE  /\ pc[WorkQ] = "getaddrinfo"
         /\ WorkQ \in mature /\ mature' = mature \ {WorkQ}
         /\ \/ mqtt_state_set("TRANSPORT_CONNECTING") /\ WorkAt("mqtt_connect")
            \/ mqtt_state_set("DISCONNECTED") /\ WorkAt("rearm")
         /\ UNCHANGED <<registered, connection_poll_sem, client, sock, unread, open, dead,
                        lock, fd, resume>>
  BY WorkGoto, WorkReturn
     DEF GetAddrInfo, Io, ConnectLabels, SendLabels, EvtLabels, Return, returns, boundary,
         lib

\* mqtt_connect takes the library's lock for the handshake.
LEMMA MqttConnectDoes ==
  ASSUME Control, Places, MqttConnect(WorkQ)
  PROVE  /\ pc[WorkQ] = "mqtt_connect" /\ lock = None /\ lock' = WorkQ
         /\ WorkAt("handshake")
         /\ UNCHANGED <<mqtt_state, asserted, registered, connection_poll_sem, client,
                        sock, unread, open, dead, fd, resume, mature, budget>>
  BY WorkGoto
     DEF MqttConnect, ConnectLabels, SendLabels, EvtLabels, returns, machine, boundary, lib

\* The handshake opens a socket of its own, or fails and leaves none.
LEMMA HandshakeDoes ==
  ASSUME Control, Places, Patient, Handshake(WorkQ)
  PROVE  /\ pc[WorkQ] = "handshake"
         /\ WorkQ \in mature /\ mature' = mature \ {WorkQ} /\ lock' = None
         /\ \/ /\ mqtt_state_set("TRANSPORT_CONNECTED") /\ WorkAt("connecting")
               /\ client' = "tcp" /\ sock' \notin open /\ open' = open \cup {sock'}
            \/ /\ mqtt_state_set("DISCONNECTED") /\ WorkAt("rearm")
               /\ UNCHANGED <<client, sock, open>>
         /\ UNCHANGED <<registered, connection_poll_sem, unread, dead, fd, resume>>
  BY WorkGoto, WorkReturn
     DEF Handshake, Io, ConnectLabels, SendLabels, EvtLabels, Return, returns, boundary, lib

\* The poll thread is told to wait for the CONNACK.
LEMMA ConnectingDoes ==
  ASSUME Control, Places, Connecting(WorkQ)
  PROVE  /\ pc[WorkQ] = "connecting" /\ WorkAt("rearm")
         /\ mqtt_state_set("CONNECTING") /\ connection_poll_sem' = 1
         /\ UNCHANGED <<registered, client, sock, unread, open, dead, lock, fd, resume,
                        mature, budget>>
  BY WorkReturn
     DEF Connecting, ConnectLabels, SendLabels, EvtLabels, Return, returns, boundary, lib

\* mqtt_state_set accepts the transitions that are made while Joint holds.
LEMMA LegalSet ==
  ASSUME NEW s, mqtt_state_set(s), ~asserted, mqtt_state \in MqttStates,
         \/ s = "DISCONNECTED"
         \/ s = "TRANSPORT_CONNECTING" /\ mqtt_state = "DISCONNECTED"
         \/ s = "TRANSPORT_CONNECTED" /\ mqtt_state = "TRANSPORT_CONNECTING"
         \/ s = "CONNECTING" /\ mqtt_state = "TRANSPORT_CONNECTED"
         \/ s = "CONNECTED" /\ mqtt_state = "CONNECTING"
         \/ s = "DISCONNECTING" /\ mqtt_state = "CONNECTED"
  PROVE  mqtt_state' = s /\ ~asserted'
  BY DEF mqtt_state_set, LegalNext, MqttStates

-----------------------------------------------------------------------------
(* The task *)

\* What the steps of its calls do ...
LEMMA InitDoes ==
  ASSUME Control, Places, Init_(Task)
  PROVE  /\ pc[Task] = "init" /\ TaskAt("sub_wait")
         /\ IF mqtt_state \in {"UNINIT", "DISCONNECTED"}
              THEN mqtt_state_set("DISCONNECTED") /\ registered' = TRUE
              ELSE UNCHANGED <<mqtt_state, asserted, registered>>
         /\ UNCHANGED <<connection_poll_sem, client, sock, unread, open, dead, lock, fd,
                        resume, mature, budget>>
  BY TaskReturn DEF Init_, ApiLabels, Return, lib, machine

\* Only a connected helper disconnects.
LEMMA DisconnectDoes ==
  ASSUME Control, Places, Disconnect(Task)
  PROVE  /\ pc[Task] = "disconnect"
         /\ \/ mqtt_state = "CONNECTED" /\ TaskAt("set_disconnecting")
            \/ mqtt_state # "CONNECTED" /\ TaskAt("sub_wait")
         /\ UNCHANGED <<mqtt_state, asserted, registered, connection_poll_sem, client,
                        sock, unread, open, dead, lock, fd, resume, mature, budget>>
  BY TaskGoto, TaskReturn
     DEF Disconnect, ApiLabels, TaskFine, DisconnectLabels, Return, returns, lib, machine,
         boundary

\* It says so in its state ...
LEMMA SetDisconnectingDoes ==
  ASSUME Control, Places, SetDisconnecting(Task)
  PROVE  /\ pc[Task] = "set_disconnecting" /\ TaskAt("mqtt_disconnect")
         /\ mqtt_state_set("DISCONNECTING")
         /\ UNCHANGED <<registered, connection_poll_sem, client, sock, unread, open, dead,
                        lock, fd, resume, mature, budget>>
  BY TaskGoto DEF SetDisconnecting, TaskFine, DisconnectLabels, returns, lib, boundary

\* ... asks the library, which refuses without a session ...
LEMMA MqttDisconnectDoes ==
  ASSUME Control, Places, MqttDisconnect(Task)
  PROVE  /\ pc[Task] = "mqtt_disconnect" /\ lock = None
         /\ \/ client = "session" /\ lock' = Task /\ TaskAt("disconnect_write")
            \/ client # "session" /\ lock' = None /\ TaskAt("disconnect_failed")
         /\ UNCHANGED <<mqtt_state, asserted, registered, connection_poll_sem, client,
                        sock, unread, open, dead, fd, resume, mature, budget>>
  BY TaskGoto
     DEF MqttDisconnect, TaskFine, DisconnectLabels, returns, lib, machine, boundary

\* ... and else writes the packet and closes the socket.
LEMMA DisconnectWriteDoes ==
  ASSUME Control, Places, Patient, DisconnectWrite(Task)
  PROVE  /\ pc[Task] = "disconnect_write" /\ TaskAt("evt_disconnect")
         /\ Task \in mature /\ mature' = mature \ {Task} /\ lock' = None
         /\ client' = "idle" /\ sock' = None /\ open' = open \ {sock} /\ unread' = FALSE
         /\ UNCHANGED <<mqtt_state, asserted, registered, connection_poll_sem, fd, resume,
                        budget>>
  BY TaskRaise
     DEF DisconnectWrite, Io, Close, Raise, RaiseReturn, machine, boundary

\* What the library refused is reported as a disconnection.
LEMMA DisconnectFailedDoes ==
  ASSUME Control, Places, DisconnectFailed(Task)
  PROVE  /\ pc[Task] = "disconnect_failed"
         /\ registered => TaskAt("on_disconnect")
         /\ ~registered => TaskAt("sub_wait")
         /\ mqtt_state_set("DISCONNECTED")
         /\ UNCHANGED <<registered, connection_poll_sem, client, sock, unread, open, dead,
                        lock, fd, resume, mature, budget>>
  BY TaskMoves, TaskReturn
     DEF DisconnectFailed, ApiLabels, TaskFine, EvtLabels, Goto, Return, lib, boundary

\* ... of the handling of DISCONNECT events in its thread ...
LEMMA TaskEvtDisconnectDoes ==
  ASSUME Control, Places, EvtDisconnect(Task)
  PROVE  /\ pc[Task] = "evt_disconnect"
         /\ \/ registered /\ TaskAt("on_disconnect")
            \/ ~registered /\ (TaskAt("sub_wait") \/ TaskAt("disconnect_failed"))
         /\ mqtt_state_set("DISCONNECTED")
         /\ UNCHANGED <<registered, connection_poll_sem, client, sock, unread, open, dead,
                        lock, fd, resume, mature, budget>>
  BY TaskGoto, TaskHandled
     DEF EvtDisconnect, TaskFine, EvtLabels, DisconnectHandled, returns, lib, boundary

\* The callback of the transport module changes its state ...
LEMMA TaskOnDisconnectDoes ==
  ASSUME Control, Places, OnDisconnect(Task)
  PROVE  /\ pc[Task] = "on_disconnect" /\ TaskAt("disconnected_entry")
         /\ smf' = "MQTT_DISCONNECTED"
         /\ UNCHANGED <<mqtt_state, asserted, registered, connection_poll_sem, client,
                        sock, unread, open, dead, lock, fd, resume, mature, budget,
                        status, workq, running, canceling, armed>>
  BY TaskGoto
     DEF OnDisconnect, TaskFine, EvtLabels, calm, returns, lib, machine, boundary, work

\* ... and the entry action of that state asks for a reconnection.
LEMMA TaskEntryDoes ==
  ASSUME Control, Places, DisconnectedEntry(Task)
  PROVE  /\ pc[Task] = "disconnected_entry"
         /\ TaskAt("sub_wait") \/ TaskAt("disconnect_failed")
         /\ \/ status /\ RescheduleNow
            \/ ~status /\ UNCHANGED <<workq, armed, mature>>
         /\ UNCHANGED <<mqtt_state, asserted, registered, connection_poll_sem, client,
                        sock, unread, open, dead, lock, fd, resume, budget,
                        smf, status, running, canceling>>
  BY TaskHandled
     DEF DisconnectedEntry, EvtLabels, calm, DisconnectHandled, lib, machine, boundary,
         smfVars

\* ... and of the module's own steps.
LEMMA TaskStepDoes ==
  ASSUME Control, Places, Patient, TaskStep
  PROVE  /\ \/ /\ pc[Task] = "sub_wait" /\ (TaskAt("sub_wait") \/ TaskAt("modem_info"))
               /\ UNCHANGED <<mature, status, workq, canceling, armed>>
            \/ /\ pc[Task] = "modem_info" /\ TaskAt("run")
               /\ Task \in mature /\ mature' = mature \ {Task}
               /\ UNCHANGED <<workq, canceling, armed>>
            \/ /\ pc[Task] = "run" /\ TaskAt("sub_wait") /\ UNCHANGED status
               /\ \/ smf = "MQTT_DISCONNECTED" /\ ~status /\ CancelAll
                  \/ /\ smf = "MQTT_DISCONNECTED" /\ status
                     /\ RescheduleLater /\ UNCHANGED canceling
                  \/ /\ smf = "MQTT_CONNECTED" /\ Submit("pub")
                     /\ UNCHANGED <<canceling, armed, mature>>
            \/ /\ pc[Task] = "run" /\ TaskAt("disconnect") /\ smf = "MQTT_CONNECTED"
               /\ UNCHANGED <<mature, status, workq, canceling, armed>>
         /\ UNCHANGED <<mqtt_state, asserted, registered, connection_poll_sem, client,
                        sock, unread, open, dead, lock, fd, resume, budget, smf, running>>
<1>1. CASE SubWait
  <2>1. TaskAt("sub_wait") \/ TaskAt("modem_info")
    <3>1. CASE UNCHANGED <<pc, returns>> /\ pc[Task] = "sub_wait"
      BY <3>1 DEF Places, TaskAt, returns
    <3>2. CASE Goto(Task, "modem_info") /\ UNCHANGED returns
      BY <3>2, TaskGoto DEF TaskFine, returns
    <3> QED
      BY <1>1, <3>1, <3>2 DEF SubWait
  <2> QED
    BY <1>1, <2>1 DEF SubWait, calm, returns, lib, machine, boundary, work
<1>2. CASE ModemInfo
  <2>1. TaskAt("run")
    BY <1>2, TaskGoto DEF ModemInfo, TaskFine, returns
  <2> QED
    BY <1>2, <2>1 DEF ModemInfo, Io, calm, returns, lib, machine, boundary, work
<1>3. CASE Run
  <2>1. CASE /\ \/ smf = "MQTT_DISCONNECTED" /\ ~status /\ CancelAll
                \/ /\ smf = "MQTT_DISCONNECTED" /\ status
                   /\ RescheduleLater /\ UNCHANGED canceling
                \/ /\ smf = "MQTT_CONNECTED" /\ Submit("pub")
                   /\ UNCHANGED <<canceling, armed, mature>>
             /\ Goto(Task, "sub_wait") /\ UNCHANGED returns
    <3>1. TaskAt("sub_wait")
      BY <2>1, TaskGoto DEF TaskFine, returns
    <3>2. /\ pc[Task] = "run"
          /\ UNCHANGED <<calm, returns, smfVars, running>>
      BY <1>3, <2>1 DEF Run
    <3> QED
      BY <2>1, <3>1, <3>2 DEF calm, returns, lib, machine, boundary, smfVars
  <2>2. CASE smf = "MQTT_CONNECTED" /\ ~status /\ Call(Task, "disconnect", "sub_wait")
             /\ UNCHANGED <<workq, canceling, armed, mature>>
    <3>1. TaskAt("disconnect")
      BY <2>2, TaskGoto DEF Call, TaskFine, DisconnectLabels
    <3> QED
      BY <1>3, <2>2, <3>1
         DEF Run, Call, calm, returns, lib, machine, boundary, smfVars
  <2> QED
    BY <1>3, <2>1, <2>2 DEF Run
<1> QED
  BY <1>1, <1>2, <1>3 DEF TaskStep
-----------------------------------------------------------------------------
(* The work queue's thread publishes *)

\* What the steps of a publication do ...
LEMMA WorkSendDoes ==
  ASSUME Control, Places, Patient,
         Send(WorkQ) \/ MqttSend(WorkQ) \/ Write(WorkQ)
  PROVE  /\ \/ /\ pc[WorkQ] = "send"
               /\ \/ mqtt_state = "CONNECTED" /\ WorkAt("mqtt_send")
                  \/ mqtt_state # "CONNECTED" /\ \E b \in Draining : WorkAt(b)
               /\ UNCHANGED <<client, sock, unread, open, dead, lock, mature>>
            \/ /\ pc[WorkQ] = "mqtt_send" /\ lock = None
               /\ \/ client = "session" /\ lock' = WorkQ /\ WorkAt("write")
                  \/ /\ client # "session" /\ lock' = None /\ \E b \in Draining : WorkAt(b)
               /\ UNCHANGED <<client, sock, unread, open, dead, mature>>
            \/ /\ pc[WorkQ] = "write" /\ lock' = None
               /\ WorkQ \in mature /\ mature' = mature \ {WorkQ}
               /\ \/ /\ sock \notin dead /\ \E b \in Draining : WorkAt(b)
                     /\ UNCHANGED <<client, sock, unread, open, dead>>
                  \/ /\ sock \in dead /\ WorkAt("evt_disconnect")
                     /\ client' = "idle" /\ sock' = None /\ open' = open \ {sock}
                     /\ unread' = FALSE
         /\ UNCHANGED <<mqtt_state, asserted, registered, connection_poll_sem, fd, resume,
                        budget>>
<1> USE DEF SendLabels, ConnectLabels, EvtLabels, Draining, returns, lib, machine, boundary
<1>1. CASE Send(WorkQ)
  BY <1>1, WorkGoto, WorkReturn DEF Send, Return
<1>2. CASE MqttSend(WorkQ)
  BY <1>2, WorkGoto, WorkReturn DEF MqttSend, Return
<1>3. CASE Write(WorkQ)
  <2>1. pc[WorkQ] = "write"
    BY <1>3 DEF Write
  <2>2. CASE sock \notin dead /\ Return(WorkQ) /\ UNCHANGED lib
    BY <1>3, <2>1, <2>2, WorkReturn DEF Write, Io, Return
  <2>3. CASE sock \in dead /\ Close /\ RaiseReturn(WorkQ)
    BY <1>3, <2>1, <2>3, WorkRaise DEF Write, Io, RaiseReturn, Close
  <2> QED
    BY <1>3, <2>2, <2>3 DEF Write
<1> QED
  BY <1>1, <1>2, <1>3

\* ... of the DISCONNECT event that may end it ...
LEMMA WorkEvtDisconnectDoes ==
  ASSUME Control, Places, EvtDisconnect(WorkQ)
  PROVE  /\ pc[WorkQ] = "evt_disconnect"
         /\ registered => WorkAt("on_disconnect")
         /\ mqtt_state_set("DISCONNECTED")
         /\ UNCHANGED <<registered, connection_poll_sem, client, sock, unread, open, dead,
                        lock, fd, resume, mature, budget>>
  BY WorkGoto
     DEF EvtDisconnect, EvtLabels, ConnectLabels, SendLabels, DisconnectHandled, returns,
         lib, boundary

\* The callback changes the module's state ...
LEMMA WorkOnDisconnectDoes ==
  ASSUME Control, Places, OnDisconnect(WorkQ)
  PROVE  /\ pc[WorkQ] = "on_disconnect" /\ WorkAt("disconnected_entry")
         /\ smf' = "MQTT_DISCONNECTED"
         /\ UNCHANGED <<mqtt_state, asserted, registered, connection_poll_sem, client,
                        sock, unread, open, dead, lock, fd, resume, mature, budget,
                        status, workq, running, canceling, armed>>
  BY WorkGoto
     DEF OnDisconnect, EvtLabels, ConnectLabels, SendLabels, calm, returns, lib, machine,
         boundary, work

\* ... and its entry action asks for a reconnection.
LEMMA WorkEntryDoes ==
  ASSUME Control, Places, DisconnectedEntry(WorkQ)
  PROVE  /\ pc[WorkQ] = "disconnected_entry" /\ \E b \in Draining : WorkAt(b)
         /\ \/ status /\ RescheduleNow
            \/ ~status /\ UNCHANGED <<workq, armed, mature>>
         /\ UNCHANGED <<mqtt_state, asserted, registered, connection_poll_sem, client,
                        sock, unread, open, dead, lock, fd, resume, budget,
                        smf, status, running, canceling>>
  BY WorkHandled
     DEF DisconnectedEntry, EvtLabels, Draining, calm, DisconnectHandled, lib, machine,
         boundary, smfVars

\* ... and of the works around it.
LEMMA WorkStepDoes ==
  ASSUME Control, Places, WorkStep
  PROVE  /\ \/ /\ pc[WorkQ] = "work_wait" /\ workq # <<>>
               /\ workq' = Tail(workq) /\ running' = Head(workq)
               /\ \/ Head(workq) = "connect" /\ WorkAt("connect")
                  \/ Head(workq) = "pub" /\ WorkAt("drain_gps")
               /\ UNCHANGED <<canceling, armed, mature>>
            \/ /\ pc[WorkQ] = "rearm" /\ WorkAt("work_wait") /\ RescheduleLater
               /\ running' = None /\ canceling' = canceling \ {running}
            \/ /\ pc[WorkQ] \in Draining
               /\ WorkAt("drain_sensor") \/ WorkAt("send")
               /\ UNCHANGED <<workq, running, canceling, armed, mature>>
            \/ /\ pc[WorkQ] \in Draining /\ WorkAt("work_wait")
               /\ running' = None /\ canceling' = canceling \ {running}
               /\ UNCHANGED <<workq, armed, mature>>
         /\ UNCHANGED <<mqtt_state, asserted, registered, connection_poll_sem, client,
                        sock, unread, open, dead, lock, fd, resume, budget, smf, status>>
<1> USE DEF calm, lib, machine, boundary, smfVars, work
<1>1. ASSUME NEW l \in Working, Goto(WorkQ, l), UNCHANGED returns PROVE WorkAt(l)
  BY <1>1, WorkGoto DEF Working, Draining, ConnectLabels, SendLabels, EvtLabels
<1>2. CASE WorkWait
  <2>1. CASE Head(workq) = "connect" /\ Call(WorkQ, "connect", "rearm")
    <3>1. WorkAt("connect")
      BY <2>1, WorkCall
    <3> QED
      BY <1>2, <2>1, <3>1 DEF WorkWait, Call
  <2>2. CASE Head(workq) = "pub" /\ Goto(WorkQ, "drain_gps") /\ UNCHANGED returns
    BY <1>1, <1>2, <2>2 DEF WorkWait, Working, Draining, returns
  <2> QED
    BY <1>2, <2>1, <2>2 DEF WorkWait
<1>3. CASE Rearm
  BY <1>1, <1>3 DEF Rearm, WorkDone, RescheduleLater, Working, returns
<1>4. CASE DrainGps
  BY <1>1, <1>4, WorkCall DEF DrainGps, Draining, Working, Call, returns
<1>5. CASE DrainSensor
  BY <1>1, <1>5, WorkCall DEF DrainSensor, WorkDone, Draining, Working, Call, returns
<1> QED
  BY <1>2, <1>3, <1>4, <1>5 DEF WorkStep
-----------------------------------------------------------------------------
(* The poll thread *)

\* What the steps of its calls do ...
LEMMA PollSendDoes ==
  ASSUME Control, Places, Patient,
         Send(Poll) \/ MqttSend(Poll) \/ Write(Poll)
  PROVE  /\ \/ /\ pc[Poll] = "send"
               /\ \/ mqtt_state = "CONNECTED" /\ PollAt("mqtt_send")
                  \/ mqtt_state # "CONNECTED" /\ \E b \in Back(Poll) : PollAt(b)
               /\ UNCHANGED <<client, sock, unread, open, dead, lock, mature>>
            \/ /\ pc[Poll] = "mqtt_send" /\ lock = None
               /\ \/ client = "session" /\ lock' = Poll /\ PollAt("write")
                  \/ /\ client # "session" /\ lock' = None
                     /\ \E b \in Back(Poll) : PollAt(b)
               /\ UNCHANGED <<client, sock, unread, open, dead, mature>>
            \/ /\ pc[Poll] = "write" /\ lock' = None
               /\ Poll \in mature /\ mature' = mature \ {Poll}
               /\ \/ /\ sock \notin dead /\ \E b \in Back(Poll) : PollAt(b)
                     /\ UNCHANGED <<client, sock, unread, open, dead>>
                  \/ sock \in dead /\ Close /\ PollAt("evt_disconnect")
         /\ UNCHANGED <<mqtt_state, asserted, registered, connection_poll_sem, fd, resume,
                        budget>>
<1> USE DEF returns, lib, machine, boundary
<1>1. ASSUME NEW l \in SendLabels, Goto(Poll, l), UNCHANGED returns PROVE PollAt(l)
  BY <1>1, PollGoto DEF SendLabels, EvtLabels
<1>2. CASE Send(Poll)
  BY <1>1, <1>2, PollReturn DEF Send, Return, SendLabels
<1>3. CASE MqttSend(Poll)
  BY <1>1, <1>3, PollReturn DEF MqttSend, Return, SendLabels
<1>4. CASE Write(Poll)
  <2>1. pc[Poll] \in SendLabels
    BY <1>4 DEF Write, SendLabels
  <2>2. CASE sock \notin dead /\ Return(Poll) /\ UNCHANGED lib
    BY <1>4, <2>1, <2>2, PollReturn DEF Write, Io, Return
  <2>3. CASE sock \in dead /\ Close /\ RaiseReturn(Poll)
    BY <1>4, <2>1, <2>3, PollRaise DEF Write, Io, RaiseReturn
  <2> QED
    BY <1>4, <2>2, <2>3 DEF Write
<1> QED
  BY <1>2, <1>3, <1>4

\* ... of the events ...
LEMMA PollEvtDisconnectDoes ==
  ASSUME Control, Places, EvtDisconnect(Poll)
  PROVE  /\ pc[Poll] = "evt_disconnect"
         /\ registered => PollAt("on_disconnect")
         /\ mqtt_state_set("DISCONNECTED")
         /\ UNCHANGED <<registered, connection_poll_sem, client, sock, unread, open, dead,
                        lock, fd, resume, mature, budget>>
  BY PollGoto
     DEF EvtDisconnect, EvtLabels, DisconnectHandled, returns, lib, boundary

\* A CONNACK that accepts makes the session, one that refuses ends the attempt.
LEMMA EvtConnackDoes ==
  ASSUME Control, Places, EvtConnack
  PROVE  /\ \/ pc[Poll] = "evt_accepted" /\ mqtt_state_set("CONNECTED")
            \/ pc[Poll] = "evt_refused" /\ mqtt_state_set("DISCONNECTED")
         /\ registered => PollAt("on_connack") /\ UNCHANGED resume
         /\ UNCHANGED <<registered, connection_poll_sem, client, sock, unread, open, dead,
                        lock, fd, mature, budget>>
  BY PollGoto
     DEF EvtConnack, EvtLabels, PollEvtLabels, returns, lib, boundary

\* The callback changes the module's state ...
LEMMA PollOnDisconnectDoes ==
  ASSUME Control, Places, OnDisconnect(Poll)
  PROVE  /\ pc[Poll] = "on_disconnect" /\ PollAt("disconnected_entry")
         /\ smf' = "MQTT_DISCONNECTED"
         /\ UNCHANGED <<mqtt_state, asserted, registered, connection_poll_sem, client,
                        sock, unread, open, dead, lock, fd, resume, mature, budget,
                        status, workq, running, canceling, armed>>
  BY PollGoto
     DEF OnDisconnect, EvtLabels, calm, returns, lib, machine, boundary, work

\* ... and its entry action asks for a reconnection.
LEMMA PollEntryDoes ==
  ASSUME Control, Places, DisconnectedEntry(Poll)
  PROVE  /\ pc[Poll] = "disconnected_entry"
         /\ \E b \in Back(Poll) \cup {"sem_take", "mqtt_abort"} : PollAt(b)
         /\ \/ status /\ RescheduleNow
            \/ ~status /\ UNCHANGED <<workq, armed, mature>>
         /\ UNCHANGED <<mqtt_state, asserted, registered, connection_poll_sem, client,
                        sock, unread, open, dead, lock, fd, resume, budget,
                        smf, status, running, canceling>>
  BY PollHandled
     DEF DisconnectedEntry, EvtLabels, calm, DisconnectHandled, lib, machine, boundary,
         smfVars

\* ... of the callbacks ...
LEMMA CallbackDoes ==
  ASSUME Control, Places, CallbackStep
  PROVE  /\ \/ /\ pc[Poll] = "on_connack" /\ PollAt("connected_entry")
               /\ smf' = "MQTT_CONNECTED"
               /\ UNCHANGED <<resume, workq, canceling, armed, mature>>
            \/ /\ pc[Poll] = "connected_entry" /\ PollAt("send") /\ CancelConnect
               /\ UNCHANGED <<resume, smf>>
            \/ /\ pc[Poll] = "subscribe" /\ PollAt("send")
               /\ UNCHANGED <<resume, smf, workq, canceling, armed, mature>>
            \/ /\ pc[Poll] \in {"submit_pub", "on_publish"}
               /\ PollAt(resume) /\ resume \in Resumes
               /\ Submit("pub") \/ UNCHANGED workq
               /\ UNCHANGED <<smf, canceling, armed, mature>>
         /\ UNCHANGED <<mqtt_state, asserted, registered, connection_poll_sem, client,
                        sock, unread, open, dead, lock, fd, budget, status, running>>
<1> USE DEF calm, lib, machine, boundary, smfVars, work
<1>1. CASE OnConnack
  BY <1>1, PollGoto DEF OnConnack, PollEvtLabels, EvtLabels, returns
<1>2. ASSUME NEW b, Call(Poll, "send", b) PROVE PollAt("send")
  BY <1>2, PollGoto DEF Call, SendLabels, EvtLabels
<1>3. CASE ConnectedEntry
  BY <1>2, <1>3 DEF ConnectedEntry, Call
<1>4. CASE Subscribe
  BY <1>2, <1>4 DEF Subscribe, Call, uplinkVars
<1>5. CASE SubmitPub
  BY <1>5, PollEventHandled DEF SubmitPub, PollEvtLabels
<1>6. CASE OnPublish
  BY <1>6, PollEventHandled DEF OnPublish, PollEvtLabels
<1> QED
  BY <1>1, <1>3, <1>4, <1>5, <1>6 DEF CallbackStep

\* ... of its loop ...
LEMMA LoopDoes ==
  ASSUME Control, Places, Patient,
         SemTake \/ Loop \/ PollClosed \/ PollOpen \/ InputDone
  PROVE  /\ \/ /\ pc[Poll] = "sem_take" /\ PollAt("loop") /\ connection_poll_sem = 1
               /\ connection_poll_sem' = 0 /\ fd' = sock /\ UNCHANGED <<mature, budget>>
            \/ /\ pc[Poll] = "loop" /\ PollAt("poll")
               /\ UNCHANGED <<connection_poll_sem, fd, mature, budget>>
            \/ /\ pc[Poll] = "loop" /\ PollAt("sem_take")
               /\ mqtt_state \notin {"CONNECTING", "CONNECTED"}
               /\ UNCHANGED <<connection_poll_sem, mature, budget>>
            \/ /\ pc[Poll] = "poll" /\ PollAt("mqtt_abort") /\ fd \notin open
               /\ mature' = mature \ {Poll} /\ UNCHANGED <<connection_poll_sem, fd, budget>>
            \/ /\ pc[Poll] = "poll" /\ mature' = mature \ {Poll}
               /\ \/ PollAt("mqtt_input") /\ UNCHANGED <<fd, budget>>
                  \/ fd \in dead /\ PollAt("mqtt_abort") /\ UNCHANGED <<fd, budget>>
                  \/ client # "tcp" /\ PollAt("mqtt_live") /\ UNCHANGED <<fd, budget>>
                  \/ Spend("mute") /\ PollAt("mqtt_live") /\ UNCHANGED fd
                  \/ Spend("pollerr") /\ PollAt("sem_take")
               /\ UNCHANGED connection_poll_sem
            \/ /\ pc[Poll] = "input_done"
               /\ \/ PollAt("sem_take")
                  \/ mqtt_state \notin {"DISCONNECTED", "UNINIT"} /\ PollAt("loop")
                  \/ /\ mqtt_state \notin {"DISCONNECTED", "UNINIT"} /\ PollAt("mqtt_abort")
                     /\ fd \in dead \/ fd \notin open
               /\ UNCHANGED <<connection_poll_sem, mature, budget>>
         /\ UNCHANGED <<mqtt_state, asserted, registered, client, sock, unread, open, dead,
                        lock, resume>>
<1> USE DEF returns, lib, machine, boundary
<1>1. ASSUME NEW l \in LoopLabels, Goto(Poll, l), UNCHANGED returns PROVE PollAt(l)
  BY <1>1, PollGoto DEF LoopLabels, EvtLabels
<1>2. CASE SemTake
  BY <1>1, <1>2 DEF SemTake, LoopLabels
<1>3. CASE Loop
  BY <1>1, <1>3 DEF Loop, LoopLabels
<1>4. CASE PollClosed
  BY <1>1, <1>4 DEF PollClosed, LoopLabels
<1>5. CASE PollOpen
  BY <1>1, <1>5 DEF PollOpen, Io, LoopLabels
<1>6. CASE InputDone
  BY <1>1, <1>6 DEF InputDone, LoopLabels
<1> QED
  BY <1>2, <1>3, <1>4, <1>5, <1>6

\* ... and of the library in its thread, which may close the socket and tell it.
LEMMA TellDoes ==
  ASSUME Control, Places, NEW l \in {"sem_take", "mqtt_abort"}, CloseAndTell(l)
  PROVE  /\ Close
         /\ \/ client = "session" /\ PollAt("evt_disconnect") /\ UNCHANGED resume
            \/ client = "tcp" /\ PollAt("evt_refused") /\ resume' = l
<1>1. CASE client = "session" /\ Raise(Poll, l)
  BY <1>1, PollRaise DEF CloseAndTell, Raise
<1>2. CASE client = "tcp" /\ Goto(Poll, "evt_refused") /\ resume' = l /\ UNCHANGED <<ret, after>>
  BY <1>2, PollGoto DEF CloseAndTell, PollEvtLabels, EvtLabels
<1> QED
  BY <1>1, <1>2 DEF CloseAndTell

\* What is read makes a session, ends one, or is a message of it.
LEMMA MqttInputDoes ==
  ASSUME Control, Places, MqttInput
  PROVE  /\ pc[Poll] = "mqtt_input" /\ lock = None
         /\ \/ /\ client = "tcp" /\ client' = "session" /\ ~unread /\ sock \notin dead
               /\ PollAt("evt_accepted") /\ resume' = "input_done"
               /\ UNCHANGED <<sock, unread, open, dead, budget>>
            \/ /\ client = "tcp" /\ Close /\ PollAt("evt_refused") /\ resume' = "mqtt_abort"
               /\ \/ Spend("refuse")
                  \/ sock \in dead /\ UNCHANGED budget
            \/ /\ client = "session" /\ Close /\ PollAt("evt_disconnect")
               /\ UNCHANGED <<resume, budget>>
            \/ /\ client = "session" /\ (PollAt("on_publish") \/ PollAt("mqtt_send"))
               /\ resume' = "input_done"
               /\ UNCHANGED <<client, sock, unread, open, dead, budget>>
            \/ /\ client = "session" /\ PollAt("input_done")
               /\ Spend("oversize") \/ UNCHANGED budget
               /\ UNCHANGED <<client, sock, open, dead, resume>>
            \/ /\ client = "idle" \/ unread
               /\ PollAt("mqtt_abort")
               /\ UNCHANGED <<client, sock, unread, open, dead, resume, budget>>
         /\ UNCHANGED <<mqtt_state, asserted, registered, connection_poll_sem, lock, fd,
                        mature>>
<1> USE DEF returns, lib, machine, boundary
<1>1. /\ pc[Poll] = "mqtt_input" /\ lock = None
      /\ UNCHANGED <<mqtt_state, asserted, registered, connection_poll_sem, lock, fd,
                     mature>>
  BY DEF MqttInput
<1>2. ASSUME NEW l \in {"evt_accepted", "on_publish", "mqtt_send", "input_done", "mqtt_abort"},
             Goto(Poll, l), UNCHANGED after,
             UNCHANGED ret \/ \E b : ret' = [ret EXCEPT ![Poll] = b]
      PROVE  PollAt(l)
  BY <1>2, PollGoto DEF LoopLabels, PollEvtLabels, SendLabels, EvtLabels
<1>3. CASE ~unread /\ sock \notin dead /\ Received
  <2>1. CASE /\ client = "tcp" /\ client' = "session" /\ Goto(Poll, "evt_accepted")
             /\ resume' = "input_done"
             /\ UNCHANGED <<sock, unread, open, dead, ret, after, budget>>
    BY <1>1, <1>2, <1>3, <2>1
  <2>2. CASE client = "tcp" /\ Spend("refuse") /\ CloseAndTell("mqtt_abort")
    BY <1>1, <2>2, TellDoes
  <2>3. CASE /\ client = "session" /\ resume' = "input_done"
             /\ \/ Goto(Poll, "on_publish") /\ UNCHANGED ret
                \/ Goto(Poll, "mqtt_send") /\ ret' = [ret EXCEPT ![Poll] = "on_publish"]
             /\ UNCHANGED <<lib, after, budget>>
    BY <1>1, <1>2, <2>3
  <2>4. CASE /\ client = "session" /\ Goto(Poll, "input_done")
             /\ Spend("oversize") \/ UNCHANGED budget
             /\ UNCHANGED <<client, sock, open, dead, returns>>
    BY <1>1, <1>2, <2>4
  <2> QED
    BY <1>3, <2>1, <2>2, <2>3, <2>4 DEF Received
<1>4. CASE sock \in dead /\ CloseAndTell("mqtt_abort") /\ UNCHANGED budget
  BY <1>1, <1>4, TellDoes
<1>5. CASE /\ client = "idle" \/ unread
           /\ Goto(Poll, "mqtt_abort") /\ UNCHANGED <<lib, returns, budget>>
  BY <1>1, <1>2, <1>5
<1> QED
  BY <1>3, <1>4, <1>5 DEF MqttInput

\* A ping keeps the session, an abort or a failed ping ends it.
LEMMA LiveAbortDoes ==
  ASSUME Control, Places, MqttLive \/ MqttAbort
  PROVE  /\ pc[Poll] \in {"mqtt_live", "mqtt_abort"} /\ lock = None
         /\ \/ /\ pc[Poll] = "mqtt_live" /\ client = "session" /\ PollAt("loop")
               /\ UNCHANGED <<client, sock, unread, open, dead, resume>>
            \/ /\ client = "session" /\ Close /\ PollAt("evt_disconnect")
               /\ UNCHANGED resume
            \/ /\ pc[Poll] = "mqtt_abort" /\ client = "tcp" /\ Close
               /\ PollAt("evt_refused") /\ resume' = "sem_take"
            \/ /\ \/ client = "idle"
                  \/ pc[Poll] = "mqtt_live" /\ client # "session"
               /\ PollAt("sem_take")
               /\ UNCHANGED <<client, sock, unread, open, dead, resume>>
         /\ UNCHANGED <<mqtt_state, asserted, registered, connection_poll_sem, lock, mature,
                        budget>>
<1> USE DEF returns, lib, machine, boundary
<1>1. ASSUME NEW l \in {"loop", "sem_take"}, Goto(Poll, l), UNCHANGED returns PROVE PollAt(l)
  BY <1>1, PollGoto DEF LoopLabels, EvtLabels
<1>2. CASE MqttLive
  <2>1. CASE client = "session" /\ Close /\ Raise(Poll, "sem_take")
    BY <1>2, <2>1, PollRaise DEF MqttLive, Raise
  <2>2. CASE Goto(Poll, "loop") /\ client = "session" /\ UNCHANGED <<lib, returns>>
    BY <1>1, <1>2, <2>2 DEF MqttLive
  <2>3. CASE client # "session" /\ Goto(Poll, "sem_take") /\ UNCHANGED <<lib, returns>>
    BY <1>1, <1>2, <2>3 DEF MqttLive
  <2> QED
    BY <1>2, <2>1, <2>2, <2>3 DEF MqttLive
<1>3. CASE MqttAbort
  <2>1. CASE CloseAndTell("sem_take")
    BY <1>3, <2>1, TellDoes DEF MqttAbort
  <2>2. CASE client = "idle" /\ Goto(Poll, "sem_take") /\ UNCHANGED <<lib, returns>>
    BY <1>1, <1>3, <2>2 DEF MqttAbort
  <2> QED
    BY <1>3, <2>1, <2>2 DEF MqttAbort
<1> QED
  BY <1>2, <1>3
-----------------------------------------------------------------------------
(* Who can run *)

\* The steps of calls that each thread can take where it is.
LEMMA TaskApi ==
  ASSUME Places, ApiStep(Task)
  PROVE  \/ Init_(Task) \/ Disconnect(Task) \/ SetDisconnecting(Task)
         \/ MqttDisconnect(Task) \/ DisconnectWrite(Task) \/ DisconnectFailed(Task)
         \/ EvtDisconnect(Task)
  BY DEF ApiStep, Places, TaskFine, DisconnectLabels, EvtLabels, Deinit, Connect,
     GetAddrInfo, MqttConnect, Handshake, Connecting, Send, MqttSend, Write

\* The work queue's thread connects and publishes.
LEMMA WorkApi ==
  ASSUME Places, ApiStep(WorkQ)
  PROVE  \/ Connect(WorkQ) \/ GetAddrInfo(WorkQ) \/ MqttConnect(WorkQ)
         \/ Handshake(WorkQ) \/ Connecting(WorkQ)
         \/ Send(WorkQ) \/ MqttSend(WorkQ) \/ Write(WorkQ)
         \/ EvtDisconnect(WorkQ)
  BY DEF ApiStep, Places, WorkFine, Working, Draining, ConnectLabels, SendLabels,
     EvtLabels, Init_, Deinit, Disconnect, SetDisconnecting, MqttDisconnect,
     DisconnectWrite, DisconnectFailed

\* The poll thread publishes.
LEMMA PollApi ==
  ASSUME Places, ApiStep(Poll)
  PROVE  Send(Poll) \/ MqttSend(Poll) \/ Write(Poll) \/ EvtDisconnect(Poll)
  BY DEF ApiStep, Places, PollFine, LoopLabels, PollEvtLabels, SendLabels, EvtLabels,
     Init_, Deinit, Connect, GetAddrInfo, MqttConnect, Handshake, Connecting, Disconnect,
     SetDisconnecting, MqttDisconnect, DisconnectWrite, DisconnectFailed

\* The work queue's thread waits for work, I/O or the mutex ...
WorkWaits == \/ pc[WorkQ] = "work_wait" /\ workq = <<>>
             \/ pc[WorkQ] \in {"getaddrinfo", "handshake", "write"}
             \/ pc[WorkQ] \in {"mqtt_connect", "mqtt_send"} /\ lock # None

\* ... and the task for a notification, the modem, I/O or the mutex.
TaskWaits == \/ pc[Task] \in {"sub_wait", "modem_info", "disconnect_write"}
             \/ pc[Task] = "mqtt_disconnect" /\ lock # None

\* A thread runs only while those that outrank it wait.
LEMMA OthersWait ==
  ASSUME Places, UplinkData
  PROVE  /\ CanRun(Task) => WorkWaits
         /\ CanRun(Poll) => WorkWaits /\ TaskWaits
         /\ (\A t \in Threads : ~Ready(t)) => WorkWaits /\ TaskWaits
<1>1. ~Ready(WorkQ) => WorkWaits
  BY DEF Ready, HelperReady, WorkWaits, RunLabels, LockLabels, Callbacks, UplinkLabels,
     Places, WorkFine, Working, Draining, ConnectLabels, SendLabels, EvtLabels
<1>2. ~Ready(Task) => TaskWaits
  BY DEF Ready, HelperReady, TaskWaits, RunLabels, LockLabels, Callbacks, UplinkLabels,
     Places, TaskFine, DisconnectLabels, EvtLabels
<1>3. Outranks(Task) = {WorkQ} /\ Outranks(Poll) = {Task, WorkQ}
  BY ThreeThreads, UplinkAssumption DEF Outranks
<1> QED
  BY <1>1, <1>2, <1>3, ThreeThreads DEF CanRun

-----------------------------------------------------------------------------
(* Joint: the work queue's thread *)

\* connect_work connects.
LEMMA WorkConnectKeeps ==
  ASSUME TInv, Places, Joint, ~asserted, Patient, UNCHANGED <<workq, armed>>,
         \/ Connect(WorkQ) \/ GetAddrInfo(WorkQ) \/ MqttConnect(WorkQ)
         \/ Handshake(WorkQ) \/ Connecting(WorkQ)
  PROVE  Joint' /\ ~asserted'
<1> USE ThreeThreads DEF Joint, WorkAt, TaskInState, Listening, WorkInState, Working,
        Draining, LibInState, LoopLabels, EvtLabels, OneSocket, Parked, PollInState,
        Greeting, Holds, Matured, IoLabels, Fresh, MqttStates
<1>1. /\ Control /\ mqtt_state \in MqttStates /\ connection_poll_sem \in {0, 1}
      /\ client \in {"idle", "tcp", "session"}
  BY DEF TInv, HelperData
<1>2. CASE Connect(WorkQ)
  <2>1. CASE mqtt_state = "DISCONNECTED"
    <3>1. client = "idle" /\ sock = None /\ lock = None
      BY <1>1, <1>2, <2>1, ConnectDoes DEF TInv, HelperData
    <3> QED
      BY <1>1, <1>2, <2>1, <3>1, ConnectDoes
  <2>2. CASE mqtt_state # "DISCONNECTED"
    <3>1. /\ pc[WorkQ] = "connect" /\ WorkAt("rearm")
          /\ UNCHANGED <<mqtt_state, asserted, registered, connection_poll_sem, client,
                         sock, unread, open, dead, lock, resume, mature>>
      BY <1>1, <1>2, <2>2, ConnectDoes
    <3> QED
      BY <1>1, <2>2, <3>1
  <2> QED
    BY <2>1, <2>2
<1>3. CASE GetAddrInfo(WorkQ)
  <2>1. mqtt_state = "DISCONNECTED" /\ Parked
    BY <1>1, <1>3, GetAddrInfoDoes
  <2> QED
    BY <1>1, <1>3, <2>1, GetAddrInfoDoes, LegalSet
<1>4. CASE MqttConnect(WorkQ)
  BY <1>1, <1>4, MqttConnectDoes
<1>5. CASE Handshake(WorkQ)
  <2>1. mqtt_state = "TRANSPORT_CONNECTING" /\ open = {}
    BY <1>1, <1>5, HandshakeDoes
  <2> QED
    BY <1>1, <1>5, <2>1, HandshakeDoes, LegalSet
<1>6. CASE Connecting(WorkQ)
  <2>1. mqtt_state = "TRANSPORT_CONNECTED"
    BY <1>1, <1>6, ConnectingDoes
  <2> QED
    BY <1>1, <1>6, <2>1, ConnectingDoes, LegalSet
<1> QED
  BY <1>2, <1>3, <1>4, <1>5, <1>6

\* mqtt_pub_work publishes.
LEMMA WorkSendKeeps ==
  ASSUME TInv, Places, Joint, ~asserted, Patient, UNCHANGED <<workq, armed>>,
         Send(WorkQ) \/ MqttSend(WorkQ) \/ Write(WorkQ)
  PROVE  Joint' /\ ~asserted'
<1>1. /\ Control /\ mqtt_state \in MqttStates /\ connection_poll_sem \in {0, 1}
      /\ client \in {"idle", "tcp", "session"} /\ lock \in Threads \cup {None}
  BY DEF TInv, HelperData
<1>2. UNCHANGED <<mqtt_state, asserted, registered, connection_poll_sem, resume>>
  BY <1>1, WorkSendDoes
<1> USE ThreeThreads DEF Joint, WorkAt, TaskInState, Listening, WorkInState, Working,
        Draining, LibInState, LoopLabels, EvtLabels, OneSocket, Parked, PollInState,
        Greeting, Holds, Matured, IoLabels, Fresh, MqttStates
<1>3. CASE /\ pc[WorkQ] \in {"send", "mqtt_send"}
           /\ (mqtt_state = "CONNECTED" /\ WorkAt("mqtt_send")) \/ \E b \in Draining : WorkAt(b)
           /\ UNCHANGED <<client, sock, open, lock, mature>>
  BY <1>1, <1>2, <1>3
<1>4. CASE /\ pc[WorkQ] = "mqtt_send" /\ lock = None
           /\ client = "session" /\ lock' = WorkQ /\ WorkAt("write")
           /\ UNCHANGED <<client, sock, open, mature>>
  BY <1>1, <1>2, <1>4
<1>5. CASE /\ pc[WorkQ] = "write" /\ lock' = None /\ mature' = mature \ {WorkQ}
           /\ WorkQ \in mature /\ \E b \in Draining : WorkAt(b)
           /\ UNCHANGED <<client, sock, open>>
  BY <1>1, <1>2, <1>5
<1>6. CASE /\ pc[WorkQ] = "write" /\ lock' = None /\ mature' = mature \ {WorkQ}
           /\ WorkQ \in mature /\ WorkAt("evt_disconnect")
           /\ client' = "idle" /\ sock' = None /\ open' = open \ {sock}
  BY <1>1, <1>2, <1>6
<1> QED
  BY <1>1, <1>3, <1>4, <1>5, <1>6, WorkSendDoes

\* It handles the DISCONNECT event of a write that failed.
LEMMA WorkEventKeeps ==
  ASSUME TInv, Places, Joint, ~asserted,
         \/ EvtDisconnect(WorkQ) /\ UNCHANGED <<workq, armed>>
         \/ OnDisconnect(WorkQ)
         \/ DisconnectedEntry(WorkQ)
  PROVE  Joint' /\ ~asserted'
<1>1. /\ Control /\ mqtt_state \in MqttStates /\ connection_poll_sem \in {0, 1}
      /\ client \in {"idle", "tcp", "session"} /\ lock \in Threads \cup {None}
  BY DEF TInv, HelperData
<1>2. Task # Timer /\ WorkQ # Timer /\ Poll # Timer
  BY ThreeThreads, UplinkAssumption
<1> USE ThreeThreads DEF Joint, WorkAt, TaskInState, Listening, WorkInState, Working,
        Draining, LibInState, LoopLabels, EvtLabels, OneSocket, Parked, PollInState,
        Greeting, Holds, Matured, IoLabels, Fresh, MqttStates
<1>3. CASE EvtDisconnect(WorkQ) /\ UNCHANGED <<workq, armed>>
  <2>1. /\ pc[WorkQ] = "evt_disconnect" /\ mqtt_state \in {"CONNECTED", "DISCONNECTING"}
        /\ registered
    BY <1>1, <1>3, WorkEvtDisconnectDoes
  <2>2. /\ WorkAt("on_disconnect") /\ mqtt_state' = "DISCONNECTED" /\ ~asserted'
        /\ UNCHANGED <<registered, connection_poll_sem, client, sock, open, lock, resume,
                       mature, workq, armed>>
    BY <1>1, <1>3, <2>1, WorkEvtDisconnectDoes, LegalSet
  <2> QED
    BY <1>1, <2>1, <2>2
<1>4. CASE OnDisconnect(WorkQ)
  <2>1. /\ pc[WorkQ] = "on_disconnect" /\ WorkAt("disconnected_entry")
        /\ UNCHANGED <<mqtt_state, asserted, registered, connection_poll_sem, client, sock,
                       open, lock, resume, mature, workq, armed>>
    BY <1>1, <1>4, WorkOnDisconnectDoes
  <2> QED
    BY <1>1, <2>1
<1>5. CASE DisconnectedEntry(WorkQ)
  <2>1. /\ pc[WorkQ] = "disconnected_entry" /\ \E b \in Draining : WorkAt(b)
        /\ mature' = mature \/ mature' = mature \ {Timer}
        /\ UNCHANGED <<mqtt_state, asserted, registered, connection_poll_sem, client, sock,
                       open, lock, resume>>
    BY <1>1, <1>5, WorkEntryDoes DEF RescheduleNow
  <2> QED
    BY <1>1, <1>2, <2>1
<1> QED
  BY <1>3, <1>4, <1>5

\* It goes from work to work.
LEMMA WorkStepKeeps ==
  ASSUME TInv, Places, Joint, ~asserted, WorkStep
  PROVE  Joint' /\ ~asserted'
<1>1. /\ Control /\ mqtt_state \in MqttStates /\ connection_poll_sem \in {0, 1}
      /\ client \in {"idle", "tcp", "session"} /\ lock \in Threads \cup {None}
  BY DEF TInv, HelperData
<1>2. Task # Timer /\ WorkQ # Timer /\ Poll # Timer
  BY ThreeThreads, UplinkAssumption
<1>3. /\ \/ /\ pc[WorkQ] = "work_wait" /\ workq # <<>>
            /\ WorkAt("connect") \/ WorkAt("drain_gps")
         \/ /\ pc[WorkQ] \in {"rearm"} \cup Draining
            /\ \/ WorkAt("work_wait") \/ WorkAt("drain_sensor") \/ WorkAt("send")
      /\ mature' = mature \/ mature' = mature \ {Timer}
      /\ UNCHANGED <<mqtt_state, asserted, registered, connection_poll_sem, client, sock,
                     open, lock, resume>>
  BY <1>1, WorkStepDoes DEF RescheduleLater
<1> QED
  BY <1>1, <1>2, <1>3, ThreeThreads
     DEF Joint, WorkAt, TaskInState, Listening, WorkInState, Working,
         Draining, LibInState, LoopLabels, EvtLabels, OneSocket, Parked, PollInState,
         Greeting, Holds, Matured, IoLabels, Fresh, MqttStates
-----------------------------------------------------------------------------
(* Joint: the task *)

\* It disconnects. It has seen a session, but may be too late: only then the
\* state machine refuses the transition.
LEMMA TaskCallKeeps ==
  ASSUME TInv, Places, Joint, ~asserted, Patient, WorkWaits, UNCHANGED <<workq, armed>>,
         \/ Init_(Task) \/ Disconnect(Task) \/ SetDisconnecting(Task)
         \/ MqttDisconnect(Task) \/ DisconnectWrite(Task) \/ DisconnectFailed(Task)
  PROVE  Sound'
<1>1. /\ Control /\ mqtt_state \in MqttStates /\ connection_poll_sem \in {0, 1}
      /\ client \in {"idle", "tcp", "session"} /\ lock \in Threads \cup {None}
  BY DEF TInv, HelperData
<1> USE ThreeThreads DEF Joint, TaskAt, TaskInState, Listening, WorkInState, Working,
        Draining, LibInState, LoopLabels, EvtLabels, OneSocket, Parked, PollInState,
        Greeting, Holds, Matured, IoLabels, Fresh, MqttStates, WorkWaits
<1>2. CASE Init_(Task)
  <2>1. pc[Task] = "init" /\ mqtt_state = "UNINIT"
    BY <1>1, <1>2, InitDoes
  <2>2. /\ TaskAt("sub_wait") /\ mqtt_state' = "DISCONNECTED" /\ ~asserted' /\ registered'
        /\ UNCHANGED <<connection_poll_sem, client, sock, open, lock, resume, mature>>
    BY <1>1, <1>2, <2>1, InitDoes, LegalSet
  <2> QED
    BY <1>1, <2>1, <2>2 DEF Sound
<1>3. CASE Disconnect(Task)
  <2>1. /\ pc[Task] = "disconnect"
        /\ (mqtt_state = "CONNECTED" /\ TaskAt("set_disconnecting")) \/ TaskAt("sub_wait")
        /\ UNCHANGED <<mqtt_state, asserted, registered, connection_poll_sem, client, sock,
                       open, lock, resume, mature>>
    BY <1>1, <1>3, DisconnectDoes
  <2> QED
    BY <1>1, <2>1 DEF Sound
<1>4. CASE SetDisconnecting(Task)
  <2>1. /\ pc[Task] = "set_disconnecting" /\ TaskAt("mqtt_disconnect")
        /\ mqtt_state_set("DISCONNECTING")
        /\ UNCHANGED <<registered, connection_poll_sem, client, sock, open, lock, resume,
                       mature>>
    BY <1>1, <1>4, SetDisconnectingDoes
  <2>2. CASE mqtt_state = "CONNECTED"
    <3>1. mqtt_state' = "DISCONNECTING" /\ ~asserted'
      BY <2>1, <2>2, LegalSet
    <3> QED
      BY <1>1, <2>1, <2>2, <3>1 DEF Sound
  <2>3. CASE mqtt_state # "CONNECTED"
    <3>1. mqtt_state = "DISCONNECTED"
      BY <1>1, <2>1, <2>3
    <3>2. asserted'
      BY <2>1, <3>1 DEF mqtt_state_set, LegalNext
    <3> QED
      BY <2>1, <3>2 DEF Sound
  <2> QED
    BY <2>2, <2>3
<1>5. CASE MqttDisconnect(Task)
  <2>1. /\ pc[Task] = "mqtt_disconnect" /\ lock = None
        /\ \/ client = "session" /\ lock' = Task /\ TaskAt("disconnect_write")
           \/ client # "session" /\ lock' = None /\ TaskAt("disconnect_failed")
        /\ UNCHANGED <<mqtt_state, asserted, registered, connection_poll_sem, client, sock,
                       open, resume, mature>>
    BY <1>1, <1>5, MqttDisconnectDoes
  <2> QED
    BY <1>1, <2>1 DEF Sound
<1>6. CASE DisconnectWrite(Task)
  <2>1. /\ pc[Task] = "disconnect_write" /\ TaskAt("evt_disconnect")
        /\ Task \in mature /\ mature' = mature \ {Task} /\ lock' = None
        /\ client' = "idle" /\ sock' = None /\ open' = open \ {sock}
        /\ UNCHANGED <<mqtt_state, asserted, registered, connection_poll_sem, resume>>
    BY <1>1, <1>6, DisconnectWriteDoes
  <2> QED
    BY <1>1, <2>1 DEF Sound
<1>7. CASE DisconnectFailed(Task)
  <2>1. pc[Task] = "disconnect_failed" /\ registered /\ client = "idle"
    BY <1>1, <1>7, DisconnectFailedDoes
  <2>2. /\ TaskAt("on_disconnect") /\ mqtt_state' = "DISCONNECTED" /\ ~asserted'
        /\ UNCHANGED <<registered, connection_poll_sem, client, sock, open, lock, resume,
                       mature>>
    BY <1>1, <1>7, <2>1, DisconnectFailedDoes, LegalSet
  <2> QED
    BY <1>1, <2>1, <2>2 DEF Sound
<1> QED
  BY <1>2, <1>3, <1>4, <1>5, <1>6, <1>7

\* It handles the end of the session that it asked for.
LEMMA TaskEventKeeps ==
  ASSUME TInv, Places, Joint, ~asserted, WorkWaits,
         \/ EvtDisconnect(Task) /\ UNCHANGED <<workq, armed>>
         \/ OnDisconnect(Task)
         \/ DisconnectedEntry(Task)
  PROVE  Joint' /\ ~asserted'
<1>1. /\ Control /\ mqtt_state \in MqttStates /\ connection_poll_sem \in {0, 1}
      /\ client \in {"idle", "tcp", "session"} /\ lock \in Threads \cup {None}
  BY DEF TInv, HelperData
<1>2. Task # Timer /\ WorkQ # Timer /\ Poll # Timer
  BY ThreeThreads, UplinkAssumption
<1> USE ThreeThreads DEF Joint, TaskAt, TaskInState, Listening, WorkInState, Working,
        Draining, LibInState, LoopLabels, EvtLabels, OneSocket, Parked, PollInState,
        Greeting, Holds, Matured, IoLabels, Fresh, MqttStates, WorkWaits
<1>3. CASE EvtDisconnect(Task) /\ UNCHANGED <<workq, armed>>
  <2>1. pc[Task] = "evt_disconnect" /\ mqtt_state = "DISCONNECTING" /\ registered
    BY <1>1, <1>3, TaskEvtDisconnectDoes
  <2>2. /\ TaskAt("on_disconnect") /\ mqtt_state' = "DISCONNECTED" /\ ~asserted'
        /\ UNCHANGED <<registered, connection_poll_sem, client, sock, open, lock, resume,
                       mature, workq, armed>>
    BY <1>1, <1>3, <2>1, TaskEvtDisconnectDoes, LegalSet
  <2> QED
    BY <1>1, <2>1, <2>2
<1>4. CASE OnDisconnect(Task)
  <2>1. /\ pc[Task] = "on_disconnect" /\ TaskAt("disconnected_entry")
        /\ UNCHANGED <<mqtt_state, asserted, registered, connection_poll_sem, client, sock,
                       open, lock, resume, mature, workq, armed>>
    BY <1>1, <1>4, TaskOnDisconnectDoes
  <2> QED
    BY <1>1, <2>1
<1>5. CASE DisconnectedEntry(Task)
  <2>1. /\ pc[Task] = "disconnected_entry"
        /\ TaskAt("sub_wait") \/ TaskAt("disconnect_failed")
        /\ mature' = mature \/ mature' = mature \ {Timer}
        /\ UNCHANGED <<mqtt_state, asserted, registered, connection_poll_sem, client, sock,
                       open, lock, resume>>
    BY <1>1, <1>5, TaskEntryDoes DEF RescheduleNow
  <2> QED
    BY <1>1, <1>2, <2>1
<1> QED
  BY <1>3, <1>4, <1>5

\* It follows the network.
LEMMA TaskStepKeeps ==
  ASSUME TInv, Places, Joint, ~asserted, Patient, WorkWaits, TaskStep
  PROVE  Joint' /\ ~asserted'
<1>1. /\ Control /\ mqtt_state \in MqttStates /\ connection_poll_sem \in {0, 1}
      /\ client \in {"idle", "tcp", "session"} /\ lock \in Threads \cup {None}
  BY DEF TInv, HelperData
<1>2. Task # Timer /\ WorkQ # Timer /\ Poll # Timer
  BY ThreeThreads, UplinkAssumption
<1>3. /\ pc[Task] \in {"sub_wait", "modem_info", "run"}
      /\ \/ TaskAt("sub_wait") /\ Task \notin mature'
         \/ TaskAt("modem_info") /\ Task \notin mature'
         \/ TaskAt("run") /\ Task \notin mature'
         \/ TaskAt("disconnect") /\ Task \notin mature'
      /\ mature' \subseteq mature
      /\ UNCHANGED <<mqtt_state, asserted, registered, connection_poll_sem, client, sock,
                     open, lock, resume>>
  <2>1. Task \in mature => pc[Task] \in {"modem_info", "disconnect_write"}
    BY DEF Joint, Matured
  <2> QED
    BY <1>1, <1>2, <2>1, TaskStepDoes DEF RescheduleLater, CancelAll
<1> QED
  BY <1>1, <1>2, <1>3, ThreeThreads
     DEF Joint, TaskAt, TaskInState, Listening, WorkInState, Working,
         Draining, LibInState, LoopLabels, EvtLabels, OneSocket, Parked, PollInState,
         Greeting, Holds, Matured, IoLabels, Fresh, MqttStates, WorkWaits
-----------------------------------------------------------------------------
(* Joint: the poll thread *)

\* It publishes.
LEMMA PollSendKeeps ==
  ASSUME TInv, Places, Joint, ~asserted, Patient, UNCHANGED <<workq, armed>>,
         Send(Poll) \/ MqttSend(Poll) \/ Write(Poll)
  PROVE  Joint' /\ ~asserted'
<1>1. /\ Control /\ mqtt_state \in MqttStates /\ connection_poll_sem \in {0, 1}
      /\ client \in {"idle", "tcp", "session"} /\ lock \in Threads \cup {None}
  BY DEF TInv, HelperData
<1>2. UNCHANGED <<mqtt_state, asserted, registered, connection_poll_sem, resume>>
  BY <1>1, PollSendDoes
<1> USE ThreeThreads DEF Joint, PollAt, TaskInState, Listening, WorkInState, Working,
        Draining, LibInState, LoopLabels, EvtLabels, OneSocket, Parked, PollInState,
        Greeting, Holds, Matured, IoLabels, Fresh, MqttStates
<1>3. CASE /\ pc[Poll] \in {"send", "mqtt_send"}
           /\ (mqtt_state = "CONNECTED" /\ PollAt("mqtt_send")) \/ \E b \in Back(Poll) : PollAt(b)
           /\ UNCHANGED <<client, sock, open, lock, mature>>
  BY <1>1, <1>2, <1>3
<1>4. CASE /\ pc[Poll] = "mqtt_send" /\ lock = None
           /\ client = "session" /\ lock' = Poll /\ PollAt("write")
           /\ UNCHANGED <<client, sock, open, mature>>
  BY <1>1, <1>2, <1>4
<1>5. CASE /\ pc[Poll] = "write" /\ lock' = None /\ mature' = mature \ {Poll}
           /\ \E b \in Back(Poll) : PollAt(b)
           /\ UNCHANGED <<client, sock, open>>
  BY <1>1, <1>2, <1>5
<1>6. CASE /\ pc[Poll] = "write" /\ lock' = None /\ mature' = mature \ {Poll}
           /\ PollAt("evt_disconnect")
           /\ client' = "idle" /\ sock' = None /\ open' = open \ {sock}
  BY <1>1, <1>2, <1>6
<1> QED
  BY <1>1, <1>3, <1>4, <1>5, <1>6, PollSendDoes DEF Close

\* Events come to it while the other threads wait.
LEMMA PollEventKeeps ==
  ASSUME TInv, Places, Joint, ~asserted, WorkWaits, TaskWaits,
         \/ (EvtDisconnect(Poll) \/ EvtConnack) /\ UNCHANGED <<workq, armed>>
         \/ OnDisconnect(Poll) \/ DisconnectedEntry(Poll) \/ CallbackStep
  PROVE  Joint' /\ ~asserted'
<1>1. /\ Control /\ mqtt_state \in MqttStates /\ connection_poll_sem \in {0, 1}
      /\ client \in {"idle", "tcp", "session"} /\ lock \in Threads \cup {None}
  BY DEF TInv, HelperData
<1>2. Task # Timer /\ WorkQ # Timer /\ Poll # Timer
  BY ThreeThreads, UplinkAssumption
<1> USE ThreeThreads DEF Joint, PollAt, TaskInState, Listening, WorkInState, Working,
        Draining, LibInState, LoopLabels, EvtLabels, OneSocket, Parked, PollInState,
        Greeting, Holds, Matured, IoLabels, Fresh, MqttStates, WorkWaits, TaskWaits
<1>3. CASE EvtDisconnect(Poll) /\ UNCHANGED <<workq, armed>>
  <2>1. /\ pc[Poll] = "evt_disconnect" /\ mqtt_state # "UNINIT" /\ registered
        /\ client = "idle"
    BY <1>1, <1>3, PollEvtDisconnectDoes
  <2>2. /\ PollAt("on_disconnect") /\ mqtt_state' = "DISCONNECTED" /\ ~asserted'
        /\ UNCHANGED <<registered, connection_poll_sem, client, sock, open, lock, resume,
                       mature, workq, armed>>
    BY <1>1, <1>3, <2>1, PollEvtDisconnectDoes, LegalSet
  <2> QED
    BY <1>1, <2>1, <2>2
<1>4. CASE EvtConnack /\ UNCHANGED <<workq, armed>>
  <2>1. mqtt_state = "CONNECTING" /\ registered
    BY <1>1, <1>4, EvtConnackDoes
  <2>2. /\ \/ pc[Poll] = "evt_accepted" /\ mqtt_state' = "CONNECTED"
           \/ pc[Poll] = "evt_refused" /\ mqtt_state' = "DISCONNECTED"
        /\ PollAt("on_connack") /\ ~asserted'
        /\ UNCHANGED <<registered, connection_poll_sem, client, sock, open, lock, resume,
                       mature, workq, armed>>
    BY <1>1, <1>4, <2>1, EvtConnackDoes, LegalSet
  <2> QED
    BY <1>1, <2>1, <2>2
<1>5. CASE OnDisconnect(Poll)
  <2>1. /\ pc[Poll] = "on_disconnect" /\ PollAt("disconnected_entry")
        /\ UNCHANGED <<mqtt_state, asserted, registered, connection_poll_sem, client, sock,
                       open, lock, resume, mature, workq, armed>>
    BY <1>1, <1>5, PollOnDisconnectDoes
  <2> QED
    BY <1>1, <2>1
<1>6. CASE DisconnectedEntry(Poll)
  <2>1. /\ pc[Poll] = "disconnected_entry"
        /\ \E b \in {"subscribe", "submit_pub", "on_publish", "sem_take", "mqtt_abort"} : PollAt(b)
        /\ mature' = mature \/ mature' = mature \ {Timer}
        /\ UNCHANGED <<mqtt_state, asserted, registered, connection_poll_sem, client, sock,
                       open, lock, resume>>
    BY <1>1, <1>6, PollEntryDoes DEF RescheduleNow
  <2> QED
    BY <1>1, <1>2, <2>1
<1>7. CASE CallbackStep
  <2>1. /\ \/ pc[Poll] = "on_connack" /\ PollAt("connected_entry") /\ UNCHANGED resume
           \/ pc[Poll] \in {"connected_entry", "subscribe"} /\ PollAt("send")
           \/ /\ pc[Poll] \in {"submit_pub", "on_publish"}
              /\ \E l \in {"input_done", "mqtt_abort", "sem_take"} : PollAt(l)
        /\ mature' = mature \/ mature' = mature \ {Timer}
        /\ UNCHANGED <<mqtt_state, asserted, registered, connection_poll_sem, client, sock,
                       open, lock>>
    BY <1>1, <1>7, CallbackDoes DEF CancelConnect, Resumes
  <2> QED
    BY <1>1, <1>2, <2>1
<1> QED
  BY <1>3, <1>4, <1>5, <1>6, <1>7

\* It polls and lets the library receive, ping and close.
LEMMA PollLoopKeeps ==
  ASSUME TInv, Places, Joint, ~asserted, Patient, WorkWaits, TaskWaits,
         UNCHANGED <<workq, armed>>,
         \/ SemTake \/ Loop \/ PollClosed \/ PollOpen \/ InputDone
         \/ MqttInput \/ MqttLive \/ MqttAbort
  PROVE  Joint' /\ ~asserted'
<1>1. /\ Control /\ mqtt_state \in MqttStates /\ connection_poll_sem \in {0, 1}
      /\ client \in {"idle", "tcp", "session"} /\ lock \in Threads \cup {None}
  BY DEF TInv, HelperData
<1> USE ThreeThreads DEF Joint, PollAt, TaskInState, Listening, WorkInState, Working,
        Draining, LibInState, LoopLabels, EvtLabels, OneSocket, Parked, PollInState,
        Greeting, Holds, Matured, IoLabels, Fresh, MqttStates, WorkWaits, TaskWaits
<1>2. CASE SemTake \/ Loop \/ PollClosed \/ PollOpen \/ InputDone
  <2>1. /\ \/ pc[Poll] = "sem_take" /\ PollAt("loop") /\ connection_poll_sem' = 0
              /\ connection_poll_sem = 1 /\ Poll \notin mature'
           \/ /\ pc[Poll] \in {"loop", "poll", "input_done"}
              /\ \E l \in {"sem_take", "loop", "poll", "mqtt_input", "mqtt_abort", "mqtt_live"} :
                    PollAt(l)
              /\ UNCHANGED connection_poll_sem
              /\ Poll \notin mature'
        /\ \A t \in {Task, WorkQ} : t \in mature' <=> t \in mature
        /\ UNCHANGED <<mqtt_state, asserted, registered, client, sock, open, lock, resume>>
    BY <1>1, <1>2, LoopDoes
  <2> QED
    BY <1>1, <2>1
<1>3. CASE MqttInput
  <2>1. /\ pc[Poll] = "mqtt_input" /\ lock = None
        /\ UNCHANGED <<mqtt_state, asserted, registered, connection_poll_sem, lock, mature>>
        /\ \/ /\ client = "tcp" /\ client' = "session" /\ PollAt("evt_accepted")
              /\ resume' = "input_done" /\ UNCHANGED <<sock, open>>
           \/ /\ client = "tcp" /\ Close /\ PollAt("evt_refused") /\ resume' = "mqtt_abort"
           \/ client = "session" /\ Close /\ PollAt("evt_disconnect")
           \/ /\ client = "session"
              /\ PollAt("on_publish") \/ PollAt("mqtt_send") \/ PollAt("input_done")
              /\ UNCHANGED <<client, sock, open>>
           \/ PollAt("mqtt_abort") /\ UNCHANGED <<client, sock, open>>
    BY <1>1, <1>3, MqttInputDoes
  <2> QED
    BY <1>1, <2>1 DEF Close
<1>4. CASE MqttLive \/ MqttAbort
  <2>1. /\ pc[Poll] \in {"mqtt_live", "mqtt_abort"} /\ lock = None
        /\ UNCHANGED <<mqtt_state, asserted, registered, connection_poll_sem, lock, mature>>
        /\ \/ PollAt("loop") /\ UNCHANGED <<client, sock, open>>
           \/ client = "session" /\ Close /\ PollAt("evt_disconnect")
           \/ client = "tcp" /\ Close /\ PollAt("evt_refused") /\ resume' = "sem_take"
           \/ PollAt("sem_take") /\ UNCHANGED <<client, sock, open>>
    BY <1>1, <1>4, LiveAbortDoes
  <2> QED
    BY <1>1, <2>1 DEF Close
<1> QED
  BY <1>2, <1>3, <1>4
-----------------------------------------------------------------------------
(* The threads together *)

\* A thread's step leaves every thread at a place of its own, and Joint true,
\* unless an assertion fails.
LEMMA TaskKeeps ==
  ASSUME TInv, Places, Joint, Patient, Thread(Task)
  PROVE  Places' /\ Sound'
<1>1. ~asserted /\ WorkWaits /\ Control
  BY OthersWait DEF Thread, TInv
<1>2. \/ /\ \/ Init_(Task) \/ Disconnect(Task) \/ SetDisconnecting(Task)
            \/ MqttDisconnect(Task) \/ DisconnectWrite(Task) \/ DisconnectFailed(Task)
         /\ UNCHANGED <<workq, armed>>
      \/ EvtDisconnect(Task) /\ UNCHANGED <<workq, armed>>
      \/ OnDisconnect(Task) \/ DisconnectedEntry(Task) \/ TaskStep
  BY ThreeThreads, TaskApi DEF Thread, uplinkVars, work
<1>3. Sound'
  BY <1>1, <1>2, TaskCallKeeps, TaskEventKeeps, TaskStepKeeps DEF Sound
<1>4. Places'
  BY <1>1, <1>2, InitDoes, DisconnectDoes, SetDisconnectingDoes, MqttDisconnectDoes,
     DisconnectWriteDoes, DisconnectFailedDoes, TaskEvtDisconnectDoes,
     TaskOnDisconnectDoes, TaskEntryDoes, TaskStepDoes DEF TaskAt
<1> QED
  BY <1>3, <1>4

\* The work queue's thread, too ...
LEMMA WorkKeeps ==
  ASSUME TInv, Places, Joint, Patient, Thread(WorkQ)
  PROVE  Places' /\ Sound'
<1>1. ~asserted /\ Control
  BY DEF Thread, TInv
<1>2. \/ /\ \/ Connect(WorkQ) \/ GetAddrInfo(WorkQ) \/ MqttConnect(WorkQ)
            \/ Handshake(WorkQ) \/ Connecting(WorkQ)
         /\ UNCHANGED <<workq, armed>>
      \/ (Send(WorkQ) \/ MqttSend(WorkQ) \/ Write(WorkQ)) /\ UNCHANGED <<workq, armed>>
      \/ EvtDisconnect(WorkQ) /\ UNCHANGED <<workq, armed>>
      \/ OnDisconnect(WorkQ) \/ DisconnectedEntry(WorkQ) \/ WorkStep
  BY ThreeThreads, WorkApi DEF Thread, uplinkVars, work
<1>3. Sound'
  BY <1>1, <1>2, WorkConnectKeeps, WorkSendKeeps, WorkEventKeeps, WorkStepKeeps DEF Sound
<1>4. EvtDisconnect(WorkQ) => registered
  BY <1>1, WorkEvtDisconnectDoes DEF Joint, WorkInState, Fresh, Working, Draining
<1>5. Places'
  BY <1>1, <1>2, <1>4, ConnectDoes, GetAddrInfoDoes, MqttConnectDoes, HandshakeDoes,
     ConnectingDoes, WorkSendDoes, WorkEvtDisconnectDoes, WorkOnDisconnectDoes,
     WorkEntryDoes, WorkStepDoes DEF WorkAt
<1> QED
  BY <1>3, <1>5

\* ... and the poll thread.
LEMMA PollKeeps ==
  ASSUME TInv, Places, Joint, Patient, Thread(Poll)
  PROVE  Places' /\ Sound'
<1>1. ~asserted /\ WorkWaits /\ TaskWaits /\ Control
  BY OthersWait DEF Thread, TInv
<1>2. \/ /\ \/ Send(Poll) \/ MqttSend(Poll) \/ Write(Poll)
            \/ EvtDisconnect(Poll) \/ EvtConnack
            \/ SemTake \/ Loop \/ PollClosed \/ PollOpen \/ InputDone
            \/ MqttInput \/ MqttLive \/ MqttAbort
         /\ UNCHANGED <<workq, armed>>
      \/ OnDisconnect(Poll) \/ DisconnectedEntry(Poll) \/ CallbackStep
  BY ThreeThreads, PollApi DEF Thread, PollStep, uplinkVars, work
<1>3. Sound'
  BY <1>1, <1>2, PollSendKeeps, PollEventKeeps, PollLoopKeeps DEF Sound
<1>4. EvtDisconnect(Poll) \/ EvtConnack => registered
  BY <1>1, PollEvtDisconnectDoes, EvtConnackDoes DEF Joint, PollInState, Parked, Fresh
<1>5. \E l : PollAt(l)
  <2>1. CASE Send(Poll) \/ MqttSend(Poll) \/ Write(Poll)
    BY <1>1, <2>1, PollSendDoes
  <2>2. CASE EvtDisconnect(Poll) \/ EvtConnack
    BY <1>1, <1>4, <2>2, PollEvtDisconnectDoes, EvtConnackDoes
  <2>3. CASE SemTake \/ Loop \/ PollClosed \/ PollOpen \/ InputDone
    BY <1>1, <2>3, LoopDoes
  <2>4. CASE MqttInput
    BY <1>1, <2>4, MqttInputDoes
  <2>5. CASE MqttLive \/ MqttAbort
    BY <1>1, <2>5, LiveAbortDoes
  <2>6. CASE OnDisconnect(Poll) \/ DisconnectedEntry(Poll)
    BY <1>1, <2>6, PollOnDisconnectDoes, PollEntryDoes
  <2>7. CASE CallbackStep
    BY <1>1, <2>7, CallbackDoes
  <2> QED
    BY <1>2, <2>1, <2>2, <2>3, <2>4, <2>5, <2>6, <2>7
<1> QED
  BY <1>3, <1>5 DEF PollAt

\* What happens around the threads moves none of them.
LEMMA EnvironmentDoes ==
  ASSUME TimePasses \/ TimerExpires \/ Environment
  PROVE  /\ UNCHANGED <<mqtt_state, asserted, registered, connection_poll_sem, client, sock,
                        unread, open, lock, fd, pc, ret, after, resume, smf, status, running,
                        canceling>>
         /\ \/ /\ mature' = Waiting /\ (\A t \in Threads : ~Ready(t))
               /\ UNCHANGED <<dead, workq, armed, budget>>
            \/ armed /\ RescheduleNow /\ UNCHANGED <<dead, budget>>
            \/ UNCHANGED <<workq, armed, mature>>
<1> USE DEF machine, boundary, lib, returns, uplinkVars, smfVars, work
<1>1. CASE TimePasses
  BY <1>1 DEF TimePasses
<1>2. CASE TimerExpires
  BY <1>2 DEF TimerExpires
<1>3. CASE PdnEvent
  BY <1>3 DEF PdnEvent
<1>4. CASE Sample
  BY <1>4 DEF Sample
<1>5. CASE (Drop \/ DropWhileConnecting) /\ UNCHANGED uplinkVars
  BY <1>5 DEF Drop, DropWhileConnecting
<1> QED
  BY <1>1, <1>2, <1>3, <1>4, <1>5 DEF Environment

\* When the CPU is idle, all I/O that has begun has had its time, and none of it
\* is late.
LEMMA IdleMatures ==
  ASSUME TInv, Places, Joint, mature' = Waiting, \A t \in Threads : ~Ready(t),
         UNCHANGED <<mqtt_state, connection_poll_sem, client, pc, resume>>
  PROVE  Matured' /\ Greeting'
<1>1. WorkWaits /\ TaskWaits
  BY OthersWait DEF TInv
<1>2. /\ pc[Poll] \in {"sem_take", "poll"} \cup IoLabels \cup LockLabels
      /\ pc[Poll] = "sem_take" => connection_poll_sem = 0
      /\ pc[Poll] = "poll" => fd \in open
      /\ pc[Poll] \in LockLabels => lock # None
  BY ThreeThreads DEF Ready, HelperReady, RunLabels, LockLabels, IoLabels, Callbacks,
     UplinkLabels, TInv, HelperData, Places, PollFine, LoopLabels, PollEvtLabels,
     SendLabels, EvtLabels
<1>3. pc[WorkQ] = "getaddrinfo" => Parked /\ pc[Task] \in Listening
  <2> SUFFICES ASSUME pc[WorkQ] = "getaddrinfo"
               PROVE  Parked /\ pc[Task] \in Listening
    OBVIOUS
  <2>1. mqtt_state = "DISCONNECTED" /\ client = "idle" /\ open = {}
    BY DEF TInv, HelperData, MqttStates, Joint, WorkInState, Working, Draining, LibInState,
           OneSocket
  <2>2. lock = None
    BY <2>1, ThreeThreads DEF TInv, HelperData, Joint, LibInState, Holds
  <2>3. pc[Poll] = "sem_take"
    BY <1>2, <2>1, <2>2, ThreeThreads
       DEF Joint, LibInState, Places, PollFine, LoopLabels, PollEvtLabels, SendLabels,
           EvtLabels, IoLabels
  <2> QED
    BY <1>1, <1>2, <2>1, <2>2, <2>3 DEF TaskWaits, Joint, LibInState, Listening, Parked
<1>4. /\ Task \in mature' => pc[Task] \in {"modem_info", "disconnect_write"}
      /\ WorkQ \in mature' => pc[WorkQ] \in IoLabels
      /\ Poll \in mature' => pc[Poll] \in {"poll", "write"}
  BY ThreeThreads, UplinkAssumption
     DEF Waiting, InIo, IoLabels, Places, TaskFine, WorkFine, PollFine, DisconnectLabels,
         Working, Draining, ConnectLabels, LoopLabels, PollEvtLabels, SendLabels, EvtLabels
<1>5. Matured'
  BY <1>3, <1>4 DEF Matured, Parked
<1>6. pc[Poll] \notin {"on_connack", "connected_entry"}
  BY <1>2 DEF IoLabels, LockLabels
<1> QED
  BY <1>5, <1>6 DEF Greeting

\* Neither does it disturb Joint.
LEMMA AroundKeeps ==
  ASSUME TInv, Places, Sound, TimePasses \/ TimerExpires \/ Environment
  PROVE  Places' /\ Sound'
<1>1. /\ UNCHANGED <<mqtt_state, asserted, registered, connection_poll_sem, client, sock,
                     open, lock, pc, ret, after, resume>>
      /\ \/ mature' = Waiting /\ (\A t \in Threads : ~Ready(t)) /\ UNCHANGED <<workq, armed>>
         \/ armed /\ RescheduleNow
         \/ UNCHANGED <<workq, armed, mature>>
  BY EnvironmentDoes
<1>2. Places' /\ (asserted' <=> asserted)
  BY <1>1 DEF Places
<1>3. CASE ~asserted
  <2>1. /\ TaskInState' /\ WorkInState' /\ LibInState' /\ OneSocket' /\ PollInState'
        /\ Holds'
    BY <1>1, <1>3 DEF Sound, Joint, TaskInState, WorkInState, LibInState, OneSocket,
       PollInState, Holds, Parked
  <2>2. Fresh'
    BY <1>1, <1>3 DEF Sound, Joint, Fresh
  <2>3. Task # Timer /\ WorkQ # Timer /\ Poll # Timer
    BY ThreeThreads, UplinkAssumption
  <2>4. Matured' /\ Greeting'
    <3>1. CASE mature' = Waiting /\ \A t \in Threads : ~Ready(t)
      BY <1>1, <1>3, <3>1, IdleMatures DEF Sound
    <3>2. CASE mature' = mature \/ mature' = mature \ {Timer}
      BY <1>1, <1>3, <2>3, <3>2 DEF Sound, Joint, Matured, Greeting, Parked
    <3> QED
      BY <1>1, <3>1, <3>2 DEF RescheduleNow
  <2> QED
    BY <1>2, <1>3, <2>1, <2>2, <2>4 DEF Sound, Joint
<1>4. CASE asserted
  BY <1>1, <1>2, <1>4 DEF Sound
<1> QED
  BY <1>2, <1>3, <1>4

\* Places and Sound are inductive.
LEMMA SoundInit == Init => Places /\ Sound
<1> SUFFICES ASSUME Init PROVE Places /\ Sound
  OBVIOUS
<1>1. /\ pc[Task] = "init" /\ pc[WorkQ] = "work_wait" /\ pc[Poll] = "sem_take"
      /\ after[Poll] = None
  BY ThreeThreads DEF Init, HelperInit
<1>2. Places
  BY <1>1 DEF Places, TaskFine, WorkFine, PollFine, Working, ConnectLabels, SendLabels,
     EvtLabels, LoopLabels
<1>3. Joint
  BY <1>1, ThreeThreads
     DEF Init, HelperInit, Joint, TaskInState, WorkInState, LibInState, OneSocket,
         PollInState, Greeting, Holds, Matured, Fresh, Parked, EvtLabels
<1> QED
  BY <1>2, <1>3 DEF Init, HelperInit, Sound

\* Every step keeps them ...
LEMMA SoundStep ==
  ASSUME Patient, TInv, Places, Sound, [Next]_vars
  PROVE  Places' /\ Sound'
<1>1. ASSUME NEW t \in Threads, Thread(t) PROVE Places' /\ Sound'
  <2>1. Joint
    BY <1>1 DEF Thread, Sound
  <2> QED
    BY <1>1, <2>1, TaskKeeps, WorkKeeps, PollKeeps, ThreeThreads
<1>2. CASE TimePasses \/ TimerExpires \/ Environment
  BY <1>2, AroundKeeps
<1>3. CASE UNCHANGED vars
  BY <1>3 DEF vars, helperVars, machine, boundary, lib, returns, uplinkVars, work,
     Places, Sound, Joint, TaskInState, WorkInState, LibInState, OneSocket, PollInState,
     Greeting, Holds, Matured, Fresh, Parked
<1> QED
  BY <1>1, <1>2, <1>3 DEF Next

\* ... so that they always hold.
LEMMA SoundAlways == Patient => (Spec => [](Places /\ Sound))
<1> SUFFICES ASSUME Patient PROVE Spec => [](Places /\ Sound)
  OBVIOUS
<1>1. (TInv /\ TInv') /\ (Places /\ Sound) /\ [Next]_vars => (Places /\ Sound)'
  BY SoundStep
<1> QED
  BY <1>1, SoundInit, Typed, PTL DEF Spec

\* No socket is forgotten: what is open is what the library holds, whatever order
\* connections, failing I/O and the events of the library come in.
THEOREM SocketHeld ==
  ASSUME Patient
  PROVE  Spec => []NoSocketLeak
<1>1. Sound => NoSocketLeak
  BY DEF Sound, Joint, OneSocket, NoSocketLeak
<1> QED
  BY <1>1, SoundAlways, PTL
-----------------------------------------------------------------------------
(* The reconnection *)

\* Which work's handler runs, and that only it can be cancelled while it does.
Runs == /\ canceling \subseteq {running}
        /\ running = "connect" <=> pc[WorkQ] \in ConnectLabels \cup {"rearm"}
        /\ running = None <=> pc[WorkQ] = "work_wait"

\* connected_entry cancels a reconnection that the module does not need.
Greeted == pc[Poll] = "connected_entry" => smf = "MQTT_CONNECTED"

Scheduled == Runs /\ Greeted /\ RetryPending

\* Rescheduled at once, connect_work is queued, or runs.
LEMMA Rescheduled ==
  ASSUME UplinkData, Runs, RescheduleNow
  PROVE  Contains(workq', "connect") \/ running = "connect"
<1>1. CASE Contains(workq, "connect") \/ "connect" \in canceling
  BY <1>1 DEF RescheduleNow, Submit, Runs
<1>2. CASE ~Contains(workq, "connect") /\ "connect" \notin canceling
  <2>1. workq' = Append(workq, "connect") /\ "connect" \in Works /\ workq \in Seq(Works)
    BY <1>2 DEF RescheduleNow, Submit, UplinkData, Works
  <2> QED
    BY <2>1, ContainsAppend
<1> QED
  BY <1>1, <1>2

\* A publication that is submitted displaces nothing.
LEMMA Submitted ==
  ASSUME UplinkData, Submit("pub") \/ UNCHANGED workq, Contains(workq, "connect")
  PROVE  Contains(workq', "connect")
<1>1. CASE workq' = workq
  BY <1>1
<1>2. CASE workq' = Append(workq, "pub")
  <2>1. "pub" \in Works /\ workq \in Seq(Works)
    BY DEF UplinkData, Works
  <2> QED
    BY <1>2, <2>1, ContainsAppend
<1> QED
  BY <1>1, <1>2 DEF Submit

\* What the threads do to the reconnection.
LEMMA TaskSchedules ==
  ASSUME TInv, Places, Joint, Patient, Scheduled, Thread(Task)
  PROVE  Scheduled'
<1>1. Control /\ UplinkData
  BY DEF TInv
<1>2. \/ /\ \/ Init_(Task) \/ Disconnect(Task) \/ SetDisconnecting(Task)
            \/ MqttDisconnect(Task) \/ DisconnectWrite(Task) \/ DisconnectFailed(Task)
            \/ EvtDisconnect(Task)
         /\ UNCHANGED <<smf, status, armed, workq, running, canceling>>
      \/ OnDisconnect(Task) \/ DisconnectedEntry(Task) \/ TaskStep
  BY ThreeThreads, TaskApi DEF Thread, uplinkVars, work, smfVars
<1>3. CASE /\ pc[Task] \notin {"run", "on_disconnect", "disconnected_entry"}
           /\ \E l : TaskAt(l)
           /\ UNCHANGED <<smf, status, armed, workq, running, canceling>>
  BY <1>3, ThreeThreads DEF Scheduled, Runs, Greeted, TaskAt, RetryPending
<1>4. CASE OnDisconnect(Task)
  <2>1. /\ pc[Task] = "on_disconnect" /\ TaskAt("disconnected_entry")
        /\ UNCHANGED <<status, armed, workq, running, canceling>>
    BY <1>1, <1>4, TaskOnDisconnectDoes
  <2>2. pc[Poll] # "connected_entry"
    BY <2>1 DEF Joint, Greeting, EvtLabels, Listening
  <2> QED
    BY <2>1, <2>2, ThreeThreads DEF Scheduled, Runs, Greeted, TaskAt, RetryPending
<1>5. CASE DisconnectedEntry(Task)
  <2>1. /\ pc[Task] = "disconnected_entry" /\ \E l : TaskAt(l)
        /\ status => RescheduleNow
        /\ UNCHANGED <<smf, status, running, canceling>>
    BY <1>1, <1>5, TaskEntryDoes
  <2>2. status => Contains(workq', "connect") \/ running = "connect"
    BY <1>1, <2>1, Rescheduled DEF Scheduled
  <2> QED
    BY <2>1, <2>2, ThreeThreads DEF Scheduled, Runs, Greeted, TaskAt, RetryPending
<1>6. CASE TaskStep
  <2>1. (\E l : TaskAt(l)) /\ UNCHANGED <<smf, running>>
    BY <1>1, <1>6, TaskStepDoes
  <2>2. canceling' \subseteq canceling \cup {running}
    BY <1>1, <1>6, TaskStepDoes DEF CancelAll
  <2>3. RetryPending'
    <3>1. CASE TaskAt("run") \/ (pc[Task] # "run" /\ UNCHANGED <<status, workq, armed>>)
      BY <1>6, <2>1, <3>1, TaskStepDoes, <1>1, ThreeThreads
         DEF Scheduled, TaskAt, RetryPending
    <3>2. CASE \/ smf = "MQTT_CONNECTED"
               \/ ~status /\ UNCHANGED status
               \/ RescheduleLater
      BY <2>1, <3>2 DEF RetryPending, RescheduleLater
    <3> QED
      BY <1>1, <1>6, <3>1, <3>2, TaskStepDoes
  <2> QED
    BY <2>1, <2>2, <2>3 DEF Scheduled, Runs, Greeted, TaskAt
<1> QED
  BY <1>1, <1>2, <1>3, <1>4, <1>5, <1>6, InitDoes, DisconnectDoes, SetDisconnectingDoes,
     MqttDisconnectDoes, DisconnectWriteDoes, DisconnectFailedDoes, TaskEvtDisconnectDoes

\* The work queue's thread, which connects.
LEMMA WorkSchedules ==
  ASSUME TInv, Places, Joint, Patient, Scheduled, Thread(WorkQ)
  PROVE  Scheduled'
<1>1. Control /\ UplinkData
  BY DEF TInv
<1>2. \/ /\ \/ Connect(WorkQ) \/ GetAddrInfo(WorkQ) \/ MqttConnect(WorkQ)
            \/ Handshake(WorkQ) \/ Connecting(WorkQ)
            \/ Send(WorkQ) \/ MqttSend(WorkQ) \/ Write(WorkQ) \/ EvtDisconnect(WorkQ)
         /\ UNCHANGED <<smf, status, armed, workq, running, canceling>>
      \/ OnDisconnect(WorkQ) \/ DisconnectedEntry(WorkQ) \/ WorkStep
  BY ThreeThreads, WorkApi DEF Thread, uplinkVars, work, smfVars
<1>3. CASE /\ \/ /\ pc[WorkQ] \in ConnectLabels
                 /\ \E l \in ConnectLabels \cup {"rearm"} : WorkAt(l)
              \/ /\ pc[WorkQ] \in SendLabels \cup {"evt_disconnect"}
                 /\ \E l \in Draining \cup SendLabels \cup {"evt_disconnect", "on_disconnect"} :
                       WorkAt(l)
           /\ UNCHANGED <<smf, status, armed, workq, running, canceling>>
  BY <1>3, ThreeThreads
     DEF Scheduled, Runs, Greeted, WorkAt, RetryPending, ConnectLabels, SendLabels, Draining
<1>4. CASE \/ Connect(WorkQ) \/ GetAddrInfo(WorkQ) \/ MqttConnect(WorkQ)
           \/ Handshake(WorkQ) \/ Connecting(WorkQ)
  BY <1>1, <1>2, <1>3, <1>4, ConnectDoes, GetAddrInfoDoes, MqttConnectDoes, HandshakeDoes,
     ConnectingDoes DEF ConnectLabels, OnDisconnect, DisconnectedEntry, WorkStep, WorkWait,
     Rearm, DrainGps, DrainSensor
<1>5. CASE /\ Send(WorkQ) \/ MqttSend(WorkQ) \/ Write(WorkQ)
           /\ UNCHANGED <<smf, status, armed, workq, running, canceling>>
  <2>1. /\ pc[WorkQ] \in SendLabels
        /\ \E l \in Draining \cup SendLabels \cup {"evt_disconnect", "on_disconnect"} : WorkAt(l)
    BY <1>1, <1>5, WorkSendDoes DEF SendLabels
  <2> QED
    BY <1>3, <1>5, <2>1
<1>6. CASE /\ EvtDisconnect(WorkQ)
           /\ UNCHANGED <<smf, status, armed, workq, running, canceling>>
  <2>1. registered
    BY <1>1, <1>6, WorkEvtDisconnectDoes DEF Joint, WorkInState, Fresh, Working, Draining
  <2>2. pc[WorkQ] = "evt_disconnect" /\ WorkAt("on_disconnect")
    BY <1>1, <1>6, <2>1, WorkEvtDisconnectDoes
  <2> QED
    BY <1>3, <1>6, <2>2
<1>7. CASE OnDisconnect(WorkQ)
  <2>1. /\ pc[WorkQ] = "on_disconnect" /\ WorkAt("disconnected_entry")
        /\ UNCHANGED <<status, armed, workq, running, canceling>>
    BY <1>1, <1>7, WorkOnDisconnectDoes
  <2>2. pc[Poll] # "connected_entry"
    BY <2>1 DEF Joint, Greeting, EvtLabels
  <2> QED
    BY <2>1, <2>2, ThreeThreads
       DEF Scheduled, Runs, Greeted, WorkAt, RetryPending, ConnectLabels
<1>8. CASE DisconnectedEntry(WorkQ)
  <2>1. /\ pc[WorkQ] = "disconnected_entry" /\ \E l \in Draining : WorkAt(l)
        /\ status => RescheduleNow
        /\ UNCHANGED <<smf, status, running, canceling>>
    BY <1>1, <1>8, WorkEntryDoes
  <2>2. status => Contains(workq', "connect") \/ running = "connect"
    BY <1>1, <2>1, Rescheduled DEF Scheduled
  <2> QED
    BY <2>1, <2>2, ThreeThreads
       DEF Scheduled, Runs, Greeted, WorkAt, RetryPending, ConnectLabels, Draining
<1>9. CASE WorkStep
  <2>1. CASE /\ pc[WorkQ] = "work_wait" /\ workq # <<>>
             /\ workq' = Tail(workq) /\ running' = Head(workq)
             /\ \/ Head(workq) = "connect" /\ WorkAt("connect")
                \/ Head(workq) = "pub" /\ WorkAt("drain_gps")
             /\ UNCHANGED <<smf, status, canceling, armed>>
    <3>1. running = None /\ canceling = {}
      BY <1>1, <2>1, UplinkAssumption DEF Scheduled, Runs, UplinkData
    <3>2. None \notin {"connect", "pub"}
      BY UplinkAssumption DEF Works
    <3>3. Runs' /\ Greeted'
      BY <2>1, <3>1, <3>2 DEF Scheduled, Runs, Greeted, WorkAt, ConnectLabels
    <3>4. Contains(workq, "connect") => Contains(workq', "connect") \/ running' = "connect"
      BY <1>1, <2>1, ContainsTail DEF UplinkData
    <3>5. RetryPending'
      BY <2>1, <3>1, <3>2, <3>4, ThreeThreads DEF Scheduled, WorkAt, RetryPending
    <3> QED
      BY <3>3, <3>5 DEF Scheduled
  <2>2. CASE /\ pc[WorkQ] = "rearm" /\ WorkAt("work_wait") /\ RescheduleLater
             /\ running' = None /\ canceling' = canceling \ {running}
             /\ UNCHANGED <<smf, status>>
    BY <2>2, UplinkAssumption
       DEF Scheduled, Runs, Greeted, WorkAt, RetryPending, RescheduleLater, ConnectLabels,
           Works
  <2>3. CASE /\ pc[WorkQ] \in Draining
             /\ WorkAt("drain_sensor") \/ WorkAt("send")
             /\ UNCHANGED <<smf, status, workq, running, canceling, armed>>
    BY <2>3, ThreeThreads
       DEF Scheduled, Runs, Greeted, WorkAt, RetryPending, ConnectLabels, Draining
  <2>4. CASE /\ pc[WorkQ] \in Draining /\ WorkAt("work_wait")
             /\ running' = None /\ canceling' = canceling \ {running}
             /\ UNCHANGED <<smf, status, workq, armed>>
    BY <2>4, ThreeThreads, UplinkAssumption
       DEF Scheduled, Runs, Greeted, WorkAt, RetryPending, ConnectLabels, Draining, Works
  <2> QED
    BY <1>1, <1>9, <2>1, <2>2, <2>3, <2>4, WorkStepDoes
<1> QED
  BY <1>2, <1>4, <1>5, <1>6, <1>7, <1>8, <1>9

\* The poll thread, which greets a session and loses it.
LEMMA PollSchedules ==
  ASSUME TInv, Places, Joint, Patient, Scheduled, Thread(Poll)
  PROVE  Scheduled'
<1>1. Control /\ UplinkData
  BY DEF TInv
<1>2. \/ /\ \/ Send(Poll) \/ MqttSend(Poll) \/ Write(Poll)
            \/ EvtDisconnect(Poll) \/ EvtConnack
            \/ SemTake \/ Loop \/ PollClosed \/ PollOpen \/ InputDone
            \/ MqttInput \/ MqttLive \/ MqttAbort
         /\ UNCHANGED <<smf, status, armed, workq, running, canceling>>
      \/ OnDisconnect(Poll) \/ DisconnectedEntry(Poll) \/ CallbackStep
  BY ThreeThreads, PollApi DEF Thread, PollStep, uplinkVars, work, smfVars
<1>3. CASE /\ pc[Poll] # "disconnected_entry"
           /\ \E l : l # "connected_entry" /\ PollAt(l)
           /\ UNCHANGED <<smf, status, armed, workq, running, canceling>>
  BY <1>3, ThreeThreads DEF Scheduled, Runs, Greeted, PollAt, RetryPending
<1>4. CASE /\ \/ Send(Poll) \/ MqttSend(Poll) \/ Write(Poll)
              \/ EvtDisconnect(Poll) \/ EvtConnack
              \/ SemTake \/ Loop \/ PollClosed \/ PollOpen \/ InputDone
              \/ MqttInput \/ MqttLive \/ MqttAbort
           /\ UNCHANGED <<smf, status, armed, workq, running, canceling>>
  <2> SUFFICES pc[Poll] # "disconnected_entry" /\ \E l : l # "connected_entry" /\ PollAt(l)
    BY <1>3, <1>4
  <2>1. CASE Send(Poll) \/ MqttSend(Poll) \/ Write(Poll)
    BY <1>1, <2>1, PollSendDoes, ThreeThreads
  <2>2. CASE EvtDisconnect(Poll) \/ EvtConnack
    <3>1. registered
      BY <1>1, <2>2, PollEvtDisconnectDoes, EvtConnackDoes DEF Joint, PollInState, Parked, Fresh
    <3> QED
      BY <1>1, <2>2, <3>1, PollEvtDisconnectDoes, EvtConnackDoes
  <2>3. CASE SemTake \/ Loop \/ PollClosed \/ PollOpen \/ InputDone
    BY <1>1, <2>3, LoopDoes
  <2>4. CASE MqttInput
    BY <1>1, <2>4, MqttInputDoes
  <2>5. CASE MqttLive \/ MqttAbort
    BY <1>1, <2>5, LiveAbortDoes
  <2> QED
    BY <1>4, <2>1, <2>2, <2>3, <2>4, <2>5
<1>5. CASE OnDisconnect(Poll)
  <2>1. /\ PollAt("disconnected_entry")
        /\ UNCHANGED <<status, armed, workq, running, canceling>>
    BY <1>1, <1>5, PollOnDisconnectDoes
  <2> QED
    BY <2>1, ThreeThreads DEF Scheduled, Runs, Greeted, PollAt, RetryPending
<1>6. CASE DisconnectedEntry(Poll)
  <2>1. /\ \E l : l # "connected_entry" /\ PollAt(l)
        /\ status => RescheduleNow
        /\ UNCHANGED <<smf, status, running, canceling>>
    BY <1>1, <1>6, PollEntryDoes, ThreeThreads
  <2>2. status => Contains(workq', "connect") \/ running = "connect"
    BY <1>1, <2>1, Rescheduled DEF Scheduled
  <2> QED
    BY <2>1, <2>2, ThreeThreads DEF Scheduled, Runs, Greeted, PollAt, RetryPending
<1>7. CASE CallbackStep
  <2>1. CASE /\ smf' = "MQTT_CONNECTED" /\ \E l : PollAt(l)
             /\ canceling' \subseteq canceling \cup {running} /\ UNCHANGED running
    BY <2>1 DEF Scheduled, Runs, Greeted, PollAt, RetryPending
  <2>2. CASE /\ pc[Poll] # "disconnected_entry" /\ \E l : l # "connected_entry" /\ PollAt(l)
             /\ Submit("pub") \/ UNCHANGED workq
             /\ UNCHANGED <<smf, status, armed, running, canceling>>
    BY <1>1, <2>2, Submitted, ThreeThreads
       DEF Scheduled, Runs, Greeted, PollAt, RetryPending
  <2>3. pc[Poll] = "connected_entry" => smf = "MQTT_CONNECTED"
    BY DEF Scheduled, Greeted
  <2> QED
    BY <1>1, <1>7, <2>1, <2>2, <2>3, CallbackDoes DEF CancelConnect, Resumes
<1> QED
  BY <1>2, <1>4, <1>5, <1>6, <1>7

\* What happens around them leaves it pending too.
LEMMA AroundSchedules ==
  ASSUME TInv, Scheduled, TimePasses \/ TimerExpires \/ Environment
  PROVE  Scheduled'
<1>1. /\ UNCHANGED <<pc, smf, status, running, canceling>>
      /\ RescheduleNow \/ UNCHANGED <<workq, armed>>
  BY EnvironmentDoes
<1>2. RescheduleNow => Contains(workq', "connect") \/ running = "connect"
  BY Rescheduled DEF TInv, Scheduled
<1> QED
  BY <1>1, <1>2 DEF Scheduled, Runs, Greeted, RetryPending

\* As long as the module is disconnected and believes in the network, a
\* reconnection is on its way: no order of network events, lost sessions and
\* callbacks in three threads cancels the last attempt.
THEOREM ReconnectionPending ==
  ASSUME Patient
  PROVE  Spec => []RetryPending
<1>1. Init => Scheduled
  BY ThreeThreads, UplinkAssumption
     DEF Init, HelperInit, Scheduled, Runs, Greeted, RetryPending, ConnectLabels, Works
<1>2. /\ TInv /\ Places /\ Sound
      /\ Scheduled /\ [Next]_vars
      => Scheduled'
  <2> SUFFICES ASSUME TInv, Places, Sound, Scheduled, [Next]_vars PROVE Scheduled'
    OBVIOUS
  <2>1. ASSUME NEW t \in Threads, Thread(t) PROVE Scheduled'
    <3>1. Joint
      BY <2>1 DEF Thread, Sound
    <3> QED
      BY <2>1, <3>1, TaskSchedules, WorkSchedules, PollSchedules, ThreeThreads
  <2>2. CASE TimePasses \/ TimerExpires \/ Environment
    BY <2>2, AroundSchedules
  <2>3. CASE UNCHANGED vars
    BY <2>3 DEF vars, helperVars, uplinkVars, smfVars, work, Scheduled, Runs, Greeted,
       RetryPending
  <2> QED
    BY <2>1, <2>2, <2>3 DEF Next
<1>3. Scheduled => RetryPending
  BY DEF Scheduled
<1> QED
  BY <1>1, <1>2, <1>3, Typed, SoundAlways, PTL DEF Spec
-----------------------------------------------------------------------------
(* The two state machines *)

\* A CONNECT that nothing disturbs is answered while the poll thread waits for it,
\* on a socket that works.
InTime == client = "tcp" => /\ sock \notin dead
                            /\ pc[Poll] # "sem_take" =>
                                 fd = sock /\ pc[Poll] \in {"loop", "poll", "mqtt_input"}

\* Only a session leaves something unread, and every CONNACK accepts one.
Accepted == /\ unread => client = "session"
            /\ pc[Poll] # "evt_refused"
            /\ pc[Poll] = "on_connack" => resume = "input_done"

\* The module knows of a session from the callback that tells it so to the one
\* that tells it of its end.
Known ==
    /\ smf = "MQTT_CONNECTED" =>
           \/ mqtt_state \in {"CONNECTED", "DISCONNECTING"}
           \/ mqtt_state = "DISCONNECTED" /\ \E t \in Threads : pc[t] = "on_disconnect"
    /\ smf = "MQTT_DISCONNECTED" =>
           /\ mqtt_state # "DISCONNECTING"
           /\ mqtt_state = "CONNECTED" =>
                  pc[Poll] = "on_connack" /\ pc[Task] \notin {"disconnect", "set_disconnecting"}

Clear == InTime /\ Accepted /\ Known

\* The faults that disturb it are counted.
Counted == \A f \in DOMAIN Budget : budget[f] <= Budget[f]
Falls == \A f \in DOMAIN Budget : budget'[f] <= budget[f]

\* What takes a fault from the budget leaves less of it.
LEMMA SpendFalls ==
  ASSUME HelperData, UNCHANGED budget \/ \E f \in DOMAIN Budget : Spend(f)
  PROVE  Falls
  BY HelperAssumption DEF HelperData, Spend, Falls

\* No step makes a fault more frequent.
LEMMA BudgetFalls ==
  ASSUME TInv, Next
  PROVE  Falls
<1> USE DEF calm
<1>1. HelperData /\ Faults \cup {"pdn", "sample"} \subseteq DOMAIN Budget
  BY HelperAssumption, UplinkAssumption DEF TInv
<1>2. ASSUME NEW t \in Threads, ApiStep(t) PROVE Falls
  <2>1. UNCHANGED budget \/ Spend("connfail")
    BY <1>2 DEF ApiStep, Init_, Deinit, Connect, GetAddrInfo, MqttConnect, Handshake,
       Connecting, Disconnect, SetDisconnecting, MqttDisconnect, DisconnectWrite,
       DisconnectFailed, Send, MqttSend, Write, EvtDisconnect, MayFail
  <2> QED
    BY <1>1, <2>1, SpendFalls DEF Faults
<1>3. CASE PollStep
  <2>1. \/ UNCHANGED budget
        \/ \E f \in {"mute", "pollerr", "refuse", "oversize"} : Spend(f)
    BY <1>3 DEF PollStep, EvtConnack, SemTake, Loop, PollClosed, PollOpen, MqttLive,
       MqttInput, Received, InputDone, MqttAbort
  <2> QED
    BY <1>1, <2>1, SpendFalls DEF Faults
<1>4. CASE ModuleStep
  <2>1. UNCHANGED budget
    BY <1>4 DEF ModuleStep, SubWait, ModemInfo, Run, WorkWait, Rearm, DrainGps,
       DrainSensor, OnConnack, ConnectedEntry, Subscribe, SubmitPub, OnPublish,
       OnDisconnect, DisconnectedEntry
  <2> QED
    BY <1>1, <2>1, SpendFalls
<1>5. CASE PdnEvent
  <2>1. budget["pdn"] \in Nat /\ budget["refuse"] \in Nat
    BY <1>1 DEF HelperData, Faults
  <2> QED
    BY <1>1, <1>5, <2>1 DEF PdnEvent, HelperData, Falls
<1>6. CASE Sample \/ Drop \/ DropWhileConnecting
  <2>1. Spend("sample") \/ Spend("drop") \/ Spend("refuse")
    BY <1>6 DEF Sample, Drop, DropWhileConnecting
  <2> QED
    BY <1>1, <2>1, SpendFalls DEF Faults
<1>7. CASE TimePasses \/ TimerExpires
  BY <1>1, <1>7, SpendFalls DEF TimePasses, TimerExpires
<1> QED
  BY <1>2, <1>3, <1>4, <1>5, <1>6, <1>7, ThreadSteps DEF Next, Environment

\* As long as nothing disturbs it, nothing has, and none of the three faults that
\* do is what happens.
LEMMA Undisturbing ==
  ASSUME TInv, Counted, Falls, Undisturbed'
  PROVE  /\ Undisturbed
         /\ ~Spend("refuse") /\ ~Spend("mute") /\ ~Spend("pollerr")
         /\ budget'["refuse"] = budget["refuse"]
<1>1. \A f \in {"refuse", "mute", "pollerr"} :
         /\ f \in DOMAIN Budget
         /\ budget[f] \in Nat /\ budget'[f] = Budget[f]
         /\ budget[f] <= Budget[f] /\ budget'[f] <= budget[f] /\ Budget[f] \in Nat
  BY HelperAssumption DEF TInv, HelperData, Counted, Falls, Undisturbed, Faults
<1>2. \A f \in {"refuse", "mute", "pollerr"} : budget[f] = Budget[f] /\ budget'[f] = budget[f]
  BY <1>1
<1>3. \A f \in {"refuse", "mute", "pollerr"} : ~Spend(f)
  BY <1>1, <1>2 DEF Spend, TInv, HelperData
<1> QED
  BY <1>2, <1>3 DEF Undisturbed

\* The task, the work queue's thread ...
LEMMA TaskKeepsClear ==
  ASSUME TInv, Places, Joint, Patient, Clear, Thread(Task), ~asserted'
  PROVE  Clear'
<1>1. Control /\ WorkWaits
  BY OthersWait DEF TInv, Thread
<1>2. \/ /\ \/ Init_(Task) \/ Disconnect(Task) \/ SetDisconnecting(Task)
            \/ MqttDisconnect(Task) \/ DisconnectWrite(Task) \/ DisconnectFailed(Task)
            \/ EvtDisconnect(Task)
         /\ UNCHANGED smf
      \/ OnDisconnect(Task) \/ DisconnectedEntry(Task) \/ TaskStep
  BY ThreeThreads, TaskApi DEF Thread, uplinkVars, smfVars
<1>3. /\ (\E l : TaskAt(l)) /\ UNCHANGED <<fd, resume>>
      /\ UNCHANGED <<client, sock, unread, dead>> \/ (client' = "idle" /\ unread' = FALSE)
  BY <1>1, <1>2, InitDoes, DisconnectDoes, SetDisconnectingDoes, MqttDisconnectDoes,
     DisconnectWriteDoes, DisconnectFailedDoes, TaskEvtDisconnectDoes,
     TaskOnDisconnectDoes, TaskEntryDoes, TaskStepDoes
<1>4. InTime' /\ Accepted'
  BY <1>3 DEF Clear, InTime, Accepted, TaskAt
<1>5. Known'
  <2> USE <1>1, ThreeThreads DEF Known, TaskAt
  <2>1. smf \in {"MQTT_CONNECTED", "MQTT_DISCONNECTED"} /\ mqtt_state \in MqttStates
    BY DEF TInv, HelperData, UplinkData
  <2>2. Known /\ TaskInState
    BY DEF Clear, Joint
  <2>3. CASE Init_(Task) /\ UNCHANGED smf
    <3>1. mqtt_state' = "DISCONNECTED" /\ smf = "MQTT_DISCONNECTED"
      BY <2>1, <2>2, <2>3, InitDoes DEF TaskInState, Listening, mqtt_state_set, MqttStates
    <3> QED
      BY <2>3, <3>1
  <2>4. CASE Disconnect(Task) /\ UNCHANGED smf
    BY <2>1, <2>2, <2>4, DisconnectDoes
  <2>5. CASE SetDisconnecting(Task) /\ UNCHANGED smf
    <3>1. mqtt_state = "CONNECTED" /\ mqtt_state' = "DISCONNECTING"
      BY <2>1, <2>2, <2>5, SetDisconnectingDoes
         DEF TaskInState, Listening, mqtt_state_set, LegalNext, MqttStates
    <3> QED
      BY <2>1, <2>2, <2>5, <3>1, SetDisconnectingDoes
  <2>6. CASE (MqttDisconnect(Task) \/ DisconnectWrite(Task)) /\ UNCHANGED smf
    BY <2>2, <2>6, MqttDisconnectDoes, DisconnectWriteDoes
  <2>7. CASE (DisconnectFailed(Task) \/ EvtDisconnect(Task)) /\ UNCHANGED smf
    <3>1. registered
      BY <2>2, <2>7, DisconnectFailedDoes, TaskEvtDisconnectDoes DEF TaskInState, Joint, Fresh
    <3>2. mqtt_state' = "DISCONNECTED" /\ TaskAt("on_disconnect")
      BY <2>7, <3>1, DisconnectFailedDoes, TaskEvtDisconnectDoes DEF mqtt_state_set
    <3> QED
      BY <3>2
  <2>8. CASE OnDisconnect(Task)
    <3>1. mqtt_state' = "DISCONNECTED" /\ smf' = "MQTT_DISCONNECTED"
      BY <2>1, <2>2, <2>8, TaskOnDisconnectDoes DEF TaskInState, Listening, MqttStates
    <3> QED
      BY <3>1
  <2>9. CASE DisconnectedEntry(Task)
    BY <2>2, <2>9, TaskEntryDoes
  <2>10. CASE TaskStep
    BY <2>1, <2>2, <2>10, TaskStepDoes
  <2> QED
    BY <1>2, <2>3, <2>4, <2>5, <2>6, <2>7, <2>8, <2>9, <2>10
<1> QED
  BY <1>4, <1>5 DEF Clear

\* ... which makes the connection ...
LEMMA WorkKeepsClear ==
  ASSUME TInv, Places, Joint, Patient, Clear, Thread(WorkQ), ~asserted'
  PROVE  Clear'
<1>1. Control /\ ~asserted
  BY DEF TInv, Thread
<1>2. \/ /\ \/ Connect(WorkQ) \/ GetAddrInfo(WorkQ) \/ MqttConnect(WorkQ)
            \/ Handshake(WorkQ) \/ Connecting(WorkQ)
         /\ UNCHANGED smf
      \/ (Send(WorkQ) \/ MqttSend(WorkQ) \/ Write(WorkQ)) /\ UNCHANGED smf
      \/ EvtDisconnect(WorkQ) /\ UNCHANGED smf
      \/ OnDisconnect(WorkQ) \/ DisconnectedEntry(WorkQ) \/ WorkStep
  BY ThreeThreads, WorkApi DEF Thread, uplinkVars, smfVars
<1>3. /\ smf \in {"MQTT_CONNECTED", "MQTT_DISCONNECTED"} /\ mqtt_state \in MqttStates
      /\ client \in {"idle", "tcp", "session"} /\ dead \subseteq open
      /\ Known /\ InTime /\ Accepted
  BY DEF TInv, HelperData, UplinkData, Clear
<1> USE <1>1, <1>3, ThreeThreads DEF Clear, InTime, Accepted, Known, WorkAt
<1>4. CASE (Connect(WorkQ) \/ MqttConnect(WorkQ)) /\ UNCHANGED smf
  <2>1. /\ UNCHANGED <<mqtt_state, dead, fd, resume>> /\ \E l : WorkAt(l)
        /\ UNCHANGED <<client, sock, unread>> \/ (client' = "idle" /\ unread' = FALSE)
        /\ pc[WorkQ] # "on_disconnect"
    BY <1>4, ConnectDoes, MqttConnectDoes
  <2> QED
    BY <1>4, <2>1
<1>5. CASE GetAddrInfo(WorkQ) /\ UNCHANGED smf
  <2>1. /\ UNCHANGED <<client, sock, unread, dead, fd, resume>> /\ \E l : WorkAt(l)
        /\ pc[WorkQ] = "getaddrinfo" /\ WorkQ \in mature
        /\ mqtt_state' \in {"TRANSPORT_CONNECTING", "DISCONNECTED"}
    BY <1>5, GetAddrInfoDoes DEF mqtt_state_set
  <2>2. mqtt_state = "DISCONNECTED" /\ Parked /\ pc[Task] \in Listening
    BY <2>1 DEF Joint, WorkInState, Matured, Working, Draining, MqttStates
  <2>3. smf = "MQTT_DISCONNECTED"
    BY <2>1, <2>2 DEF Parked, Listening
  <2> QED
    BY <1>5, <2>1, <2>3
<1>6. CASE Handshake(WorkQ) /\ UNCHANGED smf
  <2>1. /\ UNCHANGED <<unread, dead, fd, resume>> /\ \E l : WorkAt(l)
        /\ pc[WorkQ] = "handshake"
        /\ mqtt_state' \in {"TRANSPORT_CONNECTED", "DISCONNECTED"}
        /\ \/ client' = "tcp" /\ sock' \notin open
           \/ UNCHANGED <<client, sock>>
    BY <1>6, HandshakeDoes DEF mqtt_state_set
  <2>2. mqtt_state = "TRANSPORT_CONNECTING" /\ Parked /\ client = "idle"
    BY <2>1 DEF Joint, WorkInState, PollInState, LibInState, Working, Draining, MqttStates
  <2>3. smf = "MQTT_DISCONNECTED" /\ ~unread
    BY <2>2
  <2> QED
    BY <1>6, <2>1, <2>2, <2>3 DEF Parked
<1>7. CASE Connecting(WorkQ) /\ UNCHANGED smf
  <2>1. /\ UNCHANGED <<client, sock, unread, dead, fd, resume>> /\ WorkAt("rearm")
        /\ pc[WorkQ] = "connecting" /\ mqtt_state' = "CONNECTING"
    BY <1>7, ConnectingDoes DEF mqtt_state_set
  <2>2. mqtt_state = "TRANSPORT_CONNECTED"
    BY <2>1 DEF Joint, WorkInState, Working, Draining, MqttStates
  <2>3. smf = "MQTT_DISCONNECTED"
    BY <2>2
  <2> QED
    BY <1>7, <2>1, <2>3
<1>8. CASE (Send(WorkQ) \/ MqttSend(WorkQ) \/ Write(WorkQ)) /\ UNCHANGED smf
  <2>1. /\ UNCHANGED <<mqtt_state, fd, resume>> /\ \E l : WorkAt(l)
        /\ UNCHANGED <<client, sock, unread, dead>> \/ (client' = "idle" /\ unread' = FALSE)
        /\ pc[WorkQ] # "on_disconnect"
    BY <1>8, WorkSendDoes
  <2> QED
    BY <1>8, <2>1
<1>9. CASE EvtDisconnect(WorkQ) /\ UNCHANGED smf
  <2>1. registered
    BY <1>9, WorkEvtDisconnectDoes DEF Joint, WorkInState, Fresh, Working, Draining
  <2>2. /\ UNCHANGED <<client, sock, unread, dead, fd, resume>> /\ WorkAt("on_disconnect")
        /\ mqtt_state' = "DISCONNECTED"
    BY <1>9, <2>1, WorkEvtDisconnectDoes DEF mqtt_state_set
  <2> QED
    BY <2>2
<1>10. CASE OnDisconnect(WorkQ)
  <2>1. /\ UNCHANGED <<mqtt_state, client, sock, unread, dead, fd, resume>>
        /\ pc[WorkQ] = "on_disconnect" /\ WorkAt("disconnected_entry")
        /\ smf' = "MQTT_DISCONNECTED"
    BY <1>10, WorkOnDisconnectDoes
  <2>2. mqtt_state = "DISCONNECTED"
    BY <2>1 DEF Joint, WorkInState, Working, Draining, MqttStates
  <2> QED
    BY <2>1, <2>2
<1>11. CASE DisconnectedEntry(WorkQ) \/ WorkStep
  <2>1. /\ UNCHANGED <<mqtt_state, client, sock, unread, dead, fd, resume, smf>>
        /\ \E l : WorkAt(l)
        /\ pc[WorkQ] # "on_disconnect"
    BY <1>11, WorkEntryDoes, WorkStepDoes DEF Draining
  <2> QED
    BY <2>1
<1> QED
  BY <1>2, <1>4, <1>5, <1>6, <1>7, <1>8, <1>9, <1>10, <1>11

\* ... and the poll thread keep it clear.
LEMMA PollKeepsClear ==
  ASSUME TInv, Places, Joint, Patient, Clear, Thread(Poll), ~asserted',
         ~Spend("refuse"), ~Spend("mute"), ~Spend("pollerr")
  PROVE  Clear'
<1>1. Control /\ ~asserted /\ WorkWaits /\ TaskWaits
  BY OthersWait DEF TInv, Thread
<1>2. \/ /\ \/ Send(Poll) \/ MqttSend(Poll) \/ Write(Poll)
            \/ EvtDisconnect(Poll) \/ EvtConnack
            \/ SemTake \/ Loop \/ PollClosed \/ PollOpen \/ InputDone
            \/ MqttInput \/ MqttLive \/ MqttAbort
         /\ UNCHANGED smf
      \/ OnDisconnect(Poll) \/ DisconnectedEntry(Poll) \/ CallbackStep
  BY ThreeThreads, PollApi DEF Thread, PollStep, uplinkVars, smfVars
<1>3. /\ smf \in {"MQTT_CONNECTED", "MQTT_DISCONNECTED"} /\ mqtt_state \in MqttStates
      /\ client \in {"idle", "tcp", "session"} /\ dead \subseteq open
      /\ client # "idle" => sock \in open
      /\ Known /\ InTime /\ Accepted
  BY DEF TInv, HelperData, UplinkData, Clear
<1>4. client = "tcp" => mqtt_state \in {"TRANSPORT_CONNECTED", "CONNECTING"}
  BY <1>3 DEF Joint, LibInState, MqttStates
<1>5. client = "tcp" /\ pc[Poll] # "sem_take" => mqtt_state = "CONNECTING"
  BY <1>4 DEF Joint, PollInState, Parked
<1> USE <1>1, <1>3, ThreeThreads DEF Clear, InTime, Accepted, Known, PollAt
<1>6. CASE (Send(Poll) \/ MqttSend(Poll) \/ Write(Poll)) /\ UNCHANGED smf
  <2>1. /\ UNCHANGED <<mqtt_state, fd, resume>>
        /\ pc[Poll] \in SendLabels
        /\ \E l : l \notin {"on_connack", "evt_refused"} /\ PollAt(l)
        /\ UNCHANGED <<client, sock, unread, dead>> \/ (client' = "idle" /\ unread' = FALSE)
    BY <1>6, PollSendDoes DEF SendLabels, Close
  <2> QED
    BY <1>6, <2>1 DEF SendLabels
<1>7. CASE EvtDisconnect(Poll) /\ UNCHANGED smf
  <2>1. registered
    BY <1>7, PollEvtDisconnectDoes DEF Joint, PollInState, Parked, Fresh
  <2>2. /\ UNCHANGED <<client, sock, unread, dead, fd, resume>> /\ PollAt("on_disconnect")
        /\ mqtt_state' = "DISCONNECTED" /\ pc[Poll] = "evt_disconnect"
    BY <1>7, <2>1, PollEvtDisconnectDoes DEF mqtt_state_set
  <2> QED
    BY <1>7, <2>2
<1>8. CASE EvtConnack /\ UNCHANGED smf
  <2>1. /\ pc[Poll] = "evt_accepted" /\ mqtt_state = "CONNECTING" /\ registered
        /\ client = "session" /\ resume = "input_done"
    BY <1>8, EvtConnackDoes DEF Joint, PollInState, Fresh
  <2>2. /\ UNCHANGED <<client, sock, unread, dead, fd, resume>> /\ PollAt("on_connack")
        /\ mqtt_state' = "CONNECTED"
    BY <1>8, <2>1, EvtConnackDoes DEF mqtt_state_set
  <2>3. smf = "MQTT_DISCONNECTED"
    BY <2>1
  <2> QED
    BY <1>8, <2>1, <2>2, <2>3 DEF TaskWaits
<1>9. CASE (SemTake \/ Loop \/ PollClosed \/ PollOpen \/ InputDone) /\ UNCHANGED smf
  <2>1. UNCHANGED <<mqtt_state, client, sock, unread, dead, resume>>
    BY <1>9, LoopDoes
  <2>2. /\ pc[Poll] \in LoopLabels
        /\ \E l \in LoopLabels : PollAt(l)
    BY <1>9, LoopDoes DEF LoopLabels
  <2>3. client = "tcp" /\ pc'[Poll] # "sem_take" =>
            fd' = sock /\ pc'[Poll] \in {"loop", "poll", "mqtt_input"}
    BY <1>5, <1>9, LoopDoes
  <2> QED
    BY <1>9, <2>1, <2>2, <2>3 DEF LoopLabels
<1>10. CASE MqttInput /\ UNCHANGED smf
  <2>1. /\ pc[Poll] = "mqtt_input" /\ UNCHANGED <<mqtt_state, fd>>
        /\ \/ client' = "session" /\ resume' = "input_done"
              /\ \E l \in {"evt_accepted", "on_publish", "mqtt_send"} : PollAt(l)
           \/ client' = "session" /\ PollAt("input_done")
           \/ client' = "idle" /\ unread' = FALSE /\ PollAt("evt_disconnect")
           \/ PollAt("mqtt_abort") /\ client # "tcp" /\ UNCHANGED <<client, unread>>
    BY <1>10, MqttInputDoes DEF Close
  <2> QED
    BY <1>10, <2>1
<1>11. CASE (MqttLive \/ MqttAbort) /\ UNCHANGED smf
  <2>1. /\ pc[Poll] \in {"mqtt_live", "mqtt_abort"} /\ UNCHANGED mqtt_state
        /\ client # "tcp"
        /\ \/ client' = "session" /\ PollAt("loop") /\ UNCHANGED client
           \/ client' = "idle" /\ unread' = FALSE /\ PollAt("evt_disconnect")
           \/ PollAt("sem_take") /\ UNCHANGED <<client, unread>>
    BY <1>11, LiveAbortDoes DEF Close
  <2> QED
    BY <1>11, <2>1
<1>12. CASE OnDisconnect(Poll)
  <2>1. /\ UNCHANGED <<mqtt_state, client, sock, unread, dead, fd, resume>>
        /\ pc[Poll] = "on_disconnect" /\ PollAt("disconnected_entry")
        /\ smf' = "MQTT_DISCONNECTED"
    BY <1>12, PollOnDisconnectDoes
  <2>2. mqtt_state = "DISCONNECTED"
    BY <2>1 DEF Joint, PollInState
  <2> QED
    BY <2>1, <2>2
<1>13. CASE DisconnectedEntry(Poll)
  <2>1. /\ UNCHANGED <<mqtt_state, client, sock, unread, dead, fd, resume, smf>>
        /\ pc[Poll] = "disconnected_entry"
        /\ \E l : l \notin {"on_connack", "evt_refused"} /\ PollAt(l)
    BY <1>13, PollEntryDoes
  <2> QED
    BY <2>1
<1>14. CASE CallbackStep
  <2>1. /\ UNCHANGED <<mqtt_state, client, sock, unread, dead, fd>>
        /\ pc[Poll] \in PollEvtLabels
        /\ \E l : l \notin {"on_connack", "evt_refused"} /\ PollAt(l)
    BY <1>14, CallbackDoes DEF PollEvtLabels, Resumes
  <2>2. client # "tcp"
    BY <2>1 DEF PollEvtLabels
  <2>3. CASE pc[Poll] = "on_connack"
    <3>1. client = "session" /\ resume = "input_done"
      BY <2>3 DEF Joint, Greeting
    <3>2. mqtt_state \in {"CONNECTED", "DISCONNECTING"}
      BY <2>3, <3>1 DEF Joint, LibInState, LoopLabels, MqttStates
    <3>3. smf' = "MQTT_CONNECTED"
      BY <1>14, <2>3, CallbackDoes
    <3> QED
      BY <2>1, <2>2, <3>2, <3>3
  <2>4. CASE pc[Poll] # "on_connack"
    <3>1. UNCHANGED smf
      BY <1>14, <2>4, CallbackDoes
    <3> QED
      BY <2>1, <2>2, <2>4, <3>1 DEF PollEvtLabels
  <2> QED
    BY <2>3, <2>4
<1> QED
  BY <1>2, <1>6, <1>7, <1>8, <1>9, <1>10, <1>11, <1>12, <1>13, <1>14

\* So does what happens around them, but for the faults that are excluded.
LEMMA AroundKeepsClear ==
  ASSUME TInv, Clear, TimePasses \/ TimerExpires \/ Environment,
         ~Spend("refuse"), budget'["refuse"] = budget["refuse"]
  PROVE  Clear'
<1>1. UNCHANGED <<mqtt_state, client, sock, unread, fd, pc, resume, smf>>
  BY EnvironmentDoes
<1>2. client = "tcp" => UNCHANGED dead
  <2>1. CASE PdnEvent
    <3>1. /\ budget["refuse"] \in Nat
          /\ client = "tcp" /\ link => budget'["refuse"] = budget["refuse"] - 1
      BY <2>1, HelperAssumption DEF PdnEvent, TInv, HelperData, Faults
    <3>2. client = "tcp" => ~link
      BY <3>1
    <3> QED
      BY <2>1, <3>2 DEF PdnEvent
  <2>2. CASE Sample
    BY <2>2 DEF Sample, lib
  <2>3. CASE Drop \/ DropWhileConnecting
    BY <2>3 DEF Drop, DropWhileConnecting
  <2>4. CASE TimePasses \/ TimerExpires
    BY <2>4 DEF TimePasses, TimerExpires, lib
  <2> QED
    BY <2>1, <2>2, <2>3, <2>4 DEF Environment
<1> QED
  BY <1>1, <1>2 DEF Clear, InTime, Accepted, Known

\* When every thread waits, the two-state machine of the transport module and the
\* state machine of the helper agree on whether there is a session, if every
\* CONNECT so far was answered and accepted and poll() never failed.
THEOREM MachinesSettle ==
  ASSUME Patient
  PROVE  Spec => []MachinesAgree
<1> DEFINE Seen == Undisturbed /\ ~asserted => Clear
<1>1. Init => Counted /\ Seen
  <2> SUFFICES ASSUME Init PROVE Counted /\ Seen
    OBVIOUS
  <2>1. Counted
    BY HelperAssumption DEF Init, HelperInit, Counted
  <2>2. Clear
    BY ThreeThreads DEF Init, HelperInit, Clear, InTime, Accepted, Known
  <2> QED
    BY <2>1, <2>2
<1>2. /\ TInv /\ TInv' /\ Places /\ Sound
      /\ Counted /\ Seen /\ [Next]_vars
      => (Counted /\ Seen)'
  <2> SUFFICES ASSUME TInv, TInv', Places, Sound, Counted, Seen, [Next]_vars
               PROVE  Counted' /\ Seen'
    OBVIOUS
  <2>1. CASE UNCHANGED vars
    BY <2>1 DEF vars, helperVars, uplinkVars, smfVars, machine, boundary, lib, returns,
       Counted, Undisturbed, Clear, InTime, Accepted, Known
  <2>2. CASE Next
    <3>1. Falls
      BY <2>2, BudgetFalls
    <3>2. Counted'
      <4>1. \A f \in DOMAIN Budget :
              Budget[f] \in Nat /\ budget[f] \in Nat /\ budget'[f] \in Nat
        BY HelperAssumption DEF TInv, HelperData
      <4> QED
        BY <3>1, <4>1 DEF Counted, Falls
    <3>3. Seen'
      <4> SUFFICES ASSUME Undisturbed', ~asserted' PROVE Clear'
        OBVIOUS
      <4>1. /\ Undisturbed
            /\ ~Spend("refuse") /\ ~Spend("mute") /\ ~Spend("pollerr")
            /\ budget'["refuse"] = budget["refuse"]
        BY <3>1, Undisturbing
      <4>2. ASSUME NEW t \in Threads, Thread(t) PROVE Clear'
        <5>1. Joint /\ Clear
          BY <4>1, <4>2 DEF Thread, Sound
        <5> QED
          BY <4>1, <4>2, <5>1, TaskKeepsClear, WorkKeepsClear, PollKeepsClear, ThreeThreads
      <4>3. CASE TimePasses \/ TimerExpires \/ Environment
        <5>1. ~asserted
          BY <4>3, EnvironmentDoes
        <5> QED
          BY <4>1, <4>3, <5>1, AroundKeepsClear
      <4> QED
        BY <2>2, <4>2, <4>3 DEF Next
    <3> QED
      BY <3>2, <3>3
  <2> QED
    BY <2>1, <2>2
<1>3. TInv /\ Sound /\ Seen => MachinesAgree
  <2> SUFFICES ASSUME TInv, Sound, Seen, Idle, Undisturbed
               PROVE  smf = "MQTT_CONNECTED" <=> mqtt_state = "CONNECTED"
    BY DEF MachinesAgree
  <2>1. ~asserted
    BY DEF Sound, Idle
  <2>2. Joint /\ Known
    BY <2>1 DEF Sound, Clear
  <2>3. \A t \in Threads : pc[t] \notin {"on_disconnect", "on_connack"}
    BY ThreeThreads DEF Idle
  <2>4. mqtt_state # "DISCONNECTING" /\ smf \in {"MQTT_CONNECTED", "MQTT_DISCONNECTED"}
    BY <2>2 DEF Joint, TaskInState, Idle, TInv, UplinkData
  <2> QED
    BY <2>2, <2>3, <2>4, ThreeThreads DEF Known
<1> QED
  BY <1>1, <1>2, <1>3, Typed, SoundAlways, PTL DEF Spec
=============================================================================
