----------------------------- MODULE Uplink_proofs -----------------------------
(***************************************************************************)
(* Type correctness of the transport module on top of the MQTT helper, and *)
(* that the module follows the network status, for all threads, sockets,   *)
(* queue lengths and numbers of faults, whether or not I/O is patient.     *)
(*                                                                         *)
(* A call of the API returns to where ret, after or resume say, so types   *)
(* need the discipline of those returns: Good says of one thread that it   *)
(* always has somewhere to return to, and Control says it of all.          *)
(***************************************************************************)
EXTENDS Uplink, MqttHelper_proofs, SequenceTheorems, TLAPS

\* Inside a call of the API; inside the handling of a DISCONNECT event;
\* inside an event of the poll thread that interrupted mqtt_input or mqtt_abort.
ApiLabels == {"init", "deinit", "connect", "getaddrinfo", "mqtt_connect",
              "handshake", "connecting", "disconnect", "set_disconnecting",
              "mqtt_disconnect", "disconnect_write", "disconnect_failed",
              "send", "mqtt_send", "write"}
EvtLabels == {"evt_disconnect", "on_disconnect", "disconnected_entry"}
PollEvtLabels == {"evt_accepted", "evt_refused", "on_connack", "connected_entry",
                  "subscribe", "submit_pub", "on_publish"}

\* Where a call made by t returns to, where a DISCONNECT event does, and where
\* the library goes on after the events of the poll thread.
Back(t) == CASE t = Task  -> {"sub_wait"}
             [] t = WorkQ -> {"rearm", "drain_gps", "drain_sensor"}
             [] OTHER     -> {"subscribe", "submit_pub", "on_publish"}
InCall(t) == Back(t) \cup {"disconnect_failed"}
After(t)  == InCall(t) \cup (IF t = Poll THEN {"sem_take", "mqtt_abort"} ELSE {})
Resumes   == {"input_done", "mqtt_abort", "sem_take"}

\* Thread t at label p, with r, a and s in ret, after and resume.
Good(t, p, r, a, s) ==
    /\ p \in Labels
    /\ r \in Labels \cup {None}
    /\ a \in Labels \cup {None}
    /\ s \in Labels \cup {None}
    /\ p \in ApiLabels => r \in Back(t)
    /\ p \in EvtLabels => /\ a \in After(t)
                          /\ a = "disconnect_failed" => r \in Back(t)
    /\ (t = Poll /\ (\/ p \in PollEvtLabels \cup ApiLabels
                     \/ p \in EvtLabels /\ a \in InCall(t))) => s \in Resumes

Control ==
    /\ pc    \in [Threads -> Labels]
    /\ ret   \in [Threads -> Labels \cup {None}]
    /\ after \in [Threads -> Labels \cup {None}]
    /\ resume \in Labels \cup {None}
    /\ \A t \in Threads : Good(t, pc[t], ret[t], after[t], resume)

\* The rest of TypeOK.
UplinkData ==
    /\ smf \in {"MQTT_CONNECTED", "MQTT_DISCONNECTED"}
    /\ status \in BOOLEAN /\ seen \in BOOLEAN
    /\ notif \in Seq(Channels) /\ Len(notif) <= NotifLen
    /\ missed \in BOOLEAN
    /\ workq \in Seq(Works)
    /\ running \in Works \cup {None}
    /\ canceling \subseteq Works
    /\ armed \in BOOLEAN
    /\ gps_data_queue \in 0..QueueLen /\ sensor_data_queue \in 0..QueueLen

Maturing == mature \subseteq Threads \cup {Timer}

TInv == HelperData /\ UplinkData /\ Maturing /\ Control

\* The status module follows the network, at every point of transport_task.
Follows ==
    (~missed /\ ~Contains(notif, "NETWORK_CHAN")) =>
        IF pc[Task] = "modem_info" THEN seen = link ELSE status = link

-----------------------------------------------------------------------------
(* Control *)

\* A step of thread t alone.
LEMMA ThreadStep ==
  ASSUME Control, NEW t \in Threads, NEW p, NEW r, NEW a, NEW s,
         pc' = [pc EXCEPT ![t] = p],
         ret' = [ret EXCEPT ![t] = r],
         after' = [after EXCEPT ![t] = a],
         resume' = s, s = resume \/ t = Poll,
         Good(t, p, r, a, s)
  PROVE  Control'
<1>1. /\ pc' \in [Threads -> Labels]
      /\ ret' \in [Threads -> Labels \cup {None}]
      /\ after' \in [Threads -> Labels \cup {None}]
      /\ resume' \in Labels \cup {None}
  BY DEF Control, Good
<1>2. ASSUME NEW u \in Threads
      PROVE  Good(u, pc'[u], ret'[u], after'[u], resume')
  <2>1. CASE u = t
    BY <2>1 DEF Control
  <2>2. CASE u # t
    <3>1. pc'[u] = pc[u] /\ ret'[u] = ret[u] /\ after'[u] = after[u]
      BY <2>2 DEF Control
    <3>2. Good(u, pc[u], ret[u], after[u], resume)
      BY DEF Control
    <3> QED
      BY <2>2, <3>1, <3>2 DEF Good
  <2> QED
    BY <2>1, <2>2
<1> QED
  BY <1>1, <1>2 DEF Control

\* Returns are left alone.
LEMMA GotoControl ==
  ASSUME Control, NEW t \in Threads, NEW l \in Labels,
         Goto(t, l), UNCHANGED returns,
         l \in ApiLabels => pc[t] \in ApiLabels,
         l \in EvtLabels => pc[t] \in EvtLabels,
         l \in PollEvtLabels => t # Poll \/ pc[t] \in PollEvtLabels \cup ApiLabels
  PROVE  Control'
<1>1. Good(t, pc[t], ret[t], after[t], resume)
  BY DEF Control
<1>2. Good(t, l, ret[t], after[t], resume)
  BY <1>1 DEF Good, ApiLabels, EvtLabels, PollEvtLabels
<1>3. /\ ret' = [ret EXCEPT ![t] = ret[t]]
      /\ after' = [after EXCEPT ![t] = after[t]]
      /\ resume' = resume
  BY DEF returns, Control
<1> QED
  BY <1>2, <1>3, ThreadStep DEF Goto

\* A call of the API.
LEMMA CallControl ==
  ASSUME Control, NEW t \in Threads, NEW l \in ApiLabels, NEW b \in Back(t),
         Call(t, l, b),
         t # Poll \/ pc[t] \in PollEvtLabels
  PROVE  Control'
<1>1. Good(t, pc[t], ret[t], after[t], resume)
  BY DEF Control
<1>2. l \in Labels /\ b \in Labels /\ l \notin EvtLabels
  BY DEF ApiLabels, EvtLabels, Back, Labels, HelperLabels, RunLabels, LockLabels,
         IoLabels, Callbacks, UplinkLabels
<1>3. Good(t, l, b, after[t], resume)
  BY <1>1, <1>2 DEF Good
<1>4. after' = [after EXCEPT ![t] = after[t]] /\ resume' = resume
  BY DEF Call, Control
<1> QED
  BY <1>3, <1>4, ThreadStep DEF Call, Goto

\* Where calls return to is outside of every call.
LEMMA BackLabels ==
  ASSUME NEW t \in Threads, NEW b \in Back(t)
  PROVE  /\ b \in Labels
         /\ b \notin ApiLabels \cup EvtLabels
         /\ b \in PollEvtLabels => t \notin Callers
  BY UplinkAssumption DEF Back, ApiLabels, EvtLabels, PollEvtLabels, Labels,
         HelperLabels, UplinkLabels, RunLabels, LockLabels, IoLabels, Callbacks

\* The return from one.
LEMMA ReturnControl ==
  ASSUME Control, NEW t \in Threads, pc[t] \in ApiLabels, Return(t)
  PROVE  Control'
<1>1. Good(t, pc[t], ret[t], after[t], resume)
  BY DEF Control
<1>2. ret[t] \in Back(t)
  BY <1>1 DEF Good
<1>3. Good(t, ret[t], None, after[t], resume)
  BY <1>1, <1>2, BackLabels DEF Good
<1>4. after' = [after EXCEPT ![t] = after[t]] /\ resume' = resume
  BY DEF Return, Control
<1> QED
  BY <1>3, <1>4, ThreadStep DEF Return, Goto

\* A DISCONNECT event during a call, after which the call goes on ...
LEMMA RaiseControl ==
  ASSUME Control, NEW t \in Threads, NEW l \in After(t), l \notin Back(t), Raise(t, l),
         l = "disconnect_failed" => pc[t] \in ApiLabels
  PROVE  Control'
<1>1. Good(t, pc[t], ret[t], after[t], resume)
  BY DEF Control
<1>2. l \in Labels
  BY BackLabels DEF After, InCall, Labels, HelperLabels, RunLabels, LockLabels
<1>3. Good(t, "evt_disconnect", ret[t], l, resume)
  BY <1>1, <1>2 DEF Good, InCall, ApiLabels, EvtLabels, PollEvtLabels, Labels,
                    HelperLabels, RunLabels
<1>4. ret' = [ret EXCEPT ![t] = ret[t]] /\ resume' = resume
  BY DEF Raise, Control
<1> QED
  BY <1>3, <1>4, ThreadStep DEF Raise, Goto

\* ... or is over.
LEMMA RaiseReturnControl ==
  ASSUME Control, NEW t \in Threads, pc[t] \in ApiLabels, RaiseReturn(t)
  PROVE  Control'
<1>1. Good(t, pc[t], ret[t], after[t], resume)
  BY DEF Control
<1>2. ret[t] \in Back(t) /\ ret[t] \in Labels /\ ret[t] \notin ApiLabels
  BY <1>1, BackLabels DEF Good
<1>3. Good(t, "evt_disconnect", None, ret[t], resume)
  BY <1>1, <1>2 DEF Good, After, InCall, ApiLabels, EvtLabels, PollEvtLabels, Labels,
                    HelperLabels, RunLabels
<1>4. resume' = resume
  BY DEF RaiseReturn
<1> QED
  BY <1>3, <1>4, ThreadStep DEF RaiseReturn, Goto

\* The end of a DISCONNECT event.
LEMMA HandledControl ==
  ASSUME Control, NEW t \in Threads, pc[t] \in EvtLabels, DisconnectHandled(t)
  PROVE  Control'
<1>1. Good(t, pc[t], ret[t], after[t], resume)
  BY DEF Control
<1>2. after[t] \in After(t) /\ (after[t] = "disconnect_failed" => ret[t] \in Back(t))
  BY <1>1 DEF Good
<1>3. Good(t, after[t], ret[t], None, resume)
  <2>1. CASE after[t] \in Back(t)
    BY <1>1, <2>1, BackLabels DEF Good, InCall
  <2>2. CASE after[t] = "disconnect_failed"
    BY <1>1, <1>2, <2>2 DEF Good, InCall, EvtLabels, ApiLabels, PollEvtLabels, Labels,
                           HelperLabels, RunLabels, LockLabels
  <2>3. CASE t = Poll /\ after[t] \in {"sem_take", "mqtt_abort"}
    BY <1>1, <2>3 DEF Good, EvtLabels, ApiLabels, PollEvtLabels, Labels,
                           HelperLabels, RunLabels, LockLabels
  <2> QED
    BY <1>2, <2>1, <2>2, <2>3 DEF After, InCall
<1>4. ret' = [ret EXCEPT ![t] = ret[t]] /\ resume' = resume
  BY DEF DisconnectHandled, Control
<1> QED
  BY <1>3, <1>4, ThreadStep DEF DisconnectHandled, Goto

\* An event of the poll thread begins, at l, and will be followed by s ...
LEMMA EventControl ==
  ASSUME Control, NEW l \in PollEvtLabels, NEW s \in Resumes,
         Goto(Poll, l), resume' = s, UNCHANGED <<ret, after>>
  PROVE  Control'
<1>1. Poll \in Threads
  BY DEF Threads
<1>2. Good(Poll, pc[Poll], ret[Poll], after[Poll], resume)
  BY <1>1 DEF Control
<1>3. Good(Poll, l, ret[Poll], after[Poll], s)
  BY <1>2 DEF Good, Resumes, PollEvtLabels, EvtLabels, ApiLabels, Labels,
              HelperLabels, UplinkLabels, RunLabels, LockLabels, Callbacks
<1>4. ret' = [ret EXCEPT ![Poll] = ret[Poll]] /\ after' = [after EXCEPT ![Poll] = after[Poll]]
  BY DEF Control
<1> QED
  BY <1>1, <1>3, <1>4, ThreadStep DEF Goto

\* ... and ends.
LEMMA EventHandledControl ==
  ASSUME Control, pc[Poll] \in PollEvtLabels, EventHandled
  PROVE  Control'
<1>1. Poll \in Threads
  BY DEF Threads
<1>2. Good(Poll, pc[Poll], ret[Poll], after[Poll], resume)
  BY <1>1 DEF Control
<1>3. Good(Poll, resume, ret[Poll], after[Poll], None)
  BY <1>2 DEF Good, Resumes, PollEvtLabels, EvtLabels, ApiLabels, Labels,
              HelperLabels, RunLabels, LockLabels
<1>4. ret' = [ret EXCEPT ![Poll] = ret[Poll]] /\ after' = [after EXCEPT ![Poll] = after[Poll]]
  BY DEF EventHandled, Control
<1> QED
  BY <1>1, <1>3, <1>4, ThreadStep DEF EventHandled, Goto

\* Control holds of the primed variables if they are unchanged.
LEMMA ControlUnchanged ==
  ASSUME Control, UNCHANGED <<pc, returns>>
  PROVE  Control'
  BY DEF Control, returns, Good

-----------------------------------------------------------------------------
(* The API *)

\* Steps of calls in the calling thread.
LEMMA ApiKeepsControl ==
  ASSUME Control, NEW t \in Threads, ApiStep(t)
  PROVE  Control'
<1> USE DEF Labels, HelperLabels, RunLabels, LockLabels, IoLabels, ApiLabels,
            EvtLabels, PollEvtLabels
<1>1. CASE Init_(t)
  BY <1>1, ReturnControl DEF Init_
<1>2. CASE Deinit(t)
  BY <1>2, ReturnControl DEF Deinit
<1>3. CASE Connect(t)
  BY <1>3, GotoControl, ReturnControl DEF Connect
<1>4. CASE GetAddrInfo(t)
  BY <1>4, GotoControl, ReturnControl DEF GetAddrInfo
<1>5. CASE MqttConnect(t)
  BY <1>5, GotoControl DEF MqttConnect
<1>6. CASE Handshake(t)
  BY <1>6, GotoControl, ReturnControl DEF Handshake
<1>7. CASE Connecting(t)
  BY <1>7, ReturnControl DEF Connecting
<1>8. CASE Disconnect(t)
  BY <1>8, GotoControl, ReturnControl DEF Disconnect
<1>9. CASE SetDisconnecting(t)
  BY <1>9, GotoControl DEF SetDisconnecting
<1>10. CASE MqttDisconnect(t)
  BY <1>10, GotoControl DEF MqttDisconnect
<1>11. CASE DisconnectWrite(t)
  <2>1. "disconnect_failed" \in After(t) /\ "disconnect_failed" \notin Back(t)
    BY BackLabels DEF After, InCall
  <2> QED
    BY <1>11, <2>1, RaiseReturnControl, RaiseControl DEF DisconnectWrite
<1>12. CASE DisconnectFailed(t)
  <2>1. CASE registered
    <3>1. Good(t, pc[t], ret[t], after[t], resume)
      BY DEF Control
    <3>2. ret[t] \in Back(t) /\ ret[t] \in Labels /\ ret[t] \notin ApiLabels
      BY <1>12, <3>1, BackLabels DEF Good, DisconnectFailed
    <3>3. Good(t, "on_disconnect", None, ret[t], resume)
      BY <1>12, <3>1, <3>2 DEF Good, After, InCall, DisconnectFailed, Callbacks
    <3> QED
      BY <1>12, <2>1, <3>3, ThreadStep DEF DisconnectFailed, Goto
  <2>2. CASE ~registered
    BY <1>12, <2>2, ReturnControl DEF DisconnectFailed
  <2> QED
    BY <2>1, <2>2
<1>13. CASE Send(t)
  BY <1>13, GotoControl, ReturnControl DEF Send
<1>14. CASE MqttSend(t)
  BY <1>14, GotoControl, ReturnControl DEF MqttSend
<1>15. CASE Write(t)
  BY <1>15, ReturnControl, RaiseReturnControl DEF Write
<1>16. CASE EvtDisconnect(t)
  BY <1>16, GotoControl, HandledControl DEF EvtDisconnect, Callbacks
<1> QED
  BY <1>1, <1>2, <1>3, <1>4, <1>5, <1>6, <1>7, <1>8, <1>9, <1>10, <1>11,
     <1>12, <1>13, <1>14, <1>15, <1>16 DEF ApiStep

-----------------------------------------------------------------------------
(* The poll thread *)

\* The library tells the poll thread, which goes on at l.
LEMMA CloseAndTellControl ==
  ASSUME Control, NEW l \in {"mqtt_abort", "sem_take"}, CloseAndTell(l)
  PROVE  Control'
<1>1. Poll \in Threads /\ l \in After(Poll) /\ l \in Resumes
  BY DEF Threads, After, Resumes
<1>2. l \notin Back(Poll) /\ l # "disconnect_failed"
  BY <1>1, BackLabels, HelperAssumption, UplinkAssumption DEF Back, Threads
<1>3. CASE client = "session" /\ Raise(Poll, l)
  BY <1>1, <1>2, <1>3, RaiseControl
<1>4. CASE Goto(Poll, "evt_refused") /\ resume' = l /\ UNCHANGED <<ret, after>>
  BY <1>1, <1>4, EventControl DEF PollEvtLabels
<1> QED
  BY <1>3, <1>4 DEF CloseAndTell

\* Whatever mqtt_input receives, the poll thread knows where to go on.
LEMMA ReceivedControl ==
  ASSUME Control, pc[Poll] = "mqtt_input", Received
  PROVE  Control'
<1>1. Poll \in Threads
  BY DEF Threads
<1> USE DEF Labels, HelperLabels, RunLabels, LockLabels, IoLabels, Callbacks,
            ApiLabels, EvtLabels, PollEvtLabels
<1>2. CASE /\ Goto(Poll, "evt_accepted") \/ Goto(Poll, "on_publish")
           /\ resume' = "input_done"
           /\ UNCHANGED <<ret, after>>
  BY <1>2, EventControl DEF Resumes
<1>3. CASE CloseAndTell("mqtt_abort")
  BY <1>3, CloseAndTellControl
<1>4. CASE /\ Goto(Poll, "mqtt_send")
           /\ ret' = [ret EXCEPT ![Poll] = "on_publish"]
           /\ resume' = "input_done"
           /\ UNCHANGED after
  <2>1. Good(Poll, pc[Poll], ret[Poll], after[Poll], resume)
    BY <1>1 DEF Control
  <2>2. "on_publish" \in Back(Poll)
    BY HelperAssumption, UplinkAssumption DEF Back
  <2>3. Good(Poll, "mqtt_send", "on_publish", after[Poll], "input_done")
    BY <2>1, <2>2 DEF Good, Resumes
  <2>4. after' = [after EXCEPT ![Poll] = after[Poll]]
    BY <1>4 DEF Control
  <2> QED
    BY <1>1, <1>4, <2>3, <2>4, ThreadStep DEF Goto
<1>5. CASE Goto(Poll, "input_done") /\ UNCHANGED returns
  BY <1>1, <1>5, GotoControl
<1> QED
  BY <1>2, <1>3, <1>4, <1>5 DEF Received

\* Steps of the poll thread outside of calls.
LEMMA PollKeepsControl ==
  ASSUME Control, PollStep
  PROVE  Control'
<1>1. Poll \in Threads /\ "sem_take" \in After(Poll) /\ "sem_take" \notin Back(Poll)
  BY HelperAssumption, UplinkAssumption DEF Threads, After, Back
<1> USE DEF Labels, HelperLabels, RunLabels, LockLabels, IoLabels, ApiLabels,
            EvtLabels, PollEvtLabels
<1>2. CASE EvtConnack
  BY <1>1, <1>2, GotoControl, EventHandledControl DEF EvtConnack, Callbacks
<1>3. CASE SemTake
  BY <1>1, <1>3, GotoControl DEF SemTake
<1>4. CASE Loop
  BY <1>1, <1>4, GotoControl DEF Loop
<1>5. CASE PollClosed
  BY <1>1, <1>5, GotoControl DEF PollClosed
<1>6. CASE PollOpen
  BY <1>1, <1>6, GotoControl DEF PollOpen
<1>7. CASE MqttLive
  BY <1>1, <1>7, GotoControl, RaiseControl DEF MqttLive
<1>8. CASE MqttInput
  BY <1>1, <1>8, GotoControl, ReceivedControl, CloseAndTellControl DEF MqttInput
<1>9. CASE InputDone
  BY <1>1, <1>9, GotoControl DEF InputDone
<1>10. CASE MqttAbort
  BY <1>1, <1>10, GotoControl, CloseAndTellControl DEF MqttAbort
<1> QED
  BY <1>2, <1>3, <1>4, <1>5, <1>6, <1>7, <1>8, <1>9, <1>10 DEF PollStep

-----------------------------------------------------------------------------
(* The transport module *)

\* A notification is queued within bounds.
LEMMA NotifyTyped ==
  ASSUME UplinkData, NEW c \in Channels, Notify(c)
  PROVE  /\ notif' \in Seq(Channels) /\ Len(notif') <= NotifLen
         /\ missed' \in BOOLEAN
<1>1. CASE Len(notif) < NotifLen /\ notif' = Append(notif, c) /\ UNCHANGED missed
  BY <1>1, UplinkAssumption, AppendProperties DEF UplinkData
<1>2. CASE Len(notif) = NotifLen /\ missed' = (missed \/ c = "NETWORK_CHAN") /\ UNCHANGED notif
  BY <1>2 DEF UplinkData
<1> QED
  BY <1>1, <1>2 DEF Notify

\* A submitted work is queued among works.
LEMMA SubmitTyped ==
  ASSUME workq \in Seq(Works), NEW w \in Works, Submit(w)
  PROVE  workq' \in Seq(Works)
  BY AppendProperties DEF Submit

\* Taking a work off the queue leaves a queue of works.
LEMMA UnqueueTyped ==
  ASSUME workq \in Seq(Works), NEW w, Unqueue(w)
  PROVE  workq' \in Seq(Works)
<1>1. CASE UNCHANGED workq
  BY <1>1
<1>2. ASSUME NEW i \in DOMAIN workq, workq' = RemoveAt(workq, i)
      PROVE  workq' \in Seq(Works)
  <2>1. i \in 1..Len(workq)
    BY LenProperties
  <2>2. /\ SubSeq(workq, 1, i-1) \in Seq(Works)
        /\ SubSeq(workq, i+1, Len(workq)) \in Seq(Works)
    BY <2>1, LenProperties, SubSeqProperties
  <2> QED
    BY <1>2, <2>2, ConcatProperties DEF RemoveAt
<1> QED
  BY <1>1, <1>2 DEF Unqueue

\* A cancellation leaves works in the queue and keeps note of works.
LEMMA CancelTyped ==
  ASSUME UplinkData, Maturing, CancelConnect \/ CancelAll
  PROVE  /\ workq' \in Seq(Works) /\ canceling' \subseteq Works /\ armed' \in BOOLEAN
         /\ mature' \subseteq Threads \cup {Timer}
<1>1. workq' \in Seq(Works)
  BY UnqueueTyped, EmptySeq DEF UplinkData, CancelConnect, CancelAll
<1> QED
  BY <1>1 DEF UplinkData, Maturing, CancelConnect, CancelAll, Works

\* The end of a work clears it.
LEMMA WorkDoneTyped ==
  ASSUME UplinkData, WorkDone
  PROVE  running' \in Works \cup {None} /\ canceling' \subseteq Works
  BY DEF UplinkData, WorkDone

\* The steps of the module that are not the helper's.
ModuleStep ==
    \/ SubWait \/ ModemInfo \/ Run
    \/ WorkWait \/ Rearm \/ DrainGps \/ DrainSensor
    \/ OnConnack \/ ConnectedEntry \/ Subscribe \/ SubmitPub \/ OnPublish
    \/ \E t \in Threads : OnDisconnect(t) \/ DisconnectedEntry(t)

\* The module's steps keep the returns in order.
LEMMA ModuleKeepsControl ==
  ASSUME Control, ModuleStep
  PROVE  Control'
<1> USE DEF Labels, HelperLabels, RunLabels, LockLabels, IoLabels, UplinkLabels,
            Callbacks, ApiLabels, EvtLabels, PollEvtLabels
<1>0. /\ {Task, WorkQ, Poll} \subseteq Threads
      /\ Task # Poll /\ WorkQ # Poll
      /\ Back(Task) = {"sub_wait"}
      /\ Back(WorkQ) = {"rearm", "drain_gps", "drain_sensor"}
      /\ Back(Poll) = {"subscribe", "submit_pub", "on_publish"}
  BY HelperAssumption, UplinkAssumption DEF Threads, Back
<1>1. CASE SubWait
  BY <1>0, <1>1, GotoControl, ControlUnchanged DEF SubWait
<1>2. CASE ModemInfo
  BY <1>0, <1>2, GotoControl DEF ModemInfo
<1>3. CASE Run
  BY <1>0, <1>3, GotoControl, CallControl DEF Run
<1>4. CASE WorkWait
  BY <1>0, <1>4, GotoControl, CallControl DEF WorkWait
<1>5. CASE Rearm
  BY <1>0, <1>5, GotoControl DEF Rearm, WorkDone
<1>6. CASE DrainGps
  BY <1>0, <1>6, GotoControl, CallControl DEF DrainGps
<1>7. CASE DrainSensor
  BY <1>0, <1>7, GotoControl, CallControl DEF DrainSensor, WorkDone
<1>8. CASE OnConnack
  BY <1>0, <1>8, GotoControl DEF OnConnack
<1>9. CASE ConnectedEntry
  BY <1>0, <1>9, CallControl DEF ConnectedEntry
<1>10. CASE Subscribe
  BY <1>0, <1>10, CallControl DEF Subscribe
<1>11. CASE SubmitPub \/ OnPublish
  BY <1>11, EventHandledControl DEF SubmitPub, OnPublish
<1>12. ASSUME NEW t \in Threads, OnDisconnect(t) PROVE Control'
  BY <1>12, GotoControl DEF OnDisconnect
<1>13. ASSUME NEW t \in Threads, DisconnectedEntry(t) PROVE Control'
  BY <1>13, HandledControl DEF DisconnectedEntry
<1> QED
  BY <1>1, <1>2, <1>3, <1>4, <1>5, <1>6, <1>7, <1>8, <1>9, <1>10, <1>11, <1>12,
     <1>13 DEF ModuleStep

\* They keep the helper's data: all but the threads' maturity is left alone.
LEMMA ModuleKeepsHelperData ==
  ASSUME HelperData, Maturing, ModuleStep
  PROVE  HelperData' /\ Maturing'
<1>1. UNCHANGED calm
  BY DEF ModuleStep, SubWait, ModemInfo, Run, WorkWait, Rearm, DrainGps, DrainSensor,
         OnConnack, ConnectedEntry, Subscribe, SubmitPub, OnPublish, OnDisconnect,
         DisconnectedEntry
<1>2. Maturing'
  <2> USE DEF Maturing
  <2>1. CASE UNCHANGED mature
    BY <2>1
  <2>2. CASE ModemInfo
    BY <2>2 DEF ModemInfo, Io
  <2>3. CASE mature' = mature \ {Timer}
    BY <2>3
  <2> QED
    BY <2>1, <2>2, <2>3 DEF ModuleStep, SubWait, Run, WorkWait, Rearm, DrainGps,
       DrainSensor, OnConnack, ConnectedEntry, Subscribe, SubmitPub, OnPublish,
       OnDisconnect, DisconnectedEntry, CancelAll, CancelConnect, RescheduleLater,
       RescheduleNow
<1> QED
  BY <1>1, <1>2 DEF HelperData, calm, machine, boundary, lib

\* They keep the types of the module's own data.
LEMMA ModuleKeepsUplinkData ==
  ASSUME HelperData, Maturing, UplinkData, ModuleStep
  PROVE  UplinkData'
<1> USE DEF UplinkData, smfVars, work, data
<1>1. CASE SubWait
  <2>1. /\ notif' \in Seq(Channels) /\ Len(notif') <= NotifLen
    BY <1>1, UplinkAssumption, HeadTailProperties DEF SubWait
  <2>2. /\ gps_data_queue' \in 0..QueueLen /\ sensor_data_queue' \in 0..QueueLen
        /\ seen' \in BOOLEAN
    BY <1>1, UplinkAssumption DEF SubWait, HelperData
  <2> QED
    BY <1>1, <2>1, <2>2 DEF SubWait
<1>2. CASE ModemInfo
  BY <1>2 DEF ModemInfo
<1>3. CASE Run
  BY <1>3, CancelTyped, SubmitTyped DEF Run, RescheduleLater, Works
<1>4. CASE WorkWait
  BY <1>4, HeadTailProperties DEF WorkWait
<1>5. CASE Rearm
  BY <1>5, WorkDoneTyped DEF Rearm, RescheduleLater
<1>6. CASE DrainGps
  BY <1>6, UplinkAssumption DEF DrainGps
<1>7. CASE DrainSensor
  BY <1>7, UplinkAssumption, WorkDoneTyped DEF DrainSensor
<1>8. CASE OnConnack \/ Subscribe
  BY <1>8 DEF OnConnack, Subscribe, uplinkVars
<1>9. CASE ConnectedEntry
  BY <1>9, CancelTyped DEF ConnectedEntry
<1>10. CASE SubmitPub
  BY <1>10, SubmitTyped DEF SubmitPub, Works
<1>11. ASSUME NEW t \in Threads, OnDisconnect(t) PROVE UplinkData'
  BY <1>11 DEF OnDisconnect
<1>12. ASSUME NEW t \in Threads, DisconnectedEntry(t) PROVE UplinkData'
  BY <1>12, SubmitTyped DEF DisconnectedEntry, RescheduleNow, Works
<1>13. CASE OnPublish
  BY <1>13, NotifyTyped DEF OnPublish, Channels
<1> QED
  BY <1>1, <1>2, <1>3, <1>4, <1>5, <1>6, <1>7, <1>8, <1>9, <1>10, <1>11, <1>12, <1>13
     DEF ModuleStep

\* The environment: time, the network, samples and lost connections.
LEMMA EnvironmentKeeps ==
  ASSUME TInv, TimePasses \/ TimerExpires \/ Environment
  PROVE  TInv'
<1> USE DEF TInv
<1>1. Control'
  BY ControlUnchanged DEF TimePasses, TimerExpires, Environment, PdnEvent, Sample, Drop,
     DropWhileConnecting
<1>2. HelperData' /\ Maturing'
  <2> USE HelperAssumption, UplinkAssumption DEF HelperData, Maturing, machine, boundary, lib, Faults
  <2>1. CASE TimePasses
    BY <2>1 DEF TimePasses, Waiting
  <2>2. CASE TimerExpires
    BY <2>2 DEF TimerExpires, RescheduleNow
  <2>3. CASE PdnEvent
    BY <2>3 DEF PdnEvent
  <2>4. CASE Sample
    BY <2>4, SpendTyped DEF Sample
  <2>5. CASE Drop \/ DropWhileConnecting
    BY <2>5, SpendTyped DEF Drop, DropWhileConnecting
  <2> QED
    BY <2>1, <2>2, <2>3, <2>4, <2>5 DEF Environment
<1>3. UplinkData'
  <2> USE DEF UplinkData, uplinkVars, smfVars, work, data, Channels
  <2>1. CASE TimePasses
    BY <2>1 DEF TimePasses
  <2>2. CASE TimerExpires
    BY <2>2, SubmitTyped DEF TimerExpires, RescheduleNow, Works
  <2>3. CASE PdnEvent
    BY <2>3, NotifyTyped DEF PdnEvent
  <2>4. CASE Sample
    BY <2>4, NotifyTyped DEF Sample
  <2>5. CASE (Drop \/ DropWhileConnecting) /\ UNCHANGED uplinkVars
    BY <2>5
  <2> QED
    BY <2>1, <2>2, <2>3, <2>4, <2>5 DEF Environment
<1> QED
  BY <1>1, <1>2, <1>3

-----------------------------------------------------------------------------
(* Types *)

\* A step of the program is one of the helper, which leaves the module's data
\* alone, or one of the module.
LEMMA ThreadSteps ==
  ASSUME NEW t \in Threads, Thread(t)
  PROVE  \/ ApiStep(t) /\ UNCHANGED uplinkVars
         \/ t = Poll /\ PollStep /\ UNCHANGED uplinkVars
         \/ ModuleStep
  BY DEF Thread, ModuleStep, TaskStep, WorkStep, CallbackStep

\* Types, and every return of a call or an event, are in order throughout: TInv
\* is inductive.
THEOREM Typed == Spec => []TInv
<1>1. Init => TInv
  <2> SUFFICES ASSUME Init PROVE TInv
    OBVIOUS
  <2>1. HelperData /\ Maturing
    BY HelperAssumption DEF Init, HelperInit, HelperData, Maturing, MqttStates
  <2>2. UplinkData
    <3>1. <<>> \in Seq(Channels) /\ <<>> \in Seq(Works) /\ Len(<<>>) = 0
      BY EmptySeq
    <3>2. 0 <= NotifLen /\ 0 \in 0..QueueLen
      BY UplinkAssumption
    <3>3. notif \in Seq(Channels) /\ workq \in Seq(Works) /\ Len(notif) = 0
      BY <3>1 DEF Init
    <3>4. Len(notif) <= NotifLen
      BY <3>2, <3>3
    <3> QED
      BY <3>2, <3>3, <3>4 DEF Init, UplinkData
  <2>3. \A t \in Threads : Good(t, pc[t], ret[t], after[t], resume)
    BY HelperAssumption, UplinkAssumption
       DEF Init, HelperInit, Good, Back, Labels, HelperLabels, RunLabels, LockLabels,
           IoLabels, Callbacks, UplinkLabels, ApiLabels, EvtLabels, PollEvtLabels
  <2>4. Control
    BY <2>3 DEF Init, HelperInit, Control, Good
  <2> QED
    BY <2>1, <2>2, <2>4 DEF TInv
<1>2. TInv /\ [Next]_vars => TInv'
  <2> SUFFICES ASSUME TInv, [Next]_vars PROVE TInv'
    OBVIOUS
  <2>1. ASSUME NEW t \in Threads, Thread(t) PROVE TInv'
    <3>1. CASE (ApiStep(t) \/ PollStep) /\ UNCHANGED uplinkVars
      <4>1. UplinkData'
        BY <3>1 DEF TInv, UplinkData, uplinkVars, smfVars, work, data
      <4>2. Maturing'
        BY <3>1, StepsMature DEF TInv, Maturing
      <4> QED
        BY <3>1, <4>1, <4>2, ApiKeepsControl, ApiKeepsData, PollKeepsControl, PollKeepsData
           DEF TInv
    <3>2. CASE ModuleStep
      BY <3>2, ModuleKeepsControl, ModuleKeepsHelperData, ModuleKeepsUplinkData DEF TInv
    <3> QED
      BY <2>1, <3>1, <3>2, ThreadSteps
  <2>2. CASE TimePasses \/ TimerExpires \/ Environment
    BY <2>2, EnvironmentKeeps
  <2>3. CASE UNCHANGED vars
    BY <2>3, ControlUnchanged DEF vars, helperVars, uplinkVars, TInv, HelperData,
       UplinkData, Maturing, machine, boundary, lib, smfVars, work, data, returns
  <2> QED
    BY <2>1, <2>2, <2>3 DEF Next
<1> QED
  BY <1>1, <1>2, PTL DEF Spec

\* Types of the helper's and the transport module's state, with every return
\* from a call or an event to a label of the thread that made it.
THEOREM TypeCorrect == Spec => []TypeOK
<1>1. TInv => TypeOK
  BY DEF TInv, HelperData, UplinkData, Maturing, Control, TypeOK
<1> QED
  BY <1>1, Typed, PTL

-----------------------------------------------------------------------------
(* The network status *)

\* What is appended to is contained, and so is what was.
LEMMA ContainsAppend ==
  ASSUME NEW S, NEW q \in Seq(S), NEW c \in S, NEW x, Contains(q, x) \/ c = x
  PROVE  Contains(Append(q, c), x)
<1>1. /\ Len(Append(q, c)) = Len(q) + 1
      /\ \A i \in 1..Len(q) : Append(q, c)[i] = q[i]
      /\ Append(q, c)[Len(q) + 1] = c
      /\ Len(q) \in Nat
  BY AppendProperties, LenProperties
<1>2. CASE Contains(q, x)
  BY <1>1, <1>2 DEF Contains
<1>3. CASE c = x
  BY <1>1, <1>3 DEF Contains
<1> QED
  BY <1>2, <1>3

\* Taking the head off a queue leaves what is not the head.
LEMMA ContainsTail ==
  ASSUME NEW S, NEW q \in Seq(S), q # <<>>, NEW x, Contains(q, x), Head(q) # x
  PROVE  Contains(Tail(q), x)
<1>1. PICK i \in 1..Len(q) : q[i] = x
  BY DEF Contains
<1>2. /\ Len(q) \in Nat
      /\ Head(q) = q[1]
      /\ Len(Tail(q)) = Len(q) - 1
      /\ \A j \in 1..Len(Tail(q)) : Tail(q)[j] = q[j + 1]
  BY HeadTailProperties, LenProperties
<1>3. i # 1
  BY <1>1, <1>2
<1>4. i - 1 \in 1..Len(Tail(q)) /\ Tail(q)[i - 1] = q[i]
  BY <1>2, <1>3
<1> QED
  BY <1>1, <1>4 DEF Contains

\* No call of the API and no event takes transport_task to or from its request
\* to the modem, and none touches the network status.
LEMMA ApiAwayFromModem ==
  ASSUME Control, NEW t \in Threads, ApiStep(t)
  PROVE  /\ pc[Task] = "modem_info" <=> pc'[Task] = "modem_info"
         /\ link' = link
<1>1. Task \in Threads /\ "modem_info" \notin Back(Task) /\ "modem_info" \notin After(Task)
  BY HelperAssumption, UplinkAssumption DEF Threads, Back, After, InCall
<1>2. Good(t, pc[t], ret[t], after[t], resume)
  BY DEF Control
<1>3. pc \in [Threads -> Labels]
  BY DEF Control
<1> USE <1>1, <1>2, <1>3 DEF Good, ApiLabels, EvtLabels, Goto, Return, boundary
<1>4. CASE Init_(t)
  BY <1>4 DEF Init_
<1>5. CASE Deinit(t)
  BY <1>5 DEF Deinit
<1>6. CASE Connect(t)
  BY <1>6 DEF Connect
<1>7. CASE GetAddrInfo(t)
  BY <1>7 DEF GetAddrInfo
<1>8. CASE MqttConnect(t)
  BY <1>8 DEF MqttConnect
<1>9. CASE Handshake(t)
  BY <1>9 DEF Handshake
<1>10. CASE Connecting(t)
  BY <1>10 DEF Connecting
<1>11. CASE Disconnect(t)
  BY <1>11 DEF Disconnect
<1>12. CASE SetDisconnecting(t)
  BY <1>12 DEF SetDisconnecting
<1>13. CASE MqttDisconnect(t)
  BY <1>13 DEF MqttDisconnect
<1>14. CASE DisconnectWrite(t)
  BY <1>14 DEF DisconnectWrite, Raise, RaiseReturn
<1>15. CASE DisconnectFailed(t)
  BY <1>15 DEF DisconnectFailed
<1>16. CASE Send(t)
  BY <1>16 DEF Send
<1>17. CASE MqttSend(t)
  BY <1>17 DEF MqttSend
<1>18. CASE Write(t)
  BY <1>18 DEF Write, RaiseReturn
<1>19. CASE EvtDisconnect(t)
  BY <1>19 DEF EvtDisconnect, DisconnectHandled
<1> QED
  BY <1>4, <1>5, <1>6, <1>7, <1>8, <1>9, <1>10, <1>11, <1>12,
     <1>13, <1>14, <1>15, <1>16, <1>17, <1>18, <1>19 DEF ApiStep

\* The same of the poll thread.
LEMMA PollAwayFromModem ==
  ASSUME Control, PollStep
  PROVE  /\ pc[Task] = "modem_info" <=> pc'[Task] = "modem_info"
         /\ link' = link
<1>1. Task \in Threads /\ Poll \in Threads /\ Task # Poll
  BY HelperAssumption, UplinkAssumption DEF Threads
<1>2. pc \in [Threads -> Labels]
  BY DEF Control
<1> QED
  BY <1>1, <1>2 DEF PollStep, EvtConnack, SemTake, Loop, PollClosed, PollOpen, MqttLive,
     MqttInput, Received, InputDone, MqttAbort, CloseAndTell, Raise, EventHandled, Goto,
     boundary

\* A publication of NETWORK_CHAN is in the queue or counted as missed, and no
\* publication pushes an earlier one out.
LEMMA NotifyKeeps ==
  ASSUME notif \in Seq(Channels), NEW c \in Channels, Notify(c)
  PROVE  /\ Contains(notif, "NETWORK_CHAN") => Contains(notif', "NETWORK_CHAN")
         /\ c = "NETWORK_CHAN" => missed' \/ Contains(notif', "NETWORK_CHAN")
         /\ missed => missed'
<1>1. CASE notif' = Append(notif, c) /\ UNCHANGED missed
  BY <1>1, ContainsAppend
<1>2. CASE UNCHANGED notif /\ missed' = (missed \/ c = "NETWORK_CHAN")
  BY <1>2
<1> QED
  BY <1>1, <1>2 DEF Notify

\* The module's own steps: only SubWait reads the status, only ModemInfo stores
\* it, and they take turns.
LEMMA ModuleFollows ==
  ASSUME TInv, Follows, ModuleStep
  PROVE  Follows'
<1>1. /\ {Task, WorkQ, Poll} \subseteq Threads /\ Task # Poll /\ WorkQ # Task
      /\ "modem_info" \notin Back(Task) /\ "modem_info" \notin After(Task)
  BY HelperAssumption, UplinkAssumption DEF Threads, Back, After, InCall
<1>2. pc \in [Threads -> Labels] /\ notif \in Seq(Channels)
  BY DEF TInv, Control, UplinkData
<1>3. CASE SubWait
  <2>1. CASE Head(notif) = "NETWORK_CHAN"
    BY <1>1, <1>2, <1>3, <2>1 DEF SubWait, Goto, calm, boundary, Follows
  <2>2. CASE Head(notif) # "NETWORK_CHAN"
    <3>1. UNCHANGED <<pc, link, status, missed>> /\ notif' = Tail(notif) /\ notif # <<>>
          /\ pc[Task] = "sub_wait"
      BY <1>3, <2>2 DEF SubWait, calm, boundary
    <3>2. Contains(notif, "NETWORK_CHAN") => Contains(notif', "NETWORK_CHAN")
      BY <1>2, <2>2, <3>1, ContainsTail
    <3> QED
      BY <3>1, <3>2 DEF Follows
  <2> QED
    BY <2>1, <2>2
<1>4. CASE ModemInfo
  BY <1>1, <1>2, <1>4 DEF ModemInfo, Goto, calm, boundary, Follows
<1>5. CASE UNCHANGED <<link, status, seen, notif, missed>>
           /\ (pc[Task] = "modem_info" <=> pc'[Task] = "modem_info")
  BY <1>5 DEF Follows
<1>6. CASE Run \/ WorkWait \/ Rearm \/ DrainGps \/ DrainSensor
  BY <1>1, <1>2, <1>5, <1>6 DEF Run, WorkWait, Rearm, DrainGps, DrainSensor, WorkDone,
     Call, Goto, calm, boundary, smfVars
<1>7. CASE OnConnack \/ ConnectedEntry \/ Subscribe \/ SubmitPub
  BY <1>1, <1>2, <1>5, <1>7 DEF OnConnack, ConnectedEntry, Subscribe, SubmitPub,
     EventHandled, Call, Goto, calm, boundary, smfVars, uplinkVars
<1>8. ASSUME NEW t \in Threads, OnDisconnect(t) PROVE Follows'
  BY <1>1, <1>2, <1>5, <1>8 DEF OnDisconnect, Goto, calm, boundary
<1>9. ASSUME NEW t \in Threads, DisconnectedEntry(t) PROVE Follows'
  <2>1. Good(t, pc[t], ret[t], after[t], resume)
    BY DEF TInv, Control
  <2>2. after[t] \in After(t)
    BY <1>9, <2>1 DEF Good, DisconnectedEntry, EvtLabels
  <2> QED
    BY <1>1, <1>2, <1>5, <1>9, <2>2 DEF DisconnectedEntry, DisconnectHandled, Goto, calm,
       boundary, smfVars
<1>10. CASE OnPublish
  <2>1. UNCHANGED <<link, status, seen>> /\ (pc[Task] = "modem_info" <=> pc'[Task] = "modem_info")
    BY <1>1, <1>2, <1>10 DEF OnPublish, EventHandled, Goto, calm, boundary, smfVars
  <2>2. pc[Task] = "sub_wait" <=> pc'[Task] = "sub_wait"
    BY <1>1, <1>2, <1>10 DEF OnPublish, EventHandled, Goto
  <2>3. /\ Contains(notif, "NETWORK_CHAN") => Contains(notif', "NETWORK_CHAN")
        /\ missed => missed'
    BY <1>2, <1>10, NotifyKeeps DEF OnPublish, Channels
  <2> QED
    BY <2>1, <2>2, <2>3 DEF Follows
<1> QED
  BY <1>3, <1>4, <1>6, <1>7, <1>8, <1>9, <1>10 DEF ModuleStep

\* A change of the network leaves a notification, or a missed one.
LEMMA EnvironmentFollows ==
  ASSUME TInv, Follows, TimePasses \/ TimerExpires \/ Environment
  PROVE  Follows'
<1>1. notif \in Seq(Channels)
  BY DEF TInv, UplinkData
<1>2. CASE PdnEvent
  <2>1. missed' \/ Contains(notif', "NETWORK_CHAN")
    BY <1>1, <1>2, NotifyKeeps DEF PdnEvent, Channels
  <2> QED
    BY <2>1 DEF Follows
<1>3. CASE Sample
  <2>1. UNCHANGED <<pc, link, status, seen>>
    BY <1>3 DEF Sample, boundary, smfVars
  <2>2. /\ Contains(notif, "NETWORK_CHAN") => Contains(notif', "NETWORK_CHAN")
        /\ missed => missed'
    BY <1>1, <1>3, NotifyKeeps DEF Sample, Channels
  <2> QED
    BY <2>1, <2>2 DEF Follows
<1>4. CASE UNCHANGED <<pc, link, status, seen, notif, missed>>
  BY <1>4 DEF Follows
<1> QED
  BY <1>2, <1>3, <1>4 DEF TimePasses, TimerExpires, Environment, Drop,
     DropWhileConnecting, boundary, uplinkVars, smfVars

\* Follows is inductive on top of the types.
THEOREM FollowsAlways == Spec => []Follows
<1>1. Init => Follows
  BY HelperAssumption, UplinkAssumption DEF Init, Follows, Threads
<1>2. TInv /\ Follows /\ [Next]_vars => Follows'
  <2> SUFFICES ASSUME TInv, Follows, [Next]_vars PROVE Follows'
    OBVIOUS
  <2>1. ASSUME NEW t \in Threads, Thread(t) PROVE Follows'
    <3>1. CASE (ApiStep(t) \/ PollStep) /\ UNCHANGED uplinkVars
      <4>1. UNCHANGED <<link, status, seen, notif, missed>>
            /\ (pc[Task] = "modem_info" <=> pc'[Task] = "modem_info")
        BY <3>1, ApiAwayFromModem, PollAwayFromModem DEF TInv, uplinkVars, smfVars
      <4> QED
        BY <4>1 DEF Follows
    <3>2. CASE ModuleStep
      BY <3>2, ModuleFollows
    <3> QED
      BY <2>1, <3>1, <3>2, ThreadSteps
  <2>2. CASE TimePasses \/ TimerExpires \/ Environment
    BY <2>2, EnvironmentFollows
  <2>3. CASE UNCHANGED vars
    BY <2>3 DEF vars, helperVars, uplinkVars, smfVars, boundary, Follows
  <2> QED
    BY <2>1, <2>2, <2>3 DEF Next
<1> QED
  BY <1>1, <1>2, Typed, PTL DEF Spec

\* Once transport_task has worked off its notifications it acts on the network
\* status last published, whatever calls and callbacks came in between.
THEOREM StatusSafe == Spec => []StatusFollows
<1>1. Follows => StatusFollows
  BY DEF Follows, StatusFollows
<1> QED
  BY <1>1, FollowsAlways, PTL
================================================================================
