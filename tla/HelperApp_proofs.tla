---------------------------- MODULE HelperApp_proofs ----------------------------
(***************************************************************************)
(* The MQTT helper under the most general client: proofs.                  *)
(*                                                                         *)
(* Flow says where a thread can be and returns to; it is inductive by      *)
(* itself and gives the types.  Joint relates the two threads, the         *)
(* state, the library and what the client was told.  It is inductive only  *)
(* if I/O is patient: then name resolution is not over before the poll     *)
(* thread has left the session before (Matured), and so no old event meets *)
(* a new session.  The assertion of mqtt_state_set, what the client was    *)
(* told and the refinement of MqttSession follow from Joint.  Polling adds *)
(* the socket the poll thread is on, for a broker that answers.            *)
(***************************************************************************)
EXTENDS HelperApp, MqttHelper_proofs, TLAPS

\* What App does inside a call of the API, and either thread inside the handling
\* of a DISCONNECT event.
ApiLabels == {"init", "deinit", "connect", "getaddrinfo", "mqtt_connect",
              "handshake", "connecting", "disconnect", "set_disconnecting",
              "mqtt_disconnect", "disconnect_write", "disconnect_failed",
              "send", "mqtt_send", "write"}
EvtLabels == {"evt_disconnect", "on_disconnect"}

\* The poll thread between events; in an event that interrupts mqtt_input or
\* mqtt_abort; in a call made by such an event, and where that call returns to.
LoopLabels  == {"sem_take", "loop", "poll", "mqtt_input", "mqtt_abort", "mqtt_live",
                "input_done"}
EventLabels == {"evt_accepted", "evt_refused", "on_connack", "connack_done",
                "on_publish"}
SendLabels  == {"send", "mqtt_send", "write"}
Backs       == {"connack_done", "on_publish"}
Resumes     == {"input_done", "mqtt_abort", "sem_take"}

\* App at label p, with r and a in ret and after.
AppFine(p, r, a) ==
    /\ p \in {"app"} \cup ApiLabels \cup EvtLabels
    /\ r \in {"app", None}
    /\ a \in {"app", "disconnect_failed", None}
    /\ p \in ApiLabels => r = "app"
    /\ p \in EvtLabels => a = "app" \/ (a = "disconnect_failed" /\ r = "app")

\* The poll thread at label p, with r, a and s in ret, after and resume.
Interrupted(p, a) == \/ p \in EventLabels \cup SendLabels
                     \/ p \in EvtLabels /\ a \in Backs

PollFine(p, r, a, s) ==
    /\ p \in LoopLabels \cup EventLabels \cup SendLabels \cup EvtLabels
    /\ r \in Backs \cup {None}
    /\ a \in Backs \cup {"sem_take", "mqtt_abort", None}
    /\ p \in SendLabels => r \in Backs
    /\ p \in EvtLabels => a \in Backs \cup {"sem_take", "mqtt_abort"}
    /\ s \in IF Interrupted(p, a) THEN Resumes ELSE {None}

Flow ==
    /\ pc    \in [Threads -> AppLabels]
    /\ ret   \in [Threads -> AppLabels \cup {None}]
    /\ after \in [Threads -> AppLabels \cup {None}]
    /\ AppFine(pc[App], ret[App], after[App])
    /\ PollFine(pc[Poll], ret[Poll], after[Poll], resume)

\* The types, and labels to return to.
TInv == HelperData /\ Flow /\ mature \subseteq Threads /\ told \in {"up", "down"}

\* In which states of the helper App can be where.
Idling == {"app", "init", "deinit", "connect", "disconnect", "send"}

AppInState ==
    /\ mqtt_state \in {"UNINIT", "CONNECTING"} => pc[App] \in Idling
    /\ mqtt_state = "DISCONNECTED" =>
           pc[App] \in Idling \cup {"getaddrinfo", "on_disconnect", "disconnect_failed"}
    /\ mqtt_state = "TRANSPORT_CONNECTING" => pc[App] \in {"mqtt_connect", "handshake"}
    /\ mqtt_state = "TRANSPORT_CONNECTED" => pc[App] = "connecting"
    /\ mqtt_state = "CONNECTED" =>
           pc[App] \in Idling \cup {"set_disconnecting", "mqtt_send", "write",
                                    "evt_disconnect"}
    /\ mqtt_state = "DISCONNECTING" =>
           pc[App] \in {"mqtt_disconnect", "disconnect_write", "disconnect_failed",
                        "evt_disconnect"}

\* The library is connected as far as the state says, or the event that will
\* correct the state is on its way.
LibInState ==
    /\ mqtt_state \in {"UNINIT", "DISCONNECTED", "TRANSPORT_CONNECTING"} => client = "idle"
    /\ mqtt_state = "TRANSPORT_CONNECTED" => client = "tcp"
    /\ mqtt_state = "CONNECTING" =>
           \/ client = "tcp" /\ pc[Poll] \in LoopLabels
           \/ client = "session" /\ pc[Poll] = "evt_accepted"
           \/ client = "idle" /\ pc[Poll] = "evt_refused"
    /\ mqtt_state = "CONNECTED" =>
           \/ client = "session"
           \/ client = "idle" /\ (pc[App] = "evt_disconnect" \/ pc[Poll] = "evt_disconnect")
    /\ mqtt_state = "DISCONNECTING" =>
           \/ client = "session" /\ pc[App] \in {"mqtt_disconnect", "disconnect_write"}
           \/ client = "idle" /\ (\/ pc[Poll] = "evt_disconnect"
                                  \/ pc[App] \in {"evt_disconnect", "disconnect_failed"})
    /\ pc[App] \in {"disconnect_write", "write"} => client = "session"
    /\ pc[App] \in {"disconnect_failed", "evt_disconnect"} => client = "idle"
    /\ pc[Poll] = "write" => client = "session"

\* There is a socket as long as the library is not idle, and no other.
OneSocket == /\ open = IF client = "idle" THEN {} ELSE {sock}
             /\ client = "idle" => sock = None

\* The poll thread waits for a connection.
Parked == pc[Poll] = "sem_take" /\ connection_poll_sem = 0

\* In which states of the helper the poll thread can be where.
PollInState ==
    /\ pc[Poll] = "evt_accepted" =>
           mqtt_state = "CONNECTING" /\ client = "session" /\ resume = "input_done"
    /\ pc[Poll] = "evt_refused" =>
           mqtt_state = "CONNECTING" /\ client = "idle" /\ resume # "input_done"
    /\ pc[Poll] = "evt_disconnect" =>
           client = "idle" /\ mqtt_state \in {"CONNECTED", "DISCONNECTING", "DISCONNECTED"}
    /\ pc[Poll] = "on_disconnect" => mqtt_state = "DISCONNECTED"
    /\ pc[Poll] = "on_connack" =>
           /\ mqtt_state = IF resume = "input_done" THEN "CONNECTED" ELSE "DISCONNECTED"
           /\ told = "down" /\ pc[App] # "evt_disconnect" /\ App \notin mature
    /\ connection_poll_sem = 1 => mqtt_state = "CONNECTING" /\ pc[Poll] = "sem_take"
    /\ mqtt_state \in {"UNINIT", "TRANSPORT_CONNECTING", "TRANSPORT_CONNECTED"} => Parked
    /\ pc[App] = "deinit" => pc[Poll] = "sem_take"

\* Who holds the library's mutex.
Holds ==
    /\ lock = App <=> pc[App] \in {"handshake", "disconnect_write", "write"}
    /\ lock = Poll <=> pc[Poll] = "write"

\* The I/O of App that has had its time found the poll thread at rest: name
\* resolution is over only after the poll thread has left the last session.
Matured ==
    /\ App \in mature => pc[App] \in IoLabels
    /\ App \in mature /\ pc[App] = "getaddrinfo" => Parked
    /\ Poll \in mature => pc[Poll] \in {"poll", "write"}

\* What the client has been told is true unless a callback is about to correct it.
Knows ==
    /\ registered <=> mqtt_state # "UNINIT"
    /\ told = "up" =>
           \/ mqtt_state \in {"CONNECTED", "DISCONNECTING"}
           \/ /\ mqtt_state = "DISCONNECTED"
              /\ pc[App] = "on_disconnect" \/ pc[Poll] = "on_disconnect"
    /\ told = "down" => /\ mqtt_state = "CONNECTED" => pc[Poll] = "on_connack"
                        /\ mqtt_state # "DISCONNECTING"
                        /\ pc[App] # "set_disconnecting"
                        /\ pc[App] = "disconnect" => mqtt_state # "CONNECTED"

\* The inductive invariant.
Joint == /\ ~asserted
         /\ AppInState /\ LibInState /\ OneSocket /\ PollInState
         /\ Holds /\ Matured /\ Knows

-----------------------------------------------------------------------------
(* Control *)

\* There are two threads.
LEMMA TwoThreads == Threads = {App, Poll} /\ App # Poll /\ App # None /\ Poll # None
  BY HelperAssumption, AppAssumption DEF Threads

\* All labels are labels.
LEMMA FineLabels ==
  /\ {"app"} \cup ApiLabels \cup EvtLabels \subseteq AppLabels
  /\ LoopLabels \cup EventLabels \cup SendLabels \cup EvtLabels \subseteq AppLabels
  /\ "app" \in AppLabels /\ "disconnect_failed" \in AppLabels
  /\ Backs \subseteq AppLabels /\ Resumes \subseteq AppLabels
  BY DEF AppLabels, HelperLabels, RunLabels, LockLabels, IoLabels, Callbacks,
     ApiLabels, EvtLabels, LoopLabels, EventLabels, SendLabels, Backs, Resumes

\* A step of App alone.
LEMMA AppMoves ==
  ASSUME Flow, NEW p, NEW r, NEW a, AppFine(p, r, a),
         pc' = [pc EXCEPT ![App] = p],
         ret' = [ret EXCEPT ![App] = r],
         after' = [after EXCEPT ![App] = a],
         resume' = resume
  PROVE  Flow' /\ pc'[App] = p /\ pc'[Poll] = pc[Poll]
<1>1. /\ p \in AppLabels /\ r \in AppLabels \cup {None} /\ a \in AppLabels \cup {None}
  BY FineLabels DEF AppFine
<1>2. /\ pc' \in [Threads -> AppLabels]
      /\ ret' \in [Threads -> AppLabels \cup {None}]
      /\ after' \in [Threads -> AppLabels \cup {None}]
  BY <1>1 DEF Flow
<1>3. /\ pc'[App] = p /\ ret'[App] = r /\ after'[App] = a
      /\ pc'[Poll] = pc[Poll] /\ ret'[Poll] = ret[Poll] /\ after'[Poll] = after[Poll]
  BY TwoThreads DEF Flow
<1> QED
  BY <1>2, <1>3 DEF Flow

\* A step of the poll thread alone.
LEMMA PollMoves ==
  ASSUME Flow, NEW p, NEW r, NEW a, NEW s, PollFine(p, r, a, s),
         pc' = [pc EXCEPT ![Poll] = p],
         ret' = [ret EXCEPT ![Poll] = r],
         after' = [after EXCEPT ![Poll] = a],
         resume' = s
  PROVE  Flow' /\ pc'[Poll] = p /\ pc'[App] = pc[App]
<1>1. /\ p \in AppLabels /\ r \in AppLabels \cup {None} /\ a \in AppLabels \cup {None}
  BY FineLabels DEF PollFine, LoopLabels, EventLabels, SendLabels, EvtLabels, Backs
<1>2. /\ pc' \in [Threads -> AppLabels]
      /\ ret' \in [Threads -> AppLabels \cup {None}]
      /\ after' \in [Threads -> AppLabels \cup {None}]
  BY <1>1 DEF Flow
<1>3. /\ pc'[Poll] = p /\ ret'[Poll] = r /\ after'[Poll] = a
      /\ pc'[App] = pc[App] /\ ret'[App] = ret[App] /\ after'[App] = after[App]
  BY TwoThreads DEF Flow
<1> QED
  BY <1>2, <1>3 DEF Flow

\* Inside a call, an event or neither, App goes from label to label ...
LEMMA AppGoto ==
  ASSUME Flow, NEW l \in {"app"} \cup ApiLabels \cup EvtLabels,
         Goto(App, l), UNCHANGED returns,
         l \in ApiLabels => pc[App] \in ApiLabels,
         l \in EvtLabels => pc[App] \in EvtLabels
  PROVE  Flow' /\ pc'[App] = l /\ pc'[Poll] = pc[Poll]
<1>1. AppFine(l, ret[App], after[App])
  BY DEF Flow, AppFine
<1>2. /\ ret' = [ret EXCEPT ![App] = ret[App]]
      /\ after' = [after EXCEPT ![App] = after[App]]
      /\ resume' = resume
  BY DEF returns, Flow
<1> QED
  BY <1>1, <1>2, AppMoves DEF Goto

\* ... calls the API ...
LEMMA AppCall ==
  ASSUME Flow, NEW l \in ApiLabels, Call(App, l, "app")
  PROVE  Flow' /\ pc'[App] = l /\ pc'[Poll] = pc[Poll]
<1>1. AppFine(l, "app", after[App])
  BY DEF Flow, AppFine, ApiLabels, EvtLabels
<1>2. after' = [after EXCEPT ![App] = after[App]] /\ resume' = resume
  BY DEF Call, Flow
<1> QED
  BY <1>1, <1>2, AppMoves DEF Call, Goto

\* ... and returns from it.
LEMMA AppReturn ==
  ASSUME Flow, pc[App] \in ApiLabels, Return(App)
  PROVE  Flow' /\ pc'[App] = "app" /\ pc'[Poll] = pc[Poll]
<1>1. ret[App] = "app" /\ AppFine(ret[App], None, after[App])
  BY DEF Flow, AppFine, ApiLabels, EvtLabels
<1>2. after' = [after EXCEPT ![App] = after[App]] /\ resume' = resume
  BY DEF Return, Flow
<1> QED
  BY <1>1, <1>2, AppMoves DEF Return, Goto

\* A call of App raises a DISCONNECT event and goes on after it, or is over.
LEMMA AppRaise ==
  ASSUME Flow, pc[App] \in ApiLabels,
         Raise(App, "disconnect_failed") \/ RaiseReturn(App)
  PROVE  Flow' /\ pc'[App] = "evt_disconnect" /\ pc'[Poll] = pc[Poll]
<1>1. ret[App] = "app"
  BY DEF Flow, AppFine
<1>2. /\ AppFine("evt_disconnect", ret[App], "disconnect_failed")
      /\ AppFine("evt_disconnect", None, "app")
  BY <1>1 DEF AppFine, ApiLabels, EvtLabels
<1>3. CASE Raise(App, "disconnect_failed")
  <2>1. ret' = [ret EXCEPT ![App] = ret[App]] /\ resume' = resume
    BY <1>3 DEF Raise, Flow
  <2> QED
    BY <1>2, <1>3, <2>1, AppMoves DEF Raise, Goto
<1>4. CASE RaiseReturn(App)
  <2>1. after' = [after EXCEPT ![App] = "app"] /\ resume' = resume
    BY <1>1, <1>4 DEF RaiseReturn
  <2> QED
    BY <1>2, <1>4, <2>1, AppMoves DEF RaiseReturn, Goto
<1> QED
  BY <1>3, <1>4

\* A disconnect call that failed ends in a callback.
LEMMA AppCallback ==
  ASSUME Flow, pc[App] \in ApiLabels,
         Goto(App, "on_disconnect"),
         after' = [after EXCEPT ![App] = ret[App]],
         ret' = [ret EXCEPT ![App] = None],
         UNCHANGED resume
  PROVE  Flow' /\ pc'[App] = "on_disconnect" /\ pc'[Poll] = pc[Poll]
<1>1. ret[App] = "app"
  BY DEF Flow, AppFine
<1>2. AppFine("on_disconnect", None, "app")
  BY DEF AppFine, ApiLabels, EvtLabels
<1> QED
  BY <1>1, <1>2, AppMoves DEF Goto

\* The event is handled.
LEMMA AppHandled ==
  ASSUME Flow, pc[App] \in EvtLabels, DisconnectHandled(App)
  PROVE  /\ Flow' /\ pc'[Poll] = pc[Poll]
         /\ pc'[App] \in {"app", "disconnect_failed"}
<1>1. /\ after[App] \in {"app", "disconnect_failed"}
      /\ AppFine(after[App], ret[App], None)
  BY DEF Flow, AppFine, ApiLabels, EvtLabels
<1>2. ret' = [ret EXCEPT ![App] = ret[App]] /\ resume' = resume
  BY DEF DisconnectHandled, Flow
<1> QED
  BY <1>1, <1>2, AppMoves DEF DisconnectHandled, Goto

\* The poll thread goes on in the loop, the event or the call it is in ...
LEMMA PollGoto ==
  ASSUME Flow, NEW l, Goto(Poll, l), UNCHANGED returns,
         \/ l \in LoopLabels /\ pc[Poll] \in LoopLabels
         \/ l \in EventLabels /\ pc[Poll] \in EventLabels
         \/ l \in SendLabels /\ pc[Poll] \in SendLabels
         \/ l \in EvtLabels /\ pc[Poll] \in EvtLabels
  PROVE  Flow' /\ pc'[Poll] = l /\ pc'[App] = pc[App]
<1>1. PollFine(l, ret[Poll], after[Poll], resume)
  BY DEF Flow, PollFine, Interrupted, LoopLabels, EventLabels, SendLabels, EvtLabels
<1>2. /\ ret' = [ret EXCEPT ![Poll] = ret[Poll]]
      /\ after' = [after EXCEPT ![Poll] = after[Poll]]
      /\ resume' = resume
  BY DEF returns, Flow
<1> QED
  BY <1>1, <1>2, PollMoves DEF Goto

\* ... leaves the loop for an event or for the acknowledgement of a PUBLISH ...
LEMMA PollEvent ==
  ASSUME Flow, pc[Poll] \in LoopLabels, NEW s \in Resumes,
         resume' = s, UNCHANGED after, NEW l, Goto(Poll, l),
         \/ l \in EventLabels /\ UNCHANGED ret
         \/ l \in SendLabels /\ ret' = [ret EXCEPT ![Poll] = "on_publish"]
  PROVE  Flow' /\ pc'[Poll] = l /\ pc'[App] = pc[App]
<1>1. PollFine(l, ret'[Poll], after[Poll], s)
  BY TwoThreads DEF Flow, PollFine, Interrupted, LoopLabels, EventLabels, SendLabels,
     EvtLabels, Backs
<1>2. /\ ret' = [ret EXCEPT ![Poll] = ret'[Poll]]
      /\ after' = [after EXCEPT ![Poll] = after[Poll]]
  BY TwoThreads DEF Flow
<1> QED
  BY <1>1, <1>2, PollMoves DEF Goto

\* ... and returns to it.
LEMMA PollEventHandled ==
  ASSUME Flow, pc[Poll] \in EventLabels, EventHandled
  PROVE  /\ Flow' /\ pc'[App] = pc[App]
         /\ pc'[Poll] = resume /\ resume \in Resumes /\ resume' = None
<1>1. resume \in Resumes /\ PollFine(resume, ret[Poll], after[Poll], None)
  BY DEF Flow, PollFine, Interrupted, LoopLabels, EventLabels, SendLabels, EvtLabels,
     Resumes
<1>2. /\ ret' = [ret EXCEPT ![Poll] = ret[Poll]]
      /\ after' = [after EXCEPT ![Poll] = after[Poll]]
      /\ resume' = None
  BY DEF EventHandled, Flow
<1> QED
  BY <1>1, <1>2, PollMoves DEF EventHandled, Goto

\* A callback publishes ...
LEMMA PollCall ==
  ASSUME Flow, pc[Poll] \in EventLabels, Call(Poll, "send", "connack_done")
  PROVE  Flow' /\ pc'[Poll] = "send" /\ pc'[App] = pc[App] /\ resume' = resume
<1>1. PollFine("send", "connack_done", after[Poll], resume)
  BY DEF Flow, PollFine, Interrupted, LoopLabels, EventLabels, SendLabels, EvtLabels,
     Backs
<1>2. after' = [after EXCEPT ![Poll] = after[Poll]] /\ resume' = resume
  BY DEF Call, Flow
<1> QED
  BY <1>1, <1>2, PollMoves DEF Call, Goto

\* ... and the call returns.
LEMMA PollReturn ==
  ASSUME Flow, pc[Poll] \in SendLabels, Return(Poll)
  PROVE  Flow' /\ pc'[Poll] \in Backs /\ pc'[App] = pc[App] /\ resume' = resume
<1>1. ret[Poll] \in Backs /\ PollFine(ret[Poll], None, after[Poll], resume)
  BY DEF Flow, PollFine, Interrupted, LoopLabels, EventLabels, SendLabels, EvtLabels,
     Backs
<1>2. after' = [after EXCEPT ![Poll] = after[Poll]] /\ resume' = resume
  BY DEF Return, Flow
<1> QED
  BY <1>1, <1>2, PollMoves DEF Return, Goto

\* The library raises a DISCONNECT event in the poll thread ...
LEMMA PollRaise ==
  ASSUME Flow,
         \/ /\ pc[Poll] \in LoopLabels
            /\ Raise(Poll, "sem_take") \/ Raise(Poll, "mqtt_abort")
         \/ pc[Poll] \in SendLabels /\ RaiseReturn(Poll)
  PROVE  /\ Flow' /\ pc'[Poll] = "evt_disconnect" /\ pc'[App] = pc[App]
         /\ resume' = resume
<1>1. CASE pc[Poll] \in LoopLabels /\ \E l \in {"sem_take", "mqtt_abort"} : Raise(Poll, l)
  <2>1. PICK l \in {"sem_take", "mqtt_abort"} : Raise(Poll, l)
    BY <1>1
  <2>2. PollFine("evt_disconnect", ret[Poll], l, resume)
    BY <1>1 DEF Flow, PollFine, Interrupted, LoopLabels, EventLabels, SendLabels,
       EvtLabels, Backs
  <2>3. ret' = [ret EXCEPT ![Poll] = ret[Poll]] /\ resume' = resume
    BY <2>1 DEF Raise, Flow
  <2> QED
    BY <2>1, <2>2, <2>3, PollMoves DEF Raise, Goto
<1>2. CASE pc[Poll] \in SendLabels /\ RaiseReturn(Poll)
  <2>1. PollFine("evt_disconnect", None, ret[Poll], resume)
    BY <1>2 DEF Flow, PollFine, Interrupted, LoopLabels, EventLabels, SendLabels,
       EvtLabels, Backs
  <2> QED
    BY <1>2, <2>1, PollMoves DEF RaiseReturn, Goto
<1> QED
  BY <1>1, <1>2

\* ... which it handles.
LEMMA PollHandled ==
  ASSUME Flow, pc[Poll] \in EvtLabels, DisconnectHandled(Poll)
  PROVE  /\ Flow' /\ pc'[App] = pc[App] /\ resume' = resume
         /\ pc'[Poll] \in Backs \cup {"sem_take", "mqtt_abort"}
<1>1. /\ after[Poll] \in Backs \cup {"sem_take", "mqtt_abort"}
      /\ PollFine(after[Poll], ret[Poll], None, resume)
  BY DEF Flow, PollFine, Interrupted, LoopLabels, EventLabels, SendLabels, EvtLabels,
     Backs
<1>2. ret' = [ret EXCEPT ![Poll] = ret[Poll]] /\ resume' = resume
  BY DEF DisconnectHandled, Flow
<1> QED
  BY <1>1, <1>2, PollMoves DEF DisconnectHandled, Goto

-----------------------------------------------------------------------------
(* App *)

\* mqtt_state_set accepts the transitions the helper makes.
LEMMA LegalSet ==
  ASSUME NEW s, mqtt_state_set(s), ~asserted, mqtt_state \in MqttStates,
         \/ s = "DISCONNECTED"
         \/ s \in {"UNINIT", "TRANSPORT_CONNECTING"} /\ mqtt_state = "DISCONNECTED"
         \/ s = "TRANSPORT_CONNECTED" /\ mqtt_state = "TRANSPORT_CONNECTING"
         \/ s = "CONNECTING" /\ mqtt_state = "TRANSPORT_CONNECTED"
         \/ s = "CONNECTED" /\ mqtt_state = "CONNECTING"
         \/ s = "DISCONNECTING" /\ mqtt_state = "CONNECTED"
  PROVE  mqtt_state' = s /\ ~asserted'
  BY DEF mqtt_state_set, LegalNext, MqttStates

\* App connects.
LEMMA AppConnectKeeps ==
  ASSUME TInv, Joint, Patient, UNCHANGED told,
         \/ Init_(App) \/ Deinit(App) \/ Connect(App) \/ GetAddrInfo(App)
         \/ MqttConnect(App) \/ Handshake(App) \/ Connecting(App)
  PROVE  Joint'
<1>0. Flow /\ mqtt_state \in MqttStates /\ ~asserted
  BY DEF TInv, HelperData, Joint
<1>1. ASSUME Init_(App)
      PROVE  /\ pc[App] = "init" /\ pc'[App] = "app" /\ pc'[Poll] = pc[Poll]
             /\ IF mqtt_state \in {"UNINIT", "DISCONNECTED"}
                  THEN mqtt_state' = "DISCONNECTED" /\ registered' = TRUE /\ ~asserted'
                  ELSE UNCHANGED <<mqtt_state, asserted, registered>>
             /\ UNCHANGED <<connection_poll_sem, client, sock, open, lock, resume, mature>>
  BY <1>0, <1>1, AppReturn, LegalSet DEF Init_, ApiLabels, lib, machine, Return
<1>2. ASSUME Deinit(App)
      PROVE  /\ pc[App] = "deinit" /\ pc'[App] = "app" /\ pc'[Poll] = pc[Poll]
             /\ \/ /\ mqtt_state = "DISCONNECTED" /\ mqtt_state' = "UNINIT"
                   /\ registered' = FALSE /\ ~asserted'
                   /\ client' = "idle" /\ sock' = None /\ lock' = None
                \/ /\ mqtt_state # "DISCONNECTED"
                   /\ UNCHANGED <<mqtt_state, asserted, registered, client, sock, lock>>
             /\ UNCHANGED <<connection_poll_sem, open, resume, mature>>
  BY <1>0, <1>2, AppReturn, LegalSet DEF Deinit, ApiLabels, machine, Return
<1>3. ASSUME Connect(App)
      PROVE  /\ pc[App] = "connect" /\ pc'[Poll] = pc[Poll]
             /\ \/ /\ mqtt_state = "DISCONNECTED" /\ pc'[App] = "getaddrinfo"
                   /\ client' = "idle" /\ sock' = None /\ lock' = None
                \/ /\ mqtt_state # "DISCONNECTED" /\ pc'[App] = "app"
                   /\ UNCHANGED <<client, sock, lock>>
             /\ UNCHANGED <<mqtt_state, asserted, registered, connection_poll_sem, open,
                            resume, mature>>
  BY <1>0, <1>3, AppReturn, AppGoto
     DEF Connect, ApiLabels, EvtLabels, machine, boundary, returns, Return
<1>4. ASSUME GetAddrInfo(App)
      PROVE  /\ pc[App] = "getaddrinfo" /\ pc'[Poll] = pc[Poll]
             /\ App \in mature /\ mature' = mature \ {App}
             /\ \/ mqtt_state' = "TRANSPORT_CONNECTING" /\ pc'[App] = "mqtt_connect"
                \/ mqtt_state' = "DISCONNECTED" /\ pc'[App] = "app"
             /\ ~asserted'
             /\ UNCHANGED <<registered, connection_poll_sem, client, sock, open, lock, resume>>
  <2>1. pc[App] = "getaddrinfo" /\ mqtt_state = "DISCONNECTED"
    BY <1>0, <1>4 DEF GetAddrInfo, Joint, AppInState, MqttStates, Idling
  <2> QED
    BY <1>0, <1>4, <2>1, AppReturn, AppGoto, LegalSet
       DEF GetAddrInfo, Io, ApiLabels, EvtLabels, boundary, lib, returns, Return
<1>5. ASSUME MqttConnect(App)
      PROVE  /\ pc[App] = "mqtt_connect" /\ pc'[App] = "handshake" /\ pc'[Poll] = pc[Poll]
             /\ lock = None /\ lock' = App
             /\ UNCHANGED <<mqtt_state, asserted, registered, connection_poll_sem, client, sock,
                            open, resume, mature>>
  BY <1>0, <1>5, AppGoto
     DEF MqttConnect, ApiLabels, EvtLabels, machine, boundary, lib, returns
<1>6. ASSUME Handshake(App)
      PROVE  /\ pc[App] = "handshake" /\ pc'[Poll] = pc[Poll]
             /\ App \in mature /\ mature' = mature \ {App} /\ lock' = None
             /\ \/ /\ mqtt_state' = "TRANSPORT_CONNECTED" /\ pc'[App] = "connecting"
                   /\ client' = "tcp" /\ open' = open \cup {sock'}
                \/ /\ mqtt_state' = "DISCONNECTED" /\ pc'[App] = "app"
                   /\ UNCHANGED <<client, sock, open>>
             /\ ~asserted'
             /\ UNCHANGED <<registered, connection_poll_sem, resume>>
  <2>1. pc[App] = "handshake" /\ mqtt_state = "TRANSPORT_CONNECTING"
    BY <1>0, <1>6 DEF Handshake, Joint, AppInState, MqttStates, Idling
  <2> QED
    BY <1>0, <1>6, <2>1, AppReturn, AppGoto, LegalSet
       DEF Handshake, Io, ApiLabels, EvtLabels, boundary, lib, returns, Return
<1>7. ASSUME Connecting(App)
      PROVE  /\ pc[App] = "connecting" /\ pc'[App] = "app" /\ pc'[Poll] = pc[Poll]
             /\ mqtt_state = "TRANSPORT_CONNECTED" /\ mqtt_state' = "CONNECTING" /\ ~asserted'
             /\ connection_poll_sem' = 1
             /\ UNCHANGED <<registered, client, sock, open, lock, resume, mature>>
  <2>1. pc[App] = "connecting" /\ mqtt_state = "TRANSPORT_CONNECTED"
    BY <1>0, <1>7 DEF Connecting, Joint, AppInState, MqttStates, Idling
  <2> QED
    BY <1>0, <1>7, <2>1, AppReturn, LegalSet
       DEF Connecting, ApiLabels, boundary, lib, Return
<1>10. mqtt_state \in MqttStates /\ connection_poll_sem \in {0, 1} /\ told \in {"up", "down"}
  BY DEF TInv, HelperData
<1> USE <1>10, TwoThreads
    DEF Joint, AppInState, Idling, LibInState, LoopLabels, OneSocket, PollInState,
        Parked, Holds, Matured, IoLabels, Knows, MqttStates
<1>11. CASE Init_(App)
  BY <1>1, <1>11
<1>12. CASE Deinit(App)
  <2>1. CASE mqtt_state = "DISCONNECTED"
    <3>1. Parked /\ told = "down"
      BY <1>2, <1>12, <2>1
    <3> QED
      BY <1>2, <1>12, <2>1, <3>1
  <2>2. CASE mqtt_state # "DISCONNECTED"
    <3>1. /\ pc[App] = "deinit" /\ pc'[App] = "app" /\ pc'[Poll] = pc[Poll]
          /\ UNCHANGED <<mqtt_state, asserted, registered, connection_poll_sem, client, sock,
                         open, lock, resume, mature>>
      BY <1>2, <1>12, <2>2
    <3> QED
      BY <3>1
  <2> QED
    BY <2>1, <2>2
<1>13. CASE Connect(App)
  BY <1>3, <1>13
<1>14. CASE GetAddrInfo(App)
  BY <1>4, <1>14
<1>15. CASE MqttConnect(App)
  BY <1>5, <1>15
<1>16. CASE Handshake(App)
  BY <1>6, <1>16
<1>17. CASE Connecting(App)
  BY <1>7, <1>17
<1> QED
  BY <1>11, <1>12, <1>13, <1>14, <1>15, <1>16, <1>17

\* App disconnects, and handles the DISCONNECT events in its own thread.
LEMMA AppDisconnectKeeps ==
  ASSUME TInv, Joint, Patient,
         \/ /\ \/ Disconnect(App) \/ SetDisconnecting(App) \/ MqttDisconnect(App)
               \/ DisconnectWrite(App) \/ DisconnectFailed(App) \/ EvtDisconnect(App)
            /\ UNCHANGED told
         \/ OnDisconnect(App)
  PROVE  Joint'
<1>0. Flow /\ mqtt_state \in MqttStates /\ ~asserted
  BY DEF TInv, HelperData, Joint
<1>1. ASSUME Disconnect(App)
      PROVE  /\ pc[App] = "disconnect" /\ pc'[Poll] = pc[Poll]
             /\ \/ mqtt_state = "CONNECTED" /\ pc'[App] = "set_disconnecting"
                \/ mqtt_state # "CONNECTED" /\ pc'[App] = "app"
             /\ UNCHANGED <<mqtt_state, asserted, registered, connection_poll_sem, client, sock,
                            open, lock, resume, mature>>
  BY <1>0, <1>1, AppGoto, AppReturn
     DEF Disconnect, ApiLabels, EvtLabels, machine, boundary, lib, returns, Return
<1>2. ASSUME SetDisconnecting(App)
      PROVE  /\ pc[App] = "set_disconnecting" /\ pc'[App] = "mqtt_disconnect"
             /\ pc'[Poll] = pc[Poll]
             /\ mqtt_state = "CONNECTED" /\ mqtt_state' = "DISCONNECTING" /\ ~asserted'
             /\ UNCHANGED <<registered, connection_poll_sem, client, sock, open, lock, resume,
                            mature>>
  <2>1. pc[App] = "set_disconnecting" /\ mqtt_state = "CONNECTED"
    BY <1>0, <1>2 DEF SetDisconnecting, Joint, AppInState, MqttStates, Idling
  <2> QED
    BY <1>0, <1>2, <2>1, AppGoto, LegalSet
       DEF SetDisconnecting, ApiLabels, EvtLabels, boundary, lib, returns
<1>3. ASSUME MqttDisconnect(App)
      PROVE  /\ pc[App] = "mqtt_disconnect" /\ pc'[Poll] = pc[Poll] /\ lock = None
             /\ \/ client = "session" /\ lock' = App /\ pc'[App] = "disconnect_write"
                \/ client # "session" /\ lock' = None /\ pc'[App] = "disconnect_failed"
             /\ UNCHANGED <<mqtt_state, asserted, registered, connection_poll_sem, client, sock,
                            open, resume, mature>>
  BY <1>0, <1>3, AppGoto
     DEF MqttDisconnect, ApiLabels, EvtLabels, machine, boundary, lib, returns
<1>4. ASSUME DisconnectWrite(App)
      PROVE  /\ pc[App] = "disconnect_write" /\ pc'[App] = "evt_disconnect"
             /\ pc'[Poll] = pc[Poll]
             /\ mature' = mature \ {App} /\ lock' = None
             /\ client' = "idle" /\ sock' = None /\ open' = open \ {sock}
             /\ UNCHANGED <<mqtt_state, asserted, registered, connection_poll_sem, resume>>
  BY <1>0, <1>4, AppRaise
     DEF DisconnectWrite, Close, Io, ApiLabels, machine, boundary, Raise, RaiseReturn
<1>5. ASSUME DisconnectFailed(App) \/ EvtDisconnect(App)
      PROVE  /\ pc[App] \in {"disconnect_failed", "evt_disconnect"}
             /\ pc'[App] = "on_disconnect" /\ pc'[Poll] = pc[Poll]
             /\ mqtt_state' = "DISCONNECTED" /\ ~asserted'
             /\ UNCHANGED <<registered, connection_poll_sem, client, sock, open, lock, resume,
                            mature>>
  <2>1. registered
    BY <1>5 DEF DisconnectFailed, EvtDisconnect, Joint, AppInState, Knows, Idling
  <2>2. CASE DisconnectFailed(App)
    BY <1>0, <2>1, <2>2, AppCallback, LegalSet
       DEF DisconnectFailed, ApiLabels, boundary, lib
  <2>3. CASE EvtDisconnect(App)
    BY <1>0, <2>1, <2>3, AppGoto, LegalSet
       DEF EvtDisconnect, ApiLabels, EvtLabels, boundary, lib, returns
  <2> QED
    BY <1>5, <2>2, <2>3
<1>6. ASSUME OnDisconnect(App)
      PROVE  /\ pc[App] = "on_disconnect" /\ pc'[App] \in {"app", "disconnect_failed"}
             /\ pc'[Poll] = pc[Poll] /\ told' = "down"
             /\ UNCHANGED <<mqtt_state, asserted, registered, connection_poll_sem, client, sock,
                            open, lock, resume, mature>>
  BY <1>0, <1>6, AppHandled
     DEF OnDisconnect, EvtLabels, DisconnectHandled, calm, machine, boundary, lib
<1>10. mqtt_state \in MqttStates /\ connection_poll_sem \in {0, 1} /\ told \in {"up", "down"}
  BY DEF TInv, HelperData
<1> USE <1>10, TwoThreads
    DEF Joint, AppInState, Idling, LibInState, LoopLabels, OneSocket, PollInState,
        Parked, Holds, Matured, IoLabels, Knows, MqttStates
<1>11. CASE Disconnect(App) /\ UNCHANGED told
  BY <1>1, <1>11
<1>12. CASE SetDisconnecting(App) /\ UNCHANGED told
  BY <1>2, <1>12
<1>13. CASE MqttDisconnect(App) /\ UNCHANGED told
  BY <1>3, <1>13
<1>14. CASE DisconnectWrite(App) /\ UNCHANGED told
  BY <1>4, <1>14
<1>15. CASE (DisconnectFailed(App) \/ EvtDisconnect(App)) /\ UNCHANGED told
  BY <1>5, <1>15
<1>16. CASE OnDisconnect(App)
  BY <1>6, <1>16
<1> QED
  BY <1>11, <1>12, <1>13, <1>14, <1>15, <1>16

\* App publishes or subscribes.
LEMMA AppSendKeeps ==
  ASSUME TInv, Joint, Patient, UNCHANGED told, Send(App) \/ MqttSend(App) \/ Write(App)
  PROVE  Joint'
<1>0. Flow /\ mqtt_state \in MqttStates /\ ~asserted
  BY DEF TInv, HelperData, Joint
<1>1. ASSUME Send(App)
      PROVE  /\ pc[App] = "send" /\ pc'[Poll] = pc[Poll]
             /\ \/ mqtt_state = "CONNECTED" /\ pc'[App] = "mqtt_send"
                \/ mqtt_state # "CONNECTED" /\ pc'[App] = "app"
             /\ UNCHANGED <<mqtt_state, asserted, registered, connection_poll_sem, client, sock,
                            open, lock, resume, mature>>
  BY <1>0, <1>1, AppGoto, AppReturn
     DEF Send, ApiLabels, EvtLabels, machine, boundary, lib, returns, Return
<1>2. ASSUME MqttSend(App)
      PROVE  /\ pc[App] = "mqtt_send" /\ pc'[Poll] = pc[Poll] /\ lock = None
             /\ \/ client = "session" /\ lock' = App /\ pc'[App] = "write"
                \/ client # "session" /\ lock' = None /\ pc'[App] = "app"
             /\ UNCHANGED <<mqtt_state, asserted, registered, connection_poll_sem, client, sock,
                            open, resume, mature>>
  BY <1>0, <1>2, AppGoto, AppReturn
     DEF MqttSend, ApiLabels, EvtLabels, machine, boundary, lib, returns, Return
<1>3. ASSUME Write(App)
      PROVE  /\ pc[App] = "write" /\ pc'[Poll] = pc[Poll]
             /\ App \in mature /\ mature' = mature \ {App} /\ lock' = None
             /\ \/ pc'[App] = "app" /\ UNCHANGED <<client, sock, open>>
                \/ /\ pc'[App] = "evt_disconnect"
                   /\ client' = "idle" /\ sock' = None /\ open' = open \ {sock}
             /\ UNCHANGED <<mqtt_state, asserted, registered, connection_poll_sem, resume>>
  BY <1>0, <1>3, AppRaise, AppReturn
     DEF Write, Close, Io, ApiLabels, machine, boundary, lib, RaiseReturn, Return
<1>10. mqtt_state \in MqttStates /\ connection_poll_sem \in {0, 1} /\ told \in {"up", "down"}
  BY DEF TInv, HelperData
<1> USE <1>10, TwoThreads
    DEF Joint, AppInState, Idling, LibInState, LoopLabels, OneSocket, PollInState,
        Parked, Holds, Matured, IoLabels, Knows, MqttStates
<1>11. CASE Send(App)
  BY <1>1, <1>11
<1>12. CASE MqttSend(App)
  BY <1>2, <1>12
<1>13. CASE Write(App)
  BY <1>3, <1>13
<1> QED
  BY <1>11, <1>12, <1>13

\* The client calls the API.
LEMMA AppCallKeeps ==
  ASSUME TInv, Joint, AppStep
  PROVE  Joint'
<1>1. /\ pc[App] = "app" /\ pc'[Poll] = pc[Poll]
      /\ \/ pc'[App] \in {"init", "connect", "send"}
         \/ pc'[App] = "deinit" /\ pc[Poll] = "sem_take"
         \/ pc'[App] = "disconnect" /\ told = "up"
      /\ UNCHANGED <<mqtt_state, asserted, registered, connection_poll_sem, client, sock,
                     open, lock, resume, mature, told>>
  BY AppCall
     DEF TInv, AppStep, AppCalls, ApiLabels, Call, calm, machine, boundary, lib
<1>2. mqtt_state \in MqttStates /\ connection_poll_sem \in {0, 1} /\ told \in {"up", "down"}
  BY DEF TInv, HelperData
<1> QED
  BY <1>1, <1>2, TwoThreads DEF Joint, AppInState, Idling, LibInState, LoopLabels,
     OneSocket, PollInState, Parked, Holds, Matured, IoLabels, Knows, MqttStates

-----------------------------------------------------------------------------
(* The poll thread *)

\* When the poll thread runs, App is outside of the API, in its I/O, or waits for
\* the poll thread to finish a write.
LEMMA AppWaits ==
  ASSUME TInv, Joint, ~Ready(App)
  PROVE  \/ pc[App] \in {"app", "getaddrinfo", "handshake", "disconnect_write", "write"}
         \/ /\ pc[App] \in {"mqtt_connect", "mqtt_disconnect", "mqtt_send"}
            /\ pc[Poll] = "write" /\ lock = Poll
<1>1. pc[App] \in {"app"} \cup ApiLabels \cup EvtLabels
  BY DEF TInv, Flow, AppFine
<1>2. pc[App] \notin RunLabels \cup Callbacks
  BY DEF Ready, HelperReady
<1>3. CASE pc[App] \in {"mqtt_connect", "mqtt_disconnect", "mqtt_send"}
  <2>1. lock # None
    BY <1>3 DEF Ready, HelperReady, LockLabels
  <2>2. lock = Poll
    BY <1>3, <2>1, TwoThreads DEF TInv, HelperData, Joint, Holds
  <2> QED
    BY <1>3, <2>2 DEF Joint, Holds
<1> QED
  BY <1>1, <1>2, <1>3 DEF ApiLabels, EvtLabels, RunLabels, Callbacks

\* The poll thread makes calls of the API only to send.
LEMMA PollApi ==
  ASSUME TInv, ApiStep(Poll)
  PROVE  Send(Poll) \/ MqttSend(Poll) \/ Write(Poll) \/ EvtDisconnect(Poll)
<1>1. pc[Poll] \in LoopLabels \cup EventLabels \cup SendLabels \cup EvtLabels
  BY DEF TInv, Flow, PollFine
<1> QED
  BY <1>1 DEF ApiStep, Init_, Deinit, Connect, GetAddrInfo, MqttConnect, Handshake,
     Connecting, Disconnect, SetDisconnecting, MqttDisconnect, DisconnectWrite,
     DisconnectFailed, LoopLabels, EventLabels, SendLabels, EvtLabels

\* Its calls of the API, and its DISCONNECT events.
LEMMA PollApiKeeps ==
  ASSUME TInv, Joint, Patient, ~Ready(App),
         \/ ApiStep(Poll) /\ UNCHANGED told
         \/ OnDisconnect(Poll)
  PROVE  Joint'
<1>0. Flow /\ mqtt_state \in MqttStates /\ ~asserted
  BY DEF TInv, HelperData, Joint
<1>1. ASSUME Send(Poll)
      PROVE  /\ pc[Poll] = "send" /\ pc'[App] = pc[App]
             /\ pc'[Poll] \in {"mqtt_send"} \cup Backs
             /\ UNCHANGED <<mqtt_state, asserted, registered, connection_poll_sem, client, sock,
                            open, lock, resume, mature>>
  BY <1>0, <1>1, PollGoto, PollReturn
     DEF Send, SendLabels, machine, boundary, lib, returns, Return
<1>2. ASSUME MqttSend(Poll)
      PROVE  /\ pc[Poll] = "mqtt_send" /\ pc'[App] = pc[App] /\ lock = None
             /\ \/ client = "session" /\ lock' = Poll /\ pc'[Poll] = "write"
                \/ client # "session" /\ lock' = None /\ pc'[Poll] \in Backs
             /\ UNCHANGED <<mqtt_state, asserted, registered, connection_poll_sem, client, sock,
                            open, resume, mature>>
  BY <1>0, <1>2, PollGoto, PollReturn
     DEF MqttSend, SendLabels, machine, boundary, lib, returns, Return
<1>3. ASSUME Write(Poll)
      PROVE  /\ pc[Poll] = "write" /\ pc'[App] = pc[App]
             /\ mature' = mature \ {Poll} /\ lock' = None
             /\ \/ pc'[Poll] \in Backs /\ UNCHANGED <<client, sock, open>>
                \/ /\ pc'[Poll] = "evt_disconnect"
                   /\ client' = "idle" /\ sock' = None /\ open' = open \ {sock}
             /\ UNCHANGED <<mqtt_state, asserted, registered, connection_poll_sem, resume>>
  BY <1>0, <1>3, PollRaise, PollReturn
     DEF Write, Close, Io, SendLabels, machine, boundary, lib, RaiseReturn, Return
<1>4. ASSUME EvtDisconnect(Poll)
      PROVE  /\ pc[Poll] = "evt_disconnect" /\ pc'[Poll] = "on_disconnect"
             /\ pc'[App] = pc[App]
             /\ mqtt_state' = "DISCONNECTED" /\ ~asserted'
             /\ UNCHANGED <<registered, connection_poll_sem, client, sock, open, lock, resume,
                            mature>>
  <2>1. registered
    BY <1>4 DEF EvtDisconnect, Joint, PollInState, Knows
  <2> QED
    BY <1>0, <1>4, <2>1, PollGoto, LegalSet
       DEF EvtDisconnect, EvtLabels, boundary, lib, returns
<1>5. ASSUME OnDisconnect(Poll)
      PROVE  /\ pc[Poll] = "on_disconnect" /\ pc'[App] = pc[App]
             /\ pc'[Poll] \in Backs \cup {"sem_take", "mqtt_abort"} /\ told' = "down"
             /\ UNCHANGED <<mqtt_state, asserted, registered, connection_poll_sem, client, sock,
                            open, lock, resume, mature>>
  BY <1>0, <1>5, PollHandled DEF OnDisconnect, EvtLabels, calm, machine, boundary, lib
<1>10. mqtt_state \in MqttStates /\ connection_poll_sem \in {0, 1} /\ told \in {"up", "down"}
  BY DEF TInv, HelperData
<1> USE <1>10, TwoThreads, AppWaits
    DEF Joint, AppInState, Idling, LibInState, LoopLabels, OneSocket, PollInState,
        Parked, Holds, Matured, IoLabels, Knows, MqttStates, Backs
<1>11. CASE Send(Poll) /\ UNCHANGED told
  BY <1>1, <1>11
<1>12. CASE MqttSend(Poll) /\ UNCHANGED told
  BY <1>2, <1>12
<1>13. CASE Write(Poll) /\ UNCHANGED told
  BY <1>3, <1>13
<1>14. CASE EvtDisconnect(Poll) /\ UNCHANGED told
  BY <1>4, <1>14
<1>15. CASE OnDisconnect(Poll)
  BY <1>5, <1>15
<1> QED
  BY <1>11, <1>12, <1>13, <1>14, <1>15, PollApi

\* The answer to CONNECT, and the end of its event and of that of a PUBLISH.
LEMMA PollEventKeeps ==
  ASSUME TInv, Joint, ~Ready(App),
         (EvtConnack /\ UNCHANGED told) \/ OnConnack \/ EventDone
  PROVE  Joint'
<1>0. Flow /\ mqtt_state \in MqttStates /\ ~asserted
  BY DEF TInv, HelperData, Joint
<1>1. ASSUME EvtConnack
      PROVE  /\ \/ /\ pc[Poll] = "evt_accepted"
                   /\ mqtt_state = "CONNECTING" /\ mqtt_state' = "CONNECTED"
                \/ pc[Poll] = "evt_refused" /\ mqtt_state' = "DISCONNECTED"
             /\ pc'[Poll] = "on_connack" /\ pc'[App] = pc[App] /\ ~asserted'
             /\ UNCHANGED <<registered, connection_poll_sem, client, sock, open, lock, resume,
                            mature>>
  <2>1. registered /\ mqtt_state = "CONNECTING"
    BY <1>1 DEF EvtConnack, Joint, PollInState, Knows
  <2> QED
    BY <1>0, <1>1, <2>1, PollGoto, LegalSet
       DEF EvtConnack, EventLabels, boundary, lib, returns
<1>2. ASSUME OnConnack
      PROVE  /\ pc[Poll] = "on_connack" /\ pc'[App] = pc[App]
             /\ told' = IF resume = "input_done" THEN "up" ELSE "down"
             /\ pc'[Poll] \in {"send"} \cup Resumes
             /\ UNCHANGED <<mqtt_state, asserted, registered, connection_poll_sem, client, sock,
                            open, lock, mature>>
  BY <1>0, <1>2, PollCall, PollEventHandled
     DEF OnConnack, EventLabels, calm, machine, boundary, lib
<1>3. ASSUME EventDone
      PROVE  /\ pc[Poll] \in {"connack_done", "on_publish"} /\ pc'[App] = pc[App]
             /\ pc'[Poll] \in Resumes
             /\ UNCHANGED <<mqtt_state, asserted, registered, connection_poll_sem, client, sock,
                            open, lock, mature, told>>
  BY <1>0, <1>3, PollEventHandled
     DEF EventDone, EventLabels, calm, machine, boundary, lib
<1>10. mqtt_state \in MqttStates /\ connection_poll_sem \in {0, 1} /\ told \in {"up", "down"}
  BY DEF TInv, HelperData
<1> USE <1>10, TwoThreads, AppWaits
    DEF Joint, AppInState, Idling, LibInState, LoopLabels, OneSocket, PollInState,
        Parked, Holds, Matured, IoLabels, Knows, MqttStates, Resumes
<1>11. CASE EvtConnack /\ UNCHANGED told
  BY <1>1, <1>11
<1>12. CASE OnConnack
  BY <1>2, <1>12
<1>13. CASE EventDone
  BY <1>3, <1>13
<1> QED
  BY <1>11, <1>12, <1>13

\* The loop itself, up to what poll() returns.
LEMMA PollLoopKeeps ==
  ASSUME TInv, Joint, ~Ready(App), UNCHANGED told,
         SemTake \/ Loop \/ PollClosed \/ PollOpen \/ InputDone
  PROVE  Joint'
<1>0. Flow
  BY DEF TInv
<1>1. ASSUME SemTake
      PROVE  /\ pc[Poll] = "sem_take" /\ pc'[Poll] = "loop" /\ pc'[App] = pc[App]
             /\ connection_poll_sem = 1 /\ connection_poll_sem' = 0
             /\ UNCHANGED <<mqtt_state, asserted, registered, client, sock, open, lock, resume,
                            mature>>
  BY <1>0, <1>1, PollGoto DEF SemTake, LoopLabels, machine, boundary, lib, returns
<1>2. ASSUME Loop \/ InputDone
      PROVE  /\ pc[Poll] \in {"loop", "input_done"} /\ pc'[App] = pc[App]
             /\ pc'[Poll] \in {"poll", "sem_take", "loop", "mqtt_abort"}
             /\ UNCHANGED <<mqtt_state, asserted, registered, connection_poll_sem, client, sock,
                            open, lock, resume, mature>>
  BY <1>0, <1>2, PollGoto
     DEF Loop, InputDone, LoopLabels, machine, boundary, lib, returns
<1>3. ASSUME PollClosed \/ PollOpen
      PROVE  /\ pc[Poll] = "poll" /\ pc'[App] = pc[App]
             /\ pc'[Poll] \in {"mqtt_input", "mqtt_abort", "mqtt_live", "sem_take"}
             /\ mature' = mature \ {Poll}
             /\ UNCHANGED <<mqtt_state, asserted, registered, connection_poll_sem, client, sock,
                            open, lock, resume>>
  BY <1>0, <1>3, PollGoto
     DEF PollClosed, PollOpen, Io, LoopLabels, machine, boundary, lib, returns
<1>10. mqtt_state \in MqttStates /\ connection_poll_sem \in {0, 1} /\ told \in {"up", "down"}
  BY DEF TInv, HelperData
<1> USE <1>10, TwoThreads, AppWaits
    DEF Joint, AppInState, Idling, LibInState, LoopLabels, OneSocket, PollInState,
        Parked, Holds, Matured, IoLabels, Knows, MqttStates
<1>11. CASE SemTake
  BY <1>1, <1>11
<1>12. CASE Loop \/ InputDone
  BY <1>2, <1>12
<1>13. CASE PollClosed \/ PollOpen
  BY <1>3, <1>13
<1> QED
  BY <1>11, <1>12, <1>13

\* The library closes the socket and tells the poll thread.
LEMMA ClosesAndTells ==
  ASSUME Flow, pc[Poll] \in LoopLabels, NEW l \in {"mqtt_abort", "sem_take"}, CloseAndTell(l)
  PROVE  /\ Flow' /\ pc'[App] = pc[App]
         /\ \/ client = "session" /\ pc'[Poll] = "evt_disconnect" /\ resume' = resume
            \/ client = "tcp" /\ pc'[Poll] = "evt_refused" /\ resume' = l
         /\ client' = "idle" /\ sock' = None /\ open' = open \ {sock}
<1>1. CASE client = "session" /\ Raise(Poll, l)
  BY <1>1, PollRaise DEF CloseAndTell, Close
<1>2. CASE /\ client = "tcp" /\ Goto(Poll, "evt_refused") /\ resume' = l
           /\ UNCHANGED <<ret, after>>
  BY <1>2, PollEvent DEF CloseAndTell, Close, Resumes, EventLabels
<1> QED
  BY <1>1, <1>2 DEF CloseAndTell

\* What the poll thread receives, an abort of the library, and its pings.
LEMMA PollLibKeeps ==
  ASSUME TInv, Joint, ~Ready(App), UNCHANGED told, MqttLive \/ MqttInput \/ MqttAbort
  PROVE  Joint'
<1>0. Flow
  BY DEF TInv
<1>1. /\ pc[Poll] \in {"mqtt_live", "mqtt_input", "mqtt_abort"} /\ pc'[App] = pc[App]
      /\ lock = None
      /\ UNCHANGED <<mqtt_state, asserted, registered, connection_poll_sem, lock, mature>>
      /\ \/ /\ pc'[Poll] \in {"loop", "sem_take", "mqtt_abort", "input_done"}
            /\ UNCHANGED <<client, sock, open, resume>>
         \/ /\ client = "session" /\ pc'[Poll] \in {"on_publish", "mqtt_send"}
            /\ UNCHANGED <<client, sock, open>>
         \/ /\ client = "session" /\ pc'[Poll] = "evt_disconnect"
            /\ client' = "idle" /\ sock' = None /\ open' = open \ {sock}
         \/ /\ client = "tcp" /\ pc'[Poll] = "evt_refused" /\ resume' # "input_done"
            /\ client' = "idle" /\ sock' = None /\ open' = open \ {sock}
         \/ /\ client = "tcp" /\ pc'[Poll] = "evt_accepted" /\ resume' = "input_done"
            /\ client' = "session" /\ UNCHANGED <<sock, open>>
  <2>1. CASE MqttLive
    BY <1>0, <2>1, PollGoto, PollRaise
       DEF MqttLive, Close, LoopLabels, machine, boundary, lib, returns
  <2>2. CASE MqttAbort
    BY <1>0, <2>2, PollGoto, ClosesAndTells
       DEF MqttAbort, LoopLabels, machine, boundary, lib, returns
  <2>3. CASE MqttInput
    <3>1. /\ pc[Poll] = "mqtt_input" /\ lock = None
          /\ UNCHANGED <<mqtt_state, asserted, registered, connection_poll_sem, lock, mature>>
      BY <2>3 DEF MqttInput, machine, boundary
    <3>2. CASE CloseAndTell("mqtt_abort")
      BY <1>0, <3>1, <3>2, ClosesAndTells DEF LoopLabels
    <3>3. CASE Goto(Poll, "mqtt_abort") /\ UNCHANGED <<lib, returns>>
      BY <1>0, <3>1, <3>3, PollGoto DEF LoopLabels, lib, returns
    <3>4. CASE Received
      BY <1>0, <3>1, <3>2, <3>4, PollGoto, PollEvent
         DEF Received, LoopLabels, EventLabels, SendLabels, Resumes, lib, returns
    <3> QED
      BY <2>3, <3>2, <3>3, <3>4 DEF MqttInput
  <2> QED
    BY <2>1, <2>2, <2>3
<1>2. mqtt_state \in MqttStates /\ connection_poll_sem \in {0, 1} /\ told \in {"up", "down"}
  BY DEF TInv, HelperData
<1> QED
  BY <1>1, <1>2, TwoThreads, AppWaits DEF Joint, AppInState, Idling, LibInState,
     LoopLabels, OneSocket, PollInState, Parked, Holds, Matured, IoLabels, Knows,
     MqttStates

-----------------------------------------------------------------------------
(* The environment *)

\* The environment keeps the types ...
LEMMA EnvironmentTyped ==
  ASSUME TInv, Environment
  PROVE  TInv'
<1>1. CASE TimePasses
  BY <1>1 DEF TimePasses, TInv, HelperData, Flow, machine, boundary, lib, returns
<1>2. CASE LinkChange \/ ((Drop \/ DropWhileConnecting) /\ UNCHANGED told)
  <2>1. /\ UNCHANGED <<machine, connection_poll_sem, registered, client, sock, unread, open, lock,
                       fd, pc, returns, mature, told>>
        /\ link' \in BOOLEAN /\ dead' \subseteq open
    BY <1>2 DEF LinkChange, Drop, DropWhileConnecting, boundary, TInv, HelperData
  <2>2. budget' \in [DOMAIN Budget -> Nat]
    BY <1>2 DEF LinkChange, Drop, DropWhileConnecting, Spend, TInv, HelperData
  <2> QED
    BY <2>1, <2>2 DEF TInv, HelperData, Flow, machine, returns
<1> QED
  BY <1>1, <1>2 DEF Environment

\* ... and Joint: time passes only when neither thread can run.
LEMMA EnvironmentKeeps ==
  ASSUME TInv, Joint, Environment
  PROVE  Joint'
<1>1. CASE TimePasses
  <2>1. /\ ~Ready(App) /\ ~Ready(Poll) /\ mature' = {t \in Threads : InIo(t)}
        /\ UNCHANGED <<machine, connection_poll_sem, boundary, lib, lock, fd, pc, returns,
                       budget, told>>
    BY <1>1, TwoThreads DEF TimePasses
  <2>3. pc[Poll] # "on_connack"
    BY <2>1 DEF Ready, HelperReady, Callbacks
  <2>4. pc[App] = "getaddrinfo" => Parked
    <3> SUFFICES ASSUME pc[App] = "getaddrinfo" PROVE Parked
      OBVIOUS
    <3>1. client = "idle" /\ open = {} /\ pc[Poll] # "write" /\ lock # App
      BY TwoThreads DEF Joint, AppInState, LibInState, OneSocket, Idling, Holds, TInv,
         HelperData, MqttStates
    <3>2. lock = None
      BY <3>1, TwoThreads DEF Joint, Holds, TInv, HelperData
    <3>3. pc[Poll] \in LoopLabels \cup EventLabels \cup SendLabels \cup EvtLabels
      BY DEF TInv, Flow, PollFine
    <3>4. pc[Poll] = "sem_take"
      BY <2>1, <3>1, <3>2, <3>3 DEF Ready, HelperReady, LoopLabels, EventLabels,
         SendLabels, EvtLabels, RunLabels, LockLabels, Callbacks
    <3>5. connection_poll_sem = 0
      BY <2>1, <3>4 DEF Ready, HelperReady, TInv, HelperData
    <3> QED
      BY <3>4, <3>5 DEF Parked
  <2>5. Poll \in mature' => pc[Poll] \in {"poll", "write"}
    BY <2>1, TwoThreads DEF InIo, IoLabels, TInv, Flow, PollFine, LoopLabels,
       EventLabels, SendLabels, EvtLabels
  <2>6. App \in mature' => pc[App] \in IoLabels
    BY <2>1, TwoThreads DEF InIo, TInv, Flow, AppFine, ApiLabels, EvtLabels
  <2>7. Matured'
    BY <2>1, <2>4, <2>5, <2>6 DEF Matured, Parked
  <2>8. (AppInState /\ LibInState /\ OneSocket /\ Holds /\ Knows /\ ~asserted)'
    BY <2>1 DEF Joint, AppInState, LibInState, OneSocket, Holds, Knows, machine,
       boundary, lib
  <2>9. PollInState'
    BY <2>1, <2>3 DEF Joint, PollInState, Parked, machine, boundary, lib, returns
  <2> QED
    BY <2>7, <2>8, <2>9 DEF Joint
<1>2. CASE LinkChange \/ ((Drop \/ DropWhileConnecting) /\ UNCHANGED told)
  <2>1. UNCHANGED <<machine, connection_poll_sem, registered, client, sock, open, lock, pc,
                    returns, mature, told>>
    BY <1>2 DEF LinkChange, Drop, DropWhileConnecting, boundary
  <2> QED
    BY <2>1 DEF Joint, AppInState, LibInState, OneSocket, PollInState, Holds, Matured,
       Knows, Parked, machine, returns
<1> QED
  BY <1>1, <1>2 DEF Environment

-----------------------------------------------------------------------------
(* Types *)

\* App always has somewhere to return to ...
LEMMA AppFlows ==
  ASSUME Flow, ApiStep(App) \/ AppStep \/ OnDisconnect(App)
  PROVE  Flow'
<1> USE DEF ApiLabels, EvtLabels, returns
<1>1. CASE Init_(App) \/ Deinit(App) \/ Connecting(App)
  BY <1>1, AppReturn DEF Init_, Deinit, Connecting
<1>2. CASE Connect(App) \/ GetAddrInfo(App) \/ MqttConnect(App)
  BY <1>2, AppReturn, AppGoto DEF Connect, GetAddrInfo, MqttConnect
<1>3. CASE Handshake(App) \/ Disconnect(App) \/ SetDisconnecting(App) \/ MqttDisconnect(App)
  BY <1>3, AppReturn, AppGoto
     DEF Handshake, Disconnect, SetDisconnecting, MqttDisconnect
<1>4. CASE Send(App) \/ MqttSend(App)
  BY <1>4, AppReturn, AppGoto DEF Send, MqttSend
<1>5. CASE DisconnectWrite(App) \/ Write(App)
  BY <1>5, AppReturn, AppRaise DEF DisconnectWrite, Write
<1>6. CASE DisconnectFailed(App)
  BY <1>6, AppReturn, AppCallback DEF DisconnectFailed
<1>7. CASE EvtDisconnect(App) \/ OnDisconnect(App)
  BY <1>7, AppHandled, AppGoto DEF EvtDisconnect, OnDisconnect
<1>8. CASE AppStep
  BY <1>8, AppCall DEF AppStep, AppCalls
<1> QED
  BY <1>1, <1>2, <1>3, <1>4, <1>5, <1>6, <1>7, <1>8 DEF ApiStep

\* ... and so does the poll thread.
LEMMA PollFlows ==
  ASSUME TInv,
         ApiStep(Poll) \/ PollStep \/ OnDisconnect(Poll) \/ OnConnack \/ EventDone
  PROVE  Flow'
<1>0. Flow
  BY DEF TInv
<1> USE <1>0 DEF LoopLabels, EventLabels, SendLabels, EvtLabels, Resumes, returns
<1>1. CASE Send(Poll) \/ MqttSend(Poll) \/ Write(Poll)
  BY <1>1, PollGoto, PollReturn, PollRaise DEF Send, MqttSend, Write
<1>2. CASE EvtDisconnect(Poll) \/ OnDisconnect(Poll)
  BY <1>2, PollGoto, PollHandled DEF EvtDisconnect, OnDisconnect
<1>3. CASE EvtConnack \/ OnConnack \/ EventDone
  BY <1>3, PollGoto, PollCall, PollEventHandled DEF EvtConnack, OnConnack, EventDone
<1>4. CASE SemTake \/ Loop \/ PollClosed \/ PollOpen \/ InputDone
  BY <1>4, PollGoto DEF SemTake, Loop, PollClosed, PollOpen, InputDone
<1>5. CASE MqttLive \/ MqttAbort
  BY <1>5, PollGoto, PollRaise, ClosesAndTells DEF MqttLive, MqttAbort
<1>6. CASE MqttInput
  <2>1. pc[Poll] = "mqtt_input"
    BY <1>6 DEF MqttInput
  <2>2. CASE CloseAndTell("mqtt_abort")
    BY <2>1, <2>2, ClosesAndTells
  <2>3. CASE Goto(Poll, "mqtt_abort") /\ UNCHANGED returns
    BY <2>1, <2>3, PollGoto
  <2>4. CASE Received
    BY <2>1, <2>2, <2>4, PollGoto, PollEvent DEF Received
  <2> QED
    BY <1>6, <2>2, <2>3, <2>4 DEF MqttInput
<1> QED
  BY <1>1, <1>2, <1>3, <1>4, <1>5, <1>6, PollApi DEF PollStep

\* Threads are App and the poll thread.
LEMMA ThreadSteps ==
  ASSUME NEW t \in Threads, Thread(t)
  PROVE  \/ ApiStep(App) /\ UNCHANGED told
         \/ OnDisconnect(App) \/ AppStep
         \/ /\ ~Ready(App)
            /\ \/ (ApiStep(Poll) \/ PollStep) /\ UNCHANGED told
               \/ OnDisconnect(Poll) \/ OnConnack \/ EventDone
<1>1. CASE t = App
  BY <1>1, TwoThreads DEF Thread
<1>2. CASE t = Poll
  BY <1>2, TwoThreads DEF Thread, CanRun
<1> QED
  BY <1>1, <1>2, TwoThreads

\* A step of a thread keeps the types.
LEMMA ThreadTyped ==
  ASSUME TInv, NEW t \in Threads, Thread(t)
  PROVE  TInv'
<1>1. Flow'
  BY ThreadSteps, AppFlows, PollFlows DEF TInv
<1>2. HelperData' /\ mature' \subseteq Threads /\ told' \in {"up", "down"}
  <2>1. CASE ApiStep(t) /\ UNCHANGED told
    BY <2>1, ApiKeepsData, StepsMature DEF TInv
  <2>2. CASE PollStep /\ UNCHANGED told
    BY <2>2, PollKeepsData, StepsMature DEF TInv
  <2>3. CASE UNCHANGED calm /\ told' \in {told, "up", "down"}
    BY <2>3 DEF TInv, HelperData, calm, machine, boundary, lib
  <2> QED
    BY <2>1, <2>2, <2>3 DEF Thread, OnDisconnect, AppStep, OnConnack, EventDone
<1> QED
  BY <1>1, <1>2 DEF TInv

\* Types and returns are in order from the start ...
LEMMA TypedInit ==
  ASSUME Init
  PROVE  TInv
<1>1. HelperData
  BY HelperAssumption DEF Init, HelperInit, HelperData, MqttStates
<1>2. Flow
  <2>1. /\ pc[App] = "app" /\ pc[Poll] = "sem_take" /\ resume = None
        /\ \A t \in Threads : ret[t] = None /\ after[t] = None
    BY TwoThreads DEF Init, HelperInit
  <2>2. AppFine(pc[App], ret[App], after[App])
    BY <2>1, TwoThreads DEF AppFine, ApiLabels, EvtLabels
  <2>3. PollFine(pc[Poll], ret[Poll], after[Poll], resume)
    BY <2>1, TwoThreads
       DEF PollFine, Interrupted, LoopLabels, EventLabels, SendLabels, EvtLabels
  <2>4. "app" \in AppLabels /\ "sem_take" \in AppLabels
    BY FineLabels DEF LoopLabels
  <2> QED
    BY <2>2, <2>3, <2>4 DEF Init, HelperInit, Flow
<1> QED
  BY <1>1, <1>2 DEF Init, HelperInit, TInv

\* ... and stay so.
LEMMA Typed == Spec => []TInv
<1>1. TInv /\ [Next]_vars => TInv'
  <2>1. CASE UNCHANGED vars
    BY <2>1
       DEF vars, helperVars, TInv, HelperData, Flow, machine, boundary, lib, returns
  <2> QED
    BY <2>1, ThreadTyped, EnvironmentTyped DEF Next
<1> QED
  BY <1>1, TypedInit, PTL DEF Spec

\* Types of the helper's state under the general client, whether or not I/O is
\* patient: every call and every event has a label to return to.
THEOREM TypeCorrect == Spec => []TypeOK
<1>1. TInv => TypeOK
  <2> SUFFICES ASSUME TInv PROVE TypeOK
    OBVIOUS
  <2>1. resume \in AppLabels \cup {None}
    BY FineLabels DEF TInv, Flow, PollFine
  <2> QED
    BY <2>1 DEF TInv, HelperData, Flow, TypeOK
<1> QED
  BY <1>1, Typed, PTL

-----------------------------------------------------------------------------
(* The two threads together *)

\* Joint is inductive.
LEMMA JointStep ==
  ASSUME Patient, TInv, Joint, [Next]_vars
  PROVE  Joint'
<1>1. ASSUME NEW t \in Threads, Thread(t) PROVE Joint'
  <2>1. CASE ApiStep(App) /\ UNCHANGED told
    BY <2>1, AppConnectKeeps, AppDisconnectKeeps, AppSendKeeps DEF ApiStep
  <2>2. CASE OnDisconnect(App) \/ AppStep
    BY <2>2, AppDisconnectKeeps, AppCallKeeps
  <2>3. CASE ~Ready(App) /\ (ApiStep(Poll) \/ PollStep) /\ UNCHANGED told
    BY <2>3, PollApiKeeps, PollEventKeeps, PollLoopKeeps, PollLibKeeps DEF PollStep
  <2>4. CASE ~Ready(App) /\ (OnDisconnect(Poll) \/ OnConnack \/ EventDone)
    BY <2>4, PollApiKeeps, PollEventKeeps
  <2> QED
    BY <1>1, <2>1, <2>2, <2>3, <2>4, ThreadSteps
<1>2. CASE UNCHANGED vars
  BY <1>2 DEF vars, helperVars, Joint, AppInState, LibInState, OneSocket, PollInState,
     Holds, Matured, Knows, Parked, machine, boundary, lib, returns
<1> QED
  BY <1>1, <1>2, EnvironmentKeeps DEF Next

\* Joint holds in every state.
LEMMA Joined ==
  ASSUME Patient
  PROVE  Spec => []Joint
<1>1. Init => Joint
  <2> SUFFICES ASSUME Init PROVE Joint
    OBVIOUS
  <2>1. pc[App] = "app" /\ pc[Poll] = "sem_take"
    BY TwoThreads DEF Init
  <2> QED
    BY <2>1, TwoThreads DEF Init, HelperInit, Joint, AppInState, Idling, LibInState,
       OneSocket, PollInState, Parked, Holds, Matured, Knows
<1> QED
  BY <1>1, JointStep, Typed, PTL DEF Spec

\* The __ASSERT of mqtt_state_set never fails, in whatever order the client calls
\* the API, sockets fail and events arrive, given that I/O is patient.
THEOREM TransitionsLegal ==
  ASSUME Patient
  PROVE  Spec => []NoIllegalTransition
<1>1. Joint => NoIllegalTransition
  BY DEF Joint, NoIllegalTransition
<1> QED
  BY <1>1, Joined, PTL

\* Callbacks that ran in two threads do not overtake each other: once both are
\* idle the client knows whether it is connected.
THEOREM ClientKnows ==
  ASSUME Patient
  PROVE  Spec => []ToldTheTruth
<1>1. TInv /\ Joint => ToldTheTruth
  <2> SUFFICES ASSUME TInv, Joint, Quiet PROVE told = "up" <=> mqtt_state = "CONNECTED"
    BY DEF ToldTheTruth
  <2>1. pc[App] = "app" /\ pc[Poll] \in {"sem_take", "poll"} /\ told \in {"up", "down"}
    BY DEF Quiet, TInv
  <2>2. mqtt_state # "DISCONNECTING"
    BY <2>1 DEF Joint, AppInState
  <2> QED
    BY <2>1, <2>2 DEF Joint, Knows
<1> QED
  BY <1>1, Joined, Typed, PTL

-----------------------------------------------------------------------------
(* The session *)

\* A step sets the state or closes the socket, and not both; only the end of the
\* handshake sets the state and opens a socket.
StateOrSocket ==
    \/ mqtt_state' = mqtt_state /\ open' \in {open, open \ {sock}}
    \/ \E s \in MqttStates :
           /\ open' = open /\ mqtt_state_set(s)
           /\ s = "CONNECTED" => pc[Poll] = "evt_accepted"
    \/ /\ \E t \in Threads : pc[t] = "handshake"
       /\ \E s \in Fds : open' = open \cup {s}
       /\ mqtt_state_set("TRANSPORT_CONNECTED")

\* So it is with the calls of the API ...
LEMMA ApiStateOrSocket ==
  ASSUME NEW t \in Threads, ApiStep(t)
  PROVE  StateOrSocket
<1> USE DEF StateOrSocket, machine, lib, MqttStates
<1>1. CASE Init_(t) \/ Deinit(t) \/ Connect(t)
  BY <1>1 DEF Init_, Deinit, Connect
<1>2. CASE GetAddrInfo(t) \/ MqttConnect(t) \/ Connecting(t)
  BY <1>2 DEF GetAddrInfo, MqttConnect, Connecting
<1>3. CASE Handshake(t)
  BY <1>3 DEF Handshake
<1>4. CASE Disconnect(t) \/ SetDisconnecting(t) \/ MqttDisconnect(t)
  BY <1>4 DEF Disconnect, SetDisconnecting, MqttDisconnect
<1>5. CASE DisconnectWrite(t) \/ Write(t)
  BY <1>5 DEF DisconnectWrite, Write, Close
<1>6. CASE DisconnectFailed(t) \/ EvtDisconnect(t)
  BY <1>6 DEF DisconnectFailed, EvtDisconnect
<1>7. CASE Send(t) \/ MqttSend(t)
  BY <1>7 DEF Send, MqttSend
<1> QED
  BY <1>1, <1>2, <1>3, <1>4, <1>5, <1>6, <1>7 DEF ApiStep

\* ... with the poll thread ...
LEMMA PollStateOrSocket ==
  ASSUME PollStep
  PROVE  StateOrSocket
<1> USE DEF StateOrSocket, machine, lib
<1>1. CASE EvtConnack
  BY <1>1 DEF EvtConnack, MqttStates
<1>2. CASE SemTake \/ Loop \/ PollClosed \/ PollOpen \/ InputDone
  BY <1>2 DEF SemTake, Loop, PollClosed, PollOpen, InputDone
<1>3. CASE MqttLive \/ MqttAbort
  BY <1>3 DEF MqttLive, MqttAbort, CloseAndTell, Close
<1>4. CASE MqttInput
  <2>1. mqtt_state' = mqtt_state
    BY <1>4 DEF MqttInput
  <2>2. CASE CloseAndTell("mqtt_abort")
    BY <2>1, <2>2 DEF CloseAndTell, Close
  <2>3. CASE UNCHANGED lib
    BY <2>1, <2>3
  <2>4. CASE Received
    BY <2>1, <2>2, <2>4 DEF Received
  <2> QED
    BY <1>4, <2>2, <2>3, <2>4 DEF MqttInput
<1> QED
  BY <1>1, <1>2, <1>3, <1>4 DEF PollStep

\* ... and with every step.
LEMMA StepStateOrSocket ==
  ASSUME [Next]_vars
  PROVE  StateOrSocket
<1>1. ASSUME NEW t \in Threads, Thread(t) PROVE StateOrSocket
  <2>1. CASE UNCHANGED calm
    BY <2>1 DEF StateOrSocket, calm, machine, lib
  <2> QED
    BY <1>1, <2>1, ApiStateOrSocket, PollStateOrSocket
       DEF Thread, OnDisconnect, AppStep, OnConnack, EventDone
<1>2. CASE Environment \/ UNCHANGED vars
  BY <1>2 DEF StateOrSocket, Environment, TimePasses, LinkChange, Drop,
     DropWhileConnecting, vars, helperVars, machine, lib
<1> QED
  BY <1>1, <1>2 DEF Next

\* Every step of the two threads and of the network is one of a session or
\* none: the helper reports DISCONNECTED only once its socket is closed and never
\* opens one beside another.
THEOREM SessionImplemented ==
  ASSUME Patient
  PROVE  Spec => ImplementsSession
<1>1. Init => Session!Init
  BY DEF Init, HelperInit, Session!Init, phase, wire
<1>2. ASSUME TInv, Joint, TInv', Joint', [Next]_vars
      PROVE  [Session!Next]_<<phase, wire>>
  <2>1. /\ wire <=> client # "idle"
        /\ wire' <=> client' # "idle"
    BY <1>2, HelperAssumption DEF Joint, OneSocket, wire
  <2>2. mqtt_state \in MqttStates /\ mqtt_state' \in MqttStates
    BY <1>2 DEF TInv, HelperData
  <2>3. CASE mqtt_state' = mqtt_state /\ open' \in {open, open \ {sock}}
    <3>1. phase' = phase
      BY <2>3 DEF phase
    <3>2. CASE open' = open
      BY <3>1, <3>2 DEF wire
    <3>3. CASE open' = open \ {sock}
      <4>1. open' = {}
        BY <1>2, <3>3 DEF Joint, OneSocket
      <4>2. CASE wire
        BY <3>1, <4>1, <4>2 DEF Session!Next, Session!Lose, wire
      <4>3. CASE ~wire
        BY <3>1, <4>1, <4>3 DEF wire
      <4> QED
        BY <4>2, <4>3
    <3> QED
      BY <2>3, <3>2, <3>3
  <2>4. ASSUME open' = open, NEW s \in MqttStates, mqtt_state_set(s),
               s = "CONNECTED" => pc[Poll] = "evt_accepted"
        PROVE  [Session!Next]_<<phase, wire>>
    <3>1. wire' = wire
      BY <2>4 DEF wire
    <3>2. mqtt_state' = s /\ s \in LegalNext[mqtt_state] \cup {mqtt_state}
      BY <1>2, <2>4 DEF mqtt_state_set, Joint
    <3>3. s = "DISCONNECTED" => ~wire
      BY <1>2, <2>1, <3>1, <3>2 DEF Joint, LibInState
    <3>4. s = "CONNECTED" /\ mqtt_state # "CONNECTED" => mqtt_state = "CONNECTING" /\ wire
      BY <1>2, <2>1, <2>4 DEF Joint, PollInState
    <3>5. CASE s = mqtt_state
      BY <3>1, <3>2, <3>5 DEF phase
    <3>6. CASE s # mqtt_state /\ s = "DISCONNECTED"
      BY <2>2, <3>1, <3>2, <3>3, <3>6
         DEF phase, MqttStates, Session!Next, Session!SwitchOn, Session!GiveUp
    <3>7. CASE s # mqtt_state /\ s # "DISCONNECTED"
      BY <2>2, <3>1, <3>2, <3>4, <3>7 DEF phase, MqttStates, LegalNext, Session!Next,
         Session!SwitchOff, Session!Open, Session!Establish, Session!Shut
    <3> QED
      BY <3>5, <3>6, <3>7
  <2>5. ASSUME NEW t \in Threads, pc[t] = "handshake",
               NEW s \in Fds, open' = open \cup {s},
               mqtt_state_set("TRANSPORT_CONNECTED")
        PROVE  [Session!Next]_<<phase, wire>>
    <3>1. t = App
      BY <1>2, <2>5, TwoThreads
         DEF TInv, Flow, PollFine, LoopLabels, EventLabels, SendLabels, EvtLabels
    <3>2. mqtt_state = "TRANSPORT_CONNECTING" /\ client = "idle"
      BY <1>2, <2>2, <2>5, <3>1 DEF Joint, AppInState, LibInState, Idling, MqttStates
    <3>3. phase = "opening" /\ phase' = "opening" /\ ~wire /\ wire'
      BY <2>1, <2>5, <3>2 DEF phase, wire, mqtt_state_set
    <3> QED
      BY <3>3 DEF Session!Next, Session!Attach
  <2>6. StateOrSocket
    BY <1>2, StepStateOrSocket
  <2>7. CASE \E s \in MqttStates :
                 /\ open' = open /\ mqtt_state_set(s)
                 /\ s = "CONNECTED" => pc[Poll] = "evt_accepted"
    BY <2>4, <2>7
  <2>8. CASE /\ \E t \in Threads : pc[t] = "handshake"
             /\ \E s \in Fds : open' = open \cup {s}
             /\ mqtt_state_set("TRANSPORT_CONNECTED")
    <3>1. PICK t \in Threads, s \in Fds : pc[t] = "handshake" /\ open' = open \cup {s}
      BY <2>8
    <3> QED
      BY <2>5, <2>8, <3>1
  <2> QED
    BY <2>3, <2>6, <2>7, <2>8 DEF StateOrSocket
<1> QED
  BY <1>1, <1>2, JointStep, Joined, Typed, PTL
     DEF Spec, ImplementsSession, Session!Spec

-----------------------------------------------------------------------------
(* The socket that is polled *)

\* The broker answers CONNECT in time and poll() does not fail.
Answered == Budget["mute"] = 0 /\ Budget["pollerr"] = 0

\* The poll thread is on the socket of the session, or will be, until it is asked
\* to leave it by a disconnect or the socket is closed.
Polling ==
    /\ budget["mute"] = 0 /\ budget["pollerr"] = 0
    /\ pc[Poll] # "sem_take" /\ client # "idle" => fd = sock
    /\ pc[Poll] = "sem_take" /\ client # "idle" =>
           connection_poll_sem = 1 \/ mqtt_state \in {"TRANSPORT_CONNECTED", "DISCONNECTING"}
    /\ pc[Poll] = "mqtt_live" => client # "tcp"
    /\ pc[Poll] \notin LoopLabels /\ resume = "sem_take" => client = "idle"

\* A fault that cannot happen stays so.
LEMMA BudgetFalls ==
  ASSUME TInv, NEW f \in DOMAIN Budget, budget[f] = 0,
         UNCHANGED budget \/ \E g : Spend(g)
  PROVE  budget'[f] = 0 /\ ~Spend(f)
  BY DEF TInv, HelperData, Spend

\* App, as far as the poll thread depends on it.
LEMMA AppEffects ==
  ASSUME TInv, Joint, ApiStep(App) \/ AppStep \/ OnDisconnect(App)
  PROVE  /\ UNCHANGED fd /\ pc'[Poll] = pc[Poll] /\ resume' = resume
         /\ UNCHANGED budget \/ \E g : Spend(g)
         /\ connection_poll_sem' \in {connection_poll_sem, 1}
         /\ \/ mqtt_state' = mqtt_state
            \/ mqtt_state' # "CONNECTED" /\ (mqtt_state' = "CONNECTING" => connection_poll_sem' = 1)
         /\ \/ UNCHANGED <<client, sock>> \/ client' = "idle"
            \/ pc[App] = "handshake" /\ mqtt_state' = "TRANSPORT_CONNECTED"
<1>0. Flow
  BY DEF TInv
<1> USE <1>0 DEF ApiLabels, EvtLabels, machine, boundary, lib, returns, mqtt_state_set
<1>1. CASE Init_(App) \/ Deinit(App) \/ Connecting(App)
  BY <1>1, AppReturn DEF Init_, Deinit, Connecting, Return
<1>2. CASE Connect(App) \/ MqttConnect(App)
  BY <1>2, AppReturn, AppGoto DEF Connect, MqttConnect, Return
<1>3. CASE GetAddrInfo(App)
  BY <1>3, AppReturn, AppGoto DEF GetAddrInfo, MayFail, Return
<1>4. CASE Handshake(App)
  BY <1>4, AppReturn, AppGoto DEF Handshake, MayFail, Return
<1>5. CASE Disconnect(App) \/ SetDisconnecting(App) \/ MqttDisconnect(App)
  BY <1>5, AppReturn, AppGoto DEF Disconnect, SetDisconnecting, MqttDisconnect, Return
<1>6. CASE DisconnectWrite(App) \/ Write(App)
  BY <1>6, AppReturn, AppRaise
     DEF DisconnectWrite, Write, Close, Raise, RaiseReturn, Return
<1>7. CASE DisconnectFailed(App)
  BY <1>7, AppReturn, AppCallback DEF DisconnectFailed, Return
<1>8. CASE EvtDisconnect(App) \/ OnDisconnect(App)
  BY <1>8, AppGoto, AppHandled
     DEF EvtDisconnect, OnDisconnect, DisconnectHandled, calm
<1>9. CASE Send(App) \/ MqttSend(App)
  BY <1>9, AppReturn, AppGoto DEF Send, MqttSend, Return
<1>10. CASE AppStep
  BY <1>10, AppCall DEF AppStep, AppCalls, Call, calm
<1> QED
  BY <1>1, <1>2, <1>3, <1>4, <1>5, <1>6, <1>7, <1>8, <1>9, <1>10 DEF ApiStep

\* App leaves the poll thread on its socket, or tells it of a new one.
LEMMA AppKeepsPolling ==
  ASSUME TInv, Joint, TInv', Joint', Polling,
         ApiStep(App) \/ AppStep \/ OnDisconnect(App)
  PROVE  Polling'
<1>1. budget'["mute"] = 0 /\ budget'["pollerr"] = 0
  BY AppEffects, BudgetFalls, HelperAssumption DEF Polling, Faults
<1>2. mqtt_state' \in MqttStates
  BY DEF TInv, HelperData
<1>3. CASE client' = "idle"
  BY <1>1, <1>3 DEF Polling
<1>4. CASE pc[App] = "handshake" /\ mqtt_state' = "TRANSPORT_CONNECTED"
  <2>1. pc'[Poll] = "sem_take"
    BY <1>4 DEF Joint, PollInState, Parked
  <2> QED
    BY <1>1, <1>4, <2>1 DEF Polling, LoopLabels
<1>5. CASE UNCHANGED <<client, sock>> /\ client # "idle"
  <2>1. mqtt_state' \notin {"UNINIT", "DISCONNECTED", "TRANSPORT_CONNECTING"}
    BY <1>5 DEF Joint, LibInState
  <2> QED
    BY <1>1, <1>2, <1>5, <2>1, AppEffects DEF Polling, MqttStates, LoopLabels
<1> QED
  BY <1>3, <1>4, <1>5, AppEffects

\* Events, as far as they matter for the loop.
LEMMA EventEffects ==
  ASSUME TInv,
         ApiStep(Poll) \/ EvtConnack \/ OnDisconnect(Poll) \/ OnConnack \/ EventDone
  PROVE  /\ UNCHANGED <<fd, budget, connection_poll_sem>>
         /\ UNCHANGED <<client, sock>> \/ client' = "idle"
         /\ pc[Poll] \notin LoopLabels /\ pc'[Poll] # "mqtt_live"
         /\ pc'[Poll] \notin LoopLabels => resume' = resume
         /\ pc'[Poll] = "sem_take" =>
                pc[Poll] \in {"evt_disconnect", "on_disconnect"} \/ resume = "sem_take"
<1>0. Flow
  BY DEF TInv
<1> USE <1>0 DEF LoopLabels, EventLabels, SendLabels, EvtLabels, Backs, Resumes, lib, returns
<1>1. CASE Send(Poll) \/ MqttSend(Poll)
  BY <1>1, PollGoto, PollReturn DEF Send, MqttSend
<1>2. CASE Write(Poll)
  BY <1>2, PollReturn, PollRaise DEF Write, Close
<1>3. CASE EvtDisconnect(Poll) \/ OnDisconnect(Poll)
  BY <1>3, PollGoto, PollHandled DEF EvtDisconnect, OnDisconnect, calm
<1>4. CASE EvtConnack
  BY <1>4, PollGoto, PollEventHandled DEF EvtConnack
<1>5. CASE OnConnack \/ EventDone
  BY <1>5, PollCall, PollEventHandled DEF OnConnack, EventDone, calm
<1> QED
  BY <1>1, <1>2, <1>3, <1>4, <1>5, PollApi

\* An event leaves the loop where it was.
LEMMA EventKeepsPolling ==
  ASSUME TInv, Joint, TInv', Joint', Polling,
         ApiStep(Poll) \/ EvtConnack \/ OnDisconnect(Poll) \/ OnConnack \/ EventDone
  PROVE  Polling'
<1>1. CASE client' = "idle"
  BY <1>1, EventEffects DEF Polling
<1>2. CASE UNCHANGED <<client, sock>> /\ client # "idle"
  <2>1. pc[Poll] # "evt_disconnect" /\ pc[Poll] # "on_disconnect"
    BY <1>2 DEF Joint, PollInState, LibInState
  <2> QED
    BY <1>2, <2>1, EventEffects DEF Polling, LoopLabels
<1> QED
  BY <1>1, <1>2, EventEffects

\* The loop stays on the socket of the session.
LEMMA LoopKeepsPolling ==
  ASSUME TInv, Joint, TInv', Joint', Polling,
         SemTake \/ Loop \/ PollClosed \/ PollOpen \/ MqttLive \/ MqttInput \/ InputDone
           \/ MqttAbort
  PROVE  Polling'
<1>0. Flow
  BY DEF TInv
<1>1. UNCHANGED budget \/ \E g : Spend(g)
  BY DEF SemTake, Loop, PollClosed, PollOpen, MqttLive, MqttInput, InputDone,
     MqttAbort, Received
<1>2. /\ budget'["mute"] = 0 /\ budget'["pollerr"] = 0
      /\ ~Spend("mute") /\ ~Spend("pollerr")
  BY <1>1, BudgetFalls, HelperAssumption DEF Polling, Faults
<1>3. mqtt_state \in MqttStates
  BY DEF TInv, HelperData
<1> USE <1>0, <1>2 DEF LoopLabels, lib, machine, returns
<1>4. CASE SemTake
  <2>1. /\ pc'[Poll] = "loop" /\ fd' = sock /\ UNCHANGED <<client, sock>>
    BY <1>4, PollGoto DEF SemTake
  <2> QED
    BY <2>1 DEF Polling
<1>5. CASE Loop \/ InputDone
  <2>1. /\ pc[Poll] # "sem_take" /\ UNCHANGED <<mqtt_state, client, sock>>
        /\ pc'[Poll] \in {"loop", "poll", "mqtt_abort"} => fd' = fd
        /\ \/ pc'[Poll] \in {"loop", "poll", "mqtt_abort"}
           \/ pc'[Poll] = "sem_take" /\ mqtt_state \notin {"CONNECTING", "CONNECTED"}
    BY <1>5, PollGoto DEF Loop, InputDone
  <2>2. mqtt_state \notin {"CONNECTING", "CONNECTED"} =>
            client = "idle" \/ mqtt_state \in {"TRANSPORT_CONNECTED", "DISCONNECTING"}
    BY <1>3 DEF Joint, LibInState, MqttStates
  <2> QED
    BY <2>1, <2>2 DEF Polling
<1>6. CASE PollClosed \/ PollOpen
  <2>1. /\ pc[Poll] = "poll" /\ UNCHANGED <<fd, client, sock>>
        /\ \/ pc'[Poll] \in {"mqtt_input", "mqtt_abort"}
           \/ pc'[Poll] = "mqtt_live" /\ client # "tcp"
    BY <1>6, PollGoto DEF PollClosed, PollOpen
  <2> QED
    BY <2>1 DEF Polling
<1>7. CASE MqttLive
  <2>1. client = "idle" \/ client = "session"
    BY <1>7 DEF MqttLive, Polling, TInv, HelperData
  <2>2. /\ pc[Poll] = "mqtt_live"
        /\ \/ pc'[Poll] = "loop" /\ UNCHANGED <<fd, client, sock>>
           \/ client' = "idle" /\ pc'[Poll] \in {"sem_take", "evt_disconnect"}
    BY <1>7, <2>1, PollGoto, PollRaise DEF MqttLive, Close
  <2> QED
    BY <2>2 DEF Polling
<1>8. CASE MqttInput
  <2>1. /\ pc[Poll] = "mqtt_input" /\ pc'[Poll] \notin {"sem_take", "mqtt_live"}
        /\ fd' = fd
        /\ \/ client' = "idle"
           \/ sock' = sock /\ client # "idle" /\ (pc'[Poll] \in LoopLabels \/ resume' = "input_done")
    <3>1. pc[Poll] = "mqtt_input" /\ fd' = fd
      BY <1>8 DEF MqttInput
    <3>2. CASE CloseAndTell("mqtt_abort")
      BY <3>1, <3>2, ClosesAndTells
    <3>3. CASE Goto(Poll, "mqtt_abort") /\ UNCHANGED <<lib, returns>>
      BY <3>1, <3>3, PollGoto
    <3>4. CASE Received
      BY <3>1, <3>2, <3>4, PollGoto, PollEvent
         DEF Received, EventLabels, SendLabels, Resumes
    <3> QED
      BY <1>8, <3>1, <3>2, <3>3, <3>4 DEF MqttInput
  <2> QED
    BY <2>1 DEF Polling
<1>9. CASE MqttAbort
  <2>1. client' = "idle" /\ pc'[Poll] # "mqtt_live"
    BY <1>9, PollGoto, ClosesAndTells DEF MqttAbort
  <2> QED
    BY <2>1 DEF Polling
<1> QED
  BY <1>4, <1>5, <1>6, <1>7, <1>8, <1>9

\* Polling is inductive.
LEMMA PollingStep ==
  ASSUME TInv, Joint, TInv', Joint', Polling, [Next]_vars
  PROVE  Polling'
<1>1. ASSUME NEW t \in Threads, Thread(t) PROVE Polling'
  BY <1>1, ThreadSteps, AppKeepsPolling, EventKeepsPolling, LoopKeepsPolling
     DEF PollStep
<1>2. CASE Environment \/ UNCHANGED vars
  <2>1. /\ UNCHANGED <<machine, connection_poll_sem, client, sock, fd, pc, returns>>
        /\ UNCHANGED budget \/ \E g : Spend(g)
    BY <1>2 DEF Environment, TimePasses, LinkChange, Drop, DropWhileConnecting, vars,
       helperVars, lib
  <2>2. budget'["mute"] = 0 /\ budget'["pollerr"] = 0
    BY <2>1, BudgetFalls, HelperAssumption DEF Polling, Faults
  <2> QED
    BY <2>1, <2>2 DEF Polling, machine, returns
<1> QED
  BY <1>1, <1>2 DEF Next

\* While the helper is connecting or connected, the poll thread is on the socket
\* of that session or will take the semaphore that puts it there, given that
\* the broker answers CONNECT before the keepalive runs out and poll() does not fail.
THEOREM SessionPolled ==
  ASSUME Patient, Answered
  PROVE  Spec => []PolledWhileOpen
<1>1. Init => Polling
  <2> SUFFICES ASSUME Init PROVE Polling
    OBVIOUS
  <2>1. pc[Poll] = "sem_take"
    BY TwoThreads DEF Init
  <2> QED
    BY <2>1 DEF Init, HelperInit, Polling, Answered, LoopLabels
<1>2. TInv /\ Joint /\ Polling => PolledWhileOpen
  <2> SUFFICES ASSUME TInv, Joint, Polling,
                      mqtt_state \in {"CONNECTING", "CONNECTED"}, sock # None
               PROVE  fd = sock \/ (pc[Poll] = "sem_take" /\ connection_poll_sem = 1)
    BY DEF PolledWhileOpen
  <2> QED
    BY DEF Joint, OneSocket, Polling
<1> QED
  BY <1>1, <1>2, PollingStep, JointStep, Joined, Typed, PTL DEF Spec
=============================================================================
