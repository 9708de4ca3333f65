------------------------------ MODULE MqttHelper ------------------------------
(***************************************************************************)
(* The MQTT helper (dynsec_mqtt_helper.c): its state machine, its API, its *)
(* poll thread, and, as far as the helper depends on them, the Zephyr MQTT *)
(* client and the socket below it (both external).                         *)
(*                                                                         *)
(* A call of the API runs in the calling thread t, one step per place      *)
(* where another thread can get in between: Call(t, entry, back) enters it *)
(* and Return(t) continues at back.  A callback of the client application  *)
(* is a label of its own ("on_connack", "on_disconnect", "on_publish")     *)
(* that the module composed with this one gives a meaning to; the library  *)
(* goes on where resume or after say.                                      *)
(***************************************************************************)
EXTENDS Naturals, FiniteSets

CONSTANTS Callers,   \* the threads that call the API
          Poll,      \* dynsec_mqtt_helper_thread
          Fds,       \* socket descriptors
          None,      \* no socket, no thread, no label
          Budget,    \* how often each fault may happen
          Patient    \* network I/O outlasts the bursts of the CPU (see Io)

Threads == Callers \cup {Poll}

Faults == {"drop", "refuse", "mute", "pollerr", "connfail", "oversize"}

ASSUME HelperAssumption ==
    /\ Poll \notin Callers
    /\ None \notin Fds \cup Threads
    /\ Budget \in [DOMAIN Budget -> Nat]
    /\ Faults \subseteq DOMAIN Budget
    /\ Patient \in BOOLEAN

VARIABLES mqtt_state, asserted, connection_poll_sem, registered,
          client,    \* the library's client: "idle", "tcp" or "session"
          sock,      \* the socket in its transport
          unread,    \* a received payload was left in the library
          lock,      \* the thread that holds the library's mutex
          open,      \* open sockets
          dead,      \* those on which all further I/O fails
          link,      \* the packet data network is up
          fd,        \* fds[0].fd, a local of the poll loop
          pc, ret, after, resume,
          mature,    \* threads whose I/O has had time to finish
          budget

lib      == <<client, sock, unread, open, dead>>
machine  == <<mqtt_state, asserted>>
returns  == <<ret, after, resume>>
boundary == <<registered, link>>
helperVars == <<machine, connection_poll_sem, boundary, lib, lock, fd, pc,
                returns, mature, budget>>

-----------------------------------------------------------------------------
(* The state machine *)

MqttStates == {"UNINIT", "DISCONNECTED", "TRANSPORT_CONNECTING", "CONNECTING",
               "TRANSPORT_CONNECTED", "CONNECTED", "DISCONNECTING"}

LegalNext == [s \in MqttStates |->
    CASE s = "UNINIT"               -> {"DISCONNECTED"}
      [] s = "DISCONNECTED"         -> {"CONNECTING", "UNINIT",
                                        "TRANSPORT_CONNECTING"}
      [] s = "TRANSPORT_CONNECTING" -> {"TRANSPORT_CONNECTED", "DISCONNECTED"}
      [] s = "CONNECTING"           -> {"CONNECTED", "DISCONNECTED"}
      [] s = "TRANSPORT_CONNECTED"  -> {"CONNECTING", "DISCONNECTED"}
      [] s = "CONNECTED"            -> {"DISCONNECTING", "DISCONNECTED"}
      [] s = "DISCONNECTING"        -> {"DISCONNECTED"}]

\* asserted: the __ASSERT on an illegal transition has failed.
mqtt_state_set(s) ==
    /\ asserted' = (asserted \/ s \notin LegalNext[mqtt_state] \cup {mqtt_state})
    /\ mqtt_state' = s

-----------------------------------------------------------------------------
(* Control *)

RunLabels  == {"init", "deinit", "connect", "connecting", "disconnect",
               "set_disconnecting", "disconnect_failed", "send",
               "evt_disconnect", "evt_accepted", "evt_refused", "loop",
               "input_done"}
LockLabels == {"mqtt_connect", "mqtt_disconnect", "mqtt_send", "mqtt_live",
               "mqtt_input", "mqtt_abort"}
IoLabels   == {"getaddrinfo", "handshake", "disconnect_write", "write"}
Callbacks  == {"on_connack", "on_disconnect", "on_publish"}
HelperLabels == RunLabels \cup LockLabels \cup IoLabels \cup Callbacks
                  \cup {"sem_take", "poll"}

Goto(t, l) == pc' = [pc EXCEPT ![t] = l]

Call(t, entry, back) == /\ Goto(t, entry)
                        /\ ret' = [ret EXCEPT ![t] = back]
                        /\ UNCHANGED <<after, resume>>

Return(t) == /\ Goto(t, ret[t])
             /\ ret' = [ret EXCEPT ![t] = None]
             /\ UNCHANGED <<after, resume>>

\* The DISCONNECT event raised inside a library call: once it is handled the
\* call continues at l; AfterReturn is the case where it just returns.
Raise(t, l)    == /\ Goto(t, "evt_disconnect")
                  /\ after' = [after EXCEPT ![t] = l]
                  /\ UNCHANGED <<ret, resume>>
RaiseReturn(t) == /\ Goto(t, "evt_disconnect")
                  /\ after' = [after EXCEPT ![t] = ret[t]]
                  /\ ret' = [ret EXCEPT ![t] = None]
                  /\ UNCHANGED resume

\* on_disconnect, on_connack and on_publish have returned.
DisconnectHandled(t) == /\ Goto(t, after[t])
                        /\ after' = [after EXCEPT ![t] = None]
                        /\ UNCHANGED <<ret, resume>>
EventHandled == /\ Goto(Poll, resume)
                /\ resume' = None
                /\ UNCHANGED <<ret, after>>

\* A thread's blocking I/O may complete; with Patient only after the CPU has
\* been idle once since the I/O began.
Io(t) == /\ Patient => t \in mature
         /\ mature' = mature \ {t}

InIo(t) == pc[t] \in IoLabels \/ (pc[t] = "poll" /\ fd \in open)

HelperReady(t) ==
    \/ pc[t] \in RunLabels \cup Callbacks
    \/ pc[t] \in LockLabels /\ lock = None
    \/ pc[t] = "sem_take" /\ connection_poll_sem = 1
    \/ pc[t] = "poll" /\ fd \notin open

Spend(f) == budget[f] > 0 /\ budget' = [budget EXCEPT ![f] = @ - 1]

-----------------------------------------------------------------------------
(* The library and the socket *)

Close == /\ client' = "idle"
         /\ sock' = None
         /\ open' = open \ {sock}
         /\ dead' = dead \ {sock}
         /\ unread' = FALSE

\* The library closes the socket and tells the poll thread: a session ends in
\* a DISCONNECT event, an unanswered CONNECT in a CONNACK event with an error.
CloseAndTell(l) ==
    /\ Close
    /\ \/ /\ client = "session"
          /\ Raise(Poll, l)
       \/ /\ client = "tcp"
          /\ Goto(Poll, "evt_refused")
          /\ resume' = l
          /\ UNCHANGED <<ret, after>>

\* The peer or the network kills a connection.
Drop ==
    /\ client = "session"
    /\ sock \notin dead
    /\ Spend("drop")
    /\ dead' = dead \cup {sock}
    /\ UNCHANGED <<machine, connection_poll_sem, boundary, client, sock, unread,
                   open, lock, fd, pc, returns, mature>>

DropWhileConnecting ==
    /\ client = "tcp"
    /\ sock \notin dead
    /\ Spend("refuse")
    /\ dead' = dead \cup {sock}
    /\ UNCHANGED <<machine, connection_poll_sem, boundary, client, sock, unread,
                   open, lock, fd, pc, returns, mature>>

-----------------------------------------------------------------------------
(* dynsec_mqtt_helper_init, _deinit *)

Init_(t) ==
    /\ pc[t] = "init"
    /\ IF mqtt_state \in {"UNINIT", "DISCONNECTED"}
         THEN registered' = TRUE /\ mqtt_state_set("DISCONNECTED")
         ELSE UNCHANGED <<registered, machine>>
    /\ Return(t)
    /\ UNCHANGED <<connection_poll_sem, link, lib, lock, fd, mature, budget>>

Deinit(t) ==
    /\ pc[t] = "deinit"
    /\ IF mqtt_state = "DISCONNECTED"
         THEN /\ registered' = FALSE
              /\ client' = "idle"
              /\ sock' = None
              /\ unread' = FALSE
              /\ lock' = None
              /\ mqtt_state_set("UNINIT")
         ELSE UNCHANGED <<registered, client, sock, unread, lock, machine>>
    /\ Return(t)
    /\ UNCHANGED <<connection_poll_sem, link, open, dead, fd, mature, budget>>

-----------------------------------------------------------------------------
(* dynsec_mqtt_helper_connect *)

\* Mutant: the state check is missing.
ConnectUnchecked(t) ==
    /\ pc[t] = "connect"
    /\ client' = "idle"
    /\ sock' = None
    /\ unread' = FALSE
    /\ lock' = None
    /\ Goto(t, "getaddrinfo")
    /\ UNCHANGED <<machine, connection_poll_sem, boundary, open, dead, fd,
                   returns, mature, budget>>

\* The state check and mqtt_client_init, which wipes the client and makes its
\* mutex anew, whoever holds it.
Connect(t) ==
    /\ pc[t] = "connect"
    /\ \/ /\ mqtt_state = "DISCONNECTED"
          /\ client' = "idle"
          /\ sock' = None
          /\ unread' = FALSE
          /\ lock' = None
          /\ Goto(t, "getaddrinfo")
          /\ UNCHANGED returns
       \/ /\ mqtt_state # "DISCONNECTED"
          /\ Return(t)
          /\ UNCHANGED <<client, sock, unread, lock>>
    /\ UNCHANGED <<machine, connection_poll_sem, boundary, open, dead, fd,
                   mature, budget>>

\* I/O of connect that fails without a link, and now and then with one.
MayFail == \/ link = FALSE /\ UNCHANGED budget
           \/ link = TRUE /\ Spend("connfail")

\* broker_init
GetAddrInfo(t) ==
    /\ pc[t] = "getaddrinfo"
    /\ Io(t)
    /\ \/ /\ link
          /\ mqtt_state_set("TRANSPORT_CONNECTING")
          /\ Goto(t, "mqtt_connect")
          /\ UNCHANGED <<returns, budget>>
       \/ /\ MayFail
          /\ mqtt_state_set("DISCONNECTED")
          /\ Return(t)
    /\ UNCHANGED <<connection_poll_sem, boundary, lib, lock, fd>>

MqttConnect(t) ==
    /\ pc[t] = "mqtt_connect"
    /\ lock = None
    /\ lock' = t
    /\ Goto(t, "handshake")
    /\ UNCHANGED <<machine, connection_poll_sem, boundary, lib, fd, returns,
                   mature, budget>>

Handshake(t) ==
    /\ pc[t] = "handshake"
    /\ Io(t)
    /\ lock' = None
    /\ \/ /\ link
          /\ \E s \in Fds \ open : sock' = s /\ open' = open \cup {s}
          /\ client' = "tcp"
          /\ mqtt_state_set("TRANSPORT_CONNECTED")
          /\ Goto(t, "connecting")
          /\ UNCHANGED <<returns, budget>>
       \/ /\ MayFail
          /\ mqtt_state_set("DISCONNECTED")
          /\ Return(t)
          /\ UNCHANGED <<client, sock, open>>
    /\ UNCHANGED <<connection_poll_sem, boundary, unread, dead, fd>>

\* Mutant: the poll thread is not told.
ConnectingUntold(t) ==
    /\ pc[t] = "connecting"
    /\ mqtt_state_set("CONNECTING")
    /\ Return(t)
    /\ UNCHANGED <<connection_poll_sem, boundary, lib, lock, fd, mature, budget>>

\* The end of client_connect and the k_sem_give after it.
Connecting(t) ==
    /\ pc[t] = "connecting"
    /\ mqtt_state_set("CONNECTING")
    /\ connection_poll_sem' = 1
    /\ Return(t)
    /\ UNCHANGED <<boundary, lib, lock, fd, mature, budget>>

-----------------------------------------------------------------------------
(* dynsec_mqtt_helper_disconnect *)

\* Mutant: the state check is missing.
DisconnectUnchecked(t) ==
    /\ pc[t] = "disconnect"
    /\ Goto(t, "set_disconnecting")
    /\ UNCHANGED <<machine, connection_poll_sem, boundary, lib, lock, fd,
                   returns, mature, budget>>

Disconnect(t) ==
    /\ pc[t] = "disconnect"
    /\ \/ /\ mqtt_state = "CONNECTED"
          /\ Goto(t, "set_disconnecting")
          /\ UNCHANGED returns
       \/ mqtt_state # "CONNECTED" /\ Return(t)
    /\ UNCHANGED <<machine, connection_poll_sem, boundary, lib, lock, fd,
                   mature, budget>>

SetDisconnecting(t) ==
    /\ pc[t] = "set_disconnecting"
    /\ mqtt_state_set("DISCONNECTING")
    /\ Goto(t, "mqtt_disconnect")
    /\ UNCHANGED <<connection_poll_sem, boundary, lib, lock, fd, returns,
                   mature, budget>>

MqttDisconnect(t) ==
    /\ pc[t] = "mqtt_disconnect"
    /\ lock = None
    /\ \/ /\ client = "session"
          /\ lock' = t
          /\ Goto(t, "disconnect_write")
       \/ /\ client # "session"
          /\ Goto(t, "disconnect_failed")
          /\ UNCHANGED lock
    /\ UNCHANGED <<machine, connection_poll_sem, boundary, lib, fd, returns,
                   mature, budget>>

\* The library closes the socket either way; only a failed write is an error.
DisconnectWrite(t) ==
    /\ pc[t] = "disconnect_write"
    /\ Io(t)
    /\ Close
    /\ lock' = None
    /\ \/ sock \notin dead /\ RaiseReturn(t)
       \/ sock \in dead /\ Raise(t, "disconnect_failed")
    /\ UNCHANGED <<machine, connection_poll_sem, boundary, fd, budget>>

\* "treating as disconnected": the callback runs in the caller's thread.
DisconnectFailed(t) ==
    /\ pc[t] = "disconnect_failed"
    /\ mqtt_state_set("DISCONNECTED")
    /\ \/ /\ registered
          /\ Goto(t, "on_disconnect")
          /\ after' = [after EXCEPT ![t] = ret[t]]
          /\ ret' = [ret EXCEPT ![t] = None]
          /\ UNCHANGED resume
       \/ ~registered /\ Return(t)
    /\ UNCHANGED <<connection_poll_sem, boundary, lib, lock, fd, mature, budget>>

-----------------------------------------------------------------------------
(* dynsec_mqtt_helper_publish, _subscribe, and send_ack from "mqtt_send" on *)

Send(t) ==
    /\ pc[t] = "send"
    /\ \/ mqtt_state = "CONNECTED" /\ Goto(t, "mqtt_send") /\ UNCHANGED returns
       \/ mqtt_state # "CONNECTED" /\ Return(t)
    /\ UNCHANGED <<machine, connection_poll_sem, boundary, lib, lock, fd,
                   mature, budget>>

MqttSend(t) ==
    /\ pc[t] = "mqtt_send"
    /\ lock = None
    /\ \/ /\ client = "session"
          /\ lock' = t
          /\ Goto(t, "write")
          /\ UNCHANGED returns
       \/ client # "session" /\ Return(t) /\ UNCHANGED lock
    /\ UNCHANGED <<machine, connection_poll_sem, boundary, lib, fd, mature,
                   budget>>

Write(t) ==
    /\ pc[t] = "write"
    /\ Io(t)
    /\ lock' = None
    /\ \/ sock \notin dead /\ Return(t) /\ UNCHANGED lib
       \/ sock \in dead /\ Close /\ RaiseReturn(t)
    /\ UNCHANGED <<machine, connection_poll_sem, boundary, fd, budget>>

-----------------------------------------------------------------------------
(* mqtt_evt_handler *)

\* Mutant: the event changes the state and nobody is called.
EvtDisconnectSilent(t) ==
    /\ pc[t] = "evt_disconnect"
    /\ mqtt_state_set("DISCONNECTED")
    /\ DisconnectHandled(t)
    /\ UNCHANGED <<connection_poll_sem, boundary, lib, lock, fd, mature, budget>>

EvtDisconnect(t) ==
    /\ pc[t] = "evt_disconnect"
    /\ mqtt_state_set("DISCONNECTED")
    /\ \/ registered /\ Goto(t, "on_disconnect") /\ UNCHANGED returns
       \/ ~registered /\ DisconnectHandled(t)
    /\ UNCHANGED <<connection_poll_sem, boundary, lib, lock, fd, mature, budget>>

EvtConnack ==
    /\ \/ pc[Poll] = "evt_accepted" /\ mqtt_state_set("CONNECTED")
       \/ pc[Poll] = "evt_refused" /\ mqtt_state_set("DISCONNECTED")
    /\ \/ registered /\ Goto(Poll, "on_connack") /\ UNCHANGED returns
       \/ ~registered /\ EventHandled
    /\ UNCHANGED <<connection_poll_sem, boundary, lib, lock, fd, mature, budget>>

-----------------------------------------------------------------------------
(* dynsec_mqtt_helper_poll_loop *)

\* Mutant: the semaphore is not waited for (K_NO_WAIT).
SemTakeNoWait ==
    /\ pc[Poll] = "sem_take"
    /\ connection_poll_sem' = connection_poll_sem - 1
    /\ fd' = sock
    /\ Goto(Poll, "loop")
    /\ UNCHANGED <<machine, boundary, lib, lock, returns, mature, budget>>

SemTake ==
    /\ pc[Poll] = "sem_take"
    /\ connection_poll_sem = 1
    /\ connection_poll_sem' = 0
    /\ fd' = sock
    /\ Goto(Poll, "loop")
    /\ UNCHANGED <<machine, boundary, lib, lock, returns, mature, budget>>

Loop ==
    /\ pc[Poll] = "loop"
    /\ \/ /\ mqtt_state \in {"CONNECTING", "CONNECTED"}
          /\ Goto(Poll, "poll")
          /\ UNCHANGED fd
       \/ /\ mqtt_state \notin {"CONNECTING", "CONNECTED"}
          /\ Goto(Poll, "sem_take")
          /\ fd' = None
    /\ UNCHANGED <<machine, connection_poll_sem, boundary, lib, lock, returns,
                   mature, budget>>

\* POLLNVAL
PollClosed ==
    /\ pc[Poll] = "poll"
    /\ fd \notin open
    /\ Goto(Poll, "mqtt_abort")
    /\ mature' = mature \ {Poll}
    /\ UNCHANGED <<machine, connection_poll_sem, boundary, lib, lock, fd,
                   returns, budget>>

\* POLLIN; POLLHUP or POLLERR; the keepalive timeout, which a CONNECT that is
\* answered at all does not let run out; poll() itself failing.
PollOpen ==
    /\ pc[Poll] = "poll"
    /\ fd \in open
    /\ Io(Poll)
    /\ \/ Goto(Poll, "mqtt_input") /\ UNCHANGED <<fd, budget>>
       \/ fd \in dead /\ Goto(Poll, "mqtt_abort") /\ UNCHANGED <<fd, budget>>
       \/ client # "tcp" /\ Goto(Poll, "mqtt_live") /\ UNCHANGED <<fd, budget>>
       \/ client = "tcp" /\ Spend("mute") /\ Goto(Poll, "mqtt_live") /\ UNCHANGED fd
       \/ Spend("pollerr") /\ Goto(Poll, "sem_take") /\ fd' = None
    /\ UNCHANGED <<machine, connection_poll_sem, boundary, lib, lock, returns>>

\* A ping; without a session the library refuses it and the loop is left.
MqttLive ==
    /\ pc[Poll] = "mqtt_live"
    /\ lock = None
    /\ \/ /\ client = "session"
          /\ sock \notin dead
          /\ Goto(Poll, "loop")
          /\ UNCHANGED <<lib, returns, fd>>
       \/ client = "session" /\ sock \in dead /\ Close /\ Raise(Poll, "sem_take")
            /\ fd' = None
       \/ client # "session" /\ Goto(Poll, "sem_take") /\ UNCHANGED <<lib, returns>>
            /\ fd' = None
    /\ UNCHANGED <<machine, connection_poll_sem, boundary, lock, mature, budget>>

\* What the broker sent: the answer to CONNECT, a PUBLISH (acknowledged if it
\* asks for it, left unread if it is larger than payload_buf), or anything else.
Received ==
    \/ /\ client = "tcp"
       /\ client' = "session"
       /\ Goto(Poll, "evt_accepted")
       /\ resume' = "input_done"
       /\ UNCHANGED <<sock, unread, open, dead, ret, after, budget>>
    \/ /\ client = "tcp"
       /\ Spend("refuse")
       /\ CloseAndTell("mqtt_abort")
    \/ /\ client = "session"
       /\ resume' = "input_done"
       /\ \/ Goto(Poll, "on_publish") /\ UNCHANGED ret
          \/ Goto(Poll, "mqtt_send") /\ ret' = [ret EXCEPT ![Poll] = "on_publish"]
       /\ UNCHANGED <<lib, after, budget>>
    \/ /\ client = "session"
       /\ Spend("oversize")
       /\ unread' = TRUE
       /\ Goto(Poll, "input_done")
       /\ UNCHANGED <<client, sock, open, dead, returns>>
    \/ /\ client = "session"
       /\ Goto(Poll, "input_done")
       /\ UNCHANGED <<lib, returns, budget>>

MqttInput ==
    /\ pc[Poll] = "mqtt_input"
    /\ lock = None
    /\ \/ client # "idle" /\ ~unread /\ sock \notin dead /\ Received
       \/ client # "idle" /\ ~unread /\ sock \in dead
            /\ CloseAndTell("mqtt_abort") /\ UNCHANGED budget
       \/ (client = "idle" \/ unread) /\ Goto(Poll, "mqtt_abort")
            /\ UNCHANGED <<lib, returns, budget>>
    /\ UNCHANGED <<machine, connection_poll_sem, boundary, lock, fd, mature>>

\* The input has succeeded.  POLLHUP or POLLERR may have come with POLLIN; the
\* socket they were about may have been closed in the meantime.
InputDone ==
    /\ pc[Poll] = "input_done"
    /\ \/ /\ mqtt_state \in {"DISCONNECTED", "UNINIT"}
          /\ Goto(Poll, "sem_take")
          /\ fd' = None
       \/ /\ mqtt_state \notin {"DISCONNECTED", "UNINIT"}
          /\ Goto(Poll, "loop")
          /\ UNCHANGED fd
       \/ /\ mqtt_state \notin {"DISCONNECTED", "UNINIT"}
          /\ fd \in dead \/ fd \notin open
          /\ Goto(Poll, "mqtt_abort")
          /\ UNCHANGED fd
    /\ UNCHANGED <<machine, connection_poll_sem, boundary, lib, lock, returns,
                   mature, budget>>

MqttAbort ==
    /\ pc[Poll] = "mqtt_abort"
    /\ lock = None
    /\ fd' = None
    /\ \/ client # "idle" /\ CloseAndTell("sem_take")
       \/ client = "idle" /\ Goto(Poll, "sem_take") /\ UNCHANGED <<lib, returns>>
    /\ UNCHANGED <<machine, connection_poll_sem, boundary, lock, mature, budget>>

-----------------------------------------------------------------------------

ApiStep(t) == \/ Init_(t) \/ Deinit(t)
              \/ Connect(t) \/ GetAddrInfo(t) \/ MqttConnect(t) \/ Handshake(t)
              \/ Connecting(t)
              \/ Disconnect(t) \/ SetDisconnecting(t) \/ MqttDisconnect(t)
              \/ DisconnectWrite(t) \/ DisconnectFailed(t)
              \/ Send(t) \/ MqttSend(t) \/ Write(t) \/ EvtDisconnect(t)

PollStep == \/ EvtConnack \/ SemTake \/ Loop \/ PollClosed \/ PollOpen
            \/ MqttLive \/ MqttInput \/ InputDone \/ MqttAbort

HelperInit ==
    /\ mqtt_state = "UNINIT"
    /\ asserted = FALSE
    /\ connection_poll_sem = 0
    /\ registered = FALSE
    /\ client = "idle"
    /\ sock = None
    /\ unread = FALSE
    /\ lock = None
    /\ open = {}
    /\ dead = {}
    /\ fd = None
    /\ after = [t \in Threads |-> None]
    /\ resume = None
    /\ mature = {}
    /\ budget = Budget
=============================================================================
