------------------------------ MODULE HelperApp ------------------------------
(***************************************************************************)
(* The MQTT helper under the most general client: one application thread,  *)
(* App, that calls the API in any order, and callbacks that may publish.   *)
(* The client keeps two rules.  It disconnects only a session it has been  *)
(* told of, as the transport module does; and it calls deinit only "when   *)
(* all MQTT operations are done" (dynsec_mqtt_helper.h), which is more     *)
(* than the state check of deinit asks for: while the poll thread is still *)
(* delivering an event, the event would switch the helper on again.        *)
(***************************************************************************)
EXTENDS MqttHelper

CONSTANT App

ASSUME AppAssumption == Callers = {App}

VARIABLE told   \* what the callbacks have told the client: "up" or "down"

vars == <<helperVars, told>>

-----------------------------------------------------------------------------
(* Scheduling: App has a priority, the poll thread the lowest there is *)

AppCalls == \/ Call(App, "init", "app")
            \/ pc[Poll] = "sem_take" /\ Call(App, "deinit", "app")
            \/ Call(App, "connect", "app")
            \/ Call(App, "send", "app")
            \/ told = "up" /\ Call(App, "disconnect", "app")

Ready(t) == HelperReady(t) \/ pc[t] = "connack_done"

CanRun(t) == t = Poll => ~Ready(App)

TimePasses ==
    /\ \A t \in Threads : ~Ready(t)
    /\ mature # {t \in Threads : InIo(t)}
    /\ mature' = {t \in Threads : InIo(t)}
    /\ UNCHANGED <<machine, connection_poll_sem, boundary, lib, lock, fd, pc,
                   returns, budget, told>>

-----------------------------------------------------------------------------
(* The client *)

calm == <<machine, connection_poll_sem, boundary, lib, lock, fd, mature, budget>>

AppStep == /\ pc[App] = "app"
           /\ AppCalls
           /\ UNCHANGED <<calm, told>>

OnDisconnect(t) == /\ pc[t] = "on_disconnect"
                   /\ told' = "down"
                   /\ DisconnectHandled(t)
                   /\ UNCHANGED calm

\* The return code is "accepted" exactly if the library goes on reading.
OnConnack == /\ pc[Poll] = "on_connack"
             /\ told' = IF resume = "input_done" THEN "up" ELSE "down"
             /\ \/ Call(Poll, "send", "connack_done")
                \/ EventHandled
             /\ UNCHANGED calm

EventDone == /\ pc[Poll] \in {"connack_done", "on_publish"}
             /\ EventHandled
             /\ UNCHANGED <<calm, told>>

LinkChange == /\ client # "tcp"
              /\ Spend("pdn")
              /\ link' = ~link
              /\ dead' = IF link THEN open ELSE dead
              /\ UNCHANGED <<machine, connection_poll_sem, registered, client,
                             sock, unread, open, lock, fd, pc, returns, mature,
                             told>>

-----------------------------------------------------------------------------

Init == /\ HelperInit
        /\ link = TRUE
        /\ pc = [t \in Threads |-> IF t = App THEN "app" ELSE "sem_take"]
        /\ ret = [t \in Threads |-> None]
        /\ told = "down"

Thread(t) == /\ CanRun(t)
             /\ \/ ApiStep(t) /\ UNCHANGED told
                \/ OnDisconnect(t)
                \/ t = App /\ AppStep
                \/ t = Poll /\ (OnConnack \/ EventDone \/ (PollStep /\ UNCHANGED told))

Environment == \/ TimePasses
               \/ LinkChange
               \/ (Drop \/ DropWhileConnecting) /\ UNCHANGED told

Next == (\E t \in Threads : Thread(t)) \/ Environment

Spec == Init /\ [][Next]_vars

-----------------------------------------------------------------------------
(* Properties *)

AppLabels == HelperLabels \cup {"app", "connack_done"}

\* Types of the helper's state under this client.
TypeOK ==
    /\ mqtt_state \in MqttStates
    /\ {asserted, registered, unread, link} \subseteq BOOLEAN
    /\ connection_poll_sem \in {0, 1}
    /\ client \in {"idle", "tcp", "session"}
    /\ sock \in Fds \cup {None} /\ fd \in Fds \cup {None}
    /\ lock \in Threads \cup {None}
    /\ open \subseteq Fds /\ dead \subseteq open
    /\ pc \in [Threads -> AppLabels]
    /\ ret \in [Threads -> AppLabels \cup {None}]
    /\ after \in [Threads -> AppLabels \cup {None}]
    /\ resume \in AppLabels \cup {None}
    /\ mature \subseteq Threads
    /\ budget \in [DOMAIN Budget -> Nat]
    /\ told \in {"up", "down"}

\* The mapping of the helper to a session: mqtt_state as the client sees it,
\* and a wire as long as a socket is open.
phase == CASE mqtt_state = "UNINIT"        -> "off"
           [] mqtt_state = "DISCONNECTED"  -> "down"
           [] mqtt_state = "CONNECTED"     -> "up"
           [] mqtt_state = "DISCONNECTING" -> "closing"
           [] OTHER                        -> "opening"

wire == open # {}

Session == INSTANCE MqttSession

\* The helper implements a session: it never reports DISCONNECTED over an open
\* socket and never opens one over another, in whatever order the poll thread
\* and the caller get to see a failure (mqtt_state_set, client_connect).
ImplementsSession == Session!Spec

\* No order of API calls, socket failures and events makes an illegal
\* transition: the __ASSERT of mqtt_state_set never fails.
NoIllegalTransition == ~asserted

Quiet == pc[App] = "app" /\ pc[Poll] \in {"sem_take", "poll"} /\ ~Ready(Poll)

\* Once both threads are idle the client believes what the helper believes:
\* callbacks that ran in two threads have not overtaken each other.
ToldTheTruth == Quiet => (told = "up" <=> mqtt_state = "CONNECTED")

\* Whenever the helper is connecting or connected and nobody is in the middle
\* of a call, the poll thread is on the socket of that session, or has yet to
\* take the semaphore that will put it there.
PolledWhileOpen ==
    (mqtt_state \in {"CONNECTING", "CONNECTED"} /\ sock # None /\ pc[App] = "app")
        => \/ fd = sock
           \/ pc[Poll] \in {"sem_take", "loop", "mqtt_abort", "input_done"}
                 /\ connection_poll_sem = 1
=============================================================================
