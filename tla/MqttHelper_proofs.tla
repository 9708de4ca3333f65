-------------------------- MODULE MqttHelper_proofs --------------------------
(***************************************************************************)
(* What the API and the poll thread of the MQTT helper keep in order,      *)
(* whoever calls it: the lemmas that the proofs about the helper and those *)
(* about the transport module on top of it share.                          *)
(***************************************************************************)
EXTENDS MqttHelper, TLAPS

\* Types of the helper's data, and that the library's socket is open as long as
\* the library is connected over it.
HelperData ==
    /\ mqtt_state \in MqttStates
    /\ asserted \in BOOLEAN /\ registered \in BOOLEAN
    /\ unread \in BOOLEAN /\ link \in BOOLEAN
    /\ connection_poll_sem \in {0, 1}
    /\ client \in {"idle", "tcp", "session"}
    /\ sock \in Fds \cup {None} /\ fd \in Fds \cup {None}
    /\ lock \in Threads \cup {None}
    /\ open \subseteq Fds /\ dead \subseteq open
    /\ client # "idle" => sock \in open
    /\ budget \in [DOMAIN Budget -> Nat]

-----------------------------------------------------------------------------
(* The helper's data *)

\* mqtt_state_set stores a state.
LEMMA StateSet ==
  ASSUME NEW s \in MqttStates, mqtt_state_set(s)
  PROVE  mqtt_state' \in MqttStates /\ asserted' \in BOOLEAN
  BY DEF mqtt_state_set

\* A fault that happens is counted off the budget.
LEMMA SpendTyped ==
  ASSUME HelperData, NEW f \in DOMAIN Budget, Spend(f)
  PROVE  budget' \in [DOMAIN Budget -> Nat]
  BY DEF Spend, HelperData

\* A closed socket leaves the data in order.
LEMMA CloseTyped ==
  ASSUME HelperData, Close
  PROVE  /\ client' = "idle" /\ sock' = None /\ unread' = FALSE
         /\ open' \subseteq Fds /\ dead' \subseteq open'
  BY DEF Close, HelperData

\* Steps of the helper only end I/O.
LEMMA StepsMature ==
  ASSUME (\E t \in Threads : ApiStep(t)) \/ PollStep
  PROVE  mature' \subseteq mature
<1>1. ASSUME NEW t \in Threads, ApiStep(t) PROVE mature' \subseteq mature
  BY <1>1 DEF ApiStep, Init_, Deinit, Connect, GetAddrInfo, MqttConnect, Handshake,
     Connecting, Disconnect, SetDisconnecting, MqttDisconnect, DisconnectWrite,
     DisconnectFailed, Send, MqttSend, Write, EvtDisconnect, Io
<1>2. CASE PollStep
  BY <1>2 DEF PollStep, EvtConnack, SemTake, Loop, PollClosed, PollOpen, MqttLive,
     MqttInput, InputDone, MqttAbort, Io
<1> QED
  BY <1>1, <1>2

-----------------------------------------------------------------------------
(* Steps *)

\* Calls keep the helper's data in order.
LEMMA ApiKeepsData ==
  ASSUME HelperData, NEW t \in Threads, ApiStep(t)
  PROVE  HelperData'
<1> USE HelperAssumption DEF HelperData, machine, boundary, lib, MqttStates, Faults
<1>1. CASE Init_(t)
  <2>1. /\ mqtt_state' \in MqttStates /\ asserted' \in BOOLEAN
        /\ registered' \in BOOLEAN
    BY <1>1, StateSet DEF Init_
  <2>2. UNCHANGED <<connection_poll_sem, link, lib, lock, fd, mature, budget>>
    BY <1>1 DEF Init_
  <2> QED
    BY <2>1, <2>2
<1>2. CASE Deinit(t)
  BY <1>2, StateSet, ZenonT(60) DEF Deinit
<1>3. CASE Connect(t)
  BY <1>3 DEF Connect
<1>4. CASE GetAddrInfo(t)
  <2>1. mqtt_state' \in MqttStates /\ asserted' \in BOOLEAN
    BY <1>4, StateSet DEF GetAddrInfo
  <2>2. budget' \in [DOMAIN Budget -> Nat]
    BY <1>4, SpendTyped DEF GetAddrInfo, MayFail
  <2>3. UNCHANGED <<connection_poll_sem, boundary, lib, lock, fd>>
    BY <1>4 DEF GetAddrInfo
  <2> QED
    BY <2>1, <2>2, <2>3
<1>5. CASE MqttConnect(t)
  BY <1>5 DEF MqttConnect
<1>6. CASE Handshake(t)
  BY <1>6, StateSet, SpendTyped DEF Handshake, MayFail
<1>7. CASE Connecting(t)
  BY <1>7, StateSet DEF Connecting
<1>8. CASE Disconnect(t)
  BY <1>8 DEF Disconnect
<1>9. CASE SetDisconnecting(t)
  BY <1>9, StateSet DEF SetDisconnecting
<1>10. CASE MqttDisconnect(t)
  BY <1>10 DEF MqttDisconnect
<1>11. CASE DisconnectWrite(t)
  <2>1. Close /\ lock' = None
    BY <1>11 DEF DisconnectWrite
  <2>2. UNCHANGED <<machine, connection_poll_sem, boundary, fd, budget>>
    BY <1>11 DEF DisconnectWrite
  <2> QED
    BY <2>1, <2>2, CloseTyped
<1>12. CASE DisconnectFailed(t)
  BY <1>12, StateSet DEF DisconnectFailed
<1>13. CASE Send(t)
  BY <1>13 DEF Send
<1>14. CASE MqttSend(t)
  BY <1>14 DEF MqttSend
<1>15. CASE Write(t)
  BY <1>15, CloseTyped, ZenonT(60) DEF Write
<1>16. CASE EvtDisconnect(t)
  BY <1>16, StateSet DEF EvtDisconnect
<1> QED
  BY <1>1, <1>2, <1>3, <1>4, <1>5, <1>6, <1>7, <1>8, <1>9, <1>10, <1>11,
     <1>12, <1>13, <1>14, <1>15, <1>16 DEF ApiStep

\* Whatever mqtt_input receives, the library stays on an open socket or idle.
LEMMA ReceivedData ==
  ASSUME HelperData, Received
  PROVE  /\ client' \in {"idle", "tcp", "session"}
         /\ sock' \in Fds \cup {None}
         /\ unread' \in BOOLEAN
         /\ open' \subseteq Fds /\ dead' \subseteq open'
         /\ client' # "idle" => sock' \in open'
         /\ budget' \in [DOMAIN Budget -> Nat]
  BY HelperAssumption, SpendTyped, CloseTyped DEF Received, HelperData, CloseAndTell,
     lib, Faults

\* The poll thread keeps the helper's data in order.
LEMMA PollKeepsData ==
  ASSUME HelperData, PollStep
  PROVE  HelperData'
<1> USE HelperAssumption DEF HelperData, machine, boundary, lib, MqttStates, Faults
<1>1. CASE EvtConnack
  BY <1>1, StateSet DEF EvtConnack
<1>2. CASE SemTake
  BY <1>2 DEF SemTake
<1>3. CASE Loop
  BY <1>3 DEF Loop
<1>4. CASE PollClosed
  BY <1>4 DEF PollClosed
<1>5. CASE PollOpen
  BY <1>5, SpendTyped DEF PollOpen
<1>6. CASE MqttLive
  BY <1>6, CloseTyped, ZenonT(60) DEF MqttLive
<1>7. CASE MqttInput
  <2>1. UNCHANGED <<machine, connection_poll_sem, boundary, lock, fd, mature>>
    BY <1>7 DEF MqttInput
  <2>2. CASE Received
    BY <2>1, <2>2, ReceivedData
  <2>3. CASE Close /\ UNCHANGED budget
    BY <2>1, <2>3, CloseTyped
  <2>4. CASE UNCHANGED <<lib, budget>>
    BY <2>1, <2>4
  <2> QED
    BY <1>7, <2>2, <2>3, <2>4 DEF MqttInput, CloseAndTell
<1>8. CASE InputDone
  BY <1>8 DEF InputDone
<1>9. CASE MqttAbort
  <2>1. UNCHANGED <<machine, connection_poll_sem, boundary, lock, mature, budget>>
        /\ fd' = None
    BY <1>9 DEF MqttAbort
  <2>2. Close \/ UNCHANGED lib
    BY <1>9 DEF MqttAbort, CloseAndTell
  <2> QED
    BY <2>1, <2>2, CloseTyped, ZenonT(60)
<1> QED
  BY <1>1, <1>2, <1>3, <1>4, <1>5, <1>6, <1>7, <1>8, <1>9 DEF PollStep
=============================================================================
