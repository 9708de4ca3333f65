--------------------------- MODULE DutyCycle_proofs ---------------------------
(***************************************************************************)
(* The hand-over between network_task and location_task, for every number  *)
(* of faults.                                                              *)
(***************************************************************************)
EXTENDS DutyCycle, TLAPS

-----------------------------------------------------------------------------

\* A fault that happens is counted off the budget.
LEMMA SpendTyped ==
  ASSUME NEW f \in Faults, budget \in [Faults -> Nat], Spend(f)
  PROVE  budget' \in [Faults -> Nat]
BY DEF Spend

\* Every variable keeps its type.
THEOREM TypeCorrect == Spec => []TypeOK
<1>1. Init => TypeOK
  BY BudgetAssumption DEF Init, TypeOK
<1>2. TypeOK /\ [Next]_vars => TypeOK'
  <2> SUFFICES ASSUME TypeOK, [Next]_vars PROVE TypeOK'
    OBVIOUS
  <2> USE DEF TypeOK, sems, modem
  <2>1. CASE NetworkTask
    <3>1. CASE NetworkTakeFix \/ NetworkWakes \/ GiveLte \/ TakeStart
      BY <3>1 DEF NetworkTakeFix, NetworkWakes, GiveLte, TakeStart
    <3>2. CASE StopLte
      BY <3>2, SpendTyped DEF StopLte, Faults
    <3>3. CASE StartLte
      BY <3>3, SpendTyped DEF StartLte, Faults
    <3>4. CASE NetworkBoot
      BY <3>4, SpendTyped DEF NetworkBoot, Faults
    <3> QED
      BY <2>1, <3>1, <3>2, <3>3, <3>4 DEF NetworkTask
  <2>2. CASE LocationTask
    <3>1. CASE WaitLte \/ LocationTakeFix \/ TakeLte \/ LocationWakes
      BY <3>1 DEF WaitLte, LocationTakeFix, TakeLte, LocationWakes
    <3>2. CASE Check
      BY <3>2 DEF Check
    <3>3. CASE GnssInit
      BY <3>3, SpendTyped DEF GnssInit, Faults
    <3>4. CASE StopGnss
      BY <3>4, SpendTyped DEF StopGnss, Faults
    <3> QED
      BY <2>2, <3>1, <3>2, <3>3, <3>4 DEF LocationTask
  <2>3. CASE Fix \/ Register
    BY <2>3 DEF Fix, Register
  <2>4. CASE UNCHANGED vars
    BY <2>4 DEF vars
  <2> QED
    BY <2>1, <2>2, <2>3, <2>4 DEF Next
<1> QED
  BY <1>1, <1>2, PTL DEF Spec

\* LTE is off while network_task gives the radio to the receiver: every way
\* into that part of its loop goes through a stop_lte that succeeded.
THEOREM RadioSafe == Spec => []RadioForGnss
<1>1. Init => RadioForGnss
  BY DEF Init, RadioForGnss
<1>2. RadioForGnss /\ [Next]_vars => RadioForGnss'
  <2> SUFFICES ASSUME RadioForGnss, [Next]_vars PROVE RadioForGnss'
    OBVIOUS
  <2>1. CASE NetworkTask
    BY <2>1 DEF RadioForGnss, NetworkTask, NetworkBoot, StopLte, StartLte,
                NetworkTakeFix, NetworkWakes, GiveLte, TakeStart, sems, modem
  <2>2. CASE LocationTask
    BY <2>2 DEF RadioForGnss, LocationTask, WaitLte, GnssInit, Check,
                LocationTakeFix, TakeLte, StopGnss, LocationWakes, sems, modem
  <2>3. CASE Fix \/ Register
    BY <2>3 DEF RadioForGnss, Fix, Register, modem
  <2>4. CASE UNCHANGED vars
    BY <2>4 DEF RadioForGnss, vars, modem
  <2> QED
    BY <2>1, <2>2, <2>3, <2>4 DEF Next
<1> QED
  BY <1>1, <1>2, PTL DEF Spec

-----------------------------------------------------------------------------
(* The hand-over *)

Pausing == location \in {"take_lte", "stop_gnss", "sleep"}

\* location_task has fixes to wait for, or is on its way to them.
OnDuty == gnss_active \/ location \in {"wait_lte", "gnss_init"}

\* Before GNSS is first started there is no fix, so no data window opens.
FirstStart ==
    location = "wait_lte" =>
        /\ ~gnss /\ gnss_fix_sem = 0 /\ gnss_start_sem = 0
        /\ network \in {"boot", "stop_lte", "take_fix", "ended"}

\* Outside a data window the go-ahead has been used up and GNSS is on duty.
GnssPeriod ==
    network \in {"boot", "stop_lte", "take_fix", "sleep"} =>
        gnss_start_sem = 0 /\ OnDuty /\ ~Pausing

\* Within one, the go-ahead says that location_task is done with its pause.
GoAhead ==
    (DataWindow /\ gnss_start_sem = 1) => OnDuty /\ ~Pausing

HandOver == /\ budget["initfail"] <= Budget["initfail"]
            /\ GnssStarted => FirstStart /\ GnssPeriod /\ GoAhead

\* The invariant says all that is asked of the hand-over.
LEMMA HandOverSuffices == TypeOK /\ HandOver => PausesOnlyForData /\ NoStaleStart
  BY DEF TypeOK, HandOver, GnssPeriod, PausesOnlyForData, NoStaleStart, DataWindow,
         Pausing

\* network_task's steps keep the hand-over.
LEMMA NetworkKeepsHandOver ==
  ASSUME TypeOK, HandOver, NetworkTask
  PROVE  HandOver'
<1> USE BudgetAssumption DEF TypeOK, GnssStarted, HandOver, FirstStart, GnssPeriod, GoAhead, DataWindow, OnDuty,
            Pausing, sems, modem, Faults
<1>1. CASE NetworkBoot
  BY <1>1 DEF NetworkBoot, Spend
<1>2. CASE StopLte
  BY <1>2 DEF StopLte, Spend
<1>3. CASE StartLte
  BY <1>3 DEF StartLte, Spend
<1>4. CASE NetworkTakeFix
  BY <1>4 DEF NetworkTakeFix
<1>5. CASE NetworkWakes
  BY <1>5 DEF NetworkWakes, LocationBusy
<1>6. CASE TakeStart
  BY <1>6 DEF TakeStart
<1>7. CASE GiveLte
  BY <1>7 DEF GiveLte
<1> QED
  BY <1>1, <1>2, <1>3, <1>4, <1>5, <1>6, <1>7 DEF NetworkTask

\* location_task's steps keep the hand-over.
LEMMA LocationKeepsHandOver ==
  ASSUME TypeOK, HandOver, LocationTask
  PROVE  HandOver'
<1> USE BudgetAssumption DEF TypeOK, GnssStarted, HandOver, FirstStart, GnssPeriod, GoAhead, DataWindow, OnDuty,
            Pausing, sems, modem, Faults
<1>1. CASE WaitLte
  BY <1>1 DEF WaitLte
<1>2. CASE GnssInit
  <2>1. CASE gnss' = TRUE /\ gnss_active' = TRUE /\ UNCHANGED budget
    BY <1>2, <2>1 DEF GnssInit
  <2>2. CASE Spend("initfail")
    <3>1. budget'["initfail"] = budget["initfail"] - 1
      BY <2>2 DEF Spend
    <3>2. budget["initfail"] \in Nat /\ Budget["initfail"] \in Nat
      OBVIOUS
    <3>3. ~GnssStarted' /\ budget'["initfail"] <= Budget["initfail"]
      BY <3>1, <3>2
    <3> QED
      BY <3>3
  <2> QED
    BY <1>2, <2>1, <2>2 DEF GnssInit
<1>3. CASE Check
  BY <1>3 DEF Check
<1>4. CASE LocationTakeFix
  BY <1>4 DEF LocationTakeFix
<1>5. CASE TakeLte
  BY <1>5 DEF TakeLte
<1>6. CASE StopGnss
  BY <1>6 DEF StopGnss, Spend
<1>7. CASE LocationWakes
  BY <1>7 DEF LocationWakes, NetworkBusy
<1> QED
  BY <1>1, <1>2, <1>3, <1>4, <1>5, <1>6, <1>7 DEF LocationTask

\* The hand-over holds throughout, until GNSS fails to start.
THEOREM HandOverInvariant == Spec => []HandOver
<1>1. Init => HandOver
  BY BudgetAssumption
     DEF Init, HandOver, FirstStart, GnssPeriod, GoAhead, DataWindow, OnDuty, Pausing,
         Faults
<1>2. TypeOK /\ HandOver /\ [Next]_vars => HandOver'
  <2> SUFFICES ASSUME TypeOK, HandOver, [Next]_vars PROVE HandOver'
    OBVIOUS
  <2>1. CASE NetworkTask
    BY <2>1, NetworkKeepsHandOver
  <2>2. CASE LocationTask
    BY <2>2, LocationKeepsHandOver
  <2>3. CASE Fix \/ Register
    BY <2>3 DEF Fix, Register, TypeOK, HandOver, GnssStarted, FirstStart, GnssPeriod,
                GoAhead, DataWindow, OnDuty, Pausing
  <2>4. CASE UNCHANGED vars
    BY <2>4 DEF vars, sems, modem, HandOver, GnssStarted, FirstStart, GnssPeriod,
                GoAhead, DataWindow, OnDuty, Pausing
  <2> QED
    BY <2>1, <2>2, <2>3, <2>4 DEF Next
<1> QED
  BY <1>1, <1>2, TypeCorrect, PTL DEF Spec

\* No token left over from a registration takes GNSS out of service outside a
\* data window (location_task's k_sem_take of lte_connected).
THEOREM PausesSafe == Spec => []PausesOnlyForData
  BY TypeCorrect, HandOverInvariant, HandOverSuffices, PTL

\* No go-ahead for GNSS outlives its data window (network_task's k_sem_take of
\* gnss_start_sem never finds one of an earlier window).
THEOREM StartSafe == Spec => []NoStaleStart
  BY TypeCorrect, HandOverInvariant, HandOverSuffices, PTL
=============================================================================
