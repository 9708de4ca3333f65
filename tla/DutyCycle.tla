------------------------------ MODULE DutyCycle ------------------------------
(***************************************************************************)
(* How network_task (network.c) and location_task (location.c) share the   *)
(* modem: GNSS runs, and a minute after a fix LTE is activated for a       *)
(* minute's data transfer while GNSS pauses.  The two tasks hand over by   *)
(* three binary semaphores and the flag gnss_active; the modem's handlers  *)
(* (lte_event_handler, gnss_event_handler) give two of the semaphores too. *)
(***************************************************************************)
EXTENDS Naturals

CONSTANT Budget   \* how often each fault may happen

Faults == {"initfail", "stopfail", "ltefail"}

ASSUME BudgetAssumption == Budget \in [Faults -> Nat]

VARIABLES network,         \* where network_task is
          location,        \* where location_task is
          lte_connected, gnss_fix_sem, gnss_start_sem,
          gnss_active,
          gnss,            \* the receiver runs
          lte,             \* the LTE functional mode is on
          registered,      \* the modem has registered with a network
          budget

sems == <<lte_connected, gnss_fix_sem, gnss_start_sem>>
modem == <<gnss, lte, registered>>
vars == <<network, location, sems, gnss_active, modem, budget>>

Spend(f) == budget[f] > 0 /\ budget' = [budget EXCEPT ![f] = @ - 1]

\* A minute's sleep outlasts any call of the modem that the other task is in or
\* just about to make.
NetworkBusy  == network \in {"boot", "stop_lte", "give_lte", "start_lte"}
LocationBusy == location \in {"gnss_init", "stop_gnss"}

-----------------------------------------------------------------------------
(* network_task *)

\* lte_lc_connect_async has returned, whether or not there is a network yet; an
\* error before it ends the task.
NetworkBoot == /\ network = "boot"
               /\ \/ network' = "stop_lte" /\ lte_connected' = 1 /\ UNCHANGED budget
                  \/ network' = "ended" /\ Spend("ltefail") /\ UNCHANGED lte_connected
               /\ UNCHANGED <<location, gnss_fix_sem, gnss_start_sem, gnss_active,
                              modem>>

\* stop_lte and start_lte; an error ends the task.
StopLte == /\ network = "stop_lte"
           /\ \/ network' = "take_fix" /\ lte' = FALSE /\ UNCHANGED budget
              \/ network' = "ended" /\ Spend("ltefail") /\ UNCHANGED lte
           /\ UNCHANGED <<location, sems, gnss_active, gnss, registered>>

\* Mutant: LTE is taken down again without waiting for the end of the window.
StartLteUnwaited == /\ network = "start_lte"
                    /\ network' = "stop_lte"
                    /\ lte' = TRUE
                    /\ UNCHANGED <<location, sems, gnss_active, gnss, registered,
                                   budget>>

StartLte == /\ network = "start_lte"
            /\ \/ network' = "take_start" /\ lte' = TRUE /\ UNCHANGED budget
               \/ network' = "ended" /\ Spend("ltefail") /\ UNCHANGED lte
            /\ UNCHANGED <<location, sems, gnss_active, gnss, registered>>

NetworkTakeFix == /\ network = "take_fix"
                  /\ gnss_fix_sem = 1
                  /\ gnss_fix_sem' = 0
                  /\ network' = "sleep"
                  /\ UNCHANGED <<location, lte_connected, gnss_start_sem,
                                 gnss_active, modem, budget>>

\* Mutant: the flag that ends the fix loop is not cleared.
NetworkWakesFlagged == /\ network = "sleep"
                       /\ ~LocationBusy
                       /\ network' = "give_lte"
                       /\ UNCHANGED <<location, sems, gnss_active, modem, budget>>

\* A minute later GNSS has had its time, and location_task is told twice over.
NetworkWakes == /\ network = "sleep"
                /\ ~LocationBusy
                /\ network' = "give_lte"
                /\ gnss_active' = FALSE
                /\ UNCHANGED <<location, sems, modem, budget>>

GiveLte == /\ network = "give_lte"
           /\ network' = "start_lte"
           /\ lte_connected' = 1
           /\ UNCHANGED <<location, gnss_fix_sem, gnss_start_sem, gnss_active, modem,
                          budget>>

\* Mutant: the window ends without stop_lte.
TakeStartRadioOn == /\ network = "take_start"
                    /\ gnss_start_sem = 1
                    /\ gnss_start_sem' = 0
                    /\ network' = "take_fix"
                    /\ UNCHANGED <<location, lte_connected, gnss_fix_sem,
                                   gnss_active, modem, budget>>

TakeStart == /\ network = "take_start"
             /\ gnss_start_sem = 1
             /\ gnss_start_sem' = 0
             /\ network' = "stop_lte"
             /\ UNCHANGED <<location, lte_connected, gnss_fix_sem, gnss_active,
                            modem, budget>>

-----------------------------------------------------------------------------
(* location_task *)

WaitLte == /\ location = "wait_lte"
           /\ lte_connected = 1
           /\ lte_connected' = 0
           /\ location' = "gnss_init"
           /\ UNCHANGED <<network, gnss_fix_sem, gnss_start_sem, gnss_active,
                          modem, budget>>

\* Mutant: the flag is not set again when GNSS starts.
GnssInitUnflagged == /\ location = "gnss_init"
                     /\ location' = "check"
                     /\ gnss' = TRUE
                     /\ UNCHANGED <<network, sems, gnss_active, lte, registered,
                                    budget>>

\* gnss_init_and_start: it may fail before the receiver starts, or after; its
\* result is not looked at.
GnssInit == /\ location = "gnss_init"
            /\ location' = "check"
            /\ \/ gnss' = TRUE /\ gnss_active' = TRUE /\ UNCHANGED budget
               \/ /\ Spend("initfail")
                  /\ gnss' \in {gnss, TRUE}
                  /\ UNCHANGED gnss_active
            /\ UNCHANGED <<network, sems, lte, registered>>

\* The loop condition.
Check == /\ location = "check"
         /\ location' = IF gnss_active THEN "take_fix" ELSE "take_lte"
         /\ UNCHANGED <<network, sems, gnss_active, modem, budget>>

\* A position is taken and published.
LocationTakeFix == /\ location = "take_fix"
                   /\ gnss_fix_sem = 1
                   /\ gnss_fix_sem' = 0
                   /\ location' = "check"
                   /\ UNCHANGED <<network, lte_connected, gnss_start_sem,
                                  gnss_active, modem, budget>>

TakeLte == /\ location = "take_lte"
           /\ lte_connected = 1
           /\ lte_connected' = 0
           /\ location' = "stop_gnss"
           /\ UNCHANGED <<network, gnss_fix_sem, gnss_start_sem, gnss_active,
                          modem, budget>>

StopGnss == /\ location = "stop_gnss"
            /\ location' = "sleep"
            /\ \/ gnss' = FALSE /\ UNCHANGED budget
               \/ Spend("stopfail") /\ UNCHANGED gnss
            /\ UNCHANGED <<network, sems, gnss_active, lte, registered>>

LocationWakes == /\ location = "sleep"
                 /\ ~NetworkBusy
                 /\ location' = "gnss_init"
                 /\ gnss_start_sem' = 1
                 /\ UNCHANGED <<network, lte_connected, gnss_fix_sem, gnss_active,
                                modem, budget>>

-----------------------------------------------------------------------------
(* The modem's events *)

\* Mutant: the semaphore counts fixes without a limit.
FixCounted == /\ gnss
              /\ gnss_fix_sem' = gnss_fix_sem + 1
              /\ UNCHANGED <<network, location, lte_connected, gnss_start_sem,
                             gnss_active, modem, budget>>

\* gnss_event_handler on NRF_MODEM_GNSS_EVT_FIX
Fix == /\ gnss
       /\ gnss_fix_sem' = 1
       /\ UNCHANGED <<network, location, lte_connected, gnss_start_sem, gnss_active,
                      modem, budget>>

\* lte_event_handler on LTE_LC_EVT_NW_REG_STATUS, home or roaming
Register == /\ lte
            /\ registered' = TRUE
            /\ lte_connected' = 1
            /\ UNCHANGED <<network, location, gnss_fix_sem, gnss_start_sem,
                           gnss_active, gnss, lte, budget>>

-----------------------------------------------------------------------------

Init == /\ network = "boot"
        /\ location = "wait_lte"
        /\ lte_connected = 0
        /\ gnss_fix_sem = 0
        /\ gnss_start_sem = 0
        /\ gnss_active = FALSE
        /\ gnss = FALSE
        /\ lte = TRUE
        /\ registered = FALSE
        /\ budget = Budget

NetworkTask == \/ NetworkBoot \/ StopLte \/ StartLte \/ NetworkTakeFix
               \/ NetworkWakes \/ GiveLte \/ TakeStart

LocationTask == \/ WaitLte \/ GnssInit \/ Check \/ LocationTakeFix \/ TakeLte
                \/ StopGnss \/ LocationWakes

Next == NetworkTask \/ LocationTask \/ Fix \/ Register

Spec == Init /\ [][Next]_vars

\* Both tasks get the CPU, and a receiver that runs finds fixes.
Fairness == /\ SF_vars(NetworkTask)
            /\ SF_vars(LocationTask)
            /\ WF_vars(Fix)

FairSpec == Spec /\ Fairness

-----------------------------------------------------------------------------
(* Properties *)

\* Types of the tasks' and the modem's state.
TypeOK ==
    /\ network \in {"boot", "stop_lte", "take_fix", "sleep", "give_lte",
                    "start_lte", "take_start", "ended"}
    /\ location \in {"wait_lte", "gnss_init", "check", "take_fix", "take_lte",
                     "stop_gnss", "sleep"}
    /\ lte_connected \in {0, 1} /\ gnss_fix_sem \in {0, 1} /\ gnss_start_sem \in {0, 1}
    /\ gnss_active \in BOOLEAN /\ gnss \in BOOLEAN
    /\ lte \in BOOLEAN /\ registered \in BOOLEAN
    /\ budget \in [Faults -> Nat]

DataWindow == network \in {"give_lte", "start_lte", "take_start"}

\* gnss_init_and_start has not failed so far.  Nobody looks at its result: if it
\* does fail, gnss_active stays FALSE and the tasks get out of step.
GnssStarted == budget["initfail"] = Budget["initfail"]

\* GNSS is taken out of service, from the moment location_task leaves its
\* fix loop until it has started the receiver again, only for a data window:
\* no token left over from a registration sends it there at another time.
PausesOnlyForData ==
    (GnssStarted /\ location \in {"take_lte", "stop_gnss", "sleep"}) =>
        DataWindow \/ network = "ended"

\* The go-ahead for the next GNSS period is given and used up within one data
\* window; one left over would end a later window at once.
NoStaleStart ==
    (GnssStarted /\ gnss_start_sem = 1) => DataWindow \/ network = "ended"

\* While no data window is open, LTE is off except on the way out of a window
\* and at boot, so the receiver has the radio.
RadioForGnss == network \in {"take_fix", "sleep"} => ~lte

\* The tasks keep alternating: data windows and GNSS periods come for ever,
\* unless the modem has refused to change over or GNSS has failed to start.
Stopped == network = "ended" \/ ~GnssStarted
KeepsAlternating == /\ []<>(Stopped \/ (lte /\ ~gnss))
                    /\ []<>(Stopped \/ (gnss /\ ~lte))

\* "Wait untill first LTE connection" (location.c:180): GNSS is not started
\* before the modem has been on the network.
FirstLteConnection == location # "wait_lte" => registered
=============================================================================
