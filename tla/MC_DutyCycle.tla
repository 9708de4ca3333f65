---------------------------- MODULE MC_DutyCycle ----------------------------
(* The GNSS and LTE duty cycle; the cycle itself needs no bound. *)
EXTENDS DutyCycle

\* Every call of the modem may fail once.
CycleBudget == [initfail |-> 1, stopfail |-> 1, ltefail |-> 1]
=============================================================================
