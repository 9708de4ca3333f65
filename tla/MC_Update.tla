------------------------------ MODULE MC_Update ------------------------------
(* Requests, resets and failing calls of the modem, a few of each. *)
EXTENDS Update

UpdateBudget == [publish |-> 3, startfail |-> 1, reset |-> 2]
=============================================================================
