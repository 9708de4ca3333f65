----------------------------- MODULE LossyStream -----------------------------
(***************************************************************************)
(* What the firmware promises about the data it forwards: of messages made  *)
(* one after the other some may be lost and some passed on twice, but none  *)
(* is passed on after a newer one, and none that was never made.            *)
(***************************************************************************)
EXTENDS Naturals

VARIABLES made,     \* how many messages there have been
          passed    \* the newest one that has been passed on, or 0

Init == made = 0 /\ passed = 0

Make == made' = made + 1 /\ UNCHANGED passed

Pass == passed' \in passed..made /\ UNCHANGED made

Next == Make \/ Pass

Spec == Init /\ [][Next]_<<made, passed>>
=============================================================================
