--------------------------- MODULE MC_HelperApp ---------------------------
(* The helper under one general client, on two socket descriptors. *)
EXTENDS HelperApp

\* Every kind of failure once, two link changes; the broker answers CONNECT in
\* time and poll() does not fail.
MCBudget == [drop |-> 1, refuse |-> 1, connfail |-> 1, oversize |-> 1, pdn |-> 2,
             mute |-> 0, pollerr |-> 0]

\* The broker leaves one CONNECT unanswered.
MuteBudget == [drop |-> 0, refuse |-> 0, connfail |-> 0, oversize |-> 0, pdn |-> 0,
               mute |-> 1, pollerr |-> 0]

FdSymmetry == {[f \in Fds |-> IF f = x THEN y ELSE IF f = y THEN x ELSE f] : x, y \in Fds}
=============================================================================
