----------------------------- MODULE MC_DataPath -----------------------------
(* The data path with a few bytes, lines and frames. *)
EXTENDS DataPath

\* Three lines and two frames, of which one read may fail; no session.
ReadBudget == [byte |-> 3, newline |-> 3, frame |-> 2, readfail |-> 1, event |-> 0,
               session |-> 0]

\* Two lines, one frame, a session to publish them in and a network event or a
\* request for an update.
StreamBudget == [byte |-> 2, newline |-> 2, frame |-> 1, readfail |-> 0, event |-> 1,
                 session |-> 1]
=============================================================================
