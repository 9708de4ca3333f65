----------------------------- MODULE MC_Uplink -----------------------------
(* The transport module and the helper, with small budgets of events. *)
EXTENDS Uplink

\* The network comes, goes and comes again, two samples, and every fault once
\* but those left to the other runs: oversize messages, and calls of connect
\* that fail with the network there.
SafetyBudget == [pdn |-> 3, drop |-> 1, sample |-> 2, connfail |-> 0, oversize |-> 0,
                 refuse |-> 1, mute |-> 1, pollerr |-> 1]

\* The same with one sample and every fault, but CONNECT is always answered and
\* accepted and poll() does not fail.
LivenessBudget == [pdn |-> 3, drop |-> 1, sample |-> 1, connfail |-> 1, oversize |-> 1,
                   refuse |-> 0, mute |-> 0, pollerr |-> 0]

\* The network comes, and the connection is lost once before CONNECT is answered.
RefuseBudget == [pdn |-> 1, drop |-> 0, sample |-> 0, connfail |-> 0, oversize |-> 0,
                 refuse |-> 1, mute |-> 0, pollerr |-> 0]

\* The network comes and one sample.
SampleBudget == [pdn |-> 1, drop |-> 0, sample |-> 1, connfail |-> 0, oversize |-> 0,
                 refuse |-> 0, mute |-> 0, pollerr |-> 0]

\* The network comes, a sample, the network goes.
AssertBudget == [pdn |-> 2, drop |-> 0, sample |-> 1, connfail |-> 0, oversize |-> 0,
                 refuse |-> 0, mute |-> 0, pollerr |-> 0]
=============================================================================
