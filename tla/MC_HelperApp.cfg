CONSTANTS
  App = app
  Callers = {app}
  Poll = poll_thread
  Fds = {f1, f2}
  None = none
  Budget <- MCBudget
  Patient = TRUE
SYMMETRY FdSymmetry
SPECIFICATION Spec
INVARIANTS TypeOK NoIllegalTransition ToldTheTruth PolledWhileOpen
PROPERTIES ImplementsSession
