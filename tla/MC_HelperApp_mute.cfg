CONSTANTS
  App = app
  Callers = {app}
  Poll = poll_thread
  Fds = {f1, f2}
  None = none
  Budget <- MuteBudget
  Patient = TRUE
SPECIFICATION Spec
INVARIANTS PolledWhileOpen
