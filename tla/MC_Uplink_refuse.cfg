CONSTANTS
  Task = task
  WorkQ = workq_thread
  Poll = poll_thread
  Timer = timer
  Callers = {task, workq_thread}
  Fds = {f1, f2}
  None = none
  NotifLen = 2
  QueueLen = 1
  Budget <- RefuseBudget
  Patient = TRUE
SPECIFICATION FairSpec
PROPERTIES StaysConnected
CHECK_DEADLOCK FALSE
