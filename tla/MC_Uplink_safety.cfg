CONSTANTS
  Task = task
  WorkQ = workq_thread
  Poll = poll_thread
  Timer = timer
  Callers = {task, workq_thread}
  Fds = {f1, f2}
  None = none
  NotifLen = 2
  QueueLen = 1
  Budget <- SafetyBudget
  Patient = TRUE
SPECIFICATION Spec
INVARIANTS TypeOK RetryPending MachinesAgree StatusFollows NoSocketLeak
CHECK_DEADLOCK FALSE
