SPECIFICATION MCSpec
CONSTANTS
  Sym = {s1}
  Asym = {a1, a2}
  Main = Main
  Independent = TRUE
  Waiter = {w1, w2}
  None = None
  Sig = {SIGCHLD, SIGUSR1}
  UserSig = {SIGUSR1}
  SIGCHLD = SIGCHLD
  Sched = Sched
  InitialMask = {SIGCHLD}
  Exclusive = TRUE
  Fd = {f1, f2}
  Shared = Shared
  Careful = TRUE
  QuietPoll = TRUE
INVARIANTS StackIntact ResumersReturned
INVARIANTS MasksAgree WaitsAgree
PROPERTIES WaitChildReturns EventReturns
CHECK_DEADLOCK FALSE
