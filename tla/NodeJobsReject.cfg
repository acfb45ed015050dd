SPECIFICATION Spec
CONSTANTS
  MAX_JOBS = 1
  p1 = p1
  p2 = p2
  Pids <- TwoPids
  Fds <- SixFds
  Jids = {1}
  Payloads = {"malformed"}
  Topics = {"submit"}
  Failures = {}
  Habits = {}
  FirstMadeUp = 777
  MaxMadeUp = 1
  MaxUnread = 1
SYMMETRY AnyPid
INVARIANTS
  RejectIsFinal
