SPECIFICATION Spec
CONSTANTS
  MAX_JOBS = 2
  p1 = p1
  p2 = p2
  Pids <- TwoPids
  Fds <- NineFds
  Jids = {1}
  Payloads = {"script"}
  Topics = {"submit", "eof"}
  Failures = {}
  Habits = {}
  FirstMadeUp = 777
  MaxMadeUp = 1
  MaxUnread = 1
SYMMETRY AnyPid
INVARIANTS
  EofIsEof
