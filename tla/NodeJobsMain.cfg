SPECIFICATION Spec
CONSTANTS
  MAX_JOBS = 2
  p1 = p1
  p2 = p2
  Pids <- TwoPids
  Fds <- NineFds
  Jids = {1}
  Payloads = {"script"}
  Topics = {"submit", "eof", "signal", "scram", "reload", "roll_call", "ping"}
  Failures = {"mkstemp", "transport", "fork"}
  Habits = {"background", "foreign"}
  FirstMadeUp = 777
  MaxMadeUp = 1
  MaxUnread = 1
SYMMETRY AnyPid
INVARIANTS
  TypeOK
  ChildrenTracked
  DescriptorsOwned
  ScriptsMatchJobs
PROPERTIES
  KeepsContract
