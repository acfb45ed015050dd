SPECIFICATION FairSpec
CONSTANTS
  MAX_JOBS = 1
  p1 = p1
  p2 = p2
  Pids <- TwoPids
  Fds <- SixFds
  Jids = {0, 1}
  Payloads = {"legacy", "script_tty_noterm"}
  Topics = {"submit", "stdin", "eof", "signal", "exit", "reload"}
  Failures = {}
  Habits = {"background", "close"}
  FirstMadeUp = 777
  MaxMadeUp = 1
  MaxUnread = 2
INVARIANTS
  
  ScriptsMatchJobs
PROPERTIES
  
  KeepsContract
  DrainedBeforeStopped
