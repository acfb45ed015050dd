SPECIFICATION FairGridSpec
CONSTANTS
  Host = "host"
  Nodes <- HostOnly
  Kinds = {"pty"}
  MaxJid = 1
  Abandonable = {1}
  Faults = {"discord", "broker"}
  MAX_JOBS = 1
  MaxMail = 2
  MaxInbox = 2
INVARIANTS
  GridTypeOK
  
  RollCallSparesStarted
PROPERTIES
  LostJobsLeave
  JobsStartOnce
