SPECIFICATION FairSpec
CONSTANTS
  Nodes <- SpamOnly
  MaxWire = 2
  MaxMail = 2
  MaxInbox = 2
  Users = {"user"}
  Targets <- Typed
  Alike <- NoneAlike
  Begins <- SpamBegins
  HasChannel = FALSE
INVARIANTS
  TypeOK
  TableIsCurrent
  ListedNodesListen
  NoJobsForEjected
PROPERTIES
  NodesGetListed
