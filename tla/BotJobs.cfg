SPECIFICATION FairSpec
CONSTANTS
  n1 = n1
  n2 = n2
  Nodes <- TwoNodes
  MaxJid = 1
  Abandonable = {1}
  Faults = {"discord", "broker"}
INVARIANTS
  TypeOK
  TableIsOpen
  NobodyIsLeftInTheDark
PROPERTIES
  
  JobsSettle
CHECK_DEADLOCK FALSE
