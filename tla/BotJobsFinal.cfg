SPECIFICATION Spec
CONSTANTS
  n1 = n1
  n2 = n2
  Nodes <- OneNode
  MaxJid = 1
  Abandonable = {1}
  Faults = {}
INVARIANTS
  FinalIsFinal
CHECK_DEADLOCK FALSE
