\* Two drivers, three threads each, any boards; one node of any kind, with failures.
CONSTANTS
  Ports = {c1, c2}
  Boards = {0, 1}
  Builds = {"Windows", "Linux"}
  NumThreads = 3
  NoBoard = NoBoard
  Numbers <- MCNumbers
  SdkFails = TRUE
  Garbage = Garbage
SPECIFICATION Spec
INVARIANTS
  StartupTypeOK
  UsedExists
  CheckedCallsWork
  CheckedCallsHaveANode
\* An exception ends the IOC.
CHECK_DEADLOCK FALSE
