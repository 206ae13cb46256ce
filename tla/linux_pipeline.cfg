\* Every operation at any time, every failure the Linux calls can report.
CONSTANTS
  numBFBuffers = 2
  DefaultBuffers = 3
  MinBuffers = 2
  Buffers = {b1, b2}
  Threads = {t1, t2}
  None = None
  MaxFrames = 3
  Faults = {"abort", "error", "command", "alloc", "nullData"}
  BusyOps = {"start", "stop", "callbacks"}
  IdleOps = {}
  ImageModes = {"Single", "Multiple", "Continuous"}
  ImageCounts = {2}
  MaxStarts = 2
SPECIFICATION FairSpec
INVARIANTS
  TypeOK
  OneOwner
  CollectedFramesHoldBuffers
PROPERTY AbortFreesLock
\* The lock can be held for ever, see v_linux.
CHECK_DEADLOCK FALSE
