\* Two buffers, two threads, every operation at any time, every failure.
CONSTANTS
  numBFBuffers = 2
  DefaultBuffers = 3
  MinBuffers = 2
  Buffers = {b1, b2}
  Threads = {t1, t2}
  None = None
  MaxFrames = 3
  Faults = {"overrun", "abort", "error", "command", "alloc", "nullData", "once"}
  BusyOps = {"start", "stop", "callbacks"}
  IdleOps = {}
  ImageModes = {"Single", "Multiple", "Continuous"}
  ImageCounts = {2}
  MaxStarts = 2
SPECIFICATION Spec
SYMMETRY Symmetry
INVARIANTS
  TypeOK
  OneOwner
  RoomForEveryBuffer
  CountedFramesFreeBuffers
  DeliveredIntact
PROPERTY
  FlowSpec
