\* Starts, stops, switched callbacks and aborts at any time; one processing thread.
CONSTANTS
  numBFBuffers = 2
  DefaultBuffers = 3
  MinBuffers = 2
  Buffers = {b1, b2}
  Threads = {t1}
  None = None
  MaxFrames = 4
  Faults = {"overrun", "abort", "command", "alloc"}
  BusyOps = {"start", "stop", "callbacks"}
  IdleOps = {}
  ImageModes = {"Single", "Multiple", "Continuous"}
  ImageCounts = {2}
  MaxStarts = 2
SPECIFICATION FairSpec
INVARIANT DeliveredInOrder
PROPERTY AbortSettles
