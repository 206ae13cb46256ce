\* The NDArrayPool is exhausted once or twice, with a buffer to spare.
CONSTANTS
  numBFBuffers = 3
  DefaultBuffers = 3
  MinBuffers = 2
  Buffers = {b1, b2, b3}
  Threads = {t1}
  None = None
  MaxFrames = 2
  Faults = {"alloc"}
  BusyOps = {"start"}
  IdleOps = {}
  ImageModes = {"Continuous"}
  ImageCounts = {1}
  MaxStarts = 1
SPECIFICATION FairSpec
PROPERTY AllocFailureAborts
CHECK_DEADLOCK FALSE
