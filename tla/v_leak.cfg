\* NDArrayCallbacks is switched while a frame is copied.
CONSTANTS
  numBFBuffers = 2
  DefaultBuffers = 3
  MinBuffers = 2
  Buffers = {b1, b2}
  Threads = {t1, t2}
  None = None
  MaxFrames = 3
  Faults = {}
  BusyOps = {"start", "stop", "callbacks"}
  IdleOps = {}
  ImageModes = {"Continuous"}
  ImageCounts = {1}
  MaxStarts = 1
SPECIFICATION Spec
SYMMETRY Symmetry
INVARIANT NoArrayLeak
