\* Fewer buffers asked for than the driver allocates: a queue that is too short.
CONSTANTS
  numBFBuffers = 1
  DefaultBuffers = 3
  MinBuffers = 4
  Buffers = {b1, b2, b3, b4}
  Threads = {t1, t2}
  None = None
  MaxFrames = 4
  Faults = {}
  BusyOps = {"start", "stop"}
  IdleOps = {}
  ImageModes = {"Continuous"}
  ImageCounts = {1}
  MaxStarts = 1
SPECIFICATION Spec
SYMMETRY Symmetry
INVARIANT RoomForEveryBuffer
