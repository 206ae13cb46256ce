\* A continuous acquisition, with frames to spare when the buffers are used up.
CONSTANTS
  numBFBuffers = 2
  DefaultBuffers = 3
  MinBuffers = 2
  Buffers = {b1, b2}
  Threads = {t1, t2}
  None = None
  MaxFrames = 5
  Faults = {}
  BusyOps = {"start", "stop"}
  IdleOps = {}
  ImageModes = {"Continuous"}
  ImageCounts = {1}
  MaxStarts = 1
SPECIFICATION FairSpec
PROPERTY GrabbedImageIsDelivered
\* Everything that is left needs the lock.
CHECK_DEADLOCK FALSE
