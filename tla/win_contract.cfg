\* One acquisition at a time; the region is changed and the IOC exits in between.
\* MaxFrames leaves frames for each acquisition to complete.
CONSTANTS
  numBFBuffers = 2
  DefaultBuffers = 3
  MinBuffers = 2
  Buffers = {b1, b2}
  Threads = {t1, t2}
  None = None
  MaxFrames = 8
  Faults = {"setup"}
  BusyOps = {"callbacks"}
  IdleOps = {"start", "roi", "exit", "imageMode", "numImages"}
  ImageModes = {"Single", "Multiple"}
  ImageCounts = {0, 2}
  MaxStarts = 2
SPECIFICATION LifeSpec
INVARIANTS
  RestWhenNotAcquiring
  NothingFreedInUse
  BoardOutlivesItsUsers
PROPERTY ContractSpec
\* The client may have nothing left to do.
CHECK_DEADLOCK FALSE
