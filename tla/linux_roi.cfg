\* The region is changed between acquisitions; configuring or reading back may fail.
CONSTANTS
  numBFBuffers = 2
  DefaultBuffers = 3
  MinBuffers = 2
  Buffers = {b1, b2}
  Threads = {t1, t2}
  None = None
  MaxFrames = 7
  Faults = {"setup"}
  BusyOps = {}
  IdleOps = {"start", "roi", "callbacks"}
  ImageModes = {"Single", "Multiple"}
  ImageCounts = {2}
  MaxStarts = 2
  Sizes = {1, 2}
  Depths = {8, 16}
SPECIFICATION RoiSpec
INVARIANT CopyReadsBuffer
PROPERTY ContractSpec
CHECK_DEADLOCK FALSE
