\* Two buffers, every exec function, every failure; the user's commands and answers in any
\* order.
CONSTANTS
  BufferHandles = {b1, b2}
  NoBuffer = NoBuffer
  GvModes <- MCModes
  GvFaults = {"setup", "queue", "start", "stop", "event", "kill", "node"}
  GvMaxFrames = 4
  GvMaxErrors = 1
  GvMaxCommands = 7
SPECIFICATION GvSpec
INVARIANTS
  GvOneHolder
  GvStreamOutlivesThreads
PROPERTIES
  GvEnds
  GvFramesHandled
\* The program ends, or waits for its user.
CHECK_DEADLOCK FALSE
