\* Countdowns of none, one and three frames; a ring of three laps that wraps; five
\* modules opened in the console; event viewers with and without a limit.
CONSTANTS
  CiFrames = {0, 1, 3}
  CiSkips = {0, 1}
  CiBuffers = 4
  CsErrLimit = 3
  LapPeriods = 2
  LapRecent = 3
  LapMaxTime = 8
  LapMaxLaps = 8
  NcMaxOpens = 6
  EvMaxCounts = {0, 1, 3}
  EvMaxPending = 2
  SiMaxFiles = 3
SPECIFICATION Spec
INVARIANTS
  CiCleansUp
  CsFlagsProtect
  CbUsesWhatExists
  LapRateIsOfLastLaps
  NcMapsOfOpenModules
  EvThreadInScope
  SiEachOnce
PROPERTIES
  CiEnds
  CsQuitEnds
  EvEnds
\* The programs end.
CHECK_DEADLOCK FALSE
