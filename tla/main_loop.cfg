\* Every combination of arguments, failures, signals and quit events at any point.
SPECIFICATION FairSpec
CONSTANTS
  ImageNum = 3
  AcquireNum = 4
  FrameNum = 2
INVARIANTS MainInv NothingDangles DestroysOnlyMade ExitIsClean
PROPERTIES SignalHeeded QuitHeeded
