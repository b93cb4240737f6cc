\* What does world_step get as the elapsed time?
SPECIFICATION Spec
CONSTANTS
  ImageNum = 3
  AcquireNum = 4
  FrameNum = 2
INVARIANT StepIsTimed
