\* One viewport whose acquires may fail: does every frame, image and shutdown come to its end?
SPECIFICATION FairSpec
CONSTANTS
  ViewportNum = 1
  AcquireNum = 2
  FrameNum = 2
  Images = {"i1", "i2", "i3"}
  AcquireResults = {"success", "out_of_date"}
  SubmitResults = {"ok"}
  PresentResults = {"ok"}
  PresentHolds = TRUE
  IdleWaitsForPresents = TRUE
  DeviceMayBeLost = FALSE
INVARIANTS AcquiresInv WaitsEnd TeardownIdle
PROPERTIES FrameReturns ImagesReturn QuitCompletes SlotsReturn
