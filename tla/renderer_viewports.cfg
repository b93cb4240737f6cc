\* Two viewports, any of which may be culled from a frame, and as many frame
\* slots as acquire semaphores, the most the rotation allows.
SPECIFICATION Spec
CONSTANTS
  ViewportNum = 2
  AcquireNum = 2
  FrameNum = 2
  Images = {i1, i2, i3}
  AcquireResults = {"success", "out_of_date"}
  SubmitResults = {"ok"}
  PresentResults = {"ok", "failed"}
  PresentHolds = TRUE
  IdleWaitsForPresents = TRUE
  DeviceMayBeLost = FALSE
INVARIANTS RenderTargetExclusive OnFinishedFresh AcquireSemFresh PresentsInv
SYMMETRY ImageSymmetry
