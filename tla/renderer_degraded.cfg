\* Every answer of the engine, of vkQueueSubmit and of vkQueuePresentKHR, and a device
\* that may be lost; a failed submission may block the host for ever.
SPECIFICATION Spec
CONSTANTS
  ViewportNum = 1
  AcquireNum = 2
  FrameNum = 2
  Images = {i1, i2, i3}
  AcquireResults = {"success", "suboptimal", "out_of_date"}
  SubmitResults = {"ok", "failed"}
  PresentResults = {"ok", "failed"}
  PresentHolds = FALSE
  IdleWaitsForPresents = FALSE
  DeviceMayBeLost = TRUE
INVARIANTS FrameExclusive FramesInv
PROPERTIES SlotsSafe
SYMMETRY ImageSymmetry
