\* vkAcquireNextImageKHR may answer VK_SUBOPTIMAL_KHR.
SPECIFICATION Spec
CONSTANTS
  ViewportNum = 1
  AcquireNum = 4
  FrameNum = 2
  Images = {"i1", "i2", "i3"}
  AcquireResults = {"success", "suboptimal"}
  SubmitResults = {"ok"}
  PresentResults = {"ok"}
  PresentHolds = TRUE
  IdleWaitsForPresents = TRUE
  DeviceMayBeLost = FALSE
PROPERTIES AcquireReported
CHECK_DEADLOCK FALSE
