\* Buffers grow twice, fail to grow or are not mapped; frames of none, one or two viewports.
SPECIFICATION PassSpec
SYMMETRY Symmetry
VIEW View
CONSTANTS
  Vertices = {v1, v2}
  Unset = unset
  Capacity = 2
  MaxNum = 4
  InitialSize = 2
  VectorResults = {"ok", "unmapped", "unbound", "no_buffer"}
  FrameNum = 2
  ViewportNum = 2
  VertexSize = 2
  IndexSize = 1
INVARIANTS BuffersAlive DrawsWhatWasGiven PassInv
