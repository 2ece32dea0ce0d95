\* Safety: two faults, so that one strikes during the recovery from another, a failed submission, and starts after a disconnect.
CONSTANTS
  Buf = {b1, b2, b3}
  NoBuf = NoBuf
  MinQueued = 2
  HdrLen = 1
  TailLen = 2
  PktLen = 3
  ImgPkts = 2
  OddPkts = 3
  DrainLen = 6
  MaxFaults = 2
  MaxNoMem = 1
  MaxUnderflow = 0
SYMMETRY BufSymmetry
SPECIFICATION Spec
INVARIANTS OneTransfer BufferOwnership FrameHasBuffer Quiet Killed NeverStalls
PROPERTIES ImplementsCaptureQueue WholeFrames
