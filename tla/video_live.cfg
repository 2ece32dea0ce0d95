\* Liveness: short images keep the state graph small.
CONSTANTS
  Buf = {b1, b2}
  NoBuf = NoBuf
  MinQueued = 1
  HdrLen = 1
  TailLen = 2
  PktLen = 3
  ImgPkts = 1
  OddPkts = 2
  DrainLen = 3
  MaxFaults = 1
  MaxNoMem = 0
  MaxUnderflow = 0
SPECIFICATION FairSpec
PROPERTIES CallsReturn BuffersComeBack
