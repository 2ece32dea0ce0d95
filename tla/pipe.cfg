\* Three touch URBs, so that a loop has a middle, and one failed submission.
CONSTANTS
  NumUrbs = 3
  MaxNoMem = 1
  MaxUnderflow = 1
SPECIFICATION FairSpec
INVARIANTS Balanced TouchQuiet KeptQueued
PROPERTIES CallsReturn
