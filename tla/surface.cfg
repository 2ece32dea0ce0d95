\* Two packets in an image, four in a full frame, up to three in a transfer; one transfer fails;
\* one setting of voltage and bias, beside the default and what a failed call leaves.
CONSTANTS
  VideoReg <- MCVideoReg
  IrReg <- MCIrReg
  Half = 2
  PerRead = 3
  Blocks = 2
  Page = {"p1", "p2"}
  Tries = 2
  MaxFaults = 1
  MaxVoltage = 1
  MaxBias = 1
SPECIFICATION ToolSpec
INVARIANTS CallsWork
PROPERTIES ImagesComeBack
