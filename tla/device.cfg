\* Two video handles, two values of a control, planes smaller and larger than an image.
CONSTANTS
  MaxFiles = 2
  Level = {lo, hi}
  Unknown = Unknown
  MaxPlane = 3
  NoFormat = NoFormat
SPECIFICATION FormatSpec
INVARIANTS AllGivenBack NotFreedInUse PanelFollows FormatAgreed
