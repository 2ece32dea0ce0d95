\* Three cursors, one of them the application's, two blobs and two objects.
CONSTANTS
  Cursor = {c1, c2, x1}
  Object = {o1, x2}
  Blob = {b1, x3}
  Ext = {x1, x2, x3}
  MaxId = 3
  Capacity = 240
  Source = 44
  MaxLoss = 1
SPECIFICATION SourceSpec
CONSTRAINT Bound
SYMMETRY Symmetry
INVARIANTS Identifiers PacketsFit PutRight
