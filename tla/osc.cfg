\* Packets with bundles in bundles, in a buffer that a few arguments fill.
CONSTANTS
  Capacity = 60
  Addresses <- MCAddresses
  Tags = {84, 105, 104, 115, 98, 91}
  Numbers = {44}
  Strings <- MCStrings
  Junk = 255
  MaxElements = 4
  MaxArguments = 3
SPECIFICATION StreamSpec
INVARIANTS InBuffer RoundTrip
