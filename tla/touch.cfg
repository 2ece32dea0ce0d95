\* Four blobs, one of them a tag, up to three in a scan, and two slots.
CONSTANTS
  Contact = {c1, c2, c3, t1}
  Tag = {t1}
  NoContact = NoContact
  MaxContacts = 2
  PerPacket = 1
  MinBlobs = 1
  MaxBlobs = 3
  MaxFaults = 2
SPECIFICATION FairSpec
INVARIANT ErrorsCostTwoScans
PROPERTIES WholeScans Realigns
