\* Two touches and a tag, one blob in a packet; a packet is four bytes short of two set messages.
CONSTANTS
  Cursor = {c1, c2}
  Object = {t1}
  Blob = {}
  Ext = {}
  MaxId = 1
  Capacity = 240
  Source = 44
  MaxLoss = 1
  PerPacket = 1
  MaxFaults = 1
SPECIFICATION TuioSpec
INVARIANTS ReceiverInStep EndsEmpty ContactsAgree
PROPERTIES ScansWhole Ends
