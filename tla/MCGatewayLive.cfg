SPECIFICATION FairSpec
CONSTANTS
  Devices = {d1}
  d1 = d1
  Workers = {w1}
  w1 = w1
  Requests = {r1}
  r1 = r1
  Capacity = 1
  MaxTicks = 3
  NoEvent = NoEvent
PROPERTIES
  CancelStops
  AcceptedIsDecided
  NoDeviceStuck
