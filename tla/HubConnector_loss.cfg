SPECIFICATION HubSpec
CONSTANTS
  s1 = s1
  s2 = s2
  f1 = f1
  f2 = f2
  Sessions = {s1, s2}
  Forwarders = {f1, f2}
  SessionOf <- OneEach
  ChannelCapacity = 1
  PendingCapacity = 2
  BatchMax = 2
  MaxEvents = 3
  MaxOthers = 1
  Announces <- OnlyFirst
  Unparsable <- NoneUnparsable
INVARIANT
  TrimmedStored
CHECK_DEADLOCK FALSE
