SPECIFICATION Spec
CONSTANTS
  MaxConnections = 2
  MaxFrames <- LastSendsFour
  User = {u1}
  Password = {p1}
  Channel = {chA}
  SubId = {1}
  Frames <- BroadcastFrames
  StripSlash <- NoSlash
  SmallSet = 1
  Deaf = {}
  Null = Null
  NotANumber = NotANumber
INVARIANTS
  DeliveryInv
  SenderOrder
PROPERTIES
  BroadcastReachesEveryone
CHECK_DEADLOCK FALSE
