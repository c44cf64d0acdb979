SPECIFICATION Spec
CONSTANTS
  MaxConnections = 2
  MaxFrames <- OneFrame
  User = {u1}
  Password = {p1}
  Channel = {chA}
  SubId = {1}
  Frames <- SessionFrames
  StripSlash <- NoSlash
  SmallSet = 8
  Deaf = {}
  Null = Null
  NotANumber = NotANumber
INVARIANTS
  AtMostOneSession
