SPECIFICATION FairSpec
CONSTANTS
  MaxConnections = 2
  MaxFrames <- TwoFrames
  User = {u1}
  Password = {p1}
  Channel = {chA}
  SubId = {1, 2}
  Frames <- CarelessFrames
  StripSlash <- NoSlash
  SmallSet = 8
  Deaf = {1}
  Null = Null
  NotANumber = NotANumber
PROPERTIES
  FramesAreHandled
  ErrorClosesTheSocket
CHECK_DEADLOCK FALSE
