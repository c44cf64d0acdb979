SPECIFICATION Spec
CONSTANTS
  MaxConnections = 2
  MaxFrames <- ThreeFrames
  User = {u1}
  Password = {p1, p2}
  Channel = {chA, chB}
  SubId = {1, 2}
  Frames <- PubSubFrames
  StripSlash <- ToBareName
  SmallSet = 8
  Deaf = {}
  Null = Null
  NotANumber = NotANumber
INVARIANTS
  SessionInv
  ListedUsersHaveAConnection
  ChannelsHoldOnlySubscribers
  LeaversAreForgotten
CHECK_DEADLOCK FALSE
