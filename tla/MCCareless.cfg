SPECIFICATION Spec
CONSTANTS
  MaxConnections = 2
  MaxFrames <- LastSendsTwo
  User = {u1}
  Password = {p1}
  Channel = {chA, chB}
  SubId <- AndMinusOne
  Frames <- CarelessFrames
  StripSlash <- ToBareName
  SmallSet = 8
  Deaf = {}
  Null = Null
  NotANumber = NotANumber
INVARIANTS
  IInv
  OneIdPerChannel
  SubscriptionsAreBroadcastTo
  SubscribedHasHandler
  OnlyMessagesAfterError
PROPERTIES
  ErrorEndsTheSession
CHECK_DEADLOCK FALSE
