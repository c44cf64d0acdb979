SPECIFICATION FairSpec
CONSTANTS
  MaxLines = 5
  MaxConnections = 2
  MaxBroadcasts = 1
  Channel = {chA}
  Lines <- Sessions
  Events = {"partial"}
  Radix = 2
  Null = Null
INVARIANTS
  ClientInv
  EveryReceiptIsUnderstood
  LoggedInHasSocket
PROPERTIES
  OnlyItsLogoutCloses
  ErrorEndsTheProgram
  LogoutEndsTheSession

