SPECIFICATION SystemSpec
CONSTANTS
  MaxLines = 6
  MaxConnections = 2
  MaxBroadcasts = 3
  Channel = {chA}
  Lines <- TwoSessions
  Events = {"whole"}
  Radix = 2
  Null = Null
  NotANumber = NotANumber
INVARIANTS
  ReadersGiveTheLockBack
