SPECIFICATION Spec
CONSTANTS
  MaxConnections = 2
  Reads <- OneRead
  Kinds <- PublishAndListen
INVARIANTS
  NoFrameIsForgotten
  InSendersOrder
