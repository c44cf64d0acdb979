SPECIFICATION FairSpec
CONSTANTS
  MaxConnections = 1
  Reads <- ThreeReads
  Kinds <- TwoOfAnyKind
INVARIANTS
  ReactorInv
PROPERTIES
  OnlyExceptionsTearFrames
  WhatIsReadIsProcessed
  WhatIsQueuedIsWritten
