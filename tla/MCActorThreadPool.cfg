SPECIFICATION FairSpec
CONSTANTS
  Act = {h1, h2}
  Worker = {w1, w2}
  Submitter = {selector}
  Nobody = Nobody
  MaxTasks = 3
INVARIANTS
  PoolInv
  NobodyIsForgotten
PROPERTIES
  ImplementsMailbox
  EveryTaskRuns
