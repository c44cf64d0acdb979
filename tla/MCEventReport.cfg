SPECIFICATION Spec
CONSTANTS
  Reports <- AnyThenFew
  NameOrder <- Names
INVARIANTS
  FramesArrive
  BodiesSurvive
  EventsStaySorted
  SummaryCountsWhatWasSent
CHECK_DEADLOCK FALSE
