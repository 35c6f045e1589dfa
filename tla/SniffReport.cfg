SPECIFICATION Spec
CONSTANTS
  SeqMod = 5
  TsMod = 3
  Window = 3
  MaxInFlight = 3
  MaxTime = 4
  MaxReports = 5
INVARIANTS TypeOK LossClosedForm LossExact RateInRange SnifferSurvives LatencyExact WindowFull
CHECK_DEADLOCK FALSE
