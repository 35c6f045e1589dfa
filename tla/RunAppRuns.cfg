SPECIFICATION FairSpec
CONSTANTS
  Flows <- AllKinds
  Mortal = {"mon", "app", "gen", "snf"}
  DbFails = TRUE
  MaxInterrupts = 1
INVARIANTS TypeOK NobodyForgotten StopsForAReason
PROPERTIES StopEnds TrafficDoneStops
CHECK_DEADLOCK FALSE
