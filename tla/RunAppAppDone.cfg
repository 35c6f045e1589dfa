SPECIFICATION FairSpec
CONSTANTS
  Flows <- UntilApp
  Mortal = {"app"}
  DbFails = FALSE
  MaxInterrupts = 0
PROPERTY AppDoneStops
CHECK_DEADLOCK FALSE
