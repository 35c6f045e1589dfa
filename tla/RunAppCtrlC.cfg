SPECIFICATION Spec
CONSTANTS
  Flows <- OneUsual
  Mortal = {}
  DbFails = FALSE
  MaxInterrupts = 1
INVARIANT InterruptIsHandled
CHECK_DEADLOCK FALSE
