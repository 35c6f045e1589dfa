SPECIFICATION Spec
CONSTANTS
  BatchDuration = 2
  MaxWrite = 1
  QueueSize = 2
  MaxSent = 5
  MaxTime = 8
INVARIANTS TypeOK WaitsBounded CountersFollow
PROPERTIES Collects
CHECK_DEADLOCK FALSE
