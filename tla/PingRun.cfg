SPECIFICATION FairSpec
CONSTANTS
  NRuns = 2
  Plans <- FourPlans
  MaxSeq = 1
  NoLimit = NoLimit
  MaxPackets = 3
INVARIANTS TypeOK OwnAnswers CountIsAnswered Crosswise
PROPERTIES PingRunsOut PingRunEnds
CHECK_DEADLOCK FALSE
