SPECIFICATION Spec
CONSTANTS
  Garbled = Garbled
  Message32 <- AnyMessage32
  Own = {1, 2}
  Peers = {3}
  First <- OwnOnly
  Committee <- MCCommittee
  SubnetCount = 2
  SlotsPerEpoch = 2
  EpochsPerPeriod = 1
  AttestsIn <- MCAttestsIn
  Aggregates <- MCAggregates
  Proposer <- MCProposer
  Forgers <- MCForgers
  Forgeries <- MCForgeries
  CommitteeLength = 4
  MaxCommittees = 4
  LastThird = 6
  MaxOffers = 1
  MaxRow = 2
  MaxFaults = 1
INVARIANT NoDoubleVote
CHECK_DEADLOCK FALSE
