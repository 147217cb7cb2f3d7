SPECIFICATION FairSpec
CONSTANTS
  Spans <- MCSpans
  Dists <- MCDists
  MaxLsn = 3
  MaxLoss = 1
INVARIANTS InStep PointsMeasured
PROPERTIES Recovers
