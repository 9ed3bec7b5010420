SPECIFICATION FairSpec
CONSTANTS
  Width = 4
  Seeds <- TwoSeeds
  PrimePairs <- ManyPairs
  Roots = {2, 3, 14}
  Goals <- SomeEpochs
  MaxAge = 5
INVARIANTS TypeOK SeekFindsSigner
PROPERTIES SeekEnds ChainSpec
