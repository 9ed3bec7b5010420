SPECIFICATION FairSpec
CONSTANTS
  Width = 4
  Seeds <- TwoSeeds
  PrimePairs <- TwoPairs
  Roots = {2, 3}
  Goals <- SomeEpochs
  MaxAge = 5
INVARIANTS BindingFindsSigner
