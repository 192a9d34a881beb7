SPECIFICATION MCSpec
CONSTANTS
  a = a
  b = b
  c = c
  Hash <- MCHash
  Root = a
  Cases <- MCSmallCases
  MaxSteps = 2
  Sims = 4
  MaxConsidered = 3
  Rejected = Rejected
  None = None
INVARIANTS TreeSound ReferencesSound ElectionsSound ProjectionMatchesSearch BaselinesSound RewritesSound
PROPERTY SearchEnds
