SPECIFICATION Spec
CONSTANTS
  Distances <- MCDistances
  Rssis <- MCRssis
  MaxSamples = 4
INVARIANTS
  TypeOK
  MajorityRules
  DriftBounded
  MostlyStrong
