SPECIFICATION Spec
CONSTANTS
  Distances <- MCDistances
  Rssis <- MCRssis
  MaxSamples = 4
INVARIANT
  ClosestToMedian
