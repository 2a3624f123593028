SPECIFICATION Spec
CONSTANTS
  LimbBits = 3
  XgcdWidths = {2}
  NewtonBits = 14
  TrialWords <- MCTrialWords
  Witnesses <- MCWitnesses
  PrimeWidths = {2}
  NormWidths = {2}
  N = 3
  LimbValues <- MCLimbValues
  Magnitudes <- MCMagnitudes
  Moduli <- MCModuli
  Residues <- MCResidues
  Primes <- MCPrimes
  Candidates <- MCCandidates
  Beta = 1
  Alpha = 17
  Format51 <- MCFormat51
  Format64 <- MCFormat64
  Format26 <- MCFormat26
  Format29 <- MCFormat29
  Lanes <- MCLanes
  LowLimbs29 = 3
  Elements <- MCElements
  Depth = 3
  PowerBases <- MCPowerBases
  ExponentModuli <- MCExponentModuli
  Ramified = 31
  NarrowBound = 64
  Families <- MCFamilies
  Multiples <- MCMultiples
  Matrices <- MCMatrices
  Members <- MCMembers
  Samples <- MCSamples
  Widest = 300000
  MaxIter = 3
  Connections <- MCConnections
  Generators <- MCGenerators
  Orders <- MCOrders
  Represented <- MCRepresented
  PrimeNorms = {3, 5}
  CompositeNorms = {3}
  Edges <- MCEdges
  Cofactor = 29
  MaxDraws = 2
  MaxTaxicab = 2
  EquivBound = 1
  Largest <- MCLargest
  TopK = 16
  Alternates <- MCAlternates
  BoxSize = 2
  MaxWalk = 4
  LowBits = 3
  TorsionPowers = {2, 3, 4, 5, 6}
  EvenPower = 8
  ScalarLimbBits = 4
  Window = 2
  HintLimit = 8
  MaxTries = 16
  BasisE0P <- MCBasisE0P
  BasisE0Q <- MCBasisE0Q
  Curves <- MCCurves
  Coefficients <- MCCoefficients
  Presentations <- MCPresentations
  Points <- MCPoints
  Kernels <- MCKernels
  Levels <- MCLevels
  ScalarValues <- MCScalarValues
  Entries <- MCEntries
INVARIANT MontSquareExact
