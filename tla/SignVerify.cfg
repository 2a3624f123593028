SPECIFICATION Spec
CONSTANTS
  F = 7
  E = 4
  MaxIters = 2
  MaxTries = 2
  WordBits = 4
  ByteBits = 3
  Norms = {9}
  Chls = {1, 2}
  Bases <- MCBases
INVARIANTS TypeOK DegreesInRange SplitKernelExact EvenKernelExact ChallengeKernelExact SurvivesTheWire VerifyShiftsFit SignedIsAccepted
CHECK_DEADLOCK FALSE
