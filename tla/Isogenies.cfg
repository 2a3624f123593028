SPECIFICATION Spec
CONSTANTS
  F = 7
  Width = 8
  Scalars = {0, 1, 2, 3, 4, 5, 6, 7, 8, 13, 44, 85, 127, 128, 170, 255}
  Exponents = {1, 2, 3, 7}
  Backtrackings = {0, 1, 2, 6}
  ChainLengths = {0, 1, 2, 3, 4, 5, 6, 7, 8, 9, 10, 11, 12, 13, 14, 15, 16, 17, 18, 19, 20, 21, 22, 23, 24, 25, 26, 27, 28, 29, 30, 31, 32, 33, 34, 35, 36, 37, 38, 39, 40}
INVARIANTS TypeOK LadderExact DifferencesKnown StrategyOrdersTrue SmallChainOutcome ThetaStrategySound FormsInOrder TailHasItsPair
PROPERTIES LoopsEnd ImplementsWalk
CHECK_DEADLOCK FALSE
