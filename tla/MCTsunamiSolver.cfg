\* Four steps sampled every second one, checkpointed every second one, two crashes.
SPECIFICATION FairSolver
CONSTANTS
  IA = 4
  JA = 5
  KE = 4
  KD = 2
  CheckpointInterval = 2
  Depth <- MCDepth
  Deform <- MCDeform
  Gauges <- MCGauges
  RX <- MCRX
  CJ <- MCCJ
  RY = 1
  GG = 1
  Half = 50
  Flush = 2
  Floor = 4
  MaxCrashes = 2
INVARIANTS
  MatchesReference
PROPERTIES
  EventuallyWritten
CHECK_DEADLOCK FALSE
