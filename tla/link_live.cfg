CONSTANTS
  base = base
  rover = rover
  NoFrame = NoFrame
  Boards <- TwoBoards
  TBFP_RETX_TRY_MAX = 2
  SN_MOD = 16
  Loads <- Ending
  Faults = 0
  Restarts = 0
  Restarting <- Nobody
SPECIFICATION FairSpec
INVARIANTS
  RelayedAtMostLifetimeTimes
PROPERTIES
  Settles
  QueueDrains
  FallsSilent
