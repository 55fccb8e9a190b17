CONSTANTS
  base = base
  rover = rover
  NoFrame = NoFrame
  Boards <- TwoBoards
  TBFP_RETX_TRY_MAX = 3
  SN_MOD = 3
  Loads <- ThreeChunks
  Faults = 1
  Restarts = 1
  Restarting <- TheBase
SPECIFICATION Spec
INVARIANTS
  TypeOK
  InOrderOnce
  FreshAck
  GivesUpAfterAllTries
  IdleMeansSettled
