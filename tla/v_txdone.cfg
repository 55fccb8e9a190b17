CONSTANTS
  base = base
  rover = rover
  NoFrame = NoFrame
  Boards <- TwoBoards
  TBFP_RETX_TRY_MAX = 3
  SN_MOD = 16
  Loads <- ChunkAndPing
  Faults = 0
  Restarts = 0
  Restarting <- Nobody
SPECIFICATION Spec
PROPERTIES
  WaitAckOnlyAfterTxEnd
