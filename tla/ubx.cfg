CONSTANTS
  UBX_SEND_TRY = 2
  NormCfgLut <- Norm
  BaseCfgLut <- Base
  RoverCfgLut <- Rover
  RateLut <- Rates
  RESET = "reset"
  Key <- Keys
  Setting <- Settings
  Environments <- Surroundings
SPECIFICATION FairSpec
INVARIANTS
  TypeOK
  HeardSinceSent
  
  RoverConfirmedOnlyUnderNone
PROPERTIES
  SetupsReturn
CHECK_DEADLOCK FALSE
