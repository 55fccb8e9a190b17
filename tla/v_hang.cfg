CONSTANTS
  Undef = Undef
  APP_LAYNCH_TRY = 5
  PowerFails = 0
SPECIFICATION FairSpec
PROPERTIES
  HangingAppIsStopped
