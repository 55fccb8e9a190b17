CONSTANTS
  Undef = Undef
  APP_LAYNCH_TRY = 5
  PowerFails = 8
SPECIFICATION FairSpec
INVARIANTS
  TypeOK
  LaunchesBounded
PROPERTIES
  StopsOnlyAfterResets
  HangingAppIsStoppedUnlessFull
