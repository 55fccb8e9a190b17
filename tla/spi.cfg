CONSTANTS
  CNT_MOD = 5
  Transfers <- FewTransfers
SPECIFICATION FairSpec
INVARIANTS
  TypeOK
  TrueMeansMoved
  UnderOwnSelect
  DoneFlagComesBack
  MovedIsReported
PROPERTIES
  AccessesReturn
