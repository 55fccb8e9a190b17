CONSTANTS
  reboot_cnt = reboot_cnt
  param = param
  a = a
  b = b
  c = c
  NoFile = NoFile
  NoCall = NoCall
  Ids <- TwoIds
  RebootCnt <- reboot_cnt
  Files <- TwoFiles
  FileLen <- EvenLen
  PageLen = 9
  PowerFails = 2
  MAX_FLASH_ZERO_SIZE = 26
SPECIFICATION Spec
INVARIANTS
  TypeOK
  Fits
PROPERTIES
  SetIsAtomic
  StaysFormatted
  OnlyActivePageWritten
SYMMETRY FileSymmetry
