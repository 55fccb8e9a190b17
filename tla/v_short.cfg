CONSTANTS
  reboot_cnt = reboot_cnt
  param = param
  a = a
  b = b
  c = c
  NoFile = NoFile
  NoCall = NoCall
  Ids <- TwoIds
  RebootCnt <- reboot_cnt
  Files <- TwoFiles
  FileLen <- ShortLen
  PageLen = 11
  PowerFails = 0
  MAX_FLASH_ZERO_SIZE = 26
SPECIFICATION Spec
PROPERTIES
  SetIsAtomic
