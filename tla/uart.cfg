CONSTANTS
  Messages <- Mixed
  MaxMessages = 3
  UART_FIFO_RX_SIZE = 1
  RTCM3_LEN_MOD = 8
  UBX_RX_FRAME_SIZE = 10
  NMEA_MSG_SIZE = 12
  Budgets <- OneOfEachOrTwoSwitches
SPECIFICATION Spec
CHECK_DEADLOCK FALSE
INVARIANTS
  TypeOK
  CorrectionFound
  UbxFrameFound
  SentenceFound
