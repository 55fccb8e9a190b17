CONSTANTS
  Payloads <- FalseStarts
  MaxFrames = 3
  TBFP_MAX_PAYLOAD = 6
  LORA_TX_BUFF_SIZE = 20
  MAX_LORA_PAYLOAD_SIZE = 5
  CrcByte = 0
  Restarts = 1
SPECIFICATION FairSpec
INVARIANTS
  TypeOK
  Resynchronises
PROPERTIES
  NothingStays
