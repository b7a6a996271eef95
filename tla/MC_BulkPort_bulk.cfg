SPECIFICATION FairSpec
CONSTANTS
  MaxPacket = 2
  Media = 6
  Commands <- MC_Commands
INVARIANTS TypeOK Delivered TxComplete
PROPERTY Answered
