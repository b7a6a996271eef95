SPECIFICATION Spec
CONSTANTS
  Sizes <- MC_Sizes
  Alphabet <- RecordAlphabet
  Scratch <- MC_Scratch
  IHEX_DATA_SIZE = 2
  AES_BLOCKLEN = 2
CONSTRAINT
  Noise
INVARIANTS
  TypeOK
  BufferSafe
  CallbackLengthExact
  DeliveryExact
  ChecksumInStep
PROPERTY
  ModesChangeByRecord
