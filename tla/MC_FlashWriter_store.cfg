SPECIFICATION FairSpec
CONSTANTS
  FLASH_BASE = 8
  DEV_FLASH_SIZE = 12
  APP_OFFSET = 4
  FLASH_PAGE_SIZE = 4
  ADDRESS_SPACE = 32
  ERASED = 3
  AES_BLOCKLEN = 4
  Records <- WrapRecords
  Images <- MC_Images
INVARIANTS
  TypeOK
  RecordStored
  OutsideIgnored
  FirstRecordErases
  LockDiscipline
PROPERTIES
  BootloaderUntouched
  CallReturns
