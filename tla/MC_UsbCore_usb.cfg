SPECIFICATION FairSpec
CONSTANTS
  Addresses = {1}
  Requests <- EveryKind
  Upsets = 3
INVARIANTS TypeOK ConfiguredIsOpen Agrees AnswersAll
PROPERTY Recovers
