SPECIFICATION FairSpec
CONSTANTS
  Commands <- AllCommands
  Size = 4
  Blocks = 3
  Reply = 3
  Depth = 2
  Word = 64
  Half = 16
  Troubles <- BothResets
INVARIANTS
  TakesNext
  TypeOK
  StatusIsTrue
  MediaInOrder
PROPERTY
  CommandEnds
  SenseFresh
  ImplementsDisk
