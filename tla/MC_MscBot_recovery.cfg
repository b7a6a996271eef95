SPECIFICATION Spec
CONSTANTS
  Commands <- InCommands
  Size = 4
  Blocks = 3
  Reply = 3
  Depth = 2
  Word = 64
  Half = 16
  Troubles <- ClassReset
INVARIANT
  Answered
