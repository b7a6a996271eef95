SPECIFICATION Spec
CONSTANTS
  v1 = v1
  v2 = v2
  Erased = Erased
  Junk = Junk
  Versions <- MC_Versions
  R = 5
  W = 3
  CksNotVld = FALSE
  Troubles <- DirectoryOnly
INVARIANT
  SelfResetComplete
