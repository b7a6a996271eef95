SPECIFICATION FairSpec
CONSTANTS
  v1 = v1
  v2 = v2
  Erased = Erased
  Junk = Junk
  Versions <- MC_Versions
  R = 5
  W = 3
  CksNotVld = TRUE
  Troubles <- AllTroubles
INVARIANTS
  TypeOK
  InStep
  StoredSoFar
  RunsOnlyComplete
PROPERTY
  UpgradeRuns
  ImplementsInstaller
