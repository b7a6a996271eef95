SPECIFICATION FairSpec
CONSTANTS
  APP_SIZE = 114688
  Clusters <- MC_Clusters
  Chains <- MC_Chains
  Names = {2, 14}
INVARIANTS TypeOK ChainInside ReadBack ParserGets
PROPERTY ChainEnds
