\* Both products, promoted, rolled back and resynced while they are reconciled.
CONSTANTS
  east = east  west = west
  Clusters = {east, west}
  Home = east
  Products = {"mysql", "valkey"}
  MaxActions = 2
  MaxEdits = 1
  MaxLag = 1
  MaxFaults = 1
SPECIFICATION FairSpec
INVARIANTS TypeOK ResyncBlocksPromotion  
PROPERTY EventuallyMaterialized
