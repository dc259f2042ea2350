SPECIFICATION Spec
CONSTANTS
  Width = 3
  NbTiles = 9
  TileSize = 4
  One = 10000
  MaxRun = 1
  Grids <- Walls
  Queries <- AskedAcross
  MaxRevision = 1
  MaxRequests = 2
INVARIANT NextIsBeside
