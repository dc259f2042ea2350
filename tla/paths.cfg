SPECIFICATION FairSpec
CONSTANTS
  Width = 5
  NbTiles = 15
  TileSize = 4
  One = 10000
  MaxRun = 1
  Grids <- Blocks
  Queries <- AskedAround
  MaxRevision = 1
  MaxRequests = 2
INVARIANTS TypeOK TablesLead PathsAreBest SightIsClear
PROPERTY Answered
