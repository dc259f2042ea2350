SPECIFICATION Spec
CONSTANTS
  barracks = barracks
  tower = tower
  unit = unit
  upgrade = upgrade
  None = None
  Producers = {barracks, tower}
  Productions = {unit, upgrade}
  Makes <- MakesOf
  Cost <- CostOf
  Price <- CostOf
  Duration <- DurationOf
  Stock = 3
  MaxQueue = 2
  MaxInputs = 2
  MaxStock = 4
PROPERTY GivenBackOnce
