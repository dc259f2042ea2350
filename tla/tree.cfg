SPECIFICATION Spec
CONSTANTS
  Entities = {1, 2, 3, 4}
  Founders = {1, 2, 3}
  Mortal = {3}
  SpotsOf <- MCSpotsOf
  Ray <- MCRay
  StackSize = 4
  Ranges = {1, 2, 3, 5}
  MaxRewinds = 1
INVARIANTS WellFormed QueriesComplete OneLeafEach
PROPERTY IndexSpec
