SPECIFICATION Spec
CONSTANTS
  windup = windup
  hitpoint = hitpoint
  command = command
  buff = buff
  Slots = {windup}
  Values = {0, 1}
  WrittenBy <- EngineWrittenBy
  Kept = 0
  MaxSteps = 1
  MaxFrames = 2
  MaxRevert = 2
INVARIANT RevertRestores
