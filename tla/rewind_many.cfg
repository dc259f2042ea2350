SPECIFICATION Spec
CONSTANTS
  windup = windup
  hitpoint = hitpoint
  command = command
  buff = buff
  Slots = {windup, hitpoint}
  Values = {0, 1}
  WrittenBy <- SingleWrittenBy
  Kept = 2
  MaxSteps = 2
  MaxFrames = 4
  MaxRevert = 3
INVARIANTS TypeOK RevertRestores SanityCheck RetentionBound
PROPERTY TimelineSpec
