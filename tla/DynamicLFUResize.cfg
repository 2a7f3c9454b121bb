SPECIFICATION Spec
CONSTANTS
  Keys = {k1, k2, k3}
  MaxFreq = 3
  Capacity = 3
  MaxFactor = 1
  Sizes = {1}
  Controllers = {"default"}
  LoadFactor = 90
  LowWaterMark = 30
  GrowFactor = 200
  ShrinkFactor = 50
INVARIANT ResizeEnds
CHECK_DEADLOCK FALSE
