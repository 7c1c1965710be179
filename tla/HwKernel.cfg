SPECIFICATION Spec
CONSTANTS
  LocWidth = 1
  CounterWidth = 3
  WordWidth = 4
  PRINT_ON_STOP = TRUE
  MaxLatency = 2
  FloatDot <- SmallFloatDot
  Kernels <- SmallKernels
  Plans <- SmallPlans
  Vectors <- SmallVectors
INVARIANTS EveryCycleCharged MarkersCounted AssertsHold DotExact CollectedIsFinal ReportedOnReturn
PROPERTY Returns
CHECK_DEADLOCK FALSE
