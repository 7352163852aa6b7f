\* Every kind of request, every ending, up to three failures on the way.
SPECIFICATION Spec
CONSTANTS
  ModelCost = 2
  Partial = 1
  Estimate = 4
  ToolCost = 3
  VisionCost = 1
  MaxFaults = 3
INVARIANTS
  SpendTrue
  FundsBacked
  LetGo
PROPERTIES
  ImplementsSettlement
  HoldEnds
CHECK_DEADLOCK FALSE
