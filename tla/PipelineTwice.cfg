\* A settlement lands and reports a failure, and the request has no ledger row.
SPECIFICATION Spec
CONSTANTS
  ModelCost = 2
  Partial = 1
  Estimate = 4
  ToolCost = 3
  VisionCost = 1
  MaxFaults = 1
INVARIANTS
  SpentOnce
CHECK_DEADLOCK FALSE
