SPECIFICATION Spec
CONSTANTS
    r1 = r1
    r2 = r2
    x = x
    y = y
    z = z
    s1 = s1
    Requests = {r1, r2}
    Candidates = {x, y, z}
    PlanOf <- Plans
    Sessions = {s1}
    Session <- SameSession
    Streamed = {r2}
    Need <- Costs
    MaxHealth = 1
INVARIANTS
  Consistent
  RowsTrue
  StoppedTrue
  ModelsFreed
PROPERTIES
  NoFallover
CHECK_DEADLOCK FALSE
