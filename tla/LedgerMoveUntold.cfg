\* A move lands, reports a failure, and cannot be told to have landed.
SPECIFICATION Spec
CONSTANTS
  u1 = u1
  u2 = u2
  c1 = c1
  c2 = c2
  c3 = c3
  r1 = r1
  r2 = r2
  r3 = r3
  Users = {u1}
  Ceilings = {c1, c2}
  Requests = {r1, r2}
  Sweeper = Sweeper
  NoCap = NoCap
  Cap <- TightCaps
  Rank <- MCRank
  UserOf <- MCUserOf
  Primary <- OnC1
  Fallback <- OnC2
  Size <- MCSize
  Grown <- MCGrown
  FallbackUsd <- MCFallbackUsd
  ToolUsd = 1
  Uses <- MCUses
  Free = {}
  Exempt = {}
  Budgeted = {}
  Reassigned = {}
  Windowed = {}
  MaxChanges <- OneChange
  Faults = {"db"}
INVARIANTS
  RunningHeld
CHECK_DEADLOCK FALSE
