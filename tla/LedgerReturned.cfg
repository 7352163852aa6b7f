\* Liveness of the sweeper, under faults.
SPECIFICATION FairSpec
CONSTANTS
  u1 = u1
  u2 = u2
  c1 = c1
  c2 = c2
  c3 = c3
  r1 = r1
  r2 = r2
  r3 = r3
  Users = {u1}
  Ceilings = {c1}
  Requests = {r1, r3}
  Sweeper = Sweeper
  NoCap = NoCap
  Cap <- TightCaps
  Rank <- OneRank
  UserOf <- MCUserOf
  Primary <- OnC1
  Fallback <- OnC1
  Size <- MCSize
  Grown <- MCGrown
  FallbackUsd <- MCFallbackUsd
  ToolUsd = 1
  Uses <- MCUses
  Free = {r3}
  Exempt = {r3}
  Budgeted = {u1}
  Reassigned = {}
  Windowed = {}
  MaxChanges <- OneChange
  Faults = {"crash", "db", "outlive"}
PROPERTIES
  HoldsReturned
CHECK_DEADLOCK FALSE
