\* A budgeted user's request beside one whose row, on ceilings alone, may fail to be written:
\* top-ups, moves that keep, add and drop a ceiling, deaths, failing statements and commits,
\* commits that misreport, outlived rows.
SPECIFICATION Spec
CONSTANTS
  u1 = u1
  u2 = u2
  c1 = c1
  c2 = c2
  c3 = c3
  r1 = r1
  r2 = r2
  r3 = r3
  Users = {u1, u2}
  Ceilings = {c1, c2, c3}
  Requests = {r1, r2}
  Sweeper = Sweeper
  NoCap = NoCap
  Cap <- TightCaps
  Rank <- ThreeRank
  UserOf <- OwnUser
  Primary <- WideC1
  Fallback <- OnTail
  Size <- MCSize
  Grown <- MCGrown
  FallbackUsd <- MCFallbackUsd
  ToolUsd = 1
  Uses <- MCUses
  Free = {}
  Exempt = {}
  Budgeted = {u2}
  Reassigned = {}
  Windowed = {}
  MaxChanges <- OneChange
  Faults = {"crash", "db", "record", "outlive"}
INVARIANTS
  HoldsCovered
  BilledOnce
PROPERTIES
  ImplementsSettlement
CHECK_DEADLOCK FALSE
