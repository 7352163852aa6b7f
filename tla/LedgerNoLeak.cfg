\* Two arrivals race on two ceilings while a budget comes and goes, a window rolls and
\* ledger rows fail to be written; refusals, top-ups and a move leave nothing behind.
SPECIFICATION Spec
CONSTANTS
  u1 = u1
  u2 = u2
  c1 = c1
  c2 = c2
  c3 = c3
  r1 = r1
  r2 = r2
  r3 = r3
  Users = {u1}
  Ceilings = {c1, c2}
  Requests = {r1, r2}
  Sweeper = Sweeper
  NoCap = NoCap
  Cap <- PairCaps
  Rank <- MCRank
  UserOf <- MCUserOf
  Primary <- OnOwn
  Fallback <- OnC2
  Size <- MCSize
  Grown <- MCGrown
  FallbackUsd <- MCFallbackUsd
  ToolUsd = 1
  Uses <- MCUses
  Free = {}
  Exempt = {}
  Budgeted = {}
  Reassigned = {u1}
  Windowed = {c2}
  MaxChanges <- TwoChanges
  Faults = {"record"}
INVARIANTS
  CapRespected
  NothingStranded
  HandleMatchesRow
CHECK_DEADLOCK FALSE
