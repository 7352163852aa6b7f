SPECIFICATION Spec
CHECK_DEADLOCK FALSE
CONSTANTS
  r1 = r1
  r2 = r2
  r3 = r3
  NoOne = NoOne
  Requests = {r1, r2, r3}
  Hash <- TwoBodies
  Unstorable = {r3}
  Lease = 2
  Cadence = 1
  Shortest = 1
  Retention = 1
  Slack = 0
  MaxOutages = 1
  Faults = {"crash", "rotate"}
  MaxClock = 3
INVARIANTS
  ReplaySound
PROPERTIES
  StoredKept
  ClaimFenced
