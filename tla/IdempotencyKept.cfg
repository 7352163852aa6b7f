SPECIFICATION Spec
CHECK_DEADLOCK FALSE
CONSTANTS
  r1 = r1
  r2 = r2
  r3 = r3
  NoOne = NoOne
  Requests = {r1, r2}
  Hash <- OneBody
  Unstorable = {}
  Lease = 8
  Cadence = 3
  Shortest = 1
  Retention = 20
  Slack = 1
  MaxOutages = 1
  Faults = {"crash", "cancel"}
  MaxClock = 9
SYMMETRY Alike
INVARIANTS
  OwnerKept
  OutageNeeded
  BilledOnce
