SPECIFICATION Spec
CHECK_DEADLOCK FALSE
CONSTANTS
  r1 = r1
  r2 = r2
  r3 = r3
  NoOne = NoOne
  Requests = {r1, r2}
  Hash <- OneBody
  Unstorable = {}
  Lease = 4
  Cadence = 1
  Shortest = 1
  Retention = 9
  Slack = 0
  MaxOutages = 0
  Faults = {}
  MaxClock = 4
INVARIANTS
  KeyBilledOnce
