\* One job of every kind, created and read by two requests at once.
SPECIFICATION Spec
CONSTANTS
  Jobs = {j1}
  Handlers = {h1, h2}
  Nobody = Nobody
  MaxFaults = 3
  MaxReprices = 2
INVARIANTS
  BilledOnce
  RowsTrue
  ServedBilled
PROPERTIES
  HandlersEnd
CHECK_DEADLOCK FALSE
