\* A finished batch whose usage row the log writer loses.
SPECIFICATION Spec
CONSTANTS
  Jobs = {j1}
  Handlers = {h1, h2}
  Nobody = Nobody
  MaxFaults = 1
  MaxReprices = 1
INVARIANTS
  BatchLogged
CHECK_DEADLOCK FALSE
