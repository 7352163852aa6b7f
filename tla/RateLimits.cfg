SPECIFICATION Spec
CONSTANTS
    a = a
    b = b
    p1 = p1
    p2 = p2
    user = user
    all = all
    mm = mm
    m = m
    Requests = {a, b}
    Procs = {p1, p2}
    ProcOf <- OnBoth
    Shared = TRUE
    Rules = {user, all, mm}
    Per <- PerRule
    Counts <- CountsOf
    Dims <- DimsOf
    Limit <- Limits
    Report = {user}
    OnUse = {user}
    Models = {m}
    Plan <- Plans
    Names <- NamesOf
    Estimate <- Guess
    Used <- Spent
    Window = 1
    LeaseSec = 1
    RetryAfter = 1
    Faults = {"outage", "late", "cancel", "crash"}
    MaxFaults = 1
INVARIANTS
  Consistent
  WindowsExact
  RefusedUncounted
  TokensTrue
CHECK_DEADLOCK FALSE
