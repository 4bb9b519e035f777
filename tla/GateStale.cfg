CONSTANTS
  Plan <- MCPlan
  Retries = 2
  NSelftests = 1
  GenMayFail = TRUE
SPECIFICATION Spec
INVARIANT GreenAlwaysDecoded
