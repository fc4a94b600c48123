\* Entries from everywhere, on machines from too small to ample.
CONSTANTS
  small = small
  fast = fast
  big = big
  huge = huge
  waste = waste
  other = other
  q2 = q2
  q4 = q4
  q8 = q8
  Model = {small, fast, big, huge, waste, other}
  Quant = {q2, q4, q8}
  Catalog <- MCCatalog
  DefaultModel = small
  Tiers = {16, 24, 48}
  Unknown = unknown
  Machine <- MCMachine
  Ctx = {10, 40, 200}
  FirstPort = 1
  LastPort = 4
  Gateway = 2
  LargestCtx = 128
  Plan <- MCPlan
  PlanBudget = {12, 20, 27, 40}
SPECIFICATION Spec
INVARIANT
  EachFitsSeparately
