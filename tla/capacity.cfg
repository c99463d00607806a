\* Two workers, three runs of two flows; workers stop, die and are slow.
SPECIFICATION Spec
CONSTANTS
  Workers = {v, w}
  a1 = a1
  a2 = a2
  b1 = b1
  Steps = {a1, a2, b1}
  TenantOf <- MCTenantOf
  FlowOf <- MCFlowOf
  PerTenant = 2
  PerFlow = 1
  Stopped = {v}
  BatchSize = 1
  MaxJobs = 1
  MaxLosses = 1
INVARIANT CeilingsHold
PROPERTY EveryStepRuns
CHECK_DEADLOCK FALSE
