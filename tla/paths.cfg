\* One process and two flows with branches, in one flow of the catalogue: every
\* order in which steps are sent for, claimed, recorded and advanced.
SPECIFICATION Spec
CONSTANTS
  Procs = {p}
  Flows = {f}
  Default = f
  Drawing <- MCBranches
  Builtin = "nested"
  VersionIds = {1, 2}
  Deliveries = {d}
  Readings <- MCReadings
  MaxLosses = 0
  Quote <- MCQuote
  Number <- MCNumber
INVARIANT OnlyUnfinishedMissed
PROPERTY OnlyPathRuns
CHECK_DEADLOCK FALSE
