\* Two processes, two flows; flows are published while their runs are under
\* way, and processes die and start again.
SPECIFICATION Spec
CONSTANTS
  Procs = {p, q}
  Flows = {f, g}
  Default = f
  Drawing <- MCDrawing
  Builtin = "note"
  VersionIds = {1, 2}
  Deliveries = {d}
  Readings <- MCReadings
  MaxLosses = 1
  Quote <- MCQuote
  Number <- MCNumber
INVARIANTS TypeOK HistoryIsItsOwn NewRunsAreCurrent
SYMMETRY MCSymmetry
CHECK_DEADLOCK FALSE
