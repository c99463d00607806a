\* Two workers, two steps, a run that fails or times out and is resumed.

SPECIFICATION Spec

CONSTANTS
  NumSteps     = 2
  w1           = w1
  w2           = w2
  Worker       = {w1, w2}
  WorkerId     = {w1, w2}
  IdOf         <- OwnIds
  NoWorker     = nobody
  Person       = {"ann"}
  Idempotent   = {1}
  Abandons     <- Chain
  Failures     = {"poison"}
  MaxAttempts  = 1
  MaxDeferrals = 1
  BatchSize    = 1
  HasDeadline  = TRUE
  Cancellable  = FALSE
  MaxGroup     = 1
  MaxLosses    = 0
  MaxClaims    = 1
  MaxMessages  = 2

SYMMETRY Symmetric

INVARIANTS
  CountersAgree

PROPERTIES
  ImplementsFencing
  EndIsQuiet

\* A run that has ended leaves nothing to do.
CHECK_DEADLOCK FALSE
