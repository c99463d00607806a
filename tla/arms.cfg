\* Two workers, a fork with two arms; nothing fails, is lost or lapses early.

SPECIFICATION Spec

CONSTANTS
  NumSteps     = 3
  w1           = w1
  w2           = w2
  Worker       = {w1, w2}
  WorkerId     = {w1, w2}
  IdOf         <- OwnIds
  NoWorker     = nobody
  Person       = {}
  Idempotent   = {1, 3}
  Abandons     <- Fork
  Failures     = {}
  MaxAttempts  = 2
  MaxDeferrals = 2
  BatchSize    = 1
  HasDeadline  = FALSE
  Cancellable  = FALSE
  MaxGroup     = 0
  MaxLosses    = 0
  MaxClaims    = 0
  MaxMessages  = 2

SYMMETRY Symmetric

INVARIANTS
  OneArmRuns

\* A run that has ended leaves nothing to do.
CHECK_DEADLOCK FALSE
