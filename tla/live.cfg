\* Two workers, crashes, a lost queue, a resume.

SPECIFICATION FairSpec

CONSTANTS
  NumSteps     = 1
  w1           = w1
  w2           = w2
  Worker       = {w1, w2}
  WorkerId     = {w1, w2}
  IdOf         <- OwnIds
  NoWorker     = nobody
  Person       = {"ann"}
  Idempotent   = {1}
  Abandons     <- Chain
  Failures     = {"transient_network"}
  MaxAttempts  = 2
  MaxDeferrals = 1
  BatchSize    = 1
  HasDeadline  = FALSE
  Cancellable  = FALSE
  MaxGroup     = 1
  MaxLosses    = 1
  MaxClaims    = 2
  MaxMessages  = 2

PROPERTIES
  AlwaysStops

\* A run that has ended leaves nothing to do.
CHECK_DEADLOCK FALSE
