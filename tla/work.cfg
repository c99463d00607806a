\* Two workers, two steps, the second not idempotent and run or not; one crash or
\* lost queue, one cancellation.

SPECIFICATION Spec

CONSTANTS
  NumSteps     = 2
  w1           = w1
  w2           = w2
  Worker       = {w1, w2}
  WorkerId     = {w1, w2}
  IdOf         <- OwnIds
  NoWorker     = nobody
  Person       = {}
  Idempotent   = {1}
  Abandons     <- Detour
  Failures     = {"timeout", "rate_limited"}
  MaxAttempts  = 2
  MaxDeferrals = 1
  BatchSize    = 1
  HasDeadline  = FALSE
  Cancellable  = TRUE
  MaxGroup     = 0
  MaxLosses    = 1
  MaxClaims    = 2
  MaxMessages  = 2

SYMMETRY Symmetric

INVARIANTS
  TypeOK
  Fence
  BudgetLeft
  DeadLettersTell
  CountersAgree
  VerdictJustified

PROPERTIES
  ImplementsFencing
  NothingUnspent
  EndedStaysEnded
  EndIsQuiet
  StartsInOrder

\* A run that has ended leaves nothing to do.
CHECK_DEADLOCK FALSE
