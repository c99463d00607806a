\* Two copies to each of two endpoints, whose senders do not wait.

SPECIFICATION Spec

CONSTANTS
  r1        = r1
  r2        = r2
  r3        = r3
  r4        = r4
  shop      = shop
  crm       = crm
  Request   = {r1, r2, r3, r4}
  NoRequest = none
  Endpoint  = {shop, crm}
  At        <- TwoEndpoints
  Patient   = FALSE
  MayDie    = TRUE

INVARIANTS
  OneStart
  AnsweredIsStarted
  HandedOffAlone
  RecordStandsForWork

PROPERTIES
  ImplementsOneRun

\* Once every copy is answered there is nothing to do.
CHECK_DEADLOCK FALSE
