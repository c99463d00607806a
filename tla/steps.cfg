\* Every small address, two attempts and one deferral, a client with and one without redirects.

SPECIFICATION Spec

CONSTANTS
  ByteBits      = 2
  ZeroBytes     = 2
  OnesBytes     = 1
  V4Bytes       = 1
  Blocked       <- BlockedRanges
  Allowed       <- AllowedRanges
  MetadataTexts <- Metadata
  HostRules     <- Rules
  Schemes       = {"https"}
  Ports         = {443, 8443}
  Locations     <- Urls
  Answers       <- Names
  Statuses      = {200, 204, 303, 429, 503}
  Timeout       = 1
  MaxBytes      = 1
  BaseMs        = 2
  CapMs         = 3
  Steps         <- AllSteps
  MaxRedirects  = 1
  SmtpAllowed   = {"@shop"}
  Replies       = {450, 550}
  Drops         = {"transient", "other"}
  AiAnswers     <- Models
  MaxAttempts   = 2
  MaxDeferrals  = 2

INVARIANTS
  TypeOK
  PinnedIsPermitted
  SecretsStayHome
  AskedOnce
  WaitsBounded
  AnswerFits
  AlwaysTimed

\* A settled step does nothing more.
CHECK_DEADLOCK FALSE
