\* A user who does not wait for a save: another flow is opened while a save is under way.
SPECIFICATION Spec
CONSTANTS
  Flows = {f, g}
  Default = f
  StepIds = {t, a, b}
  Trigger = t
  Kinds = {"http"}
  Forms <- MCForms
  Limit = 2
  Left <- MCLeft
  Waits = {"load", "answer"}
  MaxEdits = 2
  MaxOpens = 2
  MaxFails = 1
  MaxVersions = 1
  MaxMoves = 4
INVARIANT DraftsStayHome
CHECK_DEADLOCK FALSE
