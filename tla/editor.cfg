\* A user who waits for what is under way, on two flows, with a storage that
\* may be full: edits, drags, undo, the debounce timer, blur, publishing,
\* archiving, and the runs of each flow.
SPECIFICATION Spec
CONSTANTS
  Flows = {f, g}
  Default = f
  StepIds = {t, a, b}
  Trigger = t
  Kinds = {"http"}
  Forms <- MCForms
  Limit = 2
  Left <- MCLeft
  Waits = {"load", "save", "answer"}
  MaxEdits = 2
  MaxOpens = 2
  MaxFails = 1
  MaxVersions = 1
  MaxMoves = 4
INVARIANTS TypeOK GraphsSound SavedIsReceived DraftsStayHome ShowsItsOwn
SYMMETRY MCSymmetry
CHECK_DEADLOCK FALSE
