\* One invocation at a time, and every save reaches its end.
SPECIFICATION Spec
CONSTANTS
  Event = {e1, e2}
  Process = {p1}
  Torn = Torn
  MaxLen = 4
  MaxInterrupts = 0
INVARIANTS
  SavedHistorySurvives
PROPERTIES
  ImplementsAppendOnlyLog
