\* Two models that may be configured and a name only responses use, and so
\* many invocations that a model becomes garbage and is routed past.  One of
\* the first saves may be cut short: the second has a history to lose.  No
\* symmetry, which is unsound for liveness.
SPECIFICATION Spec
CONSTANTS
  ModelId = {m1, m2, alias}
  Configurable = {m1, m2}
  None = None
  Latency = {20000}
  MaxRuns = 4
  MaxCuts = 1
  LastCut = 2
INVARIANTS
  TypeOK
  ChainStaysSound
  FailuresBalance
  InflightBounded
PROPERTIES
  RouteEnds
  FailureCosts
  SavedHealthGrows
  GarbageStaysUntried
CHECK_DEADLOCK FALSE
