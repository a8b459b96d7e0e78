\* Two models: registry changes mixed with events about either, and enough
\* events to condemn one of them (an addition and five observations) and then
\* to readmit it or to restart.
SPECIFICATION Spec
CONSTANTS
  ModelId = {m1, m2}
  None = None
  MaxEvents = 7
  MaxRestarts = 1
SYMMETRY Symmetry
INVARIANTS
  TypeOK
  RegistryAgrees
  GarbageFlagFresh
  GarbageLastFailed
PROPERTIES
  HealthAccumulates
CHECK_DEADLOCK FALSE
