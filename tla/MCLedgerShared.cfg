\* Two invocations that overlap in any way, one of them cut short.
SPECIFICATION Spec
CONSTANTS
  Event = {e1, e2}
  Process = {p1, p2}
  Torn = Torn
  MaxLen = 2
  MaxInterrupts = 1
SYMMETRY Symmetry
INVARIANTS
  TypeOK
  NoHybridHistory
