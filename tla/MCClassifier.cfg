\* Lengths on either side of each limit; up to four keywords of any lists.
SPECIFICATION PromptSpec
CONSTANTS
  Tokens = {0, 4, 5, 41, 25002}
  MaxMarkers = 4
  Opening <- MCOpening
  NoTier = NoTier
INVARIANTS
  PromptTypeOK
  AlwaysDecided
PROPERTIES
  KeywordsPull
CHECK_DEADLOCK FALSE
