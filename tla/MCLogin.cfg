SPECIFICATION Spec
CONSTANTS
  Login = {l1, l2, l3}
  MAX_FAILED_LOGINS = 5
  LOGIN_WINDOW_SECS = 4
  LOGIN_LOCK_SECS = 6
INVARIANTS
  TypeOK
  FailuresLock
  AttemptsBounded
PROPERTY
  LockEnds
