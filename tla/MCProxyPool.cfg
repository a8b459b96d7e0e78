\* Requests and loaders interleave over three proxies; a pool may be longer
\* or shorter than the two attempts of a request.
SPECIFICATION Spec
CONSTANTS
  Proxy = {x1, x2, x3}
  Request = {r1, r2}
  Loader = {l1, l2}
  FAIL_LIMIT = 2
  MAX_ATTEMPTS = 2
  MaxRequests = 2
  MaxJobs = 2
  NoProxy = NoProxy
CHECK_DEADLOCK FALSE
SYMMETRY Symmetry
INVARIANTS
  TypeOK
  DisabledAtLimit
  NoRepeatUndisturbed
