\* The server and its background tasks, one request and one administrator;
\* no symmetry, which is unsound for liveness.
SPECIFICATION ServeSpec
CONSTANTS
  Proxy = {x1, x2}
  Request = {r1}
  Loader = {background, other}
  Background = background
  FAIL_LIMIT = 1
  MAX_ATTEMPTS = 12
  MaxRequests = 1
  MaxJobs = 1
  MaxSettings = 1
  NoProxy = NoProxy
CHECK_DEADLOCK FALSE
PROPERTIES
  RequestEnds
  KeepsRefreshing
