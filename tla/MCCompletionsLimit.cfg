\* One request after the other, under a limit of one per hour.
SPECIFICATION Spec
CONSTANTS
  Request = {r1, r2}
  User = {ua}
  Nobody = Nobody
  Model = {mr, mg, mf, mk}
  Hint = {mr, AutoHint}
  AutoHint = AutoHint
  AnyModel = AnyModel
  Cut = {mr}
  mr = mr
  mg = mg
  mf = mf
  mk = mk
  mo = mo
  openrouter = openrouter
  groq = groq
  kilo = kilo
  own = own
  NoProvider = NoProvider
  Builtin <- MCBuiltin
  FreeModels <- MCFreeModels
  Named <- MCNamed
  Configured <- NothingConfigured
  Registered = {}
  Grant <- AnyGrant
  ua = ua
  Stored <- MCStored
  Offer <- MCOffer
  Env = {groq}
  MAX_ATTEMPTS = 2
  MaxOpen = 1
  MaxChanges = 0
INVARIANT HourlyLimitHolds
CHECK_DEADLOCK FALSE
