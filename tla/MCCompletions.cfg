\* One request after the other, while its keys are changed and revoked.
SPECIFICATION Spec
CONSTANTS
  Request = {r1, r2}
  User = {ua}
  Nobody = Nobody
  Model = {mr, mg, mf, mk, mo}
  Hint = {mf, AutoHint}
  AutoHint = AutoHint
  AnyModel = AnyModel
  Cut = {mf}
  mr = mr
  mg = mg
  mf = mf
  mk = mk
  mo = mo
  openrouter = openrouter
  groq = groq
  kilo = kilo
  own = own
  NoProvider = NoProvider
  Builtin <- MCBuiltin
  FreeModels <- MCFreeModels
  Named <- MCNamed
  Configured <- OneConfigured
  Registered = {mo}
  Grant <- MCGrant
  ua = ua
  Stored <- MCStored
  Offer <- MCOffer
  Env = {}
  MAX_ATTEMPTS = 2
  MaxOpen = 1
  MaxChanges = 2
SYMMETRY Symmetry
INVARIANTS
  TypeOK
  OwnPermissions
  SecretIsShared
  AnswersMatchLog
  CallsBounded
CHECK_DEADLOCK FALSE
