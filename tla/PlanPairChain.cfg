CONSTANTS
  k1 = k1
  k2 = k2
  k3 = k3
  draft = draft
  final = final
  longTitle = longTitle
  Sessions = {s1, s2}
  Creator = s1
  NSteps = 2
  Deps <- Chain
  Payloads = {draft, final, longTitle}
  Refused = {longTitle}
  InitPayload <- ChainPayload
  Edits = {}
  Keys = {k1, k2, k3}
  MaxCrashes = 0
  DiskMayFail = FALSE
  NoKey = NoKey
  NoPlan = NoPlan
  NoSession = NoSession
  NoEntry = NoEntry
SYMMETRY KeySymmetry
SPECIFICATION Spec
INVARIANTS AtMostOncePerStep
CHECK_DEADLOCK FALSE
