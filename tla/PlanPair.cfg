CONSTANTS
  k1 = k1
  k2 = k2
  k3 = k3
  draft = draft
  final = final
  longTitle = longTitle
  Sessions = {s1, s2}
  Creator = s1
  NSteps = 1
  Deps <- NoDeps
  Payloads = {draft, longTitle}
  Refused = {longTitle}
  InitPayload <- OnePayload
  Edits = {longTitle}
  Keys = {k1, k2}
  MaxCrashes = 1
  DiskMayFail = FALSE
  NoKey = NoKey
  NoPlan = NoPlan
  NoSession = NoSession
  NoEntry = NoEntry
SPECIFICATION FairSpec
INVARIANTS AtMostOncePerStep
CHECK_DEADLOCK FALSE
PROPERTIES CallsReturn
