CONSTANTS
  k1 = k1
  k2 = k2
  k3 = k3
  draft = draft
  final = final
  longTitle = longTitle
  Sessions = {s1}
  Creator = s1
  NSteps = 2
  Deps <- Chain
  Payloads = {draft, final, longTitle}
  Refused = {longTitle}
  InitPayload <- ChainPayload
  Edits = {draft, longTitle}
  Keys = {k1, k2, k3}
  MaxCrashes = 2
  DiskMayFail = TRUE
  NoKey = NoKey
  NoPlan = NoPlan
  NoSession = NoSession
  NoEntry = NoEntry
SYMMETRY KeySymmetry
SPECIFICATION Spec
INVARIANTS TypeOK AtMostOncePerStep KeyOnDiskBeforeSend CompletedMeansDone DependencyOrder
PROPERTIES TheEndIsFinal
CHECK_DEADLOCK FALSE
