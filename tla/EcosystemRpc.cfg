CONSTANTS
  Txs = {t1, t2, t3}
  Keys = {k1}
  NoKey = NoKey
  Payloads = {task, match, longTask, unknown}
  Refused = {longTask, unknown}
  Unsupported = {unknown}
  TaskPayloads = {task, longTask}
  NoEntry = NoEntry
  NoTx = NoTx
SPECIFICATION FairSpec
INVARIANTS TypeOK AtMostOnceEffect SuccessIsBacked NoLostTask
PROPERTIES ImplementsLedger EveryCallReturns
