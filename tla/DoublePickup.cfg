SPECIFICATION Spec
CONSTANTS
  t1 = t1
  t2 = t2
  Replicas = {r1, r2}
  Retriers = {}
  TxIds = {t1}
  NoTx = NoTx
  Kind <- AllClassic
  Accounts = {a1, a2}
  NoAccount = NoAccount
  Faults = {}
  MaxRetryAttempts = 1
  NullReadable = TRUE
INVARIANT SingleWorker
