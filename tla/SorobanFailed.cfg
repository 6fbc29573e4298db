SPECIFICATION Spec
CONSTANTS
  t1 = t1
  t2 = t2
  Replicas = {r1}
  Retriers = {}
  TxIds = {t1}
  NoTx = NoTx
  Kind <- AllSoroban
  Accounts = {a1}
  NoAccount = NoAccount
  Faults = {}
  MaxRetryAttempts = 1
  NullReadable = TRUE
INVARIANT NoFalseFailure
