SPECIFICATION FairSpec
CONSTANTS
  t1 = t1
  t2 = t2
  Replicas = {r1}
  Retriers = {q1}
  TxIds = {t1}
  NoTx = NoTx
  Kind <- AllClassic
  Accounts = {a1}
  NoAccount = NoAccount
  Faults = {}
  MaxRetryAttempts = 1
  NullReadable = TRUE
PROPERTY RetrySettles
