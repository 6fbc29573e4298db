SPECIFICATION Spec
CONSTANTS
  t1 = t1
  t2 = t2
  Replicas = {r1, r2}
  Retriers = {q1, q2}
  TxIds = {t1}
  NoTx = NoTx
  Kind <- AllClassic
  Accounts = {a1, a2}
  NoAccount = NoAccount
  Faults = {"db", "net", "crash"}
  MaxRetryAttempts = 2
  NullReadable = TRUE
SYMMETRY Symmetry
INVARIANTS TypeOK LeaseExclusive ConfirmedApplied OncePerReplica RetryBound
