SPECIFICATION LiveSpec
CONSTANTS
  t1 = t1
  t2 = t2
  Replicas = {r1, r2}
  Retriers = {}
  TxIds = {t1, t2}
  NoTx = NoTx
  Kind <- SecondSoroban
  Accounts = {a1, a2}
  NoAccount = NoAccount
  Faults = {"net"}
  MaxRetryAttempts = 1
  NullReadable = TRUE
INVARIANTS SubmittingHasWorker QueueOrder
PROPERTIES OneReplicaServes SettlesEventually AccountReturned ReturnedAdvanced
