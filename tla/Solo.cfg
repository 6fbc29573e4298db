SPECIFICATION Spec
CONSTANTS
  t1 = t1
  t2 = t2
  Replicas = {r1}
  Retriers = {q1}
  TxIds = {t1, t2}
  NoTx = NoTx
  Kind <- SecondGarbage
  Accounts = {a1, a2}
  NoAccount = NoAccount
  Faults = {"db", "crash"}
  MaxRetryAttempts = 2
  NullReadable = TRUE
INVARIANT NoFalseFailure
PROPERTIES ConfirmedIsFinal ImplementsLife
