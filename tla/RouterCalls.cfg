SPECIFICATION FairSpec
CONSTANTS
  t1 = t1
  t2 = t2
  TxIds = {t1, t2}
  NoTx = NoTx
  Kind <- KindOf
  Faults = {"net"}
  Calls <- SomeCalls
  HorizonClients = 2
  SorobanClients = 2
INVARIANTS TypeOK AloneTriesAll
PROPERTIES ImplementsSubmission CallReturns
