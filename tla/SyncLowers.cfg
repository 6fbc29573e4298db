SPECIFICATION Spec
CONSTANTS
  Replicas = {r1}
  Syncers = {s1}
  Accounts = {a1}
  NoAccount = NoAccount
  Nobody = Nobody
  MaxSeq = 2
PROPERTY SyncOnlyRaises
