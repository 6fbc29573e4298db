SPECIFICATION Spec
CONSTANTS
  Replicas = {r1, r2}
  Syncers = {s1}
  Accounts = {a1, a2}
  NoAccount = NoAccount
  Nobody = Nobody
  MaxSeq = 3
SYMMETRY Symmetry
INVARIANTS TypeOK RowLocks LeaseExclusive SequenceOwned
PROPERTY ImplementsPool
