-------------------------- MODULE AccountPoolProofs --------------------------
(***************************************************************************)
(* The pool keeps leases exclusive and sequence numbers owned, for any     *)
(* number of replicas and accounts.  The inductive invariant is the        *)
(* conjunction of the type invariant and the two properties: exclusivity   *)
(* is what lets SequenceOwned survive the steps of the other replicas.     *)
(***************************************************************************)
EXTENDS AccountPool, TLAPS

PoolInv == PoolTypeOK /\ LeaseExclusive /\ SequenceOwned

\* The initial pool, nothing leased and nothing held, satisfies PoolInv.
LEMMA PoolInitInv == PoolInit => PoolInv
  BY NoAccountAssumption
  DEF PoolInit, PoolInv, PoolTypeOK, AccountStatus, LeaseExclusive, SequenceOwned

\* Each statement the code runs on channel_accounts keeps PoolInv.  Modules
\* whose steps are pool steps cite this lemma.
LEMMA PoolStepInv == PoolInv /\ [PoolNext]_poolVars => PoolInv'
<1> SUFFICES ASSUME PoolInv, [PoolNext]_poolVars PROVE PoolInv'
  OBVIOUS
<1> USE NoAccountAssumption DEF PoolInv, PoolTypeOK, AccountStatus
<1>1. ASSUME NEW a \in Accounts, AddAccount(a) PROVE PoolInv'
  BY <1>1 DEF AddAccount, LeaseExclusive, SequenceOwned
<1>2. ASSUME NEW a \in Accounts, LeaseUnacknowledged(a) PROVE PoolInv'
  BY <1>2 DEF LeaseUnacknowledged, LeaseExclusive, SequenceOwned
<1>3. ASSUME NEW a \in Accounts, Reconcile(a) PROVE PoolInv'
  <2>1. PoolTypeOK'
    BY <1>3 DEF Reconcile
  <2>2. \A b \in Accounts : acctStatus[b] = "leased" => acctSeq'[b] = acctSeq[b]
    BY <1>3 DEF Reconcile
  <2>3. LeaseExclusive'
    BY <1>3 DEF Reconcile, LeaseExclusive
  <2>4. SequenceOwned'
    BY <1>3, <2>2 DEF Reconcile, LeaseExclusive, SequenceOwned
  <2> QED BY <2>1, <2>3, <2>4
<1>4. ASSUME NEW r \in Replicas, NEW a \in Accounts, Lease(r, a) PROVE PoolInv'
  <2>1. PoolTypeOK'
    BY <1>4 DEF Lease
  <2>2. \A s \in Replicas : held[s] # a
    BY <1>4 DEF Lease, LeaseExclusive
  <2>3. LeaseExclusive'
    BY <1>4, <2>2 DEF Lease, LeaseExclusive
  <2>4. SequenceOwned'
    BY <1>4, <2>2 DEF Lease, SequenceOwned
  <2> QED BY <2>1, <2>3, <2>4
<1>5. ASSUME NEW r \in Replicas, BumpSequence(r) PROVE PoolInv'
  <2>1. PoolTypeOK'
    BY <1>5 DEF BumpSequence
  <2>2. LeaseExclusive'
    BY <1>5 DEF BumpSequence, LeaseExclusive
  <2>3. SequenceOwned'
    BY <1>5 DEF BumpSequence, LeaseExclusive, SequenceOwned
  <2> QED BY <2>1, <2>2, <2>3
<1>6. ASSUME NEW r \in Replicas, Release(r) PROVE PoolInv'
  <2>1. PoolTypeOK'
    BY <1>6 DEF Release, Drop
  <2>2. \A s \in Replicas : s # r /\ held[s] # NoAccount => held[s] # held[r]
    BY <1>6 DEF Release, LeaseExclusive
  <2>3. LeaseExclusive'
    BY <1>6, <2>2 DEF Release, Drop, LeaseExclusive
  <2>4. SequenceOwned'
    BY <1>6 DEF Release, Drop, SequenceOwned
  <2> QED BY <2>1, <2>3, <2>4
<1>7. ASSUME NEW r \in Replicas, Abandon(r) PROVE PoolInv'
  BY <1>7 DEF Abandon, Drop, LeaseExclusive, SequenceOwned
<1>8. CASE UNCHANGED poolVars
  BY <1>8 DEF poolVars, LeaseExclusive, SequenceOwned
<1> QED
  BY <1>1, <1>2, <1>3, <1>4, <1>5, <1>6, <1>7, <1>8 DEF PoolNext

\* Columns and leases keep their types, a held account is leased and has one
\* holder, and only the holder moves its sequence number: the promise of
\* LeaseChannelAccount and of UpdateSequenceNumberIfIdle, for any pool.
THEOREM PoolSafe == PoolSpec => [](PoolTypeOK /\ LeaseExclusive /\ SequenceOwned)
<1>1. PoolInit => PoolInv
  BY PoolInitInv
<1>2. PoolInv /\ [PoolNext]_poolVars => PoolInv'
  BY PoolStepInv
<1> QED
  BY <1>1, <1>2, PTL DEF PoolSpec, PoolInv
=============================================================================
