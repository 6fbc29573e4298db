------------------------ MODULE ChannelAccountsProofs ------------------------
(***************************************************************************)
(* The statement-level pool keeps its row lock invariant and implements    *)
(* AccountPool, for any numbers of replicas, sync runs and accounts.       *)
(*                                                                         *)
(* RowLocks is the strengthening.  The commit of a lease implements        *)
(* AccountPool's Lease only if the row is still idle and its number is     *)
(* still the one the SELECT read, and that holds because nobody else       *)
(* writes a row while the transaction has it locked.                       *)
(***************************************************************************)
EXTENDS ChannelAccounts, TLAPS

Lemmas == INSTANCE AccountPoolProofs WITH held <- leasedRow, leaseSeq <- leasedSeq

Inv == TypeOK /\ RowLocks

\* With nothing locked and nobody in a lease, Inv holds.
LEMMA InitInv == Init => Inv
  BY ChannelAccountsAssumption
  DEF Init, Inv, TypeOK, RowLocks, Seqs, Phases, InLease

\* Every statement of the lease transaction keeps Inv.
LEMMA LeaseStepInv ==
  ASSUME Inv, NEW r \in Replicas, LeaseStep(r)
  PROVE  Inv'
<1> USE ChannelAccountsAssumption DEF Inv, TypeOK, Seqs, Phases, rows, syncVars
<1>1. CASE SelectIdle(r)
  <2> PICK a \in Accounts :
        /\ Leasable(a)
        /\ lockedBy' = [lockedBy EXCEPT ![a] = r]
        /\ row' = [row EXCEPT ![r] = a]
        /\ rowSeq' = [rowSeq EXCEPT ![r] = acctSeq[a]]
    BY <1>1 DEF SelectIdle
  <2>1. TypeOK'
    BY <1>1 DEF SelectIdle
  <2>2. RowLocks'
    BY <1>1 DEF SelectIdle, RowLocks, InLease, Leasable
  <2> QED BY <2>1, <2>2
<1>2. CASE MarkLeased(r)
  BY <1>2 DEF MarkLeased, RowLocks, InLease
<1>3. CASE CommitLease(r) \/ CommitUnacknowledged(r)
  <2>1. /\ row[r] \in Accounts
        /\ lockedBy[row[r]] = r
        /\ acctStatus[row[r]] = "idle"
    BY <1>3 DEF CommitLease, CommitUnacknowledged, Commit, RowLocks, InLease
  <2>2. /\ acctStatus' = [acctStatus EXCEPT ![row[r]] = "leased"]
        /\ lockedBy' = [lockedBy EXCEPT ![row[r]] = Nobody]
        /\ UNCHANGED <<acctSeq, syncVars, networkSeq>>
    BY <1>3 DEF CommitLease, CommitUnacknowledged, Commit, Unlock
  <2>3. /\ phase' \in {[phase EXCEPT ![r] = "holding"], [phase EXCEPT ![r] = "none"]}
        /\ row' \in {row, [row EXCEPT ![r] = NoAccount]}
        /\ rowSeq' \in {rowSeq, [rowSeq EXCEPT ![r] = 0]}
        /\ phase'[r] = "holding" => row'[r] = row[r]
    BY <1>3 DEF CommitLease, CommitUnacknowledged, Forget
  <2>4. TypeOK'
    <3>1. phase' \in [Replicas -> Phases]
      BY <2>3
    <3>2. row' \in [Replicas -> Accounts \cup {NoAccount}]
      BY <2>3
    <3>3. rowSeq' \in [Replicas -> Seqs]
      BY <2>3
    <3>4. /\ acctStatus' \in [Accounts -> {"absent", "idle", "leased"}]
          /\ lockedBy' \in [Accounts -> Replicas \cup {Nobody}]
      BY <2>1, <2>2
    <3> QED BY <2>2, <3>1, <3>2, <3>3, <3>4
  <2>5. \A s \in Replicas : s # r /\ phase[s] # "none" => row[s] # row[r]
    BY <2>1 DEF RowLocks, InLease
  <2>6. \A s \in Replicas : s # r =>
          phase'[s] = phase[s] /\ row'[s] = row[s] /\ rowSeq'[s] = rowSeq[s]
    BY <2>3
  <2>7. phase'[r] \in {"holding", "none"}
    BY <2>3
  <2>8. RowLocks'
    <3>1. \A a \in Accounts : lockedBy'[a] # Nobody =>
            phase'[lockedBy'[a]] \in {"selected", "marked"} /\ row'[lockedBy'[a]] = a
      <4> SUFFICES ASSUME NEW a \in Accounts, lockedBy'[a] # Nobody
                   PROVE  phase'[lockedBy'[a]] \in {"selected", "marked"} /\ row'[lockedBy'[a]] = a
        OBVIOUS
      <4>1. a # row[r] /\ lockedBy'[a] = lockedBy[a]
        BY <2>1, <2>2
      <4>2. lockedBy[a] \in Replicas /\ InLease(lockedBy[a]) /\ row[lockedBy[a]] = a
        BY <4>1 DEF RowLocks
      <4>3. lockedBy[a] # r
        BY <4>1, <4>2
      <4> QED BY <4>1, <4>2, <4>3, <2>6 DEF InLease
    <3>2. \A s \in Replicas : InLease(s)' =>
            /\ row'[s] \in Accounts
            /\ lockedBy'[row'[s]] = s
            /\ acctStatus'[row'[s]] = "idle"
            /\ acctSeq'[row'[s]] = rowSeq'[s]
      BY <2>1, <2>2, <2>5, <2>6, <2>7 DEF RowLocks, InLease
    <3>3. \A s \in Replicas : phase'[s] = "holding" =>
            row'[s] \in Accounts /\ acctStatus'[row'[s]] = "leased"
      BY <2>1, <2>2, <2>3, <2>6 DEF RowLocks
    <3>4. \A s, q \in Replicas :
            s # q /\ phase'[s] = "holding" /\ phase'[q] = "holding" => row'[s] # row'[q]
      BY <2>3, <2>5, <2>6 DEF RowLocks
    <3> QED BY <3>1, <3>2, <3>3, <3>4 DEF RowLocks, InLease
  <2> QED BY <2>4, <2>8
<1>4. CASE RollbackLease(r)
  <2>1. row[r] \in Accounts /\ lockedBy[row[r]] = r
    BY <1>4 DEF RollbackLease, RowLocks, InLease
  <2>2. TypeOK'
    BY <1>4, <2>1 DEF RollbackLease, Unlock, Forget
  <2>3. \A s \in Replicas : s # r =>
          phase'[s] = phase[s] /\ row'[s] = row[s] /\ rowSeq'[s] = rowSeq[s]
    BY <1>4 DEF RollbackLease, Forget
  <2>4. phase'[r] = "none"
    BY <1>4 DEF RollbackLease, Forget
  <2>5. /\ lockedBy' = [lockedBy EXCEPT ![row[r]] = Nobody]
        /\ acctStatus' = acctStatus /\ acctSeq' = acctSeq
    BY <1>4 DEF RollbackLease, Unlock
  <2>6. RowLocks'
    <3>1. \A a \in Accounts : lockedBy'[a] # Nobody =>
            phase'[lockedBy'[a]] \in {"selected", "marked"} /\ row'[lockedBy'[a]] = a
      <4> SUFFICES ASSUME NEW a \in Accounts, lockedBy'[a] # Nobody
                   PROVE  phase'[lockedBy'[a]] \in {"selected", "marked"} /\ row'[lockedBy'[a]] = a
        OBVIOUS
      <4>1. a # row[r] /\ lockedBy'[a] = lockedBy[a]
        BY <2>1, <2>5
      <4>2. lockedBy[a] \in Replicas /\ InLease(lockedBy[a]) /\ row[lockedBy[a]] = a
        BY <4>1 DEF RowLocks
      <4>3. lockedBy[a] # r
        BY <4>1, <4>2
      <4> QED BY <4>1, <4>2, <4>3, <2>3 DEF InLease
    <3>2. \A s \in Replicas : InLease(s)' =>
            /\ row'[s] \in Accounts
            /\ lockedBy'[row'[s]] = s
            /\ acctStatus'[row'[s]] = "idle"
            /\ acctSeq'[row'[s]] = rowSeq'[s]
      BY <2>1, <2>3, <2>4, <2>5 DEF RowLocks, InLease
    <3>3. \A s \in Replicas : phase'[s] = "holding" =>
            row'[s] \in Accounts /\ acctStatus'[row'[s]] = "leased"
      BY <2>3, <2>4, <2>5 DEF RowLocks
    <3>4. \A s, q \in Replicas :
            s # q /\ phase'[s] = "holding" /\ phase'[q] = "holding" => row'[s] # row'[q]
      BY <2>3, <2>4 DEF RowLocks
    <3> QED BY <3>1, <3>2, <3>3, <3>4 DEF RowLocks, InLease
  <2> QED BY <2>2, <2>6
<1> QED
  BY <1>1, <1>2, <1>3, <1>4 DEF LeaseStep

\* So does what the holder of a lease does with its row.
LEMMA HolderStepInv ==
  ASSUME Inv, NEW r \in Replicas, HolderStep(r)
  PROVE  Inv'
<1> USE ChannelAccountsAssumption
    DEF Inv, TypeOK, Seqs, Phases, rows, leases, syncVars, Forget
<1>1. CASE UpdateSequenceNumber(r)
  <2>1. row[r] \in Accounts /\ lockedBy[row[r]] = Nobody
    BY <1>1 DEF UpdateSequenceNumber, RowLocks
  <2>2. TypeOK'
    BY <1>1, <2>1 DEF UpdateSequenceNumber
  <2>3. \A s \in Replicas : InLease(s) => row[s] # row[r]
    BY <2>1, ChannelAccountsAssumption DEF RowLocks, InLease
  <2>4. RowLocks'
    BY <1>1, <2>1, <2>3 DEF UpdateSequenceNumber, RowLocks, InLease
  <2> QED BY <2>2, <2>4
<1>2. CASE ReleaseChannelAccount(r)
  <2>1. row[r] \in Accounts /\ lockedBy[row[r]] = Nobody
    BY <1>2 DEF ReleaseChannelAccount, RowLocks
  <2>2. TypeOK'
    BY <1>2, <2>1 DEF ReleaseChannelAccount
  <2>3. \A s \in Replicas : s # r /\ phase[s] # "none" => row[s] # row[r]
    BY <1>2, <2>1 DEF ReleaseChannelAccount, RowLocks, InLease
  <2>4. RowLocks'
    BY <1>2, <2>1, <2>3 DEF ReleaseChannelAccount, RowLocks, InLease
  <2> QED BY <2>2, <2>4
<1>3. CASE Abandon(r)
  BY <1>3 DEF Abandon, RowLocks, InLease
<1> QED
  BY <1>1, <1>2, <1>3 DEF HolderStep

\* So do the statements of a sync run, which respects the row locks.
LEMMA SyncStepInv ==
  ASSUME Inv, NEW s \in Syncers, SyncStep(s)
  PROVE  Inv'
<1> USE ChannelAccountsAssumption
    DEF Inv, TypeOK, Seqs, Phases, rows, leases
<1>1. CASE ListAccounts(s)
  BY <1>1 DEF ListAccounts, RowLocks, InLease
<1>2. ASSUME NEW a \in Accounts, FetchNetworkSeq(s, a) PROVE Inv'
  BY <1>2 DEF FetchNetworkSeq, RowLocks, InLease
<1>3. CASE UpdateSequenceNumberIfIdle(s)
  <2>1. TypeOK'
    BY <1>3 DEF UpdateSequenceNumberIfIdle, FinishSync
  <2>2. \A a \in Accounts : lockedBy[a] # Nobody => acctSeq'[a] = acctSeq[a]
    BY <1>3 DEF UpdateSequenceNumberIfIdle, FinishSync
  <2>3. RowLocks'
    BY <1>3, <2>2 DEF UpdateSequenceNumberIfIdle, FinishSync, RowLocks, InLease
  <2> QED BY <2>1, <2>3
<1>4. CASE StopSync(s)
  BY <1>4 DEF StopSync, FinishSync, RowLocks, InLease
<1> QED
  BY <1>1, <1>2, <1>3, <1>4 DEF SyncStep

\* Every step keeps Inv.
LEMMA NextInv == Inv /\ [Next]_vars => Inv'
<1> SUFFICES ASSUME Inv, [Next]_vars PROVE Inv'
  OBVIOUS
<1> USE ChannelAccountsAssumption DEF Inv, TypeOK, Seqs, Phases
<1>1. ASSUME NEW a \in Accounts, RefillOne(a) PROVE Inv'
  BY <1>1 DEF RefillOne, leases, syncVars, RowLocks, InLease
<1>2. ASSUME NEW a \in Accounts, AdvanceNetwork(a) PROVE Inv'
  BY <1>2 DEF AdvanceNetwork, rows, leases, syncVars, RowLocks, InLease
<1>3. CASE UNCHANGED vars
  BY <1>3 DEF vars, rows, leases, syncVars, RowLocks, InLease
<1> QED
  BY <1>1, <1>2, <1>3, LeaseStepInv, HolderStepInv, SyncStepInv DEF Next

\* Columns keep their types and the row locks agree with the phases of the
\* lease transactions: FOR UPDATE holds the row from SELECT to COMMIT.
THEOREM LocksSafe == Spec => [](TypeOK /\ RowLocks)
  BY InitInv, NextInv, PTL DEF Spec, Inv

-----------------------------------------------------------------------------

\* The constants of the instance satisfy nothing more than they must, and
\* the initial states map to initial states of AccountPool.
LEMMA InitRefines == Init => Pool!PoolInit
  BY DEF Init, Pool!PoolInit, leasedRow, leasedSeq

\* Each statement maps to an operation of AccountPool or to no step at all.
LEMMA StepRefines == Inv /\ [Next]_vars => [Pool!PoolNext]_(Pool!poolVars)
<1> SUFFICES ASSUME Inv, [Next]_vars
             PROVE  Pool!PoolNext \/ UNCHANGED Pool!poolVars
  BY DEF Pool!poolVars
<1> USE ChannelAccountsAssumption
    DEF Inv, TypeOK, Seqs, Phases, rows, leases, syncVars, leasedRow, leasedSeq,
        Pool!poolVars
<1>1. ASSUME NEW r \in Replicas, SelectIdle(r) PROVE UNCHANGED Pool!poolVars
  BY <1>1 DEF SelectIdle
<1>2. ASSUME NEW r \in Replicas, MarkLeased(r) PROVE UNCHANGED Pool!poolVars
  BY <1>2 DEF MarkLeased
<1>3. ASSUME NEW r \in Replicas, RollbackLease(r) PROVE UNCHANGED Pool!poolVars
  BY <1>3 DEF RollbackLease, Forget
<1>4. ASSUME NEW r \in Replicas, NEW a \in Accounts, a = row[r], CommitLease(r)
      PROVE  Pool!Lease(r, a)
  <2>1. acctStatus[a] = "idle" /\ acctSeq[a] = rowSeq[r]
    BY <1>4 DEF CommitLease, Commit, RowLocks, InLease
  <2> QED BY <1>4, <2>1 DEF CommitLease, Commit, Pool!Lease
<1>5. ASSUME NEW r \in Replicas, NEW a \in Accounts, a = row[r], CommitUnacknowledged(r)
      PROVE  Pool!LeaseUnacknowledged(a)
  <2>1. acctStatus[a] = "idle"
    BY <1>5 DEF CommitUnacknowledged, Commit, RowLocks, InLease
  <2> QED BY <1>5, <2>1 DEF CommitUnacknowledged, Commit, Forget, Pool!LeaseUnacknowledged
<1>6. ASSUME NEW r \in Replicas, UpdateSequenceNumber(r) PROVE Pool!BumpSequence(r)
  BY <1>6 DEF UpdateSequenceNumber, RowLocks, Pool!BumpSequence
<1>7. ASSUME NEW r \in Replicas, ReleaseChannelAccount(r) PROVE Pool!Release(r)
  <2>1. leasedRow[r] = row[r] /\ row[r] # NoAccount
    BY <1>7 DEF ReleaseChannelAccount, RowLocks
  <2>2. leasedRow' = [leasedRow EXCEPT ![r] = NoAccount]
    BY <1>7 DEF ReleaseChannelAccount, Forget
  <2>3. leasedSeq' = [leasedSeq EXCEPT ![r] = 0]
    BY <1>7 DEF ReleaseChannelAccount, Forget
  <2> QED BY <1>7, <2>1, <2>2, <2>3 DEF ReleaseChannelAccount, Pool!Release, Pool!Drop
<1>8. ASSUME NEW r \in Replicas, Abandon(r) PROVE Pool!Abandon(r)
  <2>1. leasedRow[r] # NoAccount
    BY <1>8 DEF Abandon, RowLocks
  <2>2. leasedRow' = [leasedRow EXCEPT ![r] = NoAccount]
    BY <1>8 DEF Abandon, Forget
  <2>3. leasedSeq' = [leasedSeq EXCEPT ![r] = 0]
    BY <1>8 DEF Abandon, Forget
  <2> QED BY <1>8, <2>1, <2>2, <2>3 DEF Abandon, Pool!Abandon, Pool!Drop
<1>9. ASSUME NEW s \in Syncers, UpdateSequenceNumberIfIdle(s)
      PROVE  Pool!Reconcile(syncing[s]) \/ UNCHANGED Pool!poolVars
  BY <1>9 DEF UpdateSequenceNumberIfIdle, FinishSync, Pool!Reconcile
<1>10. ASSUME NEW s \in Syncers, SyncStep(s), ~ UpdateSequenceNumberIfIdle(s)
       PROVE  UNCHANGED Pool!poolVars
  BY <1>10 DEF SyncStep, ListAccounts, FetchNetworkSeq, StopSync, FinishSync
<1>11. ASSUME NEW a \in Accounts, RefillOne(a) PROVE Pool!AddAccount(a)
  BY <1>11 DEF RefillOne, Pool!AddAccount
<1>12. ASSUME NEW a \in Accounts, AdvanceNetwork(a) PROVE UNCHANGED Pool!poolVars
  BY <1>12 DEF AdvanceNetwork
<1>13. CASE UNCHANGED vars
  BY <1>13 DEF vars
<1>14. \A r \in Replicas : CommitLease(r) \/ CommitUnacknowledged(r) => row[r] \in Accounts
  BY DEF CommitLease, CommitUnacknowledged, Commit, RowLocks, InLease
<1>15. \A s \in Syncers : UpdateSequenceNumberIfIdle(s) => syncing[s] \in Accounts
  BY DEF UpdateSequenceNumberIfIdle, FinishSync
<1>16. CASE \E r \in Replicas : LeaseStep(r) \/ HolderStep(r)
  <2> PICK r \in Replicas : LeaseStep(r) \/ HolderStep(r)
    BY <1>16
  <2>1. CASE SelectIdle(r) \/ MarkLeased(r) \/ RollbackLease(r)
    BY <2>1, <1>1, <1>2, <1>3
  <2>2. CASE CommitLease(r) \/ CommitUnacknowledged(r)
    <3>1. PICK a \in Accounts : a = row[r]
      BY <2>2, <1>14
    <3>2. Pool!Lease(r, a) \/ Pool!LeaseUnacknowledged(a)
      BY <2>2, <3>1, <1>4, <1>5
    <3> QED BY <3>2 DEF Pool!PoolNext
  <2>3. CASE HolderStep(r)
    BY <2>3, <1>6, <1>7, <1>8 DEF HolderStep, Pool!PoolNext
  <2> QED BY <2>1, <2>2, <2>3 DEF LeaseStep
<1>17. CASE \E s \in Syncers : SyncStep(s)
  BY <1>9, <1>10, <1>15, <1>17 DEF Pool!PoolNext
<1>18. CASE \E a \in Accounts : RefillOne(a) \/ AdvanceNetwork(a)
  BY <1>11, <1>12, <1>18 DEF Pool!PoolNext
<1> QED
  BY <1>13, <1>16, <1>17, <1>18 DEF Next

\* The statement-level pool implements AccountPool: to every observer of
\* committed rows and finished calls, a lease is one atomic step.
THEOREM PoolImplemented == Spec => ImplementsPool
<1>1. Init => Pool!PoolInit
  BY InitRefines
<1>2. Inv /\ [Next]_vars => [Pool!PoolNext]_(Pool!poolVars)
  BY StepRefines
<1>3. Spec => []Inv
  BY LocksSafe, PTL DEF Inv
<1> QED
  BY <1>1, <1>2, <1>3, PTL DEF Spec, ImplementsPool, Pool!PoolSpec

\* At the SQL level too no two replicas hold one account, and the sync never
\* moves the number of an account another replica holds: what AccountPool
\* guarantees holds for whatever implements it.
THEOREM SqlLeasesSafe == Spec => [](LeaseExclusive /\ SequenceOwned)
<1>1. Init => Lemmas!PoolInv
  BY InitRefines, ChannelAccountsAssumption, Lemmas!PoolInitInv
  DEF Pool!PoolInit, Lemmas!PoolInit
<1>2. [Pool!PoolNext]_(Pool!poolVars) => [Lemmas!PoolNext]_(Lemmas!poolVars)
  BY DEF Pool!PoolNext, Pool!poolVars, Pool!AddAccount, Pool!LeaseUnacknowledged,
    Pool!Reconcile, Pool!Lease, Pool!BumpSequence, Pool!Release, Pool!Abandon, Pool!Drop,
    Lemmas!PoolNext, Lemmas!poolVars, Lemmas!AddAccount, Lemmas!LeaseUnacknowledged,
    Lemmas!Reconcile, Lemmas!Lease, Lemmas!BumpSequence, Lemmas!Release,
    Lemmas!Abandon, Lemmas!Drop
<1>3. Lemmas!PoolInv /\ [Lemmas!PoolNext]_(Lemmas!poolVars) => Lemmas!PoolInv'
  BY ChannelAccountsAssumption, Lemmas!PoolStepInv
<1>4. Lemmas!PoolInv => LeaseExclusive /\ SequenceOwned
  BY DEF Lemmas!PoolInv, LeaseExclusive, SequenceOwned, Lemmas!LeaseExclusive,
    Lemmas!SequenceOwned, Pool!LeaseExclusive, Pool!SequenceOwned
<1>5. Inv /\ [Next]_vars => [Pool!PoolNext]_(Pool!poolVars)
  BY StepRefines
<1>6. Spec => []Inv
  BY LocksSafe, PTL DEF Inv
<1> QED
  BY <1>1, <1>2, <1>3, <1>4, <1>5, <1>6, PTL DEF Spec
=============================================================================
