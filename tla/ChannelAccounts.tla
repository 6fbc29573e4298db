--------------------------- MODULE ChannelAccounts ---------------------------
(***************************************************************************)
(* The channel account pool statement by statement: the lease transaction  *)
(* of internal/store/channelaccounts.go with the row lock its SELECT ...   *)
(* FOR UPDATE SKIP LOCKED takes, the autocommit UPDATEs beside it, the     *)
(* sequence number sync of internal/channelaccounts/sync.go and the refill *)
(* of refill.go.  Replicas lease; Syncers run SyncSequenceNumbers at the   *)
(* same time, as a replica that starts while others work would.            *)
(*                                                                         *)
(* acctStatus and acctSeq are the COMMITTED row.  Read committed isolation *)
(* hides what an open lease transaction wrote, so marking the row shows    *)
(* only in the phase of the replica until the commit.                      *)
(*                                                                         *)
(* The SELECT orders idle rows by last_used_at.  The times come from the   *)
(* clocks of the replicas that release, so the model lets it return any    *)
(* idle row that is not locked.                                            *)
(***************************************************************************)
EXTENDS Naturals

CONSTANTS
  Replicas,  \* processes that lease channel accounts, one at a time each
  Syncers,   \* runs of SyncSequenceNumbers
  Accounts,  \* public keys
  NoAccount, \* "no account"
  Nobody,    \* "no replica": the row is not locked
  MaxSeq     \* bound: sequence numbers stay at or below it

ASSUME ChannelAccountsAssumption ==
  /\ NoAccount \notin Accounts
  /\ Nobody \notin Replicas
  /\ MaxSeq \in Nat

VARIABLES
  acctStatus,  \* committed column status, "absent" for no row
  acctSeq,     \* committed column sequence_number
  lockedBy,    \* the replica whose lease transaction locks the row
  phase,       \* where each replica is in LeaseChannelAccount .. Release
  row,         \* the row the replica's SELECT returned
  rowSeq,      \* ... and the sequence number in it
  todo,        \* accounts a sync run listed as idle and has not reached
  snapshot,    \* the sequence numbers in that list
  syncing,     \* the account the sync run is in syncOne for
  fetched,     \* the sequence number Horizon answered for it
  networkSeq   \* sequence numbers on the Stellar network

rows     == <<acctStatus, acctSeq>>
leases   == <<lockedBy, phase, row, rowSeq>>
syncVars == <<todo, snapshot, syncing, fetched>>
vars     == <<rows, leases, syncVars, networkSeq>>

Seqs   == 0..MaxSeq
Phases == {"none", "selected", "marked", "holding"}

\* Columns keep their types, phases and locks are those of the code.
TypeOK ==
  /\ acctStatus \in [Accounts -> {"absent", "idle", "leased"}]
  /\ acctSeq \in [Accounts -> Seqs]
  /\ lockedBy \in [Accounts -> Replicas \cup {Nobody}]
  /\ phase \in [Replicas -> Phases]
  /\ row \in [Replicas -> Accounts \cup {NoAccount}]
  /\ rowSeq \in [Replicas -> Seqs]
  /\ todo \in [Syncers -> SUBSET Accounts]
  /\ snapshot \in [Syncers -> [Accounts -> Seqs]]
  /\ syncing \in [Syncers -> Accounts \cup {NoAccount}]
  /\ fetched \in [Syncers -> Seqs]
  /\ networkSeq \in [Accounts -> Seqs]

Init ==
  /\ acctStatus \in [Accounts -> {"absent", "idle"}]
  /\ acctSeq = [a \in Accounts |-> 0]
  /\ lockedBy = [a \in Accounts |-> Nobody]
  /\ phase = [r \in Replicas |-> "none"]
  /\ row = [r \in Replicas |-> NoAccount]
  /\ rowSeq = [r \in Replicas |-> 0]
  /\ todo = [s \in Syncers |-> {}]
  /\ snapshot = [s \in Syncers |-> [a \in Accounts |-> 0]]
  /\ syncing = [s \in Syncers |-> NoAccount]
  /\ fetched = [s \in Syncers |-> 0]
  /\ networkSeq = [a \in Accounts |-> 0]

-----------------------------------------------------------------------------
(* The lease transaction. *)

\* Wrong on purpose: a SELECT that drops SKIP LOCKED and its lock test, and
\* one that drops WHERE status = 'idle'.
LeasableLocked(a) == acctStatus[a] = "idle"
LeasableLeased(a) == acctStatus[a] # "absent" /\ lockedBy[a] = Nobody

\* Rows the SELECT can return: idle in the committed state and not locked.
Leasable(a) == acctStatus[a] = "idle" /\ lockedBy[a] = Nobody

\* SELECT ... WHERE status = 'idle' ... LIMIT 1 FOR UPDATE SKIP LOCKED.
\* With no such row LeaseChannelAccount returns an error and nothing changes.
SelectIdle(r) ==
  /\ phase[r] = "none"
  /\ \E a \in Accounts :
       /\ Leasable(a)
       /\ lockedBy' = [lockedBy EXCEPT ![a] = r]
       /\ row' = [row EXCEPT ![r] = a]
       /\ rowSeq' = [rowSeq EXCEPT ![r] = acctSeq[a]]
  /\ phase' = [phase EXCEPT ![r] = "selected"]
  /\ UNCHANGED <<rows, syncVars, networkSeq>>

\* UPDATE ... SET status = 'leased', inside the transaction.
MarkLeased(r) ==
  /\ phase[r] = "selected"
  /\ phase' = [phase EXCEPT ![r] = "marked"]
  /\ UNCHANGED <<rows, lockedBy, row, rowSeq, syncVars, networkSeq>>

Unlock(r) == lockedBy' = [lockedBy EXCEPT ![row[r]] = Nobody]

\* The replica forgets the row: its local variables go out of scope.
Forget(r) ==
  /\ phase' = [phase EXCEPT ![r] = "none"]
  /\ row' = [row EXCEPT ![r] = NoAccount]
  /\ rowSeq' = [rowSeq EXCEPT ![r] = 0]

Commit(r) ==
  /\ phase[r] = "marked"
  /\ acctStatus' = [acctStatus EXCEPT ![row[r]] = "leased"]
  /\ Unlock(r)
  /\ UNCHANGED <<acctSeq, syncVars, networkSeq>>

CommitLease(r) ==
  /\ Commit(r)
  /\ phase' = [phase EXCEPT ![r] = "holding"]
  /\ UNCHANGED <<row, rowSeq>>

\* The commit took effect and its answer did not arrive, or the replica
\* stopped before it read the answer.
CommitUnacknowledged(r) == Commit(r) /\ Forget(r)

\* The deferred tx.Rollback after a failed UPDATE or COMMIT, and what
\* Postgres does with the transaction of a replica that stopped.
RollbackLease(r) ==
  /\ phase[r] \in {"selected", "marked"}
  /\ Unlock(r)
  /\ Forget(r)
  /\ UNCHANGED <<rows, syncVars, networkSeq>>

-----------------------------------------------------------------------------
(* What the holder of a lease does with its row, by autocommit UPDATEs      *)
(* without a condition on the status.                                      *)

UpdateSequenceNumber(r) ==
  /\ phase[r] = "holding"
  /\ lockedBy[row[r]] = Nobody
  /\ rowSeq[r] < MaxSeq                                   \* bound
  /\ acctSeq' = [acctSeq EXCEPT ![row[r]] = rowSeq[r] + 1]
  /\ UNCHANGED <<acctStatus, leases, syncVars, networkSeq>>

\* Wrong on purpose: a status no other statement knows.
ReleaseMisspelled(r) ==
  /\ phase[r] = "holding"
  /\ lockedBy[row[r]] = Nobody
  /\ acctStatus' = [acctStatus EXCEPT ![row[r]] = "released"]
  /\ Forget(r)
  /\ UNCHANGED <<acctSeq, lockedBy, syncVars, networkSeq>>

ReleaseChannelAccount(r) ==
  /\ phase[r] = "holding"
  /\ lockedBy[row[r]] = Nobody
  /\ acctStatus' = [acctStatus EXCEPT ![row[r]] = "idle"]
  /\ Forget(r)
  /\ UNCHANGED <<acctSeq, lockedBy, syncVars, networkSeq>>

\* The replica stops, or its release fails and the error is only logged:
\* the row stays leased.
Abandon(r) ==
  /\ phase[r] = "holding"
  /\ Forget(r)
  /\ UNCHANGED <<rows, lockedBy, syncVars, networkSeq>>

-----------------------------------------------------------------------------
(* Refill and sync. *)

\* refillOne: SaveChannelAccount with a fresh key, idle, sequence number 0.
RefillOne(a) ==
  /\ acctStatus[a] = "absent"
  /\ acctStatus' = [acctStatus EXCEPT ![a] = "idle"]
  /\ acctSeq' = [acctSeq EXCEPT ![a] = 0]
  /\ UNCHANGED <<leases, syncVars, networkSeq>>

\* ListChannelAccounts, one statement; leased accounts are skipped.
ListAccounts(s) ==
  /\ todo[s] = {} /\ syncing[s] = NoAccount
  /\ todo' = [todo EXCEPT ![s] = {a \in Accounts : acctStatus[a] = "idle"}]
  /\ snapshot' = [snapshot EXCEPT ![s] = acctSeq]
  /\ UNCHANGED <<rows, leases, syncing, fetched, networkSeq>>

\* syncOne up to its early returns: the account is done with when Horizon
\* fails or its number is not above the number in the list.
FetchNetworkSeq(s, a) ==
  /\ syncing[s] = NoAccount
  /\ a \in todo[s]
  /\ todo' = [todo EXCEPT ![s] = @ \ {a}]
  /\ \/ UNCHANGED <<syncing, fetched>>
     \/ /\ networkSeq[a] > snapshot[s][a]
        /\ syncing' = [syncing EXCEPT ![s] = a]
        /\ fetched' = [fetched EXCEPT ![s] = networkSeq[a]]
  /\ UNCHANGED <<rows, leases, snapshot, networkSeq>>

FinishSync(s) ==
  /\ syncing' = [syncing EXCEPT ![s] = NoAccount]
  /\ fetched' = [fetched EXCEPT ![s] = 0]
  /\ UNCHANGED <<acctStatus, leases, snapshot, networkSeq>>

\* Wrong on purpose: the UPDATE without AND status = 'idle', and the UPDATE
\* that does not wait for the lease transaction.
UpdateSequenceAlways(s) ==
  /\ syncing[s] # NoAccount
  /\ lockedBy[syncing[s]] = Nobody
  /\ acctSeq' = [acctSeq EXCEPT ![syncing[s]] = fetched[s]]
  /\ FinishSync(s)
  /\ UNCHANGED todo
UpdateSequenceUnlocked(s) ==
  /\ syncing[s] # NoAccount
  /\ acctStatus[syncing[s]] = "idle"
  /\ acctSeq' = [acctSeq EXCEPT ![syncing[s]] = fetched[s]]
  /\ FinishSync(s)
  /\ UNCHANGED todo

\* UpdateSequenceNumberIfIdle.  The UPDATE waits for the row lock, then
\* checks the status the row has by then.  A failing statement leaves the
\* row alone, and the loop goes on either way.
UpdateSequenceNumberIfIdle(s) ==
  /\ syncing[s] # NoAccount
  /\ \/ UNCHANGED acctSeq
     \/ /\ acctStatus[syncing[s]] = "idle"
        /\ lockedBy[syncing[s]] = Nobody
        /\ acctSeq' = [acctSeq EXCEPT ![syncing[s]] = fetched[s]]
  /\ FinishSync(s)
  /\ UNCHANGED todo

\* The process running the sync stops.
StopSync(s) ==
  /\ todo[s] # {} \/ syncing[s] # NoAccount
  /\ todo' = [todo EXCEPT ![s] = {}]
  /\ FinishSync(s)
  /\ UNCHANGED acctSeq

\* Somebody uses the account on the network.
AdvanceNetwork(a) ==
  /\ networkSeq[a] < MaxSeq                               \* bound
  /\ networkSeq' = [networkSeq EXCEPT ![a] = @ + 1]
  /\ UNCHANGED <<rows, leases, syncVars>>

-----------------------------------------------------------------------------

LeaseStep(r) == SelectIdle(r) \/ MarkLeased(r) \/ CommitLease(r)
                  \/ CommitUnacknowledged(r) \/ RollbackLease(r)
HolderStep(r) == UpdateSequenceNumber(r) \/ ReleaseChannelAccount(r) \/ Abandon(r)
SyncStep(s) == \/ ListAccounts(s)
               \/ \E a \in Accounts : FetchNetworkSeq(s, a)
               \/ UpdateSequenceNumberIfIdle(s)
               \/ StopSync(s)

Next == \/ \E r \in Replicas : LeaseStep(r) \/ HolderStep(r)
        \/ \E s \in Syncers : SyncStep(s)
        \/ \E a \in Accounts : RefillOne(a) \/ AdvanceNetwork(a)

Spec == Init /\ [][Next]_vars

-----------------------------------------------------------------------------
(* Properties. *)

InLease(r) == phase[r] \in {"selected", "marked"}

\* The row locks and the replicas' view of their rows agree: a row is locked
\* exactly while one replica is inside its lease transaction on it, it is
\* idle and unchanged all that time, and each holder of a lease has a leased
\* row of its own.
RowLocks ==
  /\ \A a \in Accounts : lockedBy[a] # Nobody =>
        InLease(lockedBy[a]) /\ row[lockedBy[a]] = a
  /\ \A r \in Replicas : InLease(r) =>
        /\ row[r] \in Accounts
        /\ lockedBy[row[r]] = r
        /\ acctStatus[row[r]] = "idle"
        /\ acctSeq[row[r]] = rowSeq[r]
  /\ \A r \in Replicas : phase[r] = "holding" =>
        /\ row[r] \in Accounts
        /\ acctStatus[row[r]] = "leased"
  /\ \A r, s \in Replicas :
        r # s /\ phase[r] = "holding" /\ phase[s] = "holding" => row[r] # row[s]

\* The lease a caller of Pool.Lease has: a row it selected counts from the
\* commit on.
leasedRow == [r \in Replicas |-> IF phase[r] = "holding" THEN row[r] ELSE NoAccount]
leasedSeq == [r \in Replicas |-> IF phase[r] = "holding" THEN rowSeq[r] ELSE 0]

Pool == INSTANCE AccountPool WITH held <- leasedRow, leaseSeq <- leasedSeq

\* Statement by statement the pool keeps the promise of AccountPool: a lease
\* looks like one step that takes an idle account, whatever the other
\* replicas' transactions and the sync do in between.
ImplementsPool == Pool!PoolSpec

\* No two replicas hold one account, and a held account is leased.
LeaseExclusive == Pool!LeaseExclusive

\* What the comment of UpdateSequenceNumberIfIdle promises: the sync never
\* moves the number of an account another replica holds.
SequenceOwned == Pool!SequenceOwned

\* What the comment of syncOne promises: the stored number is replaced only
\* by a higher one.
SyncOnlyRaises == [][\A a \in Accounts : acctSeq'[a] >= acctSeq[a]]_vars
=============================================================================
