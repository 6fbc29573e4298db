-------------------------- MODULE TransactionStore ---------------------------
(***************************************************************************)
(* The transactions table (migrations/0001_init.sql) and the statements of *)
(* internal/store/transactions.go.  Each is one autocommit statement, so   *)
(* each operator is one atomic step of whoever calls it, except for the    *)
(* INSERT: its row gets the time at which the statement began (now()) and  *)
(* can be read when it has committed, and others may begin and commit in   *)
(* between.                                                                *)
(*                                                                         *)
(* SaveTransaction leaves channel_account and last_error NULL, and only    *)
(* UpdateTransactionStatus fills them.  pgx cannot scan NULL into the Go   *)
(* strings of store.Transaction, so a query that returns a row with NULLs  *)
(* is an error.  NullReadable says whether the store in use has that       *)
(* limit: FALSE for the Postgres store, TRUE for a TxStore that reads back *)
(* what it saved, as the fake of the engine's tests does.                  *)
(***************************************************************************)
EXTENDS Envelopes, Naturals

CONSTANT NullReadable

ASSUME NullReadableAssumption == NullReadable \in BOOLEAN

VARIABLES
  txStatus,   \* column status, "absent" for no row that can be read
  txRetry,    \* column retry_count
  txNulls,    \* rows whose channel_account and last_error are still NULL
  createdAt,  \* column created_at, 0 before the INSERT
  savedFirst  \* history: the rows that could be read when the INSERT began

txVars == <<txStatus, txRetry, txNulls, createdAt, savedFirst>>

\* TxStatusSubmitted is declared in the code and never written.
TxStatuses == {"absent", "pending", "submitting", "failed", "confirmed"}

TxTypeOK ==
  /\ txStatus \in [TxIds -> TxStatuses]
  /\ txRetry \in [TxIds -> Nat]
  /\ txNulls \subseteq TxIds
  /\ createdAt \in [TxIds -> Nat]
  /\ savedFirst \in [TxIds -> SUBSET TxIds]

TxInit ==
  /\ txStatus = [t \in TxIds |-> "absent"]
  /\ txRetry = [t \in TxIds |-> 0]
  /\ txNulls = {}
  /\ createdAt = [t \in TxIds |-> 0]
  /\ savedFirst = [t \in TxIds |-> {}]

Rows == {t \in TxIds : txStatus[t] # "absent"}

Readable(t) == NullReadable \/ t \notin txNulls

\* What now() may return to an INSERT, in units that keep the order: the clock
\* does not go back, two inserts may begin at one time, and a row that can be
\* read is older than an INSERT that begins only now.
Now ==
  {n \in {createdAt[u] + d : u \in TxIds, d \in {0, 1}} \ {0} :
     /\ \A u \in TxIds : createdAt[u] <= n
     /\ \A u \in Rows : createdAt[u] < n}

\* INSERT INTO transactions begins: created_at is DEFAULT now().
BeginSave(t) ==
  /\ createdAt[t] = 0
  /\ \E n \in Now : createdAt' = [createdAt EXCEPT ![t] = n]
  /\ savedFirst' = [savedFirst EXCEPT ![t] = Rows]
  /\ UNCHANGED <<txStatus, txRetry, txNulls>>

\* It commits: pending, retry_count 0.  An INSERT that fails never does.
SaveTransaction(t) ==
  /\ createdAt[t] > 0
  /\ txStatus[t] = "absent"
  /\ txStatus' = [txStatus EXCEPT ![t] = "pending"]
  /\ txNulls' = txNulls \cup {t}
  /\ UNCHANGED <<txRetry, createdAt, savedFirst>>

\* UPDATE ... SET status, channel_account, last_error ... WHERE id: no
\* condition on the status the row has.
UpdateTransactionStatus(t, status) ==
  /\ txStatus[t] # "absent"
  /\ txStatus' = [txStatus EXCEPT ![t] = status]
  /\ txNulls' = txNulls \ {t}
  /\ UNCHANGED <<txRetry, createdAt, savedFirst>>

\* UPDATE ... SET retry_count = retry_count + 1.
IncrementRetry(t) ==
  /\ txRetry' = [txRetry EXCEPT ![t] = @ + 1]
  /\ UNCHANGED <<txStatus, txNulls, createdAt, savedFirst>>

\* Wrong on purpose: any pending row, and any row that is not settled.
AnyPending(t) == txStatus[t] = "pending"
OldestUnsettled(t) ==
  /\ txStatus[t] \in {"pending", "submitting"}
  /\ \A u \in TxIds : txStatus[u] = "pending" => createdAt[t] <= createdAt[u]

\* The row GetPendingTransactions(ctx, 1) finds: WHERE status = 'pending'
\* ORDER BY created_at ASC LIMIT 1.
OldestPending(t) ==
  /\ txStatus[t] = "pending"
  /\ \A u \in TxIds : txStatus[u] = "pending" => createdAt[t] <= createdAt[u]
=============================================================================
