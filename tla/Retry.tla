-------------------------------- MODULE Retry --------------------------------
(***************************************************************************)
(* Engine.Retry of internal/submission/retry.go, one action per statement  *)
(* or network call.  Nothing in the repository calls it; each Retrier is a *)
(* caller of it, and several may retry one transaction.                    *)
(*                                                                         *)
(*   idle -BeginRetry-> backoff -CountRetry-> counted -MarkRetrying->      *)
(*   marked -SubmitFeeBump-> awaiting -FeeBumpAnswer-> answered            *)
(*   answered -RecordFeeBump-> idle                                        *)
(***************************************************************************)
EXTENDS TransactionStore, StellarNetwork

CONSTANTS
  Retriers,          \* concurrent calls of Retry
  MaxRetryAttempts   \* MAX_RETRY_ATTEMPTS

ASSUME RetryAssumption ==
  /\ IsFiniteSet(Retriers)
  /\ MaxRetryAttempts \in Nat

VARIABLES
  rpc,       \* where each call is
  rjob,      \* the transaction it retries
  routcome   \* what SubmitTransaction returned for the fee bump

retryVars == <<rpc, rjob, routcome>>

RetryStates == {"idle", "backoff", "counted", "marked", "awaiting", "answered"}

RetryTypeOK ==
  /\ rpc \in [Retriers -> RetryStates]
  /\ rjob \in [Retriers -> TxIds \cup {NoTx}]
  /\ routcome \in [Retriers -> Outcomes \cup {"none"}]

RetryInit ==
  /\ rpc = [q \in Retriers |-> "idle"]
  /\ rjob = [q \in Retriers |-> NoTx]
  /\ routcome = [q \in Retriers |-> "none"]

Advance(q, from, to) ==
  /\ rpc[q] = from
  /\ rpc' = [rpc EXCEPT ![q] = to]
  /\ UNCHANGED <<rjob, routcome>>

RetryReturns(q) ==
  /\ rpc' = [rpc EXCEPT ![q] = "idle"]
  /\ rjob' = [rjob EXCEPT ![q] = NoTx]
  /\ routcome' = [routcome EXCEPT ![q] = "none"]

-----------------------------------------------------------------------------

\* Wrong on purpose: > for >= in the attempts check, and no status check.
BeginRetryOnceMore(q) ==
  /\ rpc[q] = "idle"
  /\ \E t \in TxIds :
       /\ txStatus[t] = "failed" /\ Readable(t)
       /\ txRetry[t] <= MaxRetryAttempts
       /\ rjob' = [rjob EXCEPT ![q] = t]
  /\ rpc' = [rpc EXCEPT ![q] = "backoff"]
  /\ UNCHANGED <<routcome, txVars, ledger>>
BeginRetryUnchecked(q) ==
  /\ rpc[q] = "idle"
  /\ \E t \in TxIds :
       /\ txStatus[t] # "absent"
       /\ txRetry[t] < MaxRetryAttempts
       /\ rjob' = [rjob EXCEPT ![q] = t]
  /\ rpc' = [rpc EXCEPT ![q] = "backoff"]
  /\ UNCHANGED <<routcome, txVars, ledger>>

\* The checks at the head of Retry: the row is there, readable and failed,
\* and has attempts left.  The FOR UPDATE of GetTransactionForRetry is one
\* autocommit statement: its lock is gone when the row has been read.
BeginRetry(q) ==
  /\ rpc[q] = "idle"
  /\ \E t \in TxIds :
       /\ txStatus[t] = "failed" /\ Readable(t)
       /\ txRetry[t] < MaxRetryAttempts
       /\ rjob' = [rjob EXCEPT ![q] = t]
  /\ rpc' = [rpc EXCEPT ![q] = "backoff"]
  /\ UNCHANGED <<routcome, txVars, ledger>>

\* The caller's context ends during the backoff.
CancelBackoff(q) ==
  /\ rpc[q] = "backoff"
  /\ RetryReturns(q)
  /\ UNCHANGED <<txVars, ledger>>

\* The backoff is over.  createFeeBump refuses an envelope that does not
\* parse; then IncrementRetry, and an error of it ends the call.
CountRetry(q) ==
  /\ rpc[q] = "backoff"
  /\ \/ Kind[rjob[q]] = "garbage" /\ RetryReturns(q) /\ UNCHANGED txVars
     \/ /\ Kind[rjob[q]] # "garbage"
        /\ \/ Advance(q, "backoff", "counted") /\ IncrementRetry(rjob[q])
           \/ /\ DbFault
              /\ RetryReturns(q)
              /\ IncrementRetry(rjob[q]) \/ UNCHANGED txVars
  /\ UNCHANGED ledger

MarkRetrying(q) ==
  /\ rpc[q] = "counted"
  /\ \/ /\ Advance(q, "counted", "marked")
        /\ UpdateTransactionStatus(rjob[q], "submitting")
     \/ /\ DbFault
        /\ RetryReturns(q)
        /\ UpdateTransactionStatus(rjob[q], "submitting") \/ UNCHANGED txVars
  /\ UNCHANGED ledger

\* SubmitTransaction of the fee bump.  An error, before or after sending,
\* ends the call and leaves the row submitting.
SubmitFeeBump(q) ==
  /\ rpc[q] = "marked"
  /\ \/ Advance(q, "marked", "awaiting") /\ Send(rjob[q], "bump")
     \/ MayFailUnsent(rjob[q], "bump") /\ RetryReturns(q) /\ UNCHANGED ledger
  /\ UNCHANGED txVars

\* Still in SubmitTransaction: the router fails over.
FeeBumpFailOver(q) ==
  /\ rpc[q] = "awaiting"
  /\ SendAgain(rjob[q], "bump")
  /\ UNCHANGED <<retryVars, txVars>>

FeeBumpAnswer(q) ==
  /\ rpc[q] = "awaiting"
  /\ \/ MayAnswer(rjob[q], "bump", "error") /\ RetryReturns(q)
     \/ \E o \in {"ok", "rejected"} :
          /\ MayAnswer(rjob[q], "bump", o)
          /\ rpc' = [rpc EXCEPT ![q] = "answered"]
          /\ routcome' = [routcome EXCEPT ![q] = o]
          /\ UNCHANGED rjob
  /\ UNCHANGED <<txVars, ledger>>

\* Wrong on purpose: a rejected operation taken for a success.
FeeBumpUnchecked(o) == "confirmed"
FeeBumpStatus(o) == IF o = "ok" THEN "confirmed" ELSE "failed"

\* The last UpdateTransactionStatus; its error is not looked at.
RecordFeeBump(q) ==
  /\ rpc[q] = "answered"
  /\ \/ UpdateTransactionStatus(rjob[q], FeeBumpStatus(routcome[q]))
     \/ DbFault /\ UNCHANGED txVars
  /\ RetryReturns(q)
  /\ UNCHANGED ledger

RetryCrash(q) ==
  /\ CrashFault
  /\ rpc[q] # "idle"
  /\ RetryReturns(q)
  /\ UNCHANGED <<txVars, ledger>>

\* What a call does once begun, except for the answer it waits for.
RetryStep(q) ==
  CountRetry(q) \/ MarkRetrying(q) \/ SubmitFeeBump(q) \/ RecordFeeBump(q)

RetrierStep(q) == \/ BeginRetry(q) \/ RetryStep(q)
                  \/ FeeBumpAnswer(q) \/ FeeBumpFailOver(q)
                  \/ CancelBackoff(q) \/ RetryCrash(q)
=============================================================================
