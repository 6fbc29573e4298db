----------------------------- MODULE ProcessQueue ----------------------------
(***************************************************************************)
(* The submission worker of each replica: Engine.ProcessQueue and          *)
(* processBatch of internal/submission/engine.go, one action per database  *)
(* statement or network call, in the order the code makes them.            *)
(*                                                                         *)
(* The channel account pool is AccountPool, whose Lease is one step:       *)
(* ChannelAccounts shows the SQL behind it implements that.                *)
(*                                                                         *)
(*   idle -PollQueue-> fetched -MarkSubmitting-> marked                    *)
(*   marked -LeaseAccount-> leased -BumpSequenceNumber-> ready             *)
(*   ready -Submit-> awaiting -Answer-> answered -ReleaseAccount->         *)
(*   released -RecordResult-> idle                                         *)
(*   marked -LeaseFails-> unleased -RecordNoAccount-> idle                 *)
(***************************************************************************)
EXTENDS AccountPool, TransactionStore, StellarNetwork

VARIABLES
  pc,       \* where each replica is in processBatch
  job,      \* the transaction it fetched
  outcome,  \* what SubmitTransaction returned to it
  sentBy    \* history: the replicas that submitted the envelope of t

workerVars == <<pc, job, outcome, sentBy>>

PcStates == {"idle", "fetched", "marked", "unleased", "leased", "ready",
             "awaiting", "answered", "released"}

WorkerTypeOK ==
  /\ pc \in [Replicas -> PcStates]
  /\ job \in [Replicas -> TxIds \cup {NoTx}]
  /\ outcome \in [Replicas -> Outcomes \cup {"none"}]
  /\ sentBy \in [TxIds -> SUBSET Replicas]

WorkerInit ==
  /\ pc = [r \in Replicas |-> "idle"]
  /\ job = [r \in Replicas |-> NoTx]
  /\ outcome = [r \in Replicas |-> "none"]
  /\ sentBy = [t \in TxIds |-> {}]

\* processBatch goes on to its next statement, or returns to the ticker.
Goto(r, from, to) ==
  /\ pc[r] = from
  /\ pc' = [pc EXCEPT ![r] = to]
  /\ UNCHANGED <<job, outcome, sentBy>>

BatchEnds(r) ==
  /\ pc' = [pc EXCEPT ![r] = "idle"]
  /\ job' = [job EXCEPT ![r] = NoTx]
  /\ outcome' = [outcome EXCEPT ![r] = "none"]
  /\ UNCHANGED sentBy

\* A statement on the job's row that returned without an error, and one that
\* returned an error, having taken effect or not.
StatusWritten(r, status) == UpdateTransactionStatus(job[r], status)
StatusFailed(r, status) ==
  /\ DbFault
  /\ StatusWritten(r, status) \/ UNCHANGED txVars

-----------------------------------------------------------------------------

\* GetPendingTransactions(ctx, 1) returns the oldest pending row.
PollQueue(r) ==
  /\ pc[r] = "idle"
  /\ \E t \in TxIds :
       /\ OldestPending(t) /\ Readable(t)
       /\ job' = [job EXCEPT ![r] = t]
  /\ pc' = [pc EXCEPT ![r] = "fetched"]
  /\ UNCHANGED <<outcome, sentBy, poolVars, txVars, ledger>>

\* It returns nothing or an error: no pending row, a row it cannot scan, a
\* failing query.  processBatch returns and waits for the next tick.
EmptyPoll(r) ==
  /\ pc[r] = "idle"
  /\ DbFault \/ ~ \E t \in TxIds : OldestPending(t) /\ Readable(t)
  /\ UNCHANGED <<workerVars, poolVars, txVars, ledger>>

\* UpdateTransactionStatus(submitting); on an error the batch ends here.
MarkSubmitting(r) ==
  /\ \/ Goto(r, "fetched", "marked") /\ StatusWritten(r, "submitting")
     \/ pc[r] = "fetched" /\ BatchEnds(r) /\ StatusFailed(r, "submitting")
  /\ UNCHANGED <<poolVars, ledger>>

LeaseAccount(r) ==
  /\ Goto(r, "marked", "leased")
  /\ \E a \in Accounts : Lease(r, a)
  /\ UNCHANGED <<txVars, ledger>>

\* Wrong on purpose: the batch returns without marking the row failed.
LeaseFailsSilently(r) ==
  /\ pc[r] = "marked"
  /\ Cardinality({a \in Accounts : acctStatus[a] = "idle"})
       <= Cardinality({s \in Replicas \ {r} : pc[s] = "marked"})
  /\ BatchEnds(r)
  /\ UNCHANGED <<poolVars, txVars, ledger>>

\* Wrong on purpose: Lease waits for an account instead of failing.
LeaseWaits(r) ==
  /\ DbFault
  /\ Goto(r, "marked", "unleased")
  /\ UNCHANGED <<poolVars, txVars, ledger>>

\* pool.Lease returns an error: every idle row may be locked by the lease
\* transaction of another replica and is skipped then, or the statement
\* fails, at the worst after the commit took effect.
LeaseFails(r) ==
  /\ Goto(r, "marked", "unleased")
  /\ \/ /\ Cardinality({a \in Accounts : acctStatus[a] = "idle"})
             <= Cardinality({s \in Replicas \ {r} : pc[s] = "marked"})
        /\ UNCHANGED poolVars
     \/ /\ DbFault
        /\ UNCHANGED poolVars \/ \E a \in Accounts : LeaseUnacknowledged(a)
  /\ UNCHANGED <<txVars, ledger>>

\* The transaction is marked failed for want of an account.
RecordNoAccount(r) ==
  /\ pc[r] = "unleased"
  /\ StatusWritten(r, "failed") \/ StatusFailed(r, "failed")
  /\ BatchEnds(r)
  /\ UNCHANGED <<poolVars, ledger>>

\* UpdateSequenceNumber(acct, SequenceNumber + 1); an error is only logged.
BumpSequenceNumber(r) ==
  /\ Goto(r, "leased", "ready")
  /\ BumpSequence(r) \/ (DbFault /\ UNCHANGED poolVars)
  /\ UNCHANGED <<txVars, ledger>>

\* router.SubmitTransaction: the envelope goes out, or the call fails first.
Submit(r) ==
  /\ pc[r] = "ready"
  /\ \/ /\ pc' = [pc EXCEPT ![r] = "awaiting"]
        /\ Send(job[r], "original")
        /\ sentBy' = [sentBy EXCEPT ![job[r]] = @ \cup {r}]
        /\ UNCHANGED outcome
     \/ /\ MayFailUnsent(job[r], "original")
        /\ pc' = [pc EXCEPT ![r] = "answered"]
        /\ outcome' = [outcome EXCEPT ![r] = "error"]
        /\ UNCHANGED <<sentBy, ledger>>
  /\ UNCHANGED <<job, poolVars, txVars>>

\* Still in SubmitTransaction: the router fails over.
FailOver(r) ==
  /\ pc[r] = "awaiting"
  /\ SendAgain(job[r], "original")
  /\ UNCHANGED <<workerVars, poolVars, txVars>>

\* Wrong on purpose: an error returns before the account is released.
AnswerReturnsEarly(r) ==
  /\ pc[r] = "awaiting"
  /\ \/ /\ MayAnswer(job[r], "original", "error")
        /\ StatusWritten(r, "failed") /\ BatchEnds(r) /\ Abandon(r)
     \/ \E o \in {"ok", "rejected"} :
          /\ MayAnswer(job[r], "original", o)
          /\ outcome' = [outcome EXCEPT ![r] = o]
          /\ pc' = [pc EXCEPT ![r] = "answered"]
          /\ UNCHANGED <<job, sentBy, poolVars, txVars>>
  /\ UNCHANGED ledger

Answer(r) ==
  /\ pc[r] = "awaiting"
  /\ \E o \in Outcomes :
       /\ MayAnswer(job[r], "original", o)
       /\ outcome' = [outcome EXCEPT ![r] = o]
  /\ pc' = [pc EXCEPT ![r] = "answered"]
  /\ UNCHANGED <<job, sentBy, poolVars, txVars, ledger>>

\* pool.Release; an error is only logged, and the account then stays leased
\* unless the statement took effect all the same.
ReleaseAccount(r) ==
  /\ Goto(r, "answered", "released")
  /\ Release(r) \/ (DbFault /\ Abandon(r))
  /\ UNCHANGED <<txVars, ledger>>

\* Wrong on purpose: the status no code writes, and a rejected operation
\* taken for a success.
ResultSubmitted(o) == IF o = "ok" THEN "submitted" ELSE "failed"
ResultUnchecked(o) == IF o # "error" THEN "confirmed" ELSE "failed"

ResultStatus(o) == IF o = "ok" THEN "confirmed" ELSE "failed"

\* Wrong on purpose: only a success is recorded.
RecordSuccessOnly(r) ==
  /\ pc[r] = "released"
  /\ IF outcome[r] = "ok" THEN StatusWritten(r, "confirmed") ELSE UNCHANGED txVars
  /\ BatchEnds(r)
  /\ UNCHANGED <<poolVars, ledger>>

\* failTransaction or UpdateTransactionStatus(confirmed); errors of either
\* change nothing more.
RecordResult(r) ==
  /\ pc[r] = "released"
  /\ \/ StatusWritten(r, ResultStatus(outcome[r]))
     \/ StatusFailed(r, ResultStatus(outcome[r]))
  /\ BatchEnds(r)
  /\ UNCHANGED <<poolVars, ledger>>

\* The process stops and starts again: its batch is gone.  A lease it had
\* stays in the table; a lease it was asking for may have been committed.
Crash(r) ==
  /\ CrashFault
  /\ pc[r] # "idle"
  /\ BatchEnds(r)
  /\ \/ Abandon(r)
     \/ held[r] = NoAccount /\ UNCHANGED poolVars
     \/ pc[r] = "marked" /\ \E a \in Accounts : LeaseUnacknowledged(a)
  /\ UNCHANGED <<txVars, ledger>>

\* One call of processBatch, from its first statement to its return, except
\* for the answer it waits for.
BatchStep(r) ==
  \/ PollQueue(r) \/ MarkSubmitting(r)
  \/ LeaseAccount(r) \/ LeaseFails(r) \/ RecordNoAccount(r)
  \/ BumpSequenceNumber(r) \/ Submit(r)
  \/ ReleaseAccount(r) \/ RecordResult(r)

WorkerStep(r) == BatchStep(r) \/ Answer(r) \/ EmptyPoll(r) \/ FailOver(r) \/ Crash(r)
=============================================================================
