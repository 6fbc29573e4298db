--------------------------- MODULE SubmissionEngine --------------------------
(***************************************************************************)
(* The service as a whole: the API stores transactions, the workers of the *)
(* replicas process them, callers retry the failed ones, an operator adds  *)
(* channel accounts and the network decides what it was sent.  All of them *)
(* meet in two tables, and nothing but single statements orders them.      *)
(***************************************************************************)
EXTENDS ProcessQueue, Retry

vars == <<poolVars, txVars, ledger, workerVars, retryVars>>

TypeOK == PoolTypeOK /\ TxTypeOK /\ LedgerTypeOK /\ WorkerTypeOK /\ RetryTypeOK

Init == PoolInit /\ TxInit /\ LedgerInit /\ WorkerInit /\ RetryInit

\* POST /transactions: SaveTransaction of whatever string the body holds, its
\* INSERT begun and committed.  Any number of handlers, of any replicas, do
\* this at a time.  Engine.Enqueue stores the same row for an envelope that
\* parses.
Post(t) ==
  /\ BeginSave(t)
  /\ UNCHANGED <<poolVars, ledger, workerVars, retryVars>>

Enqueue(t) ==
  /\ SaveTransaction(t)
  /\ UNCHANGED <<poolVars, ledger, workerVars, retryVars>>

\* Pool.Refill, run by an operator.
RefillAccount(a) ==
  /\ AddAccount(a)
  /\ UNCHANGED <<txVars, ledger, workerVars, retryVars>>

NetworkStep(t, f) ==
  /\ NetworkDecides(t, f)
  /\ UNCHANGED <<poolVars, txVars, workerVars, retryVars>>

Work(r) == WorkerStep(r) /\ UNCHANGED retryVars
Resubmit(q) == RetrierStep(q) /\ UNCHANGED <<poolVars, workerVars>>

Next ==
  \/ \E t \in TxIds : Post(t) \/ Enqueue(t)
  \/ \E a \in Accounts : RefillAccount(a)
  \/ \E t \in TxIds, f \in Forms : NetworkStep(t, f)
  \/ \E r \in Replicas : Work(r)
  \/ \E q \in Retriers : Resubmit(q)

Spec == Init /\ [][Next]_vars

\* What the program does by itself: a goroutine that is to call the network
\* calls it.  Every other step waits for somebody else, a caller, an operator,
\* the network or the database.
Fairness ==
  /\ \A r \in Replicas : WF_vars(Submit(r) /\ UNCHANGED retryVars)
  /\ \A q \in Retriers : WF_vars(SubmitFeeBump(q) /\ UNCHANGED <<poolVars, workerVars>>)

FairSpec == Spec /\ Fairness

\* What nothing in the code enforces, for main's context has no deadline and
\* neither the connection pool nor the Horizon client sets a timeout: the
\* statements of a worker or a retry return, with a result or an error, and
\* so do its calls of SubmitTransaction.
WorkerAnswered(r) ==
  /\ WF_vars(BatchStep(r) /\ UNCHANGED retryVars)
  /\ []<>(pc[r] # "awaiting")
RetryAnswered(q) ==
  /\ WF_vars(RetryStep(q) /\ UNCHANGED <<poolVars, workerVars>>)
  /\ []<>(rpc[q] # "awaiting")

AllAnswered ==
  (\A r \in Replicas : WorkerAnswered(r)) /\ (\A q \in Retriers : RetryAnswered(q))

-----------------------------------------------------------------------------
(* Safety. *)

Settled(t) == txStatus[t] \in {"failed", "confirmed"}

\* A confirmed transaction is in the ledger, in either of its two forms,
\* whatever was lost, retried or written by several workers on the way.
ConfirmedApplied == \A t \in TxIds : txStatus[t] = "confirmed" => Applied(t)

\* A replica on its way to submitting a transaction never submitted it
\* before, also after crashes and failed statements: one replica submits one
\* envelope once.
OncePerReplica ==
  \A r \in Replicas :
    pc[r] \in {"fetched", "marked", "leased", "ready"} => r \notin sentBy[job[r]]

\* "ordered by creation time so oldest are processed first": a transaction
\* that was posted when another was saved already does not leave the queue
\* before it.  Of two that are saved at the same time either may be first,
\* also the one with the later created_at.
QueueOrder ==
  \A t \in TxIds : txStatus[t] \notin {"absent", "pending"} =>
    \A u \in savedFirst[t] : txStatus[u] # "pending"

\* Calls of Retry that read retry_count together may each count one attempt:
\* the count passes MAX_RETRY_ATTEMPTS by at most the number of such calls
\* less one.
RetryBound ==
  \A t \in TxIds :
    txRetry[t] = 0 \/ txRetry[t] < MaxRetryAttempts + Cardinality(Retriers)

\* Every submitting transaction has a worker that will settle it.
SubmittingHasWorker ==
  \A t \in TxIds : txStatus[t] = "submitting" =>
    \E r \in Replicas : job[r] = t /\ pc[r] \notin {"idle", "fetched"}

\* A transaction reported failed is not in the ledger.
NoFalseFailure == \A t \in TxIds : txStatus[t] = "failed" => ~ Applied(t)

\* "Mark as submitting so other workers don't pick it up": no two workers
\* have one transaction in hand after marking it.
SingleWorker ==
  \A r, s \in Replicas :
    r # s /\ pc[r] \notin {"idle", "fetched"} /\ pc[s] \notin {"idle", "fetched"}
      => job[r] # job[s]

\* What carries the properties above from step to step.  A worker has a row
\* in hand that never becomes pending again once it is marked; what it and a
\* retrier learned of the network is in the ledger for good; and only rows
\* that left the queue were ever submitted.
JobsInHand ==
  /\ \A r \in Replicas :
       /\ pc[r] # "idle" => job[r] \in TxIds /\ txStatus[job[r]] # "absent"
       /\ pc[r] \notin {"idle", "fetched"} => txStatus[job[r]] # "pending"
       /\ outcome[r] = "ok" => pc[r] # "idle" /\ ledger[job[r]]["original"] = "applied"
  /\ \A q \in Retriers :
       /\ rpc[q] # "idle" => rjob[q] \in TxIds /\ txStatus[rjob[q]] \notin {"absent", "pending"}
       /\ routcome[q] = "ok" => rpc[q] # "idle" /\ ledger[rjob[q]]["bump"] = "applied"
  /\ \A t \in TxIds : sentBy[t] # {} => txStatus[t] \notin {"absent", "pending"}

(* What a step may never do. *)

\* Once reported confirmed a transaction stays confirmed.
ConfirmedIsFinal ==
  [][\A t \in TxIds : txStatus[t] = "confirmed" => txStatus'[t] = "confirmed"]_vars

\* An account goes back to the pool with the number after the one its lease
\* returned, so the next lease returns another, unless a sync comes between.
ReturnedAdvanced ==
  [][\A r \in Replicas :
       held[r] # NoAccount /\ held'[r] = NoAccount /\ acctStatus'[held[r]] = "idle"
         => acctSeq[held[r]] = leaseSeq[r] + 1]_vars

(* What callers are promised. *)

\* One replica, and calls of Retry one after the other.
Alone == (\A r, s \in Replicas : r = s) /\ (\A p, q \in Retriers : p = q)

\* The network is reliable and Horizon answers for it.
Truthful == ~ NetFault /\ \A t \in TxIds : Kind[t] # "soroban"

Life ==
  INSTANCE TransactionLife WITH
    status <- txStatus,
    posted <- {t \in TxIds : createdAt[t] > 0},
    after <- savedFirst,
    applied <- {t \in TxIds : Applied(t)}

\* Workers, retriers, faults and the network move a transaction through its
\* life and no other way: whatever a caller reads of it, and in whatever
\* order transactions leave the queue, TransactionLife explains.
ImplementsLife == Life!LifeSpec

(* What must happen. *)

\* processBatch runs with a context that has no deadline: a replica whose call
\* of the network or statement never returns polls no more, and keeps its row
\* and its account.  Nobody waits for it: as long as the calls of one replica
\* return, and its statements do so without an error, no transaction is left
\* in the queue.
OneReplicaServes ==
  \A r \in Replicas :
    WorkerAnswered(r) => []<>(\A t \in TxIds : txStatus[t] # "pending")

\* A transaction that was stored is settled in the end, and stays settled: the
\* caller gets a terminal status.
SettlesEventually ==
  AllAnswered => \A t \in TxIds : <>[](txStatus[t] = "absent" \/ Settled(t))

\* A leased account comes back to the pool.
AccountReturned ==
  AllAnswered => \A a \in Accounts : []<>(acctStatus[a] # "leased")

\* A failed transaction that is being submitted again settles again.
RetrySettles ==
  AllAnswered => \A t \in TxIds : txStatus[t] = "submitting" ~> Settled(t)
=============================================================================
