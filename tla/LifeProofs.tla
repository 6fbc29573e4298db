--------------------------- MODULE LifeProofs ------------------------------
(***************************************************************************)
(* Any service, with any faults, moves transactions as TransactionLife     *)
(* says.                                                                   *)
(*                                                                         *)
(* First the queue: first come, first served, however many replicas poll   *)
(* it and whatever fails.  QueueOrder is not inductive: a replica marks    *)
(* the row some statements after it found that row the oldest.             *)
(* FetchedInTurn says that none of those stored before it is pending then, *)
(* and InsertOrder that created_at orders a row after those that could be  *)
(* read when its INSERT began, the only order created_at tells for sure.   *)
(*                                                                         *)
(* Then the statuses.  AloneInv says which status a lone worker's and a    *)
(* lone retrier's row has, and that they are two rows; TruthInv where the  *)
(* network can still apply what it was sent, when its answers can be       *)
(* believed: nowhere but in a row that is submitting.                      *)
(***************************************************************************)
EXTENDS SubmissionEngineProofs

\* A row was stored after those that could be read when its INSERT began.
InsertOrder ==
  \A t \in TxIds :
    /\ txStatus[t] # "absent" => createdAt[t] > 0
    /\ \A u \in savedFirst[t] : txStatus[u] # "absent" /\ createdAt[u] < createdAt[t]

FetchedInTurn ==
  \A r \in Replicas : pc[r] = "fetched" =>
    \A u \in savedFirst[job[r]] : txStatus[u] # "pending"

QueueInv == InsertOrder /\ FetchedInTurn /\ QueueOrder

\* No row is stored and none enters or leaves the queue.
Quiet ==
  /\ createdAt' = createdAt /\ savedFirst' = savedFirst
  /\ \A t \in TxIds : /\ txStatus'[t] = "pending" <=> txStatus[t] = "pending"
                      /\ txStatus'[t] = "absent" <=> txStatus[t] = "absent"

\* Such a step keeps the queue as it is, if it fetches nothing.
LEMMA QuietKeeps ==
  ASSUME TypeOK, JobsInHand, QueueInv, Quiet,
         \A r \in Replicas : pc'[r] = "fetched" => pc[r] = "fetched" /\ job'[r] = job[r]
  PROVE  QueueInv'
<1> USE DEF TypeOK, TxTypeOK
<1>1. InsertOrder'
  BY DEF QueueInv, InsertOrder, Quiet
<1>2. FetchedInTurn'
  BY DEF QueueInv, FetchedInTurn, Quiet, JobsInHand
<1>3. QueueOrder'
  BY DEF QueueInv, QueueOrder, Quiet
<1> QED
  BY <1>1, <1>2, <1>3 DEF QueueInv

\* The statements on a row that is off the queue already.
LEMMA OffQueueQuiet ==
  ASSUME TxTypeOK, NEW t \in TxIds, OffQueue(t),
         \/ IncrementRetry(t)
         \/ \E s \in {"submitting", "failed", "confirmed"} : UpdateTransactionStatus(t, s)
  PROVE  Quiet
  BY DEF TxTypeOK, OffQueue, IncrementRetry, UpdateTransactionStatus, Quiet

LEMMA UnchangedQuiet == UNCHANGED txVars => Quiet
  BY DEF txVars, Quiet

\* An INSERT begins after those whose rows can be read.
LEMMA PostKeeps ==
  ASSUME TypeOK, JobsInHand, QueueInv, NEW t \in TxIds, Post(t)
  PROVE  QueueInv'
<1> USE DEF TypeOK, TxTypeOK
<1>1. /\ createdAt[t] = 0 /\ savedFirst' = [savedFirst EXCEPT ![t] = Rows]
      /\ UNCHANGED <<txStatus, pc, job>>
  BY DEF Post, BeginSave, workerVars
<1>2. PICK n \in Now : createdAt' = [createdAt EXCEPT ![t] = n]
  BY DEF Post, BeginSave
<1>3. n \in Nat /\ n > 0 /\ \A u \in Rows : createdAt[u] < n
  BY <1>2, NowNat DEF Now
<1>4. txStatus[t] = "absent"
  BY <1>1 DEF QueueInv, InsertOrder
<1>5. \A u \in TxIds : u # t => createdAt'[u] = createdAt[u] /\ savedFirst'[u] = savedFirst[u]
  BY <1>1, <1>2
<1>6. InsertOrder'
  <2> SUFFICES ASSUME NEW v \in TxIds
               PROVE  /\ txStatus[v] # "absent" => createdAt'[v] > 0
                      /\ \A u \in savedFirst'[v] : txStatus[u] # "absent"
                                                   /\ createdAt'[u] < createdAt'[v]
    BY <1>1 DEF InsertOrder
  <2>1. CASE v = t
    BY <2>1, <1>1, <1>2, <1>3, <1>4, <1>5 DEF Rows
  <2>2. CASE v # t
    BY <2>2, <1>4, <1>5 DEF QueueInv, InsertOrder
  <2> QED
    BY <2>1, <2>2
<1>7. FetchedInTurn'
  BY <1>1, <1>4, <1>5 DEF QueueInv, FetchedInTurn, JobsInHand
<1>8. QueueOrder'
  BY <1>1, <1>4, <1>5 DEF QueueInv, QueueOrder
<1> QED
  BY <1>6, <1>7, <1>8 DEF QueueInv

\* The row it makes readable is behind none that began later.
LEMMA EnqueueKeeps ==
  ASSUME TypeOK, JobsInHand, QueueInv, NEW t \in TxIds, Enqueue(t)
  PROVE  QueueInv'
<1> USE DEF TypeOK, TxTypeOK
<1>1. /\ createdAt[t] > 0 /\ txStatus[t] = "absent"
      /\ txStatus' = [txStatus EXCEPT ![t] = "pending"]
      /\ UNCHANGED <<createdAt, savedFirst, pc, job>>
  BY DEF Enqueue, SaveTransaction, workerVars
<1>2. \A v \in TxIds : \A u \in savedFirst[v] : u # t /\ txStatus'[u] = txStatus[u]
  BY <1>1 DEF QueueInv, InsertOrder
<1>3. InsertOrder'
  BY <1>1, <1>2 DEF QueueInv, InsertOrder
<1>4. FetchedInTurn'
  BY <1>1, <1>2 DEF QueueInv, FetchedInTurn, JobsInHand
<1>5. QueueOrder'
  BY <1>1, <1>2 DEF QueueInv, QueueOrder
<1> QED
  BY <1>3, <1>4, <1>5 DEF QueueInv

\* The row that leaves the queue had none before it.
LEMMA MarkKeeps ==
  ASSUME TypeOK, JobsInHand, QueueInv, NEW r \in Replicas, MarkSubmitting(r)
  PROVE  QueueInv'
<1> DEFINE j == job[r]
<1>1. pc[r] = "fetched" /\ j \in TxIds /\ txStatus[j] # "absent"
  BY DEF MarkSubmitting, Goto, JobsInHand
<1>2. \A s \in Replicas : pc'[s] = "fetched" => pc[s] = "fetched" /\ job'[s] = job[s]
  BY DEF MarkSubmitting, Goto, BatchEnds, TypeOK, WorkerTypeOK
<1>3. CASE UNCHANGED txVars
  BY <1>2, <1>3, QuietKeeps, UnchangedQuiet
<1>4. CASE UpdateTransactionStatus(j, "submitting")
  <2> USE DEF TypeOK, TxTypeOK
  <2>1. /\ txStatus' = [txStatus EXCEPT ![j] = "submitting"]
        /\ UNCHANGED <<createdAt, savedFirst>>
    BY <1>4 DEF UpdateTransactionStatus
  <2>2. \A u \in TxIds : /\ txStatus'[u] = "pending" => txStatus[u] = "pending"
                         /\ txStatus'[u] = "absent" <=> txStatus[u] = "absent"
                         /\ u # j => txStatus'[u] = txStatus[u]
    BY <1>1, <2>1
  <2>3. InsertOrder'
    BY <2>1, <2>2 DEF QueueInv, InsertOrder
  <2>4. FetchedInTurn'
    BY <1>2, <2>1, <2>2 DEF QueueInv, FetchedInTurn, JobsInHand
  <2>5. QueueOrder'
    BY <1>1, <2>1, <2>2 DEF QueueInv, QueueOrder, FetchedInTurn
  <2> QED
    BY <2>3, <2>4, <2>5 DEF QueueInv
<1> QED
  BY <1>3, <1>4 DEF MarkSubmitting, StatusWritten, StatusFailed

LEMMA QueueStep == TypeOK /\ JobsInHand /\ QueueInv /\ [Next]_vars => QueueInv'
<1> SUFFICES ASSUME TypeOK, JobsInHand, QueueInv, [Next]_vars PROVE QueueInv'
  OBVIOUS
<1>1. ASSUME NEW t \in TxIds, Post(t) \/ Enqueue(t) PROVE QueueInv'
  BY <1>1, PostKeeps, EnqueueKeeps
<1>2. CASE UNCHANGED <<txVars, workerVars>>
  BY <1>2, QuietKeeps, UnchangedQuiet DEF workerVars
<1>3. ASSUME NEW r \in Replicas, WorkerStep(r) PROVE QueueInv'
  <2> USE DEF TypeOK, WorkerTypeOK
  <2>1. CASE PollQueue(r)
    <3>1. PICK t \in TxIds : OldestPending(t) /\ job' = [job EXCEPT ![r] = t]
      BY <2>1 DEF PollQueue
    <3>2. /\ pc' = [pc EXCEPT ![r] = "fetched"]
          /\ UNCHANGED <<txStatus, createdAt, savedFirst>>
      BY <2>1 DEF PollQueue, txVars
    <3>3. \A u \in savedFirst[t] : txStatus[u] # "pending"
      BY <3>1 DEF QueueInv, InsertOrder, OldestPending, TxTypeOK
    <3>4. FetchedInTurn'
      BY <3>1, <3>2, <3>3 DEF QueueInv, FetchedInTurn
    <3> QED
      BY <3>2, <3>4 DEF QueueInv, InsertOrder, QueueOrder
  <2>2. CASE MarkSubmitting(r)
    BY <2>2, MarkKeeps
  <2>3. CASE RecordNoAccount(r) \/ RecordResult(r)
    <3>1. job[r] \in TxIds /\ OffQueue(job[r])
      BY <2>3 DEF RecordNoAccount, RecordResult, JobsInHand, OffQueue
    <3>2. Quiet
      BY <2>3, <3>1, OffQueueQuiet, UnchangedQuiet
         DEF RecordNoAccount, RecordResult, StatusWritten, StatusFailed, ResultStatus
    <3>3. \A s \in Replicas : pc'[s] = "fetched" => pc[s] = "fetched" /\ job'[s] = job[s]
      BY <2>3 DEF RecordNoAccount, RecordResult, BatchEnds
    <3> QED
      BY <3>2, <3>3, QuietKeeps
  <2>4. CASE \/ EmptyPoll(r) \/ FailOver(r) \/ LeaseAccount(r) \/ LeaseFails(r)
             \/ BumpSequenceNumber(r) \/ Submit(r) \/ Answer(r) \/ ReleaseAccount(r)
             \/ Crash(r)
    <3>1. UNCHANGED txVars
      BY <2>4 DEF EmptyPoll, FailOver, LeaseAccount, LeaseFails, BumpSequenceNumber,
                  Submit, Answer, ReleaseAccount, Crash
    <3>2. \A s \in Replicas : pc'[s] = "fetched" => pc[s] = "fetched" /\ job'[s] = job[s]
      BY <2>4 DEF EmptyPoll, FailOver, LeaseAccount, LeaseFails, BumpSequenceNumber,
                  Submit, Answer, ReleaseAccount, Crash, Goto, BatchEnds, workerVars
    <3> QED
      BY <3>1, <3>2, QuietKeeps, UnchangedQuiet
  <2> QED
    BY <1>3, <2>1, <2>2, <2>3, <2>4 DEF WorkerStep, BatchStep
<1>4. ASSUME NEW q \in Retriers, RetrierStep(q), UNCHANGED workerVars PROVE QueueInv'
  <2>1. Quiet
    <3>1. CASE CountRetry(q) \/ MarkRetrying(q) \/ RecordFeeBump(q)
      <4>1. rjob[q] \in TxIds /\ OffQueue(rjob[q])
        BY <3>1 DEF CountRetry, MarkRetrying, RecordFeeBump, Advance, JobsInHand, OffQueue
      <4> QED
        BY <3>1, <4>1, OffQueueQuiet, UnchangedQuiet
           DEF TypeOK, CountRetry, MarkRetrying, RecordFeeBump, FeeBumpStatus
    <3>2. CASE UNCHANGED txVars
      BY <3>2, UnchangedQuiet
    <3> QED
      BY <1>4, <3>1, <3>2 DEF RetrierStep, RetryStep, BeginRetry, SubmitFeeBump,
         FeeBumpAnswer, FeeBumpFailOver, CancelBackoff, RetryCrash
  <2> QED
    BY <1>4, <2>1, QuietKeeps DEF workerVars
<1> QED
  BY <1>1, <1>2, <1>3, <1>4
     DEF Next, RefillAccount, NetworkStep, Work, Resubmit, vars

\* "ordered by creation time so oldest are processed first": no transaction
\* leaves the queue while one is pending that could be read when its INSERT
\* began, for any replicas, retriers and faults.
THEOREM QueueOrdered == Spec => []QueueOrder
<1>1. Init => QueueInv
  BY DEF Init, TxInit, WorkerInit, QueueInv, InsertOrder, FetchedInTurn, QueueOrder
<1>2. QueueInv => QueueOrder
  BY DEF QueueInv
<1>3. SafeInv => JobsInHand
  BY DEF SafeInv
<1> QED
  BY <1>1, <1>2, <1>3, QueueStep, EngineTypes, SafeInit, SafeStep, PTL DEF Spec

-----------------------------------------------------------------------------
(* What one process touches. *)

\* The network has seen no transaction that is still in the queue.
SentOffQueue == \A t \in TxIds, f \in Forms : ledger[t][f] # "unsent" => OffQueue(t)

\* A worker writes the row and the envelope of its job, and nothing else.
LEMMA WorkerTouches ==
  ASSUME TypeOK, JobsInHand, NEW r \in Replicas, WorkerStep(r)
  PROVE  /\ \A t \in TxIds : pc[r] = "idle" \/ t # job[r] =>
              txStatus'[t] = txStatus[t] /\ ledger'[t] = ledger[t]
         /\ UNCHANGED <<createdAt, savedFirst>>
<1> USE DEF TypeOK, TxTypeOK, LedgerTypeOK
<1>1. CASE Submit(r) \/ FailOver(r)
  BY <1>1 DEF Submit, FailOver, SendAgain, Send, JobsInHand, txVars
<1>2. CASE MarkSubmitting(r) \/ RecordNoAccount(r) \/ RecordResult(r)
  BY <1>2 DEF MarkSubmitting, RecordNoAccount, RecordResult, StatusWritten, StatusFailed,
              UpdateTransactionStatus, Goto, JobsInHand, txVars
<1> QED
  BY <1>1, <1>2 DEF WorkerStep, BatchStep, PollQueue, EmptyPoll, LeaseAccount, LeaseFails,
     BumpSequenceNumber, Answer, ReleaseAccount, Crash, txVars

\* So does a retrier.
LEMMA RetrierTouches ==
  ASSUME TypeOK, JobsInHand, NEW q \in Retriers, RetrierStep(q)
  PROVE  /\ \A t \in TxIds : rpc[q] = "idle" \/ t # rjob[q] =>
              txStatus'[t] = txStatus[t] /\ ledger'[t] = ledger[t]
         /\ UNCHANGED <<createdAt, savedFirst>>
<1> USE DEF TypeOK, TxTypeOK, LedgerTypeOK
<1>1. CASE SubmitFeeBump(q) \/ FeeBumpFailOver(q)
  BY <1>1 DEF SubmitFeeBump, FeeBumpFailOver, SendAgain, Send, JobsInHand, Advance, txVars
<1>2. CASE CountRetry(q) \/ MarkRetrying(q) \/ RecordFeeBump(q)
  BY <1>2 DEF CountRetry, MarkRetrying, RecordFeeBump, UpdateTransactionStatus,
              IncrementRetry, Advance, JobsInHand, txVars
<1> QED
  BY <1>1, <1>2 DEF RetrierStep, RetryStep, BeginRetry, FeeBumpAnswer, CancelBackoff,
     RetryCrash, txVars

LEMMA SentStep == TypeOK /\ JobsInHand /\ SentOffQueue /\ [Next]_vars => SentOffQueue'
<1> SUFFICES ASSUME TypeOK, JobsInHand, SentOffQueue, [Next]_vars,
                    NEW t \in TxIds, NEW f \in Forms, ledger'[t][f] # "unsent"
             PROVE  OffQueue(t)'
  BY DEF SentOffQueue
<1>1. Monotone
  BY StepMonotone
<1>2. CASE ledger[t] = ledger'[t]
  BY <1>1, <1>2 DEF SentOffQueue, Monotone
<1>3. ASSUME NEW r \in Replicas, WorkerStep(r) PROVE OffQueue(t)'
  <2>1. CASE pc[r] # "idle" /\ t = job[r] /\ pc[r] # "fetched"
    BY <1>1, <2>1 DEF Monotone, JobsInHand, OffQueue
  <2>2. pc[r] = "fetched" => UNCHANGED ledger
    BY <1>3 DEF WorkerStep, BatchStep, PollQueue, EmptyPoll, MarkSubmitting, LeaseAccount,
       LeaseFails, RecordNoAccount, BumpSequenceNumber, Submit, FailOver, Answer,
       ReleaseAccount, RecordResult, Crash
  <2> QED
    BY <1>2, <1>3, <2>1, <2>2, WorkerTouches
<1>4. ASSUME NEW q \in Retriers, RetrierStep(q) PROVE OffQueue(t)'
  <2>1. CASE rpc[q] # "idle" /\ t = rjob[q]
    BY <1>1, <2>1 DEF Monotone, JobsInHand, OffQueue
  <2> QED
    BY <1>2, <1>4, <2>1, RetrierTouches
<1>5. ASSUME NEW u \in TxIds, NEW g \in Forms, NetworkStep(u, g) PROVE OffQueue(t)'
  <2>1. ledger[t][f] # "unsent"
    BY <1>5 DEF NetworkStep, NetworkDecides, NetworkApplies, NetworkRejects,
                TypeOK, LedgerTypeOK
  <2> QED
    BY <1>1, <2>1 DEF SentOffQueue, Monotone
<1> QED
  BY <1>2, <1>3, <1>4, <1>5 DEF Next, Post, Enqueue, RefillAccount, Work, Resubmit, vars

-----------------------------------------------------------------------------
(* One worker and one retrier. *)

WorkerAlone(r) ==
  /\ pc[r] = "fetched" => txStatus[job[r]] = "pending"
  /\ pc[r] \notin {"idle", "fetched"} => txStatus[job[r]] = "submitting"

RetrierAlone(q) ==
  /\ rpc[q] \in {"backoff", "counted"} => txStatus[rjob[q]] = "failed"
  /\ rpc[q] \in {"marked", "awaiting", "answered"} => txStatus[rjob[q]] = "submitting"

Apart ==
  \A r \in Replicas, q \in Retriers :
    pc[r] # "idle" /\ rpc[q] # "idle" => job[r] # rjob[q]

AloneInv ==
  /\ \A r \in Replicas : WorkerAlone(r)
  /\ \A q \in Retriers : RetrierAlone(q)
  /\ Apart

\* A worker whose row another process did not write.
LEMMA WorkerLeftAlone ==
  ASSUME NEW r \in Replicas, WorkerAlone(r), pc'[r] = pc[r], job'[r] = job[r],
         pc[r] # "idle" => txStatus'[job[r]] = txStatus[job[r]]
  PROVE  WorkerAlone(r)'
  BY DEF WorkerAlone

LEMMA RetrierLeftAlone ==
  ASSUME NEW q \in Retriers, RetrierAlone(q), rpc'[q] = rpc[q], rjob'[q] = rjob[q],
         rpc[q] # "idle" => txStatus'[rjob[q]] = txStatus[rjob[q]]
  PROVE  RetrierAlone(q)'
  BY DEF RetrierAlone

\* A worker that is alone moves its row from pending to submitting and on.
LEMMA WorkerAloneStep ==
  ASSUME TypeOK, JobsInHand, AloneInv, NEW r \in Replicas, WorkerStep(r)
  PROVE  /\ WorkerAlone(r)'
         /\ \A q \in Retriers : pc'[r] # "idle" /\ rpc[q] # "idle" => job'[r] # rjob[q]
<1> USE DEF TypeOK, WorkerTypeOK, TxTypeOK, PcStates
<1>1. CASE PollQueue(r)
  <2>1. PICK t \in TxIds : txStatus[t] = "pending" /\ job' = [job EXCEPT ![r] = t]
    BY <1>1 DEF PollQueue, OldestPending
  <2>2. pc' = [pc EXCEPT ![r] = "fetched"] /\ UNCHANGED txStatus
    BY <1>1 DEF PollQueue, txVars
  <2>3. \A q \in Retriers : rpc[q] # "idle" => txStatus[rjob[q]] # "pending"
    BY DEF JobsInHand
  <2> QED
    BY <2>1, <2>2, <2>3 DEF WorkerAlone
<1>2. CASE MarkSubmitting(r)
  BY <1>2 DEF MarkSubmitting, Goto, BatchEnds, StatusWritten, UpdateTransactionStatus,
              WorkerAlone, AloneInv, Apart, JobsInHand
<1>3. CASE \/ EmptyPoll(r) \/ LeaseAccount(r) \/ LeaseFails(r) \/ BumpSequenceNumber(r)
           \/ Submit(r) \/ FailOver(r) \/ Answer(r) \/ ReleaseAccount(r)
  <2>1. /\ UNCHANGED <<txStatus, job>>
        /\ \/ UNCHANGED pc
           \/ \E to \in PcStates : /\ pc' = [pc EXCEPT ![r] = to] /\ to \notin {"idle", "fetched"}
                                   /\ pc[r] \notin {"idle", "fetched"}
    BY <1>3 DEF EmptyPoll, LeaseAccount, LeaseFails, BumpSequenceNumber, Submit, FailOver,
                Answer, ReleaseAccount, Goto, txVars, workerVars
  <2> QED
    BY <2>1 DEF WorkerAlone, AloneInv, Apart
<1>4. CASE RecordNoAccount(r) \/ RecordResult(r) \/ Crash(r)
  BY <1>4 DEF RecordNoAccount, RecordResult, Crash, BatchEnds, WorkerAlone
<1> QED
  BY <1>1, <1>2, <1>3, <1>4 DEF WorkerStep, BatchStep

\* A retrier that is alone moves its row from failed to submitting and on.
LEMMA RetrierAloneStep ==
  ASSUME TypeOK, JobsInHand, AloneInv, NEW q \in Retriers, RetrierStep(q)
  PROVE  /\ RetrierAlone(q)'
         /\ \A r \in Replicas : pc[r] # "idle" /\ rpc'[q] # "idle" => job[r] # rjob'[q]
<1> USE DEF TypeOK, WorkerTypeOK, RetryTypeOK, TxTypeOK, RetryStates, PcStates
<1>1. CASE BeginRetry(q)
  <2>1. PICK t \in TxIds : txStatus[t] = "failed" /\ rjob' = [rjob EXCEPT ![q] = t]
    BY <1>1 DEF BeginRetry
  <2>2. rpc' = [rpc EXCEPT ![q] = "backoff"] /\ UNCHANGED txStatus
    BY <1>1 DEF BeginRetry, txVars
  <2>3. \A r \in Replicas : pc[r] # "idle" => txStatus[job[r]] # "failed"
    BY DEF AloneInv, WorkerAlone
  <2> QED
    BY <2>1, <2>2, <2>3 DEF RetrierAlone
<1>2. CASE MarkRetrying(q)
  BY <1>2 DEF MarkRetrying, Advance, RetryReturns, UpdateTransactionStatus,
              RetrierAlone, AloneInv, Apart, JobsInHand
<1>3. CASE \/ FeeBumpFailOver(q)
           \/ CountRetry(q) /\ Advance(q, "backoff", "counted")
           \/ SubmitFeeBump(q) /\ Advance(q, "marked", "awaiting")
           \/ FeeBumpAnswer(q) /\ rpc' = [rpc EXCEPT ![q] = "answered"] /\ UNCHANGED rjob
  BY <1>3 DEF FeeBumpFailOver, CountRetry, SubmitFeeBump, FeeBumpAnswer, Advance,
     IncrementRetry, txVars, retryVars, RetrierAlone, AloneInv, Apart
<1>4. CASE RetryReturns(q)
  BY <1>4 DEF RetryReturns, RetrierAlone
<1> QED
  BY <1>1, <1>2, <1>3, <1>4 DEF RetrierStep, RetryStep, CountRetry, SubmitFeeBump,
     FeeBumpAnswer, RecordFeeBump, CancelBackoff, RetryCrash

LEMMA AloneStep ==
  ASSUME Alone, TypeOK, JobsInHand, AloneInv, [Next]_vars
  PROVE  AloneInv'
<1>1. CASE UNCHANGED <<txStatus, workerVars, retryVars>>
  BY <1>1 DEF AloneInv, WorkerAlone, RetrierAlone, Apart, workerVars, retryVars
<1>2. ASSUME NEW t \in TxIds, Enqueue(t) PROVE AloneInv'
  <2>1. /\ \A u \in TxIds : txStatus[u] # "absent" => txStatus'[u] = txStatus[u]
        /\ UNCHANGED <<pc, job, rpc, rjob>>
    BY <1>2 DEF Enqueue, SaveTransaction, workerVars, retryVars, TypeOK, TxTypeOK
  <2>2. /\ \A r \in Replicas : pc[r] # "idle" => txStatus'[job[r]] = txStatus[job[r]]
        /\ \A q \in Retriers : rpc[q] # "idle" => txStatus'[rjob[q]] = txStatus[rjob[q]]
    BY <2>1 DEF JobsInHand
  <2> QED
    BY <2>1, <2>2, WorkerLeftAlone, RetrierLeftAlone DEF AloneInv, Apart
<1>3. ASSUME NEW r \in Replicas, WorkerStep(r), UNCHANGED retryVars PROVE AloneInv'
  <2>1. \A s \in Replicas : s = r
    BY DEF Alone
  <2>2. \A q \in Retriers : rpc[q] # "idle" => txStatus'[rjob[q]] = txStatus[rjob[q]]
    BY <1>3, WorkerTouches DEF JobsInHand, AloneInv, Apart
  <2>3. \A q \in Retriers : RetrierAlone(q)'
    BY <1>3, <2>2, RetrierLeftAlone DEF AloneInv, retryVars
  <2> QED
    BY <1>3, <2>1, <2>3, WorkerAloneStep DEF AloneInv, Apart, retryVars
<1>4. ASSUME NEW q \in Retriers, RetrierStep(q), UNCHANGED workerVars PROVE AloneInv'
  <2>1. \A p \in Retriers : p = q
    BY DEF Alone
  <2>2. \A r \in Replicas : pc[r] # "idle" => txStatus'[job[r]] = txStatus[job[r]]
    BY <1>4, RetrierTouches DEF JobsInHand, AloneInv, Apart
  <2>3. \A r \in Replicas : WorkerAlone(r)'
    BY <1>4, <2>2, WorkerLeftAlone DEF AloneInv, workerVars
  <2> QED
    BY <1>4, <2>1, <2>3, RetrierAloneStep DEF AloneInv, Apart, workerVars
<1> QED
  BY <1>1, <1>2, <1>3, <1>4
     DEF Next, Post, BeginSave, RefillAccount, NetworkStep, Work, Resubmit, vars, txVars

-----------------------------------------------------------------------------
(* ... whom the network tells the truth. *)

\* The network has not applied this form, and cannot until it is sent again.
Shut(t, f) ==
  /\ ledger[t][f] # "applied"
  /\ ledger[t][f] = "open" => Kind[t] = "garbage"

Closed(t) == \A f \in Forms : Shut(t, f)

\* Only a row that is being submitted, or was confirmed, can be in the ledger.
RowClosed(t) ==
  txStatus[t] \notin {"submitting", "confirmed"} \/ Kind[t] = "garbage" => Closed(t)
RowsClosed == \A t \in TxIds : RowClosed(t)

WorkerTruthful(r) ==
  /\ pc[r] \in {"marked", "unleased", "leased", "ready"} => Closed(job[r])
  /\ pc[r] \in {"awaiting", "answered", "released"} => Shut(job[r], "bump")
  /\ pc[r] \in {"answered", "released"} => outcome[r] = "ok" \/ Shut(job[r], "original")

RetrierTruthful(q) ==
  /\ rpc[q] \in {"backoff", "counted", "marked"} => Closed(rjob[q])
  /\ rpc[q] \in {"awaiting", "answered"} => Shut(rjob[q], "original")
  /\ rpc[q] = "answered" => routcome[q] = "ok" \/ Shut(rjob[q], "bump")

TruthInv ==
  /\ RowsClosed
  /\ \A r \in Replicas : WorkerTruthful(r)
  /\ \A q \in Retriers : RetrierTruthful(q)

\* Nothing the network or a submission does opens another envelope, or one
\* that does not parse.
LEMMA ShutKeeps ==
  ASSUME LedgerTypeOK, NEW t \in TxIds, NEW f \in Forms
  PROVE  /\ NetworkDecides(t, f) =>
              \A u \in TxIds, g \in Forms : Shut(u, g) => Shut(u, g)'
         /\ Send(t, f) =>
              \A u \in TxIds, g \in Forms :
                Shut(u, g) /\ (u # t \/ g # f \/ Kind[t] = "garbage") => Shut(u, g)'
<1> USE DEF LedgerTypeOK, Shut
<1>1. ASSUME NetworkDecides(t, f), NEW u \in TxIds, NEW g \in Forms, Shut(u, g)
      PROVE  Shut(u, g)'
  BY <1>1 DEF NetworkDecides, NetworkApplies, NetworkRejects
<1>2. ASSUME Send(t, f), NEW u \in TxIds, NEW g \in Forms,
             Shut(u, g), u # t \/ g # f \/ Kind[t] = "garbage"
      PROVE  Shut(u, g)'
  BY <1>2 DEF Send
<1> QED
  BY <1>1, <1>2

LEMMA ShutSame ==
  UNCHANGED ledger => \A t \in TxIds : /\ Closed(t)' <=> Closed(t)
                                      /\ \A f \in Forms : Shut(t, f)' <=> Shut(t, f)
  BY DEF Closed, Shut

\* A worker that is told the truth reports failed only what is shut.
LEMMA WorkerTruthfulStep ==
  ASSUME Truthful, TypeOK, JobsInHand, AloneInv, TruthInv, NEW r \in Replicas, WorkerStep(r)
  PROVE  /\ WorkerTruthful(r)'
         /\ \A t \in TxIds : pc[r] # "idle" /\ t = job[r] => RowClosed(t)'
<1> USE DEF TypeOK, WorkerTypeOK, LedgerTypeOK, TxTypeOK, PcStates, Forms
<1>1. pc[r] # "idle" => job[r] \in TxIds
  BY DEF JobsInHand
<1>2. /\ pc[r] = "fetched" => Closed(job[r])
      /\ pc[r] # "idle" /\ Kind[job[r]] = "garbage" => Closed(job[r])
      /\ pc[r] \notin {"idle", "fetched"} => txStatus[job[r]] = "submitting"
      /\ WorkerTruthful(r)
  BY <1>1 DEF TruthInv, RowsClosed, RowClosed, AloneInv, WorkerAlone
<1>3. CASE \/ PollQueue(r) \/ EmptyPoll(r) \/ LeaseAccount(r) \/ LeaseFails(r)
           \/ BumpSequenceNumber(r) \/ ReleaseAccount(r) \/ Crash(r)
  <2>1. UNCHANGED <<txStatus, ledger>>
    BY <1>3 DEF PollQueue, EmptyPoll, LeaseAccount, LeaseFails, BumpSequenceNumber,
       ReleaseAccount, Crash, txVars
  <2>2. \A t \in TxIds : RowClosed(t)'
    BY <2>1, ShutSame DEF RowClosed, TruthInv, RowsClosed
  <2>3. \/ pc'[r] \in {"idle", "fetched"}
        \/ /\ UNCHANGED <<job, outcome>> /\ pc[r] # "idle"
           /\ \/ pc'[r] = pc[r]
              \/ pc[r] \in {"marked", "leased"} /\ pc'[r] \in {"leased", "unleased", "ready"}
              \/ pc[r] = "answered" /\ pc'[r] = "released"
    BY <1>3 DEF PollQueue, EmptyPoll, LeaseAccount, LeaseFails, BumpSequenceNumber,
       ReleaseAccount, Crash, Goto, BatchEnds, workerVars
  <2>4. WorkerTruthful(r)'
    BY <1>1, <1>2, <2>1, <2>3, ShutSame DEF WorkerTruthful
  <2> QED
    BY <2>2, <2>4
<1>4. CASE MarkSubmitting(r)
  <2>1. /\ pc[r] = "fetched" /\ UNCHANGED ledger
        /\ pc'[r] = "idle" \/ (pc'[r] = "marked" /\ UNCHANGED job)
        /\ txStatus'[job[r]] \in {txStatus[job[r]], "submitting"}
    BY <1>1, <1>4 DEF MarkSubmitting, Goto, BatchEnds, StatusWritten, StatusFailed,
       UpdateTransactionStatus, txVars
  <2>2. WorkerTruthful(r)'
    BY <1>1, <1>2, <2>1, ShutSame DEF WorkerTruthful
  <2>3. ASSUME NEW t \in TxIds, t = job[r] PROVE RowClosed(t)'
    BY <1>2, <2>1, <2>3, ShutSame DEF RowClosed
  <2> QED
    BY <2>2, <2>3
<1>5. CASE FailOver(r)
  BY <1>5 DEF FailOver, SendAgain, Truthful
<1>6. CASE Submit(r)
  <2>1. /\ pc[r] = "ready" /\ pc' = [pc EXCEPT ![r] = "awaiting"]
        /\ Send(job[r], "original") /\ UNCHANGED <<job, txStatus>>
    BY <1>1, <1>6 DEF Submit, MayFailUnsent, ViaSoroban, Truthful, txVars
  <2>2. Shut(job[r], "bump") /\ (Kind[job[r]] = "garbage" => Shut(job[r], "original"))
    BY <1>2, <2>1 DEF WorkerTruthful, Closed
  <2>3. Shut(job[r], "bump")' /\ (Kind[job[r]] = "garbage" => Shut(job[r], "original")')
    <3>1. \A u \in TxIds, g \in Forms :
            Shut(u, g) /\ (u # job[r] \/ g # "original" \/ Kind[job[r]] = "garbage")
              => (ledger'[u][g] # "applied" /\ (ledger'[u][g] = "open" => Kind[u] = "garbage"))
      BY <1>1, <2>1, ShutKeeps DEF Shut
    <3> QED
      BY <1>1, <2>1, <2>2, <3>1 DEF Shut
  <2>4. WorkerTruthful(r)'
    BY <2>1, <2>3 DEF WorkerTruthful
  <2>5. ASSUME NEW t \in TxIds, t = job[r] PROVE RowClosed(t)'
    <3>1. txStatus'[t] = "submitting" /\ job'[r] = t
      BY <1>2, <2>1, <2>5
    <3> QED
      BY <2>3, <2>5, <3>1 DEF RowClosed, Closed, Shut
  <2> QED
    BY <2>4, <2>5
<1>7. CASE Answer(r)
  <2>1. PICK o \in Outcomes :
          MayAnswer(job[r], "original", o) /\ outcome' = [outcome EXCEPT ![r] = o]
    BY <1>7 DEF Answer
  <2>2. /\ pc[r] = "awaiting" /\ pc' = [pc EXCEPT ![r] = "answered"]
        /\ UNCHANGED <<job, txStatus, ledger>>
    BY <1>7 DEF Answer, txVars
  <2>3. o = "ok" \/ Shut(job[r], "original")
    BY <1>1, <1>2, <2>1, <2>2 DEF MayAnswer, ViaSoroban, Truthful, Shut, Closed
  <2>4. WorkerTruthful(r)'
    BY <1>1, <1>2, <2>1, <2>2, <2>3, ShutSame DEF WorkerTruthful
  <2>5. \A t \in TxIds : RowClosed(t)'
    BY <2>2, ShutSame DEF RowClosed, TruthInv, RowsClosed
  <2> QED
    BY <2>4, <2>5
<1>8. CASE RecordNoAccount(r) \/ RecordResult(r)
  <2>1. WorkerTruthful(r)'
    BY <1>8 DEF RecordNoAccount, RecordResult, BatchEnds, WorkerTruthful
  <2>2. UNCHANGED ledger
    BY <1>8 DEF RecordNoAccount, RecordResult
  <2>3. pc[r] = "unleased" \/ (pc[r] = "released" /\ outcome[r] # "ok") => Closed(job[r])
    BY <1>2 DEF WorkerTruthful, Closed
  <2>4. pc[r] = "released" /\ outcome[r] = "ok" =>
          txStatus'[job[r]] \in {"submitting", "confirmed"}
    BY <1>1, <1>2, <1>8 DEF RecordNoAccount, RecordResult, StatusWritten, StatusFailed,
       UpdateTransactionStatus, ResultStatus, txVars
  <2>5. pc[r] \in {"unleased", "released"}
    BY <1>8 DEF RecordNoAccount, RecordResult
  <2>6. ASSUME NEW t \in TxIds, t = job[r] PROVE RowClosed(t)'
    BY <1>2, <2>2, <2>3, <2>4, <2>5, <2>6, ShutSame DEF RowClosed
  <2> QED
    BY <2>1, <2>6
<1> QED
  BY <1>3, <1>4, <1>5, <1>6, <1>7, <1>8 DEF WorkerStep, BatchStep

\* So does a retrier.
LEMMA RetrierTruthfulStep ==
  ASSUME Truthful, TypeOK, JobsInHand, AloneInv, TruthInv, NEW q \in Retriers, RetrierStep(q)
  PROVE  /\ RetrierTruthful(q)'
         /\ \A t \in TxIds : rpc[q] # "idle" /\ t = rjob[q] => RowClosed(t)'
<1> USE DEF TypeOK, RetryTypeOK, LedgerTypeOK, TxTypeOK, RetryStates, Forms
<1>1. rpc[q] # "idle" => rjob[q] \in TxIds
  BY DEF JobsInHand
<1>2. /\ rpc[q] # "idle" /\ Kind[rjob[q]] = "garbage" => Closed(rjob[q])
      /\ rpc[q] \in {"marked", "awaiting", "answered"} => txStatus[rjob[q]] = "submitting"
      /\ RetrierTruthful(q)
  BY <1>1 DEF TruthInv, RowsClosed, RowClosed, AloneInv, RetrierAlone
<1>3. CASE BeginRetry(q)
  <2>1. PICK t \in TxIds : txStatus[t] = "failed" /\ rjob' = [rjob EXCEPT ![q] = t]
    BY <1>3 DEF BeginRetry
  <2>2. rpc[q] = "idle" /\ rpc' = [rpc EXCEPT ![q] = "backoff"] /\ UNCHANGED ledger
    BY <1>3 DEF BeginRetry
  <2>3. Closed(t)
    BY <2>1 DEF TruthInv, RowsClosed, RowClosed
  <2> QED
    BY <2>1, <2>2, <2>3, ShutSame DEF RetrierTruthful
<1>4. CASE \/ CountRetry(q) \/ CancelBackoff(q) \/ MarkRetrying(q) \/ RetryCrash(q)
  <2>1. UNCHANGED ledger
    BY <1>4 DEF CountRetry, CancelBackoff, MarkRetrying, RetryCrash
  <2>2. \/ rpc' = [rpc EXCEPT ![q] = "idle"]
        \/ rpc[q] = "backoff" /\ rpc' = [rpc EXCEPT ![q] = "counted"] /\ UNCHANGED rjob
        \/ rpc[q] = "counted" /\ rpc' = [rpc EXCEPT ![q] = "marked"] /\ UNCHANGED rjob
    BY <1>4 DEF CountRetry, CancelBackoff, MarkRetrying, RetryCrash, Advance, RetryReturns
  <2>3. RetrierTruthful(q)'
    BY <1>1, <1>2, <2>1, <2>2, ShutSame DEF RetrierTruthful
  <2>4. txStatus'[rjob[q]] = txStatus[rjob[q]] \/ txStatus'[rjob[q]] = "submitting"
        \/ rpc[q] = "idle"
    BY <1>1, <1>4 DEF CountRetry, CancelBackoff, MarkRetrying, RetryCrash, IncrementRetry,
       UpdateTransactionStatus, Advance, txVars
  <2>5. ASSUME NEW t \in TxIds, rpc[q] # "idle", t = rjob[q] PROVE RowClosed(t)'
    BY <1>2, <2>1, <2>4, <2>5, ShutSame DEF RowClosed, TruthInv, RowsClosed
  <2> QED
    BY <2>3, <2>5
<1>5. CASE FeeBumpFailOver(q)
  BY <1>5 DEF FeeBumpFailOver, SendAgain, Truthful
<1>6. CASE SubmitFeeBump(q)
  <2>1. /\ rpc[q] = "marked" /\ rpc' = [rpc EXCEPT ![q] = "awaiting"]
        /\ Send(rjob[q], "bump") /\ UNCHANGED <<rjob, txStatus>>
    BY <1>1, <1>6 DEF SubmitFeeBump, Advance, MayFailUnsent, ViaSoroban, Truthful, txVars
  <2>2. Shut(rjob[q], "original") /\ (Kind[rjob[q]] = "garbage" => Shut(rjob[q], "bump"))
    BY <1>2, <2>1 DEF RetrierTruthful, Closed
  <2>3. Shut(rjob[q], "original")' /\ (Kind[rjob[q]] = "garbage" => Shut(rjob[q], "bump")')
    <3>1. \A u \in TxIds, g \in Forms :
            Shut(u, g) /\ (u # rjob[q] \/ g # "bump" \/ Kind[rjob[q]] = "garbage")
              => (ledger'[u][g] # "applied" /\ (ledger'[u][g] = "open" => Kind[u] = "garbage"))
      BY <1>1, <2>1, ShutKeeps DEF Shut
    <3> QED
      BY <1>1, <2>1, <2>2, <3>1 DEF Shut
  <2>4. RetrierTruthful(q)'
    BY <2>1, <2>3 DEF RetrierTruthful
  <2>5. ASSUME NEW t \in TxIds, t = rjob[q] PROVE RowClosed(t)'
    <3>1. txStatus'[t] = "submitting" /\ rjob'[q] = t
      BY <1>2, <2>1, <2>5
    <3> QED
      BY <2>3, <2>5, <3>1 DEF RowClosed, Closed, Shut
  <2> QED
    BY <2>4, <2>5
<1>7. CASE FeeBumpAnswer(q)
  <2>1. rpc[q] = "awaiting" /\ UNCHANGED <<txStatus, ledger>>
    BY <1>7 DEF FeeBumpAnswer, txVars
  <2>2. ASSUME RetryReturns(q) PROVE RetrierTruthful(q)'
    BY <2>2 DEF RetryReturns, RetrierTruthful
  <2>3. ASSUME \E o \in {"ok", "rejected"} :
                 /\ MayAnswer(rjob[q], "bump", o)
                 /\ rpc' = [rpc EXCEPT ![q] = "answered"]
                 /\ routcome' = [routcome EXCEPT ![q] = o]
                 /\ UNCHANGED rjob
        PROVE  RetrierTruthful(q)'
    <3>1. PICK o \in {"ok", "rejected"} :
            MayAnswer(rjob[q], "bump", o) /\ routcome' = [routcome EXCEPT ![q] = o]
      BY <2>3
    <3>2. o = "ok" \/ Shut(rjob[q], "bump")
      BY <3>1 DEF MayAnswer, Shut
    <3> QED
      BY <1>1, <1>2, <2>1, <2>3, <3>1, <3>2, ShutSame DEF RetrierTruthful
  <2>4. RetrierTruthful(q)'
    BY <1>7, <2>2, <2>3 DEF FeeBumpAnswer
  <2>5. \A t \in TxIds : RowClosed(t)'
    BY <2>1, ShutSame DEF RowClosed, TruthInv, RowsClosed
  <2> QED
    BY <2>4, <2>5
<1>8. CASE RecordFeeBump(q)
  <2>1. /\ rpc[q] = "answered" /\ rpc' = [rpc EXCEPT ![q] = "idle"] /\ UNCHANGED ledger
        /\ txStatus' = [txStatus EXCEPT ![rjob[q]] = FeeBumpStatus(routcome[q])]
             \/ UNCHANGED txStatus
    BY <1>8 DEF RecordFeeBump, RetryReturns, UpdateTransactionStatus, txVars
  <2>2. routcome[q] # "ok" => Closed(rjob[q])
    BY <1>2, <2>1 DEF RetrierTruthful, Closed
  <2>3. RetrierTruthful(q)'
    BY <2>1 DEF RetrierTruthful
  <2>4. ASSUME NEW t \in TxIds, t = rjob[q] PROVE RowClosed(t)'
    BY <1>2, <2>1, <2>2, <2>4, ShutSame DEF RowClosed, FeeBumpStatus
  <2> QED
    BY <2>3, <2>4
<1> QED
  BY <1>3, <1>4, <1>5, <1>6, <1>7, <1>8 DEF RetrierStep, RetryStep

LEMMA TruthStep ==
  ASSUME Alone, Truthful, TypeOK, JobsInHand, AloneInv, TruthInv, [Next]_vars
  PROVE  TruthInv'
<1>1. ASSUME \A u \in TxIds, g \in Forms : Shut(u, g) => Shut(u, g)',
             \A u \in TxIds : txStatus[u] \in {"submitting", "confirmed"}
                                => txStatus'[u] \in {"submitting", "confirmed"},
             UNCHANGED <<workerVars, retryVars>>
      PROVE  TruthInv'
  <2>1. \A u \in TxIds : Closed(u) => Closed(u)'
    BY <1>1 DEF Closed
  <2>2. RowsClosed'
    BY <1>1, <2>1 DEF TruthInv, RowsClosed, RowClosed
  <2>3. ASSUME NEW r \in Replicas PROVE WorkerTruthful(r)'
    BY <1>1, <2>1 DEF TruthInv, WorkerTruthful, workerVars, JobsInHand, Forms
  <2>4. ASSUME NEW q \in Retriers PROVE RetrierTruthful(q)'
    BY <1>1, <2>1 DEF TruthInv, RetrierTruthful, retryVars, JobsInHand, Forms
  <2> QED
    BY <2>2, <2>3, <2>4 DEF TruthInv
<1>2. ASSUME NEW t \in TxIds, NEW f \in Forms, NetworkStep(t, f) PROVE TruthInv'
  BY <1>1, <1>2, ShutKeeps DEF NetworkStep, TypeOK, txVars
<1>3. ASSUME NEW t \in TxIds, Enqueue(t) PROVE TruthInv'
  BY <1>1, <1>3 DEF Enqueue, SaveTransaction, Shut, TypeOK, TxTypeOK
<1>4. ASSUME NEW r \in Replicas, WorkerStep(r), UNCHANGED retryVars PROVE TruthInv'
  <2>1. \A s \in Replicas : s = r
    BY DEF Alone
  <2>2. \A t \in TxIds : pc[r] = "idle" \/ t # job[r] =>
          txStatus'[t] = txStatus[t] /\ ledger'[t] = ledger[t]
    BY <1>4, WorkerTouches
  <2>3. RowsClosed'
    <3>1. ASSUME NEW t \in TxIds, pc[r] = "idle" \/ t # job[r] PROVE RowClosed(t)'
      BY <2>2, <3>1 DEF TruthInv, RowsClosed, RowClosed, Closed, Shut
    <3> QED
      BY <1>4, <3>1, WorkerTruthfulStep DEF RowsClosed
  <2>4. ASSUME NEW q \in Retriers PROVE RetrierTruthful(q)'
    <3>1. rpc[q] # "idle" => ledger'[rjob[q]] = ledger[rjob[q]]
      BY <2>2 DEF JobsInHand, AloneInv, Apart
    <3> QED
      BY <1>4, <3>1 DEF TruthInv, RetrierTruthful, Closed, Shut, retryVars
  <2> QED
    BY <1>4, <2>1, <2>3, <2>4, WorkerTruthfulStep DEF TruthInv
<1>5. ASSUME NEW q \in Retriers, RetrierStep(q), UNCHANGED workerVars PROVE TruthInv'
  <2>1. \A p \in Retriers : p = q
    BY DEF Alone
  <2>2. \A t \in TxIds : rpc[q] = "idle" \/ t # rjob[q] =>
          txStatus'[t] = txStatus[t] /\ ledger'[t] = ledger[t]
    BY <1>5, RetrierTouches
  <2>3. RowsClosed'
    <3>1. ASSUME NEW t \in TxIds, rpc[q] = "idle" \/ t # rjob[q] PROVE RowClosed(t)'
      BY <2>2, <3>1 DEF TruthInv, RowsClosed, RowClosed, Closed, Shut
    <3> QED
      BY <1>5, <3>1, RetrierTruthfulStep DEF RowsClosed
  <2>4. ASSUME NEW r \in Replicas PROVE WorkerTruthful(r)'
    <3>1. pc[r] # "idle" => ledger'[job[r]] = ledger[job[r]]
      BY <2>2 DEF JobsInHand, AloneInv, Apart
    <3> QED
      BY <1>5, <3>1 DEF TruthInv, WorkerTruthful, Closed, Shut, workerVars
  <2> QED
    BY <1>5, <2>1, <2>3, <2>4, RetrierTruthfulStep DEF TruthInv
<1>6. CASE UNCHANGED <<txStatus, ledger, workerVars, retryVars>>
  BY <1>1, <1>6 DEF Shut
<1> QED
  BY <1>2, <1>3, <1>4, <1>5, <1>6
     DEF Next, Post, BeginSave, RefillAccount, Work, Resubmit, vars, txVars

-----------------------------------------------------------------------------
(* The steps of the service are steps of TransactionLife. *)

LifeInv ==
  /\ TypeOK /\ PoolInv /\ SafeInv /\ QueueInv /\ SentOffQueue
  /\ Alone => AloneInv
  /\ Alone /\ Truthful => TruthInv

LEMMA LifeInvInit == Init => LifeInv
<1> SUFFICES ASSUME Init PROVE LifeInv
  OBVIOUS
<1>1. TypeOK /\ PoolInv /\ SafeInv
  BY TypeInit, SafeInit, PoolInitInv DEF Init
<1>2. QueueInv
  BY DEF Init, TxInit, WorkerInit, QueueInv, InsertOrder, FetchedInTurn, QueueOrder
<1>3. SentOffQueue
  BY DEF Init, LedgerInit, SentOffQueue
<1>4. AloneInv
  BY DEF Init, WorkerInit, RetryInit, AloneInv, WorkerAlone, RetrierAlone, Apart
<1>5. TruthInv
  BY DEF Init, WorkerInit, RetryInit, LedgerInit, TruthInv, WorkerTruthful, RetrierTruthful,
     RowsClosed, RowClosed, Closed, Shut
<1> QED
  BY <1>1, <1>2, <1>3, <1>4, <1>5 DEF LifeInv

LEMMA LifeInvStep == LifeInv /\ [Next]_vars => LifeInv'
<1> SUFFICES ASSUME LifeInv, [Next]_vars PROVE LifeInv'
  OBVIOUS
<1>1. [PoolNext]_poolVars
  BY EngineUsesPool DEF vars
<1>2. JobsInHand
  BY DEF LifeInv, SafeInv
<1>3. TypeOK' /\ PoolInv' /\ SafeInv' /\ QueueInv' /\ SentOffQueue'
  BY <1>1, <1>2, TypeStep, PoolStepInv, SafeStep, QueueStep, SentStep DEF LifeInv
<1>4. Alone' <=> Alone
  BY DEF Alone
<1>5. Truthful' <=> Truthful
  BY DEF Truthful, NetFault
<1> QED
  BY <1>2, <1>3, <1>4, <1>5, AloneStep, TruthStep DEF LifeInv

\* The ledger as TransactionLife sees it.
InLedger == {t \in TxIds : Applied(t)}

\* An UPDATE that finds the status it expects.
LEMMA UpdateMoves ==
  ASSUME NEW t \in TxIds, NEW from, NEW to, UpdateTransactionStatus(t, to), UNCHANGED ledger,
         IF Alone THEN txStatus[t] = from ELSE OffQueue(t)
  PROVE  Life!Moves(t, from, to)
<1>1. txStatus' = [txStatus EXCEPT ![t] = to] /\ UNCHANGED <<createdAt, savedFirst>>
  BY DEF UpdateTransactionStatus
<1>2. InLedger' = InLedger
  BY DEF InLedger, Applied
<1> QED
  BY <1>1, <1>2 DEF Life!Moves, OffQueue, InLedger

LEMMA NoMoveStutters ==
  UNCHANGED <<txStatus, createdAt, savedFirst>> /\ InLedger' = InLedger => UNCHANGED Life!lifeVars
  BY DEF Life!lifeVars, InLedger

\* A submission applies nothing.
LEMMA SendAppliesNothing ==
  ASSUME LedgerTypeOK, NEW t \in TxIds, NEW f \in Forms, Send(t, f)
  PROVE  InLedger' = InLedger
<1>1. \A u \in TxIds, g \in Forms : ledger'[u][g] = "applied" <=> ledger[u][g] = "applied"
  BY DEF LedgerTypeOK, Send
<1> QED
  BY <1>1 DEF InLedger, Applied

LEMMA PostLives ==
  ASSUME LifeInv, NEW t \in TxIds, Post(t)
  PROVE  Life!Post(t)
<1> DEFINE posted == {u \in TxIds : createdAt[u] > 0}
<1>1. /\ createdAt[t] = 0 /\ savedFirst' = [savedFirst EXCEPT ![t] = Rows]
      /\ UNCHANGED <<txStatus, ledger>>
  BY DEF Post, BeginSave
<1>2. PICK n \in Now : createdAt' = [createdAt EXCEPT ![t] = n]
  BY DEF Post, BeginSave
<1>3. n > 0
  BY <1>2, NowNat DEF LifeInv, TypeOK
<1>4. t \notin posted /\ posted' = posted \cup {t}
  BY <1>1, <1>2, <1>3 DEF LifeInv, TypeOK, TxTypeOK
<1>5. UNCHANGED InLedger
  BY <1>1 DEF InLedger, Applied
<1> QED
  BY <1>1, <1>4, <1>5 DEF Life!Post, InLedger, Rows

LEMMA EnqueueLives ==
  ASSUME LifeInv, NEW t \in TxIds, Enqueue(t)
  PROVE  Life!Enqueue(t)
<1>1. /\ createdAt[t] > 0 /\ txStatus[t] = "absent"
      /\ txStatus' = [txStatus EXCEPT ![t] = "pending"]
      /\ UNCHANGED <<createdAt, savedFirst, ledger>>
  BY DEF Enqueue, SaveTransaction
<1>2. UNCHANGED InLedger
  BY <1>1 DEF InLedger, Applied
<1> QED
  BY <1>1, <1>2 DEF Life!Enqueue, InLedger

LEMMA NetworkLives ==
  ASSUME LifeInv, NEW t \in TxIds, NEW f \in Forms, NetworkStep(t, f)
  PROVE  Life!Apply(t) \/ UNCHANGED Life!lifeVars
<1> USE DEF LifeInv, TypeOK, LedgerTypeOK
<1>1. UNCHANGED <<txStatus, createdAt, savedFirst>>
  BY DEF NetworkStep, txVars
<1>2. CASE NetworkRejects(t, f)
  <2>1. \A u \in TxIds, g \in Forms : ledger'[u][g] = "applied" <=> ledger[u][g] = "applied"
    BY <1>2 DEF NetworkRejects
  <2>2. InLedger' = InLedger
    BY <2>1 DEF InLedger, Applied
  <2> QED
    BY <1>1, <2>2, NoMoveStutters
<1>3. CASE NetworkApplies(t, f)
  <2>1. /\ ledger[t][f] = "open" /\ ~ Applied(t) /\ Kind[t] # "garbage"
        /\ ledger' = [ledger EXCEPT ![t][f] = "applied"]
    BY <1>3 DEF NetworkApplies
  <2>2. InLedger' = InLedger \cup {t}
    BY <2>1 DEF InLedger, Applied
  <2>3. OffQueue(t)
    BY <2>1 DEF SentOffQueue
  <2>4. ASSUME Alone, Truthful PROVE txStatus[t] = "submitting"
    <3>1. ~ Closed(t)
      BY <2>1 DEF Closed, Shut
    <3>2. txStatus[t] # "confirmed"
      BY <2>1 DEF SafeInv, ConfirmedApplied
    <3> QED
      BY <2>4, <3>1, <3>2 DEF TruthInv, RowsClosed, RowClosed
  <2> QED
    BY <1>1, <2>1, <2>2, <2>3, <2>4 DEF Life!Apply, InLedger, OffQueue
<1> QED
  BY <1>2, <1>3 DEF NetworkStep, NetworkDecides

LEMMA WorkerLives ==
  ASSUME LifeInv, NEW r \in Replicas, WorkerStep(r)
  PROVE  (\E t \in TxIds : Life!Start(t) \/ Life!Confirm(t) \/ Life!Fail(t) \/ Life!Again(t))
         \/ UNCHANGED Life!lifeVars
<1> USE DEF LifeInv, TypeOK
<1>1. JobsInHand
  BY DEF SafeInv
<1>2. UNCHANGED ledger => InLedger' = InLedger
  BY DEF InLedger, Applied
<1>3. CASE UNCHANGED <<txVars, ledger>>
  BY <1>2, <1>3, NoMoveStutters DEF txVars
<1>4. CASE Submit(r) \/ FailOver(r)
  BY <1>1, <1>2, <1>4, SendAppliesNothing, NoMoveStutters
     DEF Submit, FailOver, SendAgain, Forms, JobsInHand, txVars
<1>5. CASE MarkSubmitting(r) /\ UpdateTransactionStatus(job[r], "submitting")
  <2>1. pc[r] = "fetched" /\ job[r] \in TxIds /\ txStatus[job[r]] # "absent" /\ UNCHANGED ledger
    BY <1>1, <1>5 DEF MarkSubmitting, Goto, JobsInHand
  <2>2. CASE txStatus[job[r]] = "pending"
    <3>1. /\ txStatus' = [txStatus EXCEPT ![job[r]] = "submitting"]
          /\ UNCHANGED <<createdAt, savedFirst>> /\ InLedger' = InLedger
      BY <1>2, <1>5, <2>1 DEF UpdateTransactionStatus
    <3>2. \A u \in savedFirst[job[r]] : txStatus[u] # "pending"
      BY <2>1 DEF QueueInv, FetchedInTurn
    <3> QED
      BY <2>1, <2>2, <3>1, <3>2 DEF Life!Start, InLedger
  <2>3. CASE txStatus[job[r]] # "pending"
    <3>1. ~ Alone /\ OffQueue(job[r])
      BY <2>1, <2>3 DEF AloneInv, WorkerAlone, OffQueue
    <3> QED
      BY <1>5, <2>1, <3>1, UpdateMoves DEF Life!Again
  <2> QED
    BY <2>2, <2>3
<1>6. CASE (RecordNoAccount(r) \/ RecordResult(r)) /\ ~ UNCHANGED txVars
  <2>1. /\ job[r] \in TxIds /\ OffQueue(job[r]) /\ UNCHANGED ledger
        /\ Alone => txStatus[job[r]] = "submitting"
    BY <1>1, <1>6 DEF RecordNoAccount, RecordResult, JobsInHand, OffQueue, AloneInv, WorkerAlone
  <2>2. CASE pc[r] = "released" /\ outcome[r] = "ok"
    <3>1. UpdateTransactionStatus(job[r], "confirmed")
      BY <1>6, <2>2 DEF RecordNoAccount, RecordResult, StatusWritten, StatusFailed, ResultStatus
    <3>2. job[r] \in InLedger
      BY <1>1, <2>1, <2>2 DEF JobsInHand, InLedger, Applied, Forms
    <3> QED
      BY <2>1, <3>1, <3>2, UpdateMoves DEF Life!Confirm, InLedger
  <2>3. CASE ~ (pc[r] = "released" /\ outcome[r] = "ok")
    <3>1. UpdateTransactionStatus(job[r], "failed")
      BY <1>6, <2>3 DEF RecordNoAccount, RecordResult, StatusWritten, StatusFailed, ResultStatus
    <3>2. Alone /\ Truthful => job[r] \notin InLedger
      <4>1. Alone /\ Truthful => Closed(job[r])
        BY <1>6, <2>3 DEF RecordNoAccount, RecordResult, TruthInv, WorkerTruthful, Closed, Forms
      <4> QED
        BY <4>1 DEF Closed, Shut, InLedger, Applied
    <3> QED
      BY <2>1, <3>1, <3>2, UpdateMoves DEF Life!Fail, InLedger
  <2> QED
    BY <2>2, <2>3
<1> QED
  BY <1>3, <1>4, <1>5, <1>6
     DEF WorkerStep, BatchStep, PollQueue, EmptyPoll, MarkSubmitting, StatusWritten,
         StatusFailed, LeaseAccount, LeaseFails, RecordNoAccount, BumpSequenceNumber, Answer,
         ReleaseAccount, RecordResult, Crash

LEMMA RetrierLives ==
  ASSUME LifeInv, NEW q \in Retriers, RetrierStep(q)
  PROVE  (\E t \in TxIds : Life!Confirm(t) \/ Life!Fail(t) \/ Life!Again(t))
         \/ UNCHANGED Life!lifeVars
<1> USE DEF LifeInv, TypeOK
<1>1. JobsInHand
  BY DEF SafeInv
<1>2. UNCHANGED ledger => InLedger' = InLedger
  BY DEF InLedger, Applied
<1>3. CASE UNCHANGED <<txStatus, createdAt, savedFirst, ledger>>
  BY <1>2, <1>3, NoMoveStutters
<1>4. CASE SubmitFeeBump(q) \/ FeeBumpFailOver(q)
  BY <1>1, <1>2, <1>4, SendAppliesNothing, NoMoveStutters
     DEF SubmitFeeBump, FeeBumpFailOver, SendAgain, Advance, Forms, JobsInHand, txVars
<1>5. CASE MarkRetrying(q) /\ UpdateTransactionStatus(rjob[q], "submitting")
  <2>1. /\ rjob[q] \in TxIds /\ OffQueue(rjob[q]) /\ UNCHANGED ledger
        /\ Alone => txStatus[rjob[q]] = "failed"
    BY <1>1, <1>5 DEF MarkRetrying, JobsInHand, OffQueue, AloneInv, RetrierAlone
  <2> QED
    BY <1>5, <2>1, UpdateMoves DEF Life!Again
<1>6. CASE RecordFeeBump(q) /\ UpdateTransactionStatus(rjob[q], FeeBumpStatus(routcome[q]))
  <2>1. /\ rpc[q] = "answered" /\ rjob[q] \in TxIds /\ OffQueue(rjob[q]) /\ UNCHANGED ledger
        /\ Alone => txStatus[rjob[q]] = "submitting"
    BY <1>1, <1>6 DEF RecordFeeBump, JobsInHand, OffQueue, AloneInv, RetrierAlone
  <2>2. CASE routcome[q] = "ok"
    <3>1. rjob[q] \in InLedger
      BY <1>1, <2>1, <2>2 DEF JobsInHand, InLedger, Applied, Forms
    <3> QED
      BY <1>6, <2>1, <2>2, <3>1, UpdateMoves DEF Life!Confirm, InLedger, FeeBumpStatus
  <2>3. CASE routcome[q] # "ok"
    <3>1. Alone /\ Truthful => Closed(rjob[q])
      BY <2>1, <2>3 DEF TruthInv, RetrierTruthful, Closed, Forms
    <3>2. Alone /\ Truthful => rjob[q] \notin InLedger
      BY <3>1 DEF Closed, Shut, InLedger, Applied
    <3> QED
      BY <1>6, <2>1, <2>3, <3>2, UpdateMoves DEF Life!Fail, InLedger, FeeBumpStatus
  <2> QED
    BY <2>2, <2>3
<1> QED
  BY <1>3, <1>4, <1>5, <1>6
     DEF RetrierStep, RetryStep, BeginRetry, CancelBackoff, CountRetry, IncrementRetry,
         MarkRetrying, FeeBumpAnswer, RecordFeeBump, RetryCrash, txVars

LEMMA LifeStep == LifeInv /\ [Next]_vars => [Life!LifeNext]_Life!lifeVars
<1> SUFFICES ASSUME LifeInv, [Next]_vars
             PROVE  Life!LifeNext \/ UNCHANGED Life!lifeVars
  OBVIOUS
<1>1. UNCHANGED <<txVars, ledger>> => UNCHANGED Life!lifeVars
  BY NoMoveStutters DEF txVars, InLedger, Applied
<1> QED
  BY <1>1, PostLives, EnqueueLives, NetworkLives, WorkerLives, RetrierLives
     DEF Next, RefillAccount, Work, Resubmit, vars, Life!LifeNext

\* Any number of workers, retriers, accounts and faults: a transaction is
\* stored once, leaves the queue in its turn, is confirmed only when it is in
\* the ledger and reaches the ledger once; with one worker and one retrier it
\* moves between statuses along the arrows of TransactionLife alone.
THEOREM LifeImplemented == Spec => ImplementsLife
<1>1. Init => Life!LifeInit
  BY DEF Init, TxInit, LedgerInit, Life!LifeInit, Applied
<1> QED
  BY <1>1, LifeInvInit, LifeInvStep, LifeStep, PTL DEF Spec, ImplementsLife, Life!LifeSpec

\* The UPDATEs of a lone worker and of Retry never overwrite confirmed,
\* although none of them looks at the status it overwrites.
THEOREM ConfirmedStays == Alone => (Spec => ConfirmedIsFinal)
<1> SUFFICES ASSUME Alone PROVE Spec => ConfirmedIsFinal
  OBVIOUS
<1>1. ASSUME LifeInv, [Next]_vars, NEW t \in TxIds, txStatus[t] = "confirmed"
      PROVE  txStatus'[t] = "confirmed"
  <2>1. [Life!LifeNext]_Life!lifeVars
    BY <1>1, LifeStep
  <2>2. \A u \in TxIds :
          \/ Life!Post(u) \/ Life!Enqueue(u) \/ Life!Start(u) \/ Life!Confirm(u)
          \/ Life!Fail(u) \/ Life!Again(u) \/ Life!Apply(u)
          => txStatus'[t] = txStatus[t]
    BY <1>1 DEF Life!Post, Life!Enqueue, Life!Start, Life!Confirm, Life!Fail, Life!Again,
       Life!Apply, Life!Moves, LifeInv, TypeOK, TxTypeOK
  <2> QED
    BY <1>1, <2>1, <2>2 DEF Life!LifeNext, Life!lifeVars
<1>2. LifeInv /\ [Next]_vars =>
        [\A t \in TxIds : txStatus[t] = "confirmed" => txStatus'[t] = "confirmed"]_vars
  BY <1>1
<1> QED
  BY <1>2, LifeInvInit, LifeInvStep, PTL DEF Spec, ConfirmedIsFinal

\* What a lone worker or Retry marks failed is not in the ledger and cannot
\* get there, if the network is reliable and Horizon answers for it.
THEOREM FailuresAreTrue == Alone /\ Truthful => (Spec => []NoFalseFailure)
<1> SUFFICES ASSUME Alone, Truthful PROVE Spec => []NoFalseFailure
  OBVIOUS
<1>1. LifeInv => NoFalseFailure
  BY DEF LifeInv, TruthInv, RowsClosed, RowClosed, Closed, Shut, NoFalseFailure, Applied
<1> QED
  BY <1>1, LifeInvInit, LifeInvStep, PTL DEF Spec
=============================================================================
