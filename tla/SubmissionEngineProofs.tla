----------------------- MODULE SubmissionEngineProofs ------------------------
(***************************************************************************)
(* What holds of the service for any numbers of replicas, retriers,        *)
(* accounts and transactions, and under every combination of faults.       *)
(***************************************************************************)
EXTENDS SubmissionEngine, AccountPoolProofs

\* Every step of the service leaves the pool alone or is one of its
\* operations: the engine touches channel_accounts in no other way.
LEMMA EngineUsesPool == Next => PoolNext \/ UNCHANGED poolVars
<1>1. ASSUME NEW t \in TxIds, Post(t) \/ Enqueue(t) PROVE UNCHANGED poolVars
  BY <1>1 DEF Post, Enqueue
<1>2. ASSUME NEW a \in Accounts, RefillAccount(a) PROVE PoolNext
  BY <1>2 DEF RefillAccount, PoolNext
<1>3. ASSUME NEW t \in TxIds, NEW f \in Forms, NetworkStep(t, f)
      PROVE  UNCHANGED poolVars
  BY <1>3 DEF NetworkStep
<1>4. ASSUME NEW r \in Replicas, WorkerStep(r) PROVE PoolNext \/ UNCHANGED poolVars
  <2>1. CASE PollQueue(r) \/ EmptyPoll(r) \/ MarkSubmitting(r) \/ RecordNoAccount(r)
              \/ Submit(r) \/ FailOver(r) \/ Answer(r) \/ RecordResult(r)
    BY <2>1 DEF PollQueue, EmptyPoll, FailOver, MarkSubmitting, RecordNoAccount, Submit,
                Answer, RecordResult
  <2>2. CASE LeaseAccount(r)
    BY <2>2 DEF LeaseAccount, PoolNext
  <2>3. CASE LeaseFails(r)
    BY <2>3 DEF LeaseFails, PoolNext
  <2>4. CASE BumpSequenceNumber(r)
    BY <2>4 DEF BumpSequenceNumber, PoolNext
  <2>5. CASE ReleaseAccount(r)
    BY <2>5 DEF ReleaseAccount, PoolNext
  <2>6. CASE Crash(r)
    BY <2>6 DEF Crash, PoolNext
  <2> QED
    BY <1>4, <2>1, <2>2, <2>3, <2>4, <2>5, <2>6 DEF WorkerStep, BatchStep
<1>5. ASSUME NEW q \in Retriers, Resubmit(q) PROVE UNCHANGED poolVars
  BY <1>5 DEF Resubmit
<1> QED
  BY <1>1, <1>2, <1>3, <1>4, <1>5 DEF Next, Work

\* Seen from channel_accounts the service is a caller of the pool: whatever
\* workers, retries and faults do, the table goes through steps of AccountPool.
\* PoolImplemented says the SQL takes no others, so modelling the engine
\* over the abstract pool leaves out nothing the SQL could do to a lease.
THEOREM EngineRefinesPool == Spec => PoolSpec
<1>1. Init => PoolInit
  BY DEF Init
<1>2. [Next]_vars => [PoolNext]_poolVars
  BY EngineUsesPool DEF vars
<1> QED
  BY <1>1, <1>2, PTL DEF Spec, PoolSpec

\* The leases of the service are exclusive, whatever fails: no error path and
\* no crash lets a worker use an account another has leased.
THEOREM EngineLeasesSafe == Spec => [](PoolTypeOK /\ LeaseExclusive)
  BY EngineRefinesPool, PoolSafe, PTL

-----------------------------------------------------------------------------

\* The time an INSERT gets is none of 0, the created_at of no row.
LEMMA NowNat == ASSUME TxTypeOK PROVE Now \subseteq Nat \ {0}
  BY DEF TxTypeOK, Now

\* The statements on the transactions table keep the types of its columns.
LEMMA TxTypes ==
  ASSUME TxTypeOK
  PROVE  /\ \A t \in TxIds : BeginSave(t) \/ SaveTransaction(t) => TxTypeOK'
         /\ \A t \in TxIds \cup {NoTx}, s \in TxStatuses :
              UpdateTransactionStatus(t, s) => TxTypeOK'
         /\ \A t \in TxIds \cup {NoTx} : IncrementRetry(t) => TxTypeOK'
         /\ UNCHANGED txVars => TxTypeOK'
<1> USE EnvelopesAssumption DEF TxTypeOK, TxStatuses
<1>1. ASSUME NEW t \in TxIds, BeginSave(t) \/ SaveTransaction(t) PROVE TxTypeOK'
  BY <1>1, NowNat DEF BeginSave, SaveTransaction, Rows
<1>2. ASSUME NEW t \in TxIds \cup {NoTx}, NEW s \in TxStatuses,
             UpdateTransactionStatus(t, s)
      PROVE  TxTypeOK'
  BY <1>2 DEF UpdateTransactionStatus
<1>3. ASSUME NEW t \in TxIds \cup {NoTx}, IncrementRetry(t) PROVE TxTypeOK'
  <2>1. \A u \in TxIds : txRetry'[u] \in {txRetry[u], txRetry[u] + 1}
    BY <1>3 DEF IncrementRetry
  <2>2. DOMAIN txRetry' = TxIds /\ txRetry' = [u \in TxIds |-> txRetry'[u]]
    BY <1>3 DEF IncrementRetry
  <2>3. txRetry' \in [TxIds -> Nat]
    BY <2>1, <2>2
  <2> QED BY <1>3, <2>3 DEF IncrementRetry
<1>4. UNCHANGED txVars => TxTypeOK'
  BY DEF txVars
<1> QED BY <1>1, <1>2, <1>3, <1>4

\* A submission and a decision keep the type of the ledger.
LEMMA LedgerTypes ==
  ASSUME LedgerTypeOK
  PROVE  /\ \A t \in TxIds \cup {NoTx}, f \in Forms : Send(t, f) => LedgerTypeOK'
         /\ \A t \in TxIds, f \in Forms : NetworkDecides(t, f) => LedgerTypeOK'
         /\ UNCHANGED ledger => LedgerTypeOK'
<1> USE DEF LedgerTypeOK, Verdicts, Forms
<1>1. ASSUME NEW t \in TxIds \cup {NoTx}, NEW f \in Forms, Send(t, f)
      PROVE  LedgerTypeOK'
  BY <1>1 DEF Send
<1>2. ASSUME NEW t \in TxIds, NEW f \in Forms, NetworkDecides(t, f)
      PROVE  LedgerTypeOK'
  BY <1>2 DEF NetworkDecides, NetworkApplies, NetworkRejects
<1> QED BY <1>1, <1>2

\* What a worker does to the columns, the ledger and its own variables.
LEMMA WorkerTypes ==
  ASSUME TypeOK, NEW r \in Replicas, WorkerStep(r)
  PROVE  TxTypeOK' /\ LedgerTypeOK' /\ WorkerTypeOK'
<1>1. TxTypeOK'
  <2>1. CASE UNCHANGED txVars
    BY <2>1, TxTypes DEF TypeOK
  <2>2. CASE \E s \in TxStatuses : UpdateTransactionStatus(job[r], s)
    BY <2>2, TxTypes DEF TypeOK, WorkerTypeOK
  <2> QED
    BY <2>1, <2>2 DEF WorkerStep, BatchStep, PollQueue, EmptyPoll, FailOver, MarkSubmitting,
      LeaseAccount, LeaseFails, RecordNoAccount, BumpSequenceNumber, Submit, Answer,
      ReleaseAccount, RecordResult, Crash, StatusWritten, StatusFailed, ResultStatus,
      TxStatuses
<1>2. LedgerTypeOK'
  BY LedgerTypes DEF TypeOK, WorkerTypeOK, Forms, WorkerStep, BatchStep, PollQueue,
    EmptyPoll, FailOver, SendAgain, MarkSubmitting, LeaseAccount, LeaseFails,
    RecordNoAccount, BumpSequenceNumber, Submit, Answer, ReleaseAccount, RecordResult, Crash
<1>3. WorkerTypeOK'
  BY DEF TypeOK, WorkerTypeOK, PcStates, Outcomes, workerVars, WorkerStep, BatchStep,
    PollQueue, EmptyPoll, FailOver, MarkSubmitting, LeaseAccount, LeaseFails,
    RecordNoAccount, BumpSequenceNumber, Submit, Answer, ReleaseAccount, RecordResult,
    Crash, Goto, BatchEnds
<1> QED BY <1>1, <1>2, <1>3

\* ... and a retrier.
LEMMA RetrierTypes ==
  ASSUME TypeOK, NEW q \in Retriers, RetrierStep(q)
  PROVE  TxTypeOK' /\ LedgerTypeOK' /\ RetryTypeOK'
<1>1. TxTypeOK'
  <2>1. CASE UNCHANGED txVars
    BY <2>1, TxTypes DEF TypeOK
  <2>2. CASE IncrementRetry(rjob[q])
    BY <2>2, TxTypes DEF TypeOK, RetryTypeOK
  <2>3. CASE \E s \in TxStatuses : UpdateTransactionStatus(rjob[q], s)
    BY <2>3, TxTypes DEF TypeOK, RetryTypeOK
  <2> QED
    BY <2>1, <2>2, <2>3 DEF RetrierStep, RetryStep, BeginRetry, CancelBackoff,
      FeeBumpFailOver, SendAgain, CountRetry, MarkRetrying, SubmitFeeBump,
      FeeBumpAnswer, RecordFeeBump, RetryCrash, FeeBumpStatus, TxStatuses
<1>2. LedgerTypeOK'
  BY LedgerTypes DEF TypeOK, RetryTypeOK, Forms, RetrierStep, RetryStep, BeginRetry,
    CancelBackoff, FeeBumpFailOver, SendAgain, CountRetry, MarkRetrying, SubmitFeeBump,
    FeeBumpAnswer, RecordFeeBump, RetryCrash
<1>3. RetryTypeOK'
  BY DEF TypeOK, RetryTypeOK, RetryStates, Outcomes, RetrierStep, RetryStep, BeginRetry,
    CancelBackoff, FeeBumpFailOver, CountRetry, MarkRetrying, SubmitFeeBump, FeeBumpAnswer,
    RecordFeeBump, RetryCrash, Advance, RetryReturns, retryVars
<1> QED BY <1>1, <1>2, <1>3

\* Every step of the service keeps every type.
LEMMA TypeStep == TypeOK /\ PoolInv /\ [Next]_vars => TypeOK'
<1> SUFFICES ASSUME TypeOK, PoolInv, [Next]_vars PROVE TypeOK'
  OBVIOUS
<1>1. PoolTypeOK'
  BY EngineUsesPool, PoolStepInv DEF vars, PoolInv
<1>2. ASSUME NEW t \in TxIds, Post(t) \/ Enqueue(t) PROVE TypeOK'
  BY <1>1, <1>2, TxTypes, LedgerTypes
  DEF Post, Enqueue, TypeOK, WorkerTypeOK, RetryTypeOK, workerVars, retryVars
<1>3. ASSUME NEW a \in Accounts, RefillAccount(a) PROVE TypeOK'
  BY <1>1, <1>3, TxTypes, LedgerTypes
  DEF RefillAccount, TypeOK, WorkerTypeOK, RetryTypeOK, workerVars, retryVars
<1>4. ASSUME NEW t \in TxIds, NEW f \in Forms, NetworkStep(t, f) PROVE TypeOK'
  BY <1>1, <1>4, TxTypes, LedgerTypes
  DEF NetworkStep, TypeOK, WorkerTypeOK, RetryTypeOK, workerVars, retryVars
<1>5. ASSUME NEW r \in Replicas, Work(r) PROVE TypeOK'
  BY <1>1, <1>5, WorkerTypes DEF Work, TypeOK, RetryTypeOK, retryVars
<1>6. ASSUME NEW q \in Retriers, Resubmit(q) PROVE TypeOK'
  BY <1>1, <1>6, RetrierTypes DEF Resubmit, TypeOK, WorkerTypeOK, workerVars
<1>7. CASE UNCHANGED vars
  BY <1>1, <1>7, TxTypes, LedgerTypes
  DEF vars, TypeOK, WorkerTypeOK, RetryTypeOK, workerVars, retryVars
<1> QED
  BY <1>2, <1>3, <1>4, <1>5, <1>6, <1>7 DEF Next

\* The initial state has every type.
LEMMA TypeInit == Init => TypeOK
  BY EnvelopesAssumption, PoolInitInv
  DEF Init, TypeOK, PoolInv, TxInit, TxTypeOK, TxStatuses, LedgerInit, LedgerTypeOK,
    Verdicts, WorkerInit, WorkerTypeOK, PcStates, RetryInit, RetryTypeOK, RetryStates

\* Every column, and everything the workers and retriers hold in memory,
\* keeps its type; the status "submitted" is never written.
THEOREM EngineTypes == Spec => []TypeOK
<1>1. Init => TypeOK /\ PoolInv
  BY TypeInit, PoolInitInv DEF Init
<1>2. TypeOK /\ PoolInv /\ [Next]_vars => (TypeOK /\ PoolInv)'
  <2>1. [Next]_vars => [PoolNext]_poolVars
    BY EngineUsesPool DEF vars
  <2> QED BY <2>1, PoolStepInv, TypeStep
<1> QED
  BY <1>1, <1>2, PTL DEF Spec

-----------------------------------------------------------------------------

SafeInv == JobsInHand /\ ConfirmedApplied /\ OncePerReplica

OffQueue(t) == txStatus[t] \notin {"absent", "pending"}

\* Three facts every step respects: a row stays, a row that left the queue
\* never returns to it, and what the ledger applied stays applied.
Monotone ==
  /\ \A t \in TxIds : txStatus[t] # "absent" => txStatus'[t] # "absent"
  /\ \A t \in TxIds : OffQueue(t) => OffQueue(t)'
  /\ \A t \in TxIds, f \in Forms :
        ledger[t][f] = "applied" => ledger'[t][f] = "applied"

\* The statements of the store do.
LEMMA TxMonotone ==
  ASSUME TxTypeOK, UNCHANGED ledger,
         \/ UNCHANGED txVars
         \/ \E t \in TxIds : BeginSave(t) \/ SaveTransaction(t) \/ IncrementRetry(t)
         \/ \E t \in TxIds, s \in {"submitting", "failed", "confirmed"} :
               UpdateTransactionStatus(t, s)
  PROVE  Monotone
  BY DEF Monotone, OffQueue, TxTypeOK, txVars, BeginSave, SaveTransaction,
    IncrementRetry, UpdateTransactionStatus

\* So do submissions and decisions of the network.
LEMMA LedgerMonotone ==
  ASSUME LedgerTypeOK, UNCHANGED txVars,
         \E t \in TxIds, f \in Forms : Send(t, f) \/ NetworkDecides(t, f)
  PROVE  Monotone
  BY DEF Monotone, OffQueue, LedgerTypeOK, txVars, Send, NetworkDecides,
    NetworkApplies, NetworkRejects, Forms

\* Every step of the service does.
LEMMA StepMonotone == TypeOK /\ JobsInHand /\ [Next]_vars => Monotone
<1> SUFFICES ASSUME TypeOK, JobsInHand, [Next]_vars PROVE Monotone
  OBVIOUS
<1> USE DEF TypeOK
<1>1. ASSUME NEW t \in TxIds, Post(t) \/ Enqueue(t) PROVE Monotone
  BY <1>1, TxMonotone DEF Post, Enqueue
<1>2. ASSUME NEW a \in Accounts, RefillAccount(a) PROVE Monotone
  BY <1>2, TxMonotone DEF RefillAccount
<1>3. ASSUME NEW t \in TxIds, NEW f \in Forms, NetworkStep(t, f) PROVE Monotone
  BY <1>3, LedgerMonotone DEF NetworkStep
<1>4. ASSUME NEW r \in Replicas, WorkerStep(r) PROVE Monotone
  <2>1. CASE Submit(r) \/ FailOver(r)
    <3>1. job[r] \in TxIds
      BY <2>1 DEF Submit, FailOver, JobsInHand
    <3> QED BY <2>1, <3>1, TxMonotone, LedgerMonotone DEF Submit, FailOver, SendAgain, Forms
  <2>2. CASE MarkSubmitting(r) \/ RecordNoAccount(r) \/ RecordResult(r)
    <3>1. job[r] \in TxIds
      BY <2>2 DEF MarkSubmitting, RecordNoAccount, RecordResult, Goto, JobsInHand
    <3> QED
      BY <2>2, <3>1, TxMonotone DEF MarkSubmitting, RecordNoAccount, RecordResult,
        StatusWritten, StatusFailed, ResultStatus
  <2>3. CASE UNCHANGED <<txVars, ledger>>
    BY <2>3, TxMonotone
  <2> QED
    BY <1>4, <2>1, <2>2, <2>3 DEF WorkerStep, BatchStep, PollQueue, EmptyPoll,
      FailOver, SendAgain, LeaseAccount, LeaseFails, BumpSequenceNumber, Answer,
      ReleaseAccount, Crash
<1>5. ASSUME NEW q \in Retriers, RetrierStep(q) PROVE Monotone
  <2>1. CASE SubmitFeeBump(q) \/ FeeBumpFailOver(q)
    <3>1. rjob[q] \in TxIds
      BY <2>1 DEF SubmitFeeBump, FeeBumpFailOver, JobsInHand
    <3> QED BY <2>1, <3>1, TxMonotone, LedgerMonotone DEF SubmitFeeBump,
    FeeBumpFailOver, SendAgain, Forms
  <2>2. CASE CountRetry(q) \/ MarkRetrying(q) \/ RecordFeeBump(q)
    <3>1. rjob[q] \in TxIds
      BY <2>2 DEF CountRetry, MarkRetrying, RecordFeeBump, Advance, JobsInHand
    <3> QED
      BY <2>2, <3>1, TxMonotone DEF CountRetry, MarkRetrying, RecordFeeBump,
        FeeBumpStatus
  <2>3. CASE UNCHANGED <<txVars, ledger>>
    BY <2>3, TxMonotone
  <2> QED
    BY <1>5, <2>1, <2>2, <2>3 DEF RetrierStep, RetryStep, BeginRetry, CancelBackoff,
      FeeBumpFailOver, SendAgain, FeeBumpAnswer, RetryCrash
<1>6. CASE UNCHANGED vars
  BY <1>6, TxMonotone DEF vars
<1> QED
  BY <1>1, <1>2, <1>3, <1>4, <1>5, <1>6 DEF Next, Work, Resubmit

-----------------------------------------------------------------------------
(* The invariant, process by process. *)

WorkerSafe(r) ==
  /\ pc[r] # "idle" => job[r] \in TxIds /\ txStatus[job[r]] # "absent"
  /\ pc[r] \notin {"idle", "fetched"} => txStatus[job[r]] # "pending"
  /\ outcome[r] = "ok" => pc[r] # "idle" /\ ledger[job[r]]["original"] = "applied"
  /\ pc[r] \in {"fetched", "marked", "leased", "ready"} => r \notin sentBy[job[r]]

RetrierSafe(q) ==
  /\ rpc[q] # "idle" => rjob[q] \in TxIds /\ OffQueue(rjob[q])
  /\ routcome[q] = "ok" => rpc[q] # "idle" /\ ledger[rjob[q]]["bump"] = "applied"

SentSafe == \A t \in TxIds : sentBy[t] # {} => OffQueue(t)

\* The parts make up the invariant.
LEMMA SafeInvParts ==
  SafeInv <=> /\ \A r \in Replicas : WorkerSafe(r)
              /\ \A q \in Retriers : RetrierSafe(q)
              /\ SentSafe
              /\ ConfirmedApplied
  BY DEF SafeInv, JobsInHand, OncePerReplica, WorkerSafe, RetrierSafe, SentSafe, OffQueue

\* A worker another process did not touch is as safe as before.
LEMMA WorkerKeeps ==
  ASSUME NEW r \in Replicas, WorkerSafe(r), Monotone, TypeOK,
         pc'[r] = pc[r], job'[r] = job[r], outcome'[r] = outcome[r],
         \A t \in TxIds : r \in sentBy'[t] => r \in sentBy[t]
  PROVE  WorkerSafe(r)'
  BY DEF WorkerSafe, Monotone, OffQueue, Forms

\* So is a retrier.
LEMMA RetrierKeeps ==
  ASSUME NEW q \in Retriers, RetrierSafe(q), Monotone,
         rpc'[q] = rpc[q], rjob'[q] = rjob[q], routcome'[q] = routcome[q]
  PROVE  RetrierSafe(q)'
  BY DEF RetrierSafe, Monotone, OffQueue, Forms

-----------------------------------------------------------------------------

\* A worker's own step keeps it safe: the row it fetched is there, a marked
\* row never becomes pending, "ok" means applied, and a replica that
\* submitted a row cannot fetch it again, for it is not pending.
LEMMA WorkerOwnStep ==
  ASSUME TypeOK, NEW r \in Replicas, WorkerSafe(r), SentSafe, Monotone, WorkerStep(r)
  PROVE  WorkerSafe(r)'
<1> USE DEF WorkerSafe, Monotone, OffQueue, TypeOK, WorkerTypeOK, PcStates, Goto, BatchEnds
<1>1. CASE PollQueue(r)
  BY <1>1 DEF PollQueue, OldestPending, SentSafe, txVars
<1>2. CASE EmptyPoll(r) \/ FailOver(r)
  BY <1>2 DEF EmptyPoll, FailOver, workerVars, txVars, Forms
<1>3. CASE MarkSubmitting(r)
  BY <1>3 DEF MarkSubmitting, StatusWritten, UpdateTransactionStatus, TxTypeOK
<1>4. CASE LeaseAccount(r) \/ LeaseFails(r) \/ BumpSequenceNumber(r) \/ ReleaseAccount(r)
  BY <1>4 DEF LeaseAccount, LeaseFails, BumpSequenceNumber, ReleaseAccount, txVars, Forms
<1>5. CASE RecordNoAccount(r) \/ RecordResult(r) \/ Crash(r)
  BY <1>5 DEF RecordNoAccount, RecordResult, Crash
<1>6. CASE Submit(r)
  BY <1>6 DEF Submit, txVars, Forms
<1>7. CASE Answer(r)
  BY <1>7 DEF Answer, MayAnswer, txVars, Outcomes
<1> QED
  BY <1>1, <1>2, <1>3, <1>4, <1>5, <1>6, <1>7 DEF WorkerStep, BatchStep

\* A worker's step leaves the other workers' variables alone.
LEMMA WorkerFrame ==
  ASSUME TypeOK, NEW r \in Replicas, WorkerSafe(r), WorkerStep(r), NEW s \in Replicas, s # r
  PROVE  /\ pc'[s] = pc[s] /\ job'[s] = job[s] /\ outcome'[s] = outcome[s]
         /\ \A t \in TxIds : s \in sentBy'[t] => s \in sentBy[t]
  BY DEF TypeOK, WorkerTypeOK, WorkerStep, BatchStep, PollQueue, EmptyPoll, FailOver,
    SendAgain, MarkSubmitting, LeaseAccount, LeaseFails, RecordNoAccount,
    BumpSequenceNumber, Submit, Answer, ReleaseAccount, RecordResult, Crash, Goto,
    BatchEnds, workerVars

\* Only marked rows are submitted, and they are off the queue for good.
LEMMA WorkerSent ==
  ASSUME TypeOK, NEW r \in Replicas, WorkerSafe(r), SentSafe, Monotone, WorkerStep(r)
  PROVE  SentSafe'
<1>1. CASE Submit(r)
  BY <1>1 DEF Submit, SentSafe, Monotone, OffQueue, WorkerSafe, TypeOK, WorkerTypeOK
<1>2. CASE UNCHANGED sentBy
  BY <1>2 DEF SentSafe, Monotone, OffQueue
<1> QED
  BY <1>1, <1>2 DEF WorkerStep, BatchStep, PollQueue, EmptyPoll, FailOver, MarkSubmitting,
    LeaseAccount, LeaseFails, RecordNoAccount, BumpSequenceNumber, Answer,
    ReleaseAccount, RecordResult, Crash, Goto, BatchEnds, workerVars

\* A worker confirms what the network applied and nothing else.
LEMMA WorkerConfirms ==
  ASSUME TypeOK, NEW r \in Replicas, WorkerSafe(r), ConfirmedApplied, Monotone,
  WorkerStep(r)
  PROVE  ConfirmedApplied'
<1>1. \A t \in TxIds : Applied(t) => Applied(t)'
  BY DEF Monotone, Applied
<1>2. CASE RecordResult(r)
  <2>1. ResultStatus(outcome[r]) = "confirmed" => Applied(job[r])
    BY <1>2 DEF RecordResult, ResultStatus, WorkerSafe, Applied, Forms
  <2>2. \A t \in TxIds : txStatus'[t] = "confirmed" =>
          \/ txStatus[t] = "confirmed"
          \/ t = job[r] /\ ResultStatus(outcome[r]) = "confirmed"
    BY <1>2 DEF RecordResult, StatusWritten, StatusFailed, UpdateTransactionStatus,
      TypeOK, TxTypeOK, txVars
  <2> QED BY <1>1, <2>1, <2>2 DEF ConfirmedApplied
<1>3. CASE ~ RecordResult(r)
  <2>1. \A t \in TxIds : txStatus'[t] = "confirmed" => txStatus[t] = "confirmed"
    BY <1>3 DEF WorkerStep, BatchStep, PollQueue, EmptyPoll, FailOver, MarkSubmitting,
      LeaseAccount, LeaseFails, RecordNoAccount, BumpSequenceNumber, Submit, Answer,
      ReleaseAccount, Crash, StatusWritten, StatusFailed, UpdateTransactionStatus,
      TypeOK, TxTypeOK, txVars
  <2> QED BY <1>1, <2>1 DEF ConfirmedApplied
<1> QED BY <1>2, <1>3

\* A retrier's own step keeps it safe.
LEMMA RetrierOwnStep ==
  ASSUME TypeOK, NEW q \in Retriers, RetrierSafe(q), Monotone, RetrierStep(q)
  PROVE  RetrierSafe(q)'
<1> USE DEF RetrierSafe, Monotone, OffQueue, TypeOK, RetryTypeOK, RetryStates, Advance,
RetryReturns
<1>1. CASE BeginRetry(q)
  BY <1>1 DEF BeginRetry, txVars
<1>2. CASE CountRetry(q) \/ MarkRetrying(q) \/ SubmitFeeBump(q)
  BY <1>2 DEF CountRetry, MarkRetrying, SubmitFeeBump, Forms
<1>3. CASE FeeBumpAnswer(q)
  BY <1>3 DEF FeeBumpAnswer, MayAnswer, txVars
<1>4. CASE CancelBackoff(q) \/ FeeBumpFailOver(q) \/ RecordFeeBump(q) \/ RetryCrash(q)
  BY <1>4 DEF CancelBackoff, FeeBumpFailOver, RecordFeeBump, RetryCrash, retryVars, txVars,
    Forms
<1> QED
  BY <1>1, <1>2, <1>3, <1>4 DEF RetrierStep, RetryStep

\* A retrier's step leaves the other retriers' variables alone.
LEMMA RetrierFrame ==
  ASSUME TypeOK, NEW q \in Retriers, RetrierStep(q), NEW p \in Retriers, p # q
  PROVE  rpc'[p] = rpc[p] /\ rjob'[p] = rjob[p] /\ routcome'[p] = routcome[p]
  BY DEF TypeOK, RetryTypeOK, RetrierStep, RetryStep, BeginRetry, CancelBackoff,
    FeeBumpFailOver, SendAgain, CountRetry, MarkRetrying, SubmitFeeBump, FeeBumpAnswer,
    RecordFeeBump, RetryCrash, Advance, RetryReturns, retryVars

\* A retrier confirms what the network applied and nothing else.
LEMMA RetrierConfirms ==
  ASSUME TypeOK, NEW q \in Retriers, RetrierSafe(q), ConfirmedApplied, Monotone,
  RetrierStep(q)
  PROVE  ConfirmedApplied'
<1>1. \A t \in TxIds : Applied(t) => Applied(t)'
  BY DEF Monotone, Applied
<1>2. CASE RecordFeeBump(q)
  <2>1. FeeBumpStatus(routcome[q]) = "confirmed" => Applied(rjob[q])
    BY <1>2 DEF RecordFeeBump, FeeBumpStatus, RetrierSafe, Applied, Forms
  <2>2. \A t \in TxIds : txStatus'[t] = "confirmed" =>
          \/ txStatus[t] = "confirmed"
          \/ t = rjob[q] /\ FeeBumpStatus(routcome[q]) = "confirmed"
    BY <1>2 DEF RecordFeeBump, UpdateTransactionStatus, TypeOK, TxTypeOK, txVars
  <2> QED BY <1>1, <2>1, <2>2 DEF ConfirmedApplied
<1>3. CASE ~ RecordFeeBump(q)
  <2>1. \A t \in TxIds : txStatus'[t] = "confirmed" => txStatus[t] = "confirmed"
    BY <1>3 DEF RetrierStep, RetryStep, BeginRetry, CancelBackoff, FeeBumpFailOver,
      CountRetry, MarkRetrying, SubmitFeeBump, FeeBumpAnswer, RetryCrash,
      UpdateTransactionStatus, IncrementRetry, TypeOK, TxTypeOK, txVars
  <2> QED BY <1>1, <2>1 DEF ConfirmedApplied
<1> QED BY <1>2, <1>3

\* Every step of the service keeps the invariant.
LEMMA SafeStep == TypeOK /\ SafeInv /\ [Next]_vars => SafeInv'
<1> SUFFICES ASSUME TypeOK, SafeInv, [Next]_vars PROVE SafeInv'
  OBVIOUS
<1>1. Monotone
  BY StepMonotone DEF SafeInv
<1>2. /\ \A r \in Replicas : WorkerSafe(r)
      /\ \A q \in Retriers : RetrierSafe(q)
      /\ SentSafe /\ ConfirmedApplied
  BY SafeInvParts
<1>3. SUFFICES /\ \A r \in Replicas : WorkerSafe(r)'
               /\ \A q \in Retriers : RetrierSafe(q)'
               /\ SentSafe' /\ ConfirmedApplied'
  BY DEF SafeInv, JobsInHand, OncePerReplica, WorkerSafe, RetrierSafe, SentSafe, OffQueue
<1>4. UNCHANGED workerVars => (\A r \in Replicas : WorkerSafe(r)') /\ SentSafe'
  BY <1>1, <1>2, WorkerKeeps DEF workerVars, SentSafe, Monotone, OffQueue
<1>5. UNCHANGED retryVars => \A q \in Retriers : RetrierSafe(q)'
  BY <1>1, <1>2, RetrierKeeps DEF retryVars
<1>6. (\A t \in TxIds : txStatus'[t] = "confirmed" => txStatus[t] = "confirmed")
        => ConfirmedApplied'
  BY <1>1, <1>2 DEF ConfirmedApplied, Monotone, Applied
<1>7. ASSUME NEW t \in TxIds, Post(t) \/ Enqueue(t) PROVE ConfirmedApplied'
  BY <1>6, <1>7 DEF Post, BeginSave, Enqueue, SaveTransaction, TypeOK, TxTypeOK
<1>8. CASE \/ \E t \in TxIds : Post(t) \/ Enqueue(t)
           \/ \E a \in Accounts : RefillAccount(a)
           \/ \E t \in TxIds, f \in Forms : NetworkStep(t, f)
           \/ UNCHANGED vars
  BY <1>4, <1>5, <1>6, <1>7, <1>8 DEF Post, Enqueue, RefillAccount, NetworkStep, vars, txVars
<1>9. ASSUME NEW r \in Replicas, Work(r)
      PROVE  /\ \A s \in Replicas : WorkerSafe(s)'
             /\ SentSafe' /\ ConfirmedApplied' /\ UNCHANGED retryVars
  <2>1. WorkerStep(r) /\ UNCHANGED retryVars
    BY <1>9 DEF Work
  <2>2. WorkerSafe(r)'
    BY <1>1, <1>2, <2>1, WorkerOwnStep
  <2>3. ASSUME NEW s \in Replicas, s # r PROVE WorkerSafe(s)'
    BY <1>1, <1>2, <2>1, <2>3, WorkerFrame, WorkerKeeps
  <2> QED BY <1>1, <1>2, <2>1, <2>2, <2>3, WorkerSent, WorkerConfirms
<1>10. ASSUME NEW q \in Retriers, Resubmit(q)
       PROVE  /\ \A p \in Retriers : RetrierSafe(p)'
              /\ ConfirmedApplied' /\ UNCHANGED workerVars
  <2>1. RetrierStep(q) /\ UNCHANGED workerVars
    BY <1>10 DEF Resubmit
  <2>2. RetrierSafe(q)'
    BY <1>1, <1>2, <2>1, RetrierOwnStep
  <2>3. ASSUME NEW p \in Retriers, p # q PROVE RetrierSafe(p)'
    BY <1>1, <1>2, <2>1, <2>3, RetrierFrame, RetrierKeeps
  <2> QED BY <1>1, <1>2, <2>1, <2>2, <2>3, RetrierConfirms
<1> QED
  BY <1>4, <1>5, <1>8, <1>9, <1>10 DEF Next

\* With no rows, no jobs and nothing submitted, the invariant holds.
LEMMA SafeInit == Init => SafeInv
  BY DEF Init, TxInit, WorkerInit, RetryInit, SafeInv, JobsInHand, ConfirmedApplied,
    OncePerReplica

\* Whatever is lost, retried or written by several workers, and wherever
\* processes stop: a confirmed transaction is in the ledger, and no replica
\* submits an envelope twice.
THEOREM EngineSafe == Spec => [](ConfirmedApplied /\ OncePerReplica)
<1>1. Init => SafeInv
  BY SafeInit
<1>2. TypeOK /\ SafeInv /\ [Next]_vars => SafeInv'
  BY SafeStep
<1>3. SafeInv => ConfirmedApplied /\ OncePerReplica
  BY DEF SafeInv
<1> QED
  BY <1>1, <1>2, <1>3, EngineTypes, PTL DEF Spec

-----------------------------------------------------------------------------
(* Leases and the workers that hold them, when statements do not fail.     *)

HoldsLease(r) ==
  /\ held[r] # NoAccount => pc[r] \in {"leased", "ready", "awaiting", "answered"}
  /\ pc[r] \in {"ready", "awaiting", "answered"} =>
       held[r] # NoAccount /\ acctSeq[held[r]] = leaseSeq[r] + 1

\* What another replica does to its own lease does not touch this one.
LEMMA PoolFrame ==
  ASSUME PoolInv, NEW r \in Replicas, NEW s \in Replicas, s # r,
         \/ UNCHANGED poolVars
         \/ \E a \in Accounts : AddAccount(a) \/ LeaseUnacknowledged(a) \/ Lease(r, a)
         \/ BumpSequence(r) \/ Release(r) \/ Abandon(r)
  PROVE  /\ held'[s] = held[s] /\ leaseSeq'[s] = leaseSeq[s]
         /\ held[s] # NoAccount => acctSeq'[held[s]] = acctSeq[held[s]]
<1> USE DEF PoolInv, PoolTypeOK
<1>1. held[s] # NoAccount => held[s] \in Accounts /\ acctStatus[held[s]] = "leased"
  BY DEF LeaseExclusive
<1>2. held[s] # NoAccount => held[s] # held[r]
  BY DEF LeaseExclusive
<1>3. ASSUME NEW a \in Accounts, AddAccount(a) \/ LeaseUnacknowledged(a) \/ Lease(r, a)
      PROVE  /\ held'[s] = held[s] /\ leaseSeq'[s] = leaseSeq[s]
             /\ held[s] # NoAccount => acctSeq'[held[s]] = acctSeq[held[s]]
  BY <1>1, <1>3 DEF AddAccount, LeaseUnacknowledged, Lease
<1>4. CASE BumpSequence(r) \/ Release(r) \/ Abandon(r)
  BY <1>1, <1>2, <1>4 DEF BumpSequence, Release, Abandon, Drop
<1>5. CASE UNCHANGED poolVars
  BY <1>5 DEF poolVars
<1> QED
  BY <1>3, <1>4, <1>5

\* The pool as one replica's step, or the operator's, sees it.
LEMMA WorkerUsesPool ==
  ASSUME NEW r \in Replicas, WorkerStep(r)
  PROVE  \/ UNCHANGED poolVars
         \/ \E a \in Accounts : AddAccount(a) \/ LeaseUnacknowledged(a) \/ Lease(r, a)
         \/ BumpSequence(r) \/ Release(r) \/ Abandon(r)
  BY DEF WorkerStep, BatchStep, PollQueue, EmptyPoll, MarkSubmitting, LeaseAccount, LeaseFails,
         RecordNoAccount, BumpSequenceNumber, Submit, FailOver, Answer, ReleaseAccount,
         RecordResult, Crash

\* Nor does it move the other along its batch.
LEMMA OthersStay ==
  ASSUME TypeOK, NEW r \in Replicas, WorkerStep(r), NEW s \in Replicas, s # r
  PROVE  pc'[s] = pc[s] /\ job'[s] = job[s]
  BY DEF TypeOK, WorkerTypeOK, WorkerStep, BatchStep, PollQueue, EmptyPoll, FailOver,
    MarkSubmitting, LeaseAccount, LeaseFails, RecordNoAccount, BumpSequenceNumber, Submit,
    Answer, ReleaseAccount, RecordResult, Crash, Goto, BatchEnds, workerVars

\* A replica's own step: it bumps the number before it submits.
LEMMA LeaseOwnStep ==
  ASSUME ~ DbFault, TypeOK, PoolInv, NEW r \in Replicas, HoldsLease(r), WorkerStep(r)
  PROVE  HoldsLease(r)'
<1> USE DEF HoldsLease, TypeOK, PoolTypeOK, WorkerTypeOK, PcStates, Goto, BatchEnds
<1>1. CASE PollQueue(r) \/ EmptyPoll(r) \/ MarkSubmitting(r) \/ RecordNoAccount(r)
           \/ RecordResult(r) \/ FailOver(r)
  BY <1>1 DEF PollQueue, EmptyPoll, MarkSubmitting, RecordNoAccount, RecordResult, FailOver,
              poolVars, workerVars
<1>2. CASE LeaseAccount(r)
  BY <1>2 DEF LeaseAccount, Lease
<1>3. CASE LeaseFails(r)
  BY <1>3 DEF LeaseFails, poolVars
<1>4. CASE BumpSequenceNumber(r)
  <2>1. /\ pc[r] = "leased" /\ pc' = [pc EXCEPT ![r] = "ready"]
        /\ held[r] \in Accounts /\ acctSeq' = [acctSeq EXCEPT ![held[r]] = leaseSeq[r] + 1]
        /\ UNCHANGED <<held, leaseSeq>> /\ held[r] # NoAccount
    BY <1>4 DEF BumpSequenceNumber, BumpSequence
  <2> QED
    BY <2>1
<1>5. CASE Submit(r) \/ Answer(r)
  BY <1>5 DEF Submit, Answer, poolVars
<1>6. CASE ReleaseAccount(r)
  BY <1>6 DEF ReleaseAccount, Release, Drop
<1>7. CASE Crash(r)
  BY <1>7 DEF Crash, Abandon, LeaseUnacknowledged, Drop, poolVars
<1> QED
  BY <1>1, <1>2, <1>3, <1>4, <1>5, <1>6, <1>7 DEF WorkerStep, BatchStep

LEMMA LeaseStep ==
  ASSUME ~ DbFault, TypeOK, PoolInv, \A r \in Replicas : HoldsLease(r), [Next]_vars
  PROVE  \A r \in Replicas : HoldsLease(r)'
<1>1. CASE UNCHANGED <<poolVars, workerVars>>
  BY <1>1 DEF HoldsLease, poolVars, workerVars
<1>2. ASSUME NEW a \in Accounts, AddAccount(a), UNCHANGED workerVars, NEW r \in Replicas
      PROVE  HoldsLease(r)'
  <2>1. held[r] # NoAccount => held[r] \in Accounts /\ held[r] # a
    BY <1>2 DEF AddAccount, PoolInv, PoolTypeOK, LeaseExclusive
  <2> QED
    BY <1>2, <2>1 DEF AddAccount, HoldsLease, workerVars, PoolInv, PoolTypeOK
<1>3. ASSUME NEW r \in Replicas, WorkerStep(r), NEW s \in Replicas PROVE HoldsLease(s)'
  <2>1. CASE s = r
    BY <1>3, <2>1, LeaseOwnStep
  <2>2. CASE s # r
    <3>1. /\ held'[s] = held[s] /\ leaseSeq'[s] = leaseSeq[s]
          /\ held[s] # NoAccount => acctSeq'[held[s]] = acctSeq[held[s]]
      BY <1>3, <2>2, PoolFrame, WorkerUsesPool
    <3>2. pc'[s] = pc[s]
      BY <1>3, <2>2, OthersStay
    <3> QED
      BY <3>1, <3>2 DEF HoldsLease
  <2> QED
    BY <2>1, <2>2
<1> QED
  BY <1>1, <1>2, <1>3
     DEF Next, Post, Enqueue, RefillAccount, NetworkStep, Work, Resubmit, vars

\* pool.Release after UpdateSequenceNumber: an account that goes back to the
\* pool has the number after the one its lease returned.  When statements
\* fail that is not so, for the error of UpdateSequenceNumber is only logged.
THEOREM LeasesAdvance == ~ DbFault => (Spec => ReturnedAdvanced)
<1> SUFFICES ASSUME ~ DbFault PROVE Spec => ReturnedAdvanced
  OBVIOUS
<1> DEFINE Inv == TypeOK /\ PoolInv /\ \A r \in Replicas : HoldsLease(r)
<1>1. Init => Inv
  BY TypeInit, PoolInitInv DEF Init, PoolInit, WorkerInit, HoldsLease
<1>2. Inv /\ [Next]_vars => Inv'
  <2>1. [Next]_vars => [PoolNext]_poolVars
    BY EngineUsesPool DEF vars
  <2> QED
    BY <2>1, PoolStepInv, TypeStep, LeaseStep
<1>3. ASSUME Inv, [Next]_vars, NEW r \in Replicas, held[r] # NoAccount, held'[r] = NoAccount,
             acctStatus'[held[r]] = "idle"
      PROVE  acctSeq[held[r]] = leaseSeq[r] + 1
  <2>1. acctStatus[held[r]] = "leased" /\ held[r] \in Accounts
    BY <1>3 DEF PoolInv, PoolTypeOK, LeaseExclusive
  <2>2. ASSUME NEW s \in Replicas, WorkerStep(s) PROVE pc[r] = "answered"
    <3>1. s = r
      BY <1>3, <2>2, PoolFrame, WorkerUsesPool
    <3>2. \A a \in Accounts : ~ (AddAccount(a) \/ LeaseUnacknowledged(a) \/ Lease(r, a))
      BY <1>3, <2>1 DEF AddAccount, LeaseUnacknowledged, Lease
    <3>3. ~ UNCHANGED poolVars /\ ~ BumpSequence(r) /\ ~ Abandon(r)
      BY <1>3, <2>1 DEF poolVars, BumpSequence, Abandon
    <3>4. Release(r)
      BY <2>2, <3>1, <3>2, <3>3, WorkerUsesPool
    <3>5. ReleaseAccount(r)
      BY <2>2, <3>1, <3>2, <3>3, <3>4
         DEF WorkerStep, BatchStep, PollQueue, EmptyPoll, MarkSubmitting, LeaseAccount,
             LeaseFails, RecordNoAccount, BumpSequenceNumber, Submit, FailOver, Answer,
             RecordResult, Crash
    <3> QED
      BY <3>5 DEF ReleaseAccount, Goto
  <2>3. ASSUME UNCHANGED held PROVE FALSE
    BY <1>3, <2>3
  <2>4. \E s \in Replicas : WorkerStep(s)
    BY <1>3, <2>3
       DEF Next, Post, Enqueue, RefillAccount, AddAccount, NetworkStep, Work, Resubmit, vars,
           poolVars
  <2> QED
    BY <1>3, <2>2, <2>4 DEF HoldsLease
<1>4. Inv /\ [Next]_vars => [\A r \in Replicas :
         held[r] # NoAccount /\ held'[r] = NoAccount /\ acctStatus'[held[r]] = "idle"
           => acctSeq[held[r]] = leaseSeq[r] + 1]_vars
  BY <1>3
<1> HIDE DEF Inv
<1> QED
  BY <1>1, <1>2, <1>4, PTL DEF Spec, ReturnedAdvanced

-----------------------------------------------------------------------------

\* A row that is submitting keeps its worker, and one that a worker marks has
\* that worker.
LEMMA HasWorkerStep ==
  ASSUME Retriers = {}, ~ DbFault, ~ CrashFault,
         TypeOK, JobsInHand, SubmittingHasWorker, [Next]_vars
  PROVE  SubmittingHasWorker'
<1> SUFFICES ASSUME NEW t \in TxIds, txStatus'[t] = "submitting"
             PROVE  \E r \in Replicas : job'[r] = t /\ pc'[r] \notin {"idle", "fetched"}
  BY DEF SubmittingHasWorker
<1> USE DEF TypeOK, TxTypeOK, WorkerTypeOK
<1>1. CASE txStatus[t] = "submitting" /\ UNCHANGED workerVars
  BY <1>1 DEF SubmittingHasWorker, workerVars
<1>2. ASSUME NEW u \in TxIds, Post(u) \/ Enqueue(u)
      PROVE  txStatus[t] = "submitting" /\ UNCHANGED workerVars
  BY <1>2 DEF Post, BeginSave, Enqueue, SaveTransaction
<1>3. ASSUME NEW r \in Replicas, WorkerStep(r)
      PROVE  \E s \in Replicas : job'[s] = t /\ pc'[s] \notin {"idle", "fetched"}
  <2>1. \A s \in Replicas : s # r => pc'[s] = pc[s] /\ job'[s] = job[s]
    BY <1>3, OthersStay
  <2>2. CASE MarkSubmitting(r)
    <3>1. /\ pc[r] = "fetched" /\ job[r] \in TxIds /\ UNCHANGED job
          /\ pc' = [pc EXCEPT ![r] = "marked"]
          /\ txStatus' = [txStatus EXCEPT ![job[r]] = "submitting"]
      BY <2>2 DEF MarkSubmitting, Goto, StatusWritten, StatusFailed, UpdateTransactionStatus,
                  JobsInHand
    <3>2. CASE t = job[r]
      BY <3>1, <3>2
    <3>3. CASE t # job[r]
      BY <3>1, <3>3, <2>1 DEF SubmittingHasWorker
    <3> QED
      BY <3>2, <3>3
  <2>3. CASE RecordNoAccount(r) \/ RecordResult(r)
    <3>1. PICK to \in {"failed", "confirmed"} :
            job[r] \in TxIds /\ txStatus' = [txStatus EXCEPT ![job[r]] = to]
      BY <2>3 DEF RecordNoAccount, RecordResult, StatusWritten, StatusFailed, ResultStatus,
                  UpdateTransactionStatus, JobsInHand
    <3>2. t # job[r] /\ txStatus[t] = "submitting"
      BY <3>1
    <3> QED
      BY <2>1, <3>2 DEF SubmittingHasWorker
  <2>4. CASE /\ UNCHANGED txStatus
             /\ pc[r] \notin {"idle", "fetched"} =>
                  pc'[r] \notin {"idle", "fetched"} /\ job'[r] = job[r]
    BY <2>1, <2>4 DEF SubmittingHasWorker
  <2>5. CASE \/ PollQueue(r) \/ EmptyPoll(r) \/ LeaseAccount(r) \/ LeaseFails(r)
             \/ BumpSequenceNumber(r) \/ Submit(r) \/ FailOver(r) \/ Answer(r)
             \/ ReleaseAccount(r)
    BY <2>4, <2>5 DEF PollQueue, EmptyPoll, LeaseAccount, LeaseFails, BumpSequenceNumber,
      Submit, FailOver, Answer, ReleaseAccount, Goto, txVars, workerVars
  <2> QED
    BY <1>3, <2>2, <2>3, <2>5 DEF WorkerStep, BatchStep, Crash
<1> QED
  BY <1>1, <1>2, <1>3
     DEF Next, RefillAccount, NetworkStep, Work, Resubmit, vars, txVars, workerVars

\* processBatch loses no row it marked: as long as statements succeed, no
\* replica stops and nobody calls Retry, a submitting row has a worker that
\* will write its status.
THEOREM MarkedRowsHaveWorkers ==
  Retriers = {} /\ ~ DbFault /\ ~ CrashFault => (Spec => []SubmittingHasWorker)
<1> SUFFICES ASSUME Retriers = {}, ~ DbFault, ~ CrashFault
             PROVE  Spec => []SubmittingHasWorker
  OBVIOUS
<1>1. Init => SubmittingHasWorker
  BY DEF Init, TxInit, SubmittingHasWorker
<1>2. TypeOK /\ JobsInHand /\ SubmittingHasWorker /\ [Next]_vars => SubmittingHasWorker'
  BY HasWorkerStep
<1>3. SafeInv => JobsInHand
  BY DEF SafeInv
<1> QED
  BY <1>1, <1>2, <1>3, EngineTypes, SafeInit, SafeStep, PTL DEF Spec
=============================================================================
