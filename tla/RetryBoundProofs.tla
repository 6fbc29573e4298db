--------------------------- MODULE RetryBoundProofs --------------------------
(***************************************************************************)
(* How far concurrent calls of Retry can push retry_count past             *)
(* MAX_RETRY_ATTEMPTS.  RetryBound is not inductive: a call that has read  *)
(* the count and waits out its backoff will still add one.  RetryBudget    *)
(* counts those calls with the attempts already made.                      *)
(***************************************************************************)
EXTENDS SubmissionEngineProofs, FiniteSetTheorems

Waiting(t) == {q \in Retriers : rpc[q] = "backoff" /\ rjob[q] = t}

RetryBudget ==
  \A t \in TxIds :
    \/ txRetry[t] = 0 /\ Waiting(t) = {}
    \/ txRetry[t] + Cardinality(Waiting(t)) < MaxRetryAttempts + Cardinality(Retriers)

\* The waiting calls can be counted, and they are no more than the callers.
LEMMA WaitingFinite ==
  ASSUME NEW t
  PROVE  /\ IsFiniteSet(Waiting(t))
         /\ Cardinality(Waiting(t)) \in Nat
         /\ Cardinality(Retriers) \in Nat
         /\ Cardinality(Waiting(t)) <= Cardinality(Retriers)
<1>1. Waiting(t) \subseteq Retriers
  BY DEF Waiting
<1> QED BY <1>1, RetryAssumption, FS_Subset, FS_CardinalityType

\* A step that adds no waiting call and no attempt keeps the budget.
LEMMA BudgetShrinks ==
  ASSUME TypeOK, RetryBudget, NEW t \in TxIds,
         Waiting(t)' \subseteq Waiting(t), txRetry'[t] = txRetry[t]
  PROVE  \/ txRetry'[t] = 0 /\ Waiting(t)' = {}
         \/ txRetry'[t] + Cardinality(Waiting(t)')
              < MaxRetryAttempts + Cardinality(Retriers)
<1>1. /\ Cardinality(Waiting(t)') \in Nat
      /\ Cardinality(Waiting(t)') <= Cardinality(Waiting(t))
  BY WaitingFinite, FS_Subset, FS_CardinalityType
<1> QED
  BY <1>1, WaitingFinite, RetryAssumption DEF RetryBudget, TypeOK, TxTypeOK

\* A call that passes the checks reads a count below the limit.
LEMMA BudgetBegins ==
  ASSUME TypeOK, RetryBudget, NEW q \in Retriers, BeginRetry(q)
  PROVE  RetryBudget'
<1> PICK t \in TxIds : txRetry[t] < MaxRetryAttempts /\ rjob' = [rjob EXCEPT ![q] = t]
  BY DEF BeginRetry
<1>1. rpc[q] = "idle" /\ rpc' = [rpc EXCEPT ![q] = "backoff"] /\ txRetry' = txRetry
  BY DEF BeginRetry, txVars
<1>2. \A u \in TxIds : u # t => Waiting(u)' \subseteq Waiting(u)
  BY <1>1 DEF Waiting, TypeOK, RetryTypeOK
<1>3. /\ Cardinality(Waiting(t)') \in Nat
      /\ Cardinality(Waiting(t)') <= Cardinality(Retriers)
  <2>1. Waiting(t)' \subseteq Retriers
    BY DEF Waiting
  <2> QED BY <2>1, RetryAssumption, FS_Subset, FS_CardinalityType
<1>4. txRetry'[t] + Cardinality(Waiting(t)') < MaxRetryAttempts + Cardinality(Retriers)
  BY <1>1, <1>3, WaitingFinite, RetryAssumption DEF TypeOK, TxTypeOK
<1> QED
  BY <1>1, <1>2, <1>4, BudgetShrinks DEF RetryBudget

\* A call that counts its attempt waits no more.
LEMMA BudgetCounts ==
  ASSUME TypeOK, SafeInv, RetryBudget, NEW q \in Retriers, CountRetry(q)
  PROVE  RetryBudget'
<1>1. /\ rpc[q] = "backoff" /\ rjob[q] \in TxIds
      /\ \A p \in Retriers : p # q => rpc'[p] = rpc[p] /\ rjob'[p] = rjob[p]
      /\ rpc'[q] # "backoff"
  BY DEF CountRetry, Advance, RetryReturns, SafeInv, JobsInHand, TypeOK, RetryTypeOK
<1>2. \A u \in TxIds : Waiting(u)' = Waiting(u) \ {q}
  BY <1>1 DEF Waiting
<1>3. CASE UNCHANGED txVars
  BY <1>2, <1>3, BudgetShrinks DEF RetryBudget, txVars
<1>4. CASE IncrementRetry(rjob[q])
  <2> PICK t \in TxIds : t = rjob[q]
    BY <1>1
  <2>1. q \in Waiting(t)
    BY <1>1 DEF Waiting
  <2>2. Cardinality(Waiting(t)') = Cardinality(Waiting(t)) - 1
    BY <1>1, <1>2, <2>1, WaitingFinite, FS_RemoveElement
  <2>3. txRetry'[t] = txRetry[t] + 1
    BY <1>1, <1>4 DEF IncrementRetry, TypeOK, TxTypeOK
  <2>4. txRetry[t] + Cardinality(Waiting(t)) < MaxRetryAttempts + Cardinality(Retriers)
    BY <1>1, <2>1 DEF RetryBudget
  <2>5. txRetry'[t] + Cardinality(Waiting(t)') < MaxRetryAttempts + Cardinality(Retriers)
    BY <1>1, <2>2, <2>3, <2>4, WaitingFinite DEF TypeOK, TxTypeOK
  <2>6. \A u \in TxIds : u # t => txRetry'[u] = txRetry[u]
    BY <1>4 DEF IncrementRetry, TypeOK, TxTypeOK
  <2>7. \A u \in TxIds : u # t =>
          \/ txRetry'[u] = 0 /\ Waiting(u)' = {}
          \/ txRetry'[u] + Cardinality(Waiting(u)')
               < MaxRetryAttempts + Cardinality(Retriers)
    BY <1>2, <2>6, BudgetShrinks
  <2> QED BY <2>5, <2>7 DEF RetryBudget
<1> QED BY <1>3, <1>4 DEF CountRetry

\* Every step of the service keeps the budget.
LEMMA BudgetStep == TypeOK /\ SafeInv /\ RetryBudget /\ [Next]_vars => RetryBudget'
<1> SUFFICES ASSUME TypeOK, SafeInv, RetryBudget, [Next]_vars PROVE RetryBudget'
  OBVIOUS
<1>1. ASSUME txRetry' = txRetry, \A t \in TxIds : Waiting(t)' \subseteq Waiting(t)
      PROVE  RetryBudget'
  BY <1>1, BudgetShrinks DEF RetryBudget
<1>2. CASE UNCHANGED retryVars /\ txRetry' = txRetry
  BY <1>1, <1>2 DEF retryVars, Waiting
<1>3. ASSUME NEW r \in Replicas, Work(r) PROVE UNCHANGED retryVars /\ txRetry' = txRetry
  BY <1>3 DEF Work, WorkerStep, BatchStep, PollQueue, EmptyPoll, FailOver, MarkSubmitting,
    LeaseAccount, LeaseFails, RecordNoAccount, BumpSequenceNumber, Submit, Answer,
    ReleaseAccount, RecordResult, Crash, StatusWritten, StatusFailed,
    UpdateTransactionStatus, txVars
<1>4. CASE \/ \E t \in TxIds : Post(t) \/ Enqueue(t)
           \/ \E a \in Accounts : RefillAccount(a)
           \/ \E t \in TxIds, f \in Forms : NetworkStep(t, f)
           \/ UNCHANGED vars
  BY <1>2, <1>4 DEF Post, BeginSave, Enqueue, SaveTransaction, RefillAccount, NetworkStep,
     vars, txVars
<1>5. ASSUME NEW q \in Retriers, Resubmit(q) PROVE RetryBudget'
  <2>1. CASE BeginRetry(q)
    BY <2>1, BudgetBegins
  <2>2. CASE CountRetry(q)
    BY <2>2, BudgetCounts
  <2>3. CASE \/ CancelBackoff(q) \/ FeeBumpFailOver(q) \/ MarkRetrying(q) \/ SubmitFeeBump(q)
             \/ FeeBumpAnswer(q) \/ RecordFeeBump(q) \/ RetryCrash(q)
    <3>1. txRetry' = txRetry
      BY <2>3 DEF CancelBackoff, FeeBumpFailOver, MarkRetrying, SubmitFeeBump,
        FeeBumpAnswer, RecordFeeBump, RetryCrash, UpdateTransactionStatus, txVars
    <3>2. \A p \in Retriers :
            rpc'[p] = "backoff" => rpc[p] = "backoff" /\ rjob'[p] = rjob[p]
      BY <2>3 DEF CancelBackoff, FeeBumpFailOver, MarkRetrying, SubmitFeeBump,
        FeeBumpAnswer, RecordFeeBump, RetryCrash, Advance, RetryReturns, retryVars,
        TypeOK, RetryTypeOK
    <3> QED BY <1>1, <3>1, <3>2 DEF Waiting
  <2> QED BY <1>5, <2>1, <2>2, <2>3 DEF Resubmit, RetrierStep, RetryStep
<1> QED
  BY <1>2, <1>3, <1>4, <1>5 DEF Next

\* No transaction is retried more than MAX_RETRY_ATTEMPTS times plus one
\* time for each further concurrent call of Retry.
THEOREM RetryBounded == Spec => []RetryBound
<1>1. Init => RetryBudget
  BY DEF Init, TxInit, RetryInit, RetryBudget, Waiting
<1>2. TypeOK /\ SafeInv /\ RetryBudget /\ [Next]_vars => RetryBudget'
  BY BudgetStep
<1>3. TypeOK /\ RetryBudget => RetryBound
  BY WaitingFinite, RetryAssumption DEF RetryBudget, RetryBound, TypeOK, TxTypeOK
<1>4. Init => SafeInv
  BY SafeInit
<1>5. TypeOK /\ SafeInv /\ [Next]_vars => SafeInv'
  BY SafeStep
<1> QED
  BY <1>1, <1>2, <1>3, <1>4, <1>5, EngineTypes, PTL DEF Spec
=============================================================================
