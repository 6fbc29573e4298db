--------------------------- MODULE TransactionLife ---------------------------
(***************************************************************************)
(* What the service promises a caller about one transaction, without       *)
(* workers, accounts or retries: the statuses GET /transactions/{id} shows, *)
(* the order transactions leave the queue in, and what has reached the     *)
(* ledger by then.                                                         *)
(*                                                                         *)
(*   absent -Post, Enqueue-> pending -Start-> submitting                   *)
(*   submitting -Confirm-> confirmed      submitting -Fail-> failed        *)
(*   failed -Again-> submitting                                            *)
(*                                                                         *)
(* No statement of the store looks at the status it overwrites.  The       *)
(* arrows out of submitting and failed hold when one worker and one call   *)
(* of Retry are at work; with more, any status off the queue may be        *)
(* overwritten by any other.  The only promise left then is about the      *)
(* queue and about confirmed.                                              *)
(***************************************************************************)
CONSTANTS
  TxIds,     \* the transactions
  Alone,     \* at most one worker and one call of Retry
  Truthful   \* an error means the network decided against the envelope

VARIABLES
  status,   \* the status of each transaction, "absent" for none
  posted,   \* the transactions callers have begun to post
  after,    \* after[t]: the transactions stored when t was posted
  applied   \* the transactions in the ledger

lifeVars == <<status, posted, after, applied>>

LifeInit ==
  /\ status = [t \in TxIds |-> "absent"]
  /\ posted = {}
  /\ after = [t \in TxIds |-> {}]
  /\ applied = {}

\* From one status to another, or from any that is off the queue.
Moves(t, from, to) ==
  /\ IF Alone THEN status[t] = from ELSE status[t] \notin {"absent", "pending"}
  /\ status' = [status EXCEPT ![t] = to]
  /\ UNCHANGED <<posted, after, applied>>

\* A new transaction goes behind those that are stored; several may be on
\* their way at a time.
Post(t) ==
  /\ t \notin posted
  /\ posted' = posted \cup {t}
  /\ after' = [after EXCEPT ![t] = {u \in TxIds : status[u] # "absent"}]
  /\ UNCHANGED <<status, applied>>

Enqueue(t) ==
  /\ t \in posted
  /\ status[t] = "absent"
  /\ status' = [status EXCEPT ![t] = "pending"]
  /\ UNCHANGED <<posted, after, applied>>

\* It leaves the queue when those before it have.
Start(t) ==
  /\ status[t] = "pending"
  /\ \A u \in after[t] : status[u] # "pending"
  /\ status' = [status EXCEPT ![t] = "submitting"]
  /\ UNCHANGED <<posted, after, applied>>

Confirm(t) == t \in applied /\ Moves(t, "submitting", "confirmed")
Fail(t) == (Alone /\ Truthful => t \notin applied) /\ Moves(t, "submitting", "failed")
Again(t) == Moves(t, "failed", "submitting")

\* The ledger takes a transaction once, after it left the queue; while it is
\* being submitted, if nothing else can be the case.
Apply(t) ==
  /\ t \notin applied
  /\ IF Alone /\ Truthful THEN status[t] = "submitting"
                          ELSE status[t] \notin {"absent", "pending"}
  /\ applied' = applied \cup {t}
  /\ UNCHANGED <<status, posted, after>>

LifeNext ==
  \E t \in TxIds :
    Post(t) \/ Enqueue(t) \/ Start(t) \/ Confirm(t) \/ Fail(t) \/ Again(t) \/ Apply(t)

LifeSpec == LifeInit /\ [][LifeNext]_lifeVars
=============================================================================
