----------------------------- MODULE AccountPool -----------------------------
(***************************************************************************)
(* What the channel account pool (internal/channelaccounts over            *)
(* internal/store/channelaccounts.go) promises to the code that leases     *)
(* accounts: a lease takes an idle account in one step, only its holder    *)
(* gives the account back, and a holder that disappears takes the account  *)
(* out of the pool for good.                                               *)
(*                                                                         *)
(* Two modules use it.  ChannelAccounts, the SQL-level pool with its row   *)
(* locks and its lease transactions, is shown to implement PoolSpec.       *)
(* ProcessQueue, the submission worker, is written over these operations.  *)
(***************************************************************************)
EXTENDS Naturals

CONSTANTS
  Replicas,    \* the ForgeTSS processes, each with one lease at most
  Accounts,    \* public keys of channel accounts, one row per key
  NoAccount    \* "holds no account"

ASSUME NoAccountAssumption == NoAccount \notin Accounts

VARIABLES
  acctStatus,  \* column status: "idle", "leased", or "absent" for no row
  acctSeq,     \* column sequence_number
  held,        \* held[r]: the account replica r has leased and not released
  leaseSeq     \* leaseSeq[r]: the sequence number the lease of r returned

poolVars == <<acctStatus, acctSeq, held, leaseSeq>>

AccountStatus == {"absent", "idle", "leased"}

PoolTypeOK ==
  /\ acctStatus \in [Accounts -> AccountStatus]
  /\ acctSeq \in [Accounts -> Nat]
  /\ held \in [Replicas -> Accounts \cup {NoAccount}]
  /\ leaseSeq \in [Replicas -> Nat]

\* The pool starts with whatever rows an operator inserted (Refill stores
\* them idle with sequence number 0).
PoolInit ==
  /\ acctStatus \in [Accounts -> {"absent", "idle"}]
  /\ acctSeq = [a \in Accounts |-> 0]
  /\ held = [r \in Replicas |-> NoAccount]
  /\ leaseSeq = [r \in Replicas |-> 0]

-----------------------------------------------------------------------------

\* SaveChannelAccount of a fresh key pair, as Refill does it.
AddAccount(a) ==
  /\ acctStatus[a] = "absent"
  /\ acctStatus' = [acctStatus EXCEPT ![a] = "idle"]
  /\ acctSeq' = [acctSeq EXCEPT ![a] = 0]
  /\ UNCHANGED <<held, leaseSeq>>

\* Wrong on purpose: a lease that takes any row.
LeaseAny(r, a) ==
  /\ held[r] = NoAccount
  /\ acctStatus[a] # "absent"
  /\ acctStatus' = [acctStatus EXCEPT ![a] = "leased"]
  /\ held' = [held EXCEPT ![r] = a]
  /\ leaseSeq' = [leaseSeq EXCEPT ![r] = acctSeq[a]]
  /\ UNCHANGED acctSeq

\* A lease that succeeds: the row goes from idle to leased and the caller
\* learns the sequence number the row had.
Lease(r, a) ==
  /\ held[r] = NoAccount
  /\ acctStatus[a] = "idle"
  /\ acctStatus' = [acctStatus EXCEPT ![a] = "leased"]
  /\ held' = [held EXCEPT ![r] = a]
  /\ leaseSeq' = [leaseSeq EXCEPT ![r] = acctSeq[a]]
  /\ UNCHANGED acctSeq

\* A lease whose commit took effect and was reported to the caller as an
\* error: the row is leased and nobody holds it.
LeaseUnacknowledged(a) ==
  /\ acctStatus[a] = "idle"
  /\ acctStatus' = [acctStatus EXCEPT ![a] = "leased"]
  /\ UNCHANGED <<acctSeq, held, leaseSeq>>

\* Wrong on purpose: the number the lease returned is written back.
BumpByNone(r) ==
  /\ held[r] # NoAccount
  /\ acctSeq' = [acctSeq EXCEPT ![held[r]] = leaseSeq[r]]
  /\ UNCHANGED <<acctStatus, held, leaseSeq>>

\* UpdateSequenceNumber to one more than the number the lease returned.
BumpSequence(r) ==
  /\ held[r] # NoAccount
  /\ acctSeq' = [acctSeq EXCEPT ![held[r]] = leaseSeq[r] + 1]
  /\ UNCHANGED <<acctStatus, held, leaseSeq>>

Drop(r) ==
  /\ held' = [held EXCEPT ![r] = NoAccount]
  /\ leaseSeq' = [leaseSeq EXCEPT ![r] = 0]

\* Release: the row is idle again.
Release(r) ==
  /\ held[r] # NoAccount
  /\ acctStatus' = [acctStatus EXCEPT ![held[r]] = "idle"]
  /\ Drop(r)
  /\ UNCHANGED acctSeq

\* The holder stops or its Release fails: the row stays leased and no code
\* path ever returns it.
Abandon(r) ==
  /\ held[r] # NoAccount
  /\ Drop(r)
  /\ UNCHANGED <<acctStatus, acctSeq>>

\* UpdateSequenceNumberIfIdle on an idle row, to any number.
Reconcile(a) ==
  /\ acctStatus[a] = "idle"
  /\ acctSeq'[a] \in Nat
  /\ acctSeq' = [acctSeq EXCEPT ![a] = acctSeq'[a]]
  /\ UNCHANGED <<acctStatus, held, leaseSeq>>

PoolNext ==
  \/ \E a \in Accounts : AddAccount(a) \/ LeaseUnacknowledged(a) \/ Reconcile(a)
  \/ \E r \in Replicas, a \in Accounts : Lease(r, a)
  \/ \E r \in Replicas : BumpSequence(r) \/ Release(r) \/ Abandon(r)

PoolSpec == PoolInit /\ [][PoolNext]_poolVars

-----------------------------------------------------------------------------

\* A leased row has at most one holder and every account a replica holds is
\* marked leased in the table: the exclusivity LeaseChannelAccount's
\* FOR UPDATE SKIP LOCKED and its status update are there for.
LeaseExclusive ==
  /\ \A r \in Replicas : held[r] # NoAccount => acctStatus[held[r]] = "leased"
  /\ \A r, s \in Replicas : r # s /\ held[r] = held[s] => held[r] = NoAccount

\* While a replica holds an account nobody else moves its sequence number:
\* the row shows the number the lease returned or, once the holder's own
\* UpdateSequenceNumber ran, the next one.
SequenceOwned ==
  \A r \in Replicas : held[r] # NoAccount =>
     acctSeq[held[r]] \in {leaseSeq[r], leaseSeq[r] + 1}
=============================================================================
