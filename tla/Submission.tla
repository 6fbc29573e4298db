------------------------------ MODULE Submission ------------------------------
(***************************************************************************)
(* What Router.SubmitTransaction promises the engine: a call sends its     *)
(* envelope, perhaps again when the network fails, and answers with what   *)
(* the ledger says, or with an error it has a reason for.  Router, with    *)
(* its endpoints and their failures, is shown to implement it; the worker  *)
(* and Retry are written over the same operations of StellarNetwork.       *)
(***************************************************************************)
EXTENDS StellarNetwork

CONSTANT Calls   \* calls of SubmitTransaction: a transaction and its form

VARIABLES
  call,    \* call[c]: nothing sent yet, sent, or returned
  answer   \* answer[c]: what the call returned

submissionVars == <<call, answer, ledger>>

SubmissionInit ==
  /\ call = [c \in Calls |-> "begun"]
  /\ answer = [c \in Calls |-> "none"]
  /\ LedgerInit

Return(c, o) ==
  /\ call' = [call EXCEPT ![c] = "returned"]
  /\ answer' = [answer EXCEPT ![c] = o]
  /\ UNCHANGED ledger

SendFirst(c) ==
  /\ call[c] = "begun"
  /\ call' = [call EXCEPT ![c] = "sent"]
  /\ Send(c[1], c[2])
  /\ UNCHANGED answer

FailOver(c) ==
  /\ call[c] = "sent"
  /\ SendAgain(c[1], c[2])
  /\ UNCHANGED <<call, answer>>

FailUnsent(c) ==
  /\ call[c] = "begun"
  /\ MayFailUnsent(c[1], c[2])
  /\ Return(c, "error")

Answer(c) ==
  /\ call[c] = "sent"
  /\ \E o \in Outcomes : MayAnswer(c[1], c[2], o) /\ Return(c, o)

NetworkStep(t, f) == NetworkDecides(t, f) /\ UNCHANGED <<call, answer>>

SubmissionNext ==
  \/ \E c \in Calls : SendFirst(c) \/ FailOver(c) \/ FailUnsent(c) \/ Answer(c)
  \/ \E t \in TxIds, f \in Forms : NetworkStep(t, f)

SubmissionSpec == SubmissionInit /\ [][SubmissionNext]_submissionVars
=============================================================================
