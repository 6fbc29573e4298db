--------------------------- MODULE StellarNetwork ----------------------------
(***************************************************************************)
(* What the engine can learn from Router.SubmitTransaction, and the part   *)
(* of the Stellar network behind it.  The network is external: it is       *)
(* modelled from how internal/rpc and internal/submission use it.          *)
(*                                                                         *)
(* A transaction has two envelopes, the one the caller sent and the fee    *)
(* bump Retry wraps around it; createFeeBump always starts from the stored *)
(* envelope, so every retry submits the same fee bump.  Both carry one     *)
(* source account sequence number: the ledger applies at most one of them, *)
(* once, however often they are submitted.                                 *)
(***************************************************************************)
EXTENDS Envelopes

VARIABLE ledger   \* ledger[t][f]: what became of form f of transaction t

Forms == {"original", "bump"}
Verdicts == {"unsent", "open", "applied", "rejected"}
Outcomes == {"ok", "rejected", "error"}

LedgerTypeOK == ledger \in [TxIds -> [Forms -> Verdicts]]

LedgerInit == ledger = [t \in TxIds |-> [f \in Forms |-> "unsent"]]

Applied(t) == \E f \in Forms : ledger[t][f] = "applied"

\* A submission reaches the network.  A rejected envelope is looked at again.
Send(t, f) ==
  ledger' = [ledger EXCEPT ![t][f] = IF @ = "applied" THEN @ ELSE "open"]

\* An endpoint answers with a retryable error, or not at all, and the router
\* sends the envelope to the next one: the ledger may have it by then.
SendAgain(t, f) == NetFault /\ Send(t, f)

NetworkApplies(t, f) ==
  /\ ledger[t][f] = "open"
  /\ ~ Applied(t)
  /\ Kind[t] # "garbage"
  /\ ledger' = [ledger EXCEPT ![t][f] = "applied"]

NetworkRejects(t, f) ==
  /\ ledger[t][f] = "open"
  /\ ledger' = [ledger EXCEPT ![t][f] = "rejected"]

NetworkDecides(t, f) == NetworkApplies(t, f) \/ NetworkRejects(t, f)

-----------------------------------------------------------------------------

\* Router.route.  A fee bump is handed over as raw XDR bytes; whether route
\* parses them is up to the SDK, so the fee bump of a Soroban transaction
\* may go either way.
ViaHorizon(t, f) == Kind[t] # "soroban" \/ f = "bump"
ViaSoroban(t, f) == Kind[t] = "soroban"

\* Wrong on purpose: a call that gives up before the ledger decided.
MayAnswerEarly(t, f, o) ==
  \/ o = "ok" /\ ledger[t][f] = "applied"
  \/ o = "rejected" /\ ledger[t][f] = "rejected"
  \/ o = "error" /\ ledger[t][f] # "applied"

\* What SubmitTransaction may return while the ledger is as it is.  Horizon
\* answers once the ledger decided: a result, a result with an operation
\* code, or an HTTP error.  That a rejection shows as one of the last two is
\* what engine.go relies on when it looks for nothing else.  Soroban accepts the transaction or not, and
\* submitSoroban turns either into an error.  An envelope that does not
\* parse is an error right away.
MayAnswer(t, f, o) ==
  \/ o = "ok" /\ ViaHorizon(t, f) /\ ledger[t][f] = "applied"
  \/ o = "rejected" /\ ViaHorizon(t, f) /\ ledger[t][f] = "rejected"
  \/ /\ o = "error"
     /\ \/ ledger[t][f] = "rejected"
        \/ ViaSoroban(t, f)
        \/ Kind[t] = "garbage"
        \/ NetFault

\* SubmitTransaction fails before anything is sent: no endpoint answers, or
\* the Soroban simulation fails.
MayFailUnsent(t, f) == NetFault \/ ViaSoroban(t, f)
=============================================================================
