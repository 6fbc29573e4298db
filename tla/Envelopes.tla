------------------------------ MODULE Envelopes ------------------------------
(***************************************************************************)
(* The transactions callers enqueue and the failures a configuration       *)
(* allows: the constants the store, the network and the engine share.      *)
(***************************************************************************)
EXTENDS FiniteSets

CONSTANTS
  TxIds,   \* ids of the rows the API creates, one envelope each
  NoTx,    \* "no transaction"
  Kind,    \* Kind[t]: how Router.route classifies the envelope of t
  Faults   \* the failures that may happen

\* "garbage" is an envelope_xdr that does not parse: the API stores any
\* non-empty string, and route sends it to Horizon.
EnvelopeKinds == {"classic", "soroban", "garbage"}

\* db:    a statement fails, with or without having taken effect
\* net:   a submission is lost or its answer is
\* crash: a process stops between two statements and starts again
FaultKinds == {"db", "net", "crash"}

ASSUME EnvelopesAssumption ==
  /\ IsFiniteSet(TxIds)   \* UUIDs
  /\ NoTx \notin TxIds
  /\ Kind \in [TxIds -> EnvelopeKinds]
  /\ Faults \subseteq FaultKinds

DbFault == "db" \in Faults
NetFault == "net" \in Faults
CrashFault == "crash" \in Faults
=============================================================================
