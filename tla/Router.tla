-------------------------------- MODULE Router --------------------------------
(***************************************************************************)
(* Router of internal/rpc/router.go: concurrent calls of SubmitTransaction *)
(* that fail over between endpoints.  Every call makes as many rounds as   *)
(* its backend has endpoints; the endpoint of a round comes from a counter *)
(* all calls of that backend share.                                        *)
(*                                                                         *)
(*   route -Route-> next -PickEndpoint-> simulate (Soroban) or submit      *)
(*   simulate -Simulate-> submit -SubmitTo-> waiting -Answer-> returned    *)
(*   a retryable error in simulate, submit or waiting -> next              *)
(*   next, no rounds left -AllFailed-> returned                            *)
(*                                                                         *)
(* A failure of the network is an endpoint that cannot be reached, answers *)
(* 5xx or times out, before or after the envelope got through.  isRetryable *)
(* decides between the next endpoint and an error by the kind of failure,  *)
(* so either may follow.                                                   *)
(***************************************************************************)
EXTENDS StellarNetwork, Naturals

CONSTANTS
  Calls,           \* calls of SubmitTransaction: a transaction and its form
  HorizonClients,  \* number of Horizon endpoints
  SorobanClients   \* number of Soroban endpoints with a working client

\* main falls back to one endpoint each; NewRouter drops the Soroban URLs it
\* cannot make a client for, so none may be left.
ASSUME RouterAssumption ==
  /\ Calls \subseteq TxIds \X Forms
  /\ HorizonClients \in Nat \ {0}
  /\ SorobanClients \in Nat

VARIABLES
  idx,       \* horizonIdx and sorobanIdx, modulo the number of endpoints
  at,        \* where each call is
  backend,   \* what route chose for it
  left,      \* rounds it has left
  endpoint,  \* the endpoint of its round
  result,    \* what it returned
  sent,      \* history: its envelope went out at least once
  tried,     \* history: the endpoints it was given
  alone      \* history: nobody moved its counter between its rounds

counters == <<idx, endpoint, tried, alone>>
vars == <<counters, at, backend, left, result, sent, ledger>>

Backends == {"horizon", "soroban"}
Clients(b) == IF b = "horizon" THEN HorizonClients ELSE SorobanClients
Endpoints(b) == 0..Clients(b) - 1

\* Earlier calls have left the counters anywhere.
Init ==
  /\ idx \in {i \in [Backends -> 0..(HorizonClients + SorobanClients)] :
                \A b \in Backends : i[b] \in Endpoints(b) \cup {0}}
  /\ at = [c \in Calls |-> "route"]
  /\ backend = [c \in Calls |-> "horizon"]
  /\ left = [c \in Calls |-> 0]
  /\ endpoint = [c \in Calls |-> 0]
  /\ result = [c \in Calls |-> "none"]
  /\ sent = [c \in Calls |-> FALSE]
  /\ tried = [c \in Calls |-> {}]
  /\ alone = [c \in Calls |-> TRUE]
  /\ LedgerInit

Goto(c, from, to) == at[c] = from /\ at' = [at EXCEPT ![c] = to]

Return(c, o) ==
  /\ at' = [at EXCEPT ![c] = "returned"]
  /\ result' = [result EXCEPT ![c] = o]

\* An error: isRetryable sends the call to its next round or ends it.
NextEndpoint(c) == at' = [at EXCEPT ![c] = "next"] /\ UNCHANGED result
Fails(c) == NextEndpoint(c) \/ Return(c, "error")

-----------------------------------------------------------------------------

\* route parses the envelope; the loop of its backend begins.
Route(c) ==
  /\ Goto(c, "route", "next")
  /\ \E b \in Backends :
       /\ IF b = "horizon" THEN ViaHorizon(c[1], c[2]) ELSE ViaSoroban(c[1], c[2])
       /\ backend' = [backend EXCEPT ![c] = b]
       /\ left' = [left EXCEPT ![c] = Clients(b)]
  /\ UNCHANGED <<counters, result, sent, ledger>>

\* Wrong on purpose: an index that leaves out the last endpoint.
SuccessorShort(b) == (idx[b] + 1) % (IF Clients(b) > 1 THEN Clients(b) - 1 ELSE 1)

\* Wrong on purpose: an index that runs past the last endpoint.
SuccessorPast(b) == (idx[b] + 1) % (Clients(b) + 1)

\* Add(1) % len(clients).
Successor(b) == (idx[b] + 1) % Clients(b)

\* One Add(1): atomic, and it disturbs the rounds of every other call.
Advance(b, others) ==
  /\ idx' = [idx EXCEPT ![b] = Successor(b)]
  /\ alone' = [d \in Calls |->
       alone[d] /\ (d \in others /\ backend[d] = b => tried[d] = {})]

\* Wrong on purpose: rounds are not counted.
PickForEver(c) ==
  /\ Goto(c, "next", IF backend[c] = "soroban" THEN "simulate" ELSE "submit")
  /\ Clients(backend[c]) > 0
  /\ Advance(backend[c], Calls \ {c})
  /\ endpoint' = [endpoint EXCEPT ![c] = Successor(backend[c])]
  /\ tried' = [tried EXCEPT ![c] = @ \cup {Successor(backend[c])}]
  /\ UNCHANGED <<backend, left, result, sent, ledger>>

PickEndpoint(c) ==
  /\ Goto(c, "next", IF backend[c] = "soroban" THEN "simulate" ELSE "submit")
  /\ left[c] > 0
  /\ left' = [left EXCEPT ![c] = @ - 1]
  /\ Advance(backend[c], Calls \ {c})
  /\ endpoint' = [endpoint EXCEPT ![c] = Successor(backend[c])]
  /\ tried' = [tried EXCEPT ![c] = @ \cup {Successor(backend[c])}]
  /\ UNCHANGED <<backend, result, sent, ledger>>

\* "all horizon endpoints failed", "all soroban endpoints failed".
AllFailed(c) ==
  /\ at[c] = "next" /\ left[c] = 0
  /\ Return(c, "error")
  /\ UNCHANGED <<counters, backend, left, sent, ledger>>

\* client.SimulateTransaction: the simulation may fail for its own reasons,
\* which end the call, or the endpoint may.
Simulate(c) ==
  /\ at[c] = "simulate"
  /\ \/ Goto(c, "simulate", "submit") /\ UNCHANGED result
     \/ Return(c, "error")
     \/ NetFault /\ NextEndpoint(c)
  /\ UNCHANGED <<counters, backend, left, sent, ledger>>

\* client.SubmitTransaction: the envelope gets through, or not even that.
SubmitTo(c) ==
  /\ at[c] = "submit"
  /\ \/ /\ Goto(c, "submit", "waiting")
        /\ Send(c[1], c[2])
        /\ sent' = [sent EXCEPT ![c] = TRUE]
        /\ UNCHANGED result
     \/ NetFault /\ Fails(c) /\ UNCHANGED <<sent, ledger>>
  /\ UNCHANGED <<counters, backend, left>>

\* Wrong on purpose: the asynchronous endpoint, that answers once the
\* transaction is queued.
AnswerQueued(c) ==
  /\ at[c] = "waiting"
  /\ \/ NetFault /\ Fails(c)
     \/ backend[c] = "horizon" /\ Return(c, "ok")
     \/ backend[c] = "soroban" /\ Return(c, "error")
  /\ UNCHANGED <<counters, backend, left, sent, ledger>>

\* ... and what it answers.  Horizon waits for the ledger and returns a
\* result, with or without an operation code, or a 4xx error; an envelope
\* that does not parse is an error at once.  Soroban takes the transaction
\* or refuses it, and both are returned as errors.
Answer(c) ==
  LET verdict == ledger[c[1]][c[2]]
  IN
  /\ at[c] = "waiting"
  /\ \/ NetFault /\ Fails(c)
     \/ /\ backend[c] = "horizon"
        /\ \/ verdict = "applied" /\ Return(c, "ok")
           \/ verdict = "rejected" /\ Return(c, "rejected")
           \/ (verdict = "rejected" \/ Kind[c[1]] = "garbage") /\ Return(c, "error")
     \/ backend[c] = "soroban" /\ Return(c, "error")
  /\ UNCHANGED <<counters, backend, left, sent, ledger>>

\* One round of GetTransactionStatus, which takes its endpoints from
\* horizonIdx too.
QueryStatus ==
  /\ Advance("horizon", Calls)
  /\ UNCHANGED <<endpoint, tried, at, backend, left, result, sent, ledger>>

NetworkStep(t, f) ==
  /\ NetworkDecides(t, f)
  /\ UNCHANGED <<counters, at, backend, left, result, sent>>

CallStep(c) ==
  \/ Route(c) \/ PickEndpoint(c) \/ AllFailed(c)
  \/ Simulate(c) \/ SubmitTo(c) \/ Answer(c)

Next ==
  \/ \E c \in Calls : CallStep(c)
  \/ \E t \in TxIds, f \in Forms : NetworkStep(t, f)
  \/ QueryStatus

Spec == Init /\ [][Next]_vars

\* A goroutine in SubmitTransaction goes on, the network decides what it was
\* sent and an endpoint answers or fails.
FairSpec ==
  /\ Spec
  /\ \A c \in Calls : WF_vars(CallStep(c))
  /\ \A t \in TxIds, f \in Forms : WF_vars(NetworkStep(t, f))

-----------------------------------------------------------------------------

\* Counters stay within the client slices, or the index would panic.
TypeOK ==
  /\ idx \in [Backends -> Nat]
  /\ at \in [Calls -> {"route", "next", "simulate", "submit", "waiting", "returned"}]
  /\ backend \in [Calls -> Backends]
  /\ left \in [Calls -> Nat]
  /\ result \in [Calls -> Outcomes \cup {"none"}]
  /\ sent \in [Calls -> BOOLEAN]
  /\ alone \in [Calls -> BOOLEAN]
  /\ \A c \in Calls :
       at[c] \in {"simulate", "submit", "waiting"} => endpoint[c] \in Endpoints(backend[c])
  /\ LedgerTypeOK

Submission ==
  INSTANCE Submission WITH
    call <- [c \in Calls |-> IF at[c] = "returned" THEN "returned"
                             ELSE IF sent[c] THEN "sent" ELSE "begun"],
    answer <- result

\* Whatever endpoints fail and however calls interleave, a call sends again
\* only on a network that may fail and answers what Submission allows: the
\* engine may be modelled without endpoints.
ImplementsSubmission == Submission!SubmissionSpec

\* "tries each Horizon endpoint in round-robin order": a call that gives up
\* has tried all of them, provided nobody moved the shared counter between
\* its rounds.
AloneTriesAll ==
  \A c \in Calls :
    at[c] = "next" /\ left[c] = 0 /\ alone[c] /\ tried[c] # {}
      => tried[c] = Endpoints(backend[c])

\* Failing endpoints never keep a call for ever: it returns after as many
\* rounds as its backend has endpoints.
CallReturns == \A c \in Calls : <>(at[c] = "returned")
=============================================================================
