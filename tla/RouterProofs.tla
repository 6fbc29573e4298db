----------------------------- MODULE RouterProofs -----------------------------
(***************************************************************************)
(* For any calls and any number of endpoints the router does what          *)
(* Submission allows, indexes no client that is not there, and gives up    *)
(* only after every endpoint when nobody moves its counter.                *)
(*                                                                         *)
(* For the first, the strengthening IInv remembers why a call may go on to *)
(* another endpoint, or give up: once a call has sent its envelope and is  *)
(* not waiting, or has used up a round of Horizon, the network has failed  *)
(* it.  For the others RInv says where the counter stands and what an      *)
(* undisturbed call has been given after so many rounds.                   *)
(***************************************************************************)
EXTENDS Router, TLAPS

AtStates == {"route", "next", "simulate", "submit", "waiting", "returned"}

TypesHold ==
  /\ at \in [Calls -> AtStates]
  /\ backend \in [Calls -> Backends]
  /\ left \in [Calls -> Nat]
  /\ result \in [Calls -> Outcomes \cup {"none"}]
  /\ sent \in [Calls -> BOOLEAN]

\* What is known of a call by where it is.
CallInv(c) ==
  /\ at[c] = "route" => ~ sent[c]
  /\ at[c] = "waiting" => sent[c]
  /\ at[c] = "simulate" => backend[c] = "soroban"
  /\ at[c] # "route" =>
       IF backend[c] = "horizon" THEN ViaHorizon(c[1], c[2]) ELSE ViaSoroban(c[1], c[2])
  /\ sent[c] /\ at[c] \in {"next", "simulate", "submit"} => NetFault
  /\ at[c] = "next" /\ backend[c] = "horizon" /\ left[c] # HorizonClients => NetFault

IInv == TypesHold /\ \A c \in Calls : CallInv(c)

\* The two variables of Submission, by name.
AbsCall == [c \in Calls |-> IF at[c] = "returned" THEN "returned"
                            ELSE IF sent[c] THEN "sent" ELSE "begun"]

LEMMA InitIInv == Init => IInv
<1> SUFFICES ASSUME Init PROVE IInv
  OBVIOUS
<1>1. TypesHold
  BY DEF Init, TypesHold, AtStates, Backends
<1>2. \A c \in Calls : CallInv(c)
  BY DEF Init, CallInv
<1> QED
  BY <1>1, <1>2 DEF IInv

LEMMA NextIInv == IInv /\ [Next]_vars => IInv'
<1> SUFFICES ASSUME IInv, [Next]_vars PROVE IInv'
  OBVIOUS
<1> USE RouterAssumption
<1>1. CASE UNCHANGED <<at, backend, left, result, sent>>
  <2>1. TypesHold'
    BY <1>1 DEF IInv, TypesHold
  <2>2. \A c \in Calls : CallInv(c)'
    BY <1>1 DEF IInv, CallInv, ViaHorizon, ViaSoroban, NetFault
  <2> QED
    BY <2>1, <2>2 DEF IInv
<1>2. ASSUME NEW c \in Calls, CallStep(c) PROVE IInv'
  <2> USE DEF ViaHorizon, ViaSoroban, NetFault
  <2>1. TypesHold /\ CallInv(c)
    BY DEF IInv
  <2>2. ASSUME NEW d \in Calls, d # c,
               at'[d] = at[d], backend'[d] = backend[d], left'[d] = left[d], sent'[d] = sent[d]
        PROVE  CallInv(d)'
    BY <2>2 DEF IInv, CallInv
  <2>3. CASE Route(c)
    <3>1. PICK b \in Backends :
            /\ IF b = "horizon" THEN ViaHorizon(c[1], c[2]) ELSE ViaSoroban(c[1], c[2])
            /\ backend' = [backend EXCEPT ![c] = b]
            /\ left' = [left EXCEPT ![c] = Clients(b)]
      BY <2>3 DEF Route
    <3>2. at[c] = "route" /\ at' = [at EXCEPT ![c] = "next"] /\ UNCHANGED <<result, sent>>
      BY <2>3 DEF Route, Goto
    <3>3. TypesHold'
      BY <2>1, <3>1, <3>2 DEF TypesHold, AtStates, Clients
    <3>4. CallInv(c)'
      BY <2>1, <3>1, <3>2 DEF TypesHold, CallInv, Clients, Backends
    <3>5. \A d \in Calls : d # c => CallInv(d)'
      BY <2>1, <2>2, <3>1, <3>2 DEF TypesHold
    <3> QED
      BY <3>3, <3>4, <3>5 DEF IInv
  <2>4. CASE PickEndpoint(c)
    <3>1. /\ at[c] = "next" /\ left[c] > 0
          /\ at' = [at EXCEPT ![c] = IF backend[c] = "soroban" THEN "simulate" ELSE "submit"]
          /\ left' = [left EXCEPT ![c] = @ - 1]
          /\ UNCHANGED <<backend, result, sent>>
      BY <2>4 DEF PickEndpoint, Goto
    <3>2. TypesHold'
      BY <2>1, <3>1 DEF TypesHold, AtStates
    <3>3. CallInv(c)'
      BY <2>1, <3>1 DEF TypesHold, CallInv
    <3>4. \A d \in Calls : d # c => CallInv(d)'
      BY <2>1, <2>2, <3>1 DEF TypesHold
    <3> QED
      BY <3>2, <3>3, <3>4 DEF IInv
  <2>5. CASE /\ UNCHANGED <<backend, left, sent>> /\ at[c] # "route"
             /\ \/ \E o \in Outcomes : Return(c, o)
                \/ NetFault /\ NextEndpoint(c)
                \/ Goto(c, "simulate", "submit") /\ UNCHANGED result
    <3>1. PICK to \in AtStates : at' = [at EXCEPT ![c] = to]
      BY <2>5 DEF Return, NextEndpoint, Goto, AtStates
    <3>2. TypesHold'
      BY <2>1, <2>5, <3>1 DEF TypesHold, Return, NextEndpoint
    <3>3. CallInv(c)'
      <4>1. CASE \E o \in Outcomes : Return(c, o)
        BY <4>1, <2>1, <2>5 DEF TypesHold, CallInv, Return, Outcomes, AtStates
      <4>2. CASE NetFault /\ NextEndpoint(c)
        BY <4>2, <2>1, <2>5 DEF TypesHold, CallInv, NextEndpoint
      <4>3. CASE Goto(c, "simulate", "submit")
        BY <4>3, <2>1, <2>5 DEF TypesHold, CallInv, Goto
      <4> QED
        BY <4>1, <4>2, <4>3, <2>5
    <3>4. \A d \in Calls : d # c => CallInv(d)'
      BY <2>1, <2>2, <2>5, <3>1 DEF TypesHold
    <3> QED
      BY <3>2, <3>3, <3>4 DEF IInv
  <2>6. CASE AllFailed(c) \/ Simulate(c) \/ Answer(c)
    BY <2>5, <2>6, <2>1 DEF AllFailed, Simulate, Answer, Fails, CallInv, Outcomes
  <2>7. CASE SubmitTo(c)
    <3>1. CASE NetFault /\ Fails(c) /\ UNCHANGED <<sent, ledger>>
      BY <2>5, <2>7, <3>1 DEF SubmitTo, Fails, Outcomes
    <3>2. CASE Goto(c, "submit", "waiting") /\ sent' = [sent EXCEPT ![c] = TRUE]
               /\ UNCHANGED result
      <4>1. at' = [at EXCEPT ![c] = "waiting"] /\ at[c] = "submit" /\ UNCHANGED <<backend, left>>
        BY <2>7, <3>2 DEF SubmitTo, Goto
      <4>2. TypesHold'
        BY <2>1, <3>2, <4>1 DEF TypesHold, AtStates
      <4>3. CallInv(c)'
        BY <2>1, <3>2, <4>1 DEF TypesHold, CallInv
      <4>4. \A d \in Calls : d # c => CallInv(d)'
        BY <2>1, <2>2, <3>2, <4>1 DEF TypesHold
      <4> QED
        BY <4>2, <4>3, <4>4 DEF IInv
    <3> QED
      BY <2>7, <3>1, <3>2 DEF SubmitTo
  <2> QED
    BY <1>2, <2>3, <2>4, <2>6, <2>7 DEF CallStep
<1> QED
  BY <1>1, <1>2 DEF Next, NetworkStep, QueryStatus, vars

-----------------------------------------------------------------------------

\* A call returns o: the abstract call does, if it may in this state.
LEMMA ReturnRefines ==
  ASSUME IInv, NEW c \in Calls, NEW o \in Outcomes,
         Return(c, o), UNCHANGED <<sent, ledger>>, at[c] # "returned",
         IF sent[c] THEN MayAnswer(c[1], c[2], o)
                    ELSE o = "error" /\ MayFailUnsent(c[1], c[2])
  PROVE  Submission!SubmissionNext
<1>1. /\ AbsCall[c] = IF sent[c] THEN "sent" ELSE "begun"
      /\ AbsCall' = [AbsCall EXCEPT ![c] = "returned"]
      /\ result' = [result EXCEPT ![c] = o]
  BY DEF AbsCall, IInv, TypesHold, Return
<1>2. Submission!Return(c, o)
  BY <1>1 DEF Submission!Return, AbsCall
<1>3. CASE sent[c]
  <2>1. Submission!MayAnswer(c[1], c[2], o)
    BY <1>3 DEF Submission!MayAnswer, MayAnswer, ViaHorizon, ViaSoroban, NetFault,
                Submission!ViaHorizon, Submission!ViaSoroban, Submission!NetFault
  <2>2. Submission!Answer(c)
    BY <1>1, <1>2, <1>3, <2>1 DEF Submission!Answer, Submission!Outcomes, Outcomes, AbsCall
  <2> QED
    BY <2>2 DEF Submission!SubmissionNext
<1>4. CASE ~ sent[c]
  <2>1. Submission!MayFailUnsent(c[1], c[2])
    BY <1>4 DEF Submission!MayFailUnsent, MayFailUnsent, ViaSoroban, NetFault,
                Submission!ViaSoroban, Submission!NetFault
  <2>2. Submission!FailUnsent(c)
    BY <1>1, <1>2, <1>4, <2>1 DEF Submission!FailUnsent, AbsCall
  <2> QED
    BY <2>2 DEF Submission!SubmissionNext
<1> QED
  BY <1>3, <1>4

\* Moving on inside the call is no step of the abstract one.
LEMMA GoOnStutters ==
  ASSUME IInv, NEW c \in Calls, NEW to \in AtStates \ {"returned"},
         at' = [at EXCEPT ![c] = to], at[c] # "returned", UNCHANGED <<result, sent, ledger>>
  PROVE  UNCHANGED Submission!submissionVars
<1>1. AbsCall' = AbsCall
  BY DEF AbsCall, IInv, TypesHold
<1> QED
  BY <1>1 DEF Submission!submissionVars, AbsCall

LEMMA StepRefines ==
  IInv /\ [Next]_vars => [Submission!SubmissionNext]_Submission!submissionVars
<1> SUFFICES ASSUME IInv, [Next]_vars
             PROVE  Submission!SubmissionNext \/ UNCHANGED Submission!submissionVars
  OBVIOUS
<1> USE RouterAssumption
<1>1. CASE UNCHANGED <<at, result, sent, ledger>>
  BY <1>1 DEF Submission!submissionVars
<1>2. ASSUME NEW t \in TxIds, NEW f \in Forms, NetworkStep(t, f)
      PROVE  Submission!SubmissionNext
  <2>1. Submission!NetworkDecides(t, f)
    BY <1>2 DEF NetworkStep, NetworkDecides, NetworkApplies, NetworkRejects, Applied,
                Submission!NetworkDecides, Submission!NetworkApplies,
                Submission!NetworkRejects, Submission!Applied, Forms, Submission!Forms
  <2>2. Submission!NetworkStep(t, f)
    BY <1>2, <2>1 DEF NetworkStep, Submission!NetworkStep
  <2> QED
    BY <2>2 DEF Submission!SubmissionNext, Submission!Forms, Forms
<1>3. ASSUME NEW c \in Calls, CallStep(c)
      PROVE  Submission!SubmissionNext \/ UNCHANGED Submission!submissionVars
  <2>1. TypesHold /\ CallInv(c)
    BY DEF IInv
  <2>2. CASE Route(c) \/ PickEndpoint(c)
    <3>1. PICK to \in AtStates \ {"returned"} : at' = [at EXCEPT ![c] = to]
      BY <2>2 DEF Route, PickEndpoint, Goto, AtStates
    <3>2. at[c] # "returned" /\ UNCHANGED <<result, sent, ledger>>
      BY <2>2 DEF Route, PickEndpoint, Goto
    <3> QED
      BY <3>1, <3>2, GoOnStutters
  <2>3. ASSUME NextEndpoint(c), at[c] # "returned", UNCHANGED <<sent, ledger>>
        PROVE  UNCHANGED Submission!submissionVars
    <3>1. "next" \in AtStates \ {"returned"} /\ at' = [at EXCEPT ![c] = "next"]
          /\ UNCHANGED result
      BY <2>3 DEF NextEndpoint, AtStates
    <3> QED
      BY <3>1, <2>3, GoOnStutters
  <2>4. ASSUME NetFault, Return(c, "error"), at[c] # "returned", UNCHANGED <<sent, ledger>>
        PROVE  Submission!SubmissionNext
    BY <2>4, ReturnRefines DEF MayAnswer, MayFailUnsent, Outcomes
  <2>5. CASE AllFailed(c)
    <3>1. at[c] = "next" /\ left[c] = 0 /\ Return(c, "error") /\ UNCHANGED <<sent, ledger>>
      BY <2>5 DEF AllFailed
    <3>2. NetFault \/ (~ sent[c] /\ ViaSoroban(c[1], c[2]))
      BY <2>1, <3>1 DEF CallInv, TypesHold, Backends
    <3> QED
      BY <2>4, <3>1, <3>2, ReturnRefines DEF MayFailUnsent, Outcomes
  <2>6. CASE Simulate(c)
    <3>1. CASE Goto(c, "simulate", "submit") /\ UNCHANGED result
      BY <2>6, <3>1, GoOnStutters DEF Simulate, Goto, AtStates
    <3>2. CASE Return(c, "error")
      BY <2>1, <2>4, <2>6, <3>2, ReturnRefines
         DEF Simulate, CallInv, MayFailUnsent, Outcomes
    <3>3. CASE NextEndpoint(c)
      BY <2>3, <2>6, <3>3 DEF Simulate
    <3> QED
      BY <2>6, <3>1, <3>2, <3>3 DEF Simulate
  <2>7. CASE SubmitTo(c)
    <3>1. CASE NetFault /\ Fails(c) /\ UNCHANGED <<sent, ledger>>
      BY <2>3, <2>4, <2>7, <3>1 DEF SubmitTo, Fails
    <3>2. CASE Goto(c, "submit", "waiting") /\ Send(c[1], c[2])
               /\ sent' = [sent EXCEPT ![c] = TRUE] /\ UNCHANGED result
      <4>1. Submission!Send(c[1], c[2])
        BY <3>2 DEF Send, Submission!Send
      <4>2. AbsCall' = [AbsCall EXCEPT ![c] = "sent"]
            /\ AbsCall[c] = IF sent[c] THEN "sent" ELSE "begun"
        BY <2>1, <3>2 DEF AbsCall, Goto, TypesHold
      <4>3. CASE sent[c]
        <5>1. NetFault /\ AbsCall' = AbsCall
          BY <2>1, <3>2, <4>3 DEF CallInv, Goto, TypesHold, AbsCall
        <5>2. Submission!FailOver(c)
          BY <3>2, <4>1, <4>2, <4>3, <5>1
             DEF Submission!FailOver, Submission!SendAgain, Submission!NetFault, NetFault, AbsCall
        <5> QED
          BY <5>2 DEF Submission!SubmissionNext
      <4>4. CASE ~ sent[c]
        <5>1. Submission!SendFirst(c)
          BY <3>2, <4>1, <4>2, <4>4 DEF Submission!SendFirst, AbsCall
        <5> QED
          BY <5>1 DEF Submission!SubmissionNext
      <4> QED
        BY <4>3, <4>4
    <3> QED
      BY <2>7, <3>1, <3>2 DEF SubmitTo
  <2>8. CASE Answer(c)
    <3>1. at[c] = "waiting" /\ sent[c] /\ UNCHANGED <<sent, ledger>>
      BY <2>1, <2>8 DEF Answer, CallInv
    <3>2. CASE NetFault /\ Fails(c)
      BY <2>3, <2>4, <3>1, <3>2 DEF Fails
    <3>3. CASE \E o \in Outcomes : Return(c, o) /\ MayAnswer(c[1], c[2], o)
      BY <3>1, <3>3, ReturnRefines
    <3>4. (NetFault /\ Fails(c)) \/ \E o \in Outcomes : Return(c, o) /\ MayAnswer(c[1], c[2], o)
      BY <2>1, <2>8, <3>1 DEF Answer, CallInv, MayAnswer, Outcomes
    <3> QED
      BY <3>2, <3>3, <3>4
  <2> QED
    BY <1>3, <2>2, <2>5, <2>6, <2>7, <2>8 DEF CallStep
<1> QED
  BY <1>1, <1>2, <1>3 DEF Next, QueryStatus, vars

LEMMA InitRefines == Init => Submission!SubmissionInit
  BY DEF Init, Submission!SubmissionInit, LedgerInit, Submission!LedgerInit,
         Forms, Submission!Forms

\* Router.SubmitTransaction with its endpoints, its shared counters and
\* their failures answers nothing Submission does not.
THEOREM RouterImplements == Spec => ImplementsSubmission
  BY InitIInv, NextIInv, InitRefines, StepRefines, PTL
     DEF Spec, ImplementsSubmission, Submission!SubmissionSpec

-----------------------------------------------------------------------------
(* The rounds of a call and the counter they share with other calls.       *)

\* How many steps of the counter of b ago it was at e, when it is at last.
Ago(b, last, e) == IF e <= last THEN last - e ELSE last + Clients(b) - e

CountersHold ==
  /\ idx \in [Backends -> Nat]
  /\ \A b \in Backends : Clients(b) > 0 => idx[b] \in Endpoints(b)
  /\ endpoint \in [Calls -> Nat]
  /\ tried \in [Calls -> SUBSET Nat]
  /\ alone \in [Calls -> BOOLEAN]

\* A call nobody disturbs has been given as many endpoints as it has made
\* rounds, the last ones the counter was at.
RoundsInv(c) ==
  /\ at[c] = "route" => tried[c] = {}
  /\ at[c] # "route" => left[c] <= Clients(backend[c])
  /\ at[c] \in {"simulate", "submit", "waiting"} => endpoint[c] \in Endpoints(backend[c])
  /\ at[c] # "route" /\ left[c] < Clients(backend[c]) => tried[c] # {}
  /\ alone[c] /\ tried[c] # {} => endpoint[c] = idx[backend[c]]
  /\ alone[c] /\ at[c] # "route" =>
       tried[c] = {e \in Endpoints(backend[c]) :
                     Ago(backend[c], endpoint[c], e) < Clients(backend[c]) - left[c]}

RInv == IInv /\ LedgerTypeOK /\ CountersHold /\ \A c \in Calls : RoundsInv(c)

LEMMA ClientsNat == \A b \in Backends : Clients(b) \in Nat
  BY RouterAssumption DEF Clients

\* Add(1) % len(clients) walks round the clients.
LEMMA SuccessorWraps ==
  ASSUME CountersHold, NEW b \in Backends, Clients(b) > 0
  PROVE  /\ Successor(b) \in Endpoints(b)
         /\ Successor(b) = IF idx[b] + 1 = Clients(b) THEN 0 ELSE idx[b] + 1
<1> DEFINE n == Clients(b)
<1>1. n \in Nat \ {0} /\ idx[b] \in 0..n - 1
  BY ClientsNat DEF CountersHold, Endpoints
<1> HIDE DEF n
<1>2. (idx[b] + 1) % n = IF idx[b] + 1 = n THEN 0 ELSE idx[b] + 1
  <2>1. CASE idx[b] + 1 < n
    BY <1>1, <2>1
  <2>2. CASE idx[b] + 1 = n
    BY <1>1, <2>2
  <2> QED
    BY <1>1, <2>1, <2>2
<1>3. Successor(b) = (idx[b] + 1) % n
  BY DEF Successor, n
<1> QED
  BY <1>1, <1>2, <1>3 DEF Endpoints, n

\* One more round: the endpoint it is given, and those it had.
LEMMA OneMoreRound ==
  ASSUME CountersHold, NEW b \in Backends, Clients(b) > 0,
         NEW k \in Nat, NEW last \in Nat, k > 0 => last = idx[b],
         NEW e \in Endpoints(b)
  PROVE  Ago(b, Successor(b), e) < k + 1 <=> e = Successor(b) \/ Ago(b, last, e) < k
<1>1. Clients(b) \in Nat /\ idx[b] \in 0..Clients(b) - 1 /\ e \in 0..Clients(b) - 1
  BY ClientsNat DEF CountersHold, Endpoints
<1>2. Successor(b) = IF idx[b] + 1 = Clients(b) THEN 0 ELSE idx[b] + 1
  BY SuccessorWraps
<1>3. CASE k = 0
  BY <1>1, <1>2, <1>3 DEF Ago
<1>4. CASE k > 0
  BY <1>1, <1>2, <1>4 DEF Ago
<1> QED
  BY <1>3, <1>4

LEMMA RoundsInit == Init => RInv
<1> SUFFICES ASSUME Init PROVE RInv
  OBVIOUS
<1>1. CountersHold
  <2>1. idx \in [Backends -> Nat] /\ \A b \in Backends : idx[b] \in Endpoints(b) \cup {0}
    BY RouterAssumption DEF Init
  <2>2. \A b \in Backends : Clients(b) > 0 => 0 \in Endpoints(b)
    BY ClientsNat DEF Endpoints
  <2> QED
    BY <2>1, <2>2 DEF Init, CountersHold
<1>2. \A c \in Calls : RoundsInv(c)
  BY DEF Init, RoundsInv
<1>3. LedgerTypeOK
  BY DEF Init, LedgerInit, LedgerTypeOK, Verdicts
<1> QED
  BY <1>1, <1>2, <1>3, InitIInv DEF RInv

\* A call that made no step, and whose counter moved only if it says so.
LEMMA RoundsKept ==
  ASSUME NEW d \in Calls, RoundsInv(d),
         (at[d] = "route" <=> at'[d] = "route"), backend'[d] = backend[d], left'[d] = left[d],
         endpoint'[d] = endpoint[d], tried'[d] = tried[d],
         at'[d] \in {"simulate", "submit", "waiting"} =>
           at[d] \in {"simulate", "submit", "waiting"},
         alone'[d] => alone[d] /\ (tried[d] # {} => idx'[backend[d]] = idx[backend[d]])
  PROVE  RoundsInv(d)'
  BY DEF RoundsInv, Ago, Endpoints, Clients

\* A step of the counter shared by the calls in others.
LEMMA AdvanceKeeps ==
  ASSUME CountersHold, backend \in [Calls -> Backends],
         NEW b \in Backends, Clients(b) > 0, NEW others, Advance(b, others)
  PROVE  /\ idx' \in [Backends -> Nat]
         /\ \A a \in Backends : Clients(a) > 0 => idx'[a] \in Endpoints(a)
         /\ idx'[b] = Successor(b)
         /\ alone' \in [Calls -> BOOLEAN]
         /\ \A d \in Calls : d \notin others => alone'[d] = alone[d]
         /\ \A d \in others \cap Calls : alone'[d] =>
              alone[d] /\ (tried[d] # {} => idx'[backend[d]] = idx[backend[d]])
<1>1. Successor(b) \in Endpoints(b) /\ Successor(b) \in Nat
  BY SuccessorWraps, ClientsNat DEF Endpoints
<1>2. idx' = [idx EXCEPT ![b] = Successor(b)]
  BY DEF Advance
<1>3. alone' = [d \in Calls |-> alone[d] /\ (d \in others /\ backend[d] = b => tried[d] = {})]
  BY DEF Advance
<1>4. /\ idx' \in [Backends -> Nat] /\ idx'[b] = Successor(b)
      /\ \A a \in Backends : a # b => idx'[a] = idx[a]
  BY <1>1, <1>2 DEF CountersHold
<1>5. \A a \in Backends : Clients(a) > 0 => idx'[a] \in Endpoints(a)
  BY <1>1, <1>4 DEF CountersHold
<1>6. \A d \in Calls : alone'[d] = (alone[d] /\ (d \in others /\ backend[d] = b => tried[d] = {}))
  BY <1>3
<1>7. alone' \in [Calls -> BOOLEAN]
  <2>1. \A d \in Calls :
          (alone[d] /\ (d \in others /\ backend[d] = b => tried[d] = {})) \in BOOLEAN
    OBVIOUS
  <2> QED
    BY <1>3, <2>1
<1>8. \A d \in Calls : d \notin others => alone'[d] = alone[d]
  BY <1>6 DEF CountersHold
<1>9. \A d \in others \cap Calls : alone'[d] =>
        alone[d] /\ (tried[d] # {} => idx'[backend[d]] = idx[backend[d]])
  <2>1. \A d \in Calls : backend[d] # b => idx'[backend[d]] = idx[backend[d]]
    BY <1>4
  <2> QED
    BY <1>6, <2>1
<1> QED
  BY <1>4, <1>5, <1>7, <1>8, <1>9

LEMMA PickKeeps ==
  ASSUME RInv, NEW c \in Calls, PickEndpoint(c)
  PROVE  CountersHold' /\ \A d \in Calls : RoundsInv(d)'
<1> DEFINE b == backend[c]
<1> DEFINE k == Clients(b) - left[c]
<1>1. /\ at[c] = "next" /\ at'[c] \in {"simulate", "submit"} /\ left[c] > 0
      /\ left' = [left EXCEPT ![c] = @ - 1]
      /\ Advance(b, Calls \ {c})
      /\ endpoint' = [endpoint EXCEPT ![c] = Successor(b)]
      /\ tried' = [tried EXCEPT ![c] = @ \cup {Successor(b)}]
      /\ UNCHANGED backend /\ \A d \in Calls : d # c => at'[d] = at[d]
  BY DEF PickEndpoint, Goto, RInv, IInv, TypesHold
<1>2. /\ b \in Backends /\ left[c] \in Nat /\ Clients(b) \in Nat /\ Clients(b) > 0
      /\ k \in Nat /\ endpoint[c] \in Nat
  <2>1. b \in Backends /\ left[c] \in Nat /\ endpoint[c] \in Nat
    BY DEF RInv, IInv, TypesHold, CountersHold
  <2>2. Clients(b) \in Nat /\ left[c] <= Clients(b)
    BY <2>1, <1>1, ClientsNat DEF RInv, RoundsInv
  <2> QED
    BY <1>1, <2>1, <2>2
<1>3. /\ idx' \in [Backends -> Nat]
      /\ \A a \in Backends : Clients(a) > 0 => idx'[a] \in Endpoints(a)
      /\ idx'[b] = Successor(b)
      /\ alone' \in [Calls -> BOOLEAN]
      /\ alone'[c] = alone[c]
      /\ \A d \in Calls \ {c} : alone'[d] =>
           alone[d] /\ (tried[d] # {} => idx'[backend[d]] = idx[backend[d]])
  BY <1>1, <1>2, AdvanceKeeps DEF RInv, IInv, TypesHold
<1>4. Successor(b) \in Endpoints(b) /\ Successor(b) \in Nat
  BY <1>2, SuccessorWraps DEF RInv, Endpoints
<1>5. CountersHold'
  BY <1>1, <1>3, <1>4 DEF RInv, CountersHold, Clients, Endpoints
<1>6. ASSUME NEW d \in Calls, d # c PROVE RoundsInv(d)'
  BY <1>1, <1>3, <1>6, RoundsKept DEF RInv, IInv, TypesHold, CountersHold
<1>7. RoundsInv(c)'
  <2>1. /\ left'[c] = left[c] - 1 /\ endpoint'[c] = Successor(b)
        /\ tried'[c] = tried[c] \cup {Successor(b)} /\ backend'[c] = b
    BY <1>1 DEF RInv, IInv, TypesHold, CountersHold
  <2>2. ASSUME alone[c] PROVE tried'[c] = {e \in Endpoints(b) : Ago(b, Successor(b), e) < k + 1}
    <3>1. tried[c] = {e \in Endpoints(b) : Ago(b, endpoint[c], e) < k}
      BY <1>1, <2>2 DEF RInv, RoundsInv
    <3>2. k > 0 => endpoint[c] = idx[b]
      BY <1>1, <1>2, <2>2 DEF RInv, RoundsInv
    <3> QED
      BY <1>2, <1>4, <2>1, <3>1, <3>2, OneMoreRound DEF RInv
  <2>3. Clients(b) - left'[c] = k + 1
    BY <1>2, <2>1
  <2> QED
    BY <1>1, <1>2, <1>3, <1>4, <2>1, <2>2, <2>3 DEF RoundsInv, Ago, Endpoints, Clients
<1> QED
  BY <1>5, <1>6, <1>7

\* What the network decides stays a verdict, whoever sends what.
LEMMA LedgerKept ==
  ASSUME LedgerTypeOK, NEW t \in TxIds, NEW f \in Forms, Send(t, f) \/ NetworkDecides(t, f)
  PROVE  LedgerTypeOK'
  BY DEF LedgerTypeOK, Send, NetworkDecides, NetworkApplies, NetworkRejects, Verdicts

LEMMA RoundsStep == RInv /\ [Next]_vars => RInv'
<1> SUFFICES ASSUME RInv, [Next]_vars PROVE RInv'
  OBVIOUS
<1>1. IInv'
  BY NextIInv DEF RInv
<1>2. TypesHold /\ CountersHold /\ LedgerTypeOK
  BY DEF RInv, IInv
<1>3. SUFFICES LedgerTypeOK' /\ CountersHold' /\ \A c \in Calls : RoundsInv(c)'
  BY <1>1 DEF RInv
<1>4. LedgerTypeOK'
  <2>1. CASE UNCHANGED ledger
    BY <1>2, <2>1 DEF LedgerTypeOK, Verdicts
  <2>2. ASSUME NEW c \in Calls, SubmitTo(c) PROVE LedgerTypeOK'
    BY <1>2, <2>1, <2>2, LedgerKept, RouterAssumption DEF SubmitTo
  <2>3. ASSUME NEW t \in TxIds, NEW f \in Forms, NetworkStep(t, f) PROVE LedgerTypeOK'
    BY <1>2, <2>3, LedgerKept DEF NetworkStep
  <2> QED
    BY <2>1, <2>2, <2>3 DEF Next, CallStep, Route, PickEndpoint, AllFailed, Simulate, Answer,
                            QueryStatus, vars
<1>5. ASSUME UNCHANGED <<counters, at, backend, left>>
      PROVE  CountersHold' /\ \A d \in Calls : RoundsInv(d)'
  <2>1. CountersHold'
    BY <1>2, <1>5 DEF CountersHold, counters, Clients, Endpoints
  <2>2. ASSUME NEW d \in Calls PROVE RoundsInv(d)'
    BY <1>5, <2>2, RoundsKept DEF RInv, counters
  <2> QED
    BY <2>1, <2>2
<1>6. ASSUME NEW c \in Calls, Route(c)
      PROVE  CountersHold' /\ \A d \in Calls : RoundsInv(d)'
  <2>1. PICK b \in Backends : /\ backend' = [backend EXCEPT ![c] = b]
                              /\ left' = [left EXCEPT ![c] = Clients(b)]
    BY <1>6 DEF Route
  <2>2. /\ at[c] = "route" /\ at' = [at EXCEPT ![c] = "next"]
        /\ UNCHANGED <<idx, endpoint, tried, alone>>
    BY <1>6 DEF Route, Goto, counters
  <2>3. CountersHold'
    BY <1>2, <2>2 DEF CountersHold, Clients, Endpoints
  <2>4. ASSUME NEW d \in Calls, d # c PROVE RoundsInv(d)'
    BY <1>2, <2>1, <2>2, <2>4, RoundsKept DEF RInv, TypesHold
  <2>5. RoundsInv(c)'
    <3>1. /\ at'[c] = "next" /\ backend'[c] = b /\ left'[c] = Clients(b)
          /\ endpoint'[c] = endpoint[c] /\ endpoint[c] \in Nat
          /\ tried'[c] = {} /\ Clients(b) \in Nat
      BY <1>2, <2>1, <2>2, ClientsNat DEF TypesHold, CountersHold, RInv, RoundsInv
    <3>2. {e \in Endpoints(b) : Ago(b, endpoint[c], e) < Clients(b) - Clients(b)} = {}
      <4> SUFFICES ASSUME NEW e \in Endpoints(b), Ago(b, endpoint[c], e) < 0 PROVE FALSE
        BY <3>1
      <4> QED
        BY <3>1 DEF Ago, Endpoints
    <3> QED
      BY <3>1, <3>2 DEF RoundsInv, Ago, Endpoints, Clients
  <2> QED
    BY <2>3, <2>4, <2>5
<1>7. ASSUME NEW c \in Calls, AllFailed(c) \/ Simulate(c) \/ SubmitTo(c) \/ Answer(c)
      PROVE  CountersHold' /\ \A d \in Calls : RoundsInv(d)'
  <2>1. PICK to \in {"next", "submit", "waiting", "returned"} :
          /\ at[c] # "route" /\ at' = [at EXCEPT ![c] = to]
          /\ to = "submit" => at[c] = "simulate"
          /\ to = "waiting" => at[c] = "submit"
    BY <1>7 DEF AllFailed, Simulate, SubmitTo, Answer, Fails, NextEndpoint, Return, Goto
  <2>2. UNCHANGED <<idx, endpoint, tried, alone, backend, left>>
    BY <1>7 DEF AllFailed, Simulate, SubmitTo, Answer, counters
  <2>3. CountersHold'
    BY <1>2, <2>2 DEF CountersHold, Clients, Endpoints
  <2>4. ASSUME NEW d \in Calls PROVE RoundsInv(d)'
    BY <1>2, <2>1, <2>2, <2>4, RoundsKept DEF RInv, TypesHold
  <2> QED
    BY <2>3, <2>4
<1>8. ASSUME QueryStatus
      PROVE  CountersHold' /\ \A d \in Calls : RoundsInv(d)'
  <2>1. /\ Advance("horizon", Calls) /\ "horizon" \in Backends
        /\ UNCHANGED <<endpoint, tried, at, backend, left>>
    BY <1>8 DEF QueryStatus, Backends
  <2>2. Clients("horizon") > 0
    BY RouterAssumption DEF Clients
  <2>3. /\ idx' \in [Backends -> Nat]
        /\ \A a \in Backends : Clients(a) > 0 => idx'[a] \in Endpoints(a)
        /\ alone' \in [Calls -> BOOLEAN]
        /\ \A d \in Calls : alone'[d] =>
             alone[d] /\ (tried[d] # {} => idx'[backend[d]] = idx[backend[d]])
    BY <1>2, <2>1, <2>2, AdvanceKeeps DEF TypesHold
  <2>4. CountersHold'
    BY <1>2, <2>1, <2>3 DEF CountersHold, Clients, Endpoints
  <2>5. ASSUME NEW d \in Calls PROVE RoundsInv(d)'
    BY <2>1, <2>3, <2>5, RoundsKept DEF RInv
  <2> QED
    BY <2>4, <2>5
<1>9. ASSUME \E t \in TxIds, f \in Forms : NetworkStep(t, f)
      PROVE  CountersHold' /\ \A d \in Calls : RoundsInv(d)'
  BY <1>5, <1>9 DEF NetworkStep
<1> QED
  BY <1>4, <1>5, <1>6, <1>7, <1>8, <1>9, PickKeeps DEF Next, CallStep, vars

\* The variables keep their types, and with them the counters stay within
\* the slices of clients they index: getNextClient cannot panic.
THEOREM RouterTypes == Spec => []TypeOK
<1>1. RInv => TypeOK
  BY DEF RInv, IInv, TypesHold, CountersHold, RoundsInv, TypeOK, AtStates
<1> QED
  BY <1>1, RoundsInit, RoundsStep, PTL DEF Spec

\* "tries each Horizon endpoint": a call whose rounds are used up, and whose
\* counter no other call and no status query moved between them, was given
\* every endpoint of its backend, wherever the counter stood.
THEOREM GivesUpAfterAll == Spec => []AloneTriesAll
<1>1. ASSUME RInv, NEW c \in Calls, at[c] = "next", left[c] = 0, alone[c], tried[c] # {}
      PROVE  tried[c] = Endpoints(backend[c])
  <2> DEFINE b == backend[c]
  <2>1. /\ b \in Backends /\ Clients(b) \in Nat /\ idx[b] \in Nat /\ endpoint[c] = idx[b]
    BY <1>1, ClientsNat DEF RInv, IInv, TypesHold, CountersHold, RoundsInv
  <2>2. tried[c] = {e \in Endpoints(b) : Ago(b, idx[b], e) < Clients(b)}
    BY <1>1, <2>1 DEF RInv, RoundsInv
  <2>3. Clients(b) > 0 /\ idx[b] \in Endpoints(b)
    BY <1>1, <2>1, <2>2 DEF Endpoints, RInv, CountersHold
  <2>4. \A e \in Endpoints(b) : Ago(b, idx[b], e) < Clients(b)
    BY <2>1, <2>3 DEF Ago, Endpoints
  <2> QED
    BY <2>2, <2>4
<1>2. RInv => AloneTriesAll
  BY <1>1 DEF AloneTriesAll
<1> QED
  BY <1>2, RoundsInit, RoundsStep, PTL DEF Spec
=============================================================================
