------------------------- MODULE MCSubmissionEngine --------------------------
(***************************************************************************)
(* SubmissionEngine for TLC: values for Kind, and the symmetries.          *)
(***************************************************************************)
EXTENDS SubmissionEngine, TLC

CONSTANTS t1, t2

AllClassic == [t \in TxIds |-> "classic"]
AllSoroban == [t \in TxIds |-> "soroban"]
SecondGarbage == [t \in TxIds |-> IF t = t2 THEN "garbage" ELSE "classic"]
SecondSoroban == [t \in TxIds |-> IF t = t2 THEN "soroban" ELSE "classic"]

\* The liveness run starts with one account; the others may be added at any
\* time.
LiveInit ==
  /\ Init
  /\ acctStatus = [a \in Accounts |->
                     IF a = CHOOSE b \in Accounts : TRUE THEN "idle" ELSE "absent"]

LiveSpec == LiveInit /\ [][Next]_vars /\ Fairness

\* Replicas, accounts and retriers are interchangeable; transactions differ
\* in their kind.
Symmetry ==
  Permutations(Replicas) \cup Permutations(Retriers) \cup Permutations(Accounts)
=============================================================================
