------------------------------- MODULE MCRouter -------------------------------
(***************************************************************************)
(* Router for TLC: a classic transaction and the fee bump of a Soroban one, *)
(* which may go to either backend, submitted at the same time.             *)
(***************************************************************************)
EXTENDS Router

CONSTANTS t1, t2

KindOf == [t \in TxIds |-> IF t = t2 THEN "soroban" ELSE "classic"]

SomeCalls == {<<t1, "original">>, <<t2, "bump">>}
=============================================================================
