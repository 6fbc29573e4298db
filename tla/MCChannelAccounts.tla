-------------------------- MODULE MCChannelAccounts --------------------------
(***************************************************************************)
(* ChannelAccounts for TLC.                                                *)
(***************************************************************************)
EXTENDS ChannelAccounts, TLC

\* The actions and properties treat all accounts and all replicas alike.
Symmetry == Permutations(Replicas) \cup Permutations(Accounts)
=============================================================================
