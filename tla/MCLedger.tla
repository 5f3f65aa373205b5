------------------------------ MODULE MCLedger ------------------------------
(* An instance of Ledger for TLC.  Providers and sessions are model values *)
(* that no definition tells apart.                                         *)
EXTENDS Ledger, TLC

Identities == Permutations(Providers) \cup Permutations(Sessions)
=============================================================================
