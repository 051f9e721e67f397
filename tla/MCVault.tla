------------------------------ MODULE MCVault -------------------------------
(* A small instance of VaultAPI for TLC.                                   *)
EXTENDS VaultAPI, TLC

CONSTANTS w1, w2, e1, e2, a1, r1, c1, c2

=============================================================================
