------------------------------ MODULE MCMiner ------------------------------
(* Small instances of Miner for TLC. *)
EXTENDS Miner

CONSTANTS j1, j2

=============================================================================
