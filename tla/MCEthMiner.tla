----------------------------- MODULE MCEthMiner -----------------------------
(* A small instance of EthBuild, and so of EthMiner, for TLC. *)
EXTENDS EthBuild

\* For etc the first two epochs share a dataset and the third does not.
ThreeEpochs == 2..4

=============================================================================
