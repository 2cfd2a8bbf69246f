----------------------------- MODULE MCBtcMiner -----------------------------
(* A small instance of BtcMiner for TLC. *)
EXTENDS BtcMiner

\* A usable extranonce, whose nonce2 wraps within MaxN2, and one of another
\* length that is not hex.
MCExtranonces ==
  {[n1 |-> 1, n1b |-> 1, n2b |-> 1], [n1 |-> NotHex, n1b |-> 2, n2b |-> 1]}

=============================================================================
