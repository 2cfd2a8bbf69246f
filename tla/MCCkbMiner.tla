----------------------------- MODULE MCCkbMiner -----------------------------
(* A small instance of CkbMiner for TLC. *)
EXTENDS CkbMiner

\* In nonces of four binary digits, an extranonce that leaves room for all that
\* is added, and one that the sums spill into.
MCExtranonces == {[n1 |-> 1, n1b |-> 1], [n1 |-> 7, n1b |-> 3]}

=============================================================================
