----------------------------- MODULE MCKasMiner -----------------------------
(* Small instances of KasMiner for TLC. *)
EXTENDS KasMiner

\* An extranonce of one digit and one of two.
MCExtranonces == {[n1 |-> 1, n1b |-> 1], [n1 |-> 2, n1b |-> 2]}
\* One that leaves two nonces before the end of the numbers.
HighExtranonce == {[n1 |-> 7, n1b |-> 3]}

=============================================================================
