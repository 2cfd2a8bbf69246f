------------------------------ MODULE MCProxy -------------------------------
(* The network thread with its proxy, for TLC. *)
EXTENDS Proxy

CONSTANTS j1

\* The longest way to connect, and a short one on which the proxy may fall silent.
LongRoute == {[proxy |-> "https", tls |-> TRUE]}
HttpRoute == {[proxy |-> "http", tls |-> FALSE]}

=============================================================================
