----------------------------- MODULE MCChainRuntime -----------------------------
(* ChainRuntime and ChainCallers on a small instance.                      *)
EXTENDS ChainCallers, TLC

CONSTANTS s1, s2, q1, q2, b1, b2, x1, x2, u1, u2

\* Every subscription has a request id of its own, as the JavaScript client
\* gives them out.
OwnIds == (s1 :> "i1") @@ (s2 :> "i2")

\* The follows with a request, the transactions, and users of the client
\* or a follow who share a connection with them.
Companies ==
  {{s1, s2, q1}, {s1, q2}, {b1, b2, x1, x2}, {u1, u2, b1}, {s1, b1, x1}}

AllModes  == {"threads", "turns"}

=============================================================================
