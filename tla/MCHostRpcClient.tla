--------------------------- MODULE MCHostRpcClient ---------------------------
(* HostRpcClient on a small instance.                                      *)
EXTENDS HostRpcClient

\* Both executors.
AllModes == {"threads", "turns"}

=============================================================================
