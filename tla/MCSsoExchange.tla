----------------------------- MODULE MCSsoExchange -----------------------------
(* SsoExchange on a small instance.                                        *)
EXTENDS SsoExchange

=============================================================================
