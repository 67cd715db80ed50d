----------------------------- MODULE MCPairingSession -----------------------------
(* PairingSession on a small instance.                                     *)
EXTENDS PairingSession, TLC

CONSTANTS l1, l2, x, out, boot, sync, peer

\* Two logins and a logout; a login against the store's own session; the
\* host's session against the store's; and both against a logout.
SmallCasts == {{l1, l2, x, out}, {l1, x, sync, out}, {x, sync, boot, peer}, {l1, sync, peer}}

=============================================================================
