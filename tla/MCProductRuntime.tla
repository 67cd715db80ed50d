--------------------------- MODULE MCProductRuntime ---------------------------
(* ProductRuntime on a small instance.                                     *)
EXTENDS ProductRuntime

\* The three embedders.
AllIngresses == {"spawned", "turns", "sequential"}

=============================================================================
