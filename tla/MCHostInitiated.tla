----------------------------- MODULE MCHostInitiated -----------------------------
(* HostInitiated on a small instance.                                      *)
EXTENDS HostInitiated, TLC

CONSTANTS r1, r2

\* Trees are drawn in one of the renderings; the other competes for the place.
TwoTrees == r1 :> 2 @@ r2 :> 0

\* Both ways to handle frames.
AllModes == {"ordered", "spawned"}

=============================================================================
