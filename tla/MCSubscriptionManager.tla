------------------------ MODULE MCSubscriptionManager ------------------------
(* SubscriptionManager on a small instance: the .cfg gives the bounds.     *)
EXTENDS SubscriptionManager

=============================================================================
