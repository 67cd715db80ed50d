------------------------------ MODULE MCWsBridge ------------------------------
(* WsBridge on a small instance: the .cfg files give the bounds.           *)
EXTENDS WsBridge

=============================================================================
