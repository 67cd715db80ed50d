---------------------------- MODULE MCSigningRequests ----------------------------
(* SigningRequests on a small instance.                                    *)
EXTENDS SigningRequests, TLC

CONSTANTS a, b, c, w1, w2, p1, p2

Three == {a, b, c}
ByProduct == a :> p1 @@ b :> p1 @@ c :> p2

\* Every operation by itself, and a request for automatic signing together
\* with another, or with a signature that could live on the grant, of the same
\* product or not.
Asking(k, l, m) == a :> k @@ b :> l @@ c :> m
Alone    == {Asking(k, Nothing, Nothing) : k \in Kinds}
Together == {Asking("auto_signing", l, Nothing) : l \in {"sign_vrf", "auto_signing"}}
            \cup {Asking("auto_signing", Nothing, "sign_vrf")}
Plays    == Alone \cup Together

=============================================================================
