----------------------------- MODULE MCSessionSecrets -----------------------------
(* SessionSecrets on a small instance.                                     *)
EXTENDS SessionSecrets, TLC

CONSTANTS a, b, c, s1, s2, p1, p2

Three == {a, b, c}
TwoWallets == s1 :> "first" @@ s2 :> "second"

Play(kind, resource, product, s) ==
  [kind |-> kind, resource |-> resource, product |-> product, session |-> s]
Request(kind, resource) == Play(kind, resource, p1, s1)

\* A secret that is fetched, somebody who looks it up meanwhile, and
\* something the host does; or two things the host does.
Connects == {Play("connect", "auto", p1, s) : s \in {s1, s2}}
Cuts     == {Play("disconnect", "auto", p1, s1), Play("clear", "auto", p1, s1), Play("clear", "auto", p2, s1)}
Fetches  == {Request("fetch", r) : r \in Resources} \cup {Request("refresh", "allowance")}
Meetings ==
  {a :> x @@ b :> Request("lookup", x.resource) @@ c :> z : x \in Fetches, z \in Connects \cup Cuts}
    \cup {a :> x @@ b :> y @@ c :> z : x \in Fetches, y \in Connects, z \in Cuts}

=============================================================================
