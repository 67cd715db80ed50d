----------------------------- MODULE MCPermissionSlots -----------------------------
(* PermissionSlots on a small instance: two hosts, one of them under a     *)
(* wildcard, and the wildcard.                                             *)
EXTENDS PermissionSlots, TLC

CONSTANTS a, b, c, x, y, w

Covers == x :> <<x, w>> @@ y :> <<y>> @@ w :> <<w>>

Check(domains)        == [kind |-> "check", domains |-> domains, status |-> "none"]
Peek(domains)         == [kind |-> "peek", domains |-> domains, status |-> "none"]
Plain(pattern)        == [kind |-> "plain", domains |-> <<pattern>>, status |-> "none"]
Set(domains, status)  == [kind |-> "set", domains |-> domains, status |-> status]

\* Two requests for both hosts, in either order, one more for some of them,
\* and something the host sets meanwhile; and a bundle the host grants, part of
\* which it takes back, while somebody asks.
Three == {a, b, c}
Meetings ==
  {a :> Check(<<x, y>>) @@ b :> e @@ c :> h :
     e \in {Check(<<y, x>>), Check(<<x>>), Plain(y), Check(<<w, y>>), Peek(<<x, y>>), Check(<<>>)},
     h \in {Set(<<x, y>>, "none"), Set(<<x, y>>, "granted"), Set(<<y>>, "denied"), Set(<<w>>, "granted"),
            Set(<<x>>, "none"), Set(<<w>>, "denied"), Check(<<x, y>>)}}
  \cup {a :> Set(<<x, y>>, "granted") @@ b :> Set(<<x>>, "none") @@ c :> Check(<<x, y>>)}

Unordered == [t \in Three |-> {}]

=============================================================================
