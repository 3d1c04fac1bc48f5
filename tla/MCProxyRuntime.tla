--------------------------- MODULE MCProxyRuntime ---------------------------
(* ProxyRuntime on small instances. *)
EXTENDS ProxyRuntime, TLC

CONSTANTS c1, c2, b1, b2, a1, a2, get, post

\* The second configuration moves b1 to the other authority.
MovedPool ==
    (c1 :> <<[id |-> b1, addr |-> a1], [id |-> b2, addr |-> a2]>>) @@
    (c2 :> <<[id |-> b1, addr |-> a2]>>)

\* The same with that backend alone.
AlonePool == (c1 :> <<[id |-> b1, addr |-> a1]>>) @@ (c2 :> <<[id |-> b1, addr |-> a2]>>)

=============================================================================
