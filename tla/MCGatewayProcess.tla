-------------------------- MODULE MCGatewayProcess --------------------------
(* GatewayProcess on a small set of configurations with two routes.         *)
EXTENDS GatewayProcess

A == <<"/", "a">>

\* The ways to write a text with a blank behind it, and without.
Spelled(text) == {text, Append(text, Blank)}

\* The route of the TLS service, written in different ways.
RouteA == [id : {<<"a">>}, service : {<<"s">>}, host : Spelled(<<"x">>) \cup {<<"x", ".">>},
           prefix : Spelled(Root) \cup {<<>>},
           methods : {<<>>} \cup {<<m>> : m \in Spelled(<<"GET">>)},
           enabled : BOOLEAN, tls : {TRUE}, profile : {<<"p">>}]

\* The other route: a longer path, or the same path for every method.
RouteB == [id : {<<"b">>}, service : {<<"t">>}, host : {<<"x">>}, prefix : {A, Root},
           methods : {<<>>}, enabled : {TRUE}, tls : {FALSE}, profile : {<<>>}]

Config(routes, trusted) ==
    [routes |-> routes, trusted |-> trusted,
     services |-> <<"s">> :> <<<<"b1">>, <<"b2">>>> @@ <<"t">> :> <<<<"b2">>>>,
     backends |-> <<"b1">> :> TRUE @@ <<"b2">> :> TRUE,
     profiles |-> <<"p">> :> TRUE]

\* The configurations to run: the second serves two hosts by TLS, from two profiles.
One ==
    Config(<<[id |-> <<"a">>, service |-> <<"s">>, host |-> <<"x">>, prefix |-> Root,
              methods |-> <<>>, enabled |-> TRUE, tls |-> TRUE, profile |-> <<"p">>],
             [id |-> <<"b">>, service |-> <<"t">>, host |-> <<"x">>, prefix |-> A,
              methods |-> <<>>, enabled |-> TRUE, tls |-> FALSE, profile |-> <<>>]>>, {})

Two == [One EXCEPT !.trusted = {"proxy"}, !.profiles = <<"p">> :> TRUE @@ <<"q">> :> TRUE,
                   !.routes[2].host = <<"y">>, !.routes[2].tls = TRUE,
                   !.routes[2].profile = <<"q">>]

\* Valid, but its profile is not found under the name as written.
Three == [One EXCEPT !.routes[1].profile = <<"p", Blank>>]

MCDeployed == {One, Two, Three}

\* Two services whose identifiers differ in a blank.
Blanks(service) ==
    [One EXCEPT !.services = <<"s">> :> <<<<"b1">>>> @@ <<"s", Blank>> :> <<<<"b2">>>>
                             @@ <<"t">> :> <<<<"b2">>>>,
                !.routes[1].service = service]

MCCandidate ==
    {Config(routes, {}) : routes \in {<<a, b>> : a \in RouteA, b \in RouteB}
                                       \cup {<<b, a>> : a \in RouteA, b \in RouteB}}
    \cup {One, [One EXCEPT !.trusted = {"proxy"}]}
    \cup {Blanks(s) : s \in Spelled(<<"s">>)}

MCRequest == [host : {<<"x">>, <<"x", ".">>}, path : {Root, A},
              method : {<<"GET">>, <<"PUT">>}, tls : BOOLEAN]

MCProfile == {<<"p">>, <<"q">>}

=============================================================================
