--------------------------- MODULE GatewayConfig ---------------------------
(***************************************************************************)
(* What a gateway configuration means: validation (internal/config/        *)
(* config.go), the certificate inventory (internal/tlsconfig/inventory.go),*)
(* routing (internal/routing/router.go), the client address behind trusted *)
(* proxies (internal/proxy/trusted_proxy_policy.go) and the parity         *)
(* fingerprint a migration is reviewed by (internal/config/parity.go,      *)
(* migration_source.go).                                                   *)
(*                                                                         *)
(* A configuration is a record: routes is the JSON array in its order;     *)
(* services, backends and profiles, whose identifiers Validate makes       *)
(* unique, are functions of the identifier; trusted is a set of addresses. *)
(* A text that some part of the code trims - identifiers, host names,      *)
(* prefixes, methods - is the sequence of its pieces, blanks among them;   *)
(* the empty text is a field left out.  Case is left out: every comparison *)
(* ignores it but Validate's of the methods.                               *)
(***************************************************************************)
EXTENDS Naturals, Sequences, SequencesExt

CONSTANTS NoMatch, NoClient,
          Malformed  \* an entry of X-Forwarded-For that is no usable address

Blank == " "

\* strings.TrimSpace.
Trim(text) ==
    LET ink == {i \in DOMAIN text : text[i] # Blank}
    IN IF ink = {} THEN <<>> ELSE SubSeq(text, Min(ink), Max(ink))

\* The name of a host: trimmed, without the trailing dot.
HostName(host) ==
    LET name == Trim(host)
    IN IF name # <<>> /\ Last(name) = "." THEN Front(name) ELSE name

Root == <<"/">>

\* normalizedPrefix.
NormalizedPrefix(prefix) == IF prefix = <<>> THEN Root ELSE prefix

Routes(cfg) == {i \in DOMAIN cfg.routes : cfg.routes[i].enabled}

\* The key Validate compares routes by: methods are joined in the order given.
RouteKey(r) == <<r.host, NormalizedPrefix(r.prefix), r.methods>>

\* A route needs its service, a host, a profile that is enabled if TLS is required, and
\* none if it is disabled.
ValidRoute(cfg, r) ==
    /\ r.service \in DOMAIN cfg.services
    /\ r.host # <<>>
    /\ LET profile == Trim(r.profile) IN
       IF r.tls THEN profile \in DOMAIN cfg.profiles /\ cfg.profiles[profile]
       ELSE profile = <<>>

\* Validate: only enabled routes are looked at.
Validate(cfg) ==
    /\ \A id \in DOMAIN cfg.profiles \cup DOMAIN cfg.backends : Trim(id) # <<>>
    /\ <<>> \notin DOMAIN cfg.services
    /\ \A s \in DOMAIN cfg.services : ToSet(cfg.services[s]) \subseteq DOMAIN cfg.backends
    /\ \A i \in Routes(cfg) : ValidRoute(cfg, cfg.routes[i])
    /\ \A i, j \in Routes(cfg) : RouteKey(cfg.routes[i]) = RouteKey(cfg.routes[j]) => i = j

-----------------------------------------------------------------------------
(* The certificate of a host name; blanks and dot are stripped on both     *)
(* sides.                                                                  *)

TlsRoutes(cfg) == {i \in Routes(cfg) : cfg.routes[i].tls}

\* NewInventory: the profiles the TLS routes name for each host.
ProfilesForHost(cfg, name) ==
    {cfg.routes[i].profile : i \in {j \in TlsRoutes(cfg) : HostName(cfg.routes[j].host) = name}}

\* NewInventory refuses a route whose profile, as written, is not there or not enabled,
\* and a host with two profiles.
ValidInventory(cfg) ==
    \A i \in TlsRoutes(cfg) :
        LET r == cfg.routes[i] IN
        /\ r.profile \in DOMAIN cfg.profiles /\ cfg.profiles[r.profile]
        /\ ProfilesForHost(cfg, HostName(r.host)) = {r.profile}

\* NewRuntime: every enabled profile's certificate and key must load, used or not;
\* pairs holds the profiles whose files are there and match.
Loads(cfg, pairs) ==
    /\ ValidInventory(cfg)
    /\ {p \in DOMAIN cfg.profiles : cfg.profiles[p]} \subseteq pairs

-----------------------------------------------------------------------------
(* Routing.                                                                *)

\* methodAllowed.
MethodAllowed(methods, method) == methods = <<>> \/ method \in ToSet(methods)

\* The backends of a route's service that are enabled.
Backends(cfg, r) == {b \in ToSet(cfg.services[r.service]) : cfg.backends[b]}

\* A route takes the request if host, path, method and transport agree, all compared as
\* written, blanks and dot included, and some backend of it is enabled.
Takes(cfg, r, req) ==
    /\ req.host = r.host
    /\ IsPrefix(NormalizedPrefix(r.prefix), req.path)
    /\ MethodAllowed(r.methods, req.method)
    /\ r.tls => req.tls
    /\ Backends(cfg, r) # {}

\* Enabled routes by the length of the prefix as written, longest first; the sort is
\* stable.
Before(cfg, i, j) ==
    LET l(k) == Len(cfg.routes[k].prefix)
    IN l(i) > l(j) \/ (l(i) = l(j) /\ i < j)

\* ResolveCandidates: the first route that takes the request, and its backends.
ResolveCandidates(cfg, req) ==
    LET takers == {i \in Routes(cfg) : Takes(cfg, cfg.routes[i], req)}
        first == CHOOSE i \in takers : \A j \in takers \ {i} : Before(cfg, i, j)
    IN IF takers = {} THEN NoMatch
       ELSE [route |-> cfg.routes[first].id, backends |-> Backends(cfg, cfg.routes[first])]

-----------------------------------------------------------------------------
(* The address of the client.                                              *)

\* Mutant: the chain is read from its start.
MutResolveClientAddress(cfg, peer, chain) ==
    LET outside == {i \in DOMAIN chain : chain[i] \notin cfg.trusted}
    IN IF peer \notin cfg.trusted THEN peer
       ELSE IF outside = {} \/ Malformed \in ToSet(chain) THEN NoClient
       ELSE chain[CHOOSE i \in outside : \A j \in outside : i <= j]

\* ResolveClientAddress: the peer if it is not trusted, else the last address of the first
\* X-Forwarded-For line outside the trusted set; a chain without one, or with an entry
\* that does not parse, is refused.
ResolveClientAddress(cfg, peer, chain) ==
    LET outside == {i \in DOMAIN chain : chain[i] \notin cfg.trusted}
    IN IF peer \notin cfg.trusted THEN peer
       ELSE IF outside = {} \/ Malformed \in ToSet(chain) THEN NoClient
       ELSE chain[CHOOSE i \in outside : \A j \in outside : j <= i]

-----------------------------------------------------------------------------
(* Migration: the reviewed configuration and the candidate.                *)

\* A sorted list: what is in it, and how often.
Sorted(F(_), S) == BagOfAll(F, SetToBag(S))

SortedMethods(methods) == Sorted(LAMBDA i : Trim(methods[i]), DOMAIN methods)

\* Mutant: the fingerprint leaves out whether a route is enabled.
MutCanonicalRoute(r) ==
    [id |-> Trim(r.id), service |-> Trim(r.service), host |-> HostName(r.host),
     prefix |-> NormalizedPrefix(Trim(r.prefix)), methods |-> SortedMethods(r.methods),
     tls |-> r.tls, profile |-> Trim(r.profile)]

\* A route as ConfigParityFingerprint writes it: everything trimmed, no dot, "/" for an
\* empty prefix, methods sorted.
CanonicalRoute(r) ==
    [id |-> Trim(r.id), service |-> Trim(r.service), host |-> HostName(r.host),
     prefix |-> NormalizedPrefix(Trim(r.prefix)), methods |-> SortedMethods(r.methods),
     enabled |-> r.enabled, tls |-> r.tls, profile |-> Trim(r.profile)]

\* A service: the backends it names are sorted and not trimmed.
CanonicalService(id, backends) ==
    [id |-> Trim(id), backends |-> Sorted(LAMBDA i : backends[i], DOMAIN backends)]

CanonicalSwitch(id, enabled) == [id |-> Trim(id), enabled |-> enabled]

\* ConfigParityFingerprint: collections are sorted by identifier, so their order is lost
\* (but for entries of one identifier); the trusted proxies are not part of it.  Equality
\* stands for equal SHA-256.
ConfigParityFingerprint(cfg) ==
    [routes |-> Sorted(LAMBDA i : CanonicalRoute(cfg.routes[i]), DOMAIN cfg.routes),
     services |-> Sorted(LAMBDA s : CanonicalService(s, cfg.services[s]), DOMAIN cfg.services),
     backends |-> Sorted(LAMBDA b : CanonicalSwitch(b, cfg.backends[b]), DOMAIN cfg.backends),
     profiles |-> Sorted(LAMBDA p : CanonicalSwitch(p, cfg.profiles[p]), DOMAIN cfg.profiles)]

\* The manifest of a reviewed configuration: its fingerprint and its number of routes (the
\* other counts follow from the fingerprint).
Manifest(cfg) == [sha |-> ConfigParityFingerprint(cfg), routes |-> Len(cfg.routes)]

\* BuildConfigParityEvidence and ValidateConfigParityEvidence.
Matches(cfg, manifest) == ConfigParityFingerprint(cfg) = manifest.sha

\* The candidate is accepted for the manifest: valid, of the same size, and a match.
Accepts(cfg, manifest) ==
    /\ Validate(cfg)
    /\ Len(cfg.routes) = manifest.routes
    /\ Matches(cfg, manifest)

=============================================================================
