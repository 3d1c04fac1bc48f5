--------------------------- MODULE GatewayProcess ---------------------------
(***************************************************************************)
(* The gateway process (cmd/gateway/main.go): start, the signal loop with  *)
(* its two-step reload, and the shutdown of the two servers; before it,    *)
(* the verification of the configuration it is to be started with          *)
(* (cmd/gateway-migration-verify).                                         *)
(*                                                                         *)
(* signals is the channel of capacity 2 given to signal.Notify, which      *)
(* drops a signal when it is full.  Requests are served by other           *)
(* goroutines, between any two steps of the loop.                          *)
(***************************************************************************)
EXTENDS GatewayConfig

CONSTANTS
    Candidate,   \* configurations that are reviewed and verified
    Deployed,    \* configurations the running process is explored with
    Broken,      \* a file that does not parse, or is read half written
    NoConfig,
    Profile,     \* certificate profiles
    Request,     \* requests the configurations are compared on
    Address,     \* addresses of peers and clients
    MaxChain     \* bound on the length of X-Forwarded-For

Configuration == Candidate \cup Deployed

\* Prefixes and paths are sequences of pieces; trusted proxies are addresses.
ASSUME GatewayAssumption ==
    /\ \A c \in Configuration :
          /\ \A i \in DOMAIN c.routes : /\ c.routes[i].prefix \in Seq(STRING)
                                       /\ c.routes[i].methods \in Seq(Seq(STRING))
          /\ c.trusted \subseteq Address
    /\ \A q \in Request : q.path \in Seq(STRING)
    /\ {Malformed, NoClient} \cap Address = {}

Capacity == 2

Server == {"http", "https"}

VARIABLES
    reviewed,  \* the configuration whose manifest was reviewed
    verified,  \* gateway-migration-verify accepted the file
    file,      \* the configuration file
    pairs,     \* the profiles whose certificate and key files load
    https,     \* the -https listener is on
    pc,        \* where main is
    next,      \* the configuration a reload has loaded
    handler,   \* the configuration of the request handler
    tls,       \* the runtime of the TLS listener: its configuration and what it loaded
    signals,
    owed,      \* ghost: SIGHUPs sent since the file was last read
    asked,     \* ghost: a SIGTERM was accepted into the channel
    listener,  \* servers that accept connections
    active,    \* servers with a request under way
    broke,     \* a listener's error waits in errCh
    expired    \* the ten seconds of the shutdown are over

vars == <<reviewed, verified, file, pairs, https, pc, next, handler, tls, signals, owed,
          asked, listener, active, broke, expired>>

config == <<next, handler, tls>>
servers == <<listener, active, broke, expired>>
disk == <<file, pairs>>
review == <<reviewed, verified, https>>

Entry == Address \cup {Malformed}
Files == Configuration \cup {Broken}
MaybeConfig == Configuration \cup {NoConfig}
Runtime == [cfg : MaybeConfig, pairs : SUBSET Profile]

\* The type invariant.
TypeOK ==
    /\ reviewed \in MaybeConfig
    /\ verified \in BOOLEAN /\ https \in BOOLEAN /\ owed \in BOOLEAN /\ asked \in BOOLEAN
    /\ file \in Files /\ pairs \subseteq Profile
    /\ pc \in {"prepare", "wait", "tls", "swap", "drain", "drainTls", "exited",
              "failed"}
    /\ next \in Deployed \cup {NoConfig} /\ handler \in Deployed \cup {NoConfig}
    /\ tls \in Runtime
    /\ signals \in Seq({"HUP", "TERM"}) /\ Len(signals) <= Capacity
    /\ listener \subseteq Server /\ active \subseteq Server
    /\ broke \in BOOLEAN /\ expired \in BOOLEAN

Init ==
    /\ reviewed \in {c \in Candidate : Validate(c)}
    /\ file \in Configuration
    /\ verified = FALSE
    /\ pairs = Profile
    /\ https \in BOOLEAN
    /\ pc = "prepare"
    /\ next = NoConfig /\ handler = NoConfig /\ tls = [cfg |-> NoConfig, pairs |-> {}]
    /\ signals = <<>> /\ owed = FALSE /\ asked = FALSE
    /\ listener = {} /\ active = {} /\ broke = FALSE /\ expired = FALSE

-----------------------------------------------------------------------------
(* Verification, and the start.                                            *)

\* gateway-migration-verify on the file and the reviewed manifest.
Verify ==
    /\ pc = "prepare" /\ ~verified
    /\ Accepts(file, Manifest(reviewed))
    /\ verified' = TRUE
    /\ UNCHANGED <<reviewed, https, disk, pc, config, signals, owed, asked, servers>>

\* Up to the signal loop: the configuration and the certificates must load.
Boot ==
    /\ pc = "prepare" /\ file \in Deployed /\ Validate(file)
    /\ https => Loads(file, pairs)
    /\ pc' = "wait"
    /\ handler' = file
    /\ tls' = IF https THEN [cfg |-> file, pairs |-> pairs] ELSE tls
    /\ listener' = IF https THEN Server ELSE {"http"}
    /\ reviewed' = NoConfig /\ verified' = FALSE
    /\ UNCHANGED <<https, disk, next, signals, owed, asked, active, broke, expired>>

-----------------------------------------------------------------------------
(* The signal loop.                                                        *)

Ended == {"exited", "failed"}

Running == pc \notin Ended \cup {"prepare"}

\* Mutant: the channel has no buffer, so a signal is lost unless main waits for it.
MutRoom(queue) == queue = <<>> /\ pc = "wait"

\* signal.Notify does not block: without room the signal is dropped.
Room(queue) == Len(queue) < Capacity

Hangup ==
    /\ Running
    /\ signals' = IF Room(signals) THEN Append(signals, "HUP") ELSE signals
    /\ owed' = TRUE
    /\ UNCHANGED <<review, disk, pc, config, asked, servers>>

Terminate ==
    /\ Running
    /\ signals' = IF Room(signals) THEN Append(signals, "TERM") ELSE signals
    /\ asked' = (asked \/ Room(signals))
    /\ UNCHANGED <<review, disk, pc, config, owed, servers>>

\* SIGHUP: the file is read and validated; a bad one leaves everything as it is.
Load ==
    /\ pc = "wait" /\ signals # <<>> /\ Head(signals) = "HUP"
    /\ signals' = Tail(signals)
    /\ owed' = FALSE
    /\ IF file # Broken /\ Validate(file)
       THEN next' = file /\ pc' = "tls"
       ELSE UNCHANGED <<next, pc>>
    /\ UNCHANGED <<review, disk, handler, tls, asked, servers>>

\* Mutant: the handler is reloaded before the certificates are.
MutReloadTls ==
    /\ pc = "tls"
    /\ handler' = next
    /\ IF https /\ ~Loads(next, pairs)
       THEN pc' = "wait" /\ next' = NoConfig /\ UNCHANGED tls
       ELSE /\ pc' = "swap"
            /\ tls' = IF https THEN [cfg |-> next, pairs |-> pairs] ELSE tls
            /\ UNCHANGED next
    /\ UNCHANGED <<review, disk, signals, owed, asked, servers>>

\* Reloader.Reload: the complete runtime replaces the old one, or the reload ends.
ReloadTls ==
    /\ pc = "tls"
    /\ IF https /\ ~Loads(next, pairs)
       THEN pc' = "wait" /\ next' = NoConfig /\ UNCHANGED tls
       ELSE /\ pc' = "swap"
            /\ tls' = IF https THEN [cfg |-> next, pairs |-> pairs] ELSE tls
            /\ UNCHANGED next
    /\ UNCHANGED <<review, disk, handler, signals, owed, asked, servers>>

ReloadHandler ==
    /\ pc = "swap"
    /\ handler' = next
    /\ next' = NoConfig
    /\ pc' = "wait"
    /\ UNCHANGED <<review, disk, tls, signals, owed, asked, servers>>

\* SIGTERM or SIGINT: server.Shutdown closes its listener first.
Stop ==
    /\ pc = "wait" /\ signals # <<>> /\ Head(signals) = "TERM"
    /\ signals' = Tail(signals)
    /\ pc' = "drain"
    /\ listener' = listener \ {"http"}
    /\ UNCHANGED <<review, disk, config, owed, asked, active, broke, expired>>

Drained(s) == s \notin active \/ expired

\* Mutant: only the HTTP server is shut down.
MutDrainHttp ==
    /\ pc = "drain" /\ Drained("http")
    /\ pc' = "exited"
    /\ listener' = {}
    /\ UNCHANGED <<review, disk, config, signals, owed, asked, active, broke, expired>>

\* server.Shutdown returns; until now the TLS listener accepted connections.
DrainHttp ==
    /\ pc = "drain" /\ Drained("http")
    /\ pc' = IF https THEN "drainTls" ELSE "exited"
    /\ listener' = {}
    /\ UNCHANGED <<review, disk, config, signals, owed, asked, active, broke, expired>>

\* tlsServer.Shutdown has what is left of the same ten seconds.
DrainTls ==
    /\ pc = "drainTls" /\ Drained("https")
    /\ pc' = "exited"
    /\ UNCHANGED <<review, disk, config, signals, owed, asked, servers>>

\* The shutdown's context expires.
Deadline ==
    /\ pc \in {"drain", "drainTls"} /\ ~expired
    /\ expired' = TRUE
    /\ UNCHANGED <<review, disk, pc, config, signals, owed, asked, listener, active, broke>>

\* errCh: main exits at once when a listener failed.
ListenerExit ==
    /\ pc = "wait" /\ broke
    /\ pc' = "failed"
    /\ listener' = {}
    /\ UNCHANGED <<review, disk, config, signals, owed, asked, active, broke, expired>>

Main == Load \/ ReloadTls \/ ReloadHandler \/ Stop \/ DrainHttp \/ DrainTls \/ ListenerExit

-----------------------------------------------------------------------------
(* Its environment.                                                        *)

\* Somebody writes the file.
Write ==
    /\ Running
    /\ file' \in (Deployed \cup {Broken}) \ {file}
    /\ UNCHANGED <<review, pairs, pc, config, signals, owed, asked, servers>>

\* Certificate files are replaced, or become unreadable.
ReplacePairs ==
    /\ Running
    /\ pairs' \in SUBSET Profile \ {pairs}
    /\ UNCHANGED <<review, file, pc, config, signals, owed, asked, servers>>

RequestBegins(s) ==
    /\ Running /\ s \in listener \ active
    /\ active' = active \cup {s}
    /\ UNCHANGED <<review, disk, pc, config, signals, owed, asked, listener, broke, expired>>

RequestEnds(s) ==
    /\ Running /\ s \in active
    /\ active' = active \ {s}
    /\ UNCHANGED <<review, disk, pc, config, signals, owed, asked, listener, broke, expired>>

ListenerFails ==
    /\ Running
    /\ \E s \in listener : listener' = listener \ {s}
    /\ broke' = TRUE
    /\ UNCHANGED <<review, disk, pc, config, signals, owed, asked, active, expired>>

Environment ==
    \/ Hangup \/ Terminate \/ Write \/ ReplacePairs \/ ListenerFails
    \/ \E s \in Server : RequestBegins(s) \/ RequestEnds(s)

Next == Verify \/ Boot \/ Main \/ Deadline \/ Environment

\* main's goroutine runs whenever it can, and the shutdown's timer fires.
Spec == Init /\ [][Next]_vars /\ WF_vars(Main) /\ WF_vars(Deadline)

-----------------------------------------------------------------------------
\* The TLS runtime is never behind the handler: both have one configuration, except
\* between the two swaps of a reload, when the TLS runtime already has the next one; and
\* for every host the handler serves by TLS only, the runtime has loaded a certificate,
\* whatever reload was refused half way.
ReloadWhole ==
    https /\ Running =>
        /\ tls.cfg = handler \/ (pc = "swap" /\ tls.cfg = next)
        /\ pc # "swap" => \A i \in Routes(handler) :
              handler.routes[i].tls =>
                  ProfilesForHost(tls.cfg, HostName(handler.routes[i].host)) \cap tls.pairs # {}

\* After a SIGHUP, even one dropped for want of room, the file is read again or the
\* process stops; and an accepted SIGTERM stops it.
SignalsServed ==
    /\ owed ~> (~owed \/ pc \in {"drain", "drainTls"} \cup Ended)
    /\ asked ~> pc \in Ended

\* The process ends on request only when neither server has a request under way, or ten
\* seconds after the shutdown began.
DrainedOrDeadline ==
    pc = "exited" /\ active # {} => expired

\* A route written as the fingerprint writes it: no blanks around its texts, no dot at the
\* end of its host, and with a prefix.
PlainRoute(r) ==
    /\ \A text \in {r.id, r.service, r.prefix} \cup ToSet(r.methods) : Trim(text) = text
    /\ HostName(r.host) = r.host
    /\ r.prefix # <<>>

\* A configuration of such routes, whose services and backends have no blanks around their
\* identifiers, and in which two enabled routes that overlap differ in the length of their
\* prefixes.
Plain(cfg) ==
    /\ \A i \in DOMAIN cfg.routes : PlainRoute(cfg.routes[i])
    /\ \A id \in DOMAIN cfg.services \cup DOMAIN cfg.backends : Trim(id) = id
    /\ \A i, j \in Routes(cfg) :
          cfg.routes[i].prefix = cfg.routes[j].prefix
          /\ cfg.routes[i].host = cfg.routes[j].host => i = j

\* A configuration accepted by gateway-migration-verify routes every request to the same
\* route and backends as the reviewed one, if both are plain.
VerifiedRoutesAlike ==
    verified /\ Plain(reviewed) /\ Plain(file) =>
        \A req \in Request : ResolveCandidates(file, req) = ResolveCandidates(reviewed, req)

\* ResolveClientAddress: the client is found by the addresses that trusted proxies appended,
\* so an entry in front of them does not change it (one that does not parse may have the
\* request refused); and a trusted proxy is never taken for a client.
ClientAddressStable ==
    Running => \A peer \in Address : \A chain \in BoundedSeq(Entry, MaxChain) :
        LET client == ResolveClientAddress(handler, peer, chain)
            Prefixed(entry) == ResolveClientAddress(handler, peer, <<entry>> \o chain)
        IN
        /\ client \notin handler.trusted
        /\ client # NoClient => /\ \A a \in Address : Prefixed(a) = client
                               /\ Prefixed(Malformed) \in {client, NoClient}

\* ConfigParityFingerprint's comment: the fingerprint is an identity "for the complete
\* validated Gateway configuration" and "represents configuration semantics", so a
\* configuration it accepts treats every request as the reviewed one does.
VerifiedBehavesAlike ==
    verified =>
        /\ \A req \in Request : ResolveCandidates(file, req) = ResolveCandidates(reviewed, req)
        /\ \A peer, a \in Address : ResolveClientAddress(file, peer, <<a>>)
                                    = ResolveClientAddress(reviewed, peer, <<a>>)

-----------------------------------------------------------------------------
(* What holds of every reachable state, and is preserved by every step.    *)

\* The configurations of a running process are valid ones that it may be given.
ConfigInv ==
    /\ Running => /\ file \in Deployed \cup {Broken}
                  /\ handler \in Deployed /\ Validate(handler)
    /\ pc \in {"tls", "swap"} => next \in Deployed /\ Validate(next)

\* The TLS runtime has every certificate its configuration asks for, and that
\* configuration is the handler's, or the one the handler is about to get.
TlsInv ==
    https /\ Running => /\ tls.cfg = IF pc = "swap" THEN next ELSE handler
                        /\ Loads(tls.cfg, tls.pairs)

\* A server without its listener gets no request; a server shut down has none.
DrainInv ==
    /\ ~https => "https" \notin listener \cup active
    /\ pc \in {"drain", "drainTls", "exited"} => "http" \notin listener
    /\ pc \in {"drainTls", "exited"} => listener = {} /\ Drained("http")
    /\ pc = "exited" => Drained("https")

\* What was verified is still there: the file is not written before the start.
ReviewInv ==
    /\ pc = "prepare" => file \in Configuration /\ reviewed \in Candidate
    /\ verified => pc = "prepare" /\ Accepts(file, Manifest(reviewed))

\* The inductive invariant.
ProcessInv == TypeOK /\ ConfigInv /\ TlsInv /\ DrainInv /\ ReviewInv

=============================================================================
