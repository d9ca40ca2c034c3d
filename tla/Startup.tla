------------------------------ MODULE Startup ------------------------------
(***************************************************************************)
(* How each process of the fleet is put together: the steps of runService  *)
(* (and of the functions it calls) in their order, and the components they *)
(* hand to the runner.                                                     *)
(*                                                                         *)
(* A step may fail, which returns from runService. It opens something that *)
(* must be closed again (a listener, a pool, a client); its error path     *)
(* closes some of what is open; once it succeeded a close is deferred; and *)
(* a step hands over (owned = false) what a component closes from then on. *)
(***************************************************************************)
EXTENDS Configuration, Sequences

Step == [opens |-> {}, undoes |-> {}, defers |-> {}, hands |-> {}]

\* Early returns with nothing opened in between, by what may fail there.
Checks(what) == <<Step>>

\* Opened, and its close deferred at once: by the function that opened it
\* until it returns, then by its caller.
Opens(what) == <<[Step EXCEPT !.opens = {what}, !.defers = {what}]>>

\* Opened, but only later the subject of a deferred close.
OpensBare(what) == <<[Step EXCEPT !.opens = {what}]>>

Hands(what) == <<[Step EXCEPT !.hands = what]>>

When(condition, steps) == IF condition THEN steps ELSE << >>

\* A component, what its Shutdown closes, and the components its work uses.
Component(name, kind, closes, uses) == [name |-> name, kind |-> kind, closes |-> closes, uses |-> uses]
Resource(name, closes) == Component(name, "resource", closes, {})
Database(name, closes) == Component(name, "database", closes, {})
Worker(name, closes, uses) == Component(name, "worker", closes, uses)
Server(name, listener, uses) == Component(name, "server", {listener}, uses)

----------------------------------------------------------------------------
(* gateway-in *)

\* The first listener is closed by hand when the second cannot be opened.
GatewayInStart ==
    Checks({"server TLS", "public TLS", "tunnel server", "gRPC server", "health", "handler", "HTTP server"})
        \o OpensBare("tunnel listener")
        \o <<[Step EXCEPT !.opens = {"public listener"}, !.undoes = {"tunnel listener"},
                          !.defers = {"tunnel listener", "public listener"}]>>
        \o Checks({"gRPC component", "HTTP component", "runner"})
        \o Hands({"tunnel listener", "public listener"})

GatewayInComponents ==
    <<Resource("telemetry", {}),
      Component("tunnel-grpc", "streams", {"tunnel listener"}, {}),
      Component("tunnel-drain", "drain", {}, {}),
      Server("public-http", "public listener", {"tunnel-drain", "tunnel-grpc"})>>

GatewayIn == [name |-> "gateway-in", features |-> {}, starts |-> GatewayInStart, components |-> GatewayInComponents]

----------------------------------------------------------------------------
(* gateway-out *)

newAuthClient(features) ==
    When(features \cap {"auth", "profile", "files"} # {}, Checks({"TLS"}) \o Opens("auth client"))

\* The client is closed by hand when the first check of Files fails; its
\* deferred close is never handed over.
newFilesClient ==
    Checks({"key pair", "CA", "certificate", "own scope", "expected scope", "TLS"})
        \o OpensBare("files client")
        \o <<[Step EXCEPT !.undoes = {"files client"}, !.defers = {"files client"}]>>

GatewayOutStart(features) ==
    Checks({"TLS"}) \o Opens("internal client")
        \o newAuthClient(features)
        \o When("files" \in features, newFilesClient)
        \o Checks({"route registry", "tunnel TLS", "tunnel clients", "pool", "health", "handler", "HTTP server"})
        \o Opens("health listener")
        \o Checks({"HTTP component", "runner"})
        \o Hands({"auth client", "internal client", "health listener"})

\* The browser routes also call Auth, over a client that stops before the pool.
GatewayOutComponents(features) ==
    LET auth == features \cap {"auth", "profile", "files"} # {} IN
    <<Resource("telemetry", {}), Resource("internal-grpc", {"internal client"}),
      Component("reverse-tunnels", "pool", {},
                {"internal-grpc"} \cup (IF auth THEN {"auth-grpc"} ELSE {}))>>
        \o When(auth, <<Resource("auth-grpc", {"auth client"})>>)
        \o <<Server("health-http", "health listener", {})>>

GatewayOut(features) ==
    [name |-> "gateway-out", features |-> features, starts |-> GatewayOutStart(features),
     components |-> GatewayOutComponents(features)]

----------------------------------------------------------------------------
(* Auth, by its parts: "sessions", "files", "registration", "publish" and    *)
(* "security".                                                               *)

newRegistrationResources(parts) ==
    When("publish" \in parts,
         Checks({"TLS", "outbox store", "metrics"})
             \o OpensBare("publisher")
             \o <<[Step EXCEPT !.undoes = {"publisher"}, !.defers = {"publisher"}]>>)

startFilesListener ==
    Checks({"key pair", "CA", "TLS scope", "scoped handler", "gRPC server"})
        \o Opens("files listener")
        \o Checks({"component"})

newSessionResources(parts) ==
    When("sessions" \in parts,
         Checks({"signing keys", "internal TLS", "Redis configuration"})
             \o Opens("redis")
             \o Checks({"session store", "access store", "service", "handler", "gRPC server"})
             \o Opens("internal listener")
             \o Checks({"Redis component", "gRPC component"})
             \o When("files" \in parts, startFilesListener))

\* Disabled, it still refuses a database whose security schema is installed.
newSecurityResources(parts) ==
    IF "security" \in parts
    THEN Checks({"key", "store", "service", "SMTP", "renderer", "sender", "worker"})
    ELSE Checks({"legacy mode compatibility", "schema not installed"})

AuthStart(parts) ==
    Opens("telemetry") \o Checks({"hasher"})
        \o Opens("postgres") \o Checks({"repository", "audit", "registration", "login"})
        \o newRegistrationResources(parts)
        \o newSessionResources(parts)
        \o newSecurityResources(parts)
        \o Checks({"handler", "browser handler", "interceptor", "health", "HTTP server"})
        \o Opens("listener")
        \o Checks({"PostgreSQL component", "HTTP component", "runner"})
        \o Hands({"telemetry", "postgres", "redis", "internal listener", "files listener", "publisher", "listener"})

AuthComponents(parts) ==
    LET stores == {"postgres"} \cup (IF "sessions" \in parts THEN {"redis-auth"} ELSE {}) IN
    <<Resource("telemetry", {"telemetry"}), Database("postgres", {"postgres"})>>
        \o When("security" \in parts, <<Worker("auth-mail-worker", {}, {"postgres"})>>)
        \o When("sessions" \in parts, <<Resource("redis-auth", {"redis"}),
                                        Server("auth-internal", "internal listener", stores)>>)
        \o When("files" \in parts, <<Server("auth-files", "files listener", stores)>>)
        \o When("publish" \in parts, <<Worker("auth-registration-publisher", {"publisher"}, {"postgres"})>>)
        \o <<Server("http", "listener", stores)>>

Auth(parts) == [name |-> "auth", features |-> {}, starts |-> AuthStart(parts), components |-> AuthComponents(parts)]

\* The combinations a fully provided environment may switch on; the switch of
\* the listener for Files is not read without sessions.
AuthParts ==
    {parts \in SUBSET {"sessions", "files", "registration", "publish", "security"} :
        /\ loadAuthConfig([AuthDefaults EXCEPT !.on = parts])
        /\ "files" \in parts => "sessions" \in parts}

----------------------------------------------------------------------------
(* User, by its parts: "profile", "avatar" and "consume".                    *)

enableAvatar ==
    Checks({"own scope", "Files scope", "key pair", "CA", "TLS"})
        \o Opens("avatar connection")
        \o Checks({"client", "repository", "service", "handler", "worker"})

addRegistration == Checks({"TLS", "store", "service", "metrics"}) \o Opens("consumer")

newProfileResources(parts) ==
    When("profile" \in parts,
         Checks({"TLS"}) \o Opens("user postgres") \o Opens("auth client")
             \o Checks({"verifier", "repository", "use cases", "policy", "handler", "addresses", "settings"})
             \o When("avatar" \in parts, enableAvatar)
             \o Checks({"gRPC server"}) \o Opens("user listener")
             \o Checks({"PostgreSQL component", "gRPC component"})
             \o When("consume" \in parts, addRegistration))

UserStart(parts) ==
    Opens("telemetry")
        \o newProfileResources(parts)
        \o Checks({"health", "handler", "HTTP server"})
        \o Opens("listener")
        \o Checks({"HTTP component", "runner"})
        \o Hands({"telemetry", "user postgres", "auth client", "avatar connection", "user listener", "consumer",
                  "listener"})

\* addRegistration inserts its consumer before the last component, which is gRPC
\* unless avatars are enabled.
InsertBeforeLast(components, component) ==
    SubSeq(components, 1, Len(components) - 1) \o <<component, components[Len(components)]>>

\* The connection to Files belongs to the component that cleans avatars up.
ProfileComponents(parts) ==
    LET profile == <<Database("user-postgres", {"user postgres"}), Resource("user-auth-client", {"auth client"}),
                     Server("user-grpc", "user listener", {"user-postgres", "user-auth-client"}
                                \cup (IF "avatar" \in parts THEN {"user-avatar-cleanup"} ELSE {}))>>
                   \o When("avatar" \in parts, <<Worker("user-avatar-cleanup", {"avatar connection"}, {"user-postgres"})>>)
    IN  IF "consume" \in parts
        THEN InsertBeforeLast(profile, Worker("user-registration", {"consumer"}, {"user-postgres"}))
        ELSE profile

UserComponents(parts) ==
    <<Resource("telemetry", {"telemetry"})>>
        \o When("profile" \in parts, ProfileComponents(parts))
        \o <<Server("http", "listener", {})>>

User(parts) == [name |-> "user", features |-> {}, starts |-> UserStart(parts), components |-> UserComponents(parts)]

UserParts ==
    {parts \in SUBSET {"profile", "avatar", "consume"} : loadUserConfig([UserDefaults EXCEPT !.on = parts])}

----------------------------------------------------------------------------
(* Files and Staff have no runner: they serve until told to stop, or until a *)
(* server fails, and rely on their deferred closes.                          *)

\* The pool is closed by hand when no synchronous standby is named.
FilesDatabase ==
    Checks({"RW", "RO", "distinct users", "TLS", "remote_apply"})
        \o OpensBare("files postgres")
        \o <<[Step EXCEPT !.undoes = {"files postgres"}, !.defers = {"files postgres"}]>>

FilesWorker ==
    [name |-> "files-worker", features |-> {}, components |-> << >>,
     starts |-> Checks({"configuration"}) \o FilesDatabase
                    \o Checks({"repository", "storage", "directory", "scanner", "sandbox", "worker"})]

\* serveFiles, with or without the listener for User's avatars.
FilesControl(avatar) ==
    [name |-> "files-control", features |-> {}, components |-> << >>,
     starts |-> Checks({"configuration", "enabled"}) \o FilesDatabase
                    \o Checks({"repository", "storage", "key pair", "scope", "TLS", "Auth scope", "Auth TLS"})
                    \o Opens("auth connection")
                    \o Checks({"Auth connects", "verifier", "Auth ready", "service", "handler"})
                    \o Opens("files listener")
                    \o When(avatar, Checks({"scope", "key pair", "TLS", "handler"}) \o Opens("avatar listener"))]

Sandbox ==
    [name |-> "files-sandbox", features |-> {}, components |-> << >>,
     starts |-> Checks({"handler", "stale socket"}) \o Opens("socket") \o Checks({"permissions"})]

Staff ==
    [name |-> "staff", features |-> {}, components |-> << >>,
     starts |-> Checks({"configuration", "CA", "client CA", "identity provider"})
                    \o Opens("staff postgres") \o Checks({"ping"})]

----------------------------------------------------------------------------

\* The processes, with a gateway-out for each of the given deployments.
Services(deployments) ==
    {GatewayIn, FilesWorker, FilesControl(TRUE), FilesControl(FALSE), Sandbox, Staff}
        \cup {GatewayOut(features) : features \in deployments}
        \cup {Auth(parts) : parts \in AuthParts}
        \cup {User(parts) : parts \in UserParts}

\* NewRunner
ValidComponents(components) ==
    Len(components) > 0
        /\ \A i, j \in DOMAIN components : components[i].name = components[j].name => i = j

=============================================================================
