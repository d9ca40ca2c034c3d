--------------------------- MODULE Configuration ---------------------------
(***************************************************************************)
(* What the processes behind the gateways check of their settings before   *)
(* they construct anything. (The gateways' own checks are in Handshake.)   *)
(*                                                                         *)
(* The settings of Auth and User are a record: "on" are the switches that  *)
(* are set, "given" the values (or groups of values) that are present and  *)
(* have the form they need, "environment" is ENVIRONMENT, "time" are the   *)
(* durations in milliseconds and "life" those of a session, which are in   *)
(* tenths of a second.                                                     *)
(***************************************************************************)
EXTENDS Integers, FiniteSets

Minute == 60000
Day == 864000

\* env.PositiveDuration
Positive(times, names) == \A name \in names : times[name] > 0

----------------------------------------------------------------------------
(* Auth *)

loadFilesSessionConfig(c) == "files" \in c.on => {"files TLS", "files scopes"} \subseteq c.given

\* The lifetimes are whole seconds and nest; Redis is reached over TLS unless
\* a reason not to is given, outside production.
loadSessionConfig(c) ==
    "sessions" \in c.on =>
        /\ {"issuer", "signing keys", "trust domain", "internal TLS", "origins", "audiences", "redis"}
               \subseteq c.given
        /\ Positive(c.life, DOMAIN c.life)
        /\ \A name \in DOMAIN c.life : c.life[name] % 10 = 0
        /\ c.life.assertion <= 3000
        /\ c.life.assertion <= c.life.access /\ c.life.access <= c.life.idle
        /\ c.life.idle <= c.life.absolute /\ c.life.absolute <= 90 * Day
        /\ c.time.redisConnect \in 1 .. 10000
        /\ IF "redis plaintext reason" \in c.given
           THEN c.environment # "production" /\ {"redis server name", "redis CA"} \cap c.given = {}
           ELSE "redis server name" \in c.given
        /\ loadFilesSessionConfig(c)

\* A claim is leased for longer than a publication and two queries take.
loadRegistrationConfig(c) ==
    /\ "publish" \in c.on => "registration" \in c.on
    /\ "publish" \in c.on =>
        /\ {"NATS", "trust domain of events", "NATS TLS"} \subseteq c.given
        /\ c.batchSize \in 1 .. 256
        /\ c.time.connect \in 1 .. c.time.publish /\ c.time.publish <= 30000
        /\ c.time.poll \in 10 .. Minute
        /\ c.time.lease <= 5 * Minute
        /\ c.time.retryInitial \in 1 .. c.time.retryMax /\ c.time.retryMax <= 1440 * Minute
        /\ c.time.query > 0 /\ c.time.lease > c.time.publish + 1000
        /\ c.time.query < (c.time.lease - c.time.publish - 1000) \div 2

\* platform/mail: a relay without TLS is for tests and takes no credentials.
NewSMTP(c) ==
    /\ "SMTP address" \in c.given
    /\ "SMTP username" \in c.given <=> "SMTP password" \in c.given
    /\ "SMTP plaintext reason" \in c.given =>
           c.environment \in {"development", "test"} /\ "SMTP username" \notin c.given

loadSecurityConfig(c) ==
    "security" \in c.on =>
        /\ {"sessions", "registration"} \subseteq c.on
        /\ {"email key", "allowed public origin"} \subseteq c.given
        /\ NewSMTP(c)

loadAuthConfig(c) ==
    /\ {"service", "postgres RW", "postgres RO", "pool sizes", "sample ratio"} \subseteq c.given
    /\ Positive(c.time, {"query", "shutdown"}) /\ c.bcryptCost \in 10 .. 14
    /\ loadSessionConfig(c) /\ loadRegistrationConfig(c) /\ loadSecurityConfig(c)

AuthDefaults ==
    [on |-> {}, environment |-> "production", batchSize |-> 32, bcryptCost |-> 12,
     given |-> {"service", "postgres RW", "postgres RO", "pool sizes", "sample ratio",
                "issuer", "signing keys", "trust domain", "internal TLS", "origins", "audiences",
                "redis", "redis server name", "files TLS", "files scopes",
                "NATS", "trust domain of events", "NATS TLS",
                "email key", "allowed public origin", "SMTP address"},
     life |-> [access |-> 6000, idle |-> 7 * Day, absolute |-> 30 * Day, assertion |-> 300],
     time |-> [query |-> 3000, shutdown |-> 15000, redisConnect |-> 1000, connect |-> 2000,
               publish |-> 5000, poll |-> 1000, lease |-> 30000, retryInitial |-> 1000,
               retryMax |-> Minute]]

----------------------------------------------------------------------------
(* User *)

loadAvatarConfig(c) ==
    "avatar" \in c.on => "profile" \in c.on /\ {"files target", "files TLS", "files URIs"} \subseteq c.given

loadProfileConfig(c) ==
    /\ c.on \cap {"addresses", "settings"} # {} => "profile" \in c.on
    /\ loadAvatarConfig(c)
    /\ "profile" \in c.on =>
        /\ {"trust domain", "TLS", "auth target", "auth CA", "issuer", "gRPC address", "postgres RW",
            "postgres RO", "distinct roles of one database"} \subseteq c.given
        /\ Positive(c.time, {"auth", "request", "query"})
        /\ c.life.assertionMax \in 10 .. 3000 /\ c.life.assertionMax % 10 = 0
        /\ c.maxConns \in 1 .. 100

\* One operation of the consumer covers its connection and its query.
loadConsumerConfig(c) ==
    "consume" \in c.on =>
        /\ "profile" \in c.on
        /\ {"NATS", "NATS TLS"} \subseteq c.given
        /\ c.time.operation <= 30000 /\ c.time.fetch \in 10 .. 5000 /\ c.time.retry \in 1000 .. Minute
        /\ c.time.connect \in 1 .. c.time.operation
        /\ c.time.query \in 1 .. c.time.operation

loadUserConfig(c) ==
    /\ {"service", "sample ratio"} \subseteq c.given
    /\ Positive(c.time, {"shutdown"})
    /\ loadProfileConfig(c) /\ loadConsumerConfig(c)

UserDefaults ==
    [on |-> {}, maxConns |-> 10,
     given |-> {"service", "sample ratio", "trust domain", "TLS", "auth target", "auth CA", "issuer",
                "gRPC address", "postgres RW", "postgres RO", "distinct roles of one database",
                "files target", "files TLS", "files URIs", "NATS", "NATS TLS"},
     life |-> [assertionMax |-> 300],
     time |-> [auth |-> 2000, request |-> 10000, query |-> 3000, shutdown |-> 15000, connect |-> 2000,
               operation |-> 5000, fetch |-> 1000, retry |-> 1000]]

----------------------------------------------------------------------------
(* Files, by its role, and Staff *)

Buckets == {"quarantine", "internal", "delivery 1", "delivery 2"}

readFilesConfig(c) ==
    /\ c.file = "private and regular" /\ c.size <= 65536
    /\ c.role \in {"worker", "control"}

\* NewBucket: a bucket is used with its control credential; with a capability
\* credential, which is another one, it also signs URLs.
NewBucket(c, bucket) == bucket \in DOMAIN c.control /\ (bucket \in DOMAIN c.capability =>
                                                            c.capability[bucket] # c.control[bucket])

\* The control process signs URLs and has no way into the internal bucket; the
\* worker has the internal bucket and signs nothing.
storage(c) ==
    /\ c.deliveries = 2 /\ "distinct delivery hosts" \in c.given
    /\ \A bucket \in Buckets \ {"internal"} : NewBucket(c, bucket)
    /\ CASE c.role = "control" ->
              Buckets \ {"internal"} \subseteq DOMAIN c.capability /\ "internal" \notin DOMAIN c.control
         [] c.role = "worker" -> NewBucket(c, "internal") /\ DOMAIN c.capability = {}

\* In seconds.
StaffValidate(c) ==
    /\ {"client CA", "networks", "origin", "issuer", "listen", "client", "site", "verified database"}
           \subseteq c.given
    /\ c.origin # c.issuer
    /\ c.idle \in 1 .. 1800 /\ c.lifetime \in c.idle .. 28800

----------------------------------------------------------------------------

\* With every value given, the defaults of Auth and User start every
\* combination of features that is not refused for a missing feature.
ASSUME DefaultsAccepted ==
    /\ loadAuthConfig([AuthDefaults EXCEPT !.on = {"sessions", "files", "registration", "publish", "security"}])
    /\ loadUserConfig([UserDefaults EXCEPT !.on = {"profile", "avatar", "addresses", "settings", "consume"}])

=============================================================================
