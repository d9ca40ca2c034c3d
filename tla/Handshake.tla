----------------------------- MODULE Handshake -----------------------------
(***************************************************************************)
(* How two gateways agree on a tunnel: what each is configured with, the   *)
(* checks of that configuration at start, gateway-out's offer, gateway-in's *)
(* negotiation and gateway-out's check of the answer.                      *)
(*                                                                         *)
(* Settings are records; routes is a function from the served routes to    *)
(* their policies. Times are in milliseconds.                              *)
(***************************************************************************)
EXTENDS Frames, FiniteSets

K == 1024

Hello(tunnel, body) ==
    [type |-> "Hello", unknown |-> FALSE, size |-> 512, fields |-> <<"header", "Hello">>,
     header |-> [version |-> 0, tunnel |-> tunnel, request |-> Nothing, sequence |-> 0,
                 class |-> Unspecified],
     body |-> body]

\* The classes of a set of configured routes.
Classes(policies, routes) == {policies[r].class : r \in routes}

----------------------------------------------------------------------------
(* gateway-in: newSettings. *)

ValidQueueLimits(queues) == \A q \in DOMAIN queues : queues[q] \in 2 .. V1.inFlight

\* Session revocation is known to the protocol but cannot be configured.
ValidCapabilities(capabilities) == capabilities \subseteq {"drain", "realtime"}

ValidRoutePolicies(s) ==
    /\ DOMAIN s.routes # {} /\ DOMAIN s.routes \subseteq RouteIds
    /\ \A r \in DOMAIN s.routes :
        LET policy == s.routes[r]
        IN  /\ policy.class = ClassOf(r)
            /\ policy.request \in 1 .. s.limits.message
            /\ policy.response \in 1 .. s.limits.message
            /\ policy.deadline > 0
            /\ policy.inFlight \in 1 .. s.limits.inFlight
            /\ policy.class = "realtime" => "realtime" \in s.capabilities

\* negotiation.hello
HelloOf(n) ==
    Hello(Opaque, [instance |-> Opaque, version |-> ProtocolVersion,
                   capabilities |-> n.capabilities, classes |-> n.classes,
                   routes |-> n.routes, limits |-> n.limits])

ValidLocalHello(s) ==
    ValidateGatewayInFrame(
        HelloOf([limits |-> s.limits, routes |-> DOMAIN s.routes, capabilities |-> s.capabilities,
                 classes |-> Classes(s.routes, DOMAIN s.routes)]))

MaxStaleAfter == 300000
MaxFailbackWarmup == 600000

ValidBounds(s) ==
    /\ s.maxTunnels \in 1 .. V1.inFlight
    /\ s.maxTunnelsPerInstance \in 1 .. s.maxTunnels
    /\ s.maxInFlightPerInstance \in 1 .. V1.inFlight
    /\ s.initialResponseCredit \in 1 .. s.limits.credit
    /\ s.handshakeTimeout \in 1 .. 30000
    /\ s.pongTimeout \in 1 .. s.pingInterval - 1
    /\ s.pingInterval + s.pongTimeout <= MaxStaleAfter
    /\ s.failbackWarmup \in 1 .. MaxFailbackWarmup

NewSettings(s) ==
    /\ ValidBounds(s)
    /\ ValidQueueLimits(s.queues)
    /\ ValidCapabilities(s.capabilities)
    /\ ValidRoutePolicies(s)
    /\ ValidLocalHello(s)

\* newPeerAuthorizer: every admitted identity belongs to a data center.
MaxPeerIdentities == 256
MaxDataCenters == 16

NewPeerAuthorizer(peers, allowed) ==
    /\ allowed # {} /\ Cardinality(allowed) <= MaxPeerIdentities
    /\ DOMAIN peers = allowed
    /\ Cardinality({peers[p] : p \in allowed}) <= MaxDataCenters

\* peerAuthorizer.authorize, of the certificate the transport verified.
Authorize(peers, certificate) ==
    /\ certificate.verified /\ certificate.clientAuth /\ certificate.current
    /\ certificate.uri \in DOMAIN peers

----------------------------------------------------------------------------
(* gateway-out: normalizeConfig and NewRegistry. *)

ValidReconnectPolicy(policy) ==
    /\ policy.maxAttempts \in 1 .. 100
    /\ policy.initialBackoff > 0 /\ policy.maxBackoff >= policy.initialBackoff
    /\ policy.multiplier >= 1
    /\ policy.jitterPercent \in 0 .. 100
    /\ policy.stableResetAfter > 0

ValidClassLimits(limits) ==
    /\ DOMAIN limits = TrafficClasses
    /\ \A class \in TrafficClasses :
        /\ limits[class].inFlight \in 1 .. V1.inFlight
        /\ limits[class].queue \in 1 .. V1.inFlight
        /\ limits[class].window \in 1 .. V1.credit

ValidateRouteSpec(r, spec) ==
    /\ r \in RouteIds /\ spec.class = ClassOf(r) /\ spec.class # "realtime"
    /\ spec.request \in 1 .. V1.message /\ spec.response \in 1 .. V1.message
    /\ spec.deadline > 0
    /\ spec.requireKey => spec.mutating

NewRegistry(routes) ==
    DOMAIN routes # {} /\ \A r \in DOMAIN routes : ValidateRouteSpec(r, routes[r])

\* session.handshake: what gateway-out offers.
OfferedCapabilities(o) ==
    {"drain"} \cup (IF "realtime" \in Classes(o.routes, DOMAIN o.routes) THEN {"realtime"} ELSE {})

Offer(o) ==
    Hello(Nothing, [instance |-> Opaque, versions |-> <<ProtocolVersion>>,
                    capabilities |-> OfferedCapabilities(o),
                    classes |-> Classes(o.routes, DOMAIN o.routes),
                    routes |-> DOMAIN o.routes, limits |-> o.limits])

\* validateOfferedLimits
ValidOfferedLimits(limits) ==
    ValidateGatewayOutFrame(
        Hello(Nothing, [instance |-> Opaque, versions |-> <<ProtocolVersion>>,
                        capabilities |-> {}, classes |-> {"control_auth"},
                        routes |-> {"auth"}, limits |-> limits]))

ValidateSettings(o) ==
    /\ o.connectTimeout > 0 /\ o.handshakeTimeout > 0 /\ o.keepaliveTime > 0
    /\ o.pingTimeout \in 1 .. o.pingInterval - 1
    /\ o.drainTimeout > 0
    /\ ValidReconnectPolicy(o.reconnect)
    /\ ValidOfferedLimits(o.limits)
    /\ ValidClassLimits(o.classLimits)

----------------------------------------------------------------------------
(* The exchange of Hellos. *)

MinimumLimits(local, peer) == [field \in LimitFields |-> Least(local[field], peer[field])]

Negotiate(s, hello) ==
    LET capabilities == s.capabilities \cap hello.capabilities
        routes == {r \in DOMAIN s.routes \cap hello.routes :
                       /\ s.routes[r].class \in hello.classes
                       /\ s.routes[r].class = "realtime" => "realtime" \in capabilities}
    IN  [limits |-> MinimumLimits(s.limits, hello.limits), capabilities |-> capabilities,
         routes |-> routes, classes |-> Classes(s.routes, routes)]

\* Connect, up to the registration: the first frame is a Hello that leaves a route.
Connects(s, frame) ==
    /\ frame.size <= s.limits.frame
    /\ ValidateGatewayOutFrame(frame)
    /\ frame.type = "Hello"
    /\ Negotiate(s, frame.body).routes # {}

LimitsDoNotExceed(selected, offered) ==
    \A field \in LimitFields : selected[field] <= offered[field]

\* acceptHello: gateway-out takes nothing it did not offer.
AcceptHello(o, frame) ==
    /\ ValidateGatewayInFrame(frame) /\ frame.type = "Hello"
    /\ LET hello == frame.body
       IN  /\ "drain" \in hello.capabilities
           /\ hello.capabilities \subseteq OfferedCapabilities(o)
           /\ hello.classes \subseteq Classes(o.routes, DOMAIN o.routes)
           /\ hello.routes \subseteq DOMAIN o.routes
           /\ \A r \in hello.routes : o.routes[r].class \in hello.classes
           /\ LimitsDoNotExceed(hello.limits, o.limits)

\* The whole exchange between a gateway-in and a gateway-out.
Agree(s, o) ==
    /\ Connects(s, Offer(o))
    /\ AcceptHello(o, HelloOf(Negotiate(s, Offer(o).body)))

----------------------------------------------------------------------------
(* The two services' configurations, by the features switched on. *)

Features == {"profile", "addresses", "settings", "avatar", "files", "auth"}

\* loadConfig: "base" are the values every instance needs. The pages of the
\* profile need the profile, and a feature the settings (certificates, targets)
\* that only it uses; the routes of the end-to-end tests exclude the profile.
LoadConfigIn(features, given) ==
    /\ "base" \in given
    /\ features \cap {"addresses", "settings", "avatar"} # {} => "profile" \in features
    /\ "profile" \in features => "routing_snapshot" \notin given
    /\ features \cap {"auth", "profile"} # {} => "public_tls" \in given

LoadConfigOut(features, given) ==
    /\ "base" \in given
    /\ features \cap {"addresses", "settings", "avatar"} # {} => "profile" \in features
    /\ "files" \in features => "files_peer" \in given
    /\ features \cap {"auth", "profile", "files"} # {} => "auth_peer" \in given

\* The features a fully provided environment may switch on.
Deployable ==
    {features \in SUBSET Features :
        /\ LoadConfigIn(features, {"base", "public_tls"})
        /\ LoadConfigOut(features, {"base", "files_peer", "auth_peer"})}

\* profileRouteIDs: the browser routes, or those of the end-to-end tests.
ProfileRoute(features) == IF "profile" \in features THEN "profile" ELSE "e2e"

\* userMessageLimit
MessageLimit(features) == IF "addresses" \in features THEN 128 * K ELSE 64 * K

ServedRoutes(features) == features \cup {ProfileRoute(features)}

ResponseLimit(route) ==
    CASE route = "files" -> 64 * K [] route = "addresses" -> 128 * K [] OTHER -> 16 * K

DeployedLimits(features) ==
    [frame |-> 64 * K, data |-> 16 * K, message |-> MessageLimit(features), inFlight |-> 64,
     entries |-> 8, value |-> 16 * K, credit |-> 32 * K]

\* gateway-in: tunnelConfig, addAuthPolicies
TunnelConfigIn(features, requestTimeout) ==
    [limits |-> DeployedLimits(features),
     routes |-> [r \in ServedRoutes(features) |->
                    [class |-> IF r = "auth" THEN "control_auth" ELSE "regular",
                     request |-> 16 * K, response |-> ResponseLimit(r),
                     deadline |-> requestTimeout,
                     inFlight |-> CASE r = "auth" -> 4 [] r = "files" -> 16 [] OTHER -> 32]],
     capabilities |-> {"drain"},
     queues |-> [tunnelControl |-> 8, controlAuth |-> 8, regular |-> 64, realtime |-> 8],
     maxTunnels |-> 32, maxTunnelsPerInstance |-> 4, maxInFlightPerInstance |-> 64,
     initialResponseCredit |-> 32 * K, handshakeTimeout |-> 5000,
     pingInterval |-> 30000, pongTimeout |-> 5000, failbackWarmup |-> 30000]

\* gateway-out: readRoute, mutateRoute and the routes of each feature
RouteSpec(route, callTimeout) ==
    [class |-> IF route = "auth" THEN "control_auth" ELSE "regular",
     request |-> 16 * K, response |-> ResponseLimit(route), deadline |-> callTimeout,
     mutating |-> TRUE, requireKey |-> route = "e2e"]

\* gateway-out: tunnelConfig
TunnelConfigOut(features, callTimeout) ==
    [limits |-> DeployedLimits(features),
     routes |-> [r \in ServedRoutes(features) |-> RouteSpec(r, callTimeout)],
     classLimits |-> [class \in TrafficClasses |->
                         IF class = "regular"
                         THEN [inFlight |-> 32, queue |-> 64, window |-> 32 * K]
                         ELSE [inFlight |-> 4, queue |-> 8, window |-> 8 * K]],
     reconnect |-> [maxAttempts |-> 100, initialBackoff |-> 100, maxBackoff |-> 5000,
                    multiplier |-> 2, jitterPercent |-> 20, stableResetAfter |-> 60000],
     connectTimeout |-> 10000, handshakeTimeout |-> 5000, keepaliveTime |-> 30000,
     pingInterval |-> 30000, pingTimeout |-> 5000, drainTimeout |-> 20000]

=============================================================================
