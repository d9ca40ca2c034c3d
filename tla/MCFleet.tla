------------------------------ MODULE MCFleet ------------------------------
(* A rollout of the browser pages: behind one address, two gateway-in       *)
(* processes that serve them, one that still serves other routes only, and  *)
(* one that does not admit this gateway-out yet.                            *)
EXTENDS Fleet, TLC

CONSTANTS new1, new2, old, closed

MCInstances == {new1, new2, old, closed}
MCIdentity == "gateway-out/dc-a"
MCPeersOf ==
    [i \in MCInstances |-> IF i = closed THEN "gateway-out/dc-b" :> "dc-b"
                           ELSE MCIdentity :> "dc-a" @@ "gateway-out/dc-b" :> "dc-b"]
MCDeploymentsOut == {{}, {"profile", "auth"}, {"files"}}
MCFeaturesIn == [i \in MCInstances |-> IF i = old THEN {"files"} ELSE {"profile", "auth"}]
MCTunnelsOf == <<2, 1>>

\* Every deployment's configurations pass the checks made at start.
ASSUME DeploymentsStart ==
    \A features \in Deployable :
        LET in == TunnelConfigIn(features, CallTimeout)
            out == TunnelConfigOut(features, CallTimeout)
        IN  NewSettings(in) /\ ValidateSettings(out) /\ NewRegistry(out.routes)

\* Two deployments can talk exactly when they serve a common route, and every
\* limit they agree on lets a whole chunk of data through the credit window.
\* (The settings and the avatar add routes as the addresses do.)
ASSUME DeploymentsAgree ==
    \A f, g \in {h \in Deployable : h \cap {"settings", "avatar"} = {}} :
        LET in == TunnelConfigIn(f, CallTimeout)
            out == TunnelConfigOut(g, CallTimeout)
            agreed == Negotiate(in, Offer(out).body)
        IN  /\ Agree(in, out) <=> ServedRoutes(f) \cap ServedRoutes(g) # {}
            /\ f = g => agreed.routes = ServedRoutes(f)
            /\ agreed.limits.data <= agreed.limits.credit

\* The delay before an attempt is positive and never above its ceiling, which
\* the deployed policy reaches at the seventh failure.
ASSUME BackoffBounded ==
    LET policy == TunnelConfigOut({}, CallTimeout).reconnect
    IN  \A n \in 1 .. 12, random \in {0, 1, 40, 1000, 2000, 5000} :
            Backoff(policy, n, random) \in 1 .. policy.maxBackoff

\* NewRunner accepts the components of every deployment.
ASSUME ComponentsValid == \A s \in Services(DeploymentsOut) : s.components # << >> => ValidComponents(s.components)

=============================================================================
