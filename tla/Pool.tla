-------------------------------- MODULE Pool --------------------------------
(***************************************************************************)
(* The two tunnel clients of a gateway-out process and the pool that keeps *)
(* them on distinct gateway-in processes (tunnel.Client, tunnelPool).      *)
(*                                                                         *)
(* A client is connecting, ready on one gateway-in, draining its session,  *)
(* backing off, or done. A request to reconnect is a buffered signal of    *)
(* capacity one, so one sent while the client is away waits for its next   *)
(* session. The configurations of the two gateways, by their features,     *)
(* decide whether a handshake can succeed (module Handshake).              *)
(***************************************************************************)
EXTENDS Handshake

CONSTANTS
    Instances,      \* the gateway-in processes behind the target address
    FeaturesIn,     \* the features each of them was deployed with
    DeploymentsOut, \* the features gateway-out may be deployed with
    PeersOf,        \* the identities each of them admits, by data centre
    Identity,       \* the identity in this gateway-out's certificate
    MaxAttempts     \* reconnect.MaxAttempts

ASSUME PoolAssumption ==
    /\ FeaturesIn \in [Instances -> Deployable] /\ DeploymentsOut \subseteq Deployable
    /\ \A i \in Instances : NewPeerAuthorizer(PeersOf[i], DOMAIN PeersOf[i])
    /\ MaxAttempts \in Nat \ {0}

VARIABLES
    tunnel,         \* what each client is doing
    server,         \* serverInstanceID of its session
    failures,       \* failures, of Run
    signal,         \* the clients with a buffered RequestReconnect
    serving,        \* the clients whose session executes a request
    initialReady,   \* tunnelPool.initialReady
    nextClient      \* tunnelPool.nextClient, modulo the size of the pool

poolVars == <<tunnel, server, failures, signal, serving, initialReady, nextClient>>

tunnelPoolSize == 2
Slots == 1 .. tunnelPoolSize

\* The call and request timeouts of the deployments (milliseconds).
CallTimeout == 5000

Certificate == [verified |-> TRUE, clientAuth |-> TRUE, current |-> TRUE, uri |-> Identity]

\* The gateway-in processes that admit a gateway-out with these features and agree
\* with it.
Compatible(features) ==
    {i \in Instances : /\ Authorize(PeersOf[i], Certificate)
                       /\ Agree(TunnelConfigIn(FeaturesIn[i], CallTimeout),
                                TunnelConfigOut(features, CallTimeout))}

PoolInit ==
    /\ tunnel = [c \in Slots |-> "connecting"]
    /\ server = [c \in Slots |-> Nothing]
    /\ failures = [c \in Slots |-> 0]
    /\ signal = {} /\ serving = {}
    /\ initialReady = FALSE /\ nextClient = 1

IsReady(c) == tunnel[c] = "ready"

\* tunnelPool.IsReady
PoolReady == initialReady /\ \E c \in Slots : IsReady(c)

MarkReady(c, i) == tunnel' = [tunnel EXCEPT ![c] = "ready"] /\ server' = [server EXCEPT ![c] = i]

MarkNotReady(c, next) ==
    tunnel' = [tunnel EXCEPT ![c] = next] /\ server' = [server EXCEPT ![c] = Nothing]

----------------------------------------------------------------------------
(* Client.Run. *)

\* backoff, in milliseconds: the delay grows by the multiplier up to its
\* ceiling, and the jitter moves it by at most its share of the delay.
Delay(policy) ==
    LET delay[n \in 0 .. policy.maxAttempts] ==
            IF n <= 1 THEN policy.initialBackoff
            ELSE LET next == delay[n - 1] * policy.multiplier
                 IN  IF next > policy.maxBackoff THEN policy.maxBackoff ELSE next
    IN  delay

Backoff(policy, n, random) ==
    LET bound == (Delay(policy)[n] * policy.jitterPercent) \div 100
    IN  Least(Delay(policy)[n] - bound + Least(random, 2 * bound), policy.maxBackoff)

\* A session that could not be opened, or that ended, is one more failure.
CountFailureNever(c, before) ==
    /\ MarkNotReady(c, "backoff")
    /\ failures' = [failures EXCEPT ![c] = Least(before + 1, MaxAttempts - 1)]

CountFailure(c, before) ==
    /\ failures' = [failures EXCEPT ![c] = before + 1]
    /\ MarkNotReady(c, IF before + 1 >= MaxAttempts THEN "exhausted" ELSE "backoff")

\* openSession, newSession
OpenSession(c, peers) ==
    /\ tunnel[c] = "connecting"
    /\ \E i \in peers : MarkReady(c, i)
    /\ UNCHANGED <<failures, signal, serving, initialReady, nextClient>>

OpenSessionFails(c, stopped) ==
    /\ tunnel[c] = "connecting"
    /\ IF stopped
       THEN MarkNotReady(c, "done") /\ UNCHANGED failures
       ELSE CountFailure(c, failures[c])
    /\ UNCHANGED <<signal, serving, initialReady, nextClient>>

WaitBackoff(c, stopped) ==
    /\ tunnel[c] = "backoff"
    /\ MarkNotReady(c, IF stopped THEN "done" ELSE "connecting")
    /\ UNCHANGED <<failures, signal, serving, initialReady, nextClient>>

\* The timer and the stop race: a backoff may end after the stop began.
BackoffElapses(c) == WaitBackoff(c, FALSE)

\* The session fails under the client; stable says that it had lasted.
SessionEnds(c) ==
    /\ IsReady(c)
    /\ \E stable \in BOOLEAN : CountFailure(c, IF stable THEN 0 ELSE failures[c])
    /\ serving' = serving \ {c}
    /\ UNCHANGED <<signal, initialReady, nextClient>>

\* The context or the shutdown ends the session, or a signal does.
StopSession(c) ==
    /\ IsReady(c)
    /\ MarkNotReady(c, "stopping")
    /\ UNCHANGED <<failures, signal, serving, initialReady, nextClient>>

TakeSignal(c) ==
    /\ IsReady(c) /\ c \in signal
    /\ signal' = signal \ {c}
    /\ MarkNotReady(c, "draining")
    /\ UNCHANGED <<failures, serving, initialReady, nextClient>>

\* drain returns when no request is left, or at its deadline.
Drained(c) ==
    /\ \/ tunnel[c] = "stopping" /\ MarkNotReady(c, "done") /\ UNCHANGED failures
       \/ /\ tunnel[c] = "draining"
          /\ MarkNotReady(c, "connecting")
          /\ failures' = [failures EXCEPT ![c] = 0]
    /\ serving' = serving \ {c}
    /\ UNCHANGED <<signal, initialReady, nextClient>>

\* Requests of the tunnel, executed by the handlers of the session.
StartRequest(c) ==
    /\ IsReady(c) /\ c \notin serving
    /\ serving' = serving \cup {c}
    /\ UNCHANGED <<tunnel, server, failures, signal, initialReady, nextClient>>

FinishRequest(c) ==
    /\ c \in serving
    /\ serving' = serving \ {c}
    /\ UNCHANGED <<tunnel, server, failures, signal, initialReady, nextClient>>

\* The steps Run takes by itself: every wait in it has a timeout, that for a
\* connection and for its handshake included.
ClientProceeds(c, stopped) ==
    \/ OpenSessionFails(c, stopped)
    \/ BackoffElapses(c)
    \/ stopped /\ (WaitBackoff(c, TRUE) \/ StopSession(c))
    \/ TakeSignal(c) \/ Drained(c)

ClientNext(c, peers, stopped) ==
    \/ ClientProceeds(c, stopped)
    \/ OpenSession(c, peers) \/ SessionEnds(c)
    \/ StartRequest(c) \/ FinishRequest(c)

----------------------------------------------------------------------------
(* tunnelPool. *)

\* RequestReconnect: the channel holds one signal, a second one is dropped.
RequestReconnect(clients) == signal' = signal \cup clients

\* The later of two clients on one gateway-in is told to look for another.
Reconcile ==
    /\ \A c \in Slots : IsReady(c)
    /\ LET duplicated == {c \in Slots : \E d \in 1 .. c - 1 : server[c] = server[d]}
       IN  /\ RequestReconnect(duplicated)
           /\ initialReady' = (initialReady \/ duplicated = {})
    /\ UNCHANGED <<tunnel, server, failures, serving, nextClient>>

Rediscover ==
    /\ initialReady
    /\ RequestReconnect({nextClient})
    /\ nextClient' = (nextClient % tunnelPoolSize) + 1
    /\ UNCHANGED <<tunnel, server, failures, serving, initialReady>>

\* The Run of the component returns the result of the first client to end.
ClientResult == \E c \in Slots : tunnel[c] \in {"exhausted", "done"}
AllDone == \A c \in Slots : tunnel[c] \in {"exhausted", "done"}

\* Under the gateway-in processes that are compatible; returned says that the loop of
\* the component has ended.
PoolNext(peers, stopped, returned) ==
    \/ \E c \in Slots : ClientNext(c, peers, stopped)
    \/ ~returned /\ (Reconcile \/ Rediscover)

=============================================================================
