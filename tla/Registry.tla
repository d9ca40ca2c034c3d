------------------------------ MODULE Registry ------------------------------
(***************************************************************************)
(* gateway-in's tunnel registry: admission of tunnels that gateway-out     *)
(* instances dial, the in-flight slots of an instance, the choice of a     *)
(* tunnel for a call with fallback before Open, and the registry's Drain.  *)
(*                                                                         *)
(* Each step is one critical section of the code: the registry lock r.mu   *)
(* and a session's lock s.mu are never held together for writing, so a     *)
(* slot is reserved, a request registered, Open queued, the request        *)
(* removed and the slot given back in separate steps, and a tunnel may     *)
(* fail, drain or leave the registry between any two of them.              *)
(*                                                                         *)
(* A tunnel identifies one Connect stream (its random id is never used     *)
(* twice); a call is one Registry.Invoke.                                  *)
(***************************************************************************)
EXTENDS Integers, FiniteSets

CONSTANTS
    Tunnels, Calls, Instances, Routes,
    InstanceOf,              \* the gateway-out instance that dials a tunnel
    RoutesOf,                \* the routes a tunnel negotiated
    RouteOf,                 \* the route of a call
    MaxTunnels, MaxTunnelsPerInstance, MaxInFlightPerInstance,
    MaxInFlightRequests,     \* negotiated limit of requests on a tunnel
    RouteMaxInFlight         \* the route policy's limit of requests on a tunnel

ASSUME SetsAssumption ==
    /\ IsFiniteSet(Tunnels) /\ IsFiniteSet(Calls)
    /\ InstanceOf \in [Tunnels -> Instances]
    /\ RoutesOf \in [Tunnels -> SUBSET Routes]
    /\ RouteOf \in [Calls -> Routes]

ASSUME LimitsAssumption ==
    /\ MaxTunnels \in Nat \ {0}
    /\ MaxTunnelsPerInstance \in 1 .. MaxTunnels
    /\ MaxInFlightPerInstance \in Nat \ {0}
    /\ MaxInFlightRequests \in Nat \ {0}
    /\ RouteMaxInFlight \in [Routes -> 1 .. MaxInFlightRequests]

VARIABLES
    \* Registry; an absent entry of a counter map is 0
    handshakes, sessions, instanceTunnels, instanceActive,
    \* the call that holds selectionMu, or NoCall
    selectionMu,
    \* Registry.Drain: isDraining is drainPhase # "idle"; the sessions still to
    \* be told, the snapshot it waits for, whether a session reported an error
    drainPhase, drainTodo, drainSnapshot, drainResult,
    \* where each Connect handler is
    stream,
    \* the sessions whose isReady, isDraining, localDrain, isClosed is set
    ready, draining, localDrain, closed,
    \* the requests map and routeActive of each session
    requests, routeActive,
    \* each Invoke: where it is, its tunnel and the candidates left; the calls
    \* whose request completed, those whose removal ends a peer's drain; how
    \* many Opens each one queued
    phase, at, candidates, completed, endsDrain, opened

registryVars == <<handshakes, sessions, instanceTunnels, instanceActive>>
drainVars == <<drainPhase, drainTodo, drainSnapshot, drainResult>>
flagVars == <<ready, draining, localDrain, closed>>
requestVars == <<requests, routeActive>>
callVars == <<phase, at, candidates, completed, endsDrain, opened>>
vars == <<registryVars, selectionMu, drainVars, stream, flagVars, requestVars, callVars>>

NoCall == "no call"
NoTunnel == "no tunnel"

\* The phases in which a call holds a slot of its tunnel's instance.
SlotPhases == {"reserved", "refused", "started", "rollback", "rolledBack",
               "open", "finished"}

\* The phases in which the call's request is in its session's map.
RequestPhases == {"started", "rollback", "open"}

Init ==
    /\ handshakes = 0 /\ sessions = {}
    /\ instanceTunnels = [i \in Instances |-> 0]
    /\ instanceActive = [i \in Instances |-> 0]
    /\ selectionMu = NoCall
    /\ drainPhase = "idle" /\ drainTodo = {} /\ drainSnapshot = {} /\ drainResult = "ok"
    /\ stream = [t \in Tunnels |-> "new"]
    /\ ready = {} /\ draining = {} /\ localDrain = {} /\ closed = {}
    /\ requests = [t \in Tunnels |-> {}]
    /\ routeActive = [t \in Tunnels |-> [r \in Routes |-> 0]]
    /\ phase = [c \in Calls |-> "idle"]
    /\ at = [c \in Calls |-> NoTunnel]
    /\ candidates = [c \in Calls |-> {}]
    /\ completed = {} /\ endsDrain = {}
    /\ opened = [c \in Calls |-> 0]

----------------------------------------------------------------------------
(* Helpers shared by the steps. *)

IsDraining == drainPhase # "idle"

\* session.accepts / isReadyForRoute, for a tunnel whose peer is not stale
\* (a stale tunnel is failed first: see SessionFails).
Accepts(t, route) ==
    t \in ready /\ t \notin draining /\ t \notin closed /\ route \in RoutesOf[t]

Holds(c, i) == phase[c] \in SlotPhases /\ InstanceOf[at[c]] = i

\* session.fail closes the session once and completes every registered request.
Fail(t) ==
    /\ closed' = closed \cup {t}
    /\ ready' = ready \ {t}
    /\ completed' = completed \cup requests[t]

\* Registry.releaseInstance
ReleaseInstance(i) ==
    instanceActive' = [instanceActive EXCEPT ![i] = IF @ > 0 THEN @ - 1 ELSE @]

\* The call lets go of its tunnel and of what selection computed.
LeaveTunnel(c, next, left) ==
    /\ phase' = [phase EXCEPT ![c] = next]
    /\ at' = [at EXCEPT ![c] = NoTunnel]
    /\ candidates' = [candidates EXCEPT ![c] = left]
    /\ completed' = completed \ {c}
    /\ endsDrain' = endsDrain \ {c}
    /\ UNCHANGED opened

\* Invoke returns.
Return(c) == LeaveTunnel(c, "done", {})

\* Mutant: the candidate that failed is kept.
NextCandidateKept(c) == LeaveTunnel(c, "selecting", candidates[c])

\* The candidate was given up before Open: on to the next one.
NextCandidate(c) == LeaveTunnel(c, "selecting", candidates[c] \ {at[c]})

----------------------------------------------------------------------------
(* Server.Connect: one handler per tunnel. *)

\* Mutant: handshakes in progress are not counted.
HasCapacityOfSessions == ~IsDraining /\ Cardinality(sessions) < MaxTunnels

HasCapacity == ~IsDraining /\ Cardinality(sessions) + handshakes < MaxTunnels

BeginHandshake(t) ==
    /\ stream[t] = "new"
    /\ HasCapacity
    /\ stream' = [stream EXCEPT ![t] = "handshake"]
    /\ handshakes' = handshakes + 1
    /\ UNCHANGED <<sessions, instanceTunnels, instanceActive, selectionMu, drainVars,
                   flagVars, requestVars, callVars>>

BeginHandshakeRefused(t) ==
    /\ stream[t] = "new"
    /\ ~HasCapacity
    /\ stream' = [stream EXCEPT ![t] = "done"]
    /\ UNCHANGED <<registryVars, selectionMu, drainVars, flagVars, requestVars, callVars>>

\* The Hello is late, malformed or refused by negotiate.
ReleaseHandshake(t) ==
    /\ stream[t] = "handshake"
    /\ stream' = [stream EXCEPT ![t] = "done"]
    /\ handshakes' = IF handshakes > 0 THEN handshakes - 1 ELSE handshakes
    /\ UNCHANGED <<sessions, instanceTunnels, instanceActive, selectionMu, drainVars,
                   flagVars, requestVars, callVars>>

\* Mutant: a handshake that began before Drain may still register.
CanRegisterWhileDraining(t) ==
    /\ Cardinality(sessions) + handshakes - 1 < MaxTunnels
    /\ instanceTunnels[InstanceOf[t]] < MaxTunnelsPerInstance

\* registerFromHandshake gives the handshake's place back before it looks at the
\* limits.
CanRegister(t) ==
    /\ ~IsDraining
    /\ Cardinality(sessions) + handshakes - 1 < MaxTunnels
    /\ instanceTunnels[InstanceOf[t]] < MaxTunnelsPerInstance

RegisterFromHandshake(t) ==
    /\ stream[t] = "handshake"
    /\ handshakes > 0
    /\ CanRegister(t)
    /\ handshakes' = handshakes - 1
    /\ stream' = [stream EXCEPT ![t] = "registered"]
    /\ sessions' = sessions \cup {t}
    /\ instanceTunnels' = [instanceTunnels EXCEPT ![InstanceOf[t]] = @ + 1]
    /\ UNCHANGED <<instanceActive, selectionMu, drainVars, flagVars, requestVars,
                   callVars>>

RegisterFromHandshakeRefused(t) ==
    /\ stream[t] = "handshake"
    /\ handshakes > 0
    /\ ~CanRegister(t)
    /\ handshakes' = handshakes - 1
    /\ stream' = [stream EXCEPT ![t] = "done"]
    /\ UNCHANGED <<sessions, instanceTunnels, instanceActive, selectionMu, drainVars,
                   flagVars, requestVars, callVars>>

\* The Hello answer was sent: session.run marks the session ready, whatever
\* happened to it since it was registered.
Run(t) ==
    /\ stream[t] = "registered"
    /\ stream' = [stream EXCEPT ![t] = "running"]
    /\ ready' = ready \cup {t}
    /\ UNCHANGED <<registryVars, selectionMu, drainVars, draining, localDrain, closed,
                   requestVars, callVars>>

\* Mutant: the entry of instanceActive is dropped with requests still active.
UnregisterDropsActive(t) ==
    /\ sessions' = sessions \ {t}
    /\ instanceTunnels' = IF t \in sessions
                          THEN [instanceTunnels EXCEPT ![InstanceOf[t]] = @ - 1]
                          ELSE instanceTunnels
    /\ instanceActive' = [instanceActive EXCEPT ![InstanceOf[t]] = 0]
    /\ UNCHANGED handshakes

\* Registry.unregister: the entry of instanceActive is dropped only when it is
\* 0, which the total function shows as no change.
Unregister(t) ==
    /\ sessions' = sessions \ {t}
    /\ instanceTunnels' = IF t \in sessions
                          THEN [instanceTunnels EXCEPT ![InstanceOf[t]] = @ - 1]
                          ELSE instanceTunnels
    /\ UNCHANGED <<handshakes, instanceActive>>

\* Mutant: the deferred releaseHandshake also runs for a registered tunnel.
AbortBeforeRunReleasesTwice(t) ==
    /\ stream[t] = "registered"
    /\ stream' = [stream EXCEPT ![t] = "done"]
    /\ sessions' = sessions \ {t}
    /\ instanceTunnels' = [instanceTunnels EXCEPT ![InstanceOf[t]] = @ - 1]
    /\ handshakes' = handshakes - 1
    /\ UNCHANGED <<instanceActive, selectionMu, drainVars, flagVars, requestVars, callVars>>

\* The Hello answer could not be sent: session.abortBeforeRun.
AbortBeforeRun(t) ==
    /\ stream[t] = "registered"
    /\ stream' = [stream EXCEPT ![t] = "done"]
    /\ Unregister(t)
    /\ UNCHANGED <<selectionMu, drainVars, flagVars, requestVars, callVars>>

\* session.run after the terminal event of fail: unregister, then close done.
RunEnds(t) ==
    /\ stream[t] = "running"
    /\ t \in closed
    /\ stream' = [stream EXCEPT ![t] = "done"]
    /\ Unregister(t)
    /\ UNCHANGED <<selectionMu, drainVars, flagVars, requestVars, callVars>>

----------------------------------------------------------------------------
(* What happens to a running session. *)

\* The stream breaks, a frame is refused, a Pong or any frame is overdue
\* (readLoop, writeLoop, keepaliveLoop, the stale test of accepts).
SessionFails(t) ==
    /\ stream[t] = "running"
    /\ t \notin closed
    /\ Fail(t)
    /\ UNCHANGED <<registryVars, selectionMu, drainVars, stream, draining, localDrain,
                   requestVars, phase, at, candidates, endsDrain, opened>>

\* A Drain frame of the peer: markDraining, and fail when nothing is active.
PeerDrains(t) ==
    /\ stream[t] = "running"
    /\ t \notin closed
    /\ draining' = draining \cup {t}
    /\ IF requests[t] = {} THEN Fail(t) ELSE UNCHANGED <<closed, ready, completed>>
    /\ UNCHANGED <<registryVars, selectionMu, drainVars, stream, localDrain, requestVars,
                   phase, at, candidates, endsDrain, opened>>

\* Mutant: only the peer's drain starts a timer.
DrainDeadlineOfPeer(t) ==
    /\ stream[t] \in {"registered", "running"}
    /\ t \in draining \ localDrain
    /\ t \notin closed
    /\ Fail(t)
    /\ UNCHANGED <<registryVars, selectionMu, drainVars, stream, draining, localDrain,
                   requestVars, phase, at, candidates, endsDrain, opened>>

\* The timer of markDraining fires at the drain deadline.
DrainDeadline(t) ==
    /\ stream[t] \in {"registered", "running"}
    /\ t \in draining
    /\ t \notin closed
    /\ Fail(t)
    /\ UNCHANGED <<registryVars, selectionMu, drainVars, stream, draining, localDrain,
                   requestVars, phase, at, candidates, endsDrain, opened>>

\* finishLocalDrainAfterSend: our Drain frame is written and nothing is active.
DrainSent(t) ==
    /\ stream[t] = "running"
    /\ t \in localDrain
    /\ t \notin closed
    /\ requests[t] = {}
    /\ Fail(t)
    /\ UNCHANGED <<registryVars, selectionMu, drainVars, stream, draining, localDrain,
                   requestVars, phase, at, candidates, endsDrain, opened>>

----------------------------------------------------------------------------
(* Registry.Drain, called once when the process stops. *)

BeginDrain ==
    /\ drainPhase = "idle"
    /\ drainPhase' = "draining"
    /\ drainTodo' = sessions
    /\ drainSnapshot' = sessions
    /\ UNCHANGED <<registryVars, selectionMu, drainResult, stream, flagVars, requestVars,
                   callVars>>

\* session.markDraining on behalf of this process.
MarkDraining(t) ==
    /\ draining' = draining \cup {t}
    /\ localDrain' = localDrain \cup {t}

\* session.initiateDrain marked the session and queued the Drain frame. (Both gateways
\* always offer the drain capability, and gateway-out ends a handshake without it:
\* drain_unsupported is an answer to other peers.)
InitiateDrain(t) ==
    /\ t \in drainTodo
    /\ t \notin closed
    /\ drainTodo' = drainTodo \ {t}
    /\ MarkDraining(t)
    /\ UNCHANGED <<registryVars, selectionMu, drainPhase, drainSnapshot, drainResult,
                   stream, ready, closed, requestVars, callVars>>

\* The control lane was full: drain_enqueue_failed closes the session at once.
InitiateDrainQueueFull(t) ==
    /\ t \in drainTodo
    /\ t \notin closed
    /\ drainTodo' = drainTodo \ {t}
    /\ drainResult' = "error"
    /\ MarkDraining(t)
    /\ Fail(t)
    /\ UNCHANGED <<registryVars, selectionMu, drainPhase, drainSnapshot, stream,
                   requestVars, phase, at, candidates, endsDrain, opened>>

\* The session was closed already (ignored), or the deadline has passed since
\* Drain began (reported): it is left as it is.
InitiateDrainSkipped(t) ==
    /\ t \in drainTodo
    /\ drainTodo' = drainTodo \ {t}
    /\ \/ t \in closed /\ UNCHANGED drainResult
       \/ drainResult' = "error"
    /\ UNCHANGED <<registryVars, selectionMu, drainPhase, drainSnapshot, stream, flagVars,
                   requestVars, callVars>>

\* Every session of the snapshot closed its done channel in time.
DrainReturns ==
    /\ drainPhase = "draining"
    /\ drainTodo = {}
    /\ \A t \in drainSnapshot : stream[t] = "done"
    /\ drainPhase' = drainResult
    /\ UNCHANGED <<registryVars, selectionMu, drainTodo, drainSnapshot, drainResult,
                   stream, flagVars, requestVars, callVars>>

DrainTimesOut ==
    /\ drainPhase = "draining"
    /\ drainTodo = {}
    /\ drainPhase' = "error"
    /\ UNCHANGED <<registryVars, selectionMu, drainTodo, drainSnapshot, drainResult,
                   stream, flagVars, requestVars, callVars>>

----------------------------------------------------------------------------
(* Registry.Invoke. *)

\* selectAndOpenRequest takes selectionMu and the snapshot of selectionOrder;
\* the order in which the candidates are tried is left open here.
SelectionOrder(c) ==
    /\ phase[c] = "idle"
    /\ selectionMu = NoCall
    /\ ~IsDraining
    /\ phase' = [phase EXCEPT ![c] = "selecting"]
    /\ candidates' = [candidates EXCEPT ![c] = {t \in sessions : Accepts(t, RouteOf[c])}]
    /\ selectionMu' = c
    /\ UNCHANGED <<registryVars, drainVars, stream, flagVars, requestVars, at, completed,
                   endsDrain, opened>>

SelectionOrderDraining(c) ==
    /\ phase[c] = "idle"
    /\ selectionMu = NoCall
    /\ IsDraining
    /\ Return(c)
    /\ UNCHANGED <<registryVars, selectionMu, drainVars, stream, flagVars, requestVars>>

\* Every candidate was refused: the call ends without a tunnel.
NoCandidateLeft(c) ==
    /\ phase[c] = "selecting"
    /\ candidates[c] = {}
    /\ Return(c)
    /\ selectionMu' = NoCall
    /\ UNCHANGED <<registryVars, drainVars, stream, flagVars, requestVars>>

ReserveInstance(c, t) ==
    /\ phase[c] = "selecting"
    /\ t \in candidates[c]
    /\ ~IsDraining
    /\ instanceActive[InstanceOf[t]] < MaxInFlightPerInstance
    /\ instanceActive' = [instanceActive EXCEPT ![InstanceOf[t]] = @ + 1]
    /\ phase' = [phase EXCEPT ![c] = "reserved"]
    /\ at' = [at EXCEPT ![c] = t]
    /\ UNCHANGED <<handshakes, sessions, instanceTunnels, selectionMu, drainVars, stream,
                   flagVars, requestVars, candidates, completed, endsDrain, opened>>

\* reservationDraining ends the call.
ReserveInstanceDraining(c) ==
    /\ phase[c] = "selecting"
    /\ candidates[c] # {}
    /\ IsDraining
    /\ Return(c)
    /\ selectionMu' = NoCall
    /\ UNCHANGED <<registryVars, drainVars, stream, flagVars, requestVars>>

\* reservationSaturated skips the candidate.
ReserveInstanceSaturated(c, t) ==
    /\ phase[c] = "selecting"
    /\ t \in candidates[c]
    /\ ~IsDraining
    /\ instanceActive[InstanceOf[t]] >= MaxInFlightPerInstance
    /\ candidates' = [candidates EXCEPT ![c] = @ \ {t}]
    /\ UNCHANGED <<registryVars, selectionMu, drainVars, stream, flagVars, requestVars,
                   phase, at, completed, endsDrain, opened>>

CanStart(c) ==
    /\ Accepts(at[c], RouteOf[c])
    /\ Cardinality(requests[at[c]]) < MaxInFlightRequests
    /\ routeActive[at[c]][RouteOf[c]] < RouteMaxInFlight[RouteOf[c]]

\* session.startRequest, with a fresh request id.
StartRequest(c) ==
    /\ phase[c] = "reserved"
    /\ CanStart(c)
    /\ requests' = [requests EXCEPT ![at[c]] = @ \cup {c}]
    /\ routeActive' = [routeActive EXCEPT ![at[c]][RouteOf[c]] = @ + 1]
    /\ phase' = [phase EXCEPT ![c] = "started"]
    /\ UNCHANGED <<registryVars, selectionMu, drainVars, stream, flagVars, at, candidates,
                   completed, endsDrain, opened>>

\* The other refusals, a payload over the limit and a failing source of ids, leave the call
\* where this one does.
StartRequestRefused(c) ==
    /\ phase[c] = "reserved"
    /\ ~CanStart(c)
    /\ phase' = [phase EXCEPT ![c] = "refused"]
    /\ UNCHANGED <<registryVars, selectionMu, drainVars, stream, flagVars, requestVars, at,
                   candidates, completed, endsDrain, opened>>

\* The slot of a refused start is given back before the next candidate.
ReleaseRefused(c) ==
    /\ phase[c] = "refused"
    /\ ReleaseInstance(InstanceOf[at[c]])
    /\ NextCandidate(c)
    /\ UNCHANGED <<handshakes, sessions, instanceTunnels, selectionMu, drainVars, stream,
                   flagVars, requestVars>>

\* request.enqueueOpen: the Open frame is in the tunnel's queue.
EnqueueOpen(c) ==
    /\ phase[c] = "started"
    /\ c \notin completed
    /\ at[c] \notin closed
    /\ phase' = [phase EXCEPT ![c] = "open"]
    /\ candidates' = [candidates EXCEPT ![c] = {}]
    /\ opened' = [opened EXCEPT ![c] = @ + 1]
    /\ selectionMu' = NoCall
    /\ UNCHANGED <<registryVars, drainVars, stream, flagVars, requestVars, at, completed,
                   endsDrain>>

\* The request was completed by fail, the session is closed, the context has
\* ended or the lane is full: Open was not queued and the request completes.
EnqueueOpenRefused(c) ==
    /\ phase[c] = "started"
    /\ phase' = [phase EXCEPT ![c] = "rollback"]
    /\ completed' = completed \cup {c}
    /\ UNCHANGED <<registryVars, selectionMu, drainVars, stream, flagVars, requestVars,
                   at, candidates, endsDrain, opened>>

\* Mutant: the route's counter is forgotten.
RemoveRequestKeepsRoute(c, next) ==
    LET t == at[c]
    IN  /\ requests' = [requests EXCEPT ![t] = @ \ {c}]
        /\ phase' = [phase EXCEPT ![c] = next]
        /\ endsDrain' = IF t \in draining \ localDrain /\ requests[t] = {c}
                        THEN endsDrain \cup {c} ELSE endsDrain
        /\ UNCHANGED <<registryVars, selectionMu, drainVars, stream, flagVars, at,
                       candidates, completed, opened, routeActive>>

\* session.removeRequest up to the release of the instance's slot.
RemoveRequest(c, next) ==
    LET t == at[c]
    IN  /\ requests' = [requests EXCEPT ![t] = @ \ {c}]
        /\ routeActive' = [routeActive EXCEPT ![t][RouteOf[c]] = @ - 1]
        /\ phase' = [phase EXCEPT ![c] = next]
        /\ endsDrain' = IF t \in draining \ localDrain /\ requests[t] = {c}
                        THEN endsDrain \cup {c} ELSE endsDrain
        /\ UNCHANGED <<registryVars, selectionMu, drainVars, stream, flagVars, at,
                       candidates, completed, opened>>

RollbackRequestBeforeOpen(c) ==
    /\ phase[c] = "rollback"
    /\ RemoveRequest(c, "rolledBack")

\* The rest of removeRequest: the slot is released, and the last request of a
\* tunnel the peer drains closes it (after a local drain DrainSent does).
ReleaseRemoved(c) ==
    /\ ReleaseInstance(InstanceOf[at[c]])
    /\ closed' = IF c \in endsDrain THEN closed \cup {at[c]} ELSE closed
    /\ ready' = IF c \in endsDrain THEN ready \ {at[c]} ELSE ready
    /\ UNCHANGED <<handshakes, sessions, instanceTunnels, drainVars, stream, draining,
                   localDrain, requestVars>>

ReleaseRolledBack(c) ==
    /\ phase[c] = "rolledBack"
    /\ ReleaseRemoved(c)
    /\ \/ Return(c) /\ selectionMu' = NoCall    \* the caller's context has ended
       \/ NextCandidate(c) /\ UNCHANGED selectionMu

\* An open request completes: Result or Cancel of the peer, request.cancel when
\* the caller's context ends, or completeLocalAbort when the initial credit or a
\* body frame finds the queue full. Invoke then returns; it tries no other tunnel.
RequestCompletes(c) ==
    /\ phase[c] = "open"
    /\ c \notin completed
    /\ completed' = completed \cup {c}
    /\ UNCHANGED <<registryVars, selectionMu, drainVars, stream, flagVars, requestVars,
                   phase, at, candidates, endsDrain, opened>>

FinishRequest(c) ==
    /\ phase[c] = "open"
    /\ c \in completed
    /\ RemoveRequest(c, "finished")

\* Mutant: a failed call is tried again on another tunnel after its Open.
ReleaseFinishedRetries(c) ==
    /\ phase[c] = "finished"
    /\ ReleaseRemoved(c)
    /\ NextCandidate(c)
    /\ UNCHANGED selectionMu

ReleaseFinished(c) ==
    /\ phase[c] = "finished"
    /\ ReleaseRemoved(c)
    /\ Return(c)
    /\ UNCHANGED selectionMu

----------------------------------------------------------------------------
ConnectNext(t) ==
    \/ BeginHandshake(t) \/ BeginHandshakeRefused(t) \/ ReleaseHandshake(t)
    \/ RegisterFromHandshake(t) \/ RegisterFromHandshakeRefused(t)
    \/ Run(t) \/ AbortBeforeRun(t) \/ RunEnds(t)

SessionNext(t) ==
    \/ SessionFails(t) \/ PeerDrains(t) \/ DrainDeadline(t) \/ DrainSent(t)

DrainProceeds ==
    \/ DrainReturns \/ DrainTimesOut
    \/ \E t \in Tunnels : \/ InitiateDrain(t) \/ InitiateDrainQueueFull(t)
                          \/ InitiateDrainSkipped(t)

CallNext(c) ==
    \/ SelectionOrder(c) \/ SelectionOrderDraining(c) \/ NoCandidateLeft(c)
    \/ ReserveInstanceDraining(c)
    \/ \E t \in Tunnels : ReserveInstance(c, t) \/ ReserveInstanceSaturated(c, t)
    \/ StartRequest(c) \/ StartRequestRefused(c) \/ ReleaseRefused(c)
    \/ EnqueueOpen(c) \/ EnqueueOpenRefused(c)
    \/ RollbackRequestBeforeOpen(c) \/ ReleaseRolledBack(c)
    \/ RequestCompletes(c) \/ FinishRequest(c) \/ ReleaseFinished(c)

Next ==
    \/ \E t \in Tunnels : ConnectNext(t) \/ SessionNext(t)
    \/ BeginDrain \/ DrainProceeds
    \/ \E c \in Calls : CallNext(c)

Spec == Init /\ [][Next]_vars

\* Goroutines that can run do run, and timers fire: a call's deadline
\* completes its request, a session's drain timer closes it.
Fairness ==
    /\ \A c \in Calls : WF_vars(CallNext(c))
    /\ \A t \in Tunnels : /\ WF_vars(Run(t))
                          /\ WF_vars(RunEnds(t))
                          /\ WF_vars(DrainDeadline(t))
    /\ WF_vars(DrainProceeds)

FairSpec == Spec /\ Fairness

----------------------------------------------------------------------------
(* Properties. *)

\* Every variable has the shape of the field it stands for.
TypeOK ==
    /\ handshakes \in Nat
    /\ sessions \in SUBSET Tunnels
    /\ instanceTunnels \in [Instances -> Int]
    /\ instanceActive \in [Instances -> Nat]
    /\ selectionMu \in Calls \cup {NoCall}
    /\ drainPhase \in {"idle", "draining", "ok", "error"}
    /\ drainTodo \in SUBSET Tunnels
    /\ drainSnapshot \in SUBSET Tunnels
    /\ drainResult \in {"ok", "error"}
    /\ stream \in [Tunnels -> {"new", "handshake", "registered", "running", "done"}]
    /\ ready \in SUBSET Tunnels /\ draining \in SUBSET Tunnels
    /\ localDrain \in SUBSET Tunnels /\ closed \in SUBSET Tunnels
    /\ requests \in [Tunnels -> SUBSET Calls]
    /\ routeActive \in [Tunnels -> [Routes -> Int]]
    /\ phase \in [Calls -> SlotPhases \cup {"idle", "selecting", "done"}]
    /\ at \in [Calls -> Tunnels \cup {NoTunnel}]
    /\ candidates \in [Calls -> SUBSET Tunnels]
    /\ completed \in SUBSET Calls
    /\ endsDrain \in SUBSET Calls
    /\ opened \in [Calls -> Nat]

\* The tunnel quota holds whatever handshakes, failures and drains interleave:
\* handshakes in progress are counted against it (beginHandshake), each is
\* given back exactly once (registerFromHandshake or releaseHandshake), and the
\* per-instance counter equals the instance's registered tunnels.
AdmissionBounded ==
    /\ handshakes = Cardinality({t \in Tunnels : stream[t] = "handshake"})
    /\ Cardinality(sessions) + handshakes <= MaxTunnels
    /\ \A i \in Instances :
          /\ instanceTunnels[i] = Cardinality({t \in sessions : InstanceOf[t] = i})
          /\ instanceTunnels[i] <= MaxTunnelsPerInstance

\* No in-flight slot of an instance is leaked or returned twice: the counter of
\* reserveInstance and releaseInstance equals the calls between the two, also
\* when the tunnel fails, drains or unregisters meanwhile, and stays within
\* maxInFlightPerInstance over all tunnels of the instance.
SlotsConserved ==
    \A i \in Instances :
        /\ instanceActive[i] = Cardinality({c \in Calls : Holds(c, i)})
        /\ instanceActive[i] <= MaxInFlightPerInstance

\* A session's requests map holds exactly the calls between startRequest and
\* removeRequest, its route counters agree with it, and both respect the
\* negotiated and the route's limit.
RequestsBounded ==
    \A t \in Tunnels :
        /\ requests[t] = {c \in Calls : phase[c] \in RequestPhases /\ at[c] = t}
        /\ Cardinality(requests[t]) <= MaxInFlightRequests
        /\ \A r \in Routes :
              /\ routeActive[t][r] = Cardinality({c \in requests[t] : RouteOf[c] = r})
              /\ routeActive[t][r] <= RouteMaxInFlight[r]

\* Invoke falls back to another tunnel only while no Open was queued: a call
\* whose Open is in a queue never opens on a second tunnel and never selects
\* again ("Any failure from this point is returned without replay").
NoReplay ==
    \A c \in Calls :
        /\ opened[c] <= 1
        /\ opened[c] > 0 => phase[c] \in {"open", "finished", "done"}

\* When Drain returns without an error, no tunnel is registered (none slipped
\* in through a handshake begun before) and every opened call has its outcome.
DrainedIsIdle ==
    drainPhase = "ok" =>
        /\ sessions = {}
        /\ \A c \in Calls : phase[c] = "open" => c \in completed

\* Every call returns: no path of selection, fallback, failure or drain leaves
\* Invoke waiting for ever.
CallsReturn == \A c \in Calls : phase[c] # "idle" ~> phase[c] = "done"

\* A tunnel that began to drain leaves the registry, whoever started the drain.
DrainingTunnelsLeave == \A t \in Tunnels : t \in draining ~> t \notin sessions
=============================================================================
