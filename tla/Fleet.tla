------------------------------- MODULE Fleet -------------------------------
(***************************************************************************)
(* One process of the fleet, from its start to its end: its runner (module *)
(* Runner) with what the two gateways do meanwhile. A gateway-out keeps    *)
(* its tunnels (module Pool), a gateway-in spreads calls over the data     *)
(* centres its tunnels come from (module Selection).                       *)
(***************************************************************************)
EXTENDS Runner, FiniteSets

fleetVars == <<runnerVars, poolVars, selectionVars>>

FleetInit == RunnerInit /\ PoolInit /\ SelectionInit

Running(name) == service.name = name /\ Runs

\* Once the process is to stop, the warm-ups and the turns no longer matter, and
\* with the process everything in it is gone.
Stopping == cancelled \/ returned # {}

Forget ==
    /\ selection' = IF Stopping' THEN [d \in DataCenters |-> Unavailable] ELSE selection
    /\ passedBy' = IF Stopping' THEN [d \in DataCenters |-> Warmup] ELSE passedBy
    /\ initialReady' = (initialReady /\ ~Stopping')
    /\ nextClient' = IF Stopping' THEN 1 ELSE nextClient
    /\ IF runner' = "ended"
       THEN /\ tunnel' = [c \in Slots |-> "done"] /\ server' = [c \in Slots |-> Nothing]
            /\ failures' = [c \in Slots |-> 0] /\ signal' = {} /\ serving' = {}
            /\ tunnels' = [d \in DataCenters |-> [t \in DOMAIN tunnels[d] |-> "gone"]]
       ELSE UNCHANGED <<tunnel, server, failures, signal, serving, tunnels>>

RunnerStep == RunnerNext /\ Forget

PoolStep ==
    /\ Running("gateway-out")
    /\ PoolNext(service.peers, cancelled, Stopping)
    /\ UNCHANGED <<runnerVars, selectionVars>>

\* Calls spread over the tunnels. A drain refuses new tunnels.
SelectionStep ==
    /\ Running("gateway-in")
    /\ \/ ~Stopping /\ (TunnelArrives \/ Elapse \/ Select)
       \/ TunnelProceeds
    /\ UNCHANGED <<runnerVars, poolVars>>

Ended == runner = "ended" /\ UNCHANGED fleetVars

FleetNext == RunnerStep \/ PoolStep \/ SelectionStep \/ Ended

Spec == FleetInit /\ [][FleetNext]_fleetVars

\* The deadline of the runner and the timeouts of a client's waits expire, and
\* a goroutine that can take a step takes it.
FairSpec ==
    /\ Spec
    /\ WF_fleetVars(RunnerProceeds /\ Forget)
    /\ WF_fleetVars((\E i \in Indices : Kind(i) = "pool" /\ RunReturns(i)) /\ Forget)
    /\ \A c \in Slots : WF_fleetVars(Running("gateway-out") /\ ClientProceeds(c, cancelled)
                                         /\ UNCHANGED <<runnerVars, selectionVars>>)

----------------------------------------------------------------------------
(* Properties. *)

\* Two uses end before their user does: gateway-out closes its client of Auth
\* before the pool has drained, and User its connection to Files before gRPC.
ClosedFirst == {<<"reverse-tunnels", "auth-grpc">>, <<"user-grpc", "user-avatar-cleanup">>}

Uses(i, j) ==
    /\ Components[j].name \in Components[i].uses
    /\ <<Components[i].name, Components[j].name>> \notin ClosedFirst

HasAvatars == \E i \in Indices : Components[i].name = "user-avatar-cleanup"


\* What a process opens is closed before it exits, whichever step of its start
\* fails and whenever it is stopped, unless the deadline passes first; and what
\* is open is closed either by a deferred close of runService or by one
\* component, never by both: the handover to the runner misses nothing.
NothingLeaks ==
    /\ runner = "ended" /\ ~expired => opened = {}
    /\ Runs => \A r \in opened :
           LET owners == {i \in Indices : r \in Components[i].closes}
           IN  IF r \in deferred THEN owners = {} ELSE Cardinality(owners) = 1

\* ReturnsGradually: a data centre that a call has found without a ready tunnel comes
\* back with the least weight and earns the rest in the warm-up, however its
\* sessions race: sessions set isReady before they tell the registry, so that a
\* call may start the warm-up that the session then starts again, and two new
\* sessions may each take the other for a peer that was there before.
ReturnsGradually ==
    \A d \in Eligible :
        selection[d].isReady => FailbackWeight(selection[d].since) <= FailbackWeight(passedBy[d])

\* A process that is told to stop, or one of whose components returned, ends;
\* and a gateway-out comes back to a ready tunnel again and again, unless its
\* attempts are exhausted, which ends the process so that it is replaced.
ServesOrEnds ==
    /\ Stopping ~> runner = "ended"
    /\ []<>(service.name = "gateway-out" => runner = "ended" \/ \E c \in Slots : IsReady(c))

=============================================================================
