--------------------------- MODULE RegistryProofs ---------------------------
(***************************************************************************)
(* Proofs about Registry, for every set of tunnels, calls, instances and   *)
(* routes and every value of the limits: types, admission, slots, the      *)
(* requests map and the route counters of a session, and Drain.            *)
(***************************************************************************)
EXTENDS Registry, FiniteSetTheorems, TLAPS

\* A call that holds a slot has a tunnel.
CallHasTunnel == \A c \in Calls : phase[c] \in SlotPhases => at[c] \in Tunnels

Typed == TypeOK /\ CallHasTunnel

\* The types hold in an empty registry.
LEMMA TypeInit == Init => Typed
  BY SetsAssumption DEF Init, TypeOK, CallHasTunnel, SlotPhases, Typed

\* removeRequest keeps the types.
LEMMA RemoveTyped ==
    ASSUME Typed, NEW c \in Calls, phase[c] \in RequestPhases,
           NEW next \in SlotPhases, RemoveRequest(c, next)
    PROVE  Typed'
<1> USE SetsAssumption DEF Typed, TypeOK, CallHasTunnel, SlotPhases, RequestPhases
<1>1. at[c] \in Tunnels /\ RouteOf[c] \in Routes  OBVIOUS
<1>2. requests' \in [Tunnels -> SUBSET Calls]  BY <1>1 DEF RemoveRequest
<1>3. routeActive' \in [Tunnels -> [Routes -> Int]]  BY <1>1 DEF RemoveRequest
<1>4. /\ phase' \in [Calls -> SlotPhases \cup {"idle", "selecting", "done"}]
      /\ endsDrain' \in SUBSET Calls
  BY DEF RemoveRequest
<1>5. QED
  BY <1>2, <1>3, <1>4 DEF RemoveRequest, registryVars, drainVars, flagVars

\* Every step keeps the types.
LEMMA TypeStep == Typed /\ [Next]_vars => Typed'
<1> SUFFICES ASSUME Typed, [Next]_vars PROVE Typed'
  OBVIOUS
<1> USE SetsAssumption
    DEF Typed, TypeOK, CallHasTunnel, SlotPhases, registryVars, drainVars, flagVars,
        requestVars, callVars
<1>1. ASSUME NEW t \in Tunnels, ConnectNext(t) PROVE Typed'
  <2>1. CASE BeginHandshake(t)  BY <2>1 DEF BeginHandshake
  <2>2. CASE BeginHandshakeRefused(t)  BY <2>2 DEF BeginHandshakeRefused
  <2>3. CASE ReleaseHandshake(t)  BY <2>3 DEF ReleaseHandshake
  <2>4. CASE RegisterFromHandshake(t)  BY <2>4 DEF RegisterFromHandshake
  <2>5. CASE RegisterFromHandshakeRefused(t)  BY <2>5 DEF RegisterFromHandshakeRefused
  <2>6. CASE Run(t)  BY <2>6 DEF Run
  <2>7. CASE AbortBeforeRun(t)  BY <2>7 DEF AbortBeforeRun, Unregister
  <2>8. CASE RunEnds(t)  BY <2>8 DEF RunEnds, Unregister
  <2>9. QED
    BY <1>1, <2>1, <2>2, <2>3, <2>4, <2>5, <2>6, <2>7, <2>8, Zenon DEF ConnectNext
<1>2. ASSUME NEW t \in Tunnels, SessionNext(t) PROVE Typed'
  <2>1. CASE SessionFails(t)  BY <2>1 DEF SessionFails, Fail
  <2>2. CASE PeerDrains(t)  BY <2>2 DEF PeerDrains, Fail
  <2>3. CASE DrainDeadline(t)  BY <2>3 DEF DrainDeadline, Fail
  <2>4. CASE DrainSent(t)  BY <2>4 DEF DrainSent, Fail
  <2>5. QED  BY <1>2, <2>1, <2>2, <2>3, <2>4 DEF SessionNext
<1>3. CASE BeginDrain  BY <1>3 DEF BeginDrain
<1>4. CASE DrainProceeds
  <2>1. CASE DrainReturns  BY <2>1 DEF DrainReturns
  <2>2. CASE DrainTimesOut  BY <2>2 DEF DrainTimesOut
  <2>3. ASSUME NEW t \in Tunnels, InitiateDrain(t) PROVE Typed'
    BY <2>3 DEF InitiateDrain, MarkDraining
  <2>4. ASSUME NEW t \in Tunnels, InitiateDrainQueueFull(t) PROVE Typed'
    BY <2>4 DEF InitiateDrainQueueFull, MarkDraining, Fail
  <2>5. ASSUME NEW t \in Tunnels, InitiateDrainSkipped(t) PROVE Typed'
    BY <2>5 DEF InitiateDrainSkipped
  <2>6. QED  BY <1>4, <2>1, <2>2, <2>3, <2>4, <2>5 DEF DrainProceeds
<1>5. ASSUME NEW c \in Calls, CallNext(c) PROVE Typed'
  <2> USE DEF Return, NextCandidate, LeaveTunnel
  <2>1. CASE SelectionOrder(c)
    <3>1. {t \in sessions : Accepts(t, RouteOf[c])} \in SUBSET Tunnels  OBVIOUS
    <3>2. QED  BY <2>1, <3>1 DEF SelectionOrder
  <2>2. CASE SelectionOrderDraining(c)  BY <2>2 DEF SelectionOrderDraining
  <2>3. CASE NoCandidateLeft(c)  BY <2>3 DEF NoCandidateLeft
  <2>4. CASE ReserveInstanceDraining(c)  BY <2>4 DEF ReserveInstanceDraining
  <2>5. ASSUME NEW t \in Tunnels, ReserveInstance(c, t) PROVE Typed'
    BY <2>5 DEF ReserveInstance
  <2>6. ASSUME NEW t \in Tunnels, ReserveInstanceSaturated(c, t) PROVE Typed'
    BY <2>6 DEF ReserveInstanceSaturated
  <2>7. CASE StartRequest(c)
    <3>1. at[c] \in Tunnels /\ RouteOf[c] \in Routes  BY <2>7 DEF StartRequest
    <3>2. routeActive' \in [Tunnels -> [Routes -> Int]]  BY <2>7, <3>1 DEF StartRequest
    <3>3. QED  BY <2>7, <3>1, <3>2 DEF StartRequest
  <2>8. CASE StartRequestRefused(c)  BY <2>8 DEF StartRequestRefused
  <2>9. CASE ReleaseRefused(c)  BY <2>9 DEF ReleaseRefused, ReleaseInstance
  <2>10. CASE EnqueueOpen(c)  BY <2>10 DEF EnqueueOpen
  <2>11. CASE EnqueueOpenRefused(c)  BY <2>11 DEF EnqueueOpenRefused
  <2>12. CASE RollbackRequestBeforeOpen(c)
    BY <2>12, RemoveTyped DEF RollbackRequestBeforeOpen, RequestPhases
  <2>13. CASE ReleaseRolledBack(c)
    <3>1. CASE Return(c)
      BY <2>13, <3>1 DEF ReleaseRolledBack, ReleaseRemoved, ReleaseInstance
    <3>2. CASE NextCandidate(c)
      BY <2>13, <3>2 DEF ReleaseRolledBack, ReleaseRemoved, ReleaseInstance
    <3>3. QED  BY <2>13, <3>1, <3>2 DEF ReleaseRolledBack
  <2>14. CASE RequestCompletes(c)  BY <2>14 DEF RequestCompletes
  <2>15. CASE FinishRequest(c)  BY <2>15, RemoveTyped DEF FinishRequest, RequestPhases
  <2>16. CASE ReleaseFinished(c)
    BY <2>16 DEF ReleaseFinished, ReleaseRemoved, ReleaseInstance
  <2>17. QED
    BY Zenon, <1>5, <2>1, <2>2, <2>3, <2>4, <2>5, <2>6, <2>7, <2>8, <2>9, <2>10, <2>11,
       <2>12, <2>13, <2>14, <2>15, <2>16 DEF CallNext
<1>6. CASE UNCHANGED vars  BY <1>6 DEF vars
<1>7. QED  BY <1>1, <1>2, <1>3, <1>4, <1>5, <1>6 DEF Next

\* The types hold in every reachable state.
LEMMA AlwaysTyped == Spec => []Typed
<1>1. Init => Typed  BY TypeInit
<1>2. Typed /\ [Next]_vars => Typed'  BY TypeStep
<1>3. QED  BY <1>1, <1>2, PTL DEF Spec

\* Every variable keeps the shape of the field it stands for (TypeOK of Registry).
THEOREM TypeCorrect == Spec => []TypeOK
<1>1. Typed => TypeOK  BY DEF Typed
<1>2. QED  BY <1>1, AlwaysTyped, PTL

----------------------------------------------------------------------------
(***************************************************************************)
(* Counting. The counters of the registry are cardinalities of sets that   *)
(* one step changes by at most one element.                                *)
(***************************************************************************)

\* Adding an element to a finite set adds one to its size.
LEMMA CountAdd ==
    ASSUME NEW S, NEW T, IsFiniteSet(S), NEW x, x \notin S, T = S \cup {x}
    PROVE  Cardinality(T) = Cardinality(S) + 1
  BY FS_AddElement, FS_CardinalityType

\* Removing an element takes one away.
LEMMA CountRemove ==
    ASSUME NEW S, NEW T, IsFiniteSet(S), NEW x, x \in S, T = S \ {x}
    PROVE  Cardinality(T) = Cardinality(S) - 1 /\ Cardinality(S) >= 1
<1>1. Cardinality(T) = Cardinality(S) - 1  BY FS_RemoveElement
<1>2. Cardinality(S) \in Nat /\ Cardinality(T) \in Nat
  BY FS_CardinalityType, FS_RemoveElement
<1>3. QED  BY <1>1, <1>2

----------------------------------------------------------------------------
(***************************************************************************)
(* Admission. The map of sessions is tied to the handlers: a tunnel is in  *)
(* it exactly between registerFromHandshake and unregister.                *)
(***************************************************************************)
Handshaking == {t \in Tunnels : stream[t] = "handshake"}
TunnelsOf(i) == {t \in sessions : InstanceOf[t] = i}

AdmissionInv ==
    /\ sessions = {t \in Tunnels : stream[t] \in {"registered", "running"}}
    /\ handshakes = Cardinality(Handshaking)
    /\ Cardinality(sessions) + handshakes <= MaxTunnels
    /\ \A i \in Instances : /\ instanceTunnels[i] = Cardinality(TunnelsOf(i))
                             /\ instanceTunnels[i] <= MaxTunnelsPerInstance

\* The sets that the registry's counters count are finite.
LEMMA FiniteCounts ==
    ASSUME Typed
    PROVE  /\ IsFiniteSet(Handshaking) /\ IsFiniteSet(sessions)
           /\ \A i : IsFiniteSet(TunnelsOf(i))
           /\ Cardinality(sessions) \in Nat
           /\ Cardinality(Handshaking) \in Nat
<1>1. IsFiniteSet(Tunnels)  BY SetsAssumption
<1>2. Handshaking \subseteq Tunnels /\ sessions \subseteq Tunnels
  BY DEF Handshaking, Typed, TypeOK
<1>3. IsFiniteSet(Handshaking) /\ IsFiniteSet(sessions)  BY <1>1, <1>2, FS_Subset
<1>4. \A i : TunnelsOf(i) \subseteq sessions  BY DEF TunnelsOf
<1>5. \A i : IsFiniteSet(TunnelsOf(i))  BY <1>3, <1>4, FS_Subset
<1>6. QED  BY <1>3, <1>5, FS_CardinalityType

\* The counters are exact in an empty registry.
LEMMA AdmissionInit == Init => AdmissionInv
<1> SUFFICES ASSUME Init PROVE AdmissionInv
  OBVIOUS
<1>1. Handshaking = {}  BY DEF Init, Handshaking
<1>2. \A i : TunnelsOf(i) = {}  BY DEF Init, TunnelsOf
<1>3. sessions = {} /\ handshakes = 0  BY DEF Init
<1>4. \A i \in Instances : instanceTunnels[i] = 0  BY DEF Init
<1>5. Cardinality({}) = 0  BY FS_EmptySet
<1>6. sessions = {t \in Tunnels : stream[t] \in {"registered", "running"}}  BY DEF Init
<1>7. QED  BY <1>1, <1>2, <1>3, <1>4, <1>5, <1>6, LimitsAssumption DEF AdmissionInv

\* A handshake ends without a session: its place is given back once.
LEMMA HandshakeEnds ==
    ASSUME Typed, AdmissionInv, NEW t \in Tunnels, stream[t] = "handshake",
           stream' = [stream EXCEPT ![t] = "done"], handshakes' = handshakes - 1,
           UNCHANGED <<sessions, instanceTunnels>>
    PROVE  AdmissionInv'
<1>1. Handshaking' = Handshaking \ {t} /\ t \in Handshaking
  BY DEF Handshaking, Typed, TypeOK
<1>2. Cardinality(Handshaking') = Cardinality(Handshaking) - 1
  BY <1>1, FiniteCounts, CountRemove
<1>3. sessions' = {x \in Tunnels : stream'[x] \in {"registered", "running"}}
  BY DEF AdmissionInv, Typed, TypeOK
<1>4. handshakes' = Cardinality(Handshaking')  BY <1>2 DEF AdmissionInv
<1>5. Cardinality(sessions') + handshakes' <= MaxTunnels
  BY FiniteCounts, LimitsAssumption DEF AdmissionInv
<1>6. \A i \in Instances : /\ instanceTunnels'[i] = Cardinality(TunnelsOf(i)')
                            /\ instanceTunnels'[i] <= MaxTunnelsPerInstance
  BY DEF AdmissionInv, TunnelsOf
<1>7. QED  BY <1>3, <1>4, <1>5, <1>6 DEF AdmissionInv

\* unregister takes the tunnel and its count away together.
LEMMA UnregisterKeepsCounts ==
    ASSUME Typed, AdmissionInv, NEW t \in Tunnels,
           stream[t] \in {"registered", "running"},
           stream' = [stream EXCEPT ![t] = "done"], Unregister(t)
    PROVE  AdmissionInv'
<1>1. t \in sessions  BY DEF AdmissionInv
<1>2. /\ sessions' = sessions \ {t}
      /\ instanceTunnels' = [instanceTunnels EXCEPT ![InstanceOf[t]] = @ - 1]
      /\ handshakes' = handshakes
  BY <1>1 DEF Unregister
<1>3. Handshaking' = Handshaking  BY DEF Handshaking, Typed, TypeOK
<1>4. Cardinality(sessions') = Cardinality(sessions) - 1
  BY <1>1, <1>2, FiniteCounts, CountRemove
<1>5. sessions' = {x \in Tunnels : stream'[x] \in {"registered", "running"}}
  BY <1>2 DEF AdmissionInv, Typed, TypeOK
<1>6. Cardinality(sessions') + handshakes' <= MaxTunnels
  BY <1>2, <1>4, FiniteCounts, LimitsAssumption DEF AdmissionInv
<1>7. ASSUME NEW i \in Instances
      PROVE  /\ instanceTunnels'[i] = Cardinality(TunnelsOf(i)')
             /\ instanceTunnels'[i] <= MaxTunnelsPerInstance
  <2>1. CASE i = InstanceOf[t]
    <3>1. t \in TunnelsOf(i) /\ TunnelsOf(i)' = TunnelsOf(i) \ {t}
      BY <1>1, <1>2, <2>1 DEF TunnelsOf
    <3>2. /\ Cardinality(TunnelsOf(i)') = Cardinality(TunnelsOf(i)) - 1
      BY <3>1, FiniteCounts, CountRemove
    <3>3. instanceTunnels'[i] = instanceTunnels[i] - 1
      BY <1>2, <2>1 DEF Typed, TypeOK
    <3>4. instanceTunnels[i] = Cardinality(TunnelsOf(i))
      BY DEF AdmissionInv
    <3>5. instanceTunnels[i] <= MaxTunnelsPerInstance
      BY DEF AdmissionInv
    <3>6. instanceTunnels[i] \in Int
      BY DEF Typed, TypeOK
    <3>7. QED  BY <3>2, <3>3, <3>4, <3>5, <3>6, LimitsAssumption
  <2>2. CASE i # InstanceOf[t]
    <3>1. TunnelsOf(i)' = TunnelsOf(i)  BY <1>2, <2>2 DEF TunnelsOf
    <3>2. instanceTunnels'[i] = instanceTunnels[i]
      BY <1>2, <2>2 DEF Typed, TypeOK
    <3>3. QED  BY <3>1, <3>2 DEF AdmissionInv
  <2>3. QED  BY <2>1, <2>2
<1>8. QED  BY <1>2, <1>3, <1>5, <1>6, <1>7 DEF AdmissionInv

\* registerFromHandshake moves one tunnel from the handshakes to its instance,
\* within both quotas.
LEMMA RegisterKeepsCounts ==
    ASSUME Typed, AdmissionInv, NEW t \in Tunnels, RegisterFromHandshake(t)
    PROVE  AdmissionInv'
<1>1. /\ stream[t] = "handshake" /\ stream' = [stream EXCEPT ![t] = "registered"]
      /\ sessions' = sessions \cup {t}
      /\ handshakes' = handshakes - 1
      /\ instanceTunnels' = [instanceTunnels EXCEPT ![InstanceOf[t]] = @ + 1]
      /\ instanceTunnels[InstanceOf[t]] < MaxTunnelsPerInstance
  BY DEF RegisterFromHandshake, CanRegister
<1>2. t \notin sessions  BY <1>1 DEF AdmissionInv
<1>3. Handshaking' = Handshaking \ {t} /\ t \in Handshaking
  BY <1>1 DEF Handshaking, Typed, TypeOK
<1>4. Cardinality(Handshaking') = Cardinality(Handshaking) - 1
  BY <1>3, FiniteCounts, CountRemove
<1>5. Cardinality(sessions') = Cardinality(sessions) + 1
  BY <1>1, <1>2, FiniteCounts, CountAdd
<1>6. sessions' = {x \in Tunnels : stream'[x] \in {"registered", "running"}}
  BY <1>1 DEF AdmissionInv, Typed, TypeOK
<1>7. handshakes' = Cardinality(Handshaking')  BY <1>1, <1>4 DEF AdmissionInv
<1>8. Cardinality(sessions') + handshakes' <= MaxTunnels
  BY <1>1, <1>5, FiniteCounts, LimitsAssumption DEF AdmissionInv
<1>9. ASSUME NEW i \in Instances
      PROVE  /\ instanceTunnels'[i] = Cardinality(TunnelsOf(i)')
             /\ instanceTunnels'[i] <= MaxTunnelsPerInstance
  <2>1. CASE i = InstanceOf[t]
    <3>1. t \notin TunnelsOf(i) /\ TunnelsOf(i)' = TunnelsOf(i) \cup {t}
      BY <1>1, <1>2, <2>1 DEF TunnelsOf
    <3>2. Cardinality(TunnelsOf(i)') = Cardinality(TunnelsOf(i)) + 1
      BY <3>1, FiniteCounts, CountAdd
    <3>3. instanceTunnels'[i] = instanceTunnels[i] + 1
      BY <1>1, <2>1 DEF Typed, TypeOK
    <3>4. instanceTunnels[i] = Cardinality(TunnelsOf(i))
      BY DEF AdmissionInv
    <3>5. instanceTunnels[i] < MaxTunnelsPerInstance  BY <1>1, <2>1
    <3>6. instanceTunnels[i] \in Int
      BY DEF Typed, TypeOK
    <3>7. QED  BY <3>2, <3>3, <3>4, <3>5, <3>6, LimitsAssumption
  <2>2. CASE i # InstanceOf[t]
    <3>1. TunnelsOf(i)' = TunnelsOf(i)  BY <1>1, <2>2 DEF TunnelsOf
    <3>2. instanceTunnels'[i] = instanceTunnels[i]
      BY <1>1, <2>2 DEF Typed, TypeOK
    <3>3. QED  BY <3>1, <3>2 DEF AdmissionInv
  <2>3. QED  BY <2>1, <2>2
<1>10. QED  BY <1>6, <1>7, <1>8, <1>9 DEF AdmissionInv

\* What a step outside Server.Connect leaves alone.
LEMMA AdmissionFrame ==
    ASSUME AdmissionInv, UNCHANGED <<handshakes, sessions, instanceTunnels, stream>>
    PROVE  AdmissionInv'
<1>1. Handshaking' = Handshaking  BY DEF Handshaking
<1>2. \A i : TunnelsOf(i)' = TunnelsOf(i)  BY DEF TunnelsOf
<1>3. QED  BY <1>1, <1>2 DEF AdmissionInv

\* Every step keeps the admission counters exact.
LEMMA AdmissionStep == Typed /\ AdmissionInv /\ [Next]_vars => AdmissionInv'
<1> SUFFICES ASSUME Typed, AdmissionInv, [Next]_vars PROVE AdmissionInv'
  OBVIOUS
<1> USE DEF registryVars, drainVars, flagVars, requestVars, callVars
<1>1. ASSUME NEW t \in Tunnels, ConnectNext(t) PROVE AdmissionInv'
  <2>1. CASE BeginHandshake(t)
    <3>1. /\ stream[t] = "new" /\ stream' = [stream EXCEPT ![t] = "handshake"]
          /\ handshakes' = handshakes + 1 /\ UNCHANGED <<sessions, instanceTunnels>>
          /\ Cardinality(sessions) + handshakes < MaxTunnels
      BY <2>1 DEF BeginHandshake, HasCapacity
    <3>2. Handshaking' = Handshaking \cup {t} /\ t \notin Handshaking
      BY <3>1 DEF Handshaking, Typed, TypeOK
    <3>3. Cardinality(Handshaking') = Cardinality(Handshaking) + 1
      BY <3>2, FiniteCounts, CountAdd
    <3>4. sessions' = {x \in Tunnels : stream'[x] \in {"registered", "running"}}
      BY <3>1 DEF AdmissionInv, Typed, TypeOK
    <3>5. handshakes' = Cardinality(Handshaking')  BY <3>1, <3>3 DEF AdmissionInv
    <3>6. Cardinality(sessions') + handshakes' <= MaxTunnels
      BY <3>1, FiniteCounts, LimitsAssumption DEF AdmissionInv
    <3>7. \A i : TunnelsOf(i)' = TunnelsOf(i)  BY <3>1 DEF TunnelsOf
    <3>8. QED  BY <3>1, <3>4, <3>5, <3>6, <3>7 DEF AdmissionInv
  <2>2. CASE BeginHandshakeRefused(t)
    <3>1. /\ stream[t] = "new" /\ stream' = [stream EXCEPT ![t] = "done"]
          /\ UNCHANGED <<handshakes, sessions, instanceTunnels>>
      BY <2>2 DEF BeginHandshakeRefused
    <3>2. Handshaking' = Handshaking  BY <3>1 DEF Handshaking, Typed, TypeOK
    <3>3. sessions' = {x \in Tunnels : stream'[x] \in {"registered", "running"}}
      BY <3>1 DEF AdmissionInv, Typed, TypeOK
    <3>4. \A i : TunnelsOf(i)' = TunnelsOf(i)  BY <3>1 DEF TunnelsOf
    <3>5. QED  BY <3>1, <3>2, <3>3, <3>4 DEF AdmissionInv
  <2>3. CASE ReleaseHandshake(t)
    <3>1. t \in Handshaking  BY <2>3 DEF ReleaseHandshake, Handshaking
    <3>2. handshakes >= 1
      <4>1. Cardinality(Handshaking) >= 1
        BY Zenon, <3>1, FiniteCounts, CountRemove
      <4>2. QED  BY <4>1 DEF AdmissionInv
    <3>3. handshakes' = handshakes - 1
      BY <2>3, <3>2 DEF ReleaseHandshake, Typed, TypeOK
    <3>4. QED  BY Zenon, <2>3, <3>3, HandshakeEnds DEF ReleaseHandshake
  <2>4. CASE RegisterFromHandshake(t)  BY <2>4, RegisterKeepsCounts
  <2>5. CASE RegisterFromHandshakeRefused(t)
    BY Zenon, <2>5, HandshakeEnds DEF RegisterFromHandshakeRefused
  <2>6. CASE Run(t)
    <3>1. /\ stream[t] = "registered" /\ stream' = [stream EXCEPT ![t] = "running"]
          /\ UNCHANGED <<handshakes, sessions, instanceTunnels>>
      BY <2>6 DEF Run
    <3>2. Handshaking' = Handshaking  BY <3>1 DEF Handshaking, Typed, TypeOK
    <3>3. sessions' = {x \in Tunnels : stream'[x] \in {"registered", "running"}}
      BY <3>1 DEF AdmissionInv, Typed, TypeOK
    <3>4. \A i : TunnelsOf(i)' = TunnelsOf(i)  BY <3>1 DEF TunnelsOf
    <3>5. QED  BY <3>1, <3>2, <3>3, <3>4 DEF AdmissionInv
  <2>7. CASE AbortBeforeRun(t)  BY Zenon, <2>7, UnregisterKeepsCounts DEF AbortBeforeRun
  <2>8. CASE RunEnds(t)  BY Zenon, <2>8, UnregisterKeepsCounts DEF RunEnds
  <2>9. QED
    BY <1>1, <2>1, <2>2, <2>3, <2>4, <2>5, <2>6, <2>7, <2>8 DEF ConnectNext
<1>2. ASSUME NEW t \in Tunnels, SessionNext(t) PROVE AdmissionInv'
  BY <1>2, AdmissionFrame, Zenon
     DEF SessionNext, SessionFails, PeerDrains, DrainDeadline, DrainSent
<1>3. CASE BeginDrain  BY <1>3, AdmissionFrame DEF BeginDrain
<1>4. CASE DrainProceeds
  BY <1>4, AdmissionFrame
     DEF DrainProceeds, DrainReturns, DrainTimesOut, InitiateDrain,
         InitiateDrainQueueFull, InitiateDrainSkipped
<1>5. ASSUME NEW c \in Calls, CallNext(c) PROVE AdmissionInv'
  BY Zenon, <1>5, AdmissionFrame
     DEF CallNext, SelectionOrder, SelectionOrderDraining, NoCandidateLeft,
         ReserveInstanceDraining, ReserveInstance, ReserveInstanceSaturated,
         StartRequest, StartRequestRefused, ReleaseRefused, EnqueueOpen,
         EnqueueOpenRefused, RollbackRequestBeforeOpen, RemoveRequest,
         ReleaseRolledBack, ReleaseRemoved, RequestCompletes, FinishRequest,
         ReleaseFinished
<1>6. CASE UNCHANGED vars  BY <1>6, AdmissionFrame DEF vars
<1>7. QED  BY <1>1, <1>2, <1>3, <1>4, <1>5, <1>6 DEF Next

\* They are exact in every reachable state.
LEMMA AlwaysAdmission == Spec => []AdmissionInv
<1>1. Init => AdmissionInv  BY AdmissionInit
<1>2. Typed /\ AdmissionInv /\ [Next]_vars => AdmissionInv'  BY AdmissionStep
<1>3. QED  BY <1>1, <1>2, AlwaysTyped, PTL DEF Spec

\* For every number of tunnels and every limit, the handshakes and sessions of
\* beginHandshake, registerFromHandshake and unregister stay within the quotas
\* and their counters are exact.
THEOREM AdmissionCorrect == Spec => []AdmissionBounded
<1>1. AdmissionInv => AdmissionBounded
  BY Zenon DEF AdmissionInv, AdmissionBounded, Handshaking, TunnelsOf
<1>2. QED  BY <1>1, AlwaysAdmission, PTL

----------------------------------------------------------------------------
(***************************************************************************)
(* The slots of an instance.                                               *)
(***************************************************************************)
Holders(i) == {c \in Calls : Holds(c, i)}

SlotsInv ==
    \A i \in Instances : /\ instanceActive[i] = Cardinality(Holders(i))
                         /\ instanceActive[i] <= MaxInFlightPerInstance

\* The calls that hold a slot of an instance are finitely many.
LEMMA FiniteHolders ==
    \A i : IsFiniteSet(Holders(i)) /\ Cardinality(Holders(i)) \in Nat
<1>1. \A i : Holders(i) \subseteq Calls  BY DEF Holders
<1>2. \A i : IsFiniteSet(Holders(i))  BY <1>1, SetsAssumption, FS_Subset
<1>3. QED  BY <1>2, FS_CardinalityType

\* A step that moves no call into or out of the slot phases.
LEMMA SlotsFrame ==
    ASSUME SlotsInv, UNCHANGED instanceActive,
           \A c \in Calls : \A i \in Instances : Holds(c, i)' <=> Holds(c, i)
    PROVE  SlotsInv'
<1>1. \A i \in Instances : Holders(i)' = Holders(i)  BY DEF Holders
<1>2. QED  BY <1>1 DEF SlotsInv

\* A step of one call that keeps its slot, or its lack of one.
LEMMA SlotsSameCall ==
    ASSUME Typed, SlotsInv, NEW c \in Calls, UNCHANGED <<instanceActive, at>>,
           NEW next, phase' = [phase EXCEPT ![c] = next],
           next \in SlotPhases <=> phase[c] \in SlotPhases
    PROVE  SlotsInv'
<1>1. phase \in [Calls -> SlotPhases \cup {"idle", "selecting", "done"}]
  BY DEF Typed, TypeOK
<1>2. \A d \in Calls : phase'[d] \in SlotPhases <=> phase[d] \in SlotPhases  BY <1>1
<1>3. \A d \in Calls : \A i \in Instances : Holds(d, i)' <=> Holds(d, i)
  BY <1>2 DEF Holds
<1>4. QED  BY <1>3, SlotsFrame

\* A call without a slot leaves for a phase without one.
LEMMA SlotsLeaveWithout ==
    ASSUME Typed, SlotsInv, NEW c \in Calls, UNCHANGED instanceActive,
           phase[c] \notin SlotPhases, NEW next, next \notin SlotPhases, NEW left,
           LeaveTunnel(c, next, left)
    PROVE  SlotsInv'
<1>1. /\ phase \in [Calls -> SlotPhases \cup {"idle", "selecting", "done"}]
      /\ at \in [Calls -> Tunnels \cup {NoTunnel}]
  BY DEF Typed, TypeOK
<1>2. /\ phase' = [phase EXCEPT ![c] = next] /\ at' = [at EXCEPT ![c] = NoTunnel]
  BY DEF LeaveTunnel
<1>3. ASSUME NEW d \in Calls, NEW i \in Instances
      PROVE  Holds(d, i)' <=> Holds(d, i)
  <2>1. CASE d = c
    <3>1. phase'[c] = next  BY <1>1, <1>2
    <3>2. QED  BY <2>1, <3>1 DEF Holds
  <2>2. CASE d # c
    <3>1. phase'[d] = phase[d] /\ at'[d] = at[d]  BY <1>1, <1>2, <2>2
    <3>2. QED  BY <3>1 DEF Holds
  <2>3. QED  BY <2>1, <2>2
<1>4. QED  BY <1>3, SlotsFrame

\* releaseInstance by a call that leaves: its slot is returned exactly once.
LEMMA SlotsRelease ==
    ASSUME Typed, SlotsInv, NEW c \in Calls, phase[c] \in SlotPhases,
           ReleaseInstance(InstanceOf[at[c]]),
           NEW next, next \notin SlotPhases, NEW left, LeaveTunnel(c, next, left)
    PROVE  SlotsInv'
<1>1. /\ phase \in [Calls -> SlotPhases \cup {"idle", "selecting", "done"}]
      /\ at \in [Calls -> Tunnels \cup {NoTunnel}]
      /\ instanceActive \in [Instances -> Nat]
      /\ InstanceOf[at[c]] \in Instances
  BY SetsAssumption DEF Typed, TypeOK, CallHasTunnel
<1>2. /\ phase' = [phase EXCEPT ![c] = next] /\ at' = [at EXCEPT ![c] = NoTunnel]
  BY DEF LeaveTunnel
<1>3. phase'[c] = next /\ \A d \in Calls \ {c} : phase'[d] = phase[d] /\ at'[d] = at[d]
  BY <1>1, <1>2
<1>4. ASSUME NEW i \in Instances
      PROVE  /\ instanceActive'[i] = Cardinality(Holders(i)')
             /\ instanceActive'[i] <= MaxInFlightPerInstance
  <2>1. CASE i = InstanceOf[at[c]]
    <3>1. c \in Holders(i)  BY <2>1 DEF Holders, Holds
    <3>2. Holders(i)' = Holders(i) \ {c}  BY <1>3, <2>1 DEF Holders, Holds
    <3>3. /\ Cardinality(Holders(i)') = Cardinality(Holders(i)) - 1
          /\ Cardinality(Holders(i)) >= 1
      BY <3>1, <3>2, FiniteHolders, CountRemove
    <3>4. /\ instanceActive[i] \in Nat /\ instanceActive[i] = Cardinality(Holders(i))
          /\ instanceActive[i] <= MaxInFlightPerInstance
      BY <1>1 DEF SlotsInv
    <3>5. instanceActive[i] >= 1  BY <3>3, <3>4
    <3>6. instanceActive'[i] = instanceActive[i] - 1
      BY <1>1, <2>1, <3>5 DEF ReleaseInstance
    <3>7. QED  BY <3>3, <3>4, <3>6, LimitsAssumption
  <2>2. CASE i # InstanceOf[at[c]]
    <3>1. Holders(i)' = Holders(i)  BY <1>3, <2>2 DEF Holders, Holds
    <3>2. instanceActive'[i] = instanceActive[i]
      BY <1>1, <2>2 DEF ReleaseInstance
    <3>3. QED  BY <3>1, <3>2 DEF SlotsInv
  <2>3. QED  BY <2>1, <2>2
<1>5. QED  BY <1>4 DEF SlotsInv

\* reserveInstance takes one slot of an instance that has one left.
LEMMA SlotsReserve ==
    ASSUME Typed, SlotsInv, NEW c \in Calls, NEW t \in Tunnels, ReserveInstance(c, t)
    PROVE  SlotsInv'
<1>1. /\ phase \in [Calls -> SlotPhases \cup {"idle", "selecting", "done"}]
      /\ at \in [Calls -> Tunnels \cup {NoTunnel}]
      /\ instanceActive \in [Instances -> Nat]
      /\ InstanceOf[t] \in Instances
  BY SetsAssumption DEF Typed, TypeOK
<1>2. /\ phase[c] = "selecting"
      /\ instanceActive[InstanceOf[t]] < MaxInFlightPerInstance
      /\ instanceActive' = [instanceActive EXCEPT ![InstanceOf[t]] = @ + 1]
      /\ phase' = [phase EXCEPT ![c] = "reserved"] /\ at' = [at EXCEPT ![c] = t]
  BY Zenon DEF ReserveInstance
<1>3. /\ phase'[c] = "reserved" /\ at'[c] = t
      /\ \A d \in Calls \ {c} : phase'[d] = phase[d] /\ at'[d] = at[d]
  BY <1>1, <1>2
<1>4. "reserved" \in SlotPhases /\ phase[c] \notin SlotPhases  BY <1>2 DEF SlotPhases
<1>5. ASSUME NEW i \in Instances
      PROVE  /\ instanceActive'[i] = Cardinality(Holders(i)')
             /\ instanceActive'[i] <= MaxInFlightPerInstance
  <2>1. CASE i = InstanceOf[t]
    <3>1. c \notin Holders(i)  BY <1>4 DEF Holders, Holds
    <3>2. Holders(i)' = Holders(i) \cup {c}  BY <1>3, <1>4, <2>1 DEF Holders, Holds
    <3>3. Cardinality(Holders(i)') = Cardinality(Holders(i)) + 1
      BY <3>1, <3>2, FiniteHolders, CountAdd
    <3>4. instanceActive'[i] = instanceActive[i] + 1  BY <1>1, <1>2, <2>1
    <3>5. /\ instanceActive[i] \in Nat /\ instanceActive[i] = Cardinality(Holders(i))
          /\ instanceActive[i] < MaxInFlightPerInstance
      BY <1>1, <1>2, <2>1 DEF SlotsInv
    <3>6. QED  BY <3>3, <3>4, <3>5, LimitsAssumption
  <2>2. CASE i # InstanceOf[t]
    <3>1. Holders(i)' = Holders(i)  BY <1>3, <1>4, <2>2 DEF Holders, Holds
    <3>2. instanceActive'[i] = instanceActive[i]  BY <1>1, <1>2, <2>2
    <3>3. QED  BY <3>1, <3>2 DEF SlotsInv
  <2>3. QED  BY <2>1, <2>2
<1>6. QED  BY <1>5 DEF SlotsInv

\* Every step keeps the slot counters exact.
LEMMA SlotsStep == Typed /\ SlotsInv /\ [Next]_vars => SlotsInv'
<1> SUFFICES ASSUME Typed, SlotsInv, [Next]_vars PROVE SlotsInv'
  OBVIOUS
<1> USE DEF registryVars, drainVars, flagVars, requestVars, callVars
<1>0. UNCHANGED <<instanceActive, phase, at>> => SlotsInv'
  BY SlotsFrame DEF Holds
<1>1. ASSUME NEW t \in Tunnels, ConnectNext(t) PROVE SlotsInv'
  BY <1>0, <1>1, Zenon
     DEF ConnectNext, BeginHandshake, BeginHandshakeRefused, ReleaseHandshake,
         RegisterFromHandshake, RegisterFromHandshakeRefused, Run, AbortBeforeRun,
         RunEnds, Unregister
<1>2. ASSUME NEW t \in Tunnels, SessionNext(t) PROVE SlotsInv'
  BY <1>0, <1>2, Zenon DEF SessionNext, SessionFails, PeerDrains, DrainDeadline, DrainSent
<1>3. CASE BeginDrain  BY <1>0, <1>3 DEF BeginDrain
<1>4. CASE DrainProceeds
  BY <1>0, <1>4, Zenon
     DEF DrainProceeds, DrainReturns, DrainTimesOut, InitiateDrain,
         InitiateDrainQueueFull, InitiateDrainSkipped
<1>5. ASSUME NEW c \in Calls, CallNext(c) PROVE SlotsInv'
  <2>0. /\ \A p \in {"reserved", "refused", "started", "rollback", "rolledBack",
                     "open", "finished"} : p \in SlotPhases
        /\ \A p \in {"idle", "selecting", "done"} : p \notin SlotPhases
    BY DEF SlotPhases
  <2>1. CASE SelectionOrder(c)
    BY Zenon, <2>0, <2>1, SlotsSameCall DEF SelectionOrder
  <2>2. CASE SelectionOrderDraining(c)
    BY <2>0, <2>2, SlotsLeaveWithout DEF SelectionOrderDraining, Return
  <2>3. CASE NoCandidateLeft(c)
    BY <2>0, <2>3, SlotsLeaveWithout, Zenon DEF NoCandidateLeft, Return
  <2>4. CASE ReserveInstanceDraining(c)
    BY <2>0, <2>4, SlotsLeaveWithout DEF ReserveInstanceDraining, Return
  <2>5. ASSUME NEW t \in Tunnels, ReserveInstance(c, t) PROVE SlotsInv'
    BY <2>5, SlotsReserve
  <2>6. ASSUME NEW t \in Tunnels, ReserveInstanceSaturated(c, t) PROVE SlotsInv'
    BY <1>0, <2>6 DEF ReserveInstanceSaturated
  <2>7. CASE StartRequest(c)  BY Zenon, <2>0, <2>7, SlotsSameCall DEF StartRequest
  <2>8. CASE StartRequestRefused(c)
    BY Zenon, <2>0, <2>8, SlotsSameCall DEF StartRequestRefused
  <2>9. CASE ReleaseRefused(c)
    BY <2>0, <2>9, SlotsRelease, Zenon DEF ReleaseRefused, NextCandidate
  <2>10. CASE EnqueueOpen(c)  BY Zenon, <2>0, <2>10, SlotsSameCall DEF EnqueueOpen
  <2>11. CASE EnqueueOpenRefused(c)
    BY Zenon, <2>0, <2>11, SlotsSameCall DEF EnqueueOpenRefused
  <2>12. CASE RollbackRequestBeforeOpen(c)
    BY Zenon, <2>0, <2>12, SlotsSameCall DEF RollbackRequestBeforeOpen, RemoveRequest
  <2>13. CASE ReleaseRolledBack(c)
    <3>1. phase[c] \in SlotPhases /\ ReleaseInstance(InstanceOf[at[c]])
      BY <2>0, <2>13, Zenon DEF ReleaseRolledBack, ReleaseRemoved
    <3>2. CASE Return(c)  BY <2>0, <3>1, <3>2, SlotsRelease DEF Return
    <3>3. CASE NextCandidate(c)  BY <2>0, <3>1, <3>3, SlotsRelease DEF NextCandidate
    <3>4. QED  BY <2>13, <3>2, <3>3 DEF ReleaseRolledBack
  <2>14. CASE RequestCompletes(c)  BY <1>0, <2>14 DEF RequestCompletes
  <2>15. CASE FinishRequest(c)
    BY Zenon, <2>0, <2>15, SlotsSameCall DEF FinishRequest, RemoveRequest
  <2>16. CASE ReleaseFinished(c)
    BY <2>0, <2>16, SlotsRelease DEF ReleaseFinished, ReleaseRemoved, Return
  <2>17. QED
    BY <1>5, <2>1, <2>2, <2>3, <2>4, <2>5, <2>6, <2>7, <2>8, <2>9, <2>10, <2>11,
       <2>12, <2>13, <2>14, <2>15, <2>16 DEF CallNext
<1>6. CASE UNCHANGED vars  BY <1>0, <1>6 DEF vars
<1>7. QED  BY <1>1, <1>2, <1>3, <1>4, <1>5, <1>6 DEF Next

\* reserveInstance and releaseInstance are exact for every number of calls,
\* tunnels and instances: no slot is leaked, returned twice or given out beyond
\* the limit, whatever the tunnels of the instance do meanwhile.
THEOREM SlotsCorrect == Spec => []SlotsConserved
<1>1. Init => SlotsInv
  <2> SUFFICES ASSUME Init PROVE SlotsInv
    OBVIOUS
  <2>1. \A i : Holders(i) = {}  BY DEF Init, Holders, Holds, SlotPhases
  <2>2. \A i \in Instances : instanceActive[i] = 0  BY DEF Init
  <2>3. QED  BY <2>1, <2>2, FS_EmptySet, LimitsAssumption DEF SlotsInv
<1>2. Typed /\ SlotsInv /\ [Next]_vars => SlotsInv'  BY SlotsStep
<1>3. SlotsInv => SlotsConserved  BY DEF SlotsInv, SlotsConserved, Holders
<1>4. QED  BY <1>1, <1>2, <1>3, AlwaysTyped, PTL DEF Spec

----------------------------------------------------------------------------
(* Requests and routes of a session, and Drain. *)

OnRoute(t, r) == {c \in requests[t] : RouteOf[c] = r}

RequestsInv ==
    \A t \in Tunnels :
        /\ requests[t] = {c \in Calls : phase[c] \in RequestPhases /\ at[c] = t}
        /\ Cardinality(requests[t]) <= MaxInFlightRequests
        /\ \A r \in Routes : /\ routeActive[t][r] = Cardinality(OnRoute(t, r))
                             /\ routeActive[t][r] <= RouteMaxInFlight[r]

\* The requests of a session and of a route are finitely many.
LEMMA FiniteRequests ==
    ASSUME Typed
    PROVE  \A t \in Tunnels :
              /\ IsFiniteSet(requests[t]) /\ Cardinality(requests[t]) \in Nat
              /\ \A r : IsFiniteSet(OnRoute(t, r)) /\ Cardinality(OnRoute(t, r)) \in Nat
<1>1. \A t \in Tunnels : requests[t] \subseteq Calls  BY DEF Typed, TypeOK
<1>2. \A t \in Tunnels : IsFiniteSet(requests[t])  BY <1>1, SetsAssumption, FS_Subset
<1>3. \A t : \A r : OnRoute(t, r) \subseteq requests[t]  BY DEF OnRoute
<1>4. \A t \in Tunnels : \A r : IsFiniteSet(OnRoute(t, r))  BY <1>2, <1>3, FS_Subset
<1>5. QED  BY <1>2, <1>4, FS_CardinalityType

\* A step that registers and removes no request.
LEMMA RequestsFrame ==
    ASSUME RequestsInv, UNCHANGED requestVars,
           \A c \in Calls : /\ phase'[c] \in RequestPhases <=> phase[c] \in RequestPhases
                            /\ phase[c] \in RequestPhases => at'[c] = at[c]
    PROVE  RequestsInv'
<1> USE DEF requestVars
<1>1. \A t : {c \in Calls : phase'[c] \in RequestPhases /\ at'[c] = t}
           = {c \in Calls : phase[c] \in RequestPhases /\ at[c] = t}
  OBVIOUS
<1>2. \A t : \A r : OnRoute(t, r)' = OnRoute(t, r)  BY DEF OnRoute
<1>3. QED  BY <1>1, <1>2 DEF RequestsInv

\* A call that changes phase without touching its request keeps the counts.
LEMMA RequestsSameCall ==
    ASSUME Typed, RequestsInv, NEW c \in Calls, UNCHANGED <<requestVars, at>>,
           NEW next, phase' = [phase EXCEPT ![c] = next],
           next \in RequestPhases <=> phase[c] \in RequestPhases
    PROVE  RequestsInv'
<1>1. phase \in [Calls -> SlotPhases \cup {"idle", "selecting", "done"}]
  BY DEF Typed, TypeOK
<1>2. \A d \in Calls : phase'[d] \in RequestPhases <=> phase[d] \in RequestPhases
  BY <1>1
<1>3. QED  BY <1>2, RequestsFrame

\* So does a call that leaves a tunnel on which it has no request.
LEMMA RequestsLeaveWithout ==
    ASSUME Typed, RequestsInv, NEW c \in Calls, UNCHANGED requestVars,
           phase[c] \notin RequestPhases, NEW next, next \notin RequestPhases, NEW left,
           LeaveTunnel(c, next, left)
    PROVE  RequestsInv'
<1>1. /\ phase \in [Calls -> SlotPhases \cup {"idle", "selecting", "done"}]
      /\ at \in [Calls -> Tunnels \cup {NoTunnel}]
  BY DEF Typed, TypeOK
<1>2. /\ phase' = [phase EXCEPT ![c] = next] /\ at' = [at EXCEPT ![c] = NoTunnel]
  BY DEF LeaveTunnel
<1>3. phase'[c] = next /\ \A d \in Calls \ {c} : phase'[d] = phase[d] /\ at'[d] = at[d]
  BY <1>1, <1>2
<1>4. QED  BY <1>3, RequestsFrame

\* startRequest adds one request to a session and to its route, within both limits.
LEMMA RequestsStart ==
    ASSUME Typed, RequestsInv, NEW c \in Calls, StartRequest(c)
    PROVE  RequestsInv'
<1> DEFINE t0 == at[c]
           r0 == RouteOf[c]
<1>1. /\ phase \in [Calls -> SlotPhases \cup {"idle", "selecting", "done"}]
      /\ requests \in [Tunnels -> SUBSET Calls]
      /\ routeActive \in [Tunnels -> [Routes -> Int]]
  BY DEF Typed, TypeOK
<1>2. /\ phase[c] = "reserved" /\ phase' = [phase EXCEPT ![c] = "started"]
      /\ UNCHANGED at
      /\ requests' = [requests EXCEPT ![t0] = @ \cup {c}]
      /\ routeActive' = [routeActive EXCEPT ![t0][r0] = @ + 1]
      /\ Cardinality(requests[t0]) < MaxInFlightRequests
      /\ routeActive[t0][r0] < RouteMaxInFlight[r0]
  BY DEF StartRequest, CanStart
<1>3. t0 \in Tunnels /\ r0 \in Routes
  BY <1>2, SetsAssumption DEF Typed, CallHasTunnel, SlotPhases
<1>4. /\ phase'[c] = "started" /\ \A d \in Calls \ {c} : phase'[d] = phase[d]
      /\ "started" \in RequestPhases /\ phase[c] \notin RequestPhases
  BY <1>1, <1>2 DEF RequestPhases
<1>5. /\ requests'[t0] = requests[t0] \cup {c}
      /\ \A t \in Tunnels \ {t0} : requests'[t] = requests[t]
  BY <1>1, <1>2, <1>3
<1>6. c \notin requests[t0]  BY <1>3, <1>4 DEF RequestsInv
<1>7. ASSUME NEW t \in Tunnels
      PROVE  /\ requests'[t] = {d \in Calls : phase'[d] \in RequestPhases /\ at'[d] = t}
             /\ Cardinality(requests'[t]) <= MaxInFlightRequests
  <2>1. CASE t = t0
    <3>1. requests'[t] = {d \in Calls : phase'[d] \in RequestPhases /\ at'[d] = t}
      BY <1>2, <1>4, <1>5, <2>1 DEF RequestsInv
    <3>2. Cardinality(requests'[t0]) = Cardinality(requests[t0]) + 1
      BY <1>3, <1>5, <1>6, FiniteRequests, CountAdd
    <3>3. Cardinality(requests[t0]) \in Nat  BY <1>3, FiniteRequests
    <3>4. QED  BY <1>2, <2>1, <3>1, <3>2, <3>3, LimitsAssumption
  <2>2. CASE t # t0
    <3>1. requests'[t] = {d \in Calls : phase'[d] \in RequestPhases /\ at'[d] = t}
      BY <1>2, <1>4, <1>5, <2>2 DEF RequestsInv
    <3>2. QED  BY Zenon, <1>5, <2>2, <3>1 DEF RequestsInv
  <2>3. QED  BY <2>1, <2>2
<1>8. ASSUME NEW t \in Tunnels, NEW r \in Routes
      PROVE  /\ routeActive'[t][r] = Cardinality(OnRoute(t, r)')
             /\ routeActive'[t][r] <= RouteMaxInFlight[r]
  <2>1. CASE t = t0 /\ r = r0
    <3>1. c \notin OnRoute(t, r) /\ OnRoute(t, r)' = OnRoute(t, r) \cup {c}
      BY <1>5, <1>6, <2>1 DEF OnRoute
    <3>2. Cardinality(OnRoute(t, r)') = Cardinality(OnRoute(t, r)) + 1
      BY <3>1, FiniteRequests, CountAdd
    <3>3. routeActive'[t][r] = routeActive[t][r] + 1  BY <1>1, <1>2, <1>3, <2>1
    <3>4. routeActive[t][r] \in Int /\ RouteMaxInFlight[r] \in Int
      BY <1>1, LimitsAssumption
    <3>5. QED  BY <1>2, <2>1, <3>2, <3>3, <3>4 DEF RequestsInv
  <2>2. CASE ~(t = t0 /\ r = r0)
    <3>1. OnRoute(t, r)' = OnRoute(t, r)  BY <1>5, <2>2 DEF OnRoute
    <3>2. routeActive'[t][r] = routeActive[t][r]  BY <1>1, <1>2, <1>3, <2>2
    <3>3. QED  BY <3>1, <3>2 DEF RequestsInv
  <2>3. QED  BY <2>1, <2>2
<1>9. QED  BY <1>7, <1>8 DEF RequestsInv

\* removeRequest takes one away from both.
LEMMA RequestsRemove ==
    ASSUME Typed, RequestsInv, NEW c \in Calls, phase[c] \in RequestPhases,
           NEW next \in {"rolledBack", "finished"}, RemoveRequest(c, next)
    PROVE  RequestsInv'
<1> DEFINE t0 == at[c]
           r0 == RouteOf[c]
<1>1. /\ phase \in [Calls -> SlotPhases \cup {"idle", "selecting", "done"}]
      /\ requests \in [Tunnels -> SUBSET Calls]
      /\ routeActive \in [Tunnels -> [Routes -> Int]]
  BY DEF Typed, TypeOK
<1>2. /\ phase' = [phase EXCEPT ![c] = next]
      /\ UNCHANGED at
      /\ requests' = [requests EXCEPT ![t0] = @ \ {c}]
      /\ routeActive' = [routeActive EXCEPT ![t0][r0] = @ - 1]
  BY DEF RemoveRequest
<1>3. t0 \in Tunnels /\ r0 \in Routes
  BY SetsAssumption DEF Typed, CallHasTunnel, SlotPhases, RequestPhases
<1>4. /\ phase'[c] = next /\ \A d \in Calls \ {c} : phase'[d] = phase[d]
      /\ next \notin RequestPhases
  BY <1>1, <1>2 DEF RequestPhases
<1>5. /\ requests'[t0] = requests[t0] \ {c}
      /\ \A t \in Tunnels \ {t0} : requests'[t] = requests[t]
  BY <1>1, <1>2, <1>3
<1>6. c \in requests[t0]  BY <1>3 DEF RequestsInv
<1>7. ASSUME NEW t \in Tunnels
      PROVE  /\ requests'[t] = {d \in Calls : phase'[d] \in RequestPhases /\ at'[d] = t}
             /\ Cardinality(requests'[t]) <= MaxInFlightRequests
  <2>1. CASE t = t0
    <3>1. requests'[t] = {d \in Calls : phase'[d] \in RequestPhases /\ at'[d] = t}
      BY <1>2, <1>4, <1>5, <2>1 DEF RequestsInv
    <3>2. Cardinality(requests'[t0]) = Cardinality(requests[t0]) - 1
      BY <1>3, <1>5, <1>6, FiniteRequests, CountRemove
    <3>3. /\ Cardinality(requests[t0]) \in Nat
          /\ Cardinality(requests[t0]) <= MaxInFlightRequests
      BY <1>3, FiniteRequests DEF RequestsInv
    <3>4. QED  BY <2>1, <3>1, <3>2, <3>3, LimitsAssumption
  <2>2. CASE t # t0
    <3>1. requests'[t] = {d \in Calls : phase'[d] \in RequestPhases /\ at'[d] = t}
      BY <1>2, <1>4, <1>5, <2>2 DEF RequestsInv
    <3>2. QED  BY Zenon, <1>5, <2>2, <3>1 DEF RequestsInv
  <2>3. QED  BY <2>1, <2>2
<1>8. ASSUME NEW t \in Tunnels, NEW r \in Routes
      PROVE  /\ routeActive'[t][r] = Cardinality(OnRoute(t, r)')
             /\ routeActive'[t][r] <= RouteMaxInFlight[r]
  <2>1. CASE t = t0 /\ r = r0
    <3>1. c \in OnRoute(t, r) /\ OnRoute(t, r)' = OnRoute(t, r) \ {c}
      BY <1>5, <1>6, <2>1 DEF OnRoute
    <3>2. Cardinality(OnRoute(t, r)') = Cardinality(OnRoute(t, r)) - 1
      BY <3>1, FiniteRequests, CountRemove
    <3>3. routeActive'[t][r] = routeActive[t][r] - 1  BY <1>1, <1>2, <1>3, <2>1
    <3>4. routeActive[t][r] \in Int /\ RouteMaxInFlight[r] \in Int
      BY <1>1, LimitsAssumption
    <3>5. QED  BY <3>2, <3>3, <3>4 DEF RequestsInv
  <2>2. CASE ~(t = t0 /\ r = r0)
    <3>1. OnRoute(t, r)' = OnRoute(t, r)  BY <1>5, <2>2 DEF OnRoute
    <3>2. routeActive'[t][r] = routeActive[t][r]  BY <1>1, <1>2, <1>3, <2>2
    <3>3. QED  BY <3>1, <3>2 DEF RequestsInv
  <2>3. QED  BY <2>1, <2>2
<1>9. QED  BY <1>7, <1>8 DEF RequestsInv

\* Every step keeps the requests map and the route counters in agreement.
LEMMA RequestsStep == Typed /\ RequestsInv /\ [Next]_vars => RequestsInv'
<1> SUFFICES ASSUME Typed, RequestsInv, [Next]_vars PROVE RequestsInv'
  OBVIOUS
<1> USE DEF registryVars, drainVars, flagVars, callVars
<1>0. UNCHANGED <<requestVars, phase, at>> => RequestsInv'  BY RequestsFrame
<1>1. ASSUME NEW t \in Tunnels, ConnectNext(t) PROVE RequestsInv'
  BY <1>0, <1>1
     DEF ConnectNext, BeginHandshake, BeginHandshakeRefused, ReleaseHandshake,
         RegisterFromHandshake, RegisterFromHandshakeRefused, Run, AbortBeforeRun,
         RunEnds
<1>2. ASSUME NEW t \in Tunnels, SessionNext(t) PROVE RequestsInv'
  BY <1>0, <1>2, Zenon DEF SessionNext, SessionFails, PeerDrains, DrainDeadline, DrainSent
<1>3. CASE BeginDrain  BY <1>0, <1>3 DEF BeginDrain
<1>4. CASE DrainProceeds
  BY <1>0, <1>4
     DEF DrainProceeds, DrainReturns, DrainTimesOut, InitiateDrain,
         InitiateDrainQueueFull, InitiateDrainSkipped
<1>5. ASSUME NEW c \in Calls, CallNext(c) PROVE RequestsInv'
  <2>0. /\ \A p \in {"started", "rollback", "open"} : p \in RequestPhases
        /\ \A p \in {"idle", "selecting", "reserved", "refused", "rolledBack",
                     "finished", "done"} : p \notin RequestPhases
    BY DEF RequestPhases
  <2>1. CASE SelectionOrder(c)  BY Zenon, <2>0, <2>1, RequestsSameCall DEF SelectionOrder
  <2>2. CASE SelectionOrderDraining(c)
    BY <2>0, <2>2, RequestsLeaveWithout DEF SelectionOrderDraining, Return
  <2>3. CASE NoCandidateLeft(c)
    BY <2>0, <2>3, RequestsLeaveWithout DEF NoCandidateLeft, Return
  <2>4. CASE ReserveInstanceDraining(c)
    BY <2>0, <2>4, RequestsLeaveWithout DEF ReserveInstanceDraining, Return
  <2>5. ASSUME NEW t \in Tunnels, ReserveInstance(c, t) PROVE RequestsInv'
    <3>1. /\ phase \in [Calls -> SlotPhases \cup {"idle", "selecting", "done"}]
          /\ at \in [Calls -> Tunnels \cup {NoTunnel}]
      BY DEF Typed, TypeOK
    <3>2. /\ phase[c] = "selecting" /\ phase' = [phase EXCEPT ![c] = "reserved"]
          /\ at' = [at EXCEPT ![c] = t] /\ UNCHANGED requestVars
      BY <2>5 DEF ReserveInstance
    <3>3. /\ phase'[c] = "reserved"
          /\ \A d \in Calls \ {c} : phase'[d] = phase[d] /\ at'[d] = at[d]
      BY <3>1, <3>2
    <3>4. QED  BY <2>0, <3>2, <3>3, RequestsFrame
  <2>6. ASSUME NEW t \in Tunnels, ReserveInstanceSaturated(c, t) PROVE RequestsInv'
    BY <1>0, <2>6 DEF ReserveInstanceSaturated
  <2>7. CASE StartRequest(c)  BY <2>7, RequestsStart
  <2>8. CASE StartRequestRefused(c)
    BY Zenon, <2>0, <2>8, RequestsSameCall DEF StartRequestRefused
  <2>9. CASE ReleaseRefused(c)
    BY <2>0, <2>9, RequestsLeaveWithout DEF ReleaseRefused, NextCandidate
  <2>10. CASE EnqueueOpen(c)  BY Zenon, <2>0, <2>10, RequestsSameCall DEF EnqueueOpen
  <2>11. CASE EnqueueOpenRefused(c)
    BY Zenon, <2>0, <2>11, RequestsSameCall DEF EnqueueOpenRefused
  <2>12. CASE RollbackRequestBeforeOpen(c)
    BY <2>0, <2>12, RequestsRemove DEF RollbackRequestBeforeOpen
  <2>13. CASE ReleaseRolledBack(c)
    <3>1. phase[c] \notin RequestPhases /\ UNCHANGED requestVars
      BY <2>0, <2>13 DEF ReleaseRolledBack, ReleaseRemoved
    <3>2. CASE Return(c)  BY <2>0, <3>1, <3>2, RequestsLeaveWithout DEF Return
    <3>3. CASE NextCandidate(c)
      BY <2>0, <3>1, <3>3, RequestsLeaveWithout DEF NextCandidate
    <3>4. QED  BY <2>13, <3>2, <3>3 DEF ReleaseRolledBack
  <2>14. CASE RequestCompletes(c)  BY <1>0, <2>14 DEF RequestCompletes
  <2>15. CASE FinishRequest(c)  BY <2>0, <2>15, RequestsRemove DEF FinishRequest
  <2>16. CASE ReleaseFinished(c)
    BY <2>0, <2>16, RequestsLeaveWithout DEF ReleaseFinished, ReleaseRemoved, Return
  <2>17. QED
    BY <1>5, <2>1, <2>2, <2>3, <2>4, <2>5, <2>6, <2>7, <2>8, <2>9, <2>10, <2>11,
       <2>12, <2>13, <2>14, <2>15, <2>16 DEF CallNext
<1>6. CASE UNCHANGED vars  BY <1>0, <1>6 DEF vars
<1>7. QED  BY <1>1, <1>2, <1>3, <1>4, <1>5, <1>6 DEF Next

\* They agree when there are no sessions.
LEMMA RequestsInit == Init => RequestsInv
<1> SUFFICES ASSUME Init, NEW t \in Tunnels
             PROVE  /\ requests[t] = {c \in Calls : phase[c] \in RequestPhases /\ at[c] = t}
                    /\ Cardinality(requests[t]) <= MaxInFlightRequests
                    /\ \A r \in Routes : /\ routeActive[t][r] = Cardinality(OnRoute(t, r))
                                         /\ routeActive[t][r] <= RouteMaxInFlight[r]
  BY DEF RequestsInv
<1>1. requests[t] = {}  BY DEF Init
<1>2. {c \in Calls : phase[c] \in RequestPhases /\ at[c] = t} = {}
  BY DEF Init, RequestPhases
<1>3. \A r : OnRoute(t, r) = {}  BY <1>1 DEF OnRoute
<1>4. \A r \in Routes : routeActive[t][r] = 0  BY DEF Init
<1>5. \A r \in Routes : RouteMaxInFlight[r] \in 1 .. MaxInFlightRequests
  BY LimitsAssumption
<1>6. QED  BY <1>1, <1>2, <1>3, <1>4, <1>5, FS_EmptySet, LimitsAssumption

\* They agree in every reachable state.
LEMMA AlwaysRequests == Spec => []RequestsInv
<1>1. Init => RequestsInv  BY RequestsInit
<1>2. Typed /\ RequestsInv /\ [Next]_vars => RequestsInv'  BY RequestsStep
<1>3. QED  BY <1>1, <1>2, AlwaysTyped, PTL DEF Spec

\* startRequest and removeRequest keep a session's map and route counters exact
\* and within the negotiated and the route's limit, for every number of calls.
THEOREM RequestsCorrect == Spec => []RequestsBounded
<1>1. RequestsInv => RequestsBounded  BY DEF RequestsInv, RequestsBounded, OnRoute
<1>2. QED  BY <1>1, AlwaysRequests, PTL

----------------------------------------------------------------------------
(***************************************************************************)
(* No replay: NoReplay is inductive together with the types.               *)
(***************************************************************************)

\* A step of one call that queues no Open.
LEMMA ReplayFrame ==
    ASSUME Typed, NoReplay, NEW c \in Calls, UNCHANGED opened, NEW next,
           phase' = [phase EXCEPT ![c] = next],
           phase[c] \in {"open", "finished", "done"}
              => next \in {"open", "finished", "done"}
    PROVE  NoReplay'
  BY DEF Typed, TypeOK, NoReplay

\* Every step keeps NoReplay: after Open was queued a call goes back to selecting
\* in no case.
LEMMA ReplayStep == Typed /\ NoReplay /\ [Next]_vars => NoReplay'
<1> SUFFICES ASSUME Typed, NoReplay, [Next]_vars PROVE NoReplay'
  OBVIOUS
<1> USE DEF registryVars, drainVars, flagVars, requestVars, callVars
<1>0. UNCHANGED <<opened, phase>> => NoReplay'  BY DEF NoReplay
<1>1. ASSUME NEW t \in Tunnels, ConnectNext(t) PROVE NoReplay'
  BY <1>0, <1>1, Zenon
     DEF ConnectNext, BeginHandshake, BeginHandshakeRefused, ReleaseHandshake,
         RegisterFromHandshake, RegisterFromHandshakeRefused, Run, AbortBeforeRun,
         RunEnds
<1>2. ASSUME NEW t \in Tunnels, SessionNext(t) PROVE NoReplay'
  BY <1>0, <1>2, Zenon DEF SessionNext, SessionFails, PeerDrains, DrainDeadline, DrainSent
<1>3. CASE BeginDrain  BY <1>0, <1>3 DEF BeginDrain
<1>4. CASE DrainProceeds
  BY <1>0, <1>4
     DEF DrainProceeds, DrainReturns, DrainTimesOut, InitiateDrain,
         InitiateDrainQueueFull, InitiateDrainSkipped
<1>5. ASSUME NEW c \in Calls, CallNext(c) PROVE NoReplay'
  <2> USE ReplayFrame
  <2>1. CASE SelectionOrder(c)  BY Zenon, <2>1 DEF SelectionOrder
  <2>2. CASE SelectionOrderDraining(c)
    BY Zenon, <2>2 DEF SelectionOrderDraining, Return, LeaveTunnel
  <2>3. CASE NoCandidateLeft(c)  BY Zenon, <2>3 DEF NoCandidateLeft, Return, LeaveTunnel
  <2>4. CASE ReserveInstanceDraining(c)
    BY Zenon, <2>4 DEF ReserveInstanceDraining, Return, LeaveTunnel
  <2>5. ASSUME NEW t \in Tunnels, ReserveInstance(c, t) PROVE NoReplay'
    BY Zenon, <2>5 DEF ReserveInstance
  <2>6. ASSUME NEW t \in Tunnels, ReserveInstanceSaturated(c, t) PROVE NoReplay'
    BY <1>0, <2>6, Zenon DEF ReserveInstanceSaturated
  <2>7. CASE StartRequest(c)  BY Zenon, <2>7 DEF StartRequest
  <2>8. CASE StartRequestRefused(c)  BY Zenon, <2>8 DEF StartRequestRefused
  <2>9. CASE ReleaseRefused(c)
    BY Zenon, <2>9 DEF ReleaseRefused, NextCandidate, LeaveTunnel
  <2>10. CASE EnqueueOpen(c)
    <3>1. /\ phase[c] = "started" /\ phase' = [phase EXCEPT ![c] = "open"]
          /\ opened' = [opened EXCEPT ![c] = @ + 1]
      BY <2>10 DEF EnqueueOpen
    <3>2. opened[c] = 0  BY <3>1 DEF NoReplay, Typed, TypeOK
    <3>3. QED  BY <3>1, <3>2 DEF NoReplay, Typed, TypeOK
  <2>11. CASE EnqueueOpenRefused(c)  BY Zenon, <2>11 DEF EnqueueOpenRefused
  <2>12. CASE RollbackRequestBeforeOpen(c)
    BY Zenon, <2>12 DEF RollbackRequestBeforeOpen, RemoveRequest
  <2>13. CASE ReleaseRolledBack(c)
    BY <2>13 DEF ReleaseRolledBack, Return, NextCandidate, LeaveTunnel
  <2>14. CASE RequestCompletes(c)  BY <1>0, <2>14 DEF RequestCompletes
  <2>15. CASE FinishRequest(c)  BY Zenon, <2>15 DEF FinishRequest, RemoveRequest
  <2>16. CASE ReleaseFinished(c)  BY Zenon, <2>16 DEF ReleaseFinished, Return, LeaveTunnel
  <2>17. QED
    BY <1>5, <2>1, <2>2, <2>3, <2>4, <2>5, <2>6, <2>7, <2>8, <2>9, <2>10, <2>11,
       <2>12, <2>13, <2>14, <2>15, <2>16, Zenon DEF CallNext
<1>6. CASE UNCHANGED vars  BY <1>0, <1>6 DEF vars
<1>7. QED  BY <1>1, <1>2, <1>3, <1>4, <1>5, <1>6 DEF Next

\* An Invoke queues at most one Open and selects no tunnel after it, for every
\* number of tunnels it may fall back to ("returned without replay").
THEOREM NoReplayCorrect == Spec => []NoReplay
<1>1. Init => NoReplay  BY DEF Init, NoReplay
<1>2. Typed /\ NoReplay /\ [Next]_vars => NoReplay'  BY ReplayStep
<1>3. QED  BY <1>1, <1>2, AlwaysTyped, PTL DEF Spec

-----------------------------------------------------------------------------
(***************************************************************************)
(* Drain. What makes DrainedIsIdle inductive: nothing registers once Drain *)
(* took its snapshot, and a request without an outcome sits on a session   *)
(* that is running and not closed, so that the session's done channel,     *)
(* which Drain waits for, closes only after fail completed it.             *)
(***************************************************************************)
SnapshotCovers == IsDraining => sessions \subseteq drainSnapshot

SnapshotDone == drainPhase = "ok" => \A t \in drainSnapshot : stream[t] = "done"

ReadyRuns == \A t \in ready : t \notin closed => stream[t] = "running"

PendingRuns ==
    \A c \in Calls : phase[c] \in RequestPhases /\ c \notin completed
                        => stream[at[c]] = "running" /\ at[c] \notin closed

LastRequestGone ==
    \A c \in endsDrain : /\ phase[c] \in {"rolledBack", "finished"}
                         /\ at[c] \in draining
                         /\ requests[at[c]] = {}

DrainInv ==
    SnapshotCovers /\ SnapshotDone /\ ReadyRuns /\ PendingRuns /\ LastRequestGone

\* A handler that ends leaves no uncompleted request behind.
LEMMA DrainConnect ==
    ASSUME Typed, AdmissionInv, DrainInv, NEW t \in Tunnels, ConnectNext(t)
    PROVE  DrainInv'
<1> USE DEF registryVars, drainVars, flagVars, requestVars, callVars, Typed, TypeOK
<1>1. SnapshotCovers'
  BY Zenon DEF DrainInv, SnapshotCovers, IsDraining, ConnectNext, BeginHandshake,
         BeginHandshakeRefused, ReleaseHandshake, RegisterFromHandshake, CanRegister,
         RegisterFromHandshakeRefused, Run, AbortBeforeRun, RunEnds, Unregister
<1>2. SnapshotDone'
  <2>1. stream[t] # "done" /\ UNCHANGED <<drainPhase, drainSnapshot>>
    BY Zenon DEF ConnectNext, BeginHandshake, BeginHandshakeRefused, ReleaseHandshake,
           RegisterFromHandshake, RegisterFromHandshakeRefused, Run, AbortBeforeRun,
           RunEnds
  <2>2. \A x \in Tunnels \ {t} : stream'[x] = stream[x]
    BY Zenon DEF ConnectNext, BeginHandshake, BeginHandshakeRefused, ReleaseHandshake,
           RegisterFromHandshake, RegisterFromHandshakeRefused, Run, AbortBeforeRun,
           RunEnds
  <2>3. QED  BY <2>1, <2>2 DEF DrainInv, SnapshotDone
<1>3. ReadyRuns'
  <2>1. UNCHANGED closed
    BY Zenon DEF ConnectNext, BeginHandshake, BeginHandshakeRefused, ReleaseHandshake,
           RegisterFromHandshake, RegisterFromHandshakeRefused, Run, AbortBeforeRun,
           RunEnds
  <2>2. ready' = ready \/ Run(t)
    BY Zenon DEF ConnectNext, BeginHandshake, BeginHandshakeRefused, ReleaseHandshake,
           RegisterFromHandshake, RegisterFromHandshakeRefused, AbortBeforeRun, RunEnds
  <2>3. \A x \in Tunnels : stream[x] = "running" /\ x \notin closed
                              => stream'[x] = "running"
    BY Zenon DEF ConnectNext, BeginHandshake, BeginHandshakeRefused, ReleaseHandshake,
           RegisterFromHandshake, RegisterFromHandshakeRefused, Run, AbortBeforeRun,
           RunEnds
  <2>4. \A x \in ready : x \in Tunnels /\ (x \notin closed => stream[x] = "running")
    BY DEF DrainInv, ReadyRuns
  <2>5. CASE ready' = ready  BY <2>1, <2>3, <2>4, <2>5 DEF ReadyRuns
  <2>6. CASE Run(t)
    <3>1. ready' = ready \cup {t} /\ stream'[t] = "running"  BY <2>6 DEF Run
    <3>2. QED  BY <2>1, <2>3, <2>4, <3>1 DEF ReadyRuns
  <2>7. QED  BY <2>2, <2>5, <2>6
<1>4. PendingRuns'
  <2>1. UNCHANGED <<phase, at, completed, closed>>
    BY Zenon DEF ConnectNext, BeginHandshake, BeginHandshakeRefused, ReleaseHandshake,
           RegisterFromHandshake, RegisterFromHandshakeRefused, Run, AbortBeforeRun,
           RunEnds
  <2>2. \A x \in Tunnels : stream[x] = "running" /\ x \notin closed
                              => stream'[x] = "running"
    BY Zenon DEF ConnectNext, BeginHandshake, BeginHandshakeRefused, ReleaseHandshake,
           RegisterFromHandshake, RegisterFromHandshakeRefused, Run, AbortBeforeRun,
           RunEnds
  <2>3. \A c \in Calls : phase[c] \in RequestPhases => at[c] \in Tunnels
    BY DEF CallHasTunnel, RequestPhases, SlotPhases
  <2>4. QED  BY <2>1, <2>2, <2>3 DEF DrainInv, PendingRuns
<1>5. LastRequestGone'
  BY Zenon DEF DrainInv, LastRequestGone, ConnectNext, BeginHandshake, BeginHandshakeRefused,
         ReleaseHandshake, RegisterFromHandshake, RegisterFromHandshakeRefused, Run,
         AbortBeforeRun, RunEnds
<1>6. QED  BY <1>1, <1>2, <1>3, <1>4, <1>5 DEF DrainInv

\* fail completes the requests of the session it closes.
LEMMA DrainFail ==
    ASSUME Typed, RequestsInv, DrainInv, NEW t \in Tunnels, Fail(t),
           draining \subseteq draining', UNCHANGED <<sessions, stream, requests, phase, at, endsDrain>>,
           UNCHANGED <<drainPhase, drainSnapshot>>
    PROVE  DrainInv'
<1>1. SnapshotCovers' /\ SnapshotDone'
  BY DEF DrainInv, SnapshotCovers, SnapshotDone, IsDraining
<1>2. ReadyRuns'  BY DEF DrainInv, ReadyRuns, Fail
<1>3. PendingRuns'
  <2> SUFFICES ASSUME NEW c \in Calls, phase[c] \in RequestPhases, c \notin completed'
               PROVE  stream[at[c]] = "running" /\ at[c] \notin closed'
    BY DEF PendingRuns
  <2>1. c \notin completed /\ c \notin requests[t]  BY DEF Fail
  <2>2. stream[at[c]] = "running" /\ at[c] \notin closed
    BY <2>1 DEF DrainInv, PendingRuns
  <2>3. at[c] # t  BY <2>1 DEF RequestsInv
  <2>4. QED  BY <2>2, <2>3 DEF Fail
<1>4. LastRequestGone'  BY DEF DrainInv, LastRequestGone
<1>5. QED  BY <1>1, <1>2, <1>3, <1>4 DEF DrainInv

\* A step that moves only the draining flags and the book-keeping of Drain.
LEMMA DrainFrame ==
    ASSUME DrainInv, draining \subseteq draining',
           UNCHANGED <<sessions, stream, requests, phase, at, endsDrain, completed>>,
           UNCHANGED <<ready, closed, drainPhase, drainSnapshot>>
    PROVE  DrainInv'
<1>1. SnapshotCovers' /\ SnapshotDone' /\ ReadyRuns'
  BY DEF DrainInv, SnapshotCovers, SnapshotDone, IsDraining, ReadyRuns
<1>2. PendingRuns' /\ LastRequestGone'  BY DEF DrainInv, PendingRuns, LastRequestGone
<1>3. QED  BY <1>1, <1>2 DEF DrainInv

\* A call's step that removes no request and closes no session.
LEMMA DrainCall ==
    ASSUME Typed, DrainInv, NEW c \in Calls, c \notin endsDrain, NEW next,
           UNCHANGED <<sessions, stream, ready, closed, draining>>,
           UNCHANGED <<drainPhase, drainSnapshot, requests, endsDrain>>,
           phase' = [phase EXCEPT ![c] = next],
           \A d \in Calls \ {c} : at'[d] = at[d] /\ (d \in completed' <=> d \in completed),
           next \in RequestPhases /\ c \notin completed'
              => stream[at'[c]] = "running" /\ at'[c] \notin closed
    PROVE  DrainInv'
<1>1. SnapshotCovers' /\ SnapshotDone' /\ ReadyRuns'
  BY DEF DrainInv, SnapshotCovers, SnapshotDone, IsDraining, ReadyRuns
<1>2. phase \in [Calls -> SlotPhases \cup {"idle", "selecting", "done"}]
      /\ endsDrain \subseteq Calls
  BY DEF Typed, TypeOK
<1>3. phase'[c] = next /\ \A d \in Calls \ {c} : phase'[d] = phase[d]  BY <1>2
<1>4. PendingRuns'  BY <1>3 DEF DrainInv, PendingRuns
<1>5. LastRequestGone'  BY <1>2, <1>3 DEF DrainInv, LastRequestGone
<1>6. QED  BY <1>1, <1>4, <1>5 DEF DrainInv

\* A call that leaves a tunnel without a request on it keeps the invariant of
\* Drain.
LEMMA DrainLeaveWithout ==
    ASSUME Typed, DrainInv, NEW c \in Calls, c \notin endsDrain,
           NEW next, next \notin RequestPhases, NEW left, LeaveTunnel(c, next, left),
           UNCHANGED <<sessions, stream, ready, closed, draining>>,
           UNCHANGED <<drainPhase, drainSnapshot, requests>>
    PROVE  DrainInv'
<1>1. at \in [Calls -> Tunnels \cup {NoTunnel}]  BY DEF Typed, TypeOK
<1>2. /\ phase' = [phase EXCEPT ![c] = next] /\ at' = [at EXCEPT ![c] = NoTunnel]
      /\ completed' = completed \ {c} /\ endsDrain' = endsDrain \ {c}
  BY DEF LeaveTunnel
<1>3. endsDrain' = endsDrain  BY <1>2
<1>4. \A d \in Calls \ {c} : at'[d] = at[d] /\ (d \in completed' <=> d \in completed)
  BY <1>1, <1>2
<1>5. QED  BY Zenon, <1>2, <1>3, <1>4, DrainCall

\* startRequest keeps it: the request is put on a running session that is not
\* draining.
LEMMA DrainStart ==
    ASSUME Typed, DrainInv, NEW c \in Calls, StartRequest(c)
    PROVE  DrainInv'
<1> USE DEF registryVars, drainVars, flagVars
<1>1. /\ phase \in [Calls -> SlotPhases \cup {"idle", "selecting", "done"}]
      /\ requests \in [Tunnels -> SUBSET Calls] /\ endsDrain \subseteq Calls
  BY DEF Typed, TypeOK
<1>2. /\ phase[c] = "reserved" /\ phase' = [phase EXCEPT ![c] = "started"]
      /\ requests' = [requests EXCEPT ![at[c]] = @ \cup {c}]
      /\ UNCHANGED <<sessions, stream, ready, closed, draining>>
      /\ UNCHANGED <<drainPhase, drainSnapshot, at, completed, endsDrain>>
      /\ at[c] \in ready /\ at[c] \notin draining /\ at[c] \notin closed
  BY DEF StartRequest, CanStart, Accepts
<1>3. phase'[c] = "started" /\ \A d \in Calls \ {c} : phase'[d] = phase[d]
  BY <1>1, <1>2
<1>4. SnapshotCovers' /\ SnapshotDone' /\ ReadyRuns'
  BY <1>2 DEF DrainInv, SnapshotCovers, SnapshotDone, IsDraining, ReadyRuns
<1>5. stream[at[c]] = "running"  BY <1>2 DEF DrainInv, ReadyRuns
<1>6. PendingRuns'  BY <1>2, <1>3, <1>5 DEF DrainInv, PendingRuns
<1>7. ASSUME NEW d \in endsDrain
      PROVE  /\ phase'[d] \in {"rolledBack", "finished"} /\ at'[d] \in draining'
             /\ requests'[at'[d]] = {}
  <2>1. /\ phase[d] \in {"rolledBack", "finished"} /\ at[d] \in draining
        /\ requests[at[d]] = {}
    BY DEF DrainInv, LastRequestGone
  <2>2. d \in Calls /\ d # c /\ at[d] # at[c]  BY <1>1, <1>2, <2>1
  <2>3. at[d] \in Tunnels  BY <2>1 DEF Typed, TypeOK
  <2>4. requests'[at[d]] = requests[at[d]]  BY <1>1, <1>2, <2>2, <2>3
  <2>5. QED  BY <1>2, <1>3, <2>1, <2>2, <2>4
<1>8. LastRequestGone'  BY <1>2, <1>7 DEF LastRequestGone
<1>9. QED  BY <1>4, <1>6, <1>8 DEF DrainInv

\* removeRequest marks its caller only when the tunnel has no other request.
LEMMA DrainRemove ==
    ASSUME Typed, RequestsInv, DrainInv, NEW c \in Calls, phase[c] \in RequestPhases,
           NEW next \in {"rolledBack", "finished"}, RemoveRequest(c, next)
    PROVE  DrainInv'
<1> USE DEF registryVars, drainVars, flagVars
<1>1. /\ phase \in [Calls -> SlotPhases \cup {"idle", "selecting", "done"}]
      /\ requests \in [Tunnels -> SUBSET Calls] /\ endsDrain \subseteq Calls
      /\ at[c] \in Tunnels
  BY DEF Typed, TypeOK, CallHasTunnel, RequestPhases, SlotPhases
<1>2. /\ phase' = [phase EXCEPT ![c] = next]
      /\ requests' = [requests EXCEPT ![at[c]] = @ \ {c}]
      /\ UNCHANGED <<sessions, stream, ready, closed, draining>>
      /\ UNCHANGED <<drainPhase, drainSnapshot, at, completed>>
      /\ endsDrain' = IF at[c] \in draining \ localDrain /\ requests[at[c]] = {c}
                      THEN endsDrain \cup {c} ELSE endsDrain
  BY DEF RemoveRequest
<1>3. phase'[c] = next /\ \A d \in Calls \ {c} : phase'[d] = phase[d]
  BY <1>1, <1>2
<1>4. SnapshotCovers' /\ SnapshotDone' /\ ReadyRuns'
  BY <1>2 DEF DrainInv, SnapshotCovers, SnapshotDone, IsDraining, ReadyRuns
<1>5. PendingRuns'  BY <1>2, <1>3 DEF DrainInv, PendingRuns, RequestPhases
<1>6. c \in requests[at[c]]  BY <1>1 DEF RequestsInv
<1>7. ASSUME NEW d \in endsDrain
      PROVE  /\ phase'[d] \in {"rolledBack", "finished"} /\ at'[d] \in draining'
             /\ requests'[at'[d]] = {}
  <2>1. /\ phase[d] \in {"rolledBack", "finished"} /\ at[d] \in draining
        /\ requests[at[d]] = {}
    BY DEF DrainInv, LastRequestGone
  <2>2. d \in Calls /\ d # c /\ at[d] # at[c]  BY <1>1, <1>6, <2>1 DEF RequestPhases
  <2>3. at[d] \in Tunnels  BY <2>1 DEF Typed, TypeOK
  <2>4. requests'[at[d]] = requests[at[d]]  BY <1>1, <1>2, <2>2, <2>3
  <2>5. QED  BY <1>2, <1>3, <2>1, <2>2, <2>4
<1>8. ASSUME c \in endsDrain', c \notin endsDrain
      PROVE  /\ phase'[c] \in {"rolledBack", "finished"} /\ at'[c] \in draining'
             /\ requests'[at'[c]] = {}
  BY <1>1, <1>2, <1>3, <1>8
<1>9. LastRequestGone'  BY <1>2, <1>7, <1>8 DEF LastRequestGone
<1>10. QED  BY <1>4, <1>5, <1>9 DEF DrainInv

\* The end of removeRequest: the session it closes has no request left.
LEMMA DrainRelease ==
    ASSUME Typed, RequestsInv, DrainInv, NEW c \in Calls, ReleaseRemoved(c),
           NEW next, next \notin RequestPhases, NEW left, LeaveTunnel(c, next, left)
    PROVE  DrainInv'
<1> USE DEF drainVars, requestVars
<1>1. /\ phase \in [Calls -> SlotPhases \cup {"idle", "selecting", "done"}]
      /\ at \in [Calls -> Tunnels \cup {NoTunnel}] /\ endsDrain \subseteq Calls
  BY DEF Typed, TypeOK
<1>2. /\ phase' = [phase EXCEPT ![c] = next] /\ at' = [at EXCEPT ![c] = NoTunnel]
      /\ completed' = completed \ {c} /\ endsDrain' = endsDrain \ {c}
  BY DEF LeaveTunnel
<1>3. /\ closed' = (IF c \in endsDrain THEN closed \cup {at[c]} ELSE closed)
      /\ ready' = (IF c \in endsDrain THEN ready \ {at[c]} ELSE ready)
      /\ UNCHANGED <<sessions, stream, draining, requests, drainPhase, drainSnapshot>>
  BY DEF ReleaseRemoved
<1>4. phase'[c] = next /\ \A d \in Calls \ {c} : phase'[d] = phase[d] /\ at'[d] = at[d]
  BY <1>1, <1>2
<1>5. SnapshotCovers' /\ SnapshotDone'
  BY <1>3 DEF DrainInv, SnapshotCovers, SnapshotDone, IsDraining
<1>6. ReadyRuns'  BY <1>3 DEF DrainInv, ReadyRuns
<1>7. PendingRuns'
  <2> SUFFICES ASSUME NEW d \in Calls, phase'[d] \in RequestPhases, d \notin completed'
               PROVE  stream'[at'[d]] = "running" /\ at'[d] \notin closed'
    BY DEF PendingRuns
  <2>1. d # c  BY <1>4
  <2>2. phase[d] \in RequestPhases /\ d \notin completed /\ at'[d] = at[d]
    BY <1>2, <1>4, <2>1
  <2>3. stream[at[d]] = "running" /\ at[d] \notin closed
    BY <2>2 DEF DrainInv, PendingRuns
  <2>4. at[d] \in Tunnels  BY <2>2 DEF Typed, CallHasTunnel, RequestPhases, SlotPhases
  <2>5. d \in requests[at[d]]  BY <2>2, <2>4 DEF RequestsInv
  <2>6. c \in endsDrain => at[d] # at[c]  BY <2>5 DEF DrainInv, LastRequestGone
  <2>7. QED  BY <1>3, <2>2, <2>3, <2>6
<1>8. LastRequestGone'  BY <1>1, <1>2, <1>3, <1>4 DEF DrainInv, LastRequestGone
<1>9. QED  BY <1>5, <1>6, <1>7, <1>8 DEF DrainInv

\* Every step of a call keeps it.
LEMMA DrainCallNext ==
    ASSUME Typed, RequestsInv, DrainInv, NEW c \in Calls, CallNext(c)
    PROVE  DrainInv'
<1> USE DEF registryVars, drainVars, flagVars, requestVars
<1>0. /\ phase[c] \notin {"rolledBack", "finished"} => c \notin endsDrain
      /\ \A p \in {"started", "rollback", "open"} : p \in RequestPhases
      /\ \A p \in {"idle", "selecting", "reserved", "refused", "rolledBack",
                   "finished", "done"} : p \notin RequestPhases
  BY DEF DrainInv, LastRequestGone, RequestPhases
<1>1. CASE SelectionOrder(c)  BY Zenon, <1>0, <1>1, DrainCall DEF SelectionOrder
<1>2. CASE SelectionOrderDraining(c)
  BY <1>0, <1>2, DrainLeaveWithout DEF SelectionOrderDraining, Return
<1>3. CASE NoCandidateLeft(c)
  BY <1>0, <1>3, DrainLeaveWithout DEF NoCandidateLeft, Return
<1>4. CASE ReserveInstanceDraining(c)
  BY <1>0, <1>4, DrainLeaveWithout DEF ReserveInstanceDraining, Return
<1>5. ASSUME NEW t \in Tunnels, ReserveInstance(c, t) PROVE DrainInv'
  <2>1. /\ phase[c] = "selecting" /\ phase' = [phase EXCEPT ![c] = "reserved"]
        /\ at' = [at EXCEPT ![c] = t]
        /\ UNCHANGED <<sessions, stream, ready, closed, draining>>
        /\ UNCHANGED <<drainPhase, drainSnapshot, requests, endsDrain, completed>>
    BY <1>5 DEF ReserveInstance
  <2>2. \A d \in Calls \ {c} : at'[d] = at[d]  BY <2>1 DEF Typed, TypeOK
  <2>3. QED  BY Zenon, <1>0, <2>1, <2>2, DrainCall
<1>6. ASSUME NEW t \in Tunnels, ReserveInstanceSaturated(c, t) PROVE DrainInv'
  BY <1>6, DrainFrame, Zenon DEF ReserveInstanceSaturated
<1>7. CASE StartRequest(c)  BY <1>7, DrainStart
<1>8. CASE StartRequestRefused(c)  BY Zenon, <1>0, <1>8, DrainCall DEF StartRequestRefused
<1>9. CASE ReleaseRefused(c)
  BY <1>0, <1>9, DrainLeaveWithout DEF ReleaseRefused, NextCandidate
<1>10. CASE EnqueueOpen(c)
  <2>1. /\ phase[c] = "started" /\ c \notin completed
        /\ phase' = [phase EXCEPT ![c] = "open"]
        /\ UNCHANGED <<sessions, stream, ready, closed, draining>>
        /\ UNCHANGED <<drainPhase, drainSnapshot, requests, endsDrain, completed, at>>
    BY <1>10 DEF EnqueueOpen
  <2>2. stream[at[c]] = "running" /\ at[c] \notin closed
    BY <1>0, <2>1, Zenon DEF DrainInv, PendingRuns
  <2>3. QED  BY Zenon, <1>0, <2>1, <2>2, DrainCall
<1>11. CASE EnqueueOpenRefused(c)  BY Zenon, <1>0, <1>11, DrainCall DEF EnqueueOpenRefused
<1>12. CASE RollbackRequestBeforeOpen(c)
  BY <1>0, <1>12, DrainRemove DEF RollbackRequestBeforeOpen
<1>13. CASE ReleaseRolledBack(c)
  <2>1. ReleaseRemoved(c)  BY <1>13 DEF ReleaseRolledBack
  <2>2. CASE Return(c)  BY <1>0, <2>1, <2>2, DrainRelease DEF Return
  <2>3. CASE NextCandidate(c)  BY <1>0, <2>1, <2>3, DrainRelease DEF NextCandidate
  <2>4. QED  BY <1>13, <2>2, <2>3 DEF ReleaseRolledBack
<1>14. CASE RequestCompletes(c)
  <2>1. /\ completed' = completed \cup {c} /\ phase[c] = "open" /\ UNCHANGED phase
        /\ UNCHANGED <<sessions, stream, ready, closed, draining>>
        /\ UNCHANGED <<drainPhase, drainSnapshot, requests, endsDrain, at>>
    BY <1>14 DEF RequestCompletes
  <2>2. phase' = [phase EXCEPT ![c] = "open"]  BY <2>1 DEF Typed, TypeOK
  <2>3. QED  BY Zenon, <1>0, <2>1, <2>2, DrainCall
<1>15. CASE FinishRequest(c)  BY <1>0, <1>15, DrainRemove DEF FinishRequest
<1>16. CASE ReleaseFinished(c)  BY <1>0, <1>16, DrainRelease DEF ReleaseFinished, Return
<1>17. QED
  BY <1>1, <1>2, <1>3, <1>4, <1>5, <1>6, <1>7, <1>8, <1>9, <1>10, <1>11, <1>12,
     <1>13, <1>14, <1>15, <1>16 DEF CallNext

\* Every step keeps it.
LEMMA DrainStep ==
    Typed /\ AdmissionInv /\ RequestsInv /\ DrainInv /\ [Next]_vars => DrainInv'
<1> SUFFICES ASSUME Typed, AdmissionInv, RequestsInv, DrainInv, [Next]_vars
             PROVE  DrainInv'
  OBVIOUS
<1> USE DEF registryVars, drainVars, flagVars, requestVars, callVars
<1>1. ASSUME NEW t \in Tunnels, ConnectNext(t) PROVE DrainInv'
  BY <1>1, DrainConnect
<1>2. ASSUME NEW t \in Tunnels, SessionNext(t) PROVE DrainInv'
  <2>1. CASE SessionFails(t)  BY <2>1, DrainFail DEF SessionFails
  <2>2. CASE PeerDrains(t)
    <3>1. CASE requests[t] = {}  BY <2>2, <3>1, DrainFail DEF PeerDrains
    <3>2. CASE requests[t] # {}  BY <2>2, <3>2, DrainFrame DEF PeerDrains
    <3>3. QED  BY <3>1, <3>2
  <2>3. CASE DrainDeadline(t)  BY <2>3, DrainFail DEF DrainDeadline
  <2>4. CASE DrainSent(t)  BY <2>4, DrainFail DEF DrainSent
  <2>5. QED  BY <1>2, <2>1, <2>2, <2>3, <2>4 DEF SessionNext
<1>3. CASE BeginDrain
  <2>1. /\ drainPhase' = "draining" /\ drainSnapshot' = sessions
        /\ UNCHANGED <<sessions, stream, ready, closed, draining, requests>>
        /\ UNCHANGED <<phase, at, completed, endsDrain>>
    BY <1>3 DEF BeginDrain
  <2>2. SnapshotCovers' /\ SnapshotDone' /\ ReadyRuns'
    BY <2>1 DEF DrainInv, SnapshotCovers, SnapshotDone, IsDraining, ReadyRuns
  <2>3. PendingRuns' /\ LastRequestGone'
    BY <2>1 DEF DrainInv, PendingRuns, LastRequestGone
  <2>4. QED  BY <2>2, <2>3 DEF DrainInv
<1>4. CASE DrainProceeds
  <2>1. CASE DrainReturns \/ DrainTimesOut
    <3>1. /\ drainPhase = "draining" /\ drainPhase' \in {"ok", "error"}
          /\ drainPhase' = "ok" => \A t \in drainSnapshot : stream[t] = "done"
          /\ UNCHANGED <<sessions, stream, ready, closed, draining, requests>>
          /\ UNCHANGED <<phase, at, completed, endsDrain, drainSnapshot>>
      BY <2>1 DEF DrainReturns, DrainTimesOut, Typed, TypeOK
    <3>2. SnapshotCovers' /\ SnapshotDone' /\ ReadyRuns'
      BY <3>1 DEF DrainInv, SnapshotCovers, SnapshotDone, IsDraining, ReadyRuns
    <3>3. PendingRuns' /\ LastRequestGone'
      BY <3>1 DEF DrainInv, PendingRuns, LastRequestGone
    <3>4. QED  BY <3>2, <3>3 DEF DrainInv
  <2>2. ASSUME NEW t \in Tunnels, InitiateDrain(t) PROVE DrainInv'
    BY <2>2, DrainFrame DEF InitiateDrain, MarkDraining
  <2>3. ASSUME NEW t \in Tunnels, InitiateDrainQueueFull(t) PROVE DrainInv'
    BY <2>3, DrainFail DEF InitiateDrainQueueFull, MarkDraining
  <2>4. ASSUME NEW t \in Tunnels, InitiateDrainSkipped(t) PROVE DrainInv'
    BY <2>4, DrainFrame DEF InitiateDrainSkipped
  <2>5. QED  BY <1>4, <2>1, <2>2, <2>3, <2>4 DEF DrainProceeds
<1>5. ASSUME NEW c \in Calls, CallNext(c) PROVE DrainInv'
  BY <1>5, DrainCallNext
<1>6. CASE UNCHANGED vars  BY <1>6, DrainFrame DEF vars
<1>7. QED  BY <1>1, <1>2, <1>3, <1>4, <1>5, <1>6 DEF Next

\* When Registry.Drain returns nil, nothing is registered and every opened call
\* has an outcome, for every number of tunnels and calls and every interleaving
\* of Drain with handshakes, failures and calls.
THEOREM DrainCorrect == Spec => []DrainedIsIdle
<1>1. Init => DrainInv
  BY DEF Init, DrainInv, SnapshotCovers, SnapshotDone, ReadyRuns, PendingRuns,
         LastRequestGone, IsDraining, RequestPhases
<1>2. Typed /\ AdmissionInv /\ RequestsInv /\ DrainInv /\ [Next]_vars => DrainInv'
  BY DrainStep
<1>3. Typed /\ AdmissionInv /\ DrainInv => DrainedIsIdle
  <2> SUFFICES ASSUME Typed, AdmissionInv, DrainInv, drainPhase = "ok"
               PROVE  /\ sessions = {}
                      /\ \A c \in Calls : phase[c] = "open" => c \in completed
    BY DEF DrainedIsIdle
  <2>1. sessions \subseteq drainSnapshot /\ \A t \in drainSnapshot : stream[t] = "done"
    BY DEF DrainInv, SnapshotCovers, SnapshotDone, IsDraining
  <2>2. sessions = {}  BY <2>1 DEF AdmissionInv
  <2>3. ASSUME NEW c \in Calls, phase[c] = "open", c \notin completed PROVE FALSE
    <3>1. stream[at[c]] = "running" /\ at[c] \in Tunnels
      BY <2>3 DEF DrainInv, PendingRuns, RequestPhases, SlotPhases, Typed, CallHasTunnel
    <3>2. at[c] \in sessions  BY <3>1 DEF AdmissionInv
    <3>3. QED  BY <2>2, <3>2
  <2>4. QED  BY <2>2, <2>3
<1>4. QED
  BY <1>1, <1>2, <1>3, AlwaysTyped, AlwaysAdmission, AlwaysRequests, PTL DEF Spec

=============================================================================
