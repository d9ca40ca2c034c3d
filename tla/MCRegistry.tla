----------------------------- MODULE MCRegistry -----------------------------
(***************************************************************************)
(* Instances of Registry for TLC. Safety: three tunnels of two instances   *)
(* compete for two places, one for each instance, and two calls for one    *)
(* slot of each instance. Liveness: two tunnels follow each other in one   *)
(* place while two calls compete for the selection and for one request of  *)
(* the route.                                                              *)
(***************************************************************************)
EXTENDS Registry, TLC

CONSTANTS t1, t2, t3, c1, c2, i1, i2, r1

TwoInstances == [t \in Tunnels |-> IF t = t3 THEN i2 ELSE i1]
AllRoutes == [t \in Tunnels |-> Routes]
SameRoute == [c \in Calls |-> r1]
OneEach == [r \in Routes |-> 1]
\* The tunnels of one instance, and the calls, are interchangeable.
Symmetry == Permutations(Calls) \cup Permutations(Tunnels \ {t3})
=============================================================================
