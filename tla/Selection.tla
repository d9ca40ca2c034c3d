----------------------------- MODULE Selection -----------------------------
(***************************************************************************)
(* How gateway-in weighs the data centres whose tunnels serve a route      *)
(* (selectionOrder): one that has come back starts at a tenth of its share *)
(* of the calls and grows to the whole of it during the fail-back warm-up. *)
(*                                                                         *)
(* The running weights of the round robin, and with them which of the      *)
(* ready tunnels is asked first, are left open: a call asks all of them    *)
(* until one has room. Reading the clock and taking the lock is one step.  *)
(***************************************************************************)
EXTENDS Naturals, Sequences

CONSTANTS
    TunnelsOf,      \* how many tunnels each data centre may have
    Warmup          \* failbackWarmup, in ticks of the clock

ASSUME SelectionAssumption == TunnelsOf \in Seq(Nat \ {0}) /\ Warmup \in Nat

VARIABLES
    tunnels,        \* per data centre, its tunnels (see below)
    selection,      \* selectionState: isReady, and ticks since readySince
    passedBy        \* history: ticks, up to Warmup, since a call found no ready tunnel there

selectionVars == <<tunnels, selection, passedBy>>

DataCenters == DOMAIN TunnelsOf

\* currentWeight and readySince count only in a state that is ready.
Unavailable == [isReady |-> FALSE, since |-> 0]
BeginsWarmup == [isReady |-> TRUE, since |-> 0]

SelectionInit ==
    /\ tunnels = [d \in DataCenters |-> [t \in 1 .. TunnelsOf[d] |-> "gone"]]
    /\ selection = [d \in DataCenters |-> Unavailable]
    /\ passedBy = [d \in DataCenters |-> Warmup]

\* accepts, isReadyForRoute. A session sets isReady before it tells the registry:
\* until then it is "fresh", or "fading" once it stopped accepting calls; from then
\* on "ready" or "leaving".
ReadyIn(d) == {t \in DOMAIN tunnels[d] : tunnels[d][t] \in {"fresh", "ready"}}
Eligible == {d \in DataCenters : ReadyIn(d) # {}}

\* The share of the calls that a data centre gains, in thousandths.
FailbackWeight(elapsed) ==
    IF elapsed >= Warmup THEN 1000 ELSE 100 + (elapsed * 900) \div Warmup

----------------------------------------------------------------------------
\* session.run sets isReady; the session may have been told to drain before that.
SessionRuns(d, t) ==
    /\ tunnels[d][t] = "gone"
    /\ \E s \in {"fresh", "fading"} : tunnels' = [tunnels EXCEPT ![d][t] = s]
    /\ UNCHANGED <<selection, passedBy>>

\* Then it tells the registry. The only ready tunnel of its data centre starts the
\* warm-up, even if a call has started it in between.
MarkSessionReady(d, t) ==
    /\ tunnels[d][t] \in {"fresh", "fading"}
    /\ tunnels' = [tunnels EXCEPT ![d][t] = IF @ = "fresh" THEN "ready" ELSE "leaving"]
    /\ selection' = [selection EXCEPT ![d] =
           IF ~@.isReady \/ ReadyIn(d) \subseteq {t} THEN BeginsWarmup ELSE @]
    /\ UNCHANGED passedBy

\* A tunnel that drains, closes or goes stale stays registered for a while.
StopsAccepting(d, t) ==
    /\ t \in ReadyIn(d)
    /\ tunnels' = [tunnels EXCEPT ![d][t] = IF @ = "fresh" THEN "fading" ELSE "leaving"]
    /\ UNCHANGED <<selection, passedBy>>

resetDataCenterIfUnavailable(d) ==
    selection' = [selection EXCEPT ![d] = IF ReadyIn(d) = {} THEN Unavailable ELSE @]

Unregister(d, t) ==
    /\ tunnels[d][t] = "leaving"
    /\ tunnels' = [tunnels EXCEPT ![d][t] = "gone"]
    /\ resetDataCenterIfUnavailable(d)
    /\ UNCHANGED passedBy

\* A registered session whose greeting cannot be sent is unregistered unused.
AbortBeforeRun(d, t) ==
    /\ tunnels[d][t] = "gone"
    /\ resetDataCenterIfUnavailable(d)
    /\ UNCHANGED <<tunnels, passedBy>>

Elapse ==
    /\ selection' = [d \in DataCenters |->
           [selection[d] EXCEPT !.since = IF selection[d].isReady /\ @ < Warmup THEN @ + 1 ELSE @]]
    /\ passedBy' = [d \in DataCenters |-> IF passedBy[d] < Warmup THEN passedBy[d] + 1 ELSE passedBy[d]]
    /\ selection' # selection \/ passedBy' # passedBy
    /\ UNCHANGED tunnels

----------------------------------------------------------------------------
(* selectionOrder. *)

\* Mutant: a data centre without a ready tunnel is left as it is.
WeighedOnly ==
    [d \in DataCenters |-> IF d \in Eligible /\ ~selection[d].isReady THEN BeginsWarmup ELSE selection[d]]

\* A call resets the data centres without a ready tunnel, and starts the warm-up of
\* those with one that the registry has not been told of.
Weighed ==
    [d \in DataCenters |->
        IF d \notin Eligible THEN Unavailable
        ELSE IF selection[d].isReady THEN selection[d] ELSE BeginsWarmup]

Select ==
    /\ selection' = Weighed
    /\ passedBy' = [d \in DataCenters |-> IF d \in Eligible THEN passedBy[d] ELSE 0]
    /\ UNCHANGED tunnels

TunnelArrives == \E d \in DataCenters : \E t \in DOMAIN tunnels[d] : SessionRuns(d, t) \/ AbortBeforeRun(d, t)

TunnelProceeds ==
    \E d \in DataCenters : \E t \in DOMAIN tunnels[d] :
        MarkSessionReady(d, t) \/ StopsAccepting(d, t) \/ Unregister(d, t)

\* The registry has no tunnel left.
NoTunnels == \A d \in DataCenters : \A t \in DOMAIN tunnels[d] : tunnels[d][t] = "gone"

=============================================================================
