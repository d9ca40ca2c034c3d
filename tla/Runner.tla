------------------------------- MODULE Runner -------------------------------
(***************************************************************************)
(* The life of a process: runService opens what its components need, step  *)
(* by step, and closes what it has opened when a step fails (module        *)
(* Startup); runtime.Runner starts the components, waits for a signal or   *)
(* for the first of them to return, withdraws readiness, cancels their     *)
(* context and shuts them down one by one from the last to the first, all  *)
(* within one deadline.                                                    *)
(*                                                                         *)
(* A component has a name, a kind and the components its work relies on.   *)
(* The kinds differ in what their Run waits for and when their Shutdown    *)
(* returns: a server (HTTP or gRPC) when the work it accepted is over, the *)
(* drain of gateway-in and its tunnel server when the tunnels have left    *)
(* (module Selection), the tunnel pool of gateway-out when its clients are *)
(* done (module Pool), a database when the work that uses it has returned  *)
(* its connections, a worker or another resource (a client, telemetry) at  *)
(* once, whatever the worker is doing.                                     *)
(***************************************************************************)
EXTENDS Pool, Selection, Startup

VARIABLES
    service,        \* the process: its name, the gateway-in processes compatible
                    \* with it, and its components, in order
    starting,       \* the steps of its construction still to come
    opened,         \* what it has opened and not closed
    deferred,       \* what runService closes when it returns
    cancelled,      \* runCtx is done: the process was told to stop, or cancelRun
    runner,         \* "starting", "running", "stopping", "waiting" or "ended"
    ready,          \* Health.ready
    current,        \* the component being shut down; those after it are closed
    begun,          \* and whether its Shutdown has been called
    returned,       \* the components whose Run returned before the stop, and the
                    \* workers whose Run has returned since
    active,         \* the servers with accepted work, the workers within a step
    expired         \* the shutdown deadline has passed

startVars == <<starting, opened, deferred>>
runnerVars == <<service, startVars, cancelled, runner, ready, current, begun, returned, active, expired>>

Components == service.components
Indices == DOMAIN Components
Kind(i) == Components[i].kind

----------------------------------------------------------------------------
(* runService, until the runner runs. *)

StartSucceeds ==
    /\ runner = "starting" /\ starting # << >>
    /\ opened' = opened \cup Head(starting).opens
    /\ deferred' = (deferred \cup Head(starting).defers) \ Head(starting).hands
    /\ starting' = Tail(starting)
    /\ UNCHANGED <<service, cancelled, runner, ready, current, begun, returned, active, expired>>

\* A step fails: its error path, then what was deferred.
StartFailsAtOnce ==
    /\ runner = "starting" /\ starting # << >> /\ Head(starting).hands = {}
    /\ opened' = opened \ deferred
    /\ starting' = << >> /\ deferred' = {} /\ runner' = "ended"
    /\ UNCHANGED <<service, cancelled, ready, current, begun, returned, active, expired>>

StartFails ==
    /\ runner = "starting" /\ starting # << >> /\ Head(starting).hands = {}
    /\ opened' = opened \ (Head(starting).undoes \cup deferred)
    /\ starting' = << >> /\ deferred' = {} /\ runner' = "ended"
    /\ UNCHANGED <<service, cancelled, ready, current, begun, returned, active, expired>>

\* runner.Run, or the serving loop of a process without a runner.
RunBegins ==
    /\ runner = "starting" /\ starting = << >>
    /\ runner' = "running" /\ ready' = (Components # << >>)
    /\ UNCHANGED <<service, startVars, cancelled, current, begun, returned, active, expired>>

\* The worker of Files only returns when told to; the others also when a server
\* fails or, the sandbox, after its one job.
ReturnsWithoutRunner ==
    /\ runner = "running" /\ Components = << >> /\ (cancelled \/ service.name # "files-worker")
    /\ opened' = opened \ deferred /\ deferred' = {} /\ runner' = "ended"
    /\ UNCHANGED <<service, starting, cancelled, ready, current, begun, returned, active, expired>>

----------------------------------------------------------------------------
(* Work. *)

Runs == runner \notin {"starting", "ended"}

Closed(i) == i > current \/ (i = current /\ begun)

Busy(i) ==
    CASE Kind(i) = "pool" -> serving # {}
      [] Kind(i) = "streams" -> ~NoTunnels
      [] OTHER -> i \in active

\* A server whose Shutdown began, or whose listener failed, accepts no work.
\* A server of health probes only, which it answers at once, has none.
\* A worker takes its next step until its context is done.
Accept(i) ==
    /\ Runs /\ Components[i].uses # {} /\ i \notin active \cup returned
    /\ \/ Kind(i) = "server" /\ ~Closed(i)
       \/ Kind(i) = "worker" /\ ~cancelled
    /\ active' = active \cup {i}
    /\ UNCHANGED <<service, startVars, cancelled, runner, ready, current, begun, returned, expired>>

Finish(i) ==
    /\ Runs /\ i \in active
    /\ active' = active \ {i}
    /\ UNCHANGED <<service, startVars, cancelled, runner, ready, current, begun, returned, expired>>

\* Run returns: a server's when its listener fails, the pool's with its first
\* client, a worker's with its context once it has left the step it was in. All
\* but the workers' return at once when the context is done or Shutdown begins.
CanReturn(i) ==
    CASE Kind(i) \in {"server", "streams"} -> ~cancelled
      [] Kind(i) = "pool" -> ~cancelled /\ ClientResult
      [] Kind(i) = "worker" -> cancelled /\ ~Busy(i)
      [] OTHER -> FALSE

RunReturns(i) ==
    /\ Runs /\ i \notin returned /\ CanReturn(i)
    /\ returned' = returned \cup {i}
    /\ UNCHANGED <<service, startVars, cancelled, runner, ready, current, begun, active, expired>>

----------------------------------------------------------------------------
(* Runner.Run. *)

Tell ==
    /\ runner \in {"starting", "running"} /\ ~cancelled
    /\ cancelled' = TRUE
    /\ UNCHANGED <<service, startVars, runner, ready, current, begun, returned, active, expired>>

\* POST /drainz of the gateways: readiness goes first, the signal comes later.
Drainz ==
    /\ service.name \in {"gateway-in", "gateway-out"} /\ runner = "running" /\ ready
    /\ ready' = FALSE
    /\ UNCHANGED <<service, startVars, cancelled, runner, current, begun, returned, active, expired>>

StopBegins ==
    /\ runner = "running" /\ Components # << >> /\ (cancelled \/ returned # {})
    /\ runner' = "stopping" /\ ready' = FALSE /\ cancelled' = TRUE
    /\ UNCHANGED <<service, startVars, current, begun, returned, active, expired>>


ShutdownBegins ==
    /\ runner = "stopping" /\ current > 0 /\ ~begun
    /\ begun' = TRUE /\ opened' = opened \ Components[current].closes
    /\ UNCHANGED <<service, starting, deferred, cancelled, runner, ready, current, returned, active, expired>>

\* What a Shutdown waits for when the deadline does not cut it short.
Quiet(i) ==
    CASE Kind(i) = "server" -> ~Busy(i)
      [] Kind(i) \in {"drain", "streams"} -> NoTunnels
      [] Kind(i) = "pool" -> AllDone
      [] Kind(i) = "database" -> ~\E j \in active : Components[i].name \in Components[j].uses
      [] OTHER -> TRUE

ShutdownReturns ==
    /\ runner = "stopping" /\ begun
    /\ Quiet(current) \/ expired
    /\ current' = current - 1 /\ begun' = FALSE
    /\ UNCHANGED <<service, startVars, cancelled, runner, ready, returned, active, expired>>

\* The rest is skipped once the deadline has passed.
ShutdownEnds ==
    /\ runner = "stopping" /\ (current = 0 \/ (begun /\ expired))
    /\ runner' = "waiting"
    /\ UNCHANGED <<service, startVars, cancelled, ready, current, begun, returned, active, expired>>

DeadlinePasses ==
    /\ runner \in {"stopping", "waiting"} /\ ~expired
    /\ expired' = TRUE
    /\ UNCHANGED <<service, startVars, cancelled, runner, ready, current, begun, returned, active>>

\* wait: until every Run has returned, or the deadline. Then runService returns.
WaitEnds ==
    /\ runner = "waiting"
    /\ expired \/ \A i \in Indices : Kind(i) = "worker" => i \in returned
    /\ opened' = opened \ deferred /\ deferred' = {} /\ runner' = "ended"
    /\ UNCHANGED <<service, starting, cancelled, ready, current, begun, returned, active, expired>>

RunnerInit ==
    /\ \E s \in Services(DeploymentsOut) :
           service = [name |-> s.name, components |-> s.components,
                      peers |-> IF s.name = "gateway-out" THEN Compatible(s.features) ELSE {}] /\ starting = s.starts
    /\ opened = {} /\ deferred = {}
    /\ cancelled = FALSE /\ runner = "starting" /\ ready = FALSE
    /\ current = Len(Components) /\ begun = FALSE
    /\ returned = {} /\ active = {} /\ expired = FALSE

\* What happens by itself: the construction, and the end of a process that is
\* to stop.
RunnerProceeds ==
    \/ StartSucceeds \/ StartFails \/ RunBegins
    \/ (cancelled /\ ReturnsWithoutRunner)
    \/ StopBegins \/ ShutdownBegins \/ ShutdownReturns \/ ShutdownEnds \/ DeadlinePasses \/ WaitEnds

RunnerNext ==
    \/ \E i \in Indices : Accept(i) \/ Finish(i) \/ RunReturns(i)
    \/ Tell \/ Drainz \/ ReturnsWithoutRunner
    \/ RunnerProceeds

=============================================================================
