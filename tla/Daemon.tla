------------------------------- MODULE Daemon -------------------------------
(***************************************************************************)
(* The life of a daemon (internal/platform/daemon/serve.go): two listeners *)
(* (gRPC, and HTTP with the REST and MCP facades), a background worker, a  *)
(* stop by signal or by a fatal error, and the shutdown: drain the RPCs,   *)
(* stop HTTP, run the closers, flush.                                      *)
(*                                                                         *)
(* A handler serves a run: it holds a database connection (its             *)
(* subscription) for as long as it lives, and its end may depend on a      *)
(* person (an approval), so that it is not bound to end by itself.  The    *)
(* one closer that waits is the pool's: pgxpool's Close returns when every *)
(* connection is back.                                                     *)
(***************************************************************************)
EXTENDS Naturals, FiniteSets

CONSTANTS
    Handlers,     \* the requests that may come in
    Protocols     \* the listeners they come in through: "grpc", "http"

ASSUME DaemonAssumption == Protocols \subseteq {"grpc", "http"}

VARIABLES
    stage,        \* how far Run and gracefulShutdown have got
    handlers,     \* the handlers by request: not there, running, cancelled, done
    via,          \* the listener each request uses
    worker,       \* Service.Background
    deadline,     \* whether shutdownTimeout has passed
    serving,      \* the grpc.health.v1 status
    poolOpen      \* whether the pool gives out connections

daemonVars == <<stage, handlers, via, worker, deadline, serving, poolOpen>>

DaemonInit ==
    /\ stage = "listen"
    /\ handlers = [h \in Handlers |-> "none"]
    /\ via \in [Handlers -> Protocols]
    /\ worker = "none"
    /\ deadline = FALSE
    /\ serving = FALSE
    /\ poolOpen = TRUE

Alive(h) == handlers[h] \in {"running", "cancelled"}
Drained(protocol) == \A h \in Handlers : via[h] = protocol => ~ Alive(h)

\* GracefulStop refuses new RPCs at once; HTTP requests come in until Shutdown.
Accepts(protocol) ==
    CASE protocol = "grpc" -> stage = "serve"
      [] protocol = "http" -> stage \in {"serve", "drain"}

-----------------------------------------------------------------------------
\* A listener cannot bind: Run returns before anything else was started.
BindFails ==
    /\ stage = "listen"
    /\ stage' = "exited"
    /\ UNCHANGED <<handlers, via, worker, deadline, serving, poolOpen>>

\* Both listeners, the worker and the health status are up.
Serve ==
    /\ stage = "listen"
    /\ stage' = "serve"
    /\ worker' = "running"
    /\ serving' = TRUE
    /\ UNCHANGED <<handlers, via, deadline, poolOpen>>

HandlerBegins(h) ==
    /\ handlers[h] = "none"
    /\ Accepts(via[h])
    /\ handlers' = [handlers EXCEPT ![h] = "running"]
    /\ UNCHANGED <<stage, via, worker, deadline, serving, poolOpen>>

HandlerEnds(h) ==
    /\ Alive(h)
    /\ handlers' = [handlers EXCEPT ![h] = "done"]
    /\ UNCHANGED <<stage, via, worker, deadline, serving, poolOpen>>

\* SIGTERM cancels runCtx and with it the worker, which returns.
Signalled ==
    /\ stage = "serve"
    /\ stage' = "drain"
    /\ serving' = FALSE
    /\ worker' = "stopping"
    /\ UNCHANGED <<handlers, via, deadline, poolOpen>>

\* A fatal error of a server, or of the worker, starts the shutdown too; runCtx
\* is cancelled only when Run returns.
ServeFails(ofWorker) ==
    /\ stage = "serve"
    /\ worker = "running"
    /\ stage' = "drain"
    /\ serving' = FALSE
    /\ worker' = IF ofWorker THEN "none" ELSE worker
    /\ UNCHANGED <<handlers, via, deadline, poolOpen>>

WorkerReturns ==
    /\ worker = "stopping"
    /\ worker' = "none"
    /\ UNCHANGED <<stage, handlers, via, deadline, serving, poolOpen>>

\* shutdownTimeout runs from the start of gracefulShutdown.
DeadlinePasses ==
    /\ stage \in {"drain", "http", "close", "flush"}
    /\ deadline' = TRUE
    /\ UNCHANGED <<stage, handlers, via, worker, serving, poolOpen>>

\* Faulty: the closers do not wait for GracefulStop.
GrpcDrained_NotAwaited ==
    /\ stage = "drain"
    /\ stage' = "http"
    /\ UNCHANGED <<handlers, via, worker, deadline, serving, poolOpen>>

\* GracefulStop returns: the last RPC has ended.
GrpcDrained ==
    /\ stage = "drain"
    /\ Drained("grpc")
    /\ stage' = "http"
    /\ UNCHANGED <<handlers, via, worker, deadline, serving, poolOpen>>

\* The deadline passes first: Stop cancels the RPCs and does not wait for them.
GrpcForced ==
    /\ stage = "drain" /\ deadline
    /\ stage' = "http"
    /\ handlers' = [h \in Handlers |-> IF via[h] = "grpc" /\ Alive(h) THEN "cancelled" ELSE handlers[h]]
    /\ UNCHANGED <<via, worker, deadline, serving, poolOpen>>

\* httpSrv.Shutdown returns: the last request has ended, or the deadline, the
\* same one, has passed.  It cancels no request.
HttpStopped ==
    /\ stage = "http"
    /\ Drained("http") \/ deadline
    /\ stage' = "close"
    /\ UNCHANGED <<handlers, via, worker, deadline, serving, poolOpen>>

\* The closers run; the pool's refuses new connections from its start ...
CloseBegins ==
    /\ stage = "close" /\ poolOpen
    /\ poolOpen' = FALSE
    /\ UNCHANGED <<stage, handlers, via, worker, deadline, serving>>

\* ... and returns when all are back; then telemetry is flushed.
CloseEnds ==
    /\ stage = "close" /\ ~ poolOpen
    /\ \A h \in Handlers : ~ Alive(h)
    /\ stage' = "flush"
    /\ UNCHANGED <<handlers, via, worker, deadline, serving, poolOpen>>

\* Run returns and the process ends.
Exit ==
    /\ stage = "flush"
    /\ stage' = "exited"
    /\ worker' = "none"
    /\ UNCHANGED <<handlers, via, deadline, serving, poolOpen>>

ShutdownStep == GrpcDrained \/ GrpcForced \/ HttpStopped \/ CloseBegins \/ CloseEnds \/ Exit

DaemonNext ==
    \/ BindFails \/ Serve \/ Signalled \/ \E ofWorker \in BOOLEAN : ServeFails(ofWorker)
    \/ \E h \in Handlers : HandlerBegins(h) \/ HandlerEnds(h)
    \/ WorkerReturns \/ DeadlinePasses
    \/ ShutdownStep

\* The process runs, time passes, and a handler whose context is cancelled
\* returns; one that is not may wait for a person for ever.
DaemonFairness ==
    /\ WF_daemonVars(ShutdownStep)
    /\ WF_daemonVars(DeadlinePasses)
    /\ \A h \in Handlers : WF_daemonVars(handlers[h] = "cancelled" /\ HandlerEnds(h))

DaemonSpec == DaemonInit /\ [][DaemonNext]_daemonVars /\ DaemonFairness

-----------------------------------------------------------------------------
(* Resources go after their users (gracefulShutdown): when the closers run, *)
(* no RPC is being served that its client was not already cut off from, no  *)
(* request can still come in, and health checks have been failing since the *)
(* shutdown began.                                                          *)
ClosedAfterDrain ==
    stage \in {"close", "flush"} =>
        /\ ~ serving
        /\ \A protocol \in Protocols : ~ Accepts(protocol)
        /\ \A h \in Handlers : via[h] = "grpc" => handlers[h] # "running"

-----------------------------------------------------------------------------
(* What the comments say and the code does not keep.  No run checks it: the *)
(* README, under "Where code and documents disagree", tells how it fails.   *)

(* A stuck connection cannot keep the process from exiting: every shutdown  *)
(* ends (shutdownTimeout).                                                  *)
ShutdownEnds == stage = "drain" ~> stage = "exited"

(* The worker is told to stop before the resources it uses are closed       *)
(* (Service.Background).                                                    *)
WorkerToldFirst == ~ poolOpen => worker # "running"

=============================================================================
