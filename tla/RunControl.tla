---------------------------- MODULE RunControl -----------------------------
(***************************************************************************)
(* The Run calls of one orchestrator process and what they share: the      *)
(* per-tenant slots and the registry of running loops (grpc/server.go),    *)
(* the approval gate (inbound/approval/gate.go), and the connection pool   *)
(* of the event store (pool_pgxpool.go), out of which every call holds one *)
(* connection for its subscription while its loop takes one for each       *)
(* operation on the log.                                                   *)
(*                                                                         *)
(* An operation on the log gives its connection back before the next step  *)
(* of the model, so it is a guard on a free connection; a subscription     *)
(* keeps its own.  A loop asks for at most one approval.                   *)
(***************************************************************************)
EXTENDS Integers, FiniteSets

CONSTANTS
    MaxRuns,       \* bound on the Run calls, numbered as they come
    Sessions,      \* the sessions of the tenant
    Decisions,     \* what a user may decide
    MaxInFlight,   \* Config.MaxInFlightPerTenant
    PoolSize       \* the connections of the pool

ASSUME ControlAssumption ==
    /\ MaxRuns \in Nat /\ MaxInFlight \in Nat \ {0} /\ PoolSize \in Nat \ {0}
    /\ "none" \notin Decisions

VARIABLES
    handler,    \* where each Run handler is
    session,    \* the session each call is for
    gone,       \* the client of the call has disconnected
    subs,       \* the subscriptions that hold a connection
    agent,      \* where the loop of each call is
    cancelled,  \* the loop's context is cancelled
    inflight,   \* Server.inflight of the tenant
    running,    \* Server.running: the run whose cancel func is registered
    pending,    \* Gate.pending, by session: the run whose entry it is
    result,     \* the result channel of each run's entry
    sending,    \* decisions Resolve has taken an entry for and not yet sent
    newest      \* history: the run that asked last for the session's call

controlVars == <<handler, session, gone, subs, agent, cancelled, inflight, running,
                 pending, result, sending, newest>>

Runs == 1 .. MaxRuns
None == 0

ControlInit ==
    /\ handler = [r \in Runs |-> "new"] /\ session = [r \in Runs |-> None]
    /\ gone = [r \in Runs |-> FALSE] /\ subs = {}
    /\ agent = [r \in Runs |-> "none"] /\ cancelled = [r \in Runs |-> FALSE]
    /\ inflight = 0
    /\ running = [s \in Sessions |-> None] /\ pending = [s \in Sessions |-> None]
    /\ result = [r \in Runs |-> "none"] /\ sending = {}
    /\ newest = [s \in Sessions |-> None]

FreeConn == Cardinality(subs) < PoolSize

-----------------------------------------------------------------------------
(* The Run handler.                                                         *)

\* authorizeSession reads the session; acquireSlot; registerRun, where the last
\* writer wins.
Enter(r, s) ==
    /\ handler[r] = "new" /\ (\A q \in Runs : q < r => handler[q] # "new") /\ FreeConn
    /\ session' = [session EXCEPT ![r] = s]
    /\ IF inflight >= MaxInFlight
       THEN /\ handler' = [handler EXCEPT ![r] = "done"]
            /\ UNCHANGED <<inflight, running>>
       ELSE /\ handler' = [handler EXCEPT ![r] = "subscribe"]
            /\ inflight' = inflight + 1
            /\ running' = [running EXCEPT ![s] = r]
    /\ UNCHANGED <<gone, subs, agent, cancelled, pending, result, sending, newest>>

\* relay.run: Subscribe takes a connection for good, then the loop is started.
\* Without one it waits, until the client is gone.
SubscribeLog(r) ==
    /\ handler[r] = "subscribe"
    /\ \/ /\ FreeConn
          /\ subs' = subs \cup {r}
          /\ agent' = [agent EXCEPT ![r] = "work"]
          /\ handler' = [handler EXCEPT ![r] = "relay"]
       \/ /\ gone[r]
          /\ handler' = [handler EXCEPT ![r] = "return"]
          /\ UNCHANGED <<subs, agent>>
    /\ UNCHANGED <<session, gone, cancelled, inflight, running, pending, result, sending, newest>>

\* The relay returns: after the flush, whose Load takes a connection, when the
\* loop is over, and at once when the client is gone.
RelayReturns(r) ==
    /\ handler[r] = "relay"
    /\ (agent[r] = "over" /\ FreeConn) \/ gone[r]
    /\ handler' = [handler EXCEPT ![r] = "return"]
    /\ UNCHANGED <<session, gone, subs, agent, cancelled, inflight, running, pending, result,
                   sending, newest>>

\* Faulty: the subscription ends with its client, not with its handler.
SubscriptionEnds_Lingers(r) ==
    /\ r \in subs /\ gone[r]
    /\ subs' = subs \ {r}
    /\ UNCHANGED <<handler, session, gone, agent, cancelled, inflight, running, pending, result,
                   sending, newest>>

\* The subscriber goroutine gives its connection back once subCtx is cancelled.
SubscriptionEnds(r) ==
    /\ r \in subs /\ (gone[r] \/ handler[r] \in {"return", "done"})
    /\ subs' = subs \ {r}
    /\ UNCHANGED <<handler, session, gone, agent, cancelled, inflight, running, pending, result,
                   sending, newest>>

\* The deferred calls: unregisterRun deletes the registration of the session,
\* whichever it is; the loop is cancelled and not waited for; releaseSlot.
Leave(r) ==
    /\ handler[r] = "return"
    /\ running' = [running EXCEPT ![session[r]] = None]
    /\ cancelled' = [cancelled EXCEPT ![r] = TRUE]
    /\ inflight' = IF inflight > 0 THEN inflight - 1 ELSE 0
    /\ handler' = [handler EXCEPT ![r] = "done"]
    /\ gone' = [gone EXCEPT ![r] = FALSE]
    /\ UNCHANGED <<session, subs, agent, pending, result, sending, newest>>

\* The client disconnects: the context of the stream, parent of the loop's, is done.
ClientGone(r) ==
    /\ handler[r] \in {"subscribe", "relay"} /\ ~gone[r]
    /\ gone' = [gone EXCEPT ![r] = TRUE]
    /\ cancelled' = [cancelled EXCEPT ![r] = TRUE]
    /\ UNCHANGED <<handler, session, subs, agent, inflight, running, pending, result, sending, newest>>

-----------------------------------------------------------------------------
(* The loop, and Gate.Request.                                              *)

\* Request puts a new entry in the map, in the place of any other for the call.
LoopRequests(r) ==
    /\ agent[r] = "work" /\ FreeConn
    /\ pending' = [pending EXCEPT ![session[r]] = r]
    /\ newest' = [newest EXCEPT ![session[r]] = r]
    /\ agent' = [agent EXCEPT ![r] = "asking"]
    /\ UNCHANGED <<handler, session, gone, subs, cancelled, inflight, running, result, sending>>

\* The entry's channel has a decision.
RequestAnswered(r) ==
    /\ agent[r] = "asking" /\ result[r] # "none"
    /\ result' = [result EXCEPT ![r] = "none"]
    /\ agent' = [agent EXCEPT ![r] = "told"]
    /\ UNCHANGED <<handler, session, gone, subs, cancelled, inflight, running, pending, sending, newest>>

\* The context is done, even when a decision is there too: the entry is deleted
\* if it is still the pending one.
RequestCancelled(r) ==
    /\ agent[r] = "asking" /\ cancelled[r]
    /\ pending' = [pending EXCEPT ![session[r]] = IF @ = r THEN None ELSE @]
    /\ agent' = [agent EXCEPT ![r] = "told"]
    /\ UNCHANGED <<handler, session, gone, subs, cancelled, inflight, running, result, sending, newest>>

\* The loop runs to its end, with a connection for its last append or, cancelled,
\* with the error of the pool.
LoopOver(r) ==
    /\ agent[r] \in {"work", "told"} /\ (FreeConn \/ cancelled[r])
    /\ agent' = [agent EXCEPT ![r] = "over"]
    /\ UNCHANGED <<handler, session, gone, subs, cancelled, inflight, running, pending, result,
                   sending, newest>>

-----------------------------------------------------------------------------
(* Control.                                                                 *)

\* Faulty: the entry is looked up and stays in the map.
ResolveTakes_Keeps(s, d) ==
    /\ FreeConn /\ pending[s] # None
    /\ sending' = sending \cup {<<pending[s], d>>}
    /\ UNCHANGED <<handler, session, gone, subs, agent, cancelled, inflight, running, pending, result, newest>>

\* Approve and Deny: Resolve takes the entry out of the map under the lock; with
\* none there the call fails and nothing changes ...
ResolveTakes(s, d) ==
    /\ FreeConn /\ pending[s] # None
    /\ sending' = sending \cup {<<pending[s], d>>}
    /\ pending' = [pending EXCEPT ![s] = None]
    /\ UNCHANGED <<handler, session, gone, subs, agent, cancelled, inflight, running, result, newest>>

\* ... and sends the decision on the entry's channel after the unlock.
ResolveSends(r, d) ==
    /\ <<r, d>> \in sending
    /\ result' = [result EXCEPT ![r] = d]
    /\ sending' = sending \ {<<r, d>>}
    /\ UNCHANGED <<handler, session, gone, subs, agent, cancelled, inflight, running, pending, newest>>

\* Interrupt cancels the registered loop; with none registered it succeeds too.
InterruptRun(s) ==
    /\ FreeConn /\ running[s] # None
    /\ cancelled' = [cancelled EXCEPT ![running[s]] = TRUE]
    /\ UNCHANGED <<handler, session, gone, subs, agent, inflight, running, pending, result, sending, newest>>

HandlerStep(r) == SubscribeLog(r) \/ RelayReturns(r) \/ SubscriptionEnds(r) \/ Leave(r)
LoopStep(r) == RequestAnswered(r) \/ RequestCancelled(r) \/ LoopOver(r)

ControlNext ==
    \/ \E r \in Runs :
        \/ \E s \in Sessions : Enter(r, s)
        \/ HandlerStep(r) \/ ClientGone(r)
        \/ LoopRequests(r) \/ LoopStep(r)
        \/ \E d \in Decisions : ResolveSends(r, d)
    \/ \E s \in Sessions :
        \/ \E d \in Decisions : ResolveTakes(s, d)
        \/ InterruptRun(s)

\* Handlers, loops and goroutines go on when they can; the model and the tools
\* answer in time.  Nobody has to approve, interrupt or disconnect.
ControlFairness ==
    \A r \in Runs :
        /\ WF_controlVars(HandlerStep(r))
        /\ WF_controlVars(LoopStep(r))

ControlSpec == ControlInit /\ [][ControlNext]_controlVars /\ ControlFairness

-----------------------------------------------------------------------------

\* The slots taken are those of the handlers that are past acquireSlot and have
\* not returned, on every way out of them, and never more than the cap.
SlotsAreExact ==
    /\ inflight = Cardinality({r \in Runs : handler[r] \in {"subscribe", "relay", "return"}})
    /\ inflight <= MaxInFlight

\* The loop that asked last for a session's call, while it waits in Request and is
\* not cancelled, can be answered: its entry is pending, or a decision for it is on
\* its way.  No earlier Request that gives up takes its entry (Gate.Request).
AskCanBeAnswered ==
    \A s \in Sessions :
        LET r == newest[s] IN
        (r # None /\ agent[r] = "asking" /\ ~cancelled[r])
            => \/ pending[s] = r \/ result[r] # "none"
               \/ \E d \in Decisions : <<r, d>> \in sending

\* A decision is put on a Request's channel only by a Resolve that took its own
\* entry, only while that channel is empty and the Request waits for it or was
\* cancelled: no answer goes to another Request, and none is decided twice.
DecidesOnce ==
    \A r \in Runs :
        result'[r] \notin {"none", result[r]}
            => /\ result[r] = "none" /\ <<r, result'[r]>> \in sending
               /\ agent[r] = "asking" \/ cancelled[r]

\* An approval reaches the Request it is for, and that one only, however runs of a
\* session overlap, give up and ask again (Gate.Request, Gate.Resolve).
ApprovalsArrive == []AskCanBeAnswered /\ [][DecidesOnce]_controlVars

\* The slots are exact throughout, and in the end every call has returned, or its
\* loop waits for a user's decision: calls never end up waiting for the
\* connections of each other (Run streams "until the run reaches a terminal Result").
RunsReturn ==
    /\ []SlotsAreExact
    /\ <>[](\A r \in Runs : handler[r] \in {"new", "done"} \/ agent[r] = "asking")
=============================================================================
