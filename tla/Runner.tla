------------------------------- MODULE Runner -------------------------------
(***************************************************************************)
(* The projection worker (internal/orchestrator/projection/runner.go): it  *)
(* fetches a batch of the feed after its cursor, folds it, hands it to the *)
(* persistent projection (session cost rows, SIEM frames), saves the       *)
(* cursor, and then adds the cost of the batch to the metric counter.      *)
(*                                                                         *)
(* One step per call that leaves the process.  A call can fail, a save can *)
(* take effect although its answer is lost, and the process can die        *)
(* between any two steps.  There may be several workers on one             *)
(* subscription: while a deployment rolls over, the new process starts     *)
(* before the old one has ended, and nothing fences the old one out.       *)
(*                                                                         *)
(* Every row stands for a cost-bearing one; what it costs is told by which *)
(* rows were added and how often.                                          *)
(***************************************************************************)
EXTENDS EventFeed

CONSTANTS
    Workers,     \* the processes serving the subscription
    BatchSize,   \* Config.BatchSize
    MaxFaults    \* bound on failed calls and crashes

ASSUME RunnerAssumption == BatchSize \in Nat \ {0} /\ MaxFaults \in Nat

VARIABLES
    cursor,      \* the row of event_subscriptions
    delivered,   \* the rows the projection holds, keyed by global_id
    counted,     \* how often the metric counter got each row's cost
    pc,
    mem,         \* Runner.cursor
    batch,       \* the rows being folded
    faults

workerVars == <<pc, mem, batch>>
runnerVars == <<cursor, delivered, counted, workerVars, faults>>
vars == <<feedVars, runnerVars>>

NotCounted == [g \in 1..MaxEvents |-> 0]

\* f with the rows of B counted once more.
Plus(f, B) == [g \in 1..MaxEvents |-> IF g \in B THEN f[g] + 1 ELSE f[g]]

RunnerInit ==
    /\ cursor = ZeroCursor
    /\ delivered = {}
    /\ counted = NotCounted
    /\ pc = [w \in Workers |-> "down"]
    /\ mem = [w \in Workers |-> ZeroCursor]
    /\ batch = [w \in Workers |-> {}]
    /\ faults = 0

Fault ==
    /\ faults < MaxFaults
    /\ faults' = faults + 1

-----------------------------------------------------------------------------
\* Run: EnsureSubscription and LoadCursor.
Start(w) ==
    /\ pc[w] = "down"
    /\ pc' = [pc EXCEPT ![w] = "poll"]
    /\ mem' = [mem EXCEPT ![w] = cursor]
    /\ UNCHANGED <<feedVars, cursor, delivered, counted, batch, faults>>

\* B is what FetchBatch returns: the first BatchSize rows of the feed after c.
IsBatch(B, c) ==
    /\ Cardinality(B) <= BatchSize
    /\ B # Ready(c) => Cardinality(B) = BatchSize
    /\ \A g \in B, h \in Ready(c) : Less(At(h), At(g)) => h \in B

\* FetchBatch returns rows: foldAndAdvance begins.
Fetch(w) ==
    /\ pc[w] = "poll"
    /\ \E B \in SUBSET Ready(mem[w]) :
          /\ B # {}
          /\ IsBatch(B, mem[w])
          /\ batch' = [batch EXCEPT ![w] = B]
    /\ pc' = [pc EXCEPT ![w] = "project"]
    /\ UNCHANGED <<feedVars, cursor, delivered, counted, mem, faults>>

\* A poll that finds nothing: catchUp ends and waits for the next tick.
CaughtUp(w) ==
    /\ pc[w] = "poll"
    /\ Ready(mem[w]) = {}
    /\ UNCHANGED vars

\* Project: ON CONFLICT (global_id) DO NOTHING, so a row is held once.
Project(w) ==
    /\ pc[w] = "project"
    /\ pc' = [pc EXCEPT ![w] = "save"]
    /\ delivered' = delivered \cup batch[w]
    /\ UNCHANGED <<feedVars, cursor, counted, mem, batch, faults>>

\* Faulty: after an error the worker goes on behind the batch.
ProjectFails_GoesOn(w) ==
    /\ pc[w] = "project"
    /\ Fault
    /\ \E g \in batch[w] :
          /\ \A h \in batch[w] : ~ Less(At(g), At(h))
          /\ mem' = [mem EXCEPT ![w] = At(g)]
    /\ pc' = [pc EXCEPT ![w] = "poll"]
    /\ batch' = [batch EXCEPT ![w] = {}]
    /\ UNCHANGED <<feedVars, cursor, delivered, counted>>

\* Project returns an error after some of the rows: catchUp ends, and the next
\* tick fetches again from the same cursor.
ProjectFails(w) ==
    /\ pc[w] = "project"
    /\ Fault
    /\ \E D \in SUBSET batch[w] :
          /\ \A g \in D, h \in batch[w] : Less(At(h), At(g)) => h \in D
          /\ delivered' = delivered \cup D
    /\ pc' = [pc EXCEPT ![w] = "poll"]
    /\ batch' = [batch EXCEPT ![w] = {}]
    /\ UNCHANGED <<feedVars, cursor, counted, mem>>

\* Cursor.Advance: the new cursor is at row g, the last of batch B.
Advance(B, g) == g \in B /\ \A h \in B : ~ Less(At(g), At(h))

\* SaveCursor (an unconditional UPDATE); the in-memory cursor follows.
SaveCursor(w) ==
    /\ pc[w] = "save"
    /\ \E g \in batch[w] :
          /\ Advance(batch[w], g)
          /\ cursor' = At(g)
          /\ mem' = [mem EXCEPT ![w] = At(g)]
    /\ pc' = [pc EXCEPT ![w] = "emit"]
    /\ UNCHANGED <<feedVars, delivered, counted, batch, faults>>

\* SaveCursor returns an error, whether or not the UPDATE took effect.
SaveFails(w) ==
    /\ pc[w] = "save"
    /\ Fault
    /\ \/ \E g \in batch[w] : Advance(batch[w], g) /\ cursor' = At(g)
       \/ UNCHANGED cursor
    /\ pc' = [pc EXCEPT ![w] = "poll"]
    /\ batch' = [batch EXCEPT ![w] = {}]
    /\ UNCHANGED <<feedVars, delivered, counted, mem>>

\* addCost: the counter gets the cost of the batch.
Emit(w) ==
    /\ pc[w] = "emit"
    /\ counted' = Plus(counted, batch[w])
    /\ pc' = [pc EXCEPT ![w] = "poll"]
    /\ batch' = [batch EXCEPT ![w] = {}]
    /\ UNCHANGED <<feedVars, cursor, delivered, mem, faults>>

\* The process dies; the next one starts with an empty memory.
Crash(w) ==
    /\ pc[w] # "down"
    /\ Fault
    /\ pc' = [pc EXCEPT ![w] = "down"]
    /\ batch' = [batch EXCEPT ![w] = {}]
    /\ mem' = [mem EXCEPT ![w] = ZeroCursor]
    /\ UNCHANGED <<feedVars, cursor, delivered, counted>>

Work(w) == Start(w) \/ Fetch(w) \/ Project(w) \/ SaveCursor(w) \/ Emit(w)

RunnerNext ==
    \E w \in Workers : Work(w) \/ CaughtUp(w) \/ ProjectFails(w) \/ SaveFails(w) \/ Crash(w)

Init == FeedInit /\ RunnerInit

Next == (FeedNext /\ UNCHANGED runnerVars) \/ RunnerNext

Spec == Init /\ [][Next]_vars

\* A transaction ends, one way or the other (statement_timeout, the server ends
\* dead connections), and the poll ticker keeps the worker going.
Fairness ==
    /\ \A x \in 1..MaxTx : WF_vars((CommitTx(x) \/ AbortTx(x)) /\ UNCHANGED runnerVars)
    /\ \A w \in Workers : WF_vars(Work(w))

LiveSpec == Spec /\ Fairness

-----------------------------------------------------------------------------
Gids == 1..MaxEvents

PCs == {"down", "poll", "project", "save", "emit"}

(* The variables have the values the code gives them; a batch is held only  *)
(* between its fetch and the end of foldAndAdvance.                         *)
TypeOK ==
    /\ tx \in [1..MaxTx -> TxStates]
    /\ rows \in Seq(1..MaxTx) /\ Len(rows) <= MaxEvents
    /\ cursor \in Cursors
    /\ delivered \in SUBSET Gids
    /\ counted \in [Gids -> Nat]
    /\ pc \in [Workers -> PCs]
    /\ mem \in [Workers -> Cursors]
    /\ batch \in [Workers -> SUBSET Gids]
    /\ faults \in 0..MaxFaults
    /\ \A w \in Workers : pc[w] \in {"down", "poll"} <=> batch[w] = {}

(* No event is skipped: every committed row at or before the saved cursor   *)
(* is in the projection, although rows become visible out of the order of   *)
(* the feed and of their global_ids, saves are lost and several workers     *)
(* write the same cursor.                                                   *)
NothingSkipped ==
    \A g \in DOMAIN rows : Visible(g) /\ ~ Less(cursor, At(g)) => g \in delivered

(* The saved cursor of a subscription with one worker never moves back, not *)
(* even when the worker believes that a save which took effect has failed.  *)
CursorAdvances == [][cursor' = cursor \/ Less(cursor, cursor')]_vars

(* The monotonic cost counter never gets the cost of a row twice.           *)
CountedAtMostOnce == \A g \in Gids : counted[g] <= 1

(* Every committed event reaches the projection in the end: a long          *)
(* transaction holds the feed back, it does not lose what is behind it.     *)
EventuallyDelivered ==
    \A g \in Gids : (g \in DOMAIN rows /\ Visible(g)) ~> (g \in delivered)

(* The worker consumes the feed forward only, counts a row at most once and *)
(* delivers every committed one, across lost saves and crashes.             *)
FeedIsConsumed == CursorAdvances /\ []CountedAtMostOnce /\ EventuallyDelivered

=============================================================================
