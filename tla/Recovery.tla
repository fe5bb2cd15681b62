------------------------------ MODULE Recovery ------------------------------
(***************************************************************************)
(* What the log of a session says about a run that did not end: the pure   *)
(* fold of internal/orchestrator/app/recovery, and the readings of the log *)
(* that the agent loop and the cost rollup take.  A log is a sequence of   *)
(* events; an event is a record whose field type is its EventType.         *)
(***************************************************************************)
EXTENDS Integers, Sequences, FiniteSetsExt

\* The positions, which are the seq numbers, of the events of a type.
Positions(log, type) == {i \in DOMAIN log : log[i].type = type}

\* An event of this type for turn t is in the log.
HasTurn(log, type, t) == \E i \in Positions(log, type) : log[i].turn = t

\* The turn ended: TurnFinished or TurnAborted.
Terminated(log, t) == HasTurn(log, "TurnFinished", t) \/ HasTurn(log, "TurnAborted", t)

\* The turn needs no adjudication: it ended, or its generation completed.
Closed(log, t) == Terminated(log, t) \/ HasTurn(log, "AssistantMessage", t)

\* The request at i is the latest of its call, and no decision followed it.
Unresolved(log, i) ==
    \A j \in DOMAIN log : j > i =>
        ~ (log[j].type \in {"ApprovalRequested", "PermissionDecided"} /\ log[j].call = log[i].call)

\* Faulty: the decisions that answered an ask are not looked at.
SuspendedApprovals_Resolved(log) ==
    {i \in Positions(log, "ApprovalRequested") : ~ Terminated(log, log[i].turn)}

\* SuspendedApprovals: asks that nobody answered, of turns that did not end.
SuspendedApprovals(log) ==
    {i \in Positions(log, "ApprovalRequested") :
        /\ Unresolved(log, i)
        /\ HasTurn(log, "TurnStarted", log[i].turn)
        /\ ~ Terminated(log, log[i].turn)}

\* Faulty: a turn in flight is not noticed.
OpenTurns_Missed(log) == {}

\* OpenTurns: turns whose generation was cut off, except the suspended ones.
OpenTurns(log) ==
    {i \in Positions(log, "TurnStarted") :
        /\ ~ Closed(log, log[i].turn)
        /\ \A j \in SuspendedApprovals(log) : log[j].turn # log[i].turn}

\* UnknownExecutions: the calls that were started and have no result.
UnknownExecutions(log) ==
    {i \in Positions(log, "ToolExecutionStarted") :
        \A j \in Positions(log, "ToolResult") : log[j].call # log[i].call}

-----------------------------------------------------------------------------
\* The cost that the events of a set of types carry together.
CostOf(log, types) == MapThenSumSet(LAMBDA i : log[i].cost, {i \in DOMAIN log : log[i].type \in types})

\* The bill: RollupFold and foldTotals add up the turn-terminal events.
Billed(log) == CostOf(log, {"TurnFinished", "TurnAborted"})
=============================================================================
