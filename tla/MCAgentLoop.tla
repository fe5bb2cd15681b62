---------------------------- MODULE MCAgentLoop ----------------------------
(* Instances of AgentLoop for TLC, and what the idempotency key of a call is *)
(* documented to stand for.                                                  *)
EXTENDS AgentLoop

\* One call a turn: the smallest batch that can be asked about, crash and resume.
MCSingle == {<<"mutating">>}

\* Batches in which calls are serialized after reads, reads alone, and virtual calls.
MCBatches == {<<"readonly", "external", "mutating">>, <<"readonly", "readonly">>, <<"todo", "spawn">>}

\* A pair of calls that are not reads.
MCPair == {<<"mutating", "mutating">>}

\* Doom-loop detection switched off.
MCNever == -1

-----------------------------------------------------------------------------
\* The idempotency key is "hash(session_id, seq_of_ToolCall)", so what it stands for is
\* one call: the result of a call is its own, or an error, never that of another call.
ResultsAreOwn ==
    \A i \in Positions(log, "ToolResult") : log[i].of \in {log[i].call, NoCall}
=============================================================================
