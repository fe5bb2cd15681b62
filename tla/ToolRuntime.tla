---------------------------- MODULE ToolRuntime ----------------------------
(***************************************************************************)
(* The tool runtime: the ExecuteTool use case                              *)
(* (internal/toolruntime/app/execute) over the durable ledger of tool      *)
(* executions (internal/toolruntime/adapter/outbound/dedup).               *)
(*                                                                         *)
(* A request names the tool call it is for and the idempotency key under   *)
(* which the ledger knows it.  Requests are served concurrently, also      *)
(* several with one key; each goes through the stages                      *)
(*                                                                         *)
(*   begin    resolve the tool, insert 'started' or read the ledger's row  *)
(*   gate     the egress check of an external tool                         *)
(*   run      the tool itself, and with it its side effect                 *)
(*   offload  large output moves to the blob store                         *)
(*   record   the terminal status is written to the ledger                 *)
(*                                                                         *)
(* and ends answered, with an observation, or failed: an error of the      *)
(* ledger, the blob store or the stream, a cancelled call, a dead process. *)
(***************************************************************************)
EXTENDS Naturals, FiniteSets

CONSTANTS
    Runs,        \* who may ask: runs of the agent loop
    Calls,       \* tool calls, records with a field kind
    Keys,        \* idempotency keys
    NoCall       \* the origin of an observation that no execution produced

ASSUME ToolAssumption == NoCall \notin Calls

VARIABLES
    ledger,      \* the tool_executions table: its rows by idempotency key
    exec         \* the requests received so far and how far each has come

vars == <<ledger, exec>>

Requests == [run : Runs, call : Calls, key : Keys]

\* An observation: the call whose execution produced its content, and is_error.
Observations == [of : Calls \cup {NoCall}, isError : BOOLEAN]
ErrResult == [of |-> NoCall, isError |-> TRUE]

Rows == [status : {"started", "completed", "failed"}, result : Observations]
Active == {"begin", "gate", "run", "offload", "record"}
\* ran: the tool was called, so its side effect has to be reckoned with.
Execs == [stage : Active \cup {"answered", "failed"}, ran : BOOLEAN,
          result : Observations, status : {"started", "completed", "failed"}]

\* Requests and rows come from those that may exist, with values of their types.
TypeOK ==
    /\ DOMAIN ledger \subseteq Keys
    /\ \A k \in DOMAIN ledger : ledger[k] \in Rows
    /\ DOMAIN exec \subseteq Requests
    /\ \A q \in DOMAIN exec : exec[q] \in Execs

Extend(f, x, v) == [y \in DOMAIN f \cup {x} |-> IF y = x THEN v ELSE f[y]]

Init == ledger = << >> /\ exec = << >>

-----------------------------------------------------------------------------
Goto(q, stage) == exec' = [exec EXCEPT ![q].stage = stage]

Answer(q, obs) == exec' = [exec EXCEPT ![q].stage = "answered", ![q].result = obs]

\* Go on to record obs with a terminal status.
ToRecord(q, obs, status) ==
    exec' = [exec EXCEPT ![q].stage = "record", ![q].result = obs, ![q].status = status]

At(q, stage) == q \in DOMAIN exec /\ exec[q].stage = stage

\* The ExecuteTool request arrives at the server.
Submit(q) ==
    /\ q \notin DOMAIN exec
    /\ exec' = Extend(exec, q, [stage |-> "begin", ran |-> FALSE, result |-> ErrResult, status |-> "started"])
    /\ UNCHANGED ledger

\* The registry knows no such tool: an error observation, and no ledger row.
UnknownTool(q) ==
    /\ At(q, "begin")
    /\ Answer(q, ErrResult)
    /\ UNCHANGED ledger

\* Begin inserts the row 'started' unless the key has one, and returns the row.
BeginRow(k) == IF k \in DOMAIN ledger THEN ledger[k] ELSE [status |-> "started", result |-> ErrResult]

Admit(q) == Goto(q, IF q.call.kind = "external" THEN "gate" ELSE "run")

\* The dedup guard: a completed row is the answer, anything else goes on.
Begin(q) ==
    /\ At(q, "begin")
    /\ ledger' = Extend(ledger, q.key, BeginRow(q.key))
    /\ IF BeginRow(q.key).status = "completed" THEN Answer(q, BeginRow(q.key).result) ELSE Admit(q)

\* Faulty: the denial is taken for what the tool said.
EgressGate_Claims(q) ==
    /\ At(q, "gate")
    /\ Goto(q, "run") \/ ToRecord(q, [of |-> q.call, isError |-> TRUE], "failed")
    /\ UNCHANGED ledger

\* The egress broker lets an external tool pass, or the call ends as failed.
EgressGate(q) ==
    /\ At(q, "gate")
    /\ Goto(q, "run") \/ ToRecord(q, ErrResult, "failed")
    /\ UNCHANGED ledger

\* The tool is called: its effect may happen, whatever it reports about it.  A result,
\* good or bad, goes on to the blob store; an execution error is recorded at once.
Run(q) ==
    /\ At(q, "run")
    /\ \E stage \in {"offload", "record"}, err \in BOOLEAN :
          /\ stage = "record" => err
          /\ exec' = [exec EXCEPT ![q] = [stage |-> stage, ran |-> TRUE, status |-> "failed",
                                          result |-> [of |-> q.call, isError |-> err]]]
    /\ UNCHANGED ledger

\* The output is small, or its bytes were put to the blob store.
Offload(q) ==
    /\ At(q, "offload")
    /\ ToRecord(q, exec[q].result, IF exec[q].result.isError THEN "failed" ELSE "completed")
    /\ UNCHANGED ledger

\* Faulty: the status is written and the result is not.
RecordTerminal_StatusOnly(q) ==
    /\ At(q, "record")
    /\ ledger' = [ledger EXCEPT ![q.key].status = exec[q].status]
    /\ Goto(q, "answered")

\* recordTerminal: an unconditional update of the row, whose failure is ignored.
RecordTerminal(q) ==
    /\ At(q, "record")
    /\ \/ ledger' = [ledger EXCEPT ![q.key] = [status |-> exec[q].status, result |-> exec[q].result]]
       \/ UNCHANGED ledger
    /\ Goto(q, "answered")

\* The request ends without an answer: a resolve, ledger, progress or blob error,
\* a cancelled context, or the end of the process.  The ledger keeps its row.
Fail(q) ==
    /\ q \in DOMAIN exec /\ exec[q].stage \in Active
    /\ Goto(q, "failed")
    /\ UNCHANGED ledger

Serve(q) == UnknownTool(q) \/ Begin(q) \/ EgressGate(q) \/ Run(q) \/ Offload(q) \/ RecordTerminal(q)

Next == \E q \in Requests : Submit(q) \/ Serve(q) \/ Fail(q)

\* A request that the server has received is served.
Fairness == \A q \in Requests : WF_vars(Serve(q))

Spec == Init /\ [][Next]_vars /\ Fairness

-----------------------------------------------------------------------------
\* The service that callers see: how far a request has come, inside, is hidden.
Service == INSTANCE ToolService WITH
    tasks <- [q \in DOMAIN exec |->
                [stage |-> IF exec[q].stage \in Active THEN "sent" ELSE exec[q].stage,
                 ran |-> exec[q].ran,
                 of |-> IF exec[q].stage = "answered" THEN exec[q].result.of ELSE NoCall]]

\* The runtime, with its ledger, keeps the promise of the tool service.
ImplementsToolService == Service!Spec

\* No effect without a durable trace of it: the row of the key is there before the
\* tool runs and stays, so a call that was cut off is found again as 'started'.
EffectLeavesARow == \A q \in DOMAIN exec : exec[q].ran => q.key \in DOMAIN ledger

\* What the ledger calls completed did happen: the stored observation comes from a
\* request of this key whose tool ran without an error.
CompletedRowIsTrue ==
    \A k \in DOMAIN ledger : ledger[k].status = "completed" =>
        /\ ~ ledger[k].result.isError
        /\ \E q \in DOMAIN exec : q.key = k /\ q.call = ledger[k].result.of /\ exec[q].ran

\* The key is completed, and no request that passed the guard before is still going on.
Settled(k) ==
    /\ k \in DOMAIN ledger /\ ledger[k].status = "completed"
    /\ \A q \in DOMAIN exec : q.key = k => exec[q].stage \in {"begin", "answered", "failed"}

\* "A retried call with a known-completed key returns the prior result instead of
\* re-running": however often a settled key is sent again, its row stays as it is and
\* no tool runs for it.
SettledIsForever ==
    [][\A k \in DOMAIN ledger : Settled(k) =>
          /\ Settled(k)'
          /\ ledger'[k] = ledger[k]
          /\ \A q \in DOMAIN exec : q.key = k => exec'[q].ran = exec[q].ran]_vars

\* Every request that reaches the server is answered, or its caller sees an error.
RequestsEnd == <>[](\A q \in DOMAIN exec : exec[q].stage \in {"answered", "failed"})

\* The ledger keeps its word across lost answers, crashes and requests sent again:
\* no effect without a row, no completed row without its effect, what is settled
\* stays, and every request comes to an end.
LedgerKeepsItsWord ==
    [](TypeOK /\ EffectLeavesARow /\ CompletedRowIsTrue) /\ SettledIsForever /\ RequestsEnd
=============================================================================
