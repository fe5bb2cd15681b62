----------------------------- MODULE AgentLoop -----------------------------
(***************************************************************************)
(* The agent loop (internal/orchestrator/app/agent) over the event log of  *)
(* one session and the tool runtime.                                       *)
(*                                                                         *)
(* Every client Run starts a loop of its own.  Nothing keeps two of them   *)
(* from working on the session at once, in one process or in two: what     *)
(* orders them is the optimistic append, which the loop does at the head   *)
(* it knows and which fails when another loop has appended since.  A loop  *)
(* can stop at any step: a crash, an interrupt, an error it returns.  The  *)
(* log and the tool runtime go on; the next Run adjudicates what it finds. *)
(*                                                                         *)
(* The log is the abstract one of SessionLog: one event per append, at the *)
(* head or not at all.                                                     *)
(***************************************************************************)
EXTENDS Recovery

CONSTANTS
    Loops,               \* loops that can be alive at the same time
    MaxRuns,             \* bound on the number of Run calls
    Batches,             \* the batches of tool calls a model may ask for, as sequences of kinds
    Decisions,           \* what hooks and policy may say of a call
    Costs,               \* what a turn may cost
    MaxTurns,            \* Config.MaxTurns
    MaxBudget,           \* Config.MaxBudgetUSD, 0 when there is no cap
    DoomLoopThreshold,   \* Config.DoomLoopThreshold
    MaxRetries,          \* Config.MaxStructuredOutputRetries
    Structured,          \* an output schema is configured
    Compaction,          \* a context manager is configured
    ReadOnlyConcurrency, \* Config.ReadOnlyConcurrency
    NoCall               \* no tool call

\* The kinds of tool.
Kinds == {"readonly", "mutating", "external", "todo", "spawn"}

ASSUME ConfigAssumption ==
    /\ MaxRuns \in Nat /\ MaxTurns \in Nat \ {0} /\ MaxBudget \in Nat
    /\ DoomLoopThreshold \in Int /\ MaxRetries \in Nat /\ ReadOnlyConcurrency \in Nat \ {0}
    /\ Costs \subseteq Nat
    /\ \A b \in Batches : b \in Seq(Kinds)
    /\ Decisions \subseteq {"deny", "allow", "ask"}
    /\ {Structured, Compaction} \subseteq BOOLEAN

VARIABLES
    log,        \* the committed events of the session
    loop,       \* the run state of each loop
    runs,       \* the number of Run calls so far
    tasks       \* the requests sent to the tool runtime

vars == <<log, loop, runs, tasks>>

\* todo_write and spawn_subagent are virtual: the loop answers them itself.
Virtual(c) == c.kind \in {"todo", "spawn"}
\* Only reads that stay inside are dispatched concurrently; todo_write is one.
Parallel(c) == c.kind \in {"readonly", "todo"}

\* The calls of a batch asked for in turn t: providers give every call an id of its own.
CallsOf(t, batch) == [i \in DOMAIN batch |-> [turn |-> t, i |-> i, kind |-> batch[i]]]

AllCalls == [turn : Nat, i : Nat, kind : Kinds]

\* The idempotency key is a hash of the session and the seq of the assistant message.
Tools == INSTANCE ToolService WITH Runs <- 1..MaxRuns, Calls <- AllCalls, Keys <- Nat

-----------------------------------------------------------------------------
(* The run state.  Besides the fields of runState it holds where the loop is, *)
(* the plan it took from the log when it started, and the batch it works on.  *)

\* A loop that is not running.
Idle ==
    [pc |-> "idle", run |-> 0, head |-> 0, turn |-> 0, asst |-> 0,
     numTurns |-> 0, cost |-> 0, retries |-> 0, sig |-> << >>, repeat |-> 0,
     suspended |-> {}, open |-> {}, reason |-> "none",
     calls |-> << >>, i |-> 1, sched |-> << >>, waiting |-> 0, results |-> << >>]

Init ==
    /\ log = <<[type |-> "SessionStarted"]>>
    /\ loop = [l \in Loops |-> Idle]
    /\ runs = 0
    /\ Tools!Init

\* The state next of a loop, at a new head unless it has ended.
AtHead(next, head) == IF next.pc = "idle" THEN next ELSE [next EXCEPT !.head = head]

\* append: the event lands when the loop's head is the head of the log, and the loop
\* goes on as next; otherwise the Run returns the conflict.
AppendEvent(l, ev, next) ==
    IF loop[l].head = Len(log)
      THEN /\ log' = Append(log, ev)
           /\ loop' = [loop EXCEPT ![l] = AtHead(next, Len(log) + 1)]
      ELSE /\ loop' = [loop EXCEPT ![l] = Idle]
           /\ UNCHANGED log

Set(l, next) == loop' = [loop EXCEPT ![l] = next] /\ UNCHANGED log

\* Turn ids are fresh.
NewTurn == Cardinality(Positions(log, "TurnStarted")) + 1

-----------------------------------------------------------------------------
(* Run: load, adjudicate what an earlier run left, append the user message. *)

\* Run is called: LoadSession gives the head.
StartRun(l) ==
    /\ loop[l].pc = "idle"
    /\ runs < MaxRuns
    /\ runs' = runs + 1
    /\ Set(l, [Idle EXCEPT !.pc = "load", !.run = runs + 1, !.head = Len(log)])
    /\ UNCHANGED tasks

\* adjudicateResume loads the events, perhaps more than the head it holds counts, and
\* analyzes them.
Analyze(l) ==
    /\ loop[l].pc = "load"
    /\ Set(l, [loop[l] EXCEPT !.pc = "resume", !.suspended = SuspendedApprovals(log), !.open = OpenTurns(log)])
    /\ UNCHANGED <<runs, tasks>>

\* The assistant message of a turn, 0 when there is none.
AssistantSeqOf(t) ==
    Max({0} \cup {i \in Positions(log, "AssistantMessage") : log[i].turn = t})

Decided(c, decision, resolved) ==
    [type |-> "PermissionDecided", call |-> c, decision |-> decision, resolved |-> resolved]

Started(l, c) == [type |-> "ToolExecutionStarted", call |-> c, key |-> loop[l].asst]

\* The next suspended ask becomes the current call and is raised again.
Reraise(l) ==
    /\ loop[l].pc = "resume" /\ loop[l].suspended # {}
    /\ LET ask == log[Min(loop[l].suspended)] IN
       Set(l, [loop[l] EXCEPT !.pc = "reraised", !.turn = ask.turn, !.asst = AssistantSeqOf(ask.turn),
                              !.calls = <<ask.call>>, !.results = <<NoCall>>, !.i = 1, !.sched = << >>])
    /\ UNCHANGED <<runs, tasks>>

\* Somebody answers in time: the decision is recorded, then the call is started, or
\* its denial fed back.
ResumeAnswered(l) ==
    /\ loop[l].pc = "reraised"
    /\ \/ AppendEvent(l, Decided(loop[l].calls[1], "ask", "allowed"), [loop[l] EXCEPT !.pc = "resumeStart"])
       \/ AppendEvent(l, Decided(loop[l].calls[1], "ask", "denied"), [loop[l] EXCEPT !.pc = "feed"])
    /\ UNCHANGED <<runs, tasks>>

ResumeStart(l) ==
    /\ loop[l].pc = "resumeStart"
    /\ AppendEvent(l, Started(l, loop[l].calls[1]), [loop[l] EXCEPT !.pc = "dispatch", !.sched = <<1>>])
    /\ UNCHANGED <<runs, tasks>>

\* Faulty: a resumed ask is waited for without a bound.
Abandon_Never(l) ==
    /\ loop[l].pc = "reraised"
    /\ Set(l, loop[l])
    /\ UNCHANGED <<runs, tasks>>

\* The bounded wait expires: the ask is closed as denied ...
Abandon(l) ==
    /\ loop[l].pc = "reraised"
    /\ AppendEvent(l, Decided(loop[l].calls[1], "ask", "denied"), [loop[l] EXCEPT !.pc = "abandoned"])
    /\ UNCHANGED <<runs, tasks>>

\* ... its turn is aborted, and the Run is over.
AbandonTurn(l) ==
    /\ loop[l].pc = "abandoned"
    /\ AppendEvent(l, [type |-> "TurnAborted", turn |-> loop[l].turn, cost |-> 0], Idle)
    /\ UNCHANGED <<runs, tasks>>

\* Each open turn is closed, with the usage of its checkpoints: there are none.
CloseOpenTurn(l) ==
    /\ loop[l].pc = "resume" /\ loop[l].suspended = {} /\ loop[l].open # {}
    /\ LET i == Min(loop[l].open) IN
       AppendEvent(l, [type |-> "TurnAborted", turn |-> log[i].turn, cost |-> 0],
                   [loop[l] EXCEPT !.open = @ \ {i}])
    /\ UNCHANGED <<runs, tasks>>

\* The user message, unless the Run carries none; then the turns begin.
UserMessage(l) ==
    /\ loop[l].pc = "resume" /\ loop[l].suspended = {} /\ loop[l].open = {}
    /\ \/ AppendEvent(l, [type |-> "MessageAppended", role |-> "user", calls |-> << >>], [loop[l] EXCEPT !.pc = "loop"])
       \/ Set(l, [loop[l] EXCEPT !.pc = "loop"])
    /\ UNCHANGED <<runs, tasks>>

-----------------------------------------------------------------------------
(* The turns *)

\* The caps are looked at before every turn.
OverBudget(l) == MaxBudget > 0 /\ loop[l].cost > MaxBudget

OutOfTurns(l) == loop[l].numTurns >= MaxTurns

\* terminate: a cap ends the run on a turn of its own.
Terminate(l) ==
    /\ loop[l].pc = "loop"
    /\ OverBudget(l) \/ OutOfTurns(l)
    /\ AppendEvent(l, [type |-> "TurnStarted", turn |-> NewTurn],
                   [loop[l] EXCEPT !.pc = "finish", !.turn = NewTurn,
                                   !.reason = IF OverBudget(l) THEN "error_max_budget_usd" ELSE "error_max_turns"])
    /\ UNCHANGED <<runs, tasks>>

\* maybeCompact: the window is too large, and the PreCompact hook lets it shrink.
Compact(l) ==
    /\ Compaction
    /\ loop[l].pc = "loop" /\ ~ OverBudget(l) /\ ~ OutOfTurns(l)
    /\ AppendEvent(l, [type |-> "CompactionPerformed"], [loop[l] EXCEPT !.pc = "compacted"])
    /\ UNCHANGED <<runs, tasks>>

\* TurnStarted is appended before the model is asked.
StartTurn(l) ==
    /\ \/ loop[l].pc = "compacted"
       \/ loop[l].pc = "loop" /\ ~ OverBudget(l) /\ ~ OutOfTurns(l)
    /\ AppendEvent(l, [type |-> "TurnStarted", turn |-> NewTurn],
                   [loop[l] EXCEPT !.pc = "stream", !.turn = NewTurn, !.numTurns = @ + 1])
    /\ UNCHANGED <<runs, tasks>>

\* The stream breaks, or its tool arguments do not parse (only then is the usage
\* known), or its price is not known while there is a cap to enforce.
StreamFails(l) ==
    /\ loop[l].pc = "stream"
    /\ \E c \in Costs \cup {0} :
          AppendEvent(l, [type |-> "TurnAborted", turn |-> loop[l].turn, cost |-> c], Idle)
    /\ UNCHANGED <<runs, tasks>>

\* The assembled message is appended; with tool calls, its seq makes their key.
StreamEnds(l) ==
    /\ loop[l].pc = "stream"
    /\ \E batch \in Batches \cup {<< >>}, c \in Costs :
          LET calls == CallsOf(loop[l].turn, batch) IN
          AppendEvent(l, [type |-> "AssistantMessage", turn |-> loop[l].turn, calls |-> calls, cost |-> c, run |-> loop[l].run],
                      [loop[l] EXCEPT !.pc = IF calls = << >> THEN "final" ELSE "batch", !.cost = @ + c,
                                      !.asst = Len(log) + 1, !.calls = calls, !.i = 1, !.sched = << >>,
                                      !.results = [i \in DOMAIN calls |-> NoCall]])
    /\ UNCHANGED <<runs, tasks>>

\* classifyFinal: a final message ends the run, unless it fails its schema and may be
\* asked for again.
FinalMessage(l) ==
    /\ loop[l].pc = "final"
    /\ \/ \E reason \in {"success", "refusal"} : Set(l, [loop[l] EXCEPT !.pc = "finish", !.reason = reason])
       \/ /\ Structured
          /\ IF loop[l].retries >= MaxRetries
               THEN Set(l, [loop[l] EXCEPT !.pc = "finish", !.reason = "error_max_structured_output_retries"])
               ELSE AppendEvent(l, [type |-> "MessageAppended", role |-> "retry", calls |-> << >>],
                                [loop[l] EXCEPT !.pc = "loop", !.retries = @ + 1])
    /\ UNCHANGED <<runs, tasks>>

\* Faulty: the cost of the run is billed on top of what its aborts were billed.
Finish_Doubles(l) ==
    /\ loop[l].pc = "finish"
    /\ AppendEvent(l, [type |-> "TurnFinished", turn |-> loop[l].turn, cost |-> loop[l].cost + CostOf(log, {"TurnAborted"}),
                       reason |-> loop[l].reason, numTurns |-> loop[l].numTurns], Idle)
    /\ UNCHANGED <<runs, tasks>>

\* finishTurn: the last turn is finished, with the cost of the whole run.
Finish(l) ==
    /\ loop[l].pc = "finish"
    /\ AppendEvent(l, [type |-> "TurnFinished", turn |-> loop[l].turn, cost |-> loop[l].cost,
                       reason |-> loop[l].reason, numTurns |-> loop[l].numTurns], Idle)
    /\ UNCHANGED <<runs, tasks>>

-----------------------------------------------------------------------------
(* handleToolCalls: a batch of tool calls *)

Signature(calls) == [i \in DOMAIN calls |-> calls[i].kind]

\* Faulty: the guard trips one repetition late.
DoomLoop_Late(repeat) == DoomLoopThreshold >= 0 /\ repeat > DoomLoopThreshold

DoomLoop(repeat) == DoomLoopThreshold >= 0 /\ repeat >= DoomLoopThreshold

\* detectDoomLoop: the same batch too often in a row ends the run before its calls.
CheckBatch(l) ==
    /\ loop[l].pc = "batch"
    /\ LET sig == Signature(loop[l].calls)
           repeat == IF DoomLoopThreshold < 0 THEN 0 ELSE IF sig = loop[l].sig THEN loop[l].repeat + 1 ELSE 1
           next == [loop[l] EXCEPT !.sig = IF DoomLoopThreshold < 0 THEN @ ELSE sig, !.repeat = repeat]
       IN IF DoomLoop(repeat)
            THEN Set(l, [next EXCEPT !.pc = "finish", !.reason = "error_doom_loop"])
            ELSE Set(l, [next EXCEPT !.pc = "gate"])
    /\ UNCHANGED <<runs, tasks>>

Gating(l, pc) == loop[l].pc = pc /\ loop[l].i <= Len(loop[l].calls)
Current(l) == loop[l].calls[loop[l].i]

\* A hook or a rule denies the call: its result stays the denial.
Deny(l) ==
    /\ Gating(l, "gate") /\ "deny" \in Decisions
    /\ AppendEvent(l, Decided(Current(l), "deny", "none"), [loop[l] EXCEPT !.i = @ + 1])
    /\ UNCHANGED <<runs, tasks>>

\* A rule or the mode allows the call.
Allow(l) ==
    /\ Gating(l, "gate") /\ "allow" \in Decisions
    /\ AppendEvent(l, Decided(Current(l), "allow", "none"), [loop[l] EXCEPT !.pc = "start"])
    /\ UNCHANGED <<runs, tasks>>

\* The call needs a human: the ask is recorded before the loop blocks on it ...
Ask(l) ==
    /\ Gating(l, "gate") /\ "ask" \in Decisions
    /\ AppendEvent(l, [type |-> "ApprovalRequested", turn |-> loop[l].turn, call |-> Current(l)],
                   [loop[l] EXCEPT !.pc = "ask"])
    /\ UNCHANGED <<runs, tasks>>

\* ... and its resolution after.
Resolved(l) ==
    /\ Gating(l, "ask")
    /\ \/ AppendEvent(l, Decided(Current(l), "ask", "allowed"), [loop[l] EXCEPT !.pc = "start"])
       \/ AppendEvent(l, Decided(Current(l), "ask", "denied"), [loop[l] EXCEPT !.pc = "gate", !.i = @ + 1])
    /\ UNCHANGED <<runs, tasks>>

\* The durable intent to execute; the execution follows when all calls are gated.
RecordIntent(l) ==
    /\ Gating(l, "start")
    /\ AppendEvent(l, Started(l, Current(l)),
                   [loop[l] EXCEPT !.pc = "gate", !.sched = Append(@, loop[l].i), !.i = @ + 1])
    /\ UNCHANGED <<runs, tasks>>

\* Every call has been gated.
Dispatch(l) ==
    /\ loop[l].pc = "gate" /\ loop[l].i > Len(loop[l].calls)
    /\ Set(l, [loop[l] EXCEPT !.pc = "dispatch", !.i = 1])
    /\ UNCHANGED <<runs, tasks>>

Request(l, p) == [run |-> loop[l].run, call |-> loop[l].calls[p], key |-> loop[l].asst]

\* The requests of this loop's current batch, and the reads among them still running.
Sent(l) == {p \in DOMAIN loop[l].calls : Request(l, p) \in DOMAIN tasks}
Stage(l, p) == tasks[Request(l, p)].stage
Running(l) == {p \in Sent(l) : Parallel(loop[l].calls[p]) /\ Stage(l, p) = "sent"}

\* Faulty: the loop does not wait for a call before it dispatches the next one.
ExecNext_NoWait(l) ==
    /\ loop[l].pc = "dispatch" /\ loop[l].sched # << >>
    /\ LET p == Head(loop[l].sched) IN
       /\ Tools!Submit(Request(l, p))
       /\ Set(l, [loop[l] EXCEPT !.sched = Tail(@)])
    /\ UNCHANGED runs

\* The next scheduled call: a virtual one is answered by the loop; a read goes to the
\* bounded pool; any other is sent and waited for.
ExecNext(l) ==
    /\ loop[l].pc = "dispatch" /\ loop[l].waiting = 0 /\ loop[l].sched # << >>
    /\ LET p == Head(loop[l].sched)
           c == loop[l].calls[p]
           next == [loop[l] EXCEPT !.sched = Tail(@)]
       IN /\ Parallel(c) => Cardinality(Running(l)) < ReadOnlyConcurrency
          /\ IF Virtual(c)
               THEN /\ \E of \in {c, NoCall} : Set(l, [next EXCEPT !.results[p] = of])
                    /\ UNCHANGED tasks
               ELSE /\ Tools!Submit(Request(l, p))
                    /\ Set(l, IF Parallel(c) THEN next ELSE [next EXCEPT !.waiting = p])
    /\ UNCHANGED runs

\* The call the loop waits for is answered.
Answered(l) ==
    /\ loop[l].pc = "dispatch" /\ loop[l].waiting # 0
    /\ Stage(l, loop[l].waiting) = "answered"
    /\ Set(l, [loop[l] EXCEPT !.waiting = 0])
    /\ UNCHANGED <<runs, tasks>>

\* A call failed: the Run returns the error, and its batch gets no results.
DispatchFails(l) ==
    /\ loop[l].pc = "dispatch"
    /\ \E p \in Sent(l) : Stage(l, p) = "failed"
    /\ loop[l].waiting # 0 => Stage(l, loop[l].waiting) # "sent"
    /\ Running(l) = {}
    /\ Set(l, Idle)
    /\ UNCHANGED <<runs, tasks>>

\* All calls are answered: their observations are the results.
Collect(l) ==
    /\ loop[l].pc = "dispatch" /\ loop[l].sched = << >> /\ loop[l].waiting = 0
    /\ \A p \in Sent(l) : Stage(l, p) = "answered"
    /\ Set(l, [loop[l] EXCEPT !.pc = "feed",
                  !.results = [p \in DOMAIN @ |-> IF p \in Sent(l) THEN tasks[Request(l, p)].of ELSE @[p]]])
    /\ UNCHANGED <<runs, tasks>>

\* A suspended ask is being worked on.
Resuming(l) == loop[l].suspended # {}

\* A todo_write that was accepted on the live path records its plan first.
FeedPlan(l) ==
    /\ Gating(l, "feed") /\ ~ Resuming(l)
    /\ Current(l).kind = "todo" /\ loop[l].results[loop[l].i] = Current(l)
    /\ AppendEvent(l, [type |-> "PlanUpdated", call |-> Current(l)], [loop[l] EXCEPT !.pc = "planned"])
    /\ UNCHANGED <<runs, tasks>>

\* One ToolResult per call, in the order of the batch.
FeedResult(l) ==
    /\ \/ Gating(l, "planned")
       \/ /\ Gating(l, "feed")
          /\ Resuming(l) \/ Current(l).kind # "todo" \/ loop[l].results[loop[l].i] # Current(l)
    /\ AppendEvent(l, [type |-> "ToolResult", call |-> Current(l), of |-> loop[l].results[loop[l].i]],
                   [loop[l] EXCEPT !.pc = "feed", !.i = @ + 1])
    /\ UNCHANGED <<runs, tasks>>

\* The tool message that carries the results; a resumed call rejoins adjudication.
FeedMessage(l) ==
    /\ loop[l].pc = "feed" /\ loop[l].i > Len(loop[l].calls)
    /\ AppendEvent(l, [type |-> "MessageAppended", role |-> "tool", calls |-> loop[l].calls],
                   IF Resuming(l)
                     THEN [loop[l] EXCEPT !.pc = "resume", !.suspended = @ \ {Min(@)}]
                     ELSE [loop[l] EXCEPT !.pc = "loop"])
    /\ UNCHANGED <<runs, tasks>>

-----------------------------------------------------------------------------
\* The loop ends between any two steps: the process dies, the client interrupts it,
\* or a load, a hook, the policy or the gate returns an error.
Stop(l) ==
    /\ loop[l].pc # "idle"
    /\ Set(l, Idle)
    /\ UNCHANGED <<runs, tasks>>

\* The steps that a loop takes by itself; in "ask" it is a human's turn.
Step(l) ==
    \/ Analyze(l) \/ Reraise(l) \/ ResumeStart(l) \/ Abandon(l) \/ AbandonTurn(l)
    \/ CloseOpenTurn(l) \/ UserMessage(l)
    \/ Terminate(l) \/ Compact(l) \/ StartTurn(l) \/ StreamFails(l) \/ StreamEnds(l)
    \/ FinalMessage(l) \/ Finish(l)
    \/ CheckBatch(l) \/ Deny(l) \/ Allow(l) \/ Ask(l) \/ RecordIntent(l) \/ Dispatch(l)
    \/ ExecNext(l) \/ Answered(l) \/ DispatchFails(l) \/ Collect(l)
    \/ FeedPlan(l) \/ FeedResult(l) \/ FeedMessage(l)

ToolStep == \E q \in DOMAIN tasks : Tools!Serve(q)

Next ==
    \/ \E l \in Loops : StartRun(l) \/ Step(l) \/ Resolved(l) \/ ResumeAnswered(l) \/ Stop(l)
    \/ ToolStep /\ UNCHANGED <<log, loop, runs>>

\* A loop that can take a step takes it, a request that can be served is served, and a
\* wait that is bounded runs out.  Nobody has to answer an ask.
Fairness ==
    /\ \A l \in Loops : WF_vars(Step(l))
    /\ WF_vars(ToolStep /\ UNCHANGED <<log, loop, runs>>)

Spec == Init /\ [][Next]_vars /\ Fairness

-----------------------------------------------------------------------------
\* How a run may end on a finished turn.
Reasons == {"success", "refusal", "error_max_turns", "error_max_budget_usd",
            "error_max_structured_output_retries", "error_doom_loop"}

\* The events of a session.
Events ==
    [type : {"SessionStarted", "CompactionPerformed"}]
      \cup [type : {"MessageAppended"}, role : {"user", "tool", "retry"}, calls : Seq(AllCalls)]
      \cup [type : {"TurnStarted"}, turn : Nat]
      \cup [type : {"AssistantMessage"}, turn : Nat, calls : Seq(AllCalls), cost : Nat, run : 1..MaxRuns]
      \cup [type : {"ApprovalRequested"}, turn : Nat, call : AllCalls]
      \cup [type : {"PermissionDecided"}, call : AllCalls, decision : {"allow", "deny", "ask"},
            resolved : {"none", "allowed", "denied"}]
      \cup [type : {"ToolExecutionStarted"}, call : AllCalls, key : Nat]
      \cup [type : {"ToolResult"}, call : AllCalls, of : AllCalls \cup {NoCall}]
      \cup [type : {"PlanUpdated"}, call : AllCalls]
      \cup [type : {"TurnAborted"}, turn : Nat, cost : Nat]
      \cup [type : {"TurnFinished"}, turn : Nat, cost : Nat, reason : Reasons, numTurns : Nat]

\* The log is made of these events, loops know a head it has had, and requests are
\* what the tool runtime takes.
TypeOK ==
    /\ log \in Seq(Events)
    /\ runs \in 0..MaxRuns
    /\ \A l \in Loops : loop[l].run \in 0..runs /\ loop[l].head <= Len(log)
    /\ Tools!TypeOK

\* A turn starts on a settled session: every earlier turn is closed, every ask that was
\* raised is answered, whatever crashed before and whoever else runs ("a turn awaiting
\* a human ask ... would be silently dropped on resume").
TurnsStartSettled ==
    \A i \in Positions(log, "TurnStarted"), j \in DOMAIN log : j < i =>
        LET ends(k) == /\ log[k].type \in {"AssistantMessage", "TurnFinished", "TurnAborted"}
                       /\ log[k].turn = log[j].turn
        IN /\ log[j].type = "TurnStarted" => \E k \in (j + 1)..(i - 1) : ends(k)
           /\ log[j].type = "ApprovalRequested" =>
                 \E k \in (j + 1)..(i - 1) :
                     ends(k) \/ (log[k].type = "PermissionDecided" /\ log[k].call = log[j].call)

\* A turn ends at most once, and once it has ended nothing more is recorded for it.
TurnsEndOnce ==
    \A i, j \in DOMAIN log :
        (i < j /\ log[i].type \in {"TurnFinished", "TurnAborted"}) =>
            CASE log[j].type \in {"TurnStarted", "AssistantMessage", "ApprovalRequested", "TurnFinished", "TurnAborted"}
                      -> log[j].turn # log[i].turn
              [] log[j].type \in {"PermissionDecided", "ToolExecutionStarted", "ToolResult"}
                      -> log[j].call.turn # log[i].turn
              [] OTHER -> TRUE

\* The call was allowed, by a rule or by a human, before position n.
AllowedBefore(c, n) ==
    \E i \in Positions(log, "PermissionDecided") :
        i < n /\ log[i].call = c /\ (log[i].decision = "allow" \/ log[i].resolved = "allowed")

\* No call reaches the tool runtime that was not allowed and then recorded as started,
\* in this order and in the committed log.
DispatchedIsRecorded ==
    \A q \in DOMAIN tasks :
        \E i \in Positions(log, "ToolExecutionStarted") :
            log[i].call = q.call /\ log[i].key = q.key /\ AllowedBefore(q.call, i)

\* The turns of the committed log are well formed, whatever crashes, resumes and
\* overlaps: they start settled, end once, and run no call that is not in them.
TurnsAreWellFormed == TypeOK /\ TurnsStartSettled /\ TurnsEndOnce /\ DispatchedIsRecorded

\* At most once: however runs crash, resume and overlap, no tool call has its side
\* effect twice, is started twice, or is answered twice.
AtMostOnce ==
    /\ \A p, q \in DOMAIN tasks : (p.call = q.call /\ tasks[p].ran /\ tasks[q].ran) => p = q
    /\ \A type \in {"ToolExecutionStarted", "ToolResult"} :
          \A i, j \in Positions(log, type) : log[i].call = log[j].call => i = j

\* Of the calls of one run that are not plain reads, one at a time is in the runtime:
\* "mutations never overlap".
MutationsAreSerial ==
    \A p, q \in DOMAIN tasks :
        (/\ p.run = q.run
         /\ tasks[p].stage = "sent" /\ tasks[q].stage = "sent"
         /\ ~ Parallel(p.call) /\ ~ Parallel(q.call)) => p = q

\* A model is asked only within the caps: turns are counted, and a run that has spent
\* more than its budget asks no more.
WithinCaps ==
    \A l \in Loops : loop[l].pc \in {"stream", "compacted"} =>
        /\ loop[l].numTurns <= MaxTurns
        /\ MaxBudget > 0 => CostOf(SelectSeq(log, LAMBDA e : e.type = "AssistantMessage" /\ e.run = loop[l].run),
                                    {"AssistantMessage"}) <= MaxBudget

\* The n latest batches that the run of the message at i asked for are all the same.
Repeats(i, n) ==
    LET mine == SelectSeq(SubSeq(log, 1, i),
                          LAMBDA e : e.type = "AssistantMessage" /\ e.run = log[i].run /\ e.calls # << >>)
    IN /\ Len(mine) >= n
       /\ \A k \in (Len(mine) - n + 1)..Len(mine) : Signature(mine[k].calls) = Signature(log[i].calls)

\* A batch that a run repeats DoomLoopThreshold times in a row is not executed that
\* time: no call of it is decided on or started.
DoomLoopsStop ==
    DoomLoopThreshold > 0 =>
        \A i \in Positions(log, "AssistantMessage") :
            (log[i].calls # << >> /\ Repeats(i, DoomLoopThreshold)) =>
                \A j \in Positions(log, "PermissionDecided") \cup Positions(log, "ToolExecutionStarted") :
                    log[j].call.turn # log[i].turn

\* Every run is bounded, by its caps and by the detection of doom loops (checkCaps
\* before each turn, the doom loop check after each answer).
RunsAreBounded == WithinCaps /\ DoomLoopsStop

\* What was generated, as its own events tell it.
Spent(l) == CostOf(l, {"AssistantMessage", "TurnAborted"})

\* "Partial generation is never silently re-billed": over crashes and resumes the bill
\* of the session never exceeds what its turns cost.
NeverBilledTwice == Billed(log) <= Spent(log)

\* A run that is not waiting for a human ends, without anybody's help: the resumed ask
\* times out, the turns run out, the tool calls end.
RunsEnd == \A l \in Loops : (loop[l].pc # "idle") ~> (loop[l].pc \in {"idle", "ask"})
=============================================================================
