---------------------------- MODULE Conversation ----------------------------
(***************************************************************************)
(* What the model is shown.  The loop keeps the conversation in the        *)
(* session log; before a turn the context manager folds the log into a     *)
(* window (app/agentctx), compacting it first when it has grown too large; *)
(* the window crosses the wire to the gateway (adapter/outbound/modelgw,   *)
(* modelgateway/adapter/inbound/grpc) and is put into the shape of the     *)
(* provider (adapter/outbound/providers).  The tools that live inside the  *)
(* loop are here too: the plan of todo_write, which every later window     *)
(* repeats, and the sub-agent, which runs on a fork of its parent's log.   *)
(*                                                                         *)
(* Sizes are counted in messages.  A run may be interrupted anywhere, and  *)
(* the next one resumes; a turn suspended at the approval gate is asked    *)
(* about again.                                                            *)
(***************************************************************************)
EXTENDS Naturals, Sequences, SequencesExt, FiniteSets, FiniteSetsExt

CONSTANTS
    ModelProviders,    \* subset of {"anthropic", "responses", "chat", "gemini"}
    CompactAt,         \* Config.threshold: the window size that is compacted
    MaxInputs,         \* bound on the runs of the session
    MaxReplies,        \* bound on the answers of the model
    SubAgentMaxDepth   \* BOLTROPE_SUBAGENT_MAX_DEPTH

ASSUME ConversationAssumption ==
    /\ ModelProviders \subseteq {"anthropic", "responses", "chat", "gemini"}
    /\ CompactAt \in Nat /\ MaxInputs \in Nat /\ MaxReplies \in Nat /\ SubAgentMaxDepth \in Nat

VARIABLES
    target,     \* the provider behind the gateway
    dialog,     \* the log of the session that runs: the events the window is made of
    phase,      \* the loop: "idle", "ready" for a turn, "sent" a request, in "tools"
    batch,      \* the calls of the turn that have no result yet
    suspended,  \* the call the last run was waiting at the gate for, or none
    outer,      \* the parents of a sub-agent that runs
    request,    \* the request the provider works on
    shown,      \* the positions of the log some request has shown
    inputs,     \* the runs so far
    replies     \* the answers so far

dialogVars == <<target, dialog, phase, batch, suspended, outer, request, shown, inputs, replies>>

-----------------------------------------------------------------------------
(* Messages.  A part is known by its kind and, for calls and results, the   *)
(* id and the name of the call.                                             *)

Part(kind, id, name) == [kind |-> kind, id |-> id, name |-> name]
TextPart == Part("text", 0, "")
ImagePart == Part("image", 0, "")
CallPart(c) == Part("call", c.id, c.name)
ResultPart(c) == Part("result", c.id, "")

Message(role, parts) == [role |-> role, parts |-> parts]

Summary == Message("user", <<Part("summary", 0, "")>>)
PlanNote(p) == Message("user", <<Part("plan", p, "")>>)

ToolNames == {"read", "todo_write", "spawn_subagent"}
NoCallYet == [id |-> 0, name |-> ""]

\* The events of the log that the window looks at.
MessageAppended(msg) == [e |-> "message", msg |-> msg]
AssistantMessage(calls) == [e |-> "assistant", msg |-> Message("assistant",
                                <<TextPart>> \o [i \in 1..Len(calls) |-> CallPart(calls[i])])]
ToolResult(c) == [e |-> "result", msg |-> Message("tool", <<ResultPart(c)>>)]
PlanUpdated(p) == [e |-> "plan", plan |-> p]
CompactionPerformed == [e |-> "compaction"]

-----------------------------------------------------------------------------
(* The window.                                                              *)

IsMessage(ev) == ev.e \in {"message", "assistant", "result"}

\* The position of the latest compaction boundary, 0 if there is none.
LastCompaction(log) == Max({0} \union {i \in 1..Len(log) : log[i].e = "compaction"})

LatestPlan(log) == Max({0} \union {i \in 1..Len(log) : log[i].e = "plan"})

\* A faulty boundary: the last message before it is still rendered.
LiveFrom_KeepsLast(log) ==
    LET before == {i \in 1..LastCompaction(log) : IsMessage(log[i])}
    IN  IF before = {} THEN 1 ELSE Max(before)

\* The first position that is rendered as it is.
LiveFrom(log) == LastCompaction(log) + 1

LiveMessages(log) == SelectSeq(SubSeq(log, LiveFrom(log), Len(log)), IsMessage)

\* BuildWindow: one summary for what precedes the boundary, the messages after
\* it, and the latest plan at the end.
BuildWindow(log) ==
    (IF \E i \in 1..LastCompaction(log) : IsMessage(log[i]) THEN <<Summary>> ELSE << >>)
    \o [k \in 1..Len(LiveMessages(log)) |-> LiveMessages(log)[k].msg]
    \o (IF LatestPlan(log) = 0 THEN << >> ELSE <<PlanNote(log[LatestPlan(log)].plan)>>)

\* The tokens of a window, and whether the manager compacts it: a threshold of
\* zero never triggers.
Count(window) == Len(window)
PlanCompaction(log) == CompactAt > 0 /\ Count(BuildWindow(log)) >= CompactAt

-----------------------------------------------------------------------------
(* The wire, there and back.  A part keeps its kind and its fields.         *)

ToRole(role) == CASE role = "user" -> "ROLE_USER"
                  [] role = "assistant" -> "ROLE_ASSISTANT"
                  [] role = "tool" -> "ROLE_TOOL"
ToLLMRole(role) == CASE role = "ROLE_USER" -> "user"
                     [] role = "ROLE_ASSISTANT" -> "assistant"
                     [] role = "ROLE_TOOL" -> "tool"

\* The gateway knows texts, images, calls and results: a summary or a plan
\* note is a text to it.
ToGen(p) == IF p.kind \in {"summary", "plan"} THEN [p EXCEPT !.kind = "text", !.name = p.kind] ELSE p

ToLLMRequest(msgs) ==
    [k \in 1..Len(msgs) |-> Message(ToLLMRole(ToRole(msgs[k].role)),
                                    [j \in 1..Len(msgs[k].parts) |-> ToGen(msgs[k].parts[j])])]

-----------------------------------------------------------------------------
(* The shape of each provider: who says it, and the parts of it.            *)

Only(parts, kinds) == SelectSeq(parts, LAMBDA p : p.kind \in kinds)
Says(who, parts) == [who |-> who, parts |-> parts]

\* Anthropic: every part a block, tool results in a user message.
BuildMessages(msgs) ==
    [k \in 1..Len(msgs) |-> Says(IF msgs[k].role = "assistant" THEN "assistant" ELSE "user", msgs[k].parts)]

\* Responses: a message for the texts, an item for each call and result.
\* Images are left out.
ConvertItems(m) ==
    LET texts == Only(m.parts, {"text"})
        Items(kind) == LET parts == Only(m.parts, {kind})
                       IN  [j \in 1..Len(parts) |-> Says(kind, <<parts[j]>>)]
    IN  CASE m.role = "user" -> <<Says("user", texts)>>
          [] m.role = "assistant" -> (IF texts = << >> THEN << >> ELSE <<Says("assistant", texts)>>)
                                     \o Items("call")
          [] m.role = "tool" -> Items("result")

\* Chat: the calls ride on the assistant message, a tool message per result.
ConvertChat(m) ==
    LET results == Only(m.parts, {"result"})
    IN  CASE m.role = "user" -> <<Says("user", Only(m.parts, {"text"}))>>
          [] m.role = "assistant" -> <<Says("assistant", Only(m.parts, {"text", "call"}))>>
          [] m.role = "tool" -> [j \in 1..Len(results) |-> Says("tool", <<results[j]>>)]

\* The name a Gemini function response carries: that of the latest call with
\* its id so far, none if there was no call.
CallName(msgs, k, p) ==
    LET at == {i \in 1..k : \E c \in ToSet(msgs[i].parts) : c.kind = "call" /\ c.id = p.id}
    IN  IF at = {} THEN ""
        ELSE (CHOOSE c \in ToSet(msgs[Max(at)].parts) : c.kind = "call" /\ c.id = p.id).name

BuildContents(msgs) ==
    LET all == [k \in 1..Len(msgs) |->
                  Says(IF msgs[k].role = "assistant" THEN "model" ELSE "user",
                       [j \in 1..Len(msgs[k].parts) |->
                          LET p == msgs[k].parts[j]
                          IN  IF p.kind = "result" THEN [p EXCEPT !.name = CallName(msgs, k, p)] ELSE p])]
    IN  SelectSeq(all, LAMBDA c : c.parts # << >>)

Build(p, msgs) ==
    CASE p = "anthropic" -> BuildMessages(msgs)
      [] p = "responses" -> FlattenSeq([k \in 1..Len(msgs) |-> ConvertItems(msgs[k])])
      [] p = "chat" -> FlattenSeq([k \in 1..Len(msgs) |-> ConvertChat(msgs[k])])
      [] p = "gemini" -> BuildContents(msgs)

-----------------------------------------------------------------------------
(* The loop.                                                                *)

DialogInit ==
    /\ target \in ModelProviders
    /\ dialog = << >> /\ phase = "idle" /\ batch = << >> /\ suspended = NoCallYet
    /\ outer = << >> /\ request = << >> /\ shown = {} /\ inputs = 0 /\ replies = 0

\* Run: a call suspended at the gate is asked about first.  Allowed or denied,
\* its result is fed back before the new input; abandoned, the run is over.
BeginRun(parts, answer) ==
    /\ phase = "idle" /\ inputs < MaxInputs
    /\ inputs' = inputs + 1
    /\ suspended' = NoCallYet
    /\ IF suspended = NoCallYet
       THEN answer = "answered" /\ phase' = "ready" /\ dialog' = Append(dialog, MessageAppended(Message("user", parts)))
       ELSE IF answer = "answered"
       THEN phase' = "ready" /\ dialog' = dialog \o <<ToolResult(suspended),
                                 MessageAppended(Message("tool", <<ResultPart(suspended)>>)),
                                 MessageAppended(Message("user", parts))>>
       ELSE phase' = "idle" /\ dialog' = dialog
    /\ UNCHANGED <<target, batch, outer, request, shown, replies>>

\* buildRequest and maybeCompact: a window at the threshold is compacted,
\* unless the count fails or a PreCompact hook vetoes it; the request is built
\* from the log as it is then, and goes out.
SendRequest(compacts) ==
    /\ phase = "ready" /\ replies < MaxReplies
    /\ compacts => PlanCompaction(dialog)
    /\ LET log == IF compacts THEN Append(dialog, CompactionPerformed) ELSE dialog
       IN  /\ dialog' = log
           /\ request' = Build(target, ToLLMRequest(BuildWindow(log)))
           /\ shown' = shown \union LiveFrom(log)..Len(log)
    /\ phase' = "sent"
    /\ UNCHANGED <<target, batch, suspended, outer, inputs, replies>>

\* virtualToolDefs: a sub-agent is on offer only below the depth cap, and the
\* spawner hands its children no spawner of their own.
Offered == IF outer = << >> /\ 0 < SubAgentMaxDepth THEN ToolNames ELSE ToolNames \ {"spawn_subagent"}

\* The run of the child is over: its result is one for the parent's call.  The
\* child's own log is not looked at again.
ReturnToParent ==
    /\ dialog' = Append(outer[1].dialog, ToolResult(Head(outer[1].batch)))
    /\ batch' = Tail(outer[1].batch)
    /\ shown' = outer[1].shown
    /\ phase' = "tools" /\ outer' = << >>

\* The turn is recorded.  Without calls the run ends.
Reply(names) ==
    /\ phase = "sent"
    /\ \A k \in 1..Len(names) : names[k] \in Offered
    /\ replies' = replies + 1
    /\ LET calls == [k \in 1..Len(names) |-> [id |-> 2 * replies + k, name |-> names[k]]]
       IN  IF calls # << >>
           THEN /\ dialog' = Append(dialog, AssistantMessage(calls))
                /\ batch' = calls /\ phase' = "tools" /\ UNCHANGED <<outer, shown>>
           ELSE IF outer # << >> THEN ReturnToParent
           ELSE /\ dialog' = Append(dialog, AssistantMessage(calls))
                /\ phase' = "idle" /\ UNCHANGED <<batch, outer, shown>>
    /\ request' = << >>
    /\ UNCHANGED <<target, suspended, inputs>>

\* condense: a child that ends with an error answers the call all the same.
ChildFails ==
    /\ outer # << >> /\ phase \in {"ready", "sent"}
    /\ ReturnToParent
    /\ request' = << >>
    /\ UNCHANGED <<target, suspended, inputs, replies>>

\* handleToolCalls: the result of the next call, after the plan it records.
SendResult ==
    /\ phase = "tools" /\ batch # << >>
    /\ Head(batch).name # "spawn_subagent"
    /\ dialog' = dialog \o (IF Head(batch).name = "todo_write" THEN <<PlanUpdated(Head(batch).id)>> ELSE << >>)
                        \o <<ToolResult(Head(batch))>>
    /\ batch' = Tail(batch)
    /\ UNCHANGED <<target, phase, suspended, outer, request, shown, inputs, replies>>

\* Spawn: the child's log is a fork of the parent's at its head, and the task
\* is its input.
SpawnChild ==
    /\ phase = "tools" /\ batch # << >> /\ Head(batch).name = "spawn_subagent"
    /\ outer' = <<[dialog |-> dialog, batch |-> batch, shown |-> shown]>>
    /\ dialog' = Append(dialog, MessageAppended(Message("user", <<TextPart>>)))
    /\ phase' = "ready" /\ batch' = << >>
    /\ UNCHANGED <<target, suspended, request, shown, inputs, replies>>

\* The results of the last assistant message, once more, in one tool message.
CallsOfTurn ==
    LET last == Max({i \in 1..Len(dialog) : dialog[i].e = "assistant"})
    IN  Only(dialog[last].msg.parts, {"call"})

SendMessage ==
    /\ phase = "tools" /\ batch = << >>
    /\ dialog' = Append(dialog, MessageAppended(Message("tool",
                    [k \in 1..Len(CallsOfTurn) |-> ResultPart(CallsOfTurn[k])])))
    /\ phase' = "ready"
    /\ UNCHANGED <<target, batch, suspended, outer, request, shown, inputs, replies>>

\* The run fails, is interrupted or its process dies.  A child dies with its
\* parent; a call of the parent's that waits at the gate is suspended.
RunStops(waiting) ==
    /\ phase # "idle"
    /\ waiting => phase = "tools" /\ batch # << >> /\ outer = << >>
    /\ suspended' = IF waiting THEN Head(batch) ELSE NoCallYet
    /\ dialog' = IF outer = << >> THEN dialog ELSE outer[1].dialog
    /\ shown' = IF outer = << >> THEN shown ELSE outer[1].shown
    /\ batch' = << >> /\ outer' = << >> /\ phase' = "idle" /\ request' = << >>
    /\ UNCHANGED <<target, inputs, replies>>

Inputs == {IF inputs = 0 THEN <<ImagePart, TextPart>> ELSE <<TextPart>>}
Replies == {<< >>} \union {<<a>> : a \in ToolNames} \union {<<a, "read">> : a \in ToolNames}

DialogNext ==
    \/ \E parts \in Inputs : \E answer \in {"answered", "abandoned"} : BeginRun(parts, answer)
    \/ \E compacts \in BOOLEAN : SendRequest(compacts)
    \/ \E names \in Replies : Reply(names)
    \/ ChildFails \/ SendResult \/ SpawnChild \/ SendMessage
    \/ \E waiting \in BOOLEAN : RunStops(waiting)

DialogSpec == DialogInit /\ [][DialogNext]_dialogVars

-----------------------------------------------------------------------------
(* The parts of the request, in order, with the place each is at.           *)
Atoms == FlattenSeq([k \in 1..Len(request) |-> request[k].parts])

(* A tool result is never shown without the call it answers, earlier in the *)
(* same request, and a Gemini response bears that call's name: compaction,  *)
(* forks and resumed runs never tear the two apart.                         *)
ResultsFollowCalls ==
    \A i \in 1..Len(Atoms) : Atoms[i].kind = "result" =>
        \E j \in 1..i - 1 : /\ Atoms[j].kind = "call" /\ Atoms[j].id = Atoms[i].id
                            /\ target = "gemini" => Atoms[i].name = Atoms[j].name

(* Once todo_write has recorded a plan, every request ends with the latest  *)
(* plan and holds no other, also after a compaction and in a sub-agent.     *)
PlanIsCurrent ==
    LET plans == {i \in 1..Len(dialog) : dialog[i].e = "plan"}
        notes == {i \in 1..Len(Atoms) : Atoms[i].name = "plan"}
    IN  phase = "sent" =>
        IF plans = {} THEN notes = {}
        ELSE notes = {Len(Atoms)} /\ Atoms[Len(Atoms)].id = dialog[Max(plans)].plan

(* What a model is shown is fit for it: no torn call and the current plan,  *)
(* for every provider, in resumed runs, after compactions and in children.  *)
RequestsAreFit == ResultsFollowCalls /\ PlanIsCurrent

(* A request answers a call at most once ("feed all results back as one     *)
(* tool message", tools.go).                                                *)
OneResultPerCall ==
    \A i, j \in 1..Len(Atoms) :
        Atoms[i].kind = "result" /\ Atoms[j].kind = "result" /\ Atoms[i].id = Atoms[j].id => i = j

-----------------------------------------------------------------------------
(* What the system specification says and the code does not keep.  No run   *)
(* checks it: the README, under "Where code and documents disagree", tells  *)
(* how it fails.                                                            *)

(* Only history is compacted: what a boundary hides, some request has       *)
(* shown.                                                                   *)
NothingHiddenUnseen ==
    \A i \in 1..LastCompaction(dialog) : IsMessage(dialog[i]) => i \in shown

============================================================================
