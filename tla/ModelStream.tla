---------------------------- MODULE ModelStream ----------------------------
(***************************************************************************)
(* One model turn on its way from a provider to the agent loop: the wire   *)
(* of the provider, its normaliser and stream reader (modelgateway/adapter *)
(* /outbound/providers), the retry decorator (app/retry), the costing      *)
(* reader (app/service.go), the gRPC server of the gateway, the client of  *)
(* the orchestrator (adapter/outbound/modelgw) and the assembler of the    *)
(* loop with its continuation of paused turns (app/agent).                 *)
(*                                                                         *)
(* What the model says is a sequence of tool calls, some text and a reason *)
(* to stop.  The arguments of call i are the fragments <<i,1>> .. <<i,k>>; *)
(* a generation cut off by its token limit leaves the last call with fewer *)
(* fragments than it wanted.  A call with no fragment reads as {}.         *)
(***************************************************************************)
EXTENDS Naturals, Sequences, SequencesExt, FiniteSets, FiniteSetsExt

CONSTANTS
    Providers,         \* subset of {"anthropic", "responses", "chat", "gemini", "stub"}
    MaxToolCalls,      \* bound on the tool calls of a turn
    MaxAttempts,       \* retry.Config.MaxAttempts
    MaxPauses,         \* maxPauseContinuations
    MaxStreamFaults    \* bound on failed opens, broken and cut streams

ASSUME StreamAssumption ==
    /\ Providers \subseteq {"anthropic", "responses", "chat", "gemini", "stub"}
    /\ MaxToolCalls \in Nat /\ MaxStreamFaults \in Nat
    /\ MaxAttempts \in Nat \ {0} /\ MaxPauses \in Nat \ {0}

VARIABLES
    provider,   \* the provider the gateway is configured with
    turn,       \* what the model says in answer to this request
    wire,       \* what the provider has still to send
    broke,      \* how the wire ended before its time: "no", "cut" or an error kind
    norm,       \* the state of the stream normaliser
    buf,        \* normalised events the reader has not returned yet
    gateway,    \* the Generate handler of the gateway
    bill,       \* the cost reports of the turn: the cost in each
    net,        \* the response stream between gateway and orchestrator
    acc,        \* the accumulator of the assembler
    caller,     \* the agent loop: where it is, and the pauses so far
    troubles    \* the faults so far

streamVars == <<provider, turn, wire, broke, norm, buf, gateway, bill, net, acc, caller, troubles>>

FullArgs == 2     \* the fragments of the arguments of a call that has any

\* The tokens of a turn: prompt tokens that were cached and that were not, and
\* output tokens, some of them when the provider starts to report.
Usage(input, cached, output) == [input |-> input, cached |-> cached, output |-> output]
NoUsage == Usage(0, 0, 0)
FirstUsage == Usage(2, 1, 1)
FullUsage == Usage(2, 1, 3)

\* usageCost, with rates that tell the counters apart.
UsageCost(u) == 10 * u.input + u.cached + 50 * u.output

RetryableKinds == {"rate_limited", "overloaded", "server", "timeout"}

-----------------------------------------------------------------------------
(* What the model says, and how each provider puts it on the wire.          *)

CallId(i) == <<"call", i>>
Fragment(i, j) == <<i, j>>

Call(i, want, got) == [id |-> CallId(i), want |-> want, frags |-> [j \in 1..got |-> Fragment(i, j)]]

\* The calls of a turn that ends by itself, and of one cut off by its limit.
WholeCalls == UNION {{[i \in 1..n |-> Call(i, want[i], want[i])] : want \in [1..n -> {0, FullArgs}]}
                     : n \in 0..MaxToolCalls}
CutCalls == {Append(Front(calls), Call(Len(calls), FullArgs, got))
             : calls \in WholeCalls \ {<< >>}, got \in 0..FullArgs - 1}

\* The turns a provider can answer with.
Turns(p) ==
    {[calls |-> calls, reason |-> IF calls = << >> THEN "stop" ELSE "tools"]
        : calls \in IF p = "stub" THEN {<< >>} ELSE WholeCalls}
    \union {[calls |-> calls, reason |-> "length"]
        : calls \in IF p \in {"stub", "gemini"} THEN {} ELSE CutCalls}
    \union {[calls |-> << >>, reason |-> r]
        : r \in CASE p = "anthropic" -> {"refusal", "pause"} [] p = "responses" -> {"failed", "filtered"}
                 [] p \in {"chat", "gemini"} -> {"filtered"} [] OTHER -> {}}

\* The word each API has for the reason; for an incomplete response of the
\* Responses API it is that of its details.
RawReason(p, reason) ==
    CASE p = "anthropic" ->
           (CASE reason = "stop" -> "end_turn" [] reason = "tools" -> "tool_use"
              [] reason = "length" -> "max_tokens" [] reason = "pause" -> "pause_turn" [] OTHER -> reason)
      [] p = "responses" ->
           (CASE reason = "length" -> "max_output_tokens" [] reason = "filtered" -> "content_filter"
              [] OTHER -> "completed")
      [] p = "chat" ->
           (CASE reason = "tools" -> "tool_calls" [] reason = "filtered" -> "content_filter" [] OTHER -> reason)
      [] p = "gemini" -> (IF reason = "filtered" THEN "SAFETY" ELSE "STOP")

\* The prompt tokens of the OpenAI and Gemini APIs include the cached ones.
PromptUsage(u) == [prompt |-> u.input + u.cached, cached |-> u.cached, output |-> u.output]

Piece(i, j, t) == [w |-> "piece", i |-> i, id |-> t.calls[i].id, frag |-> t.calls[i].frags[j]]
Opening(i, t) == [w |-> "start", i |-> i, id |-> t.calls[i].id]

\* One call after the other, its opening first.
InTurn(t) == FlattenSeq([i \in 1..Len(t.calls) |->
    <<Opening(i, t)>> \o [j \in 1..Len(t.calls[i].frags) |-> Piece(i, j, t)]])

\* All openings first: the fragments of different calls alternate.
Alternating(t) ==
    [i \in 1..Len(t.calls) |-> Opening(i, t)] \o
    FlattenSeq([j \in 1..FullArgs |-> FlattenSeq([i \in 1..Len(t.calls) |->
        IF j <= Len(t.calls[i].frags) THEN <<Piece(i, j, t)>> ELSE << >>])])

\* Server-sent events of the Messages API.
AnthropicWire(t) == {
    <<[w |-> "message_start", usage |-> FirstUsage], [w |-> "text"]>> \o InTurn(t)
        \o <<[w |-> "message_delta", reason |-> RawReason("anthropic", t.reason), usage |-> FullUsage], [w |-> "message_stop"]>>}

\* Typed events of the Responses API: the last one holds the whole response.
ResponsesWire(t) == {
    <<[w |-> "text"], [w |-> "ignored"],
      IF t.reason = "failed" THEN [w |-> "failed"]
      ELSE [w |-> "terminal", calls |-> t.calls, reason |-> RawReason("responses", t.reason),
            usage |-> PromptUsage(FullUsage)]>>}

\* Chunks of a chat completion: the usage follows the chunk with the reason.
ChatWire(t) == {
    <<[w |-> "text"]>> \o calls
        \o <<[w |-> "finish", reason |-> RawReason("chat", t.reason)], [w |-> "usage", usage |-> PromptUsage(FullUsage)]>>
        : calls \in {InTurn(t), Alternating(t)}}

\* Chunks of candidates: a call comes whole, the last chunk has the reason.
GeminiWire(t) == {
    <<[w |-> "text"]>> \o [i \in 1..Len(t.calls) |-> [w |-> "call", call |-> t.calls[i]]]
        \o <<[w |-> "finish", reason |-> RawReason("gemini", t.reason), usage |-> PromptUsage(FullUsage)]>>}

\* The stub has its two events ready.
StubWire(t) == {<<[w |-> "text"], [w |-> "finish", reason |-> "stop", usage |-> FullUsage]>>}

Wires(p, t) ==
    CASE p = "anthropic" -> AnthropicWire(t)
      [] p = "responses" -> ResponsesWire(t)
      [] p = "chat" -> ChatWire(t)
      [] p = "gemini" -> GeminiWire(t)
      [] p = "stub" -> StubWire(t)

-----------------------------------------------------------------------------
(* The normalisers.  Each takes its state and one wire event to a new state *)
(* and the stream events it produces.                                       *)

TextDelta == [k |-> "text"]
ToolCallDelta(id, frags) == [k |-> "call", id |-> id, frags |-> frags]
Done(reason, usage) == [k |-> "done", reason |-> reason, usage |-> usage]

NoNorm == [calls |-> << >>, usage |-> NoUsage, reason |-> "", done |-> FALSE]
Makes(n, out) == [n |-> n, out |-> out]

AnthropicStop(raw) ==
    CASE raw = "end_turn" -> "end"
      [] raw = "pause_turn" -> "pause"
      [] raw \in {"max_tokens", "tool_use", "stop_sequence", "refusal"} -> raw
      [] OTHER -> "other"

\* A function call in the output makes the reason tool_use, whatever the status.
ResponsesStop(calls, status) ==
    CASE calls # << >> -> "tool_use"
      [] calls = << >> /\ status = "max_output_tokens" -> "max_tokens"
      [] calls = << >> /\ status = "content_filter" -> status
      [] calls = << >> /\ status = "completed" -> "end"
      [] OTHER -> "other"

\* A stream without a reason ends like any other.
ChatStop(raw) ==
    CASE raw \in {"stop", ""} -> "end"
      [] raw = "length" -> "max_tokens"
      [] raw \in {"tool_calls", "function_call"} -> "tool_use"
      [] raw = "content_filter" -> raw
      [] OTHER -> "other"

GeminiStop(raw) ==
    CASE raw = "STOP" -> "end"
      [] raw = "MAX_TOKENS" -> "max_tokens"
      [] raw \in {"SAFETY", "RECITATION"} -> "content_filter"
      [] OTHER -> "other"

\* The larger of the figures seen, counter by counter.
MergeUsage(base, next) == [c \in DOMAIN base |-> Max({base[c], next[c]})]

\* Cached prompt tokens are not input tokens.
NormalizeChatUsage(u) == Usage(Max({u.prompt - u.cached, 0}), u.cached, u.output)
NormalizeResponsesUsage(u) == Usage(Max({u.prompt - u.cached, 0}), u.cached, u.output)
NormalizeGeminiUsage(u) == Usage(Max({u.prompt - u.cached, 0}), u.cached, u.output)

\* A call is known by the index of its content block; usage is the larger of
\* the figures at the start and in the message delta.
AnthropicNext(n, ev) ==
    CASE ev.w = "message_start" -> Makes([n EXCEPT !.usage = MergeUsage(@, ev.usage)], << >>)
      [] ev.w = "text" -> Makes(n, <<TextDelta>>)
      [] ev.w = "start" -> Makes([n EXCEPT !.calls = Append(@, [i |-> ev.i, id |-> ev.id])],
                                 <<ToolCallDelta(ev.id, << >>)>>)
      [] ev.w = "piece" -> Makes(n, <<ToolCallDelta(
                                 (CHOOSE b \in ToSet(n.calls) : b.i = ev.i).id, <<ev.frag>>)>>)
      [] ev.w = "message_delta" -> Makes([n EXCEPT !.reason = ev.reason, !.usage = MergeUsage(@, ev.usage)], << >>)
      [] ev.w = "message_stop" -> IF n.done THEN Makes(n, << >>)
                                  ELSE Makes([n EXCEPT !.done = TRUE], <<Done(AnthropicStop(n.reason), n.usage)>>)

\* The calls come out of the final response; a failed one has no usage.
TerminalFromResponse(ev) ==
    [i \in 1..Len(ev.calls) |-> ToolCallDelta(ev.calls[i].id, ev.calls[i].frags)]
        \o <<Done(ResponsesStop(ev.calls, ev.reason), NormalizeResponsesUsage(ev.usage))>>

ResponsesNext(n, ev) ==
    CASE n.done \/ ev.w = "ignored" -> Makes(n, << >>)
      [] ~n.done /\ ev.w = "text" -> Makes(n, <<TextDelta>>)
      [] ~n.done /\ ev.w = "terminal" -> Makes([n EXCEPT !.done = TRUE], TerminalFromResponse(ev))
      [] ~n.done /\ ev.w = "failed" -> Makes([n EXCEPT !.done = TRUE], <<Done("other", NoUsage)>>)

\* A faulty accumulator: a fragment goes to the call that was opened last.
AccumulateToolCall_NewestCall(calls, ev) ==
    IF ev.w = "start" THEN Append(calls, [i |-> ev.i, id |-> ev.id, frags |-> << >>])
    ELSE [calls EXCEPT ![Len(calls)].frags = Append(@, ev.frag)]

\* Fragments are gathered per index and leave with the end of the stream.
AccumulateToolCall(calls, ev) ==
    IF ev.w = "start" THEN Append(calls, [i |-> ev.i, id |-> ev.id, frags |-> << >>])
    ELSE LET at == CHOOSE k \in 1..Len(calls) : calls[k].i = ev.i
         IN  [calls EXCEPT ![at].frags = Append(@, ev.frag)]

ChatNext(n, ev) ==
    CASE ev.w = "text" -> Makes(n, <<TextDelta>>)
      [] ev.w \in {"start", "piece"} -> Makes([n EXCEPT !.calls = AccumulateToolCall(@, ev)], << >>)
      [] ev.w = "finish" -> Makes([n EXCEPT !.reason = ev.reason], << >>)
      [] ev.w = "usage" -> Makes([n EXCEPT !.usage = NormalizeChatUsage(ev.usage)], << >>)

\* The end of a chat stream: the gathered calls, then a Done, even when no
\* chunk had a reason.
ChatFinish(n) ==
    [i \in 1..Len(n.calls) |-> ToolCallDelta(n.calls[i].id, n.calls[i].frags)]
        \o <<Done(ChatStop(n.reason), n.usage)>>

GeminiNext(n, ev) ==
    CASE ev.w = "text" -> Makes(n, <<TextDelta>>)
      [] ev.w = "call" -> Makes(n, <<ToolCallDelta(ev.call.id, ev.call.frags)>>)
      [] ev.w = "finish" -> Makes([n EXCEPT !.done = TRUE],
                                  IF n.done THEN << >>
                                  ELSE <<Done(GeminiStop(ev.reason), NormalizeGeminiUsage(ev.usage))>>)

\* A defensive Done when no chunk had a reason.
GeminiFinish(n) == IF n.done THEN << >> ELSE <<Done("other", NoUsage)>>

StubNext(n, ev) ==
    IF ev.w = "text" THEN Makes(n, <<TextDelta>>) ELSE Makes(n, <<Done("end", ev.usage)>>)

NormNext(n, ev) ==
    CASE provider = "anthropic" -> AnthropicNext(n, ev)
      [] provider = "responses" -> ResponsesNext(n, ev)
      [] provider = "chat" -> ChatNext(n, ev)
      [] provider = "gemini" -> GeminiNext(n, ev)
      [] provider = "stub" -> StubNext(n, ev)

\* What the reader adds when the wire has ended without an error.
NormFinish(n) ==
    CASE provider = "chat" -> ChatFinish(n)
      [] provider = "gemini" -> GeminiFinish(n)
      [] OTHER -> << >>

-----------------------------------------------------------------------------
(* Failures: the kind of a provider's HTTP status, the gRPC code it crosses *)
(* to the orchestrator with, and the kind the orchestrator reads it as.  A  *)
(* broken connection is a server error to every adapter.                    *)

HttpStatuses == {400, 401, 408, 429, 500, 529}

MapAPIError(status) ==
    CASE status = 429 -> "rate_limited"
      [] status = 529 -> "overloaded"
      [] status \in {401, 403} -> "auth"
      [] status >= 500 /\ status # 529 -> "server"
      [] OTHER -> "invalid_request"

OpenAIKindForStatus(status) ==
    CASE status = 429 -> "rate_limited"
      [] status \in {401, 403} -> "auth"
      [] status \in {408, 504} -> "timeout"
      [] status >= 500 /\ status # 504 -> "server"
      [] OTHER -> "invalid_request"

CompatKindForStatus(status) ==
    CASE status = 429 -> "rate_limited"
      [] status \in {401, 403} -> "auth"
      [] status \in {408, 504} -> "timeout"
      [] status >= 500 /\ status # 504 -> "server"
      [] OTHER -> "invalid_request"

GeminiKindForStatus(status) ==
    CASE status = 429 -> "rate_limited"
      [] status \in {401, 403} -> "auth"
      [] status = 529 -> "overloaded"
      [] status >= 500 /\ status # 529 -> "server"
      [] OTHER -> "invalid_request"

KindForStatus(status) ==
    CASE provider = "anthropic" -> MapAPIError(status)
      [] provider = "responses" -> OpenAIKindForStatus(status)
      [] provider = "chat" -> CompatKindForStatus(status)
      [] provider = "gemini" -> GeminiKindForStatus(status)

StatusFromError(kind) ==
    CASE kind = "rate_limited" -> "ResourceExhausted"
      [] kind = "auth" -> "Unauthenticated"
      [] kind = "invalid_request" -> "InvalidArgument"
      [] kind = "timeout" -> "DeadlineExceeded"
      [] OTHER -> "Unavailable"

MapGRPCError(code) ==
    CASE code = "ResourceExhausted" -> "rate_limited"
      [] code \in {"Unauthenticated", "PermissionDenied"} -> "auth"
      [] code \in {"InvalidArgument", "FailedPrecondition"} -> "invalid_request"
      [] code = "DeadlineExceeded" -> "timeout"
      [] OTHER -> "server"

\* The enumeration a stop reason crosses in, and back.
ToGenStopReason(reason) ==
    IF reason \in {"end", "max_tokens", "tool_use", "stop_sequence", "content_filter", "refusal", "pause"}
    THEN <<"STOP_REASON", reason>> ELSE <<"STOP_REASON", "other">>

NormalizeStopReason(enum) == IF enum[2] = "unspecified" THEN "other" ELSE enum[2]

-----------------------------------------------------------------------------
(* The loop asks; the gateway opens the stream, with retries.               *)

NoAcc == [text |-> 0, calls |-> << >>]
NoGateway == [pc |-> "idle", attempt |-> 0, ended |-> FALSE]
NoTurn == [calls |-> << >>, reason |-> ""]

StreamInit ==
    /\ provider \in Providers
    /\ turn = NoTurn /\ wire = << >> /\ broke = "no" /\ norm = NoNorm /\ buf = << >>
    /\ gateway = NoGateway /\ bill = << >> /\ net = << >> /\ acc = NoAcc
    /\ caller = [pc |-> "asking", pauses |-> 0, gone |-> FALSE, err |-> ""]
    /\ troubles = 0

Trouble == troubles < MaxStreamFaults /\ troubles' = troubles + 1

Settled == {"final", "tools", "refused", "aborted"}

\* Loop.streamWithContinuations calls Stream.  After a pause the request
\* carries the blob of the paused turn, which no adapter with pauses reads:
\* the answer is a turn like any other.
AskModel ==
    /\ caller.pc = "asking"
    /\ \E t \in Turns(provider) : \E w \in Wires(provider, t) : turn' = t /\ wire' = w
    /\ broke' = "no" /\ norm' = NoNorm /\ buf' = << >> /\ bill' = << >> /\ net' = << >> /\ acc' = NoAcc
    /\ gateway' = [pc |-> "opening", attempt |-> 1, ended |-> FALSE]
    /\ caller' = [caller EXCEPT !.pc = "assembling"]
    /\ UNCHANGED <<provider, troubles>>

Status(code) == [k |-> "status", code |-> code]

\* The handler returns, with the status of the call.
Returns(code) ==
    /\ gateway' = [gateway EXCEPT !.pc = "returned"]
    /\ net' = Append(net, Status(code))

OpenStream ==
    /\ gateway.pc = "opening"
    /\ gateway' = [gateway EXCEPT !.pc = "relaying"]
    /\ UNCHANGED <<provider, turn, wire, broke, norm, buf, bill, net, acc, caller, troubles>>

\* The request fails before the first event.  The OpenAI adapters look at the
\* error of the stream before they return it, so the decorator sees it; the
\* others return the reader, and the error comes out of its first Recv.
EagerProviders == {"responses", "chat"}
LazyProviders == {"anthropic", "gemini"}

OpenFails(status) ==
    /\ gateway.pc = "opening" /\ provider \in EagerProviders
    /\ Trouble
    /\ LET kind == KindForStatus(status) IN
       IF kind \in RetryableKinds /\ gateway.attempt < MaxAttempts
       THEN gateway' = [gateway EXCEPT !.pc = "waiting"] /\ UNCHANGED <<broke, net>>
       ELSE Returns(StatusFromError(kind)) /\ broke' = kind
    /\ UNCHANGED <<provider, turn, wire, norm, buf, bill, acc, caller>>

OpenFailsLate(status) ==
    /\ gateway.pc = "opening" /\ provider \in LazyProviders
    /\ Trouble
    /\ gateway' = [gateway EXCEPT !.pc = "relaying"]
    /\ wire' = << >> /\ broke' = KindForStatus(status)
    /\ UNCHANGED <<provider, turn, norm, buf, bill, net, acc, caller>>

\* The backoff is over: the next attempt.
WaitIsOver ==
    /\ gateway.pc = "waiting"
    /\ gateway' = [gateway EXCEPT !.pc = "opening", !.attempt = @ + 1]
    /\ UNCHANGED <<provider, turn, wire, broke, norm, buf, bill, net, acc, caller, troubles>>

-----------------------------------------------------------------------------
(* The stream.  The body may close early, with or without an error.         *)

StreamCut ==
    /\ gateway.pc = "relaying" /\ wire # << >> /\ provider # "stub"
    /\ Trouble
    /\ wire' = << >> /\ broke' \in {"cut", "server"}
    /\ UNCHANGED <<provider, turn, norm, buf, gateway, bill, net, acc, caller>>

\* The reader pulls one event off the wire when its buffer is empty.
ReaderFills ==
    /\ gateway.pc = "relaying" /\ buf = << >> /\ wire # << >>
    /\ LET made == NormNext(norm, Head(wire)) IN norm' = made.n /\ buf' = made.out
    /\ wire' = Tail(wire)
    /\ UNCHANGED <<provider, turn, broke, gateway, bill, net, acc, caller, troubles>>

\* The wire has ended: an error ends the call, else the normaliser is flushed.
ReaderEnds ==
    /\ gateway.pc = "relaying" /\ buf = << >> /\ wire = << >> /\ ~gateway.ended
    /\ IF broke \in {"no", "cut"}
       THEN buf' = NormFinish(norm) /\ gateway' = [gateway EXCEPT !.ended = TRUE] /\ net' = net
       ELSE Returns(StatusFromError(broke)) /\ buf' = buf
    /\ UNCHANGED <<provider, turn, wire, broke, norm, bill, acc, caller, troubles>>

\* costingReader.Recv and the Send of the handler: the first Done is billed.
RelayStreamEvent ==
    /\ gateway.pc = "relaying" /\ buf # << >>
    /\ LET ev == Head(buf) IN
       /\ net' = Append(net, IF ev.k = "done" THEN Done(ToGenStopReason(ev.reason), ev.usage) ELSE ev)
       /\ bill' = IF ev.k = "done" /\ bill = << >> THEN <<UsageCost(ev.usage)>> ELSE bill
    /\ buf' = Tail(buf)
    /\ UNCHANGED <<provider, turn, wire, broke, norm, gateway, acc, caller, troubles>>

StreamReturns ==
    /\ gateway.pc = "relaying" /\ buf = << >> /\ gateway.ended
    /\ Returns("OK")
    /\ UNCHANGED <<provider, turn, wire, broke, norm, buf, bill, acc, caller, troubles>>

-----------------------------------------------------------------------------
(* The loop assembles the turn.                                             *)

AddToolCall(calls, ev) ==
    LET at == {k \in 1..Len(calls) : calls[k].id = ev.id}
    IN  IF at = {} THEN Append(calls, [id |-> ev.id, frags |-> ev.frags])
        ELSE [calls EXCEPT ![CHOOSE k \in at : TRUE].frags = @ \o ev.frags]

\* No fragment at all parses, and so does the whole of the arguments.
ParseArgs(frags) == Len(frags) \in {0, FullArgs}

Classify(reason) ==
    CASE \E k \in 1..Len(acc.calls) : ~ParseArgs(acc.calls[k].frags) -> "aborted"
      [] OTHER -> CASE reason = "pause" -> IF caller.pauses + 1 < MaxPauses THEN "asking" ELSE "aborted"
                    [] reason = "tool_use" /\ acc.calls # << >> -> "tools"
                    [] reason = "refusal" -> "refused"
                    [] OTHER -> "final"

\* Assemble takes one event; it stops at the first Done, and an end without
\* one aborts the turn.
CallerRecv ==
    /\ caller.pc = "assembling" /\ net # << >>
    /\ LET ev == Head(net) IN
       /\ acc' = CASE ev.k = "text" -> [acc EXCEPT !.text = @ + 1]
                   [] ev.k = "call" -> [acc EXCEPT !.calls = AddToolCall(@, ev)]
                   [] OTHER -> acc
       /\ caller' = CASE ev.k = "done" ->
                           LET reason == NormalizeStopReason(ev.reason)
                           IN  [caller EXCEPT !.pc = Classify(reason),
                                              !.pauses = IF reason = "pause" THEN @ + 1 ELSE @]
                      [] ev.k = "status" ->
                           [caller EXCEPT !.pc = "aborted",
                                          !.err = IF ev.code = "OK" THEN "no_done" ELSE MapGRPCError(ev.code)]
                      [] OTHER -> caller
    /\ net' = Tail(net)
    /\ UNCHANGED <<provider, turn, wire, broke, norm, buf, gateway, bill, troubles>>

\* The run is interrupted: the call's context ends, here and in the gateway.
CallerGone ==
    /\ caller.pc = "assembling"
    /\ caller' = [caller EXCEPT !.pc = "aborted", !.gone = TRUE]
    /\ UNCHANGED <<provider, turn, wire, broke, norm, buf, gateway, bill, net, acc, troubles>>

GatewayCancelled ==
    /\ caller.gone /\ gateway.pc \in {"opening", "waiting", "relaying"}
    /\ Returns("Canceled")
    /\ UNCHANGED <<provider, turn, wire, broke, norm, buf, bill, acc, caller, troubles>>

GatewayStep ==
    OpenStream \/ WaitIsOver \/ ReaderFills \/ ReaderEnds \/ RelayStreamEvent \/ StreamReturns \/ GatewayCancelled
CallerStep == AskModel \/ CallerRecv

StreamNext ==
    \/ CallerStep \/ GatewayStep
    \/ \E status \in HttpStatuses : OpenFails(status) \/ OpenFailsLate(status)
    \/ StreamCut \/ CallerGone

\* The handler and the loop run on; a backoff ends.
StreamFairness == WF_streamVars(GatewayStep) /\ WF_streamVars(CallerStep)

StreamSpec == StreamInit /\ [][StreamNext]_streamVars /\ StreamFairness

-----------------------------------------------------------------------------
(* A turn that is taken as complete holds every call the model made, in its *)
(* order, each with its own fragments and no other's, whatever the provider *)
(* interleaves: block indices (Anthropic), chunk indices (chat), the final  *)
(* response (Responses) and whole parts (Gemini).                           *)
CallsStayTogether ==
    caller.pc \in {"tools", "final"} /\ broke = "no" /\ turn.reason # "failed" =>
        acc.calls = [i \in 1..Len(turn.calls) |-> [id |-> turn.calls[i].id, frags |-> turn.calls[i].frags]]

(* A request that failed never passes for a complete turn, and neither does *)
(* an Anthropic or Responses stream whose body just closes (the chat and    *)
(* Gemini readers make up a Done for those); what the loop is told of a     *)
(* failure is transient exactly when the provider's error was, across the   *)
(* adapter's classification and the two gRPC mappings.                      *)
FailuresAreNoticed ==
    /\ broke # "no" /\ (broke = "cut" => provider \in {"anthropic", "responses"})
       => caller.pc \notin {"tools", "final", "refused"}
    /\ broke \notin {"no", "cut"} /\ caller.err # "" =>
       (caller.err \in RetryableKinds <=> broke \in RetryableKinds)

(* A turn is billed at most once, and a completed one at the price of all   *)
(* of its tokens, wherever in the stream and by whichever convention (with  *)
(* or without the cached tokens) the provider reports them.                 *)
BilledInFull ==
    /\ Len(bill) <= 1
    /\ caller.pc \in {"tools", "final"} /\ broke = "no" /\ turn.reason # "failed" => bill = <<UsageCost(FullUsage)>>

(* The request is sent again only while no event of it has left the         *)
(* gateway: a client never sees the same text twice.                        *)
NeverReplays ==
    [][gateway'.attempt > gateway.attempt /\ gateway.pc # "idle" =>
         net = << >> /\ acc = NoAcc /\ bill = << >>]_streamVars

(* Every turn the loop asks for ends.                                       *)
TurnsEnd == turn # NoTurn ~> caller.pc \in Settled

(* What the loop makes of a stream is what the provider sent: the calls     *)
(* whole, a failure noticed, all tokens billed, nothing shown twice, and    *)
(* an end, for every provider and across the gateway's retries.             *)
StreamsAreTold ==
    /\ [](CallsStayTogether /\ FailuresAreNoticed /\ BilledInFull)
    /\ NeverReplays
    /\ TurnsEnd

-----------------------------------------------------------------------------
(* What a comment says and the code does not keep.  No run checks it: the   *)
(* README, under "Where code and documents disagree", tells how it fails.   *)

(* A turn in which the model calls tools and that arrives whole goes on     *)
(* with their execution ("the loop must execute the tools and feed results  *)
(* back", assembler.go).                                                    *)
ToolCallsRun ==
    turn.reason = "tools" /\ broke = "no" => caller.pc # "final"

============================================================================
