------------------------------- MODULE Relay -------------------------------
(***************************************************************************)
(* The delivery of a session's events to a client: the subscription that   *)
(* tails the event log (eventstore/subscribe.go), the relay that turns it  *)
(* into the frames of one Run call (grpc/relay.go), the streams that carry *)
(* the frames over gRPC, REST and MCP (rest/sse.go, mcpserver/sse.go and   *)
(* run.go), and a client that calls Run again from its cursor when a call  *)
(* has ended.                                                              *)
(*                                                                         *)
(* An event of the log is "frame" when envelopeToFrame has a payload for   *)
(* it and "quiet" otherwise; its seq is its place in the log.  A call ends *)
(* with the frame of the result, with an error, or with nothing when the   *)
(* client is gone.                                                         *)
(***************************************************************************)
EXTENDS Integers, Sequences, FiniteSets

CONSTANTS
    MaxLog,        \* bound on the events of the session
    ChanBuffer,    \* subscribeChanBuffer
    MaxCalls,      \* bound on the Run calls of the client
    Transports,    \* subset of {"grpc", "rest", "mcp", "mcp_buffered"}
    LastEventID,   \* the client resumes from the id of the last frame it got,
                   \* not from the last durable frame
    MaxFaults      \* bound on failed reads and lost connections

ASSUME RelayAssumption ==
    /\ MaxLog \in Nat /\ MaxCalls \in Nat /\ MaxFaults \in Nat
    /\ ChanBuffer \in Nat \ {0}
    /\ Transports \subseteq {"grpc", "rest", "mcp", "mcp_buffered"}
    /\ LastEventID \in BOOLEAN

VARIABLES
    log,      \* the committed events of the session
    tail,     \* the subscriber goroutine of the call
    chan,     \* its delivery channel
    relay,    \* the relay of the call
    loop,     \* the agent loop of the call
    conn,     \* the response stream of the call
    client,   \* what the client has received, over all calls
    faults    \* the faults so far

relayVars == <<log, tail, chan, relay, loop, conn, client, faults>>

Kinds == {"frame", "quiet"}
NoTail == [pc |-> "closed", cursor |-> 0, hi |-> 0, wake |-> FALSE]
NoRelay == [pc |-> "idle", afterSeq |-> 0, liveSeq |-> 0, todo |-> << >>, err |-> "none", loaded |-> TRUE]
NoLoop == [pc |-> "over", out |-> "none", ask |-> 0, stop |-> FALSE, end |-> 0]
NoConn == [up |-> FALSE, gone |-> FALSE, began |-> FALSE, sendErr |-> FALSE, result |-> FALSE]

RelayInit ==
    /\ log = << >> /\ chan = << >> /\ faults = 0
    /\ tail = NoTail /\ relay = NoRelay /\ loop = NoLoop /\ conn = NoConn
    /\ client \in [transport : Transports, frames : {<< >>}, lastId : {0}, ends : {<< >>}, calls : {0}]

Fault == faults < MaxFaults /\ faults' = faults + 1

-----------------------------------------------------------------------------
(* The response stream.  A frame reaches the client while the connection is *)
(* up; on a broken one Send fails, or the bytes are lost without an error.  *)

Buffered == client.transport = "mcp_buffered"

Receive(kind, seq) ==
    [client EXCEPT !.frames = IF kind = "frame" THEN Append(client.frames, seq) ELSE client.frames,
                   !.lastId = IF kind = "error" THEN client.lastId ELSE seq,
                   !.ends = IF kind \in {"result", "error"} THEN Append(client.ends, kind) ELSE client.ends]

\* Send of the gRPC stream and of sseStream: the first frame commits the status.
SseSend(kind, seq) ==
    /\ conn' = [conn EXCEPT !.began = TRUE]
    /\ client' = IF conn.up THEN Receive(kind, seq) ELSE client

\* Send of mcpSSEStream: a progress notification, or the final response, after which
\* nothing is written any more.
McpSend(kind, seq) ==
    IF conn.result THEN UNCHANGED <<conn, client>>
    ELSE /\ conn' = [conn EXCEPT !.began = TRUE, !.result = kind = "result"]
         /\ client' = IF conn.up THEN Receive(kind, seq) ELSE client

\* bufferStream keeps the result only, which the handler writes at the end.
BufferSend(kind) ==
    /\ conn' = [conn EXCEPT !.result = conn.result \/ kind = "result"]
    /\ UNCHANGED client

SendOk(kind, seq) ==
    /\ ~conn.sendErr
    /\ CASE client.transport = "mcp_buffered" -> BufferSend(kind)
         [] client.transport = "mcp" -> McpSend(kind, seq)
         [] OTHER -> SseSend(kind, seq)

\* The error of a broken connection is kept, and returned by every later Send.
SendFails ==
    /\ conn.sendErr \/ (~conn.up /\ ~Buffered)
    /\ conn' = [conn EXCEPT !.sendErr = TRUE]
    /\ UNCHANGED client

\* The connection is lost; the server learns of it later, when the context of
\* the stream is done.
ConnectionLost ==
    /\ relay.pc # "idle" /\ conn.up /\ Fault
    /\ conn' = [conn EXCEPT !.up = FALSE]
    /\ UNCHANGED <<log, tail, chan, relay, loop, client>>

ContextDone ==
    /\ relay.pc # "idle" /\ ~conn.up /\ ~conn.gone
    /\ conn' = [conn EXCEPT !.gone = TRUE]
    /\ UNCHANGED <<log, tail, chan, relay, loop, client, faults>>

-----------------------------------------------------------------------------
(* The subscription.                                                        *)

\* drainNewEvents reads the rows above the cursor in one short transaction.
TailDrain ==
    /\ tail.pc = "drain"
    /\ tail' = [tail EXCEPT !.hi = Len(log), !.pc = IF Len(log) > tail.cursor THEN "send" ELSE "wait"]
    /\ UNCHANGED <<log, chan, relay, loop, conn, client, faults>>

\* A read error ends the subscription and closes the channel.
TailReadError ==
    /\ tail.pc = "drain" /\ Fault
    /\ tail' = NoTail
    /\ UNCHANGED <<log, chan, relay, loop, conn, client>>

\* The rows read are put on the channel in order; the cursor follows each one.
TailSend ==
    /\ tail.pc = "send" /\ Len(chan) < ChanBuffer
    /\ chan' = Append(chan, tail.cursor + 1)
    /\ tail' = [tail EXCEPT !.cursor = tail.cursor + 1,
                            !.pc = IF tail.cursor + 1 = tail.hi THEN "wait" ELSE "send"]
    /\ UNCHANGED <<log, relay, loop, conn, client, faults>>

\* Faulty: there is no poll between the notifications.
TailTick_OnNotify ==
    /\ tail.pc = "wait" /\ tail.wake
    /\ tail' = [tail EXCEPT !.pc = "drain"]
    /\ UNCHANGED <<log, chan, relay, loop, conn, client, faults>>

\* The safety-net tick of subscribePollInterval.
TailTick ==
    /\ tail.pc = "wait"
    /\ tail' = [tail EXCEPT !.pc = "drain"]
    /\ UNCHANGED <<log, chan, relay, loop, conn, client, faults>>

\* A token on the wake-up channel of LISTEN.
TailWake ==
    /\ tail.pc = "wait" /\ tail.wake
    /\ tail' = [tail EXCEPT !.pc = "drain", !.wake = FALSE]
    /\ UNCHANGED <<log, chan, relay, loop, conn, client, faults>>

\* subCtx is cancelled when the relay returns or the client is gone.
TailCancelled ==
    /\ tail.pc # "closed" /\ (relay.pc \in {"idle", "return"} \/ conn.gone)
    /\ tail' = NoTail
    /\ UNCHANGED <<log, chan, relay, loop, conn, client, faults>>

\* An event is committed, by the loop of this call or by one of an earlier call
\* that is not over yet.  Its notification adds a token unless one is pending; it
\* is lost when the connection does not LISTEN, or its listener is closed.
Commit(kind) ==
    /\ Len(log) < MaxLog
    /\ log' = Append(log, kind)
    /\ \E got \in BOOLEAN : tail' = [tail EXCEPT !.wake = tail.wake \/ (got /\ tail.pc # "closed")]
    /\ UNCHANGED <<chan, relay, loop, conn, client, faults>>

-----------------------------------------------------------------------------
(* The loop of the call, on its own goroutine.                              *)

\* The gate calls onApproval, which reads the live seq ...
LoopAsk ==
    /\ loop.pc = "run"
    /\ loop' = [loop EXCEPT !.pc = IF relay.liveSeq = 0 THEN "askHead" ELSE "askSend",
                            !.ask = relay.liveSeq]
    /\ UNCHANGED <<log, tail, chan, relay, conn, client, faults>>

\* ... the session's head when no seq was streamed yet (0 when the read fails) ...
LoopAskHead ==
    /\ loop.pc = "askHead"
    /\ \/ loop' = [loop EXCEPT !.pc = "askSend", !.ask = Len(log)] /\ UNCHANGED faults
       \/ loop' = [loop EXCEPT !.pc = "askSend"] /\ Fault
    /\ UNCHANGED <<log, tail, chan, relay, conn, client>>

\* ... and sends the approval frame, whose error it ignores.
LoopAskSend ==
    /\ loop.pc = "askSend"
    /\ loop' = [loop EXCEPT !.pc = "ask", !.ask = 0]
    /\ IF relay.pc \in {"idle", "return"} THEN UNCHANGED <<conn, client>>
       ELSE SendOk("approval", loop.ask) \/ SendFails
    /\ UNCHANGED <<log, tail, chan, relay, faults>>

\* The request is resolved.
LoopAnswered ==
    /\ loop.pc = "ask"
    /\ loop' = [loop EXCEPT !.pc = "run"]
    /\ UNCHANGED <<log, tail, chan, relay, conn, client, faults>>

\* Control.Interrupt cancels loopCtx, and not the context of the stream.
Interrupt ==
    /\ loop.pc # "over" /\ ~loop.stop
    /\ loop' = [loop EXCEPT !.stop = TRUE]
    /\ UNCHANGED <<log, tail, chan, relay, conn, client, faults>>

LoopCancelled == loop.stop \/ conn.gone \/ relay.pc \in {"idle", "return"}

\* LoopRunner.Run returns: an outcome, an infrastructural error, or the cancellation.
LoopEnd(out) ==
    /\ loop.pc \in {"run", "ask"}
    /\ out = "canceled" => LoopCancelled
    /\ loop.pc = "ask" => out = "canceled"
    /\ loop' = [loop EXCEPT !.pc = "over", !.out = out, !.end = Len(log)]
    /\ UNCHANGED <<log, tail, chan, relay, conn, client, faults>>

-----------------------------------------------------------------------------
(* The relay.                                                               *)

Advance(seq) == IF seq > relay.liveSeq THEN seq ELSE relay.liveSeq

\* One envelope: the live seq is advanced, and a client-visible payload is sent.
\* What is left of the flush is todo.
RelayEnvelope(seq, todo) ==
    \/ /\ log[seq] = "quiet"
       /\ relay' = [relay EXCEPT !.liveSeq = Advance(seq), !.todo = todo]
       /\ UNCHANGED <<conn, client>>
    \/ /\ log[seq] = "frame" /\ SendOk("frame", seq)
       /\ relay' = [relay EXCEPT !.liveSeq = Advance(seq), !.todo = todo]
    \/ /\ log[seq] = "frame" /\ SendFails
       /\ relay' = [relay EXCEPT !.liveSeq = Advance(seq), !.pc = "return", !.err = "send"]

\* The select loop takes an event of the subscription.
RelayEvent ==
    /\ relay.pc = "select" /\ chan # << >>
    /\ chan' = Tail(chan)
    /\ RelayEnvelope(Head(chan), << >>)
    /\ UNCHANGED <<log, tail, loop, faults>>

\* The subscription is closed: wait for the loop.
RelayClosed ==
    /\ relay.pc = "select" /\ chan = << >> /\ tail.pc = "closed"
    /\ relay' = [relay EXCEPT !.pc = "await"]
    /\ UNCHANGED <<log, tail, chan, loop, conn, client, faults>>

\* The context of the stream is done; the deferred calls cancel the loop.
RelayCtxDone ==
    /\ relay.pc = "select" /\ conn.gone
    /\ relay' = [relay EXCEPT !.pc = "return", !.err = "ctx"]
    /\ UNCHANGED <<log, tail, chan, loop, conn, client, faults>>

\* flushFrom loads the log above afterSeq and drops what the tail delivered.
LoadedForFlush ==
    LET delivered == IF relay.liveSeq > relay.afterSeq THEN relay.liveSeq ELSE relay.afterSeq
    IN  [i \in 1 .. Len(log) - delivered |-> delivered + i]

\* Faulty: the terminal result is sent without looking at the log again.
RelayDone_NoFlush ==
    /\ relay.pc \in {"select", "await"} /\ loop.pc = "over"
    /\ relay' = IF loop.out = "ok" \/ (loop.out = "canceled" /\ ~conn.gone)
                THEN [relay EXCEPT !.pc = "flush"]
                ELSE [relay EXCEPT !.pc = "return", !.err = IF loop.out = "canceled" THEN "ctx" ELSE "loop"]
    /\ UNCHANGED <<log, tail, chan, loop, conn, client, faults>>

\* The loop has ended: finishWithFlush.  A failed Load is passed over in silence.
RelayDone ==
    /\ relay.pc \in {"select", "await"} /\ loop.pc = "over"
    /\ IF loop.out = "ok" \/ (loop.out = "canceled" /\ ~conn.gone)
       THEN \/ relay' = [relay EXCEPT !.pc = "flush", !.todo = LoadedForFlush] /\ UNCHANGED faults
            \/ relay' = [relay EXCEPT !.pc = "flush", !.loaded = FALSE] /\ Fault
       ELSE /\ relay' = [relay EXCEPT !.pc = "return", !.err = IF loop.out = "canceled" THEN "ctx" ELSE "loop"]
            /\ UNCHANGED faults
    /\ UNCHANGED <<log, tail, chan, loop, conn, client>>

\* The loaded events are relayed, and then the terminal result is sent.
RelayFlush ==
    /\ relay.pc = "flush" /\ relay.todo # << >>
    /\ RelayEnvelope(Head(relay.todo), Tail(relay.todo))
    /\ UNCHANGED <<log, tail, chan, loop, faults>>

RelayResult ==
    /\ relay.pc = "flush" /\ relay.todo = << >>
    /\ \/ SendOk("result", relay.liveSeq) /\ relay' = [relay EXCEPT !.pc = "return"]
       \/ SendFails /\ relay' = [relay EXCEPT !.pc = "return", !.err = "send"]
    /\ UNCHANGED <<log, tail, chan, loop, faults>>

-----------------------------------------------------------------------------
(* The call.                                                                *)

ResumeCursor ==
    IF LastEventID THEN client.lastId
    ELSE IF client.frames = << >> THEN 0 ELSE client.frames[Len(client.frames)]

\* The client calls Run, the relay subscribes and then starts the loop.  When no
\* connection can be had for the subscription, the call fails before a frame.
Call ==
    /\ relay.pc = "idle" /\ tail.pc = "closed" /\ loop.pc = "over" /\ client.calls < MaxCalls
    /\ conn' = [NoConn EXCEPT !.up = TRUE]
    /\ client' = [client EXCEPT !.calls = client.calls + 1, !.ends = << >>]
    /\ chan' = << >>
    /\ \/ /\ relay' = [NoRelay EXCEPT !.pc = "select", !.afterSeq = ResumeCursor]
          /\ tail' = [NoTail EXCEPT !.pc = "drain", !.cursor = ResumeCursor]
          /\ loop' = [NoLoop EXCEPT !.pc = "run"]
          /\ UNCHANGED faults
       \/ /\ relay' = [NoRelay EXCEPT !.pc = "return", !.err = "loop"]
          /\ tail' = NoTail /\ loop' = NoLoop
          /\ Fault
    /\ UNCHANGED log

\* runBuffered: the one answer.
BufferedEnd == <<IF relay.err = "none" /\ conn.result THEN "result" ELSE "error">>

\* runStreaming of MCP: a status before the first event, an error event after it
\* unless the stream is broken or finished.
McpEnd ==
    IF relay.err # "none" /\ (~conn.began \/ (~conn.gone /\ ~conn.sendErr /\ ~conn.result))
    THEN <<"error">> ELSE << >>

\* run of REST: the same split.
RestEnd ==
    IF relay.err # "none" /\ (~conn.began \/ (~conn.gone /\ ~conn.sendErr)) THEN <<"error">> ELSE << >>

\* What the handler writes when Run returns; on gRPC, the status of the call.
EndOfCall ==
    CASE client.transport = "mcp_buffered" -> BufferedEnd
      [] client.transport = "mcp" -> McpEnd
      [] client.transport = "rest" -> RestEnd
      [] client.transport = "grpc" -> IF relay.err # "none" THEN <<"error">> ELSE << >>

Return ==
    /\ relay.pc = "return"
    /\ relay' = [relay EXCEPT !.pc = "idle"]
    /\ client' = IF conn.up THEN [client EXCEPT !.ends = client.ends \o EndOfCall] ELSE client
    /\ chan' = << >>
    /\ UNCHANGED <<log, tail, loop, conn, faults>>

RelayStep == RelayEvent \/ RelayClosed \/ RelayCtxDone \/ RelayDone \/ RelayFlush \/ RelayResult \/ Return
TailStep == TailDrain \/ TailReadError \/ TailSend \/ TailTick \/ TailWake \/ TailCancelled

RelayNext ==
    \/ TailStep
    \/ RelayStep
    \/ \E kind \in Kinds : Commit(kind)
    \/ LoopAsk \/ LoopAskHead \/ LoopAskSend \/ LoopAnswered \/ Interrupt
    \/ \E out \in {"ok", "error", "canceled"} : LoopEnd(out)
    \/ Call \/ ConnectionLost \/ ContextDone

\* The goroutines of the call run, the ticker ticks, and the server learns of a
\* lost connection.  Nothing makes the model answer, the user approve or the
\* client call again.
RelayFairness ==
    /\ WF_relayVars(TailDrain \/ TailSend \/ TailTick \/ TailCancelled)
    /\ WF_relayVars(RelayStep)
    /\ WF_relayVars(ContextDone)
    /\ WF_relayVars(LoopAskHead \/ LoopAskSend)

RelaySpec == RelayInit /\ [][RelayNext]_relayVars /\ RelayFairness

-----------------------------------------------------------------------------

Visible(n) == {seq \in 1 .. n : seq <= Len(log) /\ log[seq] = "frame"}

\* Over all its calls, whatever is lost or fails, a client that resumes from the
\* last durable frame it got receives the client-visible events of the session
\* in order, each once, with none left out (Run: "never duplicates frames").
FramesAreExact ==
    LET got == client.frames IN
    /\ \A i, j \in DOMAIN got : i < j => got[i] < got[j]
    /\ got # << >> => {got[i] : i \in DOMAIN got} = Visible(got[Len(got)])

\* When the client of a streaming call has the result, it has every frame the
\* loop committed before it ended, unless the load of the flush failed
\* (finishWithFlush "makes delivery complete").
ResultComesLast ==
    /\ client.ends = <<"result">> /\ ~Buffered /\ relay.loaded
    => Visible(loop.end) \subseteq {client.frames[i] : i \in DOMAIN client.frames}

\* A call over a connection that held ends, and with exactly one terminal
\* answer: the result, or an error of the transport.
EndsOnce ==
    /\ Len(client.ends) <= 1
    /\ (relay.pc = "idle" /\ client.calls > 0 /\ conn.up) => Len(client.ends) = 1

\* What a client gets of a session is exact, over lost connections, failed reads
\* and resumed calls: the frames, the end of each call, and nothing missing before
\* a result (relay.run, finishWithFlush and the handlers of the transports).
DeliveryIsExact == FramesAreExact /\ ResultComesLast /\ EndsOnce

\* A frame is committed and has not reached the client of a streaming call that
\* goes on.
Stranded ==
    /\ relay.pc = "select" /\ ~Buffered /\ conn.up /\ tail.pc # "closed"
    /\ \E seq \in Visible(Len(log)) : \A i \in DOMAIN client.frames : client.frames[i] # seq

\* No committed frame stays behind while the call goes on, even when the loop waits
\* for an approval and every notification is lost (Subscribe: "a lost/coalesced
\* NOTIFY never strands an event").
FramesArrive == []<>~Stranded
=============================================================================
