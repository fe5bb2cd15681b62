--------------------------- MODULE AgentLoopCalls ---------------------------
(***************************************************************************)
(* The actions of the agent loop on the calls of a batch, up to their way  *)
(* into the tool runtime, keep its invariant.                              *)
(***************************************************************************)
EXTENDS AgentLoopLog

\* What a loop at the head knows of its batch: the calls differ, and their turn is on.
LEMMA BatchKnown ==
    ASSUME Inv, NEW l \in Loops, loop[l].head = Len(log), InBatch(loop[l])
    PROVE  /\ loop[l].suspended = {} /\ OpenSet(log) = {}
           /\ \A j \in PendingSet(log) : loop[l].pc = "ask" /\ log[j].call = loop[l].calls[loop[l].i]
           /\ HasTurn(log, "TurnStarted", loop[l].turn) /\ HasTurn(log, "AssistantMessage", loop[l].turn)
           /\ ~ Terminated(log, loop[l].turn)
           /\ \A p \in DOMAIN loop[l].calls : loop[l].calls[p].turn = loop[l].turn /\ CallOK(log, loop[l], p)
           /\ \A p, q \in DOMAIN loop[l].calls : loop[l].calls[p] = loop[l].calls[q] => p = q
<1>1. LoopOK(log, loop[l]) /\ loop[l].pc \notin {"stream", "finish"}
  BY Zenon, Known DEF InBatch
<1>2. InTurn(loop[l]) /\ \A p \in DOMAIN loop[l].calls : loop[l].calls[p].turn = loop[l].turn /\ loop[l].calls[p].i = p
  BY Zenon, <1>1 DEF LoopOK, InTurn
<1> QED
  BY Zenon, <1>1, <1>2 DEF LoopOK, CallsOK

\* The readings by call that an event of another call leaves alone.
LEMMA OtherCall ==
    ASSUME NEW lg, NEW lg2, NEW ev, Grown(lg, lg2, ev), NEW c, ev.call # c
    PROVE  /\ Untouched(lg2, c) <=> Untouched(lg, c)
           /\ HasCall(lg2, "PermissionDecided", c) <=> HasCall(lg, "PermissionDecided", c)
           /\ HasCall(lg2, "ToolExecutionStarted", c) <=> HasCall(lg, "ToolExecutionStarted", c)
           /\ HasCall(lg2, "ToolResult", c) <=> HasCall(lg, "ToolResult", c)
           /\ Cleared(lg2, c) <=> Cleared(lg, c)
BY GrownReadings DEF Untouched

\* Moving on: a call that is not the one at hand is no further than it was.
LEMMA OtherOK ==
    ASSUME NEW lg, NEW lg2, NEW ev, Grown(lg, lg2, ev), NEW st0, NEW st, st.calls = st0.calls,
           NEW p \in DOMAIN st0.calls, CallOK(lg, st0, p), ev.call # st0.calls[p],
           st0.i \in Nat, p \in Nat, p # st0.i,
           \/ st0.pc \in {"gate", "ask", "start"} /\ st.pc \in {"gate", "ask", "start"}
           \/ st0.pc \in {"feed", "planned"} /\ st.pc \in {"feed", "planned"},
           \/ st.i = st0.i
           \/ st.i = st0.i + 1 /\ st.pc \in {"gate", "feed", "planned"}
    PROVE  CallOK(lg2, st, p)
<1> DEFINE c == st0.calls[p]
<1>1. /\ Untouched(lg2, c) <=> Untouched(lg, c)
      /\ HasCall(lg2, "PermissionDecided", c) <=> HasCall(lg, "PermissionDecided", c)
      /\ HasCall(lg2, "ToolExecutionStarted", c) <=> HasCall(lg, "ToolExecutionStarted", c)
      /\ HasCall(lg2, "ToolResult", c) <=> HasCall(lg, "ToolResult", c)
      /\ Cleared(lg2, c) <=> Cleared(lg, c)
  BY Zenon, OtherCall
<1>2. st.calls[p] = c
  BY Zenon
<1>3. CASE st0.pc \in {"gate", "ask", "start"} /\ st.pc \in {"gate", "ask", "start"}
  <2>1. /\ ~ HasCall(lg, "ToolResult", c)
        /\ p < st0.i => HasCall(lg, "PermissionDecided", c)
        /\ p > st0.i => Untouched(lg, c)
    BY Zenon, <1>3 DEF CallOK
  <2>2. p < st0.i \/ p > st0.i
    OBVIOUS
  <2>3. /\ p < st.i => p < st0.i
        /\ p > st.i => p > st0.i
        /\ p = st.i => st.i = st0.i + 1 /\ p > st0.i
    OBVIOUS
  <2>4. p = st.i => st.pc = "gate"
    BY Zenon, <1>3, <2>3
  <2> HIDE DEF c
  <2> QED
    BY Zenon, <1>1, <1>2, <1>3, <2>1, <2>2, <2>3, <2>4 DEF CallOK
<1>4. CASE st0.pc \in {"feed", "planned"} /\ st.pc \in {"feed", "planned"}
  <2>1. p >= st.i => p >= st0.i
    OBVIOUS
  <2> QED
    BY Zenon, <1>1, <1>2, <1>4, <2>1 DEF CallOK
<1> QED
  BY Zenon, <1>3, <1>4

\* The call at hand is one of the batch, and has a result.
LEMMA CurrentIn ==
    ASSUME NEW st, WellTyped(st), st.i <= Len(st.calls)
    PROVE  /\ st.i \in DOMAIN st.calls /\ st.i \in Nat /\ DOMAIN st.calls \subseteq Nat
           /\ st.calls[st.i] \in AllCalls /\ st.results[st.i] \in AllCalls \cup {NoCall}
<1>1. /\ st.calls \in Seq(AllCalls) /\ st.results \in Seq(AllCalls \cup {NoCall}) /\ Len(st.results) = Len(st.calls)
      /\ st.i \in Nat \ {0}
  BY Zenon DEF WellTyped, LoopTypes
<1>2. st.i \in 1..Len(st.calls)
  BY <1>1
<1> QED
  BY <1>1, <1>2

\* The call at hand is decided: the loop goes on to start it, or to the next one.
LEMMA BatchDecides ==
    ASSUME Inv, NEW l \in Loops, loop[l].pc \in {"gate", "ask"}, loop[l].i <= Len(loop[l].calls),
           NEW decision \in {"allow", "deny", "ask"}, NEW resolved \in {"none", "allowed", "denied"},
           NEW st, WellTyped(st), Frame(l, st), st.calls = loop[l].calls, st.turn = loop[l].turn,
           st.suspended = loop[l].suspended,
           \/ st.pc = "gate" /\ st.i = loop[l].i + 1
           \/ st.pc = "start" /\ st.i = loop[l].i /\ (decision = "allow" \/ resolved = "allowed"),
           AppendEvent(l, Decided(Current(l), decision, resolved), st), UNCHANGED <<runs, tasks>>
    PROVE  Inv'
<1> DEFINE p0 == loop[l].i
           c == loop[l].calls[p0]
           ev == Decided(c, decision, resolved)
           lg2 == Append(log, ev)
<1>1. /\ p0 \in DOMAIN loop[l].calls /\ c \in AllCalls /\ AppendEvent(l, ev, st)
      /\ p0 \in Nat /\ DOMAIN loop[l].calls \subseteq Nat
  BY Zenon, Known, CurrentIn DEF Current
<1>2. /\ ev.type = "PermissionDecided" /\ ev.call = c /\ ev.decision = decision /\ ev.resolved = resolved
      /\ ev \in [type : {"PermissionDecided"}, call : AllCalls, decision : {"allow", "deny", "ask"},
                  resolved : {"none", "allowed", "denied"}]
  BY SMTT(30), <1>1 DEF Decided
<1>3. ev \in Events
  BY Zenon, <1>2 DEF Events
<1>4. ASSUME loop[l].head = Len(log) PROVE Fits(log, ev) /\ LoopOK(lg2, st)
  <2>1. Grown(log, lg2, ev) /\ LogOK(log) /\ DOMAIN log \subseteq Nat /\ InBatch(loop[l])
    BY Zenon, <1>3, Known DEF InBatch
  <2> HIDE DEF ev, lg2, p0
  <2>2. /\ loop[l].suspended = {} /\ OpenSet(log) = {}
        /\ \A j \in PendingSet(log) : log[j].call = c
        /\ HasTurn(log, "TurnStarted", loop[l].turn) /\ HasTurn(log, "AssistantMessage", loop[l].turn)
        /\ ~ Terminated(log, loop[l].turn)
        /\ \A p \in DOMAIN loop[l].calls : loop[l].calls[p].turn = loop[l].turn /\ CallOK(log, loop[l], p)
        /\ \A p, q \in DOMAIN loop[l].calls : loop[l].calls[p] = loop[l].calls[q] => p = q
    BY Zenon, <1>4, <2>1, BatchKnown DEF p0
  <2>3. ~ HasCall(log, "ToolExecutionStarted", c) /\ ~ HasCall(log, "ToolResult", c)
    BY Zenon, <1>1, <2>2 DEF CallOK, Untouched, CallEvents, p0
  <2>4. Fits(log, ev)
    BY Zenon, <1>1, <1>2, <2>2 DEF Fits, TurnEvents
  <2>5. ev.type \in CallEvents \ {"ApprovalRequested"}
    BY Zenon, <1>2 DEF CallEvents
  <2>6. OpenSet(lg2) = {} /\ PendingSet(lg2) = {}
    BY SMTT(30), <1>2, <2>1, <2>2, <2>5, CallGrows
  <2>7. /\ HasTurn(lg2, "TurnStarted", st.turn) /\ HasTurn(lg2, "AssistantMessage", st.turn)
        /\ ~ Terminated(lg2, st.turn)
    BY Zenon, <2>1, <2>2, <2>5, CallGrows DEF TurnEvents
  <2>8. /\ HasCall(lg2, "PermissionDecided", c) /\ ~ HasCall(lg2, "ToolExecutionStarted", c) /\ ~ HasCall(lg2, "ToolResult", c)
        /\ decision = "allow" \/ resolved = "allowed" => Cleared(lg2, c)
    BY SMTT(30), <1>2, <2>1, <2>3, GrownReadings
  <2>9. CallOK(lg2, st, p0)
    <3>1. ~ (p0 > st.i) /\ (st.pc = "gate" => p0 # st.i) /\ st.calls[p0] = c
      BY <1>1 DEF p0
    <3> QED
      BY Zenon, <2>8, <3>1 DEF CallOK
  <2>10. ASSUME NEW p \in DOMAIN loop[l].calls, p # p0 PROVE CallOK(lg2, st, p)
    <3>1. ev.call # loop[l].calls[p]
      BY Zenon, <1>1, <1>2, <2>2, <2>10
    <3>2. CallOK(log, loop[l], p) /\ p \in Nat /\ loop[l].i = p0
      BY Zenon, <1>1, <2>2 DEF p0
    <3> QED
      BY Zenon, <1>1, <2>1, <2>10, <3>1, <3>2, OtherOK
  <2>11. CallsOK(lg2, st)
    BY SMTT(30), <2>9, <2>10 DEF CallsOK
  <2>12. \A p \in DOMAIN st.calls : st.calls[p].turn = st.turn /\ st.calls[p].i = p
    BY SMTT(30), <1>4, <2>1, Known DEF LoopOK
  <2>13. LoopOK(lg2, st)
    BY Zenon, <2>2, <2>6, <2>7, <2>11, <2>12 DEF LoopOK, InResume, InBatch, InTurn
  <2> QED
    BY Zenon, <2>4, <2>13
<1> QED
  BY Zenon, <1>1, <1>3, <1>4, Appends

\* The fields of a loop that moves on to the next call of its batch.
LEMMA NextCall ==
    ASSUME Inv, NEW l \in Loops, NEW pc \in {"gate", "feed"}, loop[l].pc \notin {"idle", "dispatch"}
    PROVE  LET st == [loop[l] EXCEPT !.pc = pc, !.i = @ + 1]
           IN /\ WellTyped(st) /\ Frame(l, st) /\ st.pc = pc /\ st.i = loop[l].i + 1
              /\ st.suspended = loop[l].suspended /\ st.open = loop[l].open /\ st.turn = loop[l].turn
              /\ st.calls = loop[l].calls /\ st.head = loop[l].head
<1> DEFINE st == [loop[l] EXCEPT !.pc = pc, !.i = @ + 1]
<1>1. WellTyped(loop[l]) /\ loop[l].waiting = 0
  BY Zenon, Known
<1>2. loop[l].i + 1 \in Nat \ {0} /\ pc \in PCs
  BY SMTT(30), <1>1 DEF WellTyped, LoopTypes, PCs
<1>3. /\ st \in LoopTypes /\ st.pc = pc /\ st.i = loop[l].i + 1
      /\ st.suspended = loop[l].suspended /\ st.open = loop[l].open /\ st.turn = loop[l].turn
      /\ st.calls = loop[l].calls /\ st.head = loop[l].head
      /\ st.results = loop[l].results /\ st.run = loop[l].run /\ st.waiting = loop[l].waiting
      /\ st.asst = loop[l].asst /\ st.sched = loop[l].sched
  BY Zenon, <1>1, <1>2 DEF WellTyped, LoopTypes
<1> HIDE DEF st
<1>4. WellTyped(st) /\ Frame(l, st)
  BY Zenon, <1>1, <1>3 DEF WellTyped, Frame, RunFrame, SchedFrame
<1> QED
  BY Zenon, <1>3, <1>4 DEF st

\* A call is denied without a question.
LEMMA DenyInv == ASSUME Inv, NEW l \in Loops, Deny(l) PROVE Inv'
<1>1. /\ loop[l].pc = "gate" /\ loop[l].i <= Len(loop[l].calls) /\ UNCHANGED <<runs, tasks>>
      /\ AppendEvent(l, Decided(Current(l), "deny", "none"), [loop[l] EXCEPT !.i = @ + 1])
  BY Zenon DEF Deny, Gating
<1>2. [loop[l] EXCEPT !.i = @ + 1] = [loop[l] EXCEPT !.pc = "gate", !.i = @ + 1]
  BY Zenon, <1>1, Known DEF WellTyped, LoopTypes
<1> DEFINE st == [loop[l] EXCEPT !.pc = "gate", !.i = @ + 1]
<1>3. /\ WellTyped(st) /\ Frame(l, st) /\ st.pc = "gate" /\ st.i = loop[l].i + 1
      /\ st.suspended = loop[l].suspended /\ st.turn = loop[l].turn /\ st.calls = loop[l].calls
  BY Zenon, <1>1, NextCall
<1>4. AppendEvent(l, Decided(Current(l), "deny", "none"), st)
  BY Zenon, <1>1, <1>2
<1> HIDE DEF st
<1> QED
  BY Zenon, <1>1, <1>3, <1>4, BatchDecides

\* A call is allowed without a question.
LEMMA AllowInv == ASSUME Inv, NEW l \in Loops, Allow(l) PROVE Inv'
<1> DEFINE st == [loop[l] EXCEPT !.pc = "start"]
<1>1. /\ loop[l].pc = "gate" /\ loop[l].i <= Len(loop[l].calls) /\ UNCHANGED <<runs, tasks>>
      /\ AppendEvent(l, Decided(Current(l), "allow", "none"), st)
  BY Zenon DEF Allow, Gating
<1>2. /\ WellTyped(st) /\ Frame(l, st) /\ st.pc = "start" /\ st.i = loop[l].i
      /\ st.suspended = loop[l].suspended /\ st.turn = loop[l].turn /\ st.calls = loop[l].calls
  BY ZenonT(30), <1>1, GoesTo DEF PCs
<1> HIDE DEF st
<1> QED
  BY Zenon, <1>1, <1>2, BatchDecides

\* An ask is answered.
LEMMA ResolvedInv == ASSUME Inv, NEW l \in Loops, Resolved(l) PROVE Inv'
<1> DEFINE yes == [loop[l] EXCEPT !.pc = "start"]
           no == [loop[l] EXCEPT !.pc = "gate", !.i = @ + 1]
<1>1. /\ loop[l].pc = "ask" /\ loop[l].i <= Len(loop[l].calls) /\ UNCHANGED <<runs, tasks>>
      /\ \/ AppendEvent(l, Decided(Current(l), "ask", "allowed"), yes)
         \/ AppendEvent(l, Decided(Current(l), "ask", "denied"), no)
  BY Zenon DEF Resolved, Gating
<1>2. /\ WellTyped(yes) /\ Frame(l, yes) /\ yes.pc = "start" /\ yes.i = loop[l].i
      /\ yes.suspended = loop[l].suspended /\ yes.turn = loop[l].turn /\ yes.calls = loop[l].calls
  BY SMTT(60), <1>1, GoesTo DEF PCs
<1>3. /\ WellTyped(no) /\ Frame(l, no) /\ no.pc = "gate" /\ no.i = loop[l].i + 1
      /\ no.suspended = loop[l].suspended /\ no.turn = loop[l].turn /\ no.calls = loop[l].calls
  BY Zenon, <1>1, NextCall
<1> HIDE DEF yes, no
<1>4. CASE AppendEvent(l, Decided(Current(l), "ask", "allowed"), yes)
  BY SMTT(30), <1>1, <1>2, <1>4, BatchDecides
<1>5. CASE AppendEvent(l, Decided(Current(l), "ask", "denied"), no)
  BY SMTT(30), <1>1, <1>3, <1>5, BatchDecides
<1> QED
  BY Zenon, <1>1, <1>4, <1>5

\* A call needs a human.
LEMMA AskInv == ASSUME Inv, NEW l \in Loops, Ask(l) PROVE Inv'
<1> DEFINE p0 == loop[l].i
           c == loop[l].calls[p0]
           t == loop[l].turn
           ev == [type |-> "ApprovalRequested", turn |-> t, call |-> c]
           st == [loop[l] EXCEPT !.pc = "ask"]
           lg2 == Append(log, ev)
<1>1. /\ loop[l].pc = "gate" /\ loop[l].i <= Len(loop[l].calls) /\ UNCHANGED <<runs, tasks>>
      /\ AppendEvent(l, ev, st)
  BY Zenon DEF Ask, Gating, Current
<1>2. /\ WellTyped(st) /\ Frame(l, st) /\ st.pc = "ask" /\ st.i = loop[l].i
      /\ st.suspended = loop[l].suspended /\ st.turn = t /\ st.calls = loop[l].calls
  BY Zenon, <1>1, GoesTo DEF PCs
<1>3. /\ p0 \in DOMAIN loop[l].calls /\ c \in AllCalls
      /\ p0 \in Nat /\ DOMAIN loop[l].calls \subseteq Nat
  BY Zenon, <1>1, Known, CurrentIn
<1>4. t \in Nat
  BY Zenon, Known DEF WellTyped, LoopTypes
<1> HIDE DEF st
<1>5. /\ ev.type = "ApprovalRequested" /\ ev.call = c /\ ev.turn = t
      /\ ev \in [type : {"ApprovalRequested"}, turn : Nat, call : AllCalls]
  BY Zenon, <1>3, <1>4
<1>6. ev \in Events
  BY Zenon, <1>5 DEF Events
<1>7. ASSUME loop[l].head = Len(log) PROVE Fits(log, ev) /\ LoopOK(lg2, st)
  <2>1. Grown(log, lg2, ev) /\ LogOK(log) /\ DOMAIN log \subseteq Nat /\ InBatch(loop[l])
    BY Zenon, <1>1, <1>6, Known DEF InBatch
  <2> HIDE DEF ev, lg2, p0, t
  <2>2. /\ loop[l].suspended = {} /\ OpenSet(log) = {} /\ PendingSet(log) = {}
        /\ HasTurn(log, "TurnStarted", t) /\ HasTurn(log, "AssistantMessage", t)
        /\ ~ Terminated(log, t)
        /\ \A p \in DOMAIN loop[l].calls : loop[l].calls[p].turn = t /\ CallOK(log, loop[l], p)
        /\ \A p, q \in DOMAIN loop[l].calls : loop[l].calls[p] = loop[l].calls[q] => p = q
    BY SMTT(30), <1>1, <1>7, <2>1, BatchKnown DEF t
  <2>3. Untouched(log, c)
    BY SMTT(30), <1>1, <1>3, <2>2 DEF CallOK, p0
  <2>4. Fits(log, ev)
    BY SMTT(30), <1>3, <1>5, <2>2, <2>3 DEF Fits, TurnEvents, Untouched
  <2>5. OpenSet(lg2) = {} /\ \A j \in PendingSet(lg2) : lg2[j].call = c
    BY SMTT(30), <1>5, <2>1, <2>2, GrownOpen, GrownPositions DEF EndEvents
  <2>6. /\ HasTurn(lg2, "TurnStarted", t) /\ HasTurn(lg2, "AssistantMessage", t)
        /\ ~ Terminated(lg2, t)
    BY SMTT(30), <1>5, <2>1, <2>2, GrownReadings, GrownTurns DEF EndEvents
  <2>7. ~ HasCall(lg2, "PermissionDecided", c) /\ ~ HasCall(lg2, "ToolExecutionStarted", c) /\ ~ HasCall(lg2, "ToolResult", c)
    BY SMTT(30), <1>5, <2>1, <2>3, GrownReadings DEF Untouched, CallEvents
  <2>8. CallOK(lg2, st, p0)
    <3>1. ~ (p0 > st.i) /\ ~ (p0 < st.i) /\ st.calls[p0] = c
      BY SMTT(30), <1>2, <1>3 DEF p0
    <3> QED
      BY Zenon, <1>2, <2>7, <3>1 DEF CallOK
  <2>9. ASSUME NEW p \in DOMAIN loop[l].calls, p # p0 PROVE CallOK(lg2, st, p)
    <3>1. ev.call # loop[l].calls[p]
      BY Zenon, <1>3, <1>5, <2>2, <2>9
    <3>2. CallOK(log, loop[l], p) /\ p \in Nat /\ loop[l].i = p0
      BY Zenon, <1>3, <2>2 DEF p0
    <3> QED
      BY SMTT(60), <1>1, <1>2, <1>3, <2>1, <2>9, <3>1, <3>2, OtherOK
  <2>10. CallsOK(lg2, st)
    BY SMTT(30), <1>2, <2>8, <2>9 DEF CallsOK
  <2>11. \A p \in DOMAIN st.calls : st.calls[p].turn = st.turn /\ st.calls[p].i = p
    BY SMTT(30), <1>2, <1>7, <2>1, Known DEF LoopOK, t
  <2>12. LoopOK(lg2, st)
    BY SMTT(30), <1>2, <2>2, <2>5, <2>6, <2>10, <2>11 DEF LoopOK, InResume, InBatch, InTurn, p0
  <2> QED
    BY Zenon, <2>4, <2>12
<1> QED
  BY ZenonT(30), <1>1, <1>2, <1>6, <1>7, Appends

\* Every call is gated: the calls that may run are dispatched.
LEMMA DispatchInv == ASSUME Inv, NEW l \in Loops, Dispatch(l) PROVE Inv'
<1> DEFINE st == [loop[l] EXCEPT !.pc = "dispatch", !.i = 1]
<1>1. /\ loop[l].pc = "gate" /\ loop[l].i > Len(loop[l].calls) /\ UNCHANGED <<runs, tasks>>
      /\ Set(l, st)
  BY Zenon DEF Dispatch
<1>2. WellTyped(loop[l]) /\ loop[l].waiting = 0
  BY Zenon, <1>1, Known
<1>3. /\ st \in LoopTypes /\ st.pc = "dispatch" /\ st.i = 1
      /\ st.suspended = loop[l].suspended /\ st.open = loop[l].open /\ st.turn = loop[l].turn
      /\ st.calls = loop[l].calls /\ st.head = loop[l].head
      /\ st.results = loop[l].results /\ st.run = loop[l].run /\ st.waiting = loop[l].waiting
      /\ st.asst = loop[l].asst /\ st.sched = loop[l].sched
  <2>1. 1 \in Nat \ {0} /\ "dispatch" \in PCs
    BY DEF PCs
  <2> QED
    BY ZenonT(30), <1>2, <2>1 DEF WellTyped, LoopTypes
<1> HIDE DEF st
<1>4. WellTyped(st) /\ Frame(l, st)
  BY SMTT(30), <1>1, <1>2, <1>3 DEF WellTyped, Frame, RunFrame, SchedFrame
<1>5. ASSUME loop[l].head = Len(log) PROVE LoopOK(log, st)
  <2>1. LoopOK(log, loop[l]) /\ loop[l].suspended = {} /\ InBatch(loop[l])
    BY Zenon, <1>1, <1>5, Known, BatchKnown DEF InBatch
  <2>2. CallsOK(log, st)
    <3> SUFFICES ASSUME NEW p \in DOMAIN loop[l].calls PROVE CallOK(log, st, p)
      BY Zenon, <1>3 DEF CallsOK
    <3>1. p < loop[l].i
      <4>1. p \in 1..Len(loop[l].calls) /\ Len(loop[l].calls) \in Nat /\ loop[l].i \in Nat
        BY SMTT(60), <1>2 DEF WellTyped, LoopTypes
      <4> QED
        BY SMTT(30), <1>1, <4>1
    <3>2. HasCall(log, "PermissionDecided", loop[l].calls[p]) /\ ~ HasCall(log, "ToolResult", loop[l].calls[p])
      BY Zenon, <1>1, <2>1, <3>1 DEF LoopOK, CallsOK, CallOK
    <3> QED
      BY Zenon, <1>3, <3>2 DEF CallOK
  <2> QED
    BY SMTT(30), <1>1, <1>3, <2>1, <2>2 DEF LoopOK, InResume, InBatch, InTurn
<1> QED
  BY Zenon, <1>1, <1>3, <1>4, <1>5, Moves

\* Every call is answered: the results are the runtime's.
LEMMA CollectInv == ASSUME Inv, NEW l \in Loops, Collect(l) PROVE Inv'
<1> DEFINE results == [p \in DOMAIN loop[l].results |->
                          IF p \in Sent(l) THEN tasks[Request(l, p)].of ELSE loop[l].results[p]]
           st == [loop[l] EXCEPT !.pc = "feed", !.results = results]
<1>1. /\ loop[l].pc = "dispatch" /\ loop[l].sched = << >> /\ loop[l].waiting = 0 /\ UNCHANGED <<runs, tasks>>
      /\ Set(l, st)
  BY Zenon DEF Collect
<1>2. WellTyped(loop[l])
  BY Zenon, Known
<1>3. results \in Seq(AllCalls \cup {NoCall}) /\ Len(results) = Len(loop[l].calls)
  <2>1. /\ loop[l].results \in Seq(AllCalls \cup {NoCall}) /\ Len(loop[l].results) = Len(loop[l].calls)
        /\ Len(loop[l].results) \in Nat
    BY SMTT(30), <1>2 DEF WellTyped, LoopTypes
  <2>2. \A p \in Sent(l) : tasks[Request(l, p)].of \in AllCalls \cup {NoCall}
    BY Zenon DEF Sent, Inv, TypeInv, Tools!TypeOK
  <2>3. results \in [1..Len(loop[l].results) -> AllCalls \cup {NoCall}]
    BY <2>1, <2>2
  <2> QED
    BY SMTT(30), <2>1, <2>3
<1> HIDE DEF results
<1>4. /\ st \in LoopTypes /\ st.pc = "feed" /\ st.results = results
      /\ st.suspended = loop[l].suspended /\ st.open = loop[l].open /\ st.turn = loop[l].turn
      /\ st.calls = loop[l].calls /\ st.head = loop[l].head /\ st.i = loop[l].i
      /\ st.run = loop[l].run /\ st.waiting = loop[l].waiting
      /\ st.asst = loop[l].asst /\ st.sched = loop[l].sched
  BY ZenonT(30), <1>2, <1>3 DEF WellTyped, LoopTypes, PCs
<1> HIDE DEF st
<1>5. WellTyped(st) /\ Frame(l, st)
  BY Zenon, <1>1, <1>3, <1>4 DEF WellTyped, Frame, RunFrame, SchedFrame
<1>6. ASSUME loop[l].head = Len(log) PROVE LoopOK(log, st)
  <2>1. LoopOK(log, loop[l])
    BY Zenon, <1>6, Known
  <2>2. CallsOK(log, st)
    BY ZenonT(30), <1>1, <1>4, <2>1 DEF LoopOK, CallsOK, CallOK
  <2> QED
    BY ZenonT(30), <1>1, <1>4, <2>1, <2>2 DEF LoopOK, InResume, InBatch, InTurn
<1> QED
  BY Zenon, <1>1, <1>4, <1>5, <1>6, Moves

\* An accepted plan is recorded before its result.
LEMMA FeedPlanInv == ASSUME Inv, NEW l \in Loops, FeedPlan(l) PROVE Inv'
<1> DEFINE c == Current(l)
           ev == [type |-> "PlanUpdated", call |-> c]
           st == [loop[l] EXCEPT !.pc = "planned"]
<1>1. /\ loop[l].pc = "feed" /\ loop[l].i <= Len(loop[l].calls) /\ loop[l].suspended = {}
      /\ UNCHANGED <<runs, tasks>> /\ AppendEvent(l, ev, st)
  BY Zenon DEF FeedPlan, Gating, Resuming
<1>2. /\ WellTyped(st) /\ Frame(l, st) /\ st.pc = "planned" /\ st.i = loop[l].i
      /\ st.suspended = loop[l].suspended /\ st.turn = loop[l].turn /\ st.calls = loop[l].calls
  BY Zenon, <1>1, GoesTo DEF PCs
<1>3. c \in AllCalls
  BY SMTT(30), <1>1, Known, CurrentIn DEF Current
<1> HIDE DEF c, st
<1>4. ev \in Events /\ ev.type \notin TurnEvents \cup CallEvents
  <2>1. ev \in [type : {"PlanUpdated"}, call : AllCalls] /\ ev.type = "PlanUpdated"
    BY SMTT(30), <1>3
  <2> HIDE DEF ev
  <2> QED
    BY Zenon, <2>1 DEF Events, TurnEvents, CallEvents
<1>5. ASSUME loop[l].head = Len(log) PROVE LoopOK(log, st)
  <2>1. LoopOK(log, loop[l])
    BY SMTT(30), <1>5, Known
  <2>2. CallsOK(log, st)
    BY Zenon, <1>1, <1>2, <2>1 DEF LoopOK, CallsOK, CallOK
  <2> QED
    BY ZenonT(30), <1>1, <1>2, <2>1, <2>2 DEF LoopOK, InResume, InBatch, InTurn
<1> QED
  BY ZenonT(30), <1>1, <1>2, <1>4, <1>5, QuietAppends

\* The tool message: a resumed call is done with, or the next turn may begin.
LEMMA FeedMessageInv == ASSUME Inv, NEW l \in Loops, FeedMessage(l) PROVE Inv'
<1> DEFINE ev == [type |-> "MessageAppended", role |-> "tool", calls |-> loop[l].calls]
           back == [loop[l] EXCEPT !.pc = "resume", !.suspended = @ \ {Min(@)}]
           on == [loop[l] EXCEPT !.pc = "loop"]
<1>1. /\ loop[l].pc = "feed" /\ UNCHANGED <<runs, tasks>>
      /\ AppendEvent(l, ev, IF loop[l].suspended # {} THEN back ELSE on)
  BY Zenon DEF FeedMessage, Resuming
<1>2. WellTyped(loop[l]) /\ loop[l].waiting = 0 /\ (loop[l].head = Len(log) => LoopOK(log, loop[l]))
  BY SMTT(30), <1>1, Known
<1>3. ev \in Events /\ ev.type \notin TurnEvents \cup CallEvents
  <2>1. loop[l].calls \in Seq(AllCalls)
    BY Zenon, <1>2 DEF WellTyped, LoopTypes
  <2> QED
    BY Zenon, <2>1, MessageQuiet
<1> HIDE DEF ev
<1>4. CASE loop[l].suspended # {}
  <2>1. /\ back \in LoopTypes /\ back.pc = "resume" /\ back.suspended = loop[l].suspended \ {Min(loop[l].suspended)}
        /\ back.open = loop[l].open /\ back.calls = loop[l].calls
        /\ back.results = loop[l].results /\ back.run = loop[l].run /\ back.waiting = loop[l].waiting
        /\ back.asst = loop[l].asst /\ back.sched = loop[l].sched
    BY ZenonT(30), <1>2 DEF WellTyped, LoopTypes, PCs
  <2> HIDE DEF back
  <2>2. WellTyped(back) /\ Frame(l, back)
    BY Zenon, <1>1, <1>2, <2>1 DEF WellTyped, Frame, RunFrame, SchedFrame
  <2>3. ASSUME loop[l].head = Len(log) PROVE LoopOK(log, back)
    <3>1. back.suspended = PendingSet(log) /\ back.open = OpenSet(log)
      BY ZenonT(30), <1>1, <1>2, <1>4, <2>1, <2>3 DEF LoopOK, InResume
    <3> QED
      BY Zenon, <2>1, <3>1 DEF LoopOK, InResume, InBatch, InTurn, CallsOK, CallOK
  <2> QED
    BY SMTT(30), <1>1, <1>3, <1>4, <2>1, <2>2, <2>3, QuietAppends
<1>5. CASE loop[l].suspended = {}
  <2>1. WellTyped(on) /\ Frame(l, on) /\ on.pc = "loop" /\ on.suspended = loop[l].suspended
    BY SMTT(30), <1>1, GoesTo DEF PCs
  <2> HIDE DEF on
  <2>2. ASSUME loop[l].head = Len(log) PROVE LoopOK(log, on)
    <3>1. PendingSet(log) = {} /\ OpenSet(log) = {}
      BY SMTT(30), <1>1, <1>5, <2>2, BatchKnown DEF InBatch
    <3> QED
      BY SMTT(30), <1>5, <2>1, <3>1 DEF LoopOK, InResume, InBatch, InTurn, CallsOK, CallOK
  <2> QED
    BY SMTT(30), <1>1, <1>3, <1>5, <2>1, <2>2, QuietAppends
<1> QED
  BY Zenon, <1>4, <1>5

\* What a loop at the head knows of the ask it has resumed: its turn is on.
LEMMA ResumeKnown ==
    ASSUME Inv, NEW l \in Loops, loop[l].head = Len(log), InResume(loop[l])
    PROVE  /\ Min(loop[l].suspended) \in DOMAIN log
           /\ DOMAIN loop[l].calls = {1} /\ loop[l].calls[1].turn = loop[l].turn
           /\ HasTurn(log, "TurnStarted", loop[l].turn) /\ ~ Terminated(log, loop[l].turn)
           /\ CallOK(log, loop[l], 1)
<1>1. /\ LoopOK(log, loop[l]) /\ LogOK(log) /\ DOMAIN log \subseteq Nat
      /\ loop[l].suspended \subseteq Nat
  BY SMTT(30), Known DEF WellTyped, LoopTypes
<1> DEFINE m == Min(loop[l].suspended)
<1>2. /\ loop[l].suspended # {} /\ loop[l].suspended \subseteq Positions(log, "ApprovalRequested")
      /\ loop[l].turn = log[m].turn /\ ~ Terminated(log, loop[l].turn)
      /\ loop[l].calls = <<log[m].call>> /\ CallsOK(log, loop[l])
  BY Zenon, <1>1 DEF LoopOK
<1>3. m \in Positions(log, "ApprovalRequested")
  BY SMTT(30), <1>1, <1>2, MinIsIn
<1> HIDE DEF m
<1>4. log[m].call.turn = log[m].turn /\ HasTurn(log, "TurnStarted", log[m].turn) /\ m \in DOMAIN log
  BY SMTT(30), <1>1, <1>3, OrderReads DEF Positions
<1>5. DOMAIN loop[l].calls = {1} /\ loop[l].calls[1] = log[m].call
  BY SMTT(30), <1>2
<1> QED
  BY SMTT(30), <1>2, <1>4, <1>5 DEF CallsOK, m

\* The result of a call is fed back.
LEMMA FeedResultInv == ASSUME Inv, NEW l \in Loops, FeedResult(l) PROVE Inv'
<1> DEFINE p0 == loop[l].i
           c == loop[l].calls[p0]
           of == loop[l].results[p0]
           ev == [type |-> "ToolResult", call |-> c, of |-> of]
           st == [loop[l] EXCEPT !.pc = "feed", !.i = @ + 1]
           lg2 == Append(log, ev)
<1>1. /\ loop[l].pc \in {"feed", "planned"} /\ loop[l].i <= Len(loop[l].calls) /\ UNCHANGED <<runs, tasks>>
      /\ AppendEvent(l, ev, st)
  BY SMTT(30) DEF FeedResult, Gating, Current
<1>2. /\ WellTyped(st) /\ Frame(l, st) /\ st.pc = "feed" /\ st.i = loop[l].i + 1 /\ st.open = loop[l].open
      /\ st.suspended = loop[l].suspended /\ st.turn = loop[l].turn /\ st.calls = loop[l].calls
  BY Zenon, <1>1, NextCall
<1>3. /\ p0 \in DOMAIN loop[l].calls /\ c \in AllCalls /\ of \in AllCalls \cup {NoCall}
      /\ p0 \in Nat /\ DOMAIN loop[l].calls \subseteq Nat
  BY SMTT(30), <1>1, Known, CurrentIn
<1> HIDE DEF st, of
<1>4. /\ ev.type = "ToolResult" /\ ev.call = c
      /\ ev \in [type : {"ToolResult"}, call : AllCalls, of : AllCalls \cup {NoCall}]
  BY SMTT(30), <1>3
<1>5. ev \in Events
  BY Zenon, <1>4 DEF Events
<1>6. ASSUME loop[l].head = Len(log) PROVE Fits(log, ev) /\ LoopOK(lg2, st)
  <2>1. Grown(log, lg2, ev) /\ LoopOK(log, loop[l])
    BY SMTT(30), <1>5, <1>6, Known
  <2>2. ev.type \in CallEvents \ {"ApprovalRequested"}
    BY Zenon, <1>4 DEF CallEvents
  <2> HIDE DEF ev, lg2, p0
  <2>3. /\ HasTurn(log, "TurnStarted", loop[l].turn) /\ ~ Terminated(log, loop[l].turn)
        /\ c.turn = loop[l].turn
        /\ \A p \in DOMAIN loop[l].calls : CallOK(log, loop[l], p) /\ (p # p0 => loop[l].calls[p] # c)
    <3>1. CASE InBatch(loop[l])
      BY SMTT(30), <1>3, <1>6, <3>1, BatchKnown
    <3>2. CASE InResume(loop[l])
      <4>1. p0 = 1
        BY SMTT(30), <1>3, <1>6, <3>2, ResumeKnown
      <4> QED
        BY SMTT(30), <1>3, <1>6, <3>2, <4>1, ResumeKnown
    <3> QED
      BY ZenonT(30), <1>1, <3>1, <3>2 DEF InBatch, InResume
  <2>4. HasCall(log, "PermissionDecided", c) /\ ~ HasCall(log, "ToolResult", c)
    <3>1. CallOK(log, loop[l], p0) /\ p0 >= loop[l].i
      BY SMTT(30), <1>3, <2>3 DEF p0
    <3> QED
      BY SMTT(30), <1>1, <3>1 DEF CallOK
  <2>5. Fits(log, ev)
    BY SMTT(30), <1>4, <2>3, <2>4 DEF Fits, TurnEvents
  <2>6. /\ OpenSet(lg2) = OpenSet(log) /\ PendingSet(lg2) = PendingSet(log)
        /\ \A j \in OpenSet(log) \cup PendingSet(log) : lg2[j] = log[j]
        /\ \A t : Terminated(lg2, t) <=> Terminated(log, t)
        /\ \A t : HasTurn(lg2, "TurnStarted", t) <=> HasTurn(log, "TurnStarted", t)
        /\ \A t : HasTurn(lg2, "AssistantMessage", t) <=> HasTurn(log, "AssistantMessage", t)
    <3>1. \A j : j \in PendingSet(lg2) <=> j \in PendingSet(log)
      BY SMTT(30), <1>4, <2>1, <2>2, CallGrows
    <3> QED
      BY ZenonT(30), <2>1, <2>2, <3>1, CallGrows DEF TurnEvents
  <2>7. CallsOK(lg2, st)
    <3> SUFFICES ASSUME NEW p \in DOMAIN loop[l].calls PROVE CallOK(lg2, st, p)
      BY SMTT(30), <1>2 DEF CallsOK
    <3>1. CASE p = p0
      <4>1. HasCall(lg2, "PermissionDecided", c)
        BY SMTT(30), <1>4, <2>1, <2>4, GrownReadings
      <4>2. ~ (p >= st.i) /\ st.calls[p] = c
        BY SMTT(30), <1>2, <1>3, <3>1 DEF p0
      <4> QED
        BY SMTT(30), <1>2, <4>1, <4>2 DEF CallOK
    <3>2. CASE p # p0
      <4>1. CallOK(log, loop[l], p) /\ p \in Nat /\ loop[l].i = p0 /\ ev.call # loop[l].calls[p]
        BY ZenonT(30), <1>3, <1>4, <2>3, <3>2 DEF p0
      <4> QED
        BY ZenonT(30), <1>1, <1>2, <1>3, <2>1, <3>2, <4>1, OtherOK
    <3> QED
      BY SMTT(30), <3>1, <3>2
  <2>8. CASE InBatch(loop[l])
    <3>1. /\ \A p \in DOMAIN st.calls : st.calls[p].turn = st.turn /\ st.calls[p].i = p
          /\ OpenSet(log) = {} /\ PendingSet(log) = {} /\ st.suspended = {} /\ HasTurn(log, "AssistantMessage", st.turn)
      BY ZenonT(30), <1>1, <1>2, <1>6, <2>1, <2>8, BatchKnown DEF LoopOK
    <3> QED
      BY ZenonT(30), <1>2, <2>3, <2>5, <2>6, <2>7, <3>1 DEF LoopOK, InResume, InBatch, InTurn
  <2>9. CASE InResume(loop[l])
    <3>1. lg2[Min(st.suspended)] = log[Min(st.suspended)]
      BY SMTT(30), <1>2, <1>6, <2>1, <2>9, ResumeKnown, GrownPositions
    <3>2. /\ st.suspended # {} /\ st.suspended \subseteq Positions(lg2, "ApprovalRequested")
          /\ st.open = OpenSet(log) /\ loop[l].pc = "feed"
          /\ st.calls = <<log[Min(st.suspended)].call>> /\ st.turn = log[Min(st.suspended)].turn
          /\ PendingSet(log) = st.suspended \ {Min(st.suspended)}
      <4>1. /\ loop[l].suspended # {} /\ loop[l].suspended \subseteq Positions(log, "ApprovalRequested")
            /\ loop[l].open = OpenSet(log) /\ loop[l].pc # "reraised"
            /\ loop[l].calls = <<log[Min(loop[l].suspended)].call>> /\ loop[l].turn = log[Min(loop[l].suspended)].turn
        BY Zenon, <1>1, <2>1, <2>9 DEF LoopOK
      <4>2. PendingSet(log) = loop[l].suspended \ {Min(loop[l].suspended)}
        <5>1. PendingSet(log) = IF loop[l].pc = "reraised" THEN loop[l].suspended
                                ELSE loop[l].suspended \ {Min(loop[l].suspended)}
          BY <2>1, <2>9, Zenon DEF LoopOK
        <5> QED
          BY <4>1, <5>1, Zenon
      <4>3. Positions(log, "ApprovalRequested") \subseteq Positions(lg2, "ApprovalRequested")
        BY <2>1, GrownPositions, SMTT(30)
      <4>4. loop[l].pc = "feed"
        BY <1>1, <2>9, SMTT(30) DEF InResume
      <4> QED
        BY <1>2, <4>1, <4>2, <4>3, <4>4, SMTT(30)
    <3> QED
      BY ZenonT(30), <1>2, <2>3, <2>5, <2>6, <2>7, <3>1, <3>2 DEF LoopOK, InResume, InBatch, InTurn
  <2> QED
    BY ZenonT(30), <1>1, <2>8, <2>9 DEF InBatch, InResume
<1> QED
  BY SMTT(30), <1>1, <1>2, <1>5, <1>6, Appends

\* At most one entry of the schedule is new, and it is p.
Schedules(l, st, p) ==
    \E a0 : /\ st.sched[a0] = p
            /\ \A a \in DOMAIN st.sched : a = a0 \/ (a \in DOMAIN loop[l].sched /\ st.sched[a] = loop[l].sched[a])

\* The intent to execute a call is recorded, and the call is scheduled.
LEMMA StartsCall ==
    ASSUME Inv, NEW l \in Loops, NEW p \in DOMAIN loop[l].calls,
           NEW st, WellTyped(st), RunFrame(l, st), st.pc # "idle", st.calls = loop[l].calls, st.asst = loop[l].asst,
           Schedules(l, st, p),
           AppendEvent(l, Started(l, loop[l].calls[p]), st), UNCHANGED <<runs, tasks>>,
           loop[l].head = Len(log) =>
               /\ Fits(log, Started(l, loop[l].calls[p]))
               /\ LoopOK(Append(log, Started(l, loop[l].calls[p])), st)
    PROVE  Inv'
<1> DEFINE c == loop[l].calls[p]
           ev == Started(l, c)
<1>0. PICK a0 : /\ st.sched[a0] = p
                /\ \A a \in DOMAIN st.sched : a = a0 \/ (a \in DOMAIN loop[l].sched /\ st.sched[a] = loop[l].sched[a])
  BY ZenonT(30) DEF Schedules
<1>1. CASE loop[l].head # Len(log)
  BY Zenon, <1>1, Leaves DEF AppendEvent, Set
<1>2. CASE loop[l].head = Len(log)
  <2>1. st.run \in 0..runs
    BY SMTT(30), IdleOK, ConfigAssumption DEF RunFrame, Inv, TypeInv
  <2>2. /\ ev.type = "ToolExecutionStarted" /\ ev.call = c /\ ev.key = loop[l].asst
        /\ ev \in [type : {"ToolExecutionStarted"}, call : AllCalls, key : Nat]
    <3>1. loop[l].calls \in Seq(AllCalls) /\ loop[l].asst \in Nat
      BY SMTT(30), Known DEF WellTyped, LoopTypes
    <3>2. c \in AllCalls
      BY SMTT(30), <3>1
    <3> QED
      BY SMTT(30), <3>1, <3>2 DEF Started
  <2>3. ev \in Events
    BY <2>2, ZenonT(30) DEF Events
  <2> DEFINE st2 == AtHead(st, Len(log) + 1)
  <2>4. TypeInv' /\ LogInv' /\ Grown(log, log', ev) /\ loop' = [loop EXCEPT ![l] = st2]
    BY SMTT(30), <1>2, <2>1, <2>3, Lands
  <2>5. /\ st2.pc = st.pc /\ st2.run = st.run /\ st2.waiting = st.waiting /\ st2.sched = st.sched
        /\ st2.calls = st.calls /\ st2.asst = st.asst
    BY SMTT(30) DEF AtHead, WellTyped, LoopTypes
  <2>6. RunFrame(l, st2)
    BY ZenonT(30), <2>5, IdleOK DEF RunFrame
  <2>7. (OneInRuntime /\ MutationsAreSerial)'
    BY Zenon, <2>4, <2>6, FrameRuntime DEF Inv
  <2>8. ~ HasCall(log, "ToolExecutionStarted", c)
    BY ZenonT(30), <1>2, <2>2 DEF Fits
  <2> HIDE DEF st2, ev, c
  <2>9. \A m \in Loops : loop'[m] = IF m = l THEN st2 ELSE loop[m]
    BY SMTT(30), <2>4 DEF Inv, TypeInv
  <2>10. /\ \A d, k : Recorded(log, d, k) => Recorded(log', d, k) /\ d # c
         /\ Recorded(log', c, loop[l].asst)
    <3>1. \A d, k : Recorded(log, d, k) => HasCall(log, "ToolExecutionStarted", d)
      BY SMTT(30) DEF Recorded, HasCall
    <3>2. \A d, k : Recorded(log', d, k) <=> \/ Recorded(log, d, k)
                                             \/ ev.type = "ToolExecutionStarted" /\ ev.call = d /\ ev.key = k
      BY <2>4, GrownReadings, Zenon
    <3> QED
      BY <2>2, <2>8, <3>1, <3>2, ZenonT(30)
  <2>11. ASSUME NEW m \in Loops, NEW a \in DOMAIN loop'[m].sched
         PROVE  /\ loop'[m].calls = loop[m].calls /\ loop'[m].asst = loop[m].asst
                /\ \/ m = l /\ a = a0 /\ loop'[m].sched[a] = p
                   \/ /\ a \in DOMAIN loop[m].sched /\ loop'[m].sched[a] = loop[m].sched[a]
                      /\ loop[m].sched[a] \in DOMAIN loop[m].calls
                      /\ Recorded(log, loop[m].calls[loop[m].sched[a]], loop[m].asst)
    <3>1. CASE m = l
      <4>1. loop'[m].sched = st.sched /\ loop'[m].calls = loop[l].calls /\ loop'[m].asst = loop[l].asst
        BY <2>5, <2>9, <3>1, SMTT(30)
      <4>2. a = a0 \/ (a \in DOMAIN loop[l].sched /\ st.sched[a] = loop[l].sched[a])
        BY <1>0, <4>1, Zenon
      <4>3. CASE a = a0
        BY <1>0, <3>1, <4>1, <4>3, ZenonT(30)
      <4>4. CASE a \in DOMAIN loop[l].sched /\ st.sched[a] = loop[l].sched[a]
        BY <3>1, <4>1, <4>4, SentKnown, ZenonT(30)
      <4> QED
        BY <4>2, <4>3, <4>4, ZenonT(30)
    <3>2. CASE m # l
      <4>1. loop'[m] = loop[m]
        BY <2>9, <3>2, SMTT(30)
      <4> QED
        BY <4>1, SentKnown, ZenonT(30)
    <3> QED
      BY <3>1, <3>2, Zenon
  <2>12. \A m \in Loops : \A a \in DOMAIN loop'[m].sched :
          /\ loop'[m].sched[a] \in DOMAIN loop'[m].calls
          /\ Recorded(log', loop'[m].calls[loop'[m].sched[a]], loop'[m].asst)
          /\ \A q \in DOMAIN tasks' : q.call # loop'[m].calls[loop'[m].sched[a]]
    <3> SUFFICES ASSUME NEW m \in Loops, NEW a \in DOMAIN loop'[m].sched
                 PROVE  /\ loop'[m].sched[a] \in DOMAIN loop'[m].calls
                        /\ Recorded(log', loop'[m].calls[loop'[m].sched[a]], loop'[m].asst)
                        /\ \A q \in DOMAIN tasks : q.call # loop'[m].calls[loop'[m].sched[a]]
      BY ZenonT(30)
    <3>1. CASE m = l /\ a = a0 /\ loop'[m].sched[a] = p
      <4>1. loop'[m].calls[loop'[m].sched[a]] = c /\ loop'[m].calls = loop[l].calls /\ loop'[m].asst = loop[l].asst
        BY <2>11, <3>1, Zenon DEF c
      <4>2. \A q \in DOMAIN tasks : q.call # c
        <5>1. \A q \in DOMAIN tasks : Recorded(log, q.call, q.key)
          BY Zenon DEF Inv, SentOnce
        <5> QED
          BY <2>10, <5>1, Zenon
      <4> QED
        BY SMTT(30), <2>10, <3>1, <4>1, <4>2
    <3>2. CASE ~ (m = l /\ a = a0 /\ loop'[m].sched[a] = p)
      <4>1. /\ loop'[m].calls = loop[m].calls /\ loop'[m].asst = loop[m].asst
            /\ a \in DOMAIN loop[m].sched /\ loop'[m].sched[a] = loop[m].sched[a]
            /\ loop[m].sched[a] \in DOMAIN loop[m].calls
            /\ Recorded(log, loop[m].calls[loop[m].sched[a]], loop[m].asst)
        BY <2>11, <3>2, Zenon
      <4>2. \A q \in DOMAIN tasks : q.call # loop[m].calls[loop[m].sched[a]]
        BY <4>1, SentKnown, Zenon
      <4> QED
        BY <2>10, <4>1, <4>2, ZenonT(30)
    <3> QED
      BY <3>1, <3>2, Zenon
  <2>13. ASSUME NEW m \in Loops, NEW a \in DOMAIN loop'[m].sched
         PROVE  \/ m = l /\ a = a0 /\ loop'[m].calls[loop'[m].sched[a]] = c
                \/ /\ a \in DOMAIN loop[m].sched /\ loop'[m].calls[loop'[m].sched[a]] = loop[m].calls[loop[m].sched[a]]
                   /\ loop[m].calls[loop[m].sched[a]] # c
    <3>1. CASE m = l /\ a = a0 /\ loop'[m].sched[a] = p
      <4>1. loop'[m].calls = loop[l].calls
        BY <2>11, <3>1, Zenon
      <4> QED
        BY <3>1, <4>1, Zenon DEF c
    <3>2. CASE ~ (m = l /\ a = a0 /\ loop'[m].sched[a] = p)
      <4>1. /\ loop'[m].calls = loop[m].calls /\ a \in DOMAIN loop[m].sched /\ loop'[m].sched[a] = loop[m].sched[a]
            /\ Recorded(log, loop[m].calls[loop[m].sched[a]], loop[m].asst)
        BY <2>11, <3>2, Zenon
      <4>2. loop[m].calls[loop[m].sched[a]] # c
        BY <2>10, <4>1, Zenon
      <4> QED
        BY <4>1, <4>2, Zenon
    <3> QED
      BY <3>1, <3>2, Zenon
  <2>14. ASSUME NEW k \in Loops, NEW m \in Loops, NEW a \in DOMAIN loop'[k].sched, NEW b \in DOMAIN loop'[m].sched,
                loop'[k].calls[loop'[k].sched[a]] = loop'[m].calls[loop'[m].sched[b]]
         PROVE  k = m /\ a = b
    <3>1. \/ k = l /\ a = a0 /\ loop'[k].calls[loop'[k].sched[a]] = c
          \/ /\ a \in DOMAIN loop[k].sched /\ loop'[k].calls[loop'[k].sched[a]] = loop[k].calls[loop[k].sched[a]]
             /\ loop[k].calls[loop[k].sched[a]] # c
      BY <2>13, Zenon
    <3>2. \/ m = l /\ b = a0 /\ loop'[m].calls[loop'[m].sched[b]] = c
          \/ /\ b \in DOMAIN loop[m].sched /\ loop'[m].calls[loop'[m].sched[b]] = loop[m].calls[loop[m].sched[b]]
             /\ loop[m].calls[loop[m].sched[b]] # c
      BY <2>13, Zenon
    <3>3. ASSUME a \in DOMAIN loop[k].sched, b \in DOMAIN loop[m].sched,
                 loop[k].calls[loop[k].sched[a]] = loop[m].calls[loop[m].sched[b]]
          PROVE  k = m /\ a = b
      <4>1. SentOnce
        BY Zenon DEF Inv
      <4>2. \A g, h \in Loops : \A x \in DOMAIN loop[g].sched, y \in DOMAIN loop[h].sched :
               loop[g].calls[loop[g].sched[x]] = loop[h].calls[loop[h].sched[y]] => g = h /\ x = y
        BY <4>1, Zenon DEF SentOnce
      <4>3. \A x \in DOMAIN loop[k].sched, y \in DOMAIN loop[m].sched :
               loop[k].calls[loop[k].sched[x]] = loop[m].calls[loop[m].sched[y]] => k = m /\ x = y
        BY <4>2, Zenon
      <4> QED
        BY Zenon, <3>3, <4>3
    <3> QED
      BY ZenonT(30), <2>14, <3>1, <3>2, <3>3
  <2>15. /\ \A q \in DOMAIN tasks' : Recorded(log', q.call, q.key)
         /\ \A q, r \in DOMAIN tasks' : q.call = r.call => q = r
    BY <2>10, Zenon DEF Inv, SentOnce
  <2>16. SentOnce'
    BY Zenon, <2>12, <2>14, <2>15 DEF SentOnce
  <2> QED
    BY ZenonT(30), <2>4, <2>7, <2>16 DEF Inv
<1> QED
  BY Zenon, <1>1, <1>2

\* The record of an intent is an event.
LEMMA StartedTyped ==
    ASSUME NEW l, NEW c \in AllCalls, loop[l].asst \in Nat
    PROVE  Started(l, c) \in Events /\ Started(l, c).type = "ToolExecutionStarted" /\ Started(l, c).call = c
<1> DEFINE ev == Started(l, c)
<1>1. /\ ev.type = "ToolExecutionStarted" /\ ev.call = c
      /\ ev \in [type : {"ToolExecutionStarted"}, call : AllCalls, key : Nat]
  BY Zenon DEF Started
<1> HIDE DEF ev
<1>2. ev \in Events
  BY Zenon, <1>1 DEF Events
<1> QED
  BY Zenon, <1>1, <1>2 DEF ev

\* A resumed call that was allowed is started.
LEMMA ResumeStartInv == ASSUME Inv, NEW l \in Loops, ResumeStart(l) PROVE Inv'
<1> DEFINE c == loop[l].calls[1]
           ev == Started(l, c)
           st == [loop[l] EXCEPT !.pc = "dispatch", !.sched = <<1>>]
           lg2 == Append(log, ev)
<1>1. loop[l].pc = "resumeStart" /\ AppendEvent(l, ev, st) /\ UNCHANGED <<runs, tasks>>
  BY Zenon DEF ResumeStart
<1>2. WellTyped(loop[l]) /\ loop[l].waiting = 0
  BY Zenon, <1>1, Known
<1>3. /\ st \in LoopTypes /\ st.pc = "dispatch" /\ st.sched = <<1>> /\ st.i = loop[l].i
      /\ st.suspended = loop[l].suspended /\ st.open = loop[l].open /\ st.turn = loop[l].turn
      /\ st.calls = loop[l].calls /\ st.head = loop[l].head
      /\ st.results = loop[l].results /\ st.run = loop[l].run /\ st.waiting = loop[l].waiting
      /\ st.asst = loop[l].asst
  <2>1. <<1>> \in Seq(Nat) /\ "dispatch" \in PCs
    BY SMTT(30) DEF PCs
  <2> QED
    BY ZenonT(30), <1>2, <2>1 DEF WellTyped, LoopTypes
<1> HIDE DEF st
<1>4. WellTyped(st) /\ RunFrame(l, st) /\ st.pc # "idle" /\ Schedules(l, st, 1)
  <2>1. DOMAIN st.sched = {1} /\ st.sched[1] = 1
    BY <1>3
  <2> QED
    BY SMTT(30), <1>1, <1>2, <1>3, <2>1 DEF WellTyped, RunFrame, Schedules
<1>5. CASE loop[l].head # Len(log)
  BY SMTT(30), <1>1, <1>5, Leaves DEF AppendEvent, Set
<1>6. CASE loop[l].head = Len(log)
  <2>1. /\ LoopOK(log, loop[l]) /\ LogOK(log) /\ DOMAIN log \subseteq Nat /\ InResume(loop[l])
        /\ loop[l].asst \in Nat /\ loop[l].calls \in Seq(AllCalls)
    BY ZenonT(30), <1>1, <1>6, Known DEF InResume, WellTyped, LoopTypes
  <2>2. /\ DOMAIN loop[l].calls = {1} /\ c.turn = loop[l].turn
        /\ HasTurn(log, "TurnStarted", loop[l].turn) /\ ~ Terminated(log, loop[l].turn)
        /\ CallOK(log, loop[l], 1) /\ Min(loop[l].suspended) \in DOMAIN log
    BY SMTT(30), <1>6, <2>1, ResumeKnown
  <2>3. Cleared(log, c) /\ ~ HasCall(log, "ToolExecutionStarted", c) /\ ~ HasCall(log, "ToolResult", c)
    BY ZenonT(30), <1>1, <2>2 DEF CallOK
  <2>4. HasCall(log, "PermissionDecided", c) /\ c \in AllCalls
    BY SMTT(30), <2>1, <2>2, <2>3, OrderReads
  <2>5. /\ ev.type = "ToolExecutionStarted" /\ ev.call = c /\ ev \in Events
        /\ ev.type \in CallEvents \ {"ApprovalRequested"}
    BY SMTT(30), <2>1, <2>4, StartedTyped DEF CallEvents
  <2>6. Grown(log, lg2, ev)
    BY SMTT(30), <2>5, Known
  <2> HIDE DEF ev, lg2, c
  <2>7. Fits(log, ev)
    BY SMTT(30), <2>2, <2>3, <2>5 DEF Fits, TurnEvents
  <2>8. /\ OpenSet(lg2) = OpenSet(log) /\ PendingSet(lg2) = PendingSet(log) /\ ~ Terminated(lg2, st.turn)
    <3>1. \A j : j \in PendingSet(lg2) <=> j \in PendingSet(log)
      BY SMTT(30), <2>5, <2>6, CallGrows
    <3> QED
      BY ZenonT(30), <1>3, <2>2, <2>5, <2>6, <3>1, CallGrows
  <2>9. CallsOK(lg2, st)
    <3>1. HasCall(lg2, "PermissionDecided", c) /\ ~ HasCall(lg2, "ToolResult", c)
      BY SMTT(30), <2>3, <2>4, <2>5, <2>6, GrownReadings
    <3> QED
      BY <1>3, <2>2, <3>1, ZenonT(30) DEF CallsOK, CallOK, c
  <2>10. /\ lg2[Min(st.suspended)] = log[Min(st.suspended)]
         /\ Positions(log, "ApprovalRequested") \subseteq Positions(lg2, "ApprovalRequested")
    BY SMTT(30), <1>3, <2>2, <2>6, GrownPositions
  <2>11. /\ st.suspended # {} /\ st.suspended \subseteq Positions(log, "ApprovalRequested")
         /\ st.open = OpenSet(log)
         /\ st.calls = <<log[Min(st.suspended)].call>> /\ st.turn = log[Min(st.suspended)].turn
         /\ PendingSet(log) = st.suspended \ {Min(st.suspended)}
    BY ZenonT(30), <1>1, <1>3, <2>1 DEF LoopOK
  <2>12. LoopOK(lg2, st)
    BY ZenonT(30), <1>3, <2>8, <2>9, <2>10, <2>11 DEF LoopOK, InResume, InBatch, InTurn
  <2> QED
    BY ZenonT(30), <1>1, <1>3, <1>4, <2>2, <2>7, <2>12, StartsCall DEF ev, lg2, c
<1> QED
  BY Zenon, <1>5, <1>6

\* The call at hand is started, and the gate goes on.
LEMMA RecordIntentInv == ASSUME Inv, NEW l \in Loops, RecordIntent(l) PROVE Inv'
<1> DEFINE p0 == loop[l].i
           c == loop[l].calls[p0]
           ev == Started(l, c)
           st == [loop[l] EXCEPT !.pc = "gate", !.sched = Append(@, p0), !.i = @ + 1]
           lg2 == Append(log, ev)
<1>1. /\ loop[l].pc = "start" /\ loop[l].i <= Len(loop[l].calls) /\ UNCHANGED <<runs, tasks>>
      /\ AppendEvent(l, ev, st)
  BY Zenon DEF RecordIntent, Gating, Current
<1>2. WellTyped(loop[l]) /\ loop[l].waiting = 0
  BY Zenon, <1>1, Known
<1>3. /\ p0 \in DOMAIN loop[l].calls /\ c \in AllCalls
      /\ p0 \in Nat /\ DOMAIN loop[l].calls \subseteq Nat
  BY SMTT(30), <1>1, <1>2, CurrentIn
<1>4. /\ st \in LoopTypes /\ st.pc = "gate" /\ st.sched = Append(loop[l].sched, p0) /\ st.i = loop[l].i + 1
      /\ st.suspended = loop[l].suspended /\ st.turn = loop[l].turn
      /\ st.calls = loop[l].calls /\ st.head = loop[l].head
      /\ st.results = loop[l].results /\ st.run = loop[l].run /\ st.waiting = loop[l].waiting
      /\ st.asst = loop[l].asst /\ loop[l].sched \in Seq(Nat)
  <2>1. loop[l].sched \in Seq(Nat) /\ loop[l].i + 1 \in Nat \ {0} /\ "gate" \in PCs
    <3>1. loop[l].sched \in Seq(Nat) /\ loop[l].i \in Nat
      BY Zenon, <1>2 DEF WellTyped, LoopTypes
    <3> QED
      BY <3>1 DEF PCs
  <2>2. Append(loop[l].sched, p0) \in Seq(Nat)
    BY SMTT(30), <1>3, <2>1
  <2> HIDE DEF p0
  <2>3. st \in LoopTypes
    BY ZenonT(30), <1>2, <2>1, <2>2 DEF WellTyped, LoopTypes
  <2> QED
    BY ZenonT(30), <1>2, <2>1, <2>3 DEF WellTyped, LoopTypes
<1> HIDE DEF st
<1>5. WellTyped(st) /\ RunFrame(l, st) /\ st.pc # "idle" /\ Schedules(l, st, p0)
  <2> DEFINE a0 == Len(loop[l].sched) + 1
  <2>1. /\ st.sched[a0] = p0
        /\ \A a \in DOMAIN st.sched : a = a0 \/ (a \in DOMAIN loop[l].sched /\ st.sched[a] = loop[l].sched[a])
    BY <1>3, <1>4
  <2>2. Schedules(l, st, p0)
    BY <2>1, ZenonT(30) DEF Schedules
  <2> QED
    BY SMTT(30), <1>1, <1>2, <1>4, <2>2 DEF WellTyped, RunFrame
<1>6. /\ ev.type = "ToolExecutionStarted" /\ ev.call = c /\ ev \in Events
      /\ ev.type \in CallEvents \ {"ApprovalRequested"}
  BY SMTT(30), <1>2, <1>3, StartedTyped DEF CallEvents, WellTyped, LoopTypes
<1>7. ASSUME loop[l].head = Len(log) PROVE Fits(log, ev) /\ LoopOK(lg2, st)
  <2>1. Grown(log, lg2, ev) /\ LogOK(log) /\ DOMAIN log \subseteq Nat /\ InBatch(loop[l])
    <3>1. LogOK(log) /\ DOMAIN log \subseteq Nat /\ Grown(log, lg2, ev)
      BY <1>6, Known, ZenonT(30)
    <3>2. InBatch(loop[l])
      BY <1>1, Zenon DEF InBatch
    <3> QED
      BY <3>1, <3>2, Zenon
  <2> HIDE DEF ev, lg2, p0
  <2>2. /\ loop[l].suspended = {} /\ OpenSet(log) = {} /\ PendingSet(log) = {}
        /\ HasTurn(log, "TurnStarted", loop[l].turn) /\ HasTurn(log, "AssistantMessage", loop[l].turn)
        /\ ~ Terminated(log, loop[l].turn)
        /\ \A p \in DOMAIN loop[l].calls : loop[l].calls[p].turn = loop[l].turn /\ CallOK(log, loop[l], p)
        /\ \A p, q \in DOMAIN loop[l].calls : loop[l].calls[p] = loop[l].calls[q] => p = q
    <3>1. /\ loop[l].suspended = {} /\ OpenSet(log) = {}
          /\ \A j \in PendingSet(log) : loop[l].pc = "ask"
          /\ HasTurn(log, "TurnStarted", loop[l].turn) /\ HasTurn(log, "AssistantMessage", loop[l].turn)
          /\ ~ Terminated(log, loop[l].turn)
          /\ \A p \in DOMAIN loop[l].calls : loop[l].calls[p].turn = loop[l].turn /\ CallOK(log, loop[l], p)
          /\ \A p, q \in DOMAIN loop[l].calls : loop[l].calls[p] = loop[l].calls[q] => p = q
      BY <1>7, <2>1, BatchKnown, Zenon
    <3>2. PendingSet(log) = {}
      BY <1>1, <3>1, Zenon
    <3> QED
      BY <3>1, <3>2, Zenon
  <2>3. Cleared(log, c) /\ ~ HasCall(log, "ToolExecutionStarted", c) /\ ~ HasCall(log, "ToolResult", c)
    BY ZenonT(30), <1>1, <1>3, <2>2 DEF CallOK, p0
  <2>4. HasCall(log, "PermissionDecided", c)
    BY SMTT(30), <2>1, <2>3, OrderReads
  <2>5. Fits(log, ev)
    BY SMTT(30), <1>3, <1>6, <2>2, <2>3 DEF Fits, TurnEvents
  <2>6. OpenSet(lg2) = {} /\ PendingSet(lg2) = {}
    BY SMTT(30), <1>6, <2>1, <2>2, CallGrows
  <2>7. /\ HasTurn(lg2, "TurnStarted", st.turn) /\ HasTurn(lg2, "AssistantMessage", st.turn)
        /\ ~ Terminated(lg2, st.turn)
    BY ZenonT(30), <1>4, <1>6, <2>1, <2>2, CallGrows DEF TurnEvents
  <2>8. CallOK(lg2, st, p0)
    <3>1. HasCall(lg2, "PermissionDecided", c) /\ ~ HasCall(lg2, "ToolResult", c)
      BY SMTT(30), <1>6, <2>1, <2>3, <2>4, GrownReadings
    <3>2. ~ (p0 > st.i) /\ p0 # st.i /\ st.calls[p0] = c
      BY SMTT(30), <1>3, <1>4 DEF p0
    <3> QED
      BY SMTT(30), <1>4, <3>1, <3>2 DEF CallOK
  <2>9. ASSUME NEW p \in DOMAIN loop[l].calls, p # p0 PROVE CallOK(lg2, st, p)
    <3>1. ev.call # loop[l].calls[p]
      BY Zenon, <1>3, <1>6, <2>2, <2>9
    <3>2. CallOK(log, loop[l], p) /\ p \in Nat /\ loop[l].i = p0
      BY Zenon, <1>3, <2>2 DEF p0
    <3> QED
      BY ZenonT(30), <1>1, <1>3, <1>4, <2>1, <2>9, <3>1, <3>2, OtherOK
  <2>10. CallsOK(lg2, st)
    BY ZenonT(30), <1>4, <2>8, <2>9 DEF CallsOK
  <2>11. \A p \in DOMAIN st.calls : st.calls[p].turn = st.turn /\ st.calls[p].i = p
    <3>1. LoopOK(log, loop[l])
      BY <1>7, Known, Zenon
    <3>2. \A p \in DOMAIN loop[l].calls : loop[l].calls[p].turn = loop[l].turn /\ loop[l].calls[p].i = p
      BY <2>1, <3>1, Zenon DEF LoopOK
    <3> QED
      BY <1>4, <3>2, ZenonT(30)
  <2>12. LoopOK(lg2, st)
    BY ZenonT(30), <1>4, <2>2, <2>6, <2>7, <2>10, <2>11 DEF LoopOK, InResume, InBatch, InTurn
  <2> QED
    BY <2>5, <2>12
<1> QED
  BY <1>1, <1>3, <1>4, <1>5, <1>7, StartsCall, ZenonT(30)
=============================================================================
