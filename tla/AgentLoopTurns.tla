--------------------------- MODULE AgentLoopTurns ---------------------------
(***************************************************************************)
(* The actions of the agent loop that open, close and resume turns keep    *)
(* its invariant.                                                          *)
(***************************************************************************)
EXTENDS AgentLoopLog

\* The log is read: what is suspended and what is open is known.
LEMMA AnalyzeInv == ASSUME Inv, NEW l \in Loops, Analyze(l) PROVE Inv'
<1> DEFINE st == [loop[l] EXCEPT !.pc = "resume", !.suspended = SuspendedApprovals(log), !.open = OpenTurns(log)]
<1>1. WellTyped(loop[l]) /\ LogOK(log) /\ DOMAIN log \subseteq Nat /\ (loop[l].waiting # 0 => loop[l].pc = "dispatch")
  BY Zenon, Known
<1>2. SuspendedApprovals(log) = PendingSet(log) /\ OpenTurns(log) = OpenSet(log)
  BY Zenon, <1>1, RecoveryReads
<1>3. PendingSet(log) \in SUBSET Nat /\ OpenSet(log) \in SUBSET Nat
  BY Zenon, <1>1 DEF PendingSet, OpenSet, Positions
<1>4. /\ st \in LoopTypes /\ st.pc = "resume" /\ st.suspended = PendingSet(log) /\ st.open = OpenSet(log)
      /\ st.run = loop[l].run /\ st.waiting = loop[l].waiting /\ st.sched = loop[l].sched /\ st.head = loop[l].head
      /\ st.calls = loop[l].calls /\ st.asst = loop[l].asst /\ st.results = loop[l].results
  BY Zenon, <1>1, <1>2, <1>3 DEF WellTyped, LoopTypes, PCs
<1>5. Set(l, st) /\ loop[l].pc = "load" /\ UNCHANGED <<runs, tasks>>
  BY Zenon DEF Analyze
<1> HIDE DEF st
<1>6. WellTyped(st) /\ Frame(l, st)
  BY Zenon, <1>1, <1>4, <1>5 DEF WellTyped, Frame, RunFrame, SchedFrame
<1>7. LoopOK(log, st)
  BY Zenon, <1>4 DEF LoopOK, InResume, InBatch, InTurn, CallsOK, CallOK
<1>8. st.suspended \subseteq Positions(log, "ApprovalRequested")
  BY Zenon, <1>4 DEF PendingSet
<1> QED
  BY Zenon, <1>4, <1>5, <1>6, <1>7, <1>8, Moves

\* The next suspended ask becomes the call at hand.
LEMMA ReraiseInv == ASSUME Inv, NEW l \in Loops, Reraise(l) PROVE Inv'
<1> DEFINE ask == log[Min(loop[l].suspended)]
           st == [loop[l] EXCEPT !.pc = "reraised", !.turn = ask.turn, !.asst = AssistantSeqOf(ask.turn),
                                 !.calls = <<ask.call>>, !.results = <<NoCall>>, !.i = 1, !.sched = << >>]
<1>1. WellTyped(loop[l]) /\ LogOK(log) /\ (loop[l].waiting # 0 => loop[l].pc = "dispatch")
  BY Zenon, Known
<1>2. Set(l, st) /\ loop[l].pc = "resume" /\ loop[l].suspended # {} /\ UNCHANGED <<runs, tasks>>
  BY Zenon DEF Reraise
<1>3. AssistantSeqOf(ask.turn) \in Nat
  <2> DEFINE S == {0} \cup {i \in Positions(log, "AssistantMessage") : log[i].turn = ask.turn}
  <2>1. S \subseteq 0..Len(log) /\ S # {} /\ Len(log) \in Nat
    BY Known DEF Positions
  <2>2. Max(S) \in 0..Len(log)
    BY Zenon, <2>1, MaxIsIn
  <2>3. AssistantSeqOf(ask.turn) = Max(S)
    BY Zenon DEF AssistantSeqOf
  <2> QED
    BY <2>1, <2>2, <2>3
<1>4. Min(loop[l].suspended) \in loop[l].suspended
  BY Zenon, <1>1, <1>2, MinIsIn DEF WellTyped, LoopTypes
<1>5. ask.turn \in Nat /\ ask.call \in AllCalls
  <2>1. Min(loop[l].suspended) \in Positions(log, "ApprovalRequested") /\ log \in Seq(Events)
    BY Zenon, <1>2, <1>4, Known
  <2>2. ask \in Events /\ ask.type = "ApprovalRequested"
    BY <2>1 DEF Positions
  <2> QED
    BY Zenon, <2>2, AskTyped
<1> HIDE DEF ask
<1>6. /\ st \in LoopTypes /\ st.pc = "reraised" /\ st.turn = ask.turn /\ st.calls = <<ask.call>>
      /\ st.sched = << >> /\ st.i = 1 /\ Len(st.results) = Len(st.calls)
      /\ st.suspended = loop[l].suspended /\ st.open = loop[l].open
      /\ st.run = loop[l].run /\ st.waiting = loop[l].waiting /\ st.head = loop[l].head
  <2>1. /\ <<ask.call>> \in Seq(AllCalls) /\ <<NoCall>> \in Seq(AllCalls \cup {NoCall}) /\ << >> \in Seq(Nat)
        /\ Len(<<ask.call>>) = 1 /\ Len(<<NoCall>>) = 1 /\ 1 \in Nat \ {0} /\ "reraised" \in PCs
    BY <1>5 DEF PCs
  <2> QED
    BY Zenon, <1>1, <1>3, <1>5, <2>1 DEF WellTyped, LoopTypes
<1> HIDE DEF st
<1>7. WellTyped(st) /\ Frame(l, st)
  BY Zenon, <1>1, <1>2, <1>6 DEF WellTyped, Frame, RunFrame, SchedFrame
<1>8. ASSUME loop[l].head = Len(log) PROVE LoopOK(log, st)
  <2>1. LoopOK(log, loop[l])
    BY Zenon, <1>8, Known
  <2>2. st.suspended = PendingSet(log) /\ st.open = OpenSet(log) /\ Min(st.suspended) \in PendingSet(log)
    BY Zenon, <1>2, <1>4, <1>6, <2>1 DEF LoopOK
  <2>3. ~ Terminated(log, st.turn) /\ st.suspended \subseteq Positions(log, "ApprovalRequested")
    BY Zenon, <1>6, <2>2 DEF PendingSet, ask
  <2> QED
    BY Zenon, <1>2, <1>6, <2>2, <2>3 DEF LoopOK, InResume, InBatch, InTurn, CallsOK, CallOK, ask
<1> QED
  BY Zenon, <1>2, <1>6, <1>7, <1>8, Moves

\* A decision on the resumed ask, and what the loop does next.
LEMMA ResumeDecides ==
    ASSUME Inv, NEW l \in Loops, loop[l].pc = "reraised", UNCHANGED <<runs, tasks>>,
           NEW resolved \in {"allowed", "denied"}, NEW pc \in {"resumeStart", "feed", "abandoned"},
           resolved = "allowed" <=> pc = "resumeStart",
           AppendEvent(l, Decided(loop[l].calls[1], "ask", resolved), [loop[l] EXCEPT !.pc = pc])
    PROVE  Inv'
<1> DEFINE c == loop[l].calls[1]
           ev == Decided(c, "ask", resolved)
           st == [loop[l] EXCEPT !.pc = pc]
<1>1. WellTyped(loop[l]) /\ LogOK(log) /\ loop[l].waiting = 0 /\ DOMAIN log \subseteq Nat
  BY Zenon, Known
<1>2. /\ st \in LoopTypes /\ st.pc = pc /\ st.calls = loop[l].calls /\ st.i = loop[l].i /\ st.turn = loop[l].turn
      /\ st.suspended = loop[l].suspended /\ st.open = loop[l].open /\ st.results = loop[l].results
      /\ st.run = loop[l].run /\ st.waiting = loop[l].waiting /\ st.asst = loop[l].asst /\ st.sched = loop[l].sched
  BY ZenonT(30), <1>1 DEF WellTyped, LoopTypes, PCs
<1>3. WellTyped(st) /\ Frame(l, st) /\ st.pc # "idle"
  BY Zenon, <1>1, <1>2 DEF WellTyped, Frame, RunFrame, SchedFrame
<1> HIDE DEF st
<1>4. ASSUME loop[l].head = Len(log)
      PROVE  ev \in Events /\ Fits(log, ev) /\ LoopOK(Append(log, ev), st)
  <2> DEFINE m == Min(loop[l].suspended)
             lg2 == Append(log, ev)
  <2>1. /\ loop[l].suspended # {} /\ loop[l].suspended = PendingSet(log) /\ loop[l].open = OpenSet(log)
        /\ loop[l].calls = <<log[m].call>> /\ loop[l].turn = log[m].turn /\ ~ Terminated(log, loop[l].turn)
        /\ loop[l].suspended \subseteq Positions(log, "ApprovalRequested")
    BY Zenon, <1>4, Known DEF LoopOK, InResume
  <2>2. m \in PendingSet(log) /\ m \in DOMAIN log /\ log[m].type = "ApprovalRequested"
    <3>1. m \in loop[l].suspended
      BY SMTT(30), <1>1, <2>1, MinIsIn DEF WellTyped, LoopTypes
    <3> QED
      BY Zenon, <2>1, <3>1 DEF Positions
  <2> HIDE DEF m
  <2>3. c = log[m].call /\ DOMAIN loop[l].calls = {1} /\ c \in AllCalls
    <3>1. c = log[m].call /\ DOMAIN loop[l].calls = {1}
      BY <2>1
    <3>2. log[m] \in Events
      BY <2>2, Known
    <3> QED
      BY Zenon, <2>2, <3>1, <3>2, AskTyped
  <2> HIDE DEF c
  <2>4. /\ ev.type = "PermissionDecided" /\ ev.call = c /\ ev.decision = "ask" /\ ev.resolved = resolved
        /\ ev \in [type : {"PermissionDecided"}, call : AllCalls, decision : {"allow", "deny", "ask"},
                    resolved : {"none", "allowed", "denied"}]
    BY Zenon, <2>3 DEF Decided
  <2>5. ev \in Events
    BY Zenon, <2>4 DEF Events
  <2>6. Grown(log, lg2, ev)
    BY Zenon, <2>5, Known
  <2> HIDE DEF ev, lg2
  <2>7. c.turn = loop[l].turn /\ HasTurn(log, "TurnStarted", c.turn)
    BY Zenon, <1>1, <2>1, <2>2, <2>3, OrderReads DEF PendingSet
  <2>8. Fits(log, ev)
    BY Zenon, <2>1, <2>4, <2>7 DEF Fits, TurnEvents
  <2>9. ~ HasCall(log, "PermissionDecided", c) /\ ~ HasCall(log, "ToolResult", c) /\ ~ HasCall(log, "ToolExecutionStarted", c)
    <3>1. ~ HasCall(log, "PermissionDecided", c)
      BY Zenon, <2>2, <2>3 DEF PendingSet
    <3> QED
      BY Zenon, <1>1, <3>1, OrderReads
  <2>10. \A j \in PendingSet(log) : log[j].call = c => j = m
    BY Zenon, <1>1, <2>2, <2>3, OrderReads DEF PendingSet
  <2>11. PendingSet(lg2) = PendingSet(log) \ {m} /\ OpenSet(lg2) = OpenSet(log)
    <3>1. \A j : j \in PendingSet(lg2) <=> j \in PendingSet(log) /\ j # m
      BY SMTT(30), <2>2, <2>3, <2>4, <2>6, <2>10, GrownOpen DEF EndEvents
    <3>2. \A j : j \in OpenSet(lg2) <=> j \in OpenSet(log)
      BY Zenon, <2>4, <2>6, GrownOpen DEF EndEvents
    <3> QED
      BY Zenon, <3>1, <3>2
  <2>12. /\ lg2[m] = log[m] /\ ~ Terminated(lg2, st.turn)
         /\ st.suspended \subseteq Positions(lg2, "ApprovalRequested")
    BY SMTT(30), <1>2, <2>1, <2>2, <2>4, <2>6, GrownTurns, GrownPositions DEF EndEvents
  <2>13. /\ HasCall(lg2, "PermissionDecided", c) /\ ~ HasCall(lg2, "ToolResult", c) /\ ~ HasCall(lg2, "ToolExecutionStarted", c)
         /\ resolved = "allowed" => Cleared(lg2, c)
    BY SMTT(30), <2>4, <2>6, <2>9, GrownReadings
  <2>14. CallsOK(lg2, st)
    BY Zenon, <1>2, <2>3, <2>13 DEF CallsOK, CallOK, c
  <2>15. LoopOK(lg2, st)
    BY Zenon, <1>2, <2>1, <2>11, <2>12, <2>14 DEF LoopOK, InResume, InBatch, InTurn, m
  <2> QED
    BY Zenon, <2>5, <2>8, <2>15 DEF lg2
<1> QED
  BY Zenon, <1>3, <1>4, Appends DEF st

\* Somebody answers the resumed ask.
LEMMA ResumeAnsweredInv == ASSUME Inv, NEW l \in Loops, ResumeAnswered(l) PROVE Inv'
BY Zenon, ResumeDecides DEF ResumeAnswered

\* Nobody answers in time.
LEMMA AbandonInv == ASSUME Inv, NEW l \in Loops, Abandon(l) PROVE Inv'
BY Zenon, ResumeDecides DEF Abandon
\* A turn that has started and not ended may be aborted.
LEMMA EndFits ==
    ASSUME NEW t \in Nat, NEW cost \in Nat, HasTurn(log, "TurnStarted", t), ~ Terminated(log, t)
    PROVE  /\ [type |-> "TurnAborted", turn |-> t, cost |-> cost] \in Events
           /\ Fits(log, [type |-> "TurnAborted", turn |-> t, cost |-> cost])
<1> DEFINE ev == [type |-> "TurnAborted", turn |-> t, cost |-> cost]
<1>1. ev \in [type : {"TurnAborted"}, turn : Nat, cost : Nat] /\ ev.type = "TurnAborted" /\ ev.turn = t
  BY Zenon
<1> HIDE DEF ev
<1>2. ev \in Events /\ Fits(log, ev)
  BY Zenon, <1>1 DEF Events, Fits, CallEvents
<1> QED
  BY Zenon, <1>2 DEF ev

\* A run that aborts its turn returns.
LEMMA EndsTurn ==
    ASSUME Inv, NEW l \in Loops, NEW cost \in Nat,
           AppendEvent(l, [type |-> "TurnAborted", turn |-> loop[l].turn, cost |-> cost], Idle), UNCHANGED <<runs, tasks>>,
           loop[l].head = Len(log) => HasTurn(log, "TurnStarted", loop[l].turn) /\ ~ Terminated(log, loop[l].turn)
    PROVE  Inv'
<1>1. loop[l].turn \in Nat
  BY Zenon, Known DEF WellTyped, LoopTypes
<1> QED
  BY Zenon, <1>1, EndFits, Appends, IdleOK DEF Frame, RunFrame, SchedFrame

\* The turn of the abandoned ask is aborted.
LEMMA AbandonTurnInv == ASSUME Inv, NEW l \in Loops, AbandonTurn(l) PROVE Inv'
<1> DEFINE ev == [type |-> "TurnAborted", turn |-> loop[l].turn, cost |-> 0]
<1>1. AppendEvent(l, ev, Idle) /\ loop[l].pc = "abandoned" /\ UNCHANGED <<runs, tasks>>
  BY Zenon DEF AbandonTurn
<1>2. ASSUME loop[l].head = Len(log)
      PROVE  HasTurn(log, "TurnStarted", loop[l].turn) /\ ~ Terminated(log, loop[l].turn)
  <2>1. /\ LoopOK(log, loop[l]) /\ LogOK(log) /\ DOMAIN log \subseteq Nat
        /\ loop[l].suspended \subseteq Nat
    BY SMTT(30), <1>2, Known DEF WellTyped, LoopTypes
  <2>2. /\ loop[l].suspended # {} /\ loop[l].suspended \subseteq Positions(log, "ApprovalRequested")
        /\ loop[l].turn = log[Min(loop[l].suspended)].turn /\ ~ Terminated(log, loop[l].turn)
    BY Zenon, <1>1, <2>1 DEF LoopOK, InResume
  <2>3. Min(loop[l].suspended) \in Positions(log, "ApprovalRequested")
    BY Zenon, <2>1, <2>2, MinIsIn
  <2> QED
    BY Zenon, <2>1, <2>2, <2>3, OrderReads
<1> QED
  BY Zenon, <1>1, <1>2, EndsTurn

\* An open turn is closed.
LEMMA CloseOpenTurnInv == ASSUME Inv, NEW l \in Loops, CloseOpenTurn(l) PROVE Inv'
<1> DEFINE i == Min(loop[l].open)
           ev == [type |-> "TurnAborted", turn |-> log[i].turn, cost |-> 0]
           st == [loop[l] EXCEPT !.open = @ \ {i}]
           lg2 == Append(log, ev)
<1>1. /\ AppendEvent(l, ev, st) /\ loop[l].pc = "resume" /\ loop[l].suspended = {} /\ loop[l].open # {}
      /\ UNCHANGED <<runs, tasks>>
  BY Zenon DEF CloseOpenTurn
<1>2. WellTyped(loop[l]) /\ LogOK(log) /\ loop[l].waiting = 0 /\ DOMAIN log \subseteq Nat /\ log \in Seq(Events)
  BY Zenon, <1>1, Known
<1>3. i \in loop[l].open
  BY Zenon, <1>1, <1>2, MinIsIn DEF WellTyped, LoopTypes
<1>4. /\ st \in LoopTypes /\ st.pc = "resume" /\ st.suspended = {} /\ st.open = loop[l].open \ {i}
      /\ st.calls = loop[l].calls /\ st.results = loop[l].results /\ st.sched = loop[l].sched
      /\ st.run = loop[l].run /\ st.waiting = 0 /\ st.asst = loop[l].asst
  BY Zenon, <1>1, <1>2 DEF WellTyped, LoopTypes
<1> HIDE DEF st, i
<1>5. WellTyped(st) /\ Frame(l, st)
  BY Zenon, <1>1, <1>2, <1>4 DEF WellTyped, Frame, RunFrame, SchedFrame
<1>6. ASSUME loop[l].head = Len(log)
      PROVE  ev \in Events /\ Fits(log, ev) /\ LoopOK(lg2, st)
  <2>1. PendingSet(log) = {} /\ loop[l].open = OpenSet(log)
    BY Zenon, <1>1, <1>6, Known DEF LoopOK
  <2>2. i \in Positions(log, "TurnStarted") /\ ~ Closed(log, log[i].turn)
    BY Zenon, <1>3, <2>1 DEF OpenSet
  <2>3. log[i].turn \in Nat /\ HasTurn(log, "TurnStarted", log[i].turn) /\ ~ Terminated(log, log[i].turn)
    <3>1. log[i] \in Events /\ log[i].type = "TurnStarted"
      BY <1>2, <2>2 DEF Positions
    <3>2. log[i].turn \in Nat
      BY Zenon, <3>1 DEF Events
    <3> QED
      BY Zenon, <2>2, <3>2 DEF HasTurn, Closed
  <2>4. ev \in Events /\ Fits(log, ev)
    BY Zenon, <2>3, EndFits
  <2>5. Grown(log, lg2, ev)
    BY Zenon, <2>4, Known
  <2>6. \A j \in OpenSet(log) : log[j].turn = log[i].turn <=> j = i
    BY Zenon, <1>2, <2>2, OrderReads DEF OpenSet
  <2>7. ev.type = "TurnAborted" /\ ev.turn = log[i].turn
    BY Zenon
  <2> HIDE DEF ev, lg2
  <2>8. \A j : j \in OpenSet(lg2) <=> j \in OpenSet(log) /\ j # i
    BY <2>5, <2>6, <2>7, GrownOpen DEF EndEvents
  <2>9. \A j : j \notin PendingSet(lg2)
    BY Zenon, <2>1, <2>5, <2>7, GrownOpen
  <2>10. st.open = OpenSet(lg2) /\ st.suspended = PendingSet(lg2)
    BY SMTT(30), <1>4, <2>1, <2>8, <2>9
  <2>11. LoopOK(lg2, st)
    BY Zenon, <1>4, <2>10 DEF LoopOK, InResume, InBatch, InTurn, CallsOK, CallOK
  <2> QED
    BY SMTT(30), <2>4, <2>11
<1> QED
  BY Zenon, <1>1, <1>4, <1>5, <1>6, Appends

\* A broken stream aborts its turn.
LEMMA StreamFailsInv == ASSUME Inv, NEW l \in Loops, StreamFails(l) PROVE Inv'
<1>1. /\ loop[l].pc = "stream" /\ UNCHANGED <<runs, tasks>>
      /\ \E c \in Costs \cup {0} : AppendEvent(l, [type |-> "TurnAborted", turn |-> loop[l].turn, cost |-> c], Idle)
  BY Zenon DEF StreamFails
<1>2. PICK c \in Costs \cup {0} : AppendEvent(l, [type |-> "TurnAborted", turn |-> loop[l].turn, cost |-> c], Idle)
  BY SMTT(30), <1>1
<1>3. c \in Nat
  BY SMTT(30), ConfigAssumption
<1>4. loop[l].head = Len(log) => HasTurn(log, "TurnStarted", loop[l].turn) /\ ~ Terminated(log, loop[l].turn)
  BY Zenon, <1>1, Known DEF LoopOK, InTurn
<1> QED
  BY Zenon, <1>1, <1>2, <1>3, <1>4, EndsTurn

\* The last turn is finished.
LEMMA FinishInv == ASSUME Inv, NEW l \in Loops, Finish(l) PROVE Inv'
<1> DEFINE ev == [type |-> "TurnFinished", turn |-> loop[l].turn, cost |-> loop[l].cost,
                  reason |-> loop[l].reason, numTurns |-> loop[l].numTurns]
<1>1. AppendEvent(l, ev, Idle) /\ loop[l].pc = "finish" /\ UNCHANGED <<runs, tasks>>
  BY Zenon DEF Finish
<1>2. loop[l].turn \in Nat /\ loop[l].cost \in Nat /\ loop[l].reason \in Reasons /\ loop[l].numTurns \in Nat
  BY Zenon, <1>1, Known DEF WellTyped, LoopTypes
<1>3. ev \in [type : {"TurnFinished"}, turn : Nat, cost : Nat, reason : Reasons, numTurns : Nat]
  BY Zenon, <1>2
<1>4. ev \in Events
  BY Zenon, <1>3 DEF Events
<1>5. ASSUME loop[l].head = Len(log) PROVE Fits(log, ev)
  <2>1. HasTurn(log, "TurnStarted", loop[l].turn) /\ ~ Terminated(log, loop[l].turn)
    BY Zenon, <1>1, <1>5, Known DEF LoopOK, InTurn
  <2> QED
    BY SMTT(30), <2>1 DEF Fits, CallEvents
<1> QED
  BY Zenon, <1>1, <1>4, <1>5, Appends, IdleOK DEF Frame, RunFrame, SchedFrame

\* The user message, or none, and the turns begin.
LEMMA UserMessageInv == ASSUME Inv, NEW l \in Loops, UserMessage(l) PROVE Inv'
<1> DEFINE ev == [type |-> "MessageAppended", role |-> "user", calls |-> << >>]
           st == [loop[l] EXCEPT !.pc = "loop"]
<1>1. /\ AppendEvent(l, ev, st) \/ Set(l, st)
      /\ loop[l].pc = "resume" /\ loop[l].suspended = {} /\ loop[l].open = {} /\ UNCHANGED <<runs, tasks>>
  BY Zenon DEF UserMessage
<1>2. /\ WellTyped(st) /\ Frame(l, st) /\ st.pc = "loop" /\ st.head = loop[l].head
      /\ st.suspended = {} /\ st.open = {}
  BY Zenon, <1>1, GoesTo DEF PCs
<1>3. ev \in Events /\ ev.type \notin TurnEvents \cup CallEvents
  <2>1. << >> \in Seq(AllCalls)
    OBVIOUS
  <2> QED
    BY Zenon, <2>1, MessageQuiet
<1> HIDE DEF st, ev
<1>4. ASSUME loop[l].head = Len(log) PROVE LoopOK(log, st)
  <2>1. PendingSet(log) = {} /\ OpenSet(log) = {}
    BY Zenon, <1>1, <1>4, Known DEF LoopOK
  <2> QED
    BY SMTT(30), <1>2, <2>1 DEF LoopOK, InResume, InBatch, InTurn, CallsOK, CallOK
<1>5. CASE AppendEvent(l, ev, st)
  BY SMTT(30), <1>1, <1>2, <1>3, <1>4, <1>5, QuietAppends
<1>6. CASE Set(l, st)
  BY Zenon, <1>1, <1>2, <1>4, <1>6, Moves
<1> QED
  BY Zenon, <1>1, <1>5, <1>6

\* A compaction.
LEMMA CompactInv == ASSUME Inv, NEW l \in Loops, Compact(l) PROVE Inv'
<1> DEFINE ev == [type |-> "CompactionPerformed"]
           st == [loop[l] EXCEPT !.pc = "compacted"]
<1>1. AppendEvent(l, ev, st) /\ loop[l].pc = "loop" /\ UNCHANGED <<runs, tasks>>
  BY Zenon DEF Compact
<1>2. WellTyped(st) /\ Frame(l, st) /\ st.pc = "compacted" /\ st.suspended = loop[l].suspended
  BY Zenon, <1>1, GoesTo DEF PCs
<1>3. ev \in Events /\ ev.type \notin TurnEvents \cup CallEvents
  BY SMTT(30) DEF Events, TurnEvents, CallEvents
<1> HIDE DEF st, ev
<1>4. ASSUME loop[l].head = Len(log) PROVE LoopOK(log, st)
  <2>1. LoopOK(log, loop[l])
    BY SMTT(30), <1>4, Known
  <2> QED
    BY Zenon, <1>1, <1>2, <2>1 DEF LoopOK, InResume, InBatch, InTurn, CallsOK, CallOK
<1> QED
  BY Zenon, <1>1, <1>2, <1>3, <1>4, QuietAppends

\* The number of the next turn is a number.
LEMMA FreshTurn == ASSUME Inv PROVE NewTurn \in Nat
<1>1. IsFiniteSet(Positions(log, "TurnStarted"))
  <2>1. log \in Seq(Events)
    BY Zenon DEF Inv, TypeInv
  <2>2. Len(log) \in Nat /\ DOMAIN log = 1..Len(log)
    BY <2>1
  <2>3. IsFiniteSet(1..Len(log))
    BY <2>2, FS_Interval
  <2>4. Positions(log, "TurnStarted") \subseteq 1..Len(log)
    BY Zenon, <2>2 DEF Positions
  <2> QED
    BY Zenon, <2>3, <2>4, FS_Subset
<1> QED
  BY <1>1, FS_CardinalityType DEF NewTurn

\* A turn starts, with a number that no event of the log has.
LEMMA BeginsTurn ==
    ASSUME Inv, NEW l \in Loops, loop[l].pc \in {"loop", "compacted"},
           NEW st, WellTyped(st), Frame(l, st), st.pc \in {"stream", "finish"}, st.turn = NewTurn,
           st.suspended = loop[l].suspended,
           AppendEvent(l, [type |-> "TurnStarted", turn |-> NewTurn], st), UNCHANGED <<runs, tasks>>
    PROVE  Inv'
<1> DEFINE t == NewTurn
           ev == [type |-> "TurnStarted", turn |-> t]
           lg2 == Append(log, ev)
<1>1. LogOK(log) /\ log \in Seq(Events) /\ Len(log) \in Nat /\ WellTyped(st) /\ t \in Nat
  BY Zenon, Known DEF WellTyped, LoopTypes
<1>2. t = TurnCount(log) + 1
  BY Zenon DEF NewTurn, TurnCount
<1> HIDE DEF t
<1>3. /\ ev \in [type : {"TurnStarted"}, turn : Nat] /\ ev.type = "TurnStarted" /\ ev.turn = t
  BY Zenon, <1>1
<1>4. ev \in Events
  BY Zenon, <1>3 DEF Events
<1>5. Grown(log, lg2, ev)
  BY Zenon, <1>4, Known
<1>6. AppendEvent(l, ev, st) /\ st.turn = t
  BY Zenon DEF t
<1>7. ASSUME loop[l].head = Len(log) PROVE Fits(log, ev) /\ LoopOK(lg2, st)
  <2>1. OpenSet(log) = {} /\ PendingSet(log) = {} /\ st.suspended = {}
    BY SMTT(30), <1>7, Known DEF LoopOK
  <2>2. Fits(log, ev)
    BY Zenon, <1>2, <1>3, <2>1 DEF Fits, TurnEvents, CallEvents
  <2> HIDE DEF ev, lg2
  <2>3. TurnCount(log) \in Nat
    BY Zenon, <1>5, GrownCount
  <2>4. \A type \in TurnEvents : ~ HasTurn(log, type, t)
    <3> SUFFICES ASSUME NEW i \in DOMAIN log, log[i].type \in TurnEvents PROVE log[i].turn # t
      BY Zenon DEF HasTurn, Positions
    <3>1. log[i].turn \in 1..TurnCount(log)
      BY Zenon, <1>1 DEF LogOK
    <3> QED
      BY SMTT(30), <1>2, <2>3, <3>1
  <2>5. \A i \in DOMAIN log : log[i].type \in CallEvents => log[i].call.turn # t
    <3> SUFFICES ASSUME NEW i \in DOMAIN log, log[i].type \in CallEvents PROVE log[i].call.turn # t
      BY Zenon
    <3>1. log[i].call.turn \in 1..TurnCount(log)
      BY Zenon, <1>1 DEF LogOK
    <3> QED
      BY SMTT(30), <1>2, <2>3, <3>1
  <2>6. \A i \in DOMAIN lg2 : lg2[i].type \in CallEvents => lg2[i].call.turn # t
    <3>1. \A i \in DOMAIN lg2 : lg2[i].type \in CallEvents => i \in DOMAIN log /\ lg2[i] = log[i]
      BY SMTT(30), <1>3, <1>5, GrownPositions DEF CallEvents
    <3> QED
      BY Zenon, <2>5, <3>1
  <2>7. /\ HasTurn(lg2, "TurnStarted", t) /\ ~ HasTurn(lg2, "AssistantMessage", t)
        /\ ~ HasTurn(lg2, "TurnFinished", t) /\ ~ HasTurn(lg2, "TurnAborted", t)
    BY SMTT(30), <1>3, <1>5, <2>4, GrownReadings DEF TurnEvents
  <2>8. ~ Terminated(lg2, t)
    BY Zenon, <2>7 DEF Terminated
  <2>9. PendingSet(lg2) = {} /\ \A j \in OpenSet(lg2) : lg2[j].turn = t
    BY SMTT(30), <1>3, <1>5, <2>1, GrownOpen, GrownPositions
  <2>10. CallsOK(lg2, st)
    BY SMTT(30) DEF CallsOK, CallOK
  <2>11. LoopOK(lg2, st)
    BY SMTT(30), <1>6, <2>1, <2>6, <2>7, <2>8, <2>9, <2>10 DEF LoopOK, InResume, InBatch, InTurn
  <2> QED
    BY SMTT(30), <2>2, <2>11
<1> QED
  BY SMTT(30), <1>4, <1>6, <1>7, Appends

\* A cap ends the run on a turn of its own.
LEMMA TerminateInv == ASSUME Inv, NEW l \in Loops, Terminate(l) PROVE Inv'
<1> DEFINE t == NewTurn
           reason == IF OverBudget(l) THEN "error_max_budget_usd" ELSE "error_max_turns"
           st == [loop[l] EXCEPT !.pc = "finish", !.turn = t, !.reason = reason]
<1>1. AppendEvent(l, [type |-> "TurnStarted", turn |-> t], st) /\ loop[l].pc = "loop" /\ UNCHANGED <<runs, tasks>>
  BY Zenon DEF Terminate
<1>2. WellTyped(loop[l]) /\ loop[l].waiting = 0 /\ t \in Nat
  BY Zenon, <1>1, Known, FreshTurn
<1>3. reason \in Reasons
  BY Zenon DEF Reasons
<1> HIDE DEF t, reason
<1>4. /\ st \in LoopTypes /\ st.pc = "finish" /\ st.turn = t /\ st.reason = reason
      /\ st.suspended = loop[l].suspended /\ st.calls = loop[l].calls /\ st.results = loop[l].results
      /\ st.run = loop[l].run /\ st.waiting = 0 /\ st.asst = loop[l].asst /\ st.sched = loop[l].sched
  BY ZenonT(30), <1>2, <1>3 DEF WellTyped, LoopTypes, PCs
<1> HIDE DEF st
<1>5. WellTyped(st) /\ Frame(l, st)
  BY Zenon, <1>1, <1>2, <1>3, <1>4 DEF WellTyped, Frame, RunFrame, SchedFrame
<1> QED
  BY Zenon, <1>1, <1>4, <1>5, BeginsTurn DEF t

\* A turn starts before its model is asked.
LEMMA StartTurnInv == ASSUME Inv, NEW l \in Loops, StartTurn(l) PROVE Inv'
<1> DEFINE t == NewTurn
           st == [loop[l] EXCEPT !.pc = "stream", !.turn = t, !.numTurns = @ + 1]
<1>1. /\ AppendEvent(l, [type |-> "TurnStarted", turn |-> t], st) /\ loop[l].pc \in {"loop", "compacted"}
      /\ UNCHANGED <<runs, tasks>>
  BY Zenon DEF StartTurn
<1>2. WellTyped(loop[l]) /\ loop[l].waiting = 0 /\ t \in Nat
  BY Zenon, <1>1, Known, FreshTurn
<1> HIDE DEF t
<1>3. loop[l].numTurns + 1 \in Nat
  BY SMTT(30), <1>2 DEF WellTyped, LoopTypes
<1>4. /\ st \in LoopTypes /\ st.pc = "stream" /\ st.turn = t
      /\ st.suspended = loop[l].suspended /\ st.calls = loop[l].calls /\ st.results = loop[l].results
      /\ st.run = loop[l].run /\ st.waiting = 0 /\ st.asst = loop[l].asst /\ st.sched = loop[l].sched
  BY ZenonT(30), <1>2, <1>3 DEF WellTyped, LoopTypes, PCs
<1> HIDE DEF st
<1>5. WellTyped(st) /\ Frame(l, st)
  BY Zenon, <1>1, <1>2, <1>4 DEF WellTyped, Frame, RunFrame, SchedFrame
<1> QED
  BY Zenon, <1>1, <1>4, <1>5, BeginsTurn DEF t

\* A final message ends the run or is asked for again.
LEMMA FinalMessageInv == ASSUME Inv, NEW l \in Loops, FinalMessage(l) PROVE Inv'
<1>1. /\ loop[l].pc = "final" /\ UNCHANGED <<runs, tasks>>
      /\ WellTyped(loop[l]) /\ loop[l].waiting = 0
      /\ loop[l].head = Len(log) => LoopOK(log, loop[l])
  BY Zenon, Known DEF FinalMessage
<1>2. ASSUME NEW reason \in Reasons, Set(l, [loop[l] EXCEPT !.pc = "finish", !.reason = reason])
      PROVE  Inv'
  <2> DEFINE st == [loop[l] EXCEPT !.pc = "finish", !.reason = reason]
  <2>1. /\ st \in LoopTypes /\ st.pc = "finish" /\ st.turn = loop[l].turn /\ st.reason = reason
        /\ st.suspended = loop[l].suspended /\ st.calls = loop[l].calls /\ st.results = loop[l].results
        /\ st.run = loop[l].run /\ st.waiting = 0 /\ st.asst = loop[l].asst /\ st.sched = loop[l].sched
        /\ st.head = loop[l].head
    BY ZenonT(30), <1>1 DEF WellTyped, LoopTypes, PCs
  <2>2. Set(l, st)
    BY Zenon, <1>2
  <2> HIDE DEF st
  <2>3. WellTyped(st) /\ Frame(l, st)
    BY Zenon, <1>1, <2>1 DEF WellTyped, Frame, RunFrame, SchedFrame
  <2>4. loop[l].head = Len(log) => LoopOK(log, st)
    BY Zenon, <1>1, <2>1 DEF LoopOK, InResume, InBatch, InTurn, CallsOK, CallOK
  <2> QED
    BY ZenonT(30), <1>1, <2>1, <2>2, <2>3, <2>4, Moves
<1>3. ASSUME AppendEvent(l, [type |-> "MessageAppended", role |-> "retry", calls |-> << >>],
                         [loop[l] EXCEPT !.pc = "loop", !.retries = @ + 1])
      PROVE  Inv'
  <2> DEFINE st == [loop[l] EXCEPT !.pc = "loop", !.retries = @ + 1]
             ev == [type |-> "MessageAppended", role |-> "retry", calls |-> << >>]
  <2>0. loop[l].retries + 1 \in Nat
    BY SMTT(30), <1>1 DEF WellTyped, LoopTypes
  <2>1. /\ st \in LoopTypes /\ st.pc = "loop"
        /\ st.suspended = loop[l].suspended /\ st.calls = loop[l].calls /\ st.results = loop[l].results
        /\ st.run = loop[l].run /\ st.waiting = 0 /\ st.asst = loop[l].asst /\ st.sched = loop[l].sched
    BY ZenonT(30), <1>1, <2>0 DEF WellTyped, LoopTypes, PCs
  <2>2. AppendEvent(l, ev, st)
    BY Zenon, <1>3
  <2>3. ev \in Events /\ ev.type \notin TurnEvents \cup CallEvents
    <3>1. << >> \in Seq(AllCalls)
      OBVIOUS
    <3> QED
      BY Zenon, <3>1, MessageQuiet
  <2> HIDE DEF st, ev
  <2>4. WellTyped(st) /\ Frame(l, st)
    BY Zenon, <1>1, <2>1 DEF WellTyped, Frame, RunFrame, SchedFrame
  <2>5. loop[l].head = Len(log) => LoopOK(log, st)
    BY Zenon, <1>1, <2>1 DEF LoopOK, InResume, InBatch, InTurn, CallsOK, CallOK
  <2> QED
    BY SMTT(30), <1>1, <2>1, <2>2, <2>3, <2>4, <2>5, QuietAppends
<1> QED
  BY Zenon, <1>2, <1>3 DEF FinalMessage, Reasons

\* A loop stops where it is.
LEMMA StopInv == ASSUME Inv, NEW l \in Loops, Stop(l) PROVE Inv'
BY Zenon, Leaves DEF Stop

\* A failed call ends the run.
LEMMA DispatchFailsInv == ASSUME Inv, NEW l \in Loops, DispatchFails(l) PROVE Inv'
BY Zenon, Leaves DEF DispatchFails

\* The calls of a batch are numbered, and of its turn.
LEMMA CallsTyped ==
    ASSUME NEW t \in Nat, NEW batch \in Seq(Kinds)
    PROVE  /\ CallsOf(t, batch) \in Seq(AllCalls) /\ Len(CallsOf(t, batch)) = Len(batch)
           /\ DOMAIN CallsOf(t, batch) = 1..Len(batch)
           /\ \A p \in DOMAIN CallsOf(t, batch) : CallsOf(t, batch)[p].turn = t /\ CallsOf(t, batch)[p].i = p
           /\ Signature(CallsOf(t, batch)) \in Seq(Kinds)
<1>1. DOMAIN batch = 1..Len(batch) /\ Len(batch) \in Nat /\ \A i \in DOMAIN batch : batch[i] \in Kinds
  OBVIOUS
<1>2. \A i \in DOMAIN batch : [turn |-> t, i |-> i, kind |-> batch[i]] \in AllCalls
  BY <1>1 DEF AllCalls
<1>3. CallsOf(t, batch) \in [1..Len(batch) -> AllCalls]
  BY Zenon, <1>1, <1>2 DEF CallsOf
<1>4. \A p \in DOMAIN CallsOf(t, batch) :
          CallsOf(t, batch)[p].turn = t /\ CallsOf(t, batch)[p].i = p /\ CallsOf(t, batch)[p].kind \in Kinds
  BY Zenon, <1>1 DEF CallsOf
<1>5. Signature(CallsOf(t, batch)) \in [1..Len(batch) -> Kinds]
  BY Zenon, <1>3, <1>4 DEF Signature
<1>6. [1..Len(batch) -> AllCalls] \subseteq Seq(AllCalls) /\ [1..Len(batch) -> Kinds] \subseteq Seq(Kinds)
  BY SMTT(30), <1>1
<1> QED
  BY SMTT(30), <1>1, <1>3, <1>4, <1>5, <1>6

\* The model's message ends the stream, with a batch of calls or with none.
LEMMA StreamEndsInv == ASSUME Inv, NEW l \in Loops, StreamEnds(l) PROVE Inv'
<1>1. PICK batch \in Batches \cup {<< >>}, cost \in Costs :
        LET calls == CallsOf(loop[l].turn, batch) IN
        AppendEvent(l, [type |-> "AssistantMessage", turn |-> loop[l].turn, calls |-> calls, cost |-> cost, run |-> loop[l].run],
                    [loop[l] EXCEPT !.pc = IF calls = << >> THEN "final" ELSE "batch", !.cost = @ + cost,
                                    !.asst = Len(log) + 1, !.calls = calls, !.i = 1, !.sched = << >>,
                                    !.results = [i \in DOMAIN calls |-> NoCall]])
  BY Zenon DEF StreamEnds
<1> DEFINE t == loop[l].turn
           calls == CallsOf(t, batch)
           results == [i \in DOMAIN calls |-> NoCall]
           pc == IF calls = << >> THEN "final" ELSE "batch"
           ev == [type |-> "AssistantMessage", turn |-> t, calls |-> calls, cost |-> cost, run |-> loop[l].run]
           st == [loop[l] EXCEPT !.pc = pc, !.cost = @ + cost, !.asst = Len(log) + 1,
                                 !.calls = calls, !.i = 1, !.sched = << >>, !.results = results]
           lg2 == Append(log, ev)
<1>2. loop[l].pc = "stream" /\ UNCHANGED <<runs, tasks>> /\ AppendEvent(l, ev, st)
  BY Zenon, <1>1 DEF StreamEnds
<1>3. /\ WellTyped(loop[l]) /\ loop[l].waiting = 0 /\ Len(log) + 1 \in Nat /\ LogOK(log)
      /\ loop[l].head = Len(log) => LoopOK(log, loop[l])
  BY SMTT(30), <1>2, Known
<1>4. t \in Nat /\ cost \in Nat /\ loop[l].cost + cost \in Nat /\ loop[l].run \in 1..MaxRuns
  <2>1. t \in Nat /\ loop[l].cost \in Nat
    BY Zenon, <1>3 DEF WellTyped, LoopTypes
  <2>2. cost \in Nat
    BY Zenon, ConfigAssumption
  <2>3. loop[l].run \in 0..runs /\ runs \in 0..MaxRuns /\ loop[l].run > 0 /\ MaxRuns \in Nat
    BY Zenon, <1>2, ConfigAssumption DEF Inv, OneInRuntime, TypeInv
  <2> QED
    BY SMTT(30), <2>1, <2>2, <2>3
<1>5. batch \in Seq(Kinds)
  <2>1. << >> \in Seq(Kinds)
    OBVIOUS
  <2>2. \A b \in Batches : b \in Seq(Kinds)
    BY Zenon, ConfigAssumption
  <2> QED
    BY Zenon, <2>1, <2>2
<1>6. /\ calls \in Seq(AllCalls) /\ Len(calls) \in Nat /\ DOMAIN calls = 1..Len(calls)
      /\ \A p \in DOMAIN calls : calls[p].turn = t /\ calls[p].i = p
  BY SMTT(30), <1>4, <1>5, CallsTyped
<1>7. results \in Seq(AllCalls \cup {NoCall}) /\ Len(results) = Len(calls)
  <2>1. results \in [1..Len(calls) -> AllCalls \cup {NoCall}]
    BY Zenon, <1>6
  <2> QED
    BY <1>6, <2>1
<1>8. pc \in {"final", "batch"}
  BY Zenon
<1> HIDE DEF t, calls, results, pc
<1>9. /\ st \in LoopTypes /\ st.pc = pc /\ st.turn = t /\ st.calls = calls /\ st.results = results
      /\ st.suspended = loop[l].suspended /\ st.run = loop[l].run /\ st.waiting = 0 /\ st.sched = << >> /\ st.i = 1
  <2>1. << >> \in Seq(Nat) /\ 1 \in Nat \ {0} /\ pc \in PCs
    BY <1>8 DEF PCs
  <2>2. st \in LoopTypes
    BY ZenonT(30), <1>3, <1>4, <1>6, <1>7, <2>1 DEF WellTyped, LoopTypes
  <2> QED
    BY ZenonT(30), <1>3, <2>2 DEF WellTyped, LoopTypes, t
<1> HIDE DEF st
<1>10. WellTyped(st) /\ Frame(l, st) /\ st.pc # "idle"
  BY SMTT(30), <1>2, <1>3, <1>7, <1>8, <1>9 DEF WellTyped, Frame, RunFrame, SchedFrame
<1>11. /\ ev.type = "AssistantMessage" /\ ev.turn = t
       /\ ev \in [type : {"AssistantMessage"}, turn : Nat, calls : Seq(AllCalls), cost : Nat, run : 1..MaxRuns]
  BY Zenon, <1>4, <1>6
<1>12. ev \in Events
  BY Zenon, <1>11 DEF Events
<1>13. ASSUME loop[l].head = Len(log) PROVE Fits(log, ev) /\ LoopOK(lg2, st)
  <2>1. /\ HasTurn(log, "TurnStarted", t) /\ ~ Terminated(log, t)
        /\ \A j \in OpenSet(log) : log[j].turn = t
        /\ PendingSet(log) = {} /\ st.suspended = {}
        /\ \A i \in DOMAIN log : log[i].type \in CallEvents => log[i].call.turn # t
    BY Zenon, <1>2, <1>3, <1>9, <1>13 DEF LoopOK, InTurn, t
  <2>2. Fits(log, ev)
    BY SMTT(30), <1>11, <2>1 DEF Fits, TurnEvents, CallEvents
  <2>3. Grown(log, lg2, ev)
    BY ZenonT(30), <1>12, Known
  <2> HIDE DEF ev, lg2
  <2>4. OpenSet(lg2) = {} /\ PendingSet(lg2) = {}
    BY SMTT(30), <1>11, <2>1, <2>3, GrownOpen
  <2>5. HasTurn(lg2, "TurnStarted", t) /\ HasTurn(lg2, "AssistantMessage", t) /\ ~ Terminated(lg2, t)
    BY SMTT(30), <1>11, <2>1, <2>3, GrownReadings, GrownTurns DEF EndEvents
  <2>6. \A p \in DOMAIN calls : Untouched(lg2, calls[p])
    <3> SUFFICES ASSUME NEW p \in DOMAIN calls, NEW type \in CallEvents PROVE ~ HasCall(lg2, type, calls[p])
      BY Zenon DEF Untouched
    <3>1. ~ HasCall(log, type, calls[p])
      BY SMTT(30), <1>6, <2>1 DEF HasCall, Positions
    <3> QED
      BY SMTT(30), <1>11, <2>3, <3>1, GrownReadings DEF CallEvents
  <2>7. CallsOK(lg2, st)
    <3> SUFFICES ASSUME NEW p \in DOMAIN calls PROVE CallOK(lg2, st, p)
      BY Zenon, <1>9 DEF CallsOK
    <3>1. Untouched(lg2, st.calls[p]) /\ ~ HasCall(lg2, "ToolResult", st.calls[p])
      BY SMTT(30), <1>9, <2>6 DEF Untouched, CallEvents
    <3> QED
      BY Zenon, <1>8, <1>9, <3>1 DEF CallOK
  <2>8. LoopOK(lg2, st)
    BY SMTT(30), <1>6, <1>8, <1>9, <2>1, <2>4, <2>5, <2>7 DEF LoopOK, InResume, InBatch, InTurn
  <2> QED
    BY SMTT(30), <2>2, <2>8
<1> QED
  BY SMTT(30), <1>2, <1>10, <1>12, <1>13, Appends

-----------------------------------------------------------------------------
(* A batch of tool calls. *)

\* The calls of a batch before the loop looks at it: a doom loop, or the gate.
LEMMA CheckBatchInv == ASSUME Inv, NEW l \in Loops, CheckBatch(l) PROVE Inv'
<1> DEFINE sig == IF DoomLoopThreshold < 0 THEN loop[l].sig ELSE Signature(loop[l].calls)
           repeat == IF DoomLoopThreshold < 0 THEN 0
                     ELSE IF Signature(loop[l].calls) = loop[l].sig THEN loop[l].repeat + 1 ELSE 1
           next == [loop[l] EXCEPT !.sig = sig, !.repeat = repeat]
           doomed == [next EXCEPT !.pc = "finish", !.reason = "error_doom_loop"]
           gated == [next EXCEPT !.pc = "gate"]
<1>1. /\ loop[l].pc = "batch" /\ UNCHANGED <<runs, tasks>>
      /\ WellTyped(loop[l]) /\ loop[l].waiting = 0
      /\ loop[l].head = Len(log) => LoopOK(log, loop[l])
  BY Zenon, Known DEF CheckBatch
<1>2. sig \in Seq(Kinds)
  <2>1. loop[l].sig \in Seq(Kinds) /\ loop[l].calls \in Seq(AllCalls)
    BY Zenon, <1>1 DEF WellTyped, LoopTypes
  <2>2. Signature(loop[l].calls) \in Seq(Kinds)
    <3>1. \A p \in DOMAIN loop[l].calls : loop[l].calls[p].kind \in Kinds
      <4>1. \A p \in DOMAIN loop[l].calls : loop[l].calls[p] \in AllCalls
        BY <2>1
      <4> QED
        BY Zenon, <4>1 DEF AllCalls
    <3>2. Signature(loop[l].calls) \in [1..Len(loop[l].calls) -> Kinds] /\ Len(loop[l].calls) \in Nat
      BY SMTT(30), <2>1, <3>1 DEF Signature
    <3> QED
      BY <3>2
  <2> QED
    BY Zenon, <2>1, <2>2
<1>3. repeat \in Int
  BY SMTT(30), <1>1 DEF WellTyped, LoopTypes
<1>4. Set(l, doomed) \/ Set(l, gated)
  BY Zenon DEF CheckBatch
<1> HIDE DEF sig, repeat
<1>5. ASSUME NEW st \in {doomed, gated}
      PROVE  /\ st \in LoopTypes /\ st.turn = loop[l].turn /\ st.i = loop[l].i
             /\ st.suspended = loop[l].suspended /\ st.calls = loop[l].calls /\ st.results = loop[l].results
             /\ st.run = loop[l].run /\ st.waiting = 0 /\ st.asst = loop[l].asst /\ st.sched = loop[l].sched
             /\ st.head = loop[l].head /\ st.pc \in {"finish", "gate"}
             /\ st.pc = "finish" => st.reason = "error_doom_loop"
  <2>1. "finish" \in PCs /\ "gate" \in PCs /\ "error_doom_loop" \in Reasons \cup {"none"}
    BY Zenon DEF PCs, Reasons
  <2>2. next \in LoopTypes
    BY Zenon, <1>1, <1>2, <1>3 DEF WellTyped, LoopTypes
  <2>3. /\ next.turn = loop[l].turn /\ next.i = loop[l].i
        /\ next.suspended = loop[l].suspended /\ next.calls = loop[l].calls /\ next.results = loop[l].results
        /\ next.run = loop[l].run /\ next.waiting = 0 /\ next.asst = loop[l].asst /\ next.sched = loop[l].sched
        /\ next.head = loop[l].head
    BY Zenon, <1>1 DEF WellTyped, LoopTypes
  <2> HIDE DEF next
  <2>4. CASE st = doomed
    BY Zenon, <2>1, <2>2, <2>3, <2>4 DEF LoopTypes
  <2>5. CASE st = gated
    BY Zenon, <2>1, <2>2, <2>3, <2>5 DEF LoopTypes
  <2> QED
    BY Zenon, <2>4, <2>5
<1> HIDE DEF doomed, gated
<1>6. ASSUME NEW st \in {doomed, gated}
      PROVE  WellTyped(st) /\ Frame(l, st)
  BY Zenon, <1>1, <1>5 DEF WellTyped, Frame, RunFrame, SchedFrame, Reasons
<1>7. ASSUME NEW st \in {doomed, gated}, loop[l].head = Len(log)
      PROVE  LoopOK(log, st)
  <2>1. LoopOK(log, loop[l])
    BY Zenon, <1>1, <1>7
  <2>2. CallsOK(log, st)
    <3> SUFFICES ASSUME NEW p \in DOMAIN loop[l].calls PROVE CallOK(log, st, p)
      BY SMTT(30), <1>5 DEF CallsOK
    <3>1. Untouched(log, loop[l].calls[p])
      BY Zenon, <1>1, <2>1 DEF LoopOK, CallsOK, CallOK
    <3>2. ~ HasCall(log, "ToolResult", loop[l].calls[p])
      BY Zenon, <3>1 DEF Untouched, CallEvents
    <3>3. loop[l].i = 1 /\ p \in Nat /\ ~ (p < 1)
      BY SMTT(30), <1>1 DEF WellTyped, LoopTypes
    <3> QED
      BY SMTT(30), <1>5, <3>1, <3>2, <3>3 DEF CallOK
  <2> QED
    BY ZenonT(30), <1>1, <1>5, <2>1, <2>2 DEF LoopOK, InResume, InBatch, InTurn
<1> QED
  BY SMTT(30), <1>1, <1>4, <1>5, <1>6, <1>7, Moves
=============================================================================
