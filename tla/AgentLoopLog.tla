---------------------------- MODULE AgentLoopLog ----------------------------
(***************************************************************************)
(* The inductive invariant of the agent loop, what one more event changes  *)
(* in the readings of a log, and what a step of one loop must bring for    *)
(* the invariant to stay: the lemmas that the proofs about its actions     *)
(* rest on.                                                                *)
(***************************************************************************)
EXTENDS AgentLoop, TLAPS, FiniteSetTheorems, WellFoundedInduction

-----------------------------------------------------------------------------
(* Readings of a log. *)

TurnEvents == {"TurnStarted", "AssistantMessage", "ApprovalRequested", "TurnAborted", "TurnFinished"}
CallEvents == {"ApprovalRequested", "PermissionDecided", "ToolExecutionStarted", "ToolResult"}
EndEvents == {"TurnAborted", "TurnFinished"}

TurnCount(lg) == Cardinality(Positions(lg, "TurnStarted"))

\* An event of this type for call c is in the log.
HasCall(lg, type, c) == \E i \in Positions(lg, type) : lg[i].call = c

\* The call was allowed, by now or before position n; it was started under this key.
Cleared(lg, c) ==
    \E i \in Positions(lg, "PermissionDecided") :
        lg[i].call = c /\ (lg[i].decision = "allow" \/ lg[i].resolved = "allowed")
ClearedBefore(lg, c, n) ==
    \E i \in Positions(lg, "PermissionDecided") :
        i < n /\ lg[i].call = c /\ (lg[i].decision = "allow" \/ lg[i].resolved = "allowed")
Recorded(lg, c, key) ==
    \E i \in Positions(lg, "ToolExecutionStarted") : lg[i].call = c /\ lg[i].key = key

\* The turns that are neither answered nor ended, and the asks nobody decided.
OpenSet(lg) == {i \in Positions(lg, "TurnStarted") : ~ Closed(lg, lg[i].turn)}
PendingSet(lg) ==
    {i \in Positions(lg, "ApprovalRequested") :
        ~ HasCall(lg, "PermissionDecided", lg[i].call) /\ ~ Terminated(lg, lg[i].turn)}

-----------------------------------------------------------------------------
(* The inductive invariant. *)

\* The events of a log are in an order that the loop can produce.
LogOK(lg) ==
    /\ \A i \in DOMAIN lg :
          /\ lg[i].type \in TurnEvents => lg[i].turn \in 1..TurnCount(lg) /\ HasTurn(lg, "TurnStarted", lg[i].turn)
          /\ lg[i].type \in CallEvents => lg[i].call.turn \in 1..TurnCount(lg)
          /\ lg[i].type = "ApprovalRequested" =>
                lg[i].call.turn = lg[i].turn /\ HasTurn(lg, "AssistantMessage", lg[i].turn)
          /\ lg[i].type = "ToolResult" => HasCall(lg, "PermissionDecided", lg[i].call)
          /\ lg[i].type = "ToolExecutionStarted" => ClearedBefore(lg, lg[i].call, i)
    /\ \A i, j \in DOMAIN lg : i < j =>
          /\ lg[j].type = "TurnStarted" /\ lg[i].type \in TurnEvents => lg[i].turn # lg[j].turn
          /\ lg[i].type \in EndEvents /\ lg[j].type \in TurnEvents => lg[i].turn # lg[j].turn
          /\ lg[i].type \in EndEvents /\ lg[j].type \in CallEvents => lg[i].turn # lg[j].call.turn
          /\ lg[j].type = "ApprovalRequested" /\ lg[i].type \in CallEvents => lg[i].call # lg[j].call
          /\ lg[j].type \in {"ToolExecutionStarted", "ToolResult"} /\ lg[i].type = lg[j].type => lg[i].call # lg[j].call

\* TurnsStartSettled, of any log.
Closes(lg, k, t) == lg[k].type \in {"AssistantMessage", "TurnFinished", "TurnAborted"} /\ lg[k].turn = t
StartsSettled(lg) ==
    \A i \in DOMAIN lg, j \in DOMAIN lg : lg[i].type = "TurnStarted" /\ j < i =>
        /\ lg[j].type = "TurnStarted" => \E k \in DOMAIN lg : j < k /\ k < i /\ Closes(lg, k, lg[j].turn)
        /\ lg[j].type = "ApprovalRequested" =>
              \E k \in DOMAIN lg :
                  /\ j < k /\ k < i
                  /\ Closes(lg, k, lg[j].turn) \/ (lg[k].type = "PermissionDecided" /\ lg[k].call = lg[j].call)

\* What the record of a loop holds.
PCs == {"idle", "load", "resume", "reraised", "resumeStart", "abandoned", "loop", "compacted", "stream",
        "final", "finish", "batch", "gate", "ask", "start", "dispatch", "feed", "planned"}

LoopTypes ==
    [pc : PCs, run : Nat, head : Nat, turn : Nat, asst : Nat, numTurns : Nat, cost : Nat,
     retries : Nat, sig : Seq(Kinds), repeat : Int, suspended : SUBSET Nat, open : SUBSET Nat,
     reason : Reasons \cup {"none"}, calls : Seq(AllCalls), i : Nat \ {0}, sched : Seq(Nat), waiting : Nat,
     results : Seq(AllCalls \cup {NoCall})]

\* The record of a loop, with a result for every call and a reason to finish.
WellTyped(st) ==
    /\ st \in LoopTypes
    /\ Len(st.results) = Len(st.calls)
    /\ st.pc = "finish" => st.reason \in Reasons
    /\ st.pc = "batch" => st.i = 1

\* A loop works on a suspended ask, or on a batch of its own turn.
InResume(st) ==
    \/ st.pc \in {"reraised", "resumeStart", "abandoned"}
    \/ st.pc \in {"dispatch", "feed"} /\ st.suspended # {}
InBatch(st) ==
    \/ st.pc \in {"batch", "gate", "ask", "start", "planned"}
    \/ st.pc \in {"dispatch", "feed"} /\ st.suspended = {}
InTurn(st) == st.pc \in {"stream", "final", "finish"} \/ InBatch(st)

\* How far the call at p of the batch at hand is, as the log has it.
Untouched(lg, c) == \A type \in CallEvents : ~ HasCall(lg, type, c)

CallOK(lg, st, p) ==
    LET c == st.calls[p]
        decided == HasCall(lg, "PermissionDecided", c)
        started == HasCall(lg, "ToolExecutionStarted", c)
        answered == HasCall(lg, "ToolResult", c)
    IN /\ st.pc \in {"batch", "gate", "ask", "start", "resumeStart", "dispatch"} => ~ answered
       /\ st.pc = "batch" => Untouched(lg, c)
       /\ st.pc \in {"gate", "ask", "start"} /\ p < st.i => decided
       /\ st.pc \in {"gate", "ask", "start"} /\ p > st.i => Untouched(lg, c)
       /\ st.pc = "gate" /\ p = st.i => Untouched(lg, c)
       /\ st.pc = "ask" /\ p = st.i => ~ decided /\ ~ started
       /\ st.pc = "start" /\ p = st.i => Cleared(lg, c) /\ ~ started
       /\ st.pc = "resumeStart" => Cleared(lg, c) /\ ~ started
       /\ st.pc \in {"dispatch", "feed", "planned"} => decided
       /\ st.pc \in {"feed", "planned"} /\ p >= st.i => ~ answered

CallsOK(lg, st) == \A p \in DOMAIN st.calls : CallOK(lg, st, p)

\* What a loop whose head is the head of the log knows of it.
LoopOK(lg, st) ==
    /\ st.pc = "resume" => st.suspended = PendingSet(lg) /\ st.open = OpenSet(lg)
    /\ InResume(st) =>
          /\ st.suspended # {} /\ st.suspended \subseteq Positions(lg, "ApprovalRequested")
          /\ st.open = OpenSet(lg)
          /\ st.calls = <<lg[Min(st.suspended)].call>> /\ st.turn = lg[Min(st.suspended)].turn
          /\ ~ Terminated(lg, st.turn)
          /\ PendingSet(lg) = IF st.pc = "reraised" THEN st.suspended ELSE st.suspended \ {Min(st.suspended)}
    /\ st.pc \in {"loop", "compacted"} \/ InTurn(st) =>
          /\ st.suspended = {}
          /\ \A j \in OpenSet(lg) : st.pc \in {"stream", "finish"} /\ lg[j].turn = st.turn
          /\ \A j \in PendingSet(lg) : st.pc = "ask" /\ lg[j].call = st.calls[st.i]
    /\ InTurn(st) => HasTurn(lg, "TurnStarted", st.turn) /\ ~ Terminated(lg, st.turn)
    /\ st.pc = "stream" =>
          /\ ~ HasTurn(lg, "AssistantMessage", st.turn)
          /\ \A i \in DOMAIN lg : lg[i].type \in CallEvents => lg[i].call.turn # st.turn
    /\ InBatch(st) =>
          /\ HasTurn(lg, "AssistantMessage", st.turn)
          /\ \A p \in DOMAIN st.calls : st.calls[p].turn = st.turn /\ st.calls[p].i = p
    /\ CallsOK(lg, st)

\* The calls a loop has yet to send are recorded, nobody has sent them, and nobody else
\* will; of those sent, no two are for the same call.
SentOnce ==
    /\ \A l \in Loops : \A a \in DOMAIN loop[l].sched :
          /\ loop[l].sched[a] \in DOMAIN loop[l].calls
          /\ Recorded(log, loop[l].calls[loop[l].sched[a]], loop[l].asst)
          /\ \A q \in DOMAIN tasks : q.call # loop[l].calls[loop[l].sched[a]]
    /\ \A l, m \in Loops : \A a \in DOMAIN loop[l].sched, b \in DOMAIN loop[m].sched :
          loop[l].calls[loop[l].sched[a]] = loop[m].calls[loop[m].sched[b]] => l = m /\ a = b
    /\ \A q \in DOMAIN tasks : Recorded(log, q.call, q.key)
    /\ \A p, q \in DOMAIN tasks : p.call = q.call => p = q

\* A call in the runtime that is no read is the one its loop waits for, if the loop
\* is still there; and every run has a loop of its own.
OneInRuntime ==
    /\ \A q \in DOMAIN tasks : q.run <= runs
    /\ \A l \in Loops : loop[l].pc # "idle" => loop[l].run > 0
    /\ \A l, m \in Loops : loop[l].pc # "idle" /\ loop[m].run = loop[l].run => l = m
    /\ \A l \in Loops : loop[l].waiting # 0 =>
          loop[l].pc = "dispatch" /\ loop[l].waiting \in DOMAIN loop[l].calls /\ Request(l, loop[l].waiting) \in DOMAIN tasks
    /\ \A q \in DOMAIN tasks : tasks[q].stage = "sent" /\ ~ Parallel(q.call) =>
          \A l \in Loops : loop[l].run = q.run =>
              loop[l].waiting # 0 /\ q = Request(l, loop[l].waiting)

\* TypeOK, and the types of the loops.
TypeInv ==
    /\ log \in Seq(Events) /\ runs \in 0..MaxRuns /\ Tools!TypeOK
    /\ loop \in [Loops -> LoopTypes]
    /\ \A l \in Loops :
          /\ WellTyped(loop[l])
          /\ loop[l].run \in 0..runs /\ loop[l].head <= Len(log)

LogInv ==
    /\ LogOK(log) /\ StartsSettled(log)
    /\ \A l \in Loops :
          /\ loop[l].head = Len(log) => LoopOK(log, loop[l])
          /\ loop[l].pc = "resume" => loop[l].suspended \subseteq Positions(log, "ApprovalRequested")

Inv == TypeInv /\ LogInv /\ SentOnce /\ OneInRuntime /\ MutationsAreSerial

-----------------------------------------------------------------------------
(* The least and the greatest of a set of numbers. *)

\* A set of naturals that is not empty has a least element.
LEMMA MinIsIn ==
    ASSUME NEW S, S \subseteq Nat, S # {}
    PROVE  Min(S) \in S /\ \A x \in S : Min(S) <= x
<1>1. PICK m \in S : \A y \in S : ~ (<<y, m>> \in OpToRel(<, Nat))
  BY Zenon, NatLessThanWellFounded, WFMin
<1>2. \A y \in S : m <= y
  <2> TAKE y \in S
  <2>1. <<y, m>> \in Nat \X Nat /\ <<y, m>> \notin OpToRel(<, Nat)
    BY Zenon, <1>1
  <2>2. ~ (y < m)
    BY Zenon, <2>1 DEF OpToRel
  <2> QED
    BY <2>2
<1> QED
  BY Zenon, <1>2 DEF Min

\* A bounded set of naturals that is not empty has a greatest element.
LEMMA MaxIsIn ==
    ASSUME NEW S, NEW n \in Nat, S \subseteq 0..n, S # {}
    PROVE  Max(S) \in S /\ \A x \in S : x <= Max(S)
<1> DEFINE T == {k \in Nat : n - k \in S}
<1>1. T \subseteq Nat /\ T # {}
  <2>1. PICK x \in S : TRUE
    BY Zenon
  <2>2. n - x \in Nat /\ n - (n - x) = x
    BY <2>1
  <2> QED
    BY Zenon, <2>1, <2>2
<1> DEFINE m == Min(T)
<1>2. m \in T /\ \A x \in T : m <= x
  BY Zenon, <1>1, MinIsIn
<1>3. n - m \in S /\ m \in Nat
  BY Zenon, <1>2
<1>4. \A y \in S : n - m >= y
  <2> TAKE y \in S
  <2>1. n - y \in Nat /\ n - (n - y) = y /\ y \in Nat
    OBVIOUS
  <2>2. n - y \in T
    BY Zenon, <2>1
  <2>3. m <= n - y
    BY Zenon, <2>2, <1>2
  <2> QED
    BY <2>1, <2>3, <1>3
<1> QED
  BY Zenon, <1>3, <1>4 DEF Max

-----------------------------------------------------------------------------
(* What one more event changes in the readings of a log. *)

\* lg2 is lg and the event ev.
Grown(lg, lg2, ev) ==
    /\ Len(lg) \in Nat /\ DOMAIN lg = 1..Len(lg)
    /\ Len(lg2) = Len(lg) + 1 /\ DOMAIN lg2 = 1..(Len(lg) + 1)
    /\ \A i \in DOMAIN lg : lg2[i] = lg[i]
    /\ lg2[Len(lg) + 1] = ev

\* An appended log has grown.
LEMMA AppendGrows ==
    ASSUME NEW S, NEW lg \in Seq(S), NEW ev \in S
    PROVE  Grown(lg, Append(lg, ev), ev) /\ Append(lg, ev) \in Seq(S)
BY DEF Grown

\* A position of the grown log is an old one or the new one.
LEMMA GrownPositions ==
    ASSUME NEW lg, NEW lg2, NEW ev, Grown(lg, lg2, ev)
    PROVE  /\ \A type : Positions(lg2, type) =
                  Positions(lg, type) \cup (IF ev.type = type THEN {Len(lg) + 1} ELSE {})
           /\ \A type : Positions(lg, type) \subseteq DOMAIN lg
           /\ Len(lg) + 1 \notin DOMAIN lg
           /\ \A i \in DOMAIN lg : i \in DOMAIN lg2 /\ i <= Len(lg) /\ lg2[i] = lg[i]
           /\ \A i \in DOMAIN lg2 : i \in DOMAIN lg \/ i = Len(lg) + 1
           /\ Len(lg) + 1 \in DOMAIN lg2 /\ lg2[Len(lg) + 1] = ev
BY DEF Grown, Positions

\* The readings by turn and by call gain what the event says.
LEMMA GrownReadings ==
    ASSUME NEW lg, NEW lg2, NEW ev, Grown(lg, lg2, ev)
    PROVE  /\ \A type, t : HasTurn(lg2, type, t) <=> HasTurn(lg, type, t) \/ (ev.type = type /\ ev.turn = t)
           /\ \A type, c : HasCall(lg2, type, c) <=> HasCall(lg, type, c) \/ (ev.type = type /\ ev.call = c)
           /\ \A c : Cleared(lg2, c) <=> \/ Cleared(lg, c)
                                         \/ /\ ev.type = "PermissionDecided" /\ ev.call = c
                                            /\ ev.decision = "allow" \/ ev.resolved = "allowed"
           /\ \A c, k : Recorded(lg2, c, k) <=> \/ Recorded(lg, c, k)
                                                \/ ev.type = "ToolExecutionStarted" /\ ev.call = c /\ ev.key = k
<1> USE GrownPositions
<1>1. \A type, t : HasTurn(lg2, type, t) <=> HasTurn(lg, type, t) \/ (ev.type = type /\ ev.turn = t)
  BY DEF HasTurn
<1>2. \A type, c : HasCall(lg2, type, c) <=> HasCall(lg, type, c) \/ (ev.type = type /\ ev.call = c)
  BY DEF HasCall
<1>3. \A c : Cleared(lg2, c) <=> \/ Cleared(lg, c)
                                 \/ /\ ev.type = "PermissionDecided" /\ ev.call = c
                                    /\ ev.decision = "allow" \/ ev.resolved = "allowed"
  BY DEF Cleared
<1>4. \A c, k : Recorded(lg2, c, k) <=> \/ Recorded(lg, c, k)
                                        \/ ev.type = "ToolExecutionStarted" /\ ev.call = c /\ ev.key = k
  <2> DEFINE P == Positions(lg, "ToolExecutionStarted")
  <2>1. Positions(lg2, "ToolExecutionStarted") = P \cup (IF ev.type = "ToolExecutionStarted" THEN {Len(lg) + 1} ELSE {})
    OBVIOUS
  <2>2. \A i \in P : lg2[i] = lg[i]
    BY Zenon
  <2> HIDE DEF P
  <2>3. \A c, k : Recorded(lg, c, k) <=> \E i \in P : lg[i].call = c /\ lg[i].key = k
    BY Zenon DEF Recorded, P
  <2>4. lg2[Len(lg) + 1] = ev
    BY Zenon
  <2> QED
    BY ONLY <2>1, <2>2, <2>3, <2>4 DEF Recorded
<1> QED
  BY Zenon, <1>1, <1>2, <1>3, <1>4

\* A turn is closed, or ended, when it was or when the event does it.
LEMMA GrownTurns ==
    ASSUME NEW lg, NEW lg2, NEW ev, Grown(lg, lg2, ev)
    PROVE  /\ \A t : Terminated(lg2, t) <=> Terminated(lg, t) \/ (ev.type \in EndEvents /\ ev.turn = t)
           /\ \A t : Closed(lg2, t) <=> \/ Closed(lg, t)
                                        \/ ev.type \in EndEvents \cup {"AssistantMessage"} /\ ev.turn = t
<1>1. ASSUME NEW t
      PROVE  Terminated(lg2, t) <=> Terminated(lg, t) \/ (ev.type \in EndEvents /\ ev.turn = t)
  <2>1. /\ HasTurn(lg2, "TurnFinished", t) <=> HasTurn(lg, "TurnFinished", t) \/ (ev.type = "TurnFinished" /\ ev.turn = t)
        /\ HasTurn(lg2, "TurnAborted", t) <=> HasTurn(lg, "TurnAborted", t) \/ (ev.type = "TurnAborted" /\ ev.turn = t)
    BY GrownReadings
  <2> QED
    BY Zenon, <2>1 DEF Terminated, EndEvents
<1>2. ASSUME NEW t
      PROVE  Closed(lg2, t) <=> \/ Closed(lg, t)
                                \/ ev.type \in EndEvents \cup {"AssistantMessage"} /\ ev.turn = t
  <2>1. HasTurn(lg2, "AssistantMessage", t) <=>
            HasTurn(lg, "AssistantMessage", t) \/ (ev.type = "AssistantMessage" /\ ev.turn = t)
    BY GrownReadings
  <2> QED
    BY Zenon, <1>1, <2>1 DEF Closed
<1> QED
  BY Zenon, <1>1, <1>2

\* The open turns and the pending asks after the event.
LEMMA GrownOpen ==
    ASSUME NEW lg, NEW lg2, NEW ev, Grown(lg, lg2, ev)
    PROVE  /\ \A j : j \in OpenSet(lg2) <=>
                  \/ j \in OpenSet(lg) /\ ~ (ev.type \in EndEvents \cup {"AssistantMessage"} /\ ev.turn = lg[j].turn)
                  \/ j = Len(lg) + 1 /\ ev.type = "TurnStarted" /\ ~ Closed(lg2, ev.turn)
           /\ \A j : j \in PendingSet(lg2) <=>
                  \/ /\ j \in PendingSet(lg)
                     /\ ~ (ev.type = "PermissionDecided" /\ ev.call = lg[j].call)
                     /\ ~ (ev.type \in EndEvents /\ ev.turn = lg[j].turn)
                  \/ /\ j = Len(lg) + 1 /\ ev.type = "ApprovalRequested"
                     /\ ~ HasCall(lg2, "PermissionDecided", ev.call) /\ ~ Terminated(lg2, ev.turn)
           /\ \A j \in OpenSet(lg) \cup PendingSet(lg) : j \in DOMAIN lg /\ j # Len(lg) + 1 /\ lg2[j] = lg[j]
<1> USE GrownPositions, GrownReadings, GrownTurns
<1>1. \A j \in OpenSet(lg) \cup PendingSet(lg) : j \in DOMAIN lg /\ j # Len(lg) + 1 /\ lg2[j] = lg[j]
  BY DEF OpenSet, PendingSet
<1>2. \A j : j \in OpenSet(lg2) <=>
           \/ j \in OpenSet(lg) /\ ~ (ev.type \in EndEvents \cup {"AssistantMessage"} /\ ev.turn = lg[j].turn)
           \/ j = Len(lg) + 1 /\ ev.type = "TurnStarted" /\ ~ Closed(lg2, ev.turn)
  <2> TAKE j
  <2>1. CASE j = Len(lg) + 1
    BY <2>1 DEF OpenSet
  <2>2. CASE j # Len(lg) + 1
    <3>1. j \in Positions(lg2, "TurnStarted") <=> j \in Positions(lg, "TurnStarted")
      BY <2>2
    <3>2. j \in Positions(lg, "TurnStarted") => lg2[j] = lg[j]
      OBVIOUS
    <3>3. Closed(lg2, lg[j].turn) <=> \/ Closed(lg, lg[j].turn)
                                      \/ ev.type \in EndEvents \cup {"AssistantMessage"} /\ ev.turn = lg[j].turn
      OBVIOUS
    <3> QED
      BY ONLY <2>2, <3>1, <3>2, <3>3 DEF OpenSet
  <2> QED
    BY Zenon, <2>1, <2>2
<1>3. \A j : j \in PendingSet(lg2) <=>
           \/ /\ j \in PendingSet(lg)
              /\ ~ (ev.type = "PermissionDecided" /\ ev.call = lg[j].call)
              /\ ~ (ev.type \in EndEvents /\ ev.turn = lg[j].turn)
           \/ /\ j = Len(lg) + 1 /\ ev.type = "ApprovalRequested"
              /\ ~ HasCall(lg2, "PermissionDecided", ev.call) /\ ~ Terminated(lg2, ev.turn)
  BY DEF PendingSet
<1> QED
  BY Zenon, <1>1, <1>2, <1>3

\* A turn that starts is counted.
LEMMA GrownCount ==
    ASSUME NEW lg, NEW lg2, NEW ev, Grown(lg, lg2, ev)
    PROVE  /\ TurnCount(lg) \in Nat
           /\ TurnCount(lg2) = TurnCount(lg) + IF ev.type = "TurnStarted" THEN 1 ELSE 0
<1>1. IsFiniteSet(Positions(lg, "TurnStarted"))
  <2>1. IsFiniteSet(1..Len(lg))
    BY FS_Interval DEF Grown
  <2> QED
    BY Zenon, <2>1, FS_Subset DEF Positions, Grown
<1>2. TurnCount(lg) \in Nat
  BY Zenon, <1>1, FS_CardinalityType DEF TurnCount
<1>3. CASE ev.type = "TurnStarted"
  <2>1. Positions(lg2, "TurnStarted") = Positions(lg, "TurnStarted") \cup {Len(lg) + 1}
    BY <1>3, GrownPositions
  <2>2. Len(lg) + 1 \notin Positions(lg, "TurnStarted")
    BY Zenon, GrownPositions
  <2> QED
    BY Zenon, <1>1, <1>2, <1>3, <2>1, <2>2, FS_AddElement DEF TurnCount
<1>4. CASE ev.type # "TurnStarted"
  <2>1. Positions(lg2, "TurnStarted") = Positions(lg, "TurnStarted")
    BY <1>4 DEF Positions, Grown
  <2> QED
    BY <1>2, <1>4, <2>1 DEF TurnCount
<1> QED
  BY Zenon, <1>2, <1>3, <1>4

-----------------------------------------------------------------------------
(* When an event keeps the log in order. *)

\* The event may come next.
Fits(lg, ev) ==
    /\ ev.type = "TurnStarted" => ev.turn = TurnCount(lg) + 1 /\ OpenSet(lg) = {} /\ PendingSet(lg) = {}
    /\ ev.type \in TurnEvents \ {"TurnStarted"} => HasTurn(lg, "TurnStarted", ev.turn) /\ ~ Terminated(lg, ev.turn)
    /\ ev.type \in CallEvents => HasTurn(lg, "TurnStarted", ev.call.turn) /\ ~ Terminated(lg, ev.call.turn)
    /\ ev.type = "ApprovalRequested" =>
          /\ ev.call.turn = ev.turn /\ HasTurn(lg, "AssistantMessage", ev.turn)
          /\ \A type \in CallEvents : ~ HasCall(lg, type, ev.call)
    /\ ev.type = "ToolExecutionStarted" => Cleared(lg, ev.call) /\ ~ HasCall(lg, "ToolExecutionStarted", ev.call)
    /\ ev.type = "ToolResult" => HasCall(lg, "PermissionDecided", ev.call) /\ ~ HasCall(lg, "ToolResult", ev.call)

\* A log in order stays so when an event that fits is appended.
LEMMA FitsKeepsOrder ==
    ASSUME NEW lg, NEW lg2, NEW ev, Grown(lg, lg2, ev), LogOK(lg), Fits(lg, ev)
    PROVE  LogOK(lg2)
<1> DEFINE n == Len(lg) + 1
<1>c. TurnCount(lg) \in Nat /\ TurnCount(lg2) \in Nat /\ TurnCount(lg) <= TurnCount(lg2)
      /\ (ev.type = "TurnStarted" => TurnCount(lg2) = TurnCount(lg) + 1)
  BY GrownCount
<1>1. ASSUME NEW i \in DOMAIN lg
      PROVE  /\ lg2[i].type \in TurnEvents => lg2[i].turn \in 1..TurnCount(lg2) /\ HasTurn(lg2, "TurnStarted", lg2[i].turn)
             /\ lg2[i].type \in CallEvents => lg2[i].call.turn \in 1..TurnCount(lg2)
             /\ lg2[i].type = "ApprovalRequested" =>
                   lg2[i].call.turn = lg2[i].turn /\ HasTurn(lg2, "AssistantMessage", lg2[i].turn)
             /\ lg2[i].type = "ToolResult" => HasCall(lg2, "PermissionDecided", lg2[i].call)
             /\ lg2[i].type = "ToolExecutionStarted" => ClearedBefore(lg2, lg2[i].call, i)
  <2>1. lg2[i] = lg[i]
    BY Zenon, GrownPositions
  <2>2. /\ lg[i].type \in TurnEvents => lg[i].turn \in 1..TurnCount(lg) /\ HasTurn(lg, "TurnStarted", lg[i].turn)
        /\ lg[i].type \in CallEvents => lg[i].call.turn \in 1..TurnCount(lg)
        /\ lg[i].type = "ApprovalRequested" =>
              lg[i].call.turn = lg[i].turn /\ HasTurn(lg, "AssistantMessage", lg[i].turn)
        /\ lg[i].type = "ToolResult" => HasCall(lg, "PermissionDecided", lg[i].call)
        /\ lg[i].type = "ToolExecutionStarted" => ClearedBefore(lg, lg[i].call, i)
    BY Zenon DEF LogOK
  <2>3. 1..TurnCount(lg) \subseteq 1..TurnCount(lg2)
    BY <1>c
  <2>4. ClearedBefore(lg, lg[i].call, i) => ClearedBefore(lg2, lg[i].call, i)
    BY GrownPositions DEF ClearedBefore
  <2> QED
    BY SMTT(30), <2>1, <2>2, <2>3, <2>4, GrownReadings
<1>2. \A t : HasTurn(lg, "TurnStarted", t) => t \in 1..TurnCount(lg)
  BY DEF LogOK, HasTurn, Positions, TurnEvents
<1>3. /\ ev.type \in TurnEvents => ev.turn \in 1..TurnCount(lg2) /\ HasTurn(lg2, "TurnStarted", ev.turn)
      /\ ev.type \in CallEvents => ev.call.turn \in 1..TurnCount(lg2)
  <2>1. CASE ev.type = "TurnStarted"
    BY <2>1, <1>c, GrownReadings DEF Fits, CallEvents
  <2>2. CASE ev.type # "TurnStarted"
    <3>1. 1..TurnCount(lg) \subseteq 1..TurnCount(lg2)
      BY <1>c
    <3> QED
      BY Zenon, <2>2, <3>1, <1>2, GrownReadings DEF Fits
  <2> QED
    BY Zenon, <2>1, <2>2
<1>4. /\ ev.type = "ApprovalRequested" => ev.call.turn = ev.turn /\ HasTurn(lg2, "AssistantMessage", ev.turn)
      /\ ev.type = "ToolResult" => HasCall(lg2, "PermissionDecided", ev.call)
      /\ ev.type = "ToolExecutionStarted" => ClearedBefore(lg2, ev.call, Len(lg) + 1)
  <2>1. Cleared(lg, ev.call) => ClearedBefore(lg2, ev.call, Len(lg) + 1)
    <3>1. \A i \in DOMAIN lg : i < Len(lg) + 1
      BY DEF Grown
    <3> QED
      BY <3>1, GrownPositions DEF Cleared, ClearedBefore
  <2> QED
    BY Zenon, <2>1, GrownReadings DEF Fits
<1>5. ASSUME NEW i \in DOMAIN lg
      PROVE  /\ ev.type = "TurnStarted" /\ lg[i].type \in TurnEvents => lg[i].turn # ev.turn
             /\ lg[i].type \in EndEvents /\ ev.type \in TurnEvents => lg[i].turn # ev.turn
             /\ lg[i].type \in EndEvents /\ ev.type \in CallEvents => lg[i].turn # ev.call.turn
             /\ ev.type = "ApprovalRequested" /\ lg[i].type \in CallEvents => lg[i].call # ev.call
             /\ ev.type \in {"ToolExecutionStarted", "ToolResult"} /\ lg[i].type = ev.type => lg[i].call # ev.call
  <2>1. lg[i].type \in TurnEvents => lg[i].turn \in 1..TurnCount(lg)
    BY Zenon DEF LogOK
  <2>2. lg[i].type \in EndEvents => Terminated(lg, lg[i].turn) /\ lg[i].type \in TurnEvents
    BY Zenon DEF Terminated, HasTurn, Positions, EndEvents, TurnEvents
  <2>3. lg[i].type \in CallEvents => HasCall(lg, lg[i].type, lg[i].call)
    BY Zenon DEF HasCall, Positions
  <2>4. ev.type = "TurnStarted" /\ lg[i].type \in TurnEvents => lg[i].turn # ev.turn
    BY <2>1, <1>c DEF Fits
  <2>5. lg[i].type \in EndEvents /\ ev.type \in TurnEvents => lg[i].turn # ev.turn
    BY Zenon, <2>2, <2>4 DEF Fits
  <2>6. lg[i].type \in EndEvents /\ ev.type \in CallEvents => lg[i].turn # ev.call.turn
    BY Zenon, <2>2 DEF Fits
  <2>7. /\ ev.type = "ApprovalRequested" /\ lg[i].type \in CallEvents => lg[i].call # ev.call
        /\ ev.type \in {"ToolExecutionStarted", "ToolResult"} /\ lg[i].type = ev.type => lg[i].call # ev.call
    BY Zenon, <2>3 DEF Fits, CallEvents
  <2> QED
    BY Zenon, <2>4, <2>5, <2>6, <2>7
<1>6. ASSUME NEW i \in DOMAIN lg2
      PROVE  /\ lg2[i].type \in TurnEvents => lg2[i].turn \in 1..TurnCount(lg2) /\ HasTurn(lg2, "TurnStarted", lg2[i].turn)
             /\ lg2[i].type \in CallEvents => lg2[i].call.turn \in 1..TurnCount(lg2)
             /\ lg2[i].type = "ApprovalRequested" =>
                   lg2[i].call.turn = lg2[i].turn /\ HasTurn(lg2, "AssistantMessage", lg2[i].turn)
             /\ lg2[i].type = "ToolResult" => HasCall(lg2, "PermissionDecided", lg2[i].call)
             /\ lg2[i].type = "ToolExecutionStarted" => ClearedBefore(lg2, lg2[i].call, i)
  <2>1. i \in DOMAIN lg \/ (i = Len(lg) + 1 /\ lg2[i] = ev)
    BY GrownPositions
  <2> QED
    BY Zenon, <2>1, <1>1, <1>3, <1>4
<1>7. ASSUME NEW i \in DOMAIN lg2, NEW j \in DOMAIN lg2, i < j
      PROVE  /\ lg2[j].type = "TurnStarted" /\ lg2[i].type \in TurnEvents => lg2[i].turn # lg2[j].turn
             /\ lg2[i].type \in EndEvents /\ lg2[j].type \in TurnEvents => lg2[i].turn # lg2[j].turn
             /\ lg2[i].type \in EndEvents /\ lg2[j].type \in CallEvents => lg2[i].turn # lg2[j].call.turn
             /\ lg2[j].type = "ApprovalRequested" /\ lg2[i].type \in CallEvents => lg2[i].call # lg2[j].call
             /\ lg2[j].type \in {"ToolExecutionStarted", "ToolResult"} /\ lg2[i].type = lg2[j].type => lg2[i].call # lg2[j].call
  <2>1. i \in DOMAIN lg /\ lg2[i] = lg[i]
    BY SMTT(30), <1>7 DEF Grown
  <2>2. CASE j \in DOMAIN lg
    <3>1. lg2[j] = lg[j]
      BY Zenon, <2>2 DEF Grown
    <3> QED
      BY <2>1, <2>2, <3>1, <1>7 DEF LogOK
  <2>3. CASE j \notin DOMAIN lg
    <3>1. lg2[j] = ev
      BY <2>3, GrownPositions
    <3> QED
      BY Zenon, <2>1, <3>1, <1>5
  <2> QED
    BY Zenon, <2>2, <2>3
<1> QED
  BY Zenon, <1>6, <1>7 DEF LogOK

\* A turn that starts when no turn is open and no ask is pending starts settled.
LEMMA FitsStartsSettled ==
    ASSUME NEW lg, NEW lg2, NEW ev, Grown(lg, lg2, ev), LogOK(lg), Fits(lg, ev), StartsSettled(lg)
    PROVE  StartsSettled(lg2)
<1> SUFFICES ASSUME NEW i \in DOMAIN lg2, NEW j \in DOMAIN lg2, lg2[i].type = "TurnStarted", j < i
             PROVE  /\ lg2[j].type = "TurnStarted" => \E k \in DOMAIN lg2 : j < k /\ k < i /\ Closes(lg2, k, lg2[j].turn)
                    /\ lg2[j].type = "ApprovalRequested" =>
                         \E k \in DOMAIN lg2 :
                             /\ j < k /\ k < i
                             /\ Closes(lg2, k, lg2[j].turn) \/ (lg2[k].type = "PermissionDecided" /\ lg2[k].call = lg2[j].call)
  BY Zenon DEF StartsSettled
<1>1. /\ j \in DOMAIN lg /\ lg2[j] = lg[j] /\ DOMAIN lg \subseteq Nat
      /\ \A k \in DOMAIN lg : k \in DOMAIN lg2 /\ lg2[k] = lg[k]
  BY DEF Grown
<1>2. CASE i \in DOMAIN lg
  BY <1>1, <1>2 DEF StartsSettled, Closes
<1>3. CASE i \notin DOMAIN lg
  <2>1. ev.type = "TurnStarted" /\ \A k \in DOMAIN lg : k < i
    BY <1>3, GrownPositions DEF Grown
  <2>2. OpenSet(lg) = {} /\ PendingSet(lg) = {}
    BY Zenon, <2>1 DEF Fits
  <2>3. ASSUME lg[j].type = "TurnStarted"
        PROVE  \E k \in DOMAIN lg2 : j < k /\ k < i /\ Closes(lg2, k, lg2[j].turn)
    <3>1. Closed(lg, lg[j].turn)
      BY Zenon, <1>1, <2>2, <2>3 DEF OpenSet, Positions
    <3>2. PICK k \in DOMAIN lg : Closes(lg, k, lg[j].turn)
      BY Zenon, <3>1 DEF Closed, Terminated, HasTurn, Positions, Closes
    <3>3. j # k /\ lg[k].type \in TurnEvents /\ lg[k].turn = lg[j].turn
      BY Zenon, <2>3, <3>2 DEF Closes, TurnEvents
    <3>4. ~ (k < j)
      BY Zenon, <1>1, <2>3, <3>2, <3>3 DEF LogOK
    <3>5. j < k
      BY SMTT(30), <1>1, <3>2, <3>3, <3>4
    <3> QED
      BY Zenon, <1>1, <2>1, <3>2, <3>5 DEF Closes
  <2>4. ASSUME lg[j].type = "ApprovalRequested"
        PROVE  \E k \in DOMAIN lg2 :
                   /\ j < k /\ k < i
                   /\ Closes(lg2, k, lg2[j].turn) \/ (lg2[k].type = "PermissionDecided" /\ lg2[k].call = lg2[j].call)
    <3>1. HasCall(lg, "PermissionDecided", lg[j].call) \/ Terminated(lg, lg[j].turn)
      BY Zenon, <1>1, <2>2, <2>4 DEF PendingSet, Positions
    <3>2. CASE HasCall(lg, "PermissionDecided", lg[j].call)
      <4>1. PICK k \in DOMAIN lg : lg[k].type = "PermissionDecided" /\ lg[k].call = lg[j].call
        BY Zenon, <3>2 DEF HasCall, Positions
      <4>2. j # k /\ lg[k].type \in CallEvents
        BY Zenon, <4>1, <2>4 DEF CallEvents
      <4>3. ~ (k < j)
        BY Zenon, <1>1, <2>4, <4>1, <4>2 DEF LogOK
      <4> QED
        BY SMTT(30), <1>1, <2>1, <4>1, <4>2, <4>3
    <3>3. CASE Terminated(lg, lg[j].turn)
      <4>1. PICK k \in DOMAIN lg : lg[k].type \in EndEvents /\ lg[k].turn = lg[j].turn
        BY Zenon, <3>3 DEF Terminated, HasTurn, Positions, EndEvents
      <4>2. j # k /\ lg[j].type \in TurnEvents
        BY Zenon, <4>1, <2>4 DEF EndEvents, TurnEvents
      <4>3. ~ (k < j)
        BY Zenon, <1>1, <4>1, <4>2 DEF LogOK
      <4>4. Closes(lg2, k, lg2[j].turn)
        BY Zenon, <1>1, <4>1 DEF Closes, EndEvents
      <4> QED
        BY SMTT(30), <1>1, <2>1, <4>1, <4>2, <4>3, <4>4
    <3> QED
      BY Zenon, <3>1, <3>2, <3>3
  <2> QED
    BY Zenon, <1>1, <2>3, <2>4
<1> QED
  BY Zenon, <1>2, <1>3

\* What recovery reads from a log in order: the asks that are pending, and the turns
\* that are open.
LEMMA RecoveryReads ==
    ASSUME NEW lg, LogOK(lg), DOMAIN lg \subseteq Nat
    PROVE  SuspendedApprovals(lg) = PendingSet(lg) /\ OpenTurns(lg) = OpenSet(lg)
<1>1. ASSUME NEW i \in Positions(lg, "ApprovalRequested")
      PROVE  Unresolved(lg, i) <=> ~ HasCall(lg, "PermissionDecided", lg[i].call)
  <2>1. i \in DOMAIN lg /\ lg[i].type = "ApprovalRequested"
    BY Zenon DEF Positions
  <2>2. ASSUME NEW j \in DOMAIN lg, j > i, lg[j].type = "ApprovalRequested"
        PROVE  lg[j].call # lg[i].call
    BY Zenon, <2>1, <2>2 DEF LogOK, CallEvents
  <2>3. ASSUME NEW j \in DOMAIN lg, lg[j].type = "PermissionDecided", lg[j].call = lg[i].call
        PROVE  j > i
    <3>1. ~ (j < i) /\ j # i
      BY Zenon, <2>1, <2>3 DEF LogOK, CallEvents
    <3> QED
      BY <2>1, <3>1
  <2> QED
    BY Zenon, <2>1, <2>2, <2>3 DEF Unresolved, HasCall, Positions
<1>2. \A i \in Positions(lg, "ApprovalRequested") :
          HasTurn(lg, "TurnStarted", lg[i].turn) /\ HasTurn(lg, "AssistantMessage", lg[i].turn)
  BY Zenon DEF LogOK, Positions, TurnEvents
<1>3. SuspendedApprovals(lg) = PendingSet(lg)
  BY Zenon, <1>1, <1>2 DEF SuspendedApprovals, PendingSet
<1>4. \A j \in PendingSet(lg) : Closed(lg, lg[j].turn)
  BY Zenon, <1>2 DEF PendingSet, Closed
<1>5. OpenTurns(lg) = OpenSet(lg)
  BY Zenon, <1>3, <1>4 DEF OpenTurns, OpenSet
<1> QED
  BY Zenon, <1>3, <1>5

\* The order of a log, read by call and by turn.
LEMMA OrderReads ==
    ASSUME NEW lg, LogOK(lg), DOMAIN lg \subseteq Nat
    PROVE  /\ \A c : HasCall(lg, "ToolResult", c) => HasCall(lg, "PermissionDecided", c)
           /\ \A c : HasCall(lg, "ToolExecutionStarted", c) => Cleared(lg, c)
           /\ \A c : Cleared(lg, c) => HasCall(lg, "PermissionDecided", c)
           /\ \A i \in Positions(lg, "ApprovalRequested") :
                 /\ lg[i].call.turn = lg[i].turn
                 /\ HasTurn(lg, "TurnStarted", lg[i].turn) /\ HasTurn(lg, "AssistantMessage", lg[i].turn)
           /\ \A i, j \in Positions(lg, "ApprovalRequested") : lg[i].call = lg[j].call => i = j
           /\ \A i, j \in Positions(lg, "TurnStarted") : lg[i].turn = lg[j].turn => i = j
<1>1. \A c : HasCall(lg, "ToolResult", c) => HasCall(lg, "PermissionDecided", c)
  <2> SUFFICES ASSUME NEW i \in DOMAIN lg, lg[i].type = "ToolResult"
               PROVE  HasCall(lg, "PermissionDecided", lg[i].call)
    BY Zenon DEF HasCall, Positions
  <2> QED
    BY Zenon DEF LogOK
<1>2. \A c : HasCall(lg, "ToolExecutionStarted", c) => Cleared(lg, c)
  <2> SUFFICES ASSUME NEW i \in DOMAIN lg, lg[i].type = "ToolExecutionStarted"
               PROVE  Cleared(lg, lg[i].call)
    BY Zenon DEF HasCall, Positions
  <2>1. ClearedBefore(lg, lg[i].call, i)
    BY Zenon DEF LogOK
  <2> QED
    BY Zenon, <2>1 DEF ClearedBefore, Cleared
<1>3. \A c : Cleared(lg, c) => HasCall(lg, "PermissionDecided", c)
  BY Zenon DEF Cleared, HasCall
<1>4. \A i \in Positions(lg, "ApprovalRequested") :
          /\ lg[i].call.turn = lg[i].turn
          /\ HasTurn(lg, "TurnStarted", lg[i].turn) /\ HasTurn(lg, "AssistantMessage", lg[i].turn)
  BY Zenon DEF LogOK, Positions, TurnEvents
<1>5. ASSUME NEW i \in Positions(lg, "ApprovalRequested"), NEW j \in Positions(lg, "ApprovalRequested"), lg[i].call = lg[j].call
      PROVE  i = j
  <2>1. ~ (i < j) /\ ~ (j < i) /\ i \in Nat /\ j \in Nat
    BY Zenon, <1>5 DEF LogOK, Positions, CallEvents
  <2> QED
    BY <2>1
<1>6. ASSUME NEW i \in Positions(lg, "TurnStarted"), NEW j \in Positions(lg, "TurnStarted"), lg[i].turn = lg[j].turn
      PROVE  i = j
  <2>1. ~ (i < j) /\ ~ (j < i) /\ i \in Nat /\ j \in Nat
    BY SMTT(30), <1>6 DEF LogOK, Positions, TurnEvents
  <2> QED
    BY <2>1
<1> QED
  BY Zenon, <1>1, <1>2, <1>3, <1>4, <1>5, <1>6

-----------------------------------------------------------------------------
(* A step of one loop, and what the others see of it. *)

\* An event of no turn and of no call changes nothing that a loop knows.
LEMMA QuietGrows ==
    ASSUME NEW lg, NEW lg2, NEW ev, Grown(lg, lg2, ev), ev.type \notin TurnEvents \cup CallEvents, NEW st, LoopOK(lg, st),
           LogOK(lg), st.suspended \subseteq Nat
    PROVE  LoopOK(lg2, st) /\ Fits(lg, ev)
<1>1. /\ \A type \in TurnEvents : \A t : HasTurn(lg2, type, t) <=> HasTurn(lg, type, t)
      /\ \A type \in CallEvents : \A c : HasCall(lg2, type, c) <=> HasCall(lg, type, c)
      /\ \A c : Cleared(lg2, c) <=> Cleared(lg, c)
      /\ \A t : Terminated(lg2, t) <=> Terminated(lg, t)
  BY GrownReadings, GrownTurns DEF TurnEvents, CallEvents, EndEvents
<1>2. OpenSet(lg2) = OpenSet(lg)
  <2>1. \A j : j \in OpenSet(lg2) <=> j \in OpenSet(lg)
    BY SMTT(30), GrownOpen DEF TurnEvents, EndEvents
  <2> QED
    BY Zenon, <2>1
<1>3. PendingSet(lg2) = PendingSet(lg)
  <2>1. \A j : j \in PendingSet(lg2) <=> j \in PendingSet(lg)
    BY GrownOpen DEF TurnEvents, CallEvents, EndEvents
  <2> QED
    BY Zenon, <2>1
<1>4. Positions(lg2, "ApprovalRequested") = Positions(lg, "ApprovalRequested")
  <2>1. ev.type # "ApprovalRequested"
    BY Zenon DEF CallEvents
  <2> QED
    BY <2>1 DEF Grown, Positions
<1>5. \A i \in DOMAIN lg2 : lg2[i].type \in TurnEvents \cup CallEvents => i \in DOMAIN lg /\ lg2[i] = lg[i]
  BY GrownPositions
<1>6. InResume(st) => lg2[Min(st.suspended)] = lg[Min(st.suspended)]
  <2> SUFFICES ASSUME InResume(st) PROVE lg2[Min(st.suspended)] = lg[Min(st.suspended)]
    BY Zenon
  <2>1. st.suspended # {} /\ st.suspended \subseteq Positions(lg, "ApprovalRequested")
    BY Zenon DEF LoopOK
  <2>2. Min(st.suspended) \in Positions(lg, "ApprovalRequested")
    BY SMTT(30), <2>1, MinIsIn
  <2> QED
    BY Zenon, <2>2, GrownPositions
<1>7. CallsOK(lg, st) => CallsOK(lg2, st)
  <2> SUFFICES ASSUME NEW p \in DOMAIN st.calls, CallOK(lg, st, p)
               PROVE  CallOK(lg2, st, p)
    BY SMTT(30) DEF CallsOK
  <2> DEFINE c == st.calls[p]
  <2>1. Untouched(lg2, c) <=> Untouched(lg, c)
    BY Zenon, <1>1 DEF Untouched
  <2>2. /\ HasCall(lg2, "PermissionDecided", c) <=> HasCall(lg, "PermissionDecided", c)
        /\ HasCall(lg2, "ToolExecutionStarted", c) <=> HasCall(lg, "ToolExecutionStarted", c)
        /\ HasCall(lg2, "ToolResult", c) <=> HasCall(lg, "ToolResult", c)
    BY Zenon, <1>1 DEF CallEvents
  <2> QED
    BY Zenon, <1>1, <2>1, <2>2 DEF CallOK
<1>8. Fits(lg, ev)
  BY Zenon DEF Fits, TurnEvents, CallEvents
<1>9. \A j \in OpenSet(lg) \cup PendingSet(lg) : lg2[j] = lg[j]
  BY GrownOpen
<1>11. /\ HasTurn(lg2, "TurnStarted", st.turn) <=> HasTurn(lg, "TurnStarted", st.turn)
       /\ HasTurn(lg2, "AssistantMessage", st.turn) <=> HasTurn(lg, "AssistantMessage", st.turn)
       /\ Terminated(lg2, st.turn) <=> Terminated(lg, st.turn)
  BY Zenon, <1>1 DEF TurnEvents
<1>12. (\A i \in DOMAIN lg : lg[i].type \in CallEvents => lg[i].call.turn # st.turn)
         => (\A i \in DOMAIN lg2 : lg2[i].type \in CallEvents => lg2[i].call.turn # st.turn)
  BY SMTT(30), <1>5
<1> QED
  BY ZenonT(30), <1>2, <1>3, <1>6, <1>7, <1>8, <1>9, <1>4, <1>11, <1>12 DEF LoopOK

\* A decision, a start or a result changes no turn; a decision settles its ask.
LEMMA CallGrows ==
    ASSUME NEW lg, NEW lg2, NEW ev, Grown(lg, lg2, ev), ev.type \in CallEvents \ {"ApprovalRequested"}
    PROVE  /\ OpenSet(lg2) = OpenSet(lg)
           /\ \A j \in OpenSet(lg) \cup PendingSet(lg) : lg2[j] = lg[j]
           /\ \A j : j \in PendingSet(lg2) <=>
                  j \in PendingSet(lg) /\ ~ (ev.type = "PermissionDecided" /\ ev.call = lg[j].call)
           /\ \A type \in TurnEvents : \A t : HasTurn(lg2, type, t) <=> HasTurn(lg, type, t)
           /\ \A t : Terminated(lg2, t) <=> Terminated(lg, t)
<1>1. ev.type \notin TurnEvents /\ ev.type \notin EndEvents \cup {"AssistantMessage"}
  BY Zenon DEF TurnEvents, CallEvents, EndEvents
<1>2. OpenSet(lg2) = OpenSet(lg)
  <2>1. \A j : j \in OpenSet(lg2) <=> j \in OpenSet(lg)
    BY Zenon, <1>1, GrownOpen DEF TurnEvents
  <2> QED
    BY Zenon, <2>1
<1>3. \A j : j \in PendingSet(lg2) <=>
          j \in PendingSet(lg) /\ ~ (ev.type = "PermissionDecided" /\ ev.call = lg[j].call)
  BY <1>1, GrownOpen
<1>4. \A type \in TurnEvents : \A t : HasTurn(lg2, type, t) <=> HasTurn(lg, type, t)
  BY <1>1, GrownReadings
<1>5. \A t : Terminated(lg2, t) <=> Terminated(lg, t)
  BY Zenon, <1>1, GrownTurns
<1> QED
  BY SMTT(30), <1>2, <1>3, <1>4, <1>5, GrownOpen

\* A loop that is not running knows nothing, so nothing false.
LEMMA IdleOK ==
    /\ Idle \in LoopTypes /\ WellTyped(Idle) /\ Idle.pc = "idle" /\ Idle.run = 0 /\ Idle.head = 0 /\ Idle.waiting = 0
    /\ Idle.sched = << >>
    /\ \A lg : LoopOK(lg, Idle)
<1>1. /\ Idle.pc = "idle" /\ Idle.run = 0 /\ Idle.head = 0 /\ Idle.waiting = 0
      /\ Idle.sched = << >> /\ Idle.calls = << >> /\ Idle.results = << >>
  BY Zenon DEF Idle
<1>2. Idle \in LoopTypes
  <2>1. << >> \in Seq(Kinds) /\ << >> \in Seq(AllCalls) /\ << >> \in Seq(Nat) /\ << >> \in Seq(AllCalls \cup {NoCall})
    OBVIOUS
  <2>2. {} \in SUBSET Nat /\ 0 \in Nat /\ 0 \in Int /\ 1 \in Nat \ {0}
    OBVIOUS
  <2>3. "idle" \in PCs /\ "none" \in Reasons \cup {"none"}
    BY Zenon DEF PCs
  <2> QED
    BY ONLY <2>1, <2>2, <2>3, Zenon DEF Idle, LoopTypes
<1>3. ~ InResume(Idle) /\ ~ InBatch(Idle) /\ ~ InTurn(Idle)
  BY SMTT(30), <1>1 DEF InResume, InBatch, InTurn
<1>4. ASSUME NEW lg PROVE LoopOK(lg, Idle)
  <2>1. CallsOK(lg, Idle)
    BY Zenon, <1>1 DEF CallsOK, CallOK
  <2> QED
    BY Zenon, <1>1, <1>3, <2>1 DEF LoopOK
<1> QED
  BY Zenon, <1>1, <1>2, <1>4 DEF WellTyped

\* What a loop knows of the log does not depend on the head it holds.
LEMMA HeadAside ==
    ASSUME NEW st, WellTyped(st), NEW h \in Nat, NEW lg, LoopOK(lg, st)
    PROVE  /\ WellTyped([st EXCEPT !.head = h])
           /\ LoopOK(lg, [st EXCEPT !.head = h])
<1> DEFINE st2 == [st EXCEPT !.head = h]
<1>1. st2 \in LoopTypes
  BY Zenon DEF WellTyped, LoopTypes
<1>2. /\ st2.pc = st.pc /\ st2.suspended = st.suspended /\ st2.open = st.open /\ st2.calls = st.calls
      /\ st2.turn = st.turn /\ st2.i = st.i /\ st2.reason = st.reason /\ st2.results = st.results
  BY Zenon DEF WellTyped, LoopTypes
<1> HIDE DEF st2
<1>3. /\ InResume(st2) <=> InResume(st)
      /\ InBatch(st2) <=> InBatch(st)
      /\ InTurn(st2) <=> InTurn(st)
  BY Zenon, <1>2 DEF InResume, InBatch, InTurn
<1>4. CallsOK(lg, st2)
  BY ZenonT(30), <1>2 DEF LoopOK, CallsOK, CallOK
<1>5. LoopOK(lg, st2)
  BY ZenonT(30), <1>2, <1>3, <1>4 DEF LoopOK
<1> QED
  BY Zenon, <1>1, <1>2, <1>5 DEF st2, WellTyped

\* The step of loop l to st leaves the call it waits for alone.
RunFrame(l, st) ==
    \/ st = Idle
    \/ /\ loop[l].pc # "idle" /\ st.run = loop[l].run /\ st.waiting = loop[l].waiting
       /\ st.pc # "dispatch" => st.waiting = 0
       /\ st.waiting = 0 \/ (st.calls = loop[l].calls /\ st.asst = loop[l].asst)

\* The step leaves the calls that the loop has yet to send alone, too.
SchedFrame(l, st) ==
    \/ st.sched = << >>
    \/ st.sched = loop[l].sched /\ st.calls = loop[l].calls /\ st.asst = loop[l].asst

Frame(l, st) == RunFrame(l, st) /\ SchedFrame(l, st)

\* Such a step keeps the loops' claims on the calls.
LEMMA FrameSent ==
    ASSUME TypeInv, SentOnce, NEW l \in Loops, NEW st, SchedFrame(l, st),
           loop' = [loop EXCEPT ![l] = st], UNCHANGED tasks,
           \A c, k : Recorded(log, c, k) => Recorded(log', c, k)
    PROVE  SentOnce'
<1>1. \A m \in Loops : loop'[m] = IF m = l THEN st ELSE loop[m]
  BY Zenon DEF TypeInv
<1>2. \/ st.sched = << >>
      \/ st.sched = loop[l].sched /\ st.calls = loop[l].calls /\ st.asst = loop[l].asst
  BY Zenon DEF SchedFrame
<1>3. ASSUME NEW m \in Loops, NEW a \in DOMAIN loop'[m].sched
      PROVE  /\ a \in DOMAIN loop[m].sched
             /\ loop'[m].sched = loop[m].sched /\ loop'[m].calls = loop[m].calls /\ loop'[m].asst = loop[m].asst
  BY SMTT(30), <1>1, <1>2
<1>4. \A m \in Loops : \A a \in DOMAIN loop'[m].sched :
          /\ loop'[m].sched[a] \in DOMAIN loop'[m].calls
          /\ Recorded(log', loop'[m].calls[loop'[m].sched[a]], loop'[m].asst)
          /\ \A q \in DOMAIN tasks' : q.call # loop'[m].calls[loop'[m].sched[a]]
  BY SMTT(30), <1>3 DEF SentOnce
<1>5. \A k, m \in Loops : \A a \in DOMAIN loop'[k].sched, b \in DOMAIN loop'[m].sched :
          loop'[k].calls[loop'[k].sched[a]] = loop'[m].calls[loop'[m].sched[b]] => k = m /\ a = b
  BY SMTT(30), <1>3 DEF SentOnce
<1>6. (\A q \in DOMAIN tasks : Recorded(log, q.call, q.key))'
  BY Zenon DEF SentOnce
<1>7. (\A p, q \in DOMAIN tasks : p.call = q.call => p = q)'
  BY SMTT(30) DEF SentOnce
<1> QED
  BY Zenon, <1>4, <1>5, <1>6, <1>7 DEF SentOnce

\* Such a step keeps the runtime's calls apart.
LEMMA FrameRuntime ==
    ASSUME TypeInv, OneInRuntime, MutationsAreSerial, NEW l \in Loops, NEW st, RunFrame(l, st),
           loop' = [loop EXCEPT ![l] = st], UNCHANGED <<runs, tasks>>
    PROVE  (OneInRuntime /\ MutationsAreSerial)'
<1>1. \A m \in Loops : loop'[m] = IF m = l THEN st ELSE loop[m]
  BY Zenon DEF TypeInv
<1>2. \A q \in DOMAIN tasks : q.run \in 1..MaxRuns
  BY Zenon DEF TypeInv, Tools!TypeOK, Tools!Requests
<1>3. st = Idle \/ (loop[l].pc # "idle" /\ st.run = loop[l].run)
  BY SMTT(30) DEF RunFrame
<1>4. (\A m \in Loops : loop[m].pc # "idle" => loop[m].run > 0)'
  BY SMTT(30), <1>1, <1>3, IdleOK DEF OneInRuntime
<1>5. (\A k, m \in Loops : loop[k].pc # "idle" /\ loop[m].run = loop[k].run => k = m)'
  BY SMTT(30), <1>1, <1>3, <1>4, IdleOK DEF OneInRuntime
<1>6. ASSUME NEW m \in Loops, loop'[m].waiting # 0
      PROVE  /\ loop'[m].pc = "dispatch" /\ loop'[m].run = loop[m].run /\ loop'[m].waiting = loop[m].waiting
             /\ loop'[m].calls = loop[m].calls /\ loop'[m].asst = loop[m].asst
  BY SMTT(30), <1>1, <1>6, IdleOK DEF RunFrame, OneInRuntime
<1>7. ASSUME NEW m \in Loops, loop'[m].waiting # 0
      PROVE  /\ loop'[m].pc = "dispatch" /\ loop'[m].waiting \in DOMAIN loop'[m].calls
             /\ Request(m, loop[m].waiting)' = Request(m, loop[m].waiting)
             /\ Request(m, loop[m].waiting)' \in DOMAIN tasks'
  BY SMTT(30), <1>6, <1>7 DEF OneInRuntime, Request
<1>8. ASSUME NEW q \in DOMAIN tasks, tasks[q].stage = "sent", ~ Parallel(q.call), NEW m \in Loops, loop'[m].run = q.run
      PROVE  loop'[m].waiting # 0 /\ q = Request(m, loop[m].waiting)'
  <2>1. loop[m].run = q.run /\ loop'[m].waiting = loop[m].waiting
    BY SMTT(30), <1>1, <1>2, <1>8, IdleOK DEF RunFrame
  <2>2. loop[m].waiting # 0 /\ q = Request(m, loop[m].waiting)
    BY SMTT(30), <1>8, <2>1 DEF OneInRuntime
  <2> QED
    BY SMTT(30), <1>7, <2>1, <2>2
<1>9. (\A q \in DOMAIN tasks : q.run <= runs)'
  BY Zenon DEF OneInRuntime
<1>10. MutationsAreSerial'
  BY Zenon DEF MutationsAreSerial, Parallel
<1> QED
  BY SMTT(30), <1>4, <1>5, <1>7, <1>8, <1>9, <1>10 DEF OneInRuntime, Parallel

\* A loop moves to st and appends nothing.
LEMMA Moves ==
    ASSUME Inv, NEW l \in Loops, NEW st, WellTyped(st), Frame(l, st), Set(l, st), UNCHANGED <<runs, tasks>>,
           st.head = loop[l].head \/ st = Idle,
           loop[l].head = Len(log) => LoopOK(log, st),
           st.pc = "resume" => st.suspended \subseteq Positions(log, "ApprovalRequested")
    PROVE  Inv'
<1>1. loop' = [loop EXCEPT ![l] = st] /\ UNCHANGED <<log, runs, tasks>>
  BY SMTT(30) DEF Set
<1>2. \A m \in Loops : loop'[m] = IF m = l THEN st ELSE loop[m]
  BY SMTT(30), <1>1 DEF Inv, TypeInv
<1>3. st.run \in 0..runs /\ st.head <= Len(log)
  BY SMTT(30), IdleOK, ConfigAssumption DEF Inv, TypeInv, Frame, RunFrame, SchedFrame
<1>4. TypeInv'
  <2>1. loop' \in [Loops -> LoopTypes]
    BY SMTT(30), <1>1 DEF Inv, TypeInv, WellTyped
  <2>2. Tools!TypeOK'
    BY SMTT(30), <1>1 DEF Inv, TypeInv, Tools!TypeOK
  <2> QED
    BY SMTT(30), <1>1, <1>2, <1>3, <2>1, <2>2 DEF Inv, TypeInv
<1>5. LogInv'
  BY SMTT(30), <1>1, <1>2, IdleOK DEF Inv, LogInv
<1>6. SentOnce'
  BY Zenon, <1>1, FrameSent DEF Inv, Frame
<1>7. (OneInRuntime /\ MutationsAreSerial)'
  BY ZenonT(30), <1>1, FrameRuntime DEF Inv, Frame
<1> QED
  BY SMTT(30), <1>4, <1>5, <1>6, <1>7 DEF Inv

\* A run returns: its loop is gone.
LEMMA Leaves ==
    ASSUME Inv, NEW l \in Loops, Set(l, Idle), UNCHANGED <<runs, tasks>>
    PROVE  Inv'
BY Zenon, Moves, IdleOK DEF Frame, RunFrame, SchedFrame

\* The log, the types and the loops' knowledge after an append that lands.
LEMMA Lands ==
    ASSUME Inv, NEW l \in Loops, NEW ev \in Events, NEW st, WellTyped(st),
           loop[l].head = Len(log), AppendEvent(l, ev, st), UNCHANGED <<runs, tasks>>,
           st.run \in 0..runs,
           Fits(log, ev), st.pc = "idle" => st = Idle, LoopOK(Append(log, ev), st)
    PROVE  /\ TypeInv' /\ LogInv'
           /\ Grown(log, log', ev)
           /\ loop' = [loop EXCEPT ![l] = AtHead(st, Len(log) + 1)]
<1>1. log' = Append(log, ev) /\ loop' = [loop EXCEPT ![l] = AtHead(st, Len(log) + 1)]
  BY Zenon DEF AppendEvent
<1>2. log \in Seq(Events) /\ Len(log) \in Nat
  BY SMTT(30) DEF Inv, TypeInv
<1>3. Grown(log, log', ev) /\ log' \in Seq(Events) /\ Len(log') = Len(log) + 1
  BY <1>1, <1>2, AppendGrows DEF Grown
<1> DEFINE st2 == AtHead(st, Len(log) + 1)
<1>4. /\ WellTyped(st2) /\ LoopOK(log', st2) /\ st2.head <= Len(log')
      /\ st2.run \in 0..runs
  <2>1. CASE st.pc = "idle"
    BY SMTT(30), <1>1, <1>2, <1>3, <2>1, IdleOK DEF AtHead
  <2>2. CASE st.pc # "idle"
    <3>1. st2 = [st EXCEPT !.head = Len(log) + 1]
      BY Zenon, <2>2 DEF AtHead
    <3>2. WellTyped(st2) /\ LoopOK(log', st2)
      <4> PICK h \in Nat : h = Len(log) + 1
        BY <1>2
      <4> PICK lg : lg = log'
        BY Zenon
      <4>1. LoopOK(lg, st)
        BY Zenon, <1>1
      <4>2. WellTyped([st EXCEPT !.head = h]) /\ LoopOK(lg, [st EXCEPT !.head = h])
        BY Zenon, <4>1, HeadAside
      <4>3. st2 = [st EXCEPT !.head = h]
        BY Zenon, <3>1
      <4> HIDE DEF st2
      <4> QED
        BY Zenon, <4>2, <4>3
    <3>3. st2.head = Len(log) + 1 /\ st2.run = st.run
      BY SMTT(30), <3>1 DEF WellTyped, LoopTypes
    <3> QED
      BY <1>2, <1>3, <3>2, <3>3
  <2> QED
    BY Zenon, <2>1, <2>2
<1> HIDE DEF st2
<1>5. \A m \in Loops : loop'[m] = IF m = l THEN st2 ELSE loop[m]
  BY Zenon, <1>1 DEF Inv, TypeInv, st2
<1>6. \A m \in Loops : loop[m].head \in Nat /\ loop[m].head <= Len(log)
  BY Zenon DEF Inv, TypeInv, LoopTypes
<1>7. TypeInv'
  <2>1. loop' \in [Loops -> LoopTypes]
    BY SMTT(30), <1>1, <1>4 DEF Inv, TypeInv, WellTyped, st2
  <2>2. Tools!TypeOK'
    BY SMTT(30) DEF Inv, TypeInv, Tools!TypeOK
  <2>3. \A m \in Loops :
          /\ WellTyped(loop'[m])
          /\ loop'[m].run \in 0..runs /\ loop'[m].head <= Len(log')
    <3> TAKE m \in Loops
    <3>1. CASE m = l
      BY SMTT(30), <1>4, <1>5, <3>1
    <3>2. CASE m # l
      <4>1. WellTyped(loop[m]) /\ loop[m].run \in 0..runs
        BY SMTT(30) DEF Inv, TypeInv
      <4> QED
        BY SMTT(30), <1>2, <1>3, <1>5, <1>6, <3>2, <4>1
    <3> QED
      BY SMTT(30), <3>1, <3>2
  <2> QED
    BY SMTT(30), <1>3, <2>1, <2>2, <2>3 DEF Inv, TypeInv
<1>8. LogOK(log') /\ StartsSettled(log')
  BY ZenonT(30), <1>3, FitsKeepsOrder, FitsStartsSettled DEF Inv, LogInv
<1>9. \A m \in Loops : loop'[m].head = Len(log') => LoopOK(log', loop'[m])
  BY SMTT(30), <1>2, <1>3, <1>4, <1>5, <1>6
<1>10. \A m \in Loops : loop'[m].pc = "resume" => loop'[m].suspended \subseteq Positions(log', "ApprovalRequested")
  <2>1. Positions(log, "ApprovalRequested") \subseteq Positions(log', "ApprovalRequested")
    BY SMTT(30), <1>3, GrownPositions
  <2>2. st2.pc = "resume" => st2.suspended \subseteq Positions(log', "ApprovalRequested")
    BY Zenon, <1>4 DEF LoopOK, PendingSet
  <2> QED
    BY SMTT(30), <1>5, <2>1, <2>2 DEF Inv, LogInv
<1> QED
  BY Zenon, <1>1, <1>3, <1>7, <1>8, <1>9, <1>10 DEF LogInv, st2

\* A loop appends an event and moves to st, or the Run returns the conflict.
LEMMA Appends ==
    ASSUME Inv, NEW l \in Loops, NEW ev, NEW st, AppendEvent(l, ev, st), UNCHANGED <<runs, tasks>>,
           loop[l].head = Len(log) =>
               /\ ev \in Events /\ Fits(log, ev)
               /\ WellTyped(st)
               /\ st.pc = "idle" => st = Idle
               /\ Frame(l, st) /\ LoopOK(Append(log, ev), st)
    PROVE  Inv'
<1>1. CASE loop[l].head # Len(log)
  BY Zenon, <1>1, Leaves DEF AppendEvent, Set
<1>2. CASE loop[l].head = Len(log)
  <2>1. WellTyped(st) /\ Frame(l, st) /\ st.run \in 0..runs
    BY SMTT(30), <1>2, IdleOK, ConfigAssumption DEF Inv, TypeInv, Frame, RunFrame, SchedFrame
  <2> DEFINE st2 == AtHead(st, Len(log) + 1)
  <2>2. TypeInv' /\ LogInv' /\ Grown(log, log', ev) /\ loop' = [loop EXCEPT ![l] = st2]
    BY Zenon, <1>2, <2>1, Lands
  <2>3. Frame(l, st2)
    <3>1. CASE st.pc = "idle"
      BY SMTT(30), <1>2, <2>1, <3>1 DEF AtHead
    <3>2. CASE st.pc # "idle"
      <4>1. /\ st2.pc = st.pc /\ st2.run = st.run /\ st2.waiting = st.waiting /\ st2.sched = st.sched
            /\ st2.calls = st.calls /\ st2.asst = st.asst
        BY SMTT(30), <2>1, <3>2 DEF AtHead, WellTyped, LoopTypes
      <4> QED
        BY Zenon, <2>1, <3>2, <4>1, IdleOK DEF Frame, RunFrame, SchedFrame
    <3> QED
      BY Zenon, <3>1, <3>2
  <2>4. SentOnce'
    <3>1. \A c, k : Recorded(log, c, k) => Recorded(log', c, k)
      BY SMTT(30), <2>2, GrownReadings
    <3> QED
      BY ZenonT(30), <2>2, <2>3, <3>1, FrameSent DEF Inv, Frame
  <2>5. (OneInRuntime /\ MutationsAreSerial)'
    BY ZenonT(30), <2>2, <2>3, FrameRuntime DEF Inv, Frame
  <2> QED
    BY SMTT(30), <2>2, <2>4, <2>5 DEF Inv
<1> QED
  BY Zenon, <1>1, <1>2

-----------------------------------------------------------------------------
(* The actions of a loop, one by one. *)

\* What the invariant says of one loop.
LEMMA Known ==
    ASSUME Inv, NEW l \in Loops
    PROVE  /\ WellTyped(loop[l]) /\ log \in Seq(Events) /\ LogOK(log)
           /\ Len(log) \in Nat /\ DOMAIN log = 1..Len(log) /\ DOMAIN log \subseteq Nat
           /\ loop[l].head = Len(log) => LoopOK(log, loop[l])
           /\ loop[l].waiting # 0 => loop[l].pc = "dispatch"
           /\ loop[l].pc = "resume" => loop[l].suspended \subseteq Positions(log, "ApprovalRequested")
           /\ \A ev \in Events : Grown(log, Append(log, ev), ev)
<1>1. WellTyped(loop[l]) /\ log \in Seq(Events)
  BY Zenon DEF Inv, TypeInv
<1>2. Len(log) \in Nat /\ DOMAIN log = 1..Len(log)
  BY <1>1, SMTT(30)
<1>3. DOMAIN log \subseteq Nat
  BY <1>2, SMTT(30)
<1>4. LogOK(log) /\ (loop[l].head = Len(log) => LoopOK(log, loop[l]))
  BY Zenon DEF Inv, LogInv
<1>5. loop[l].pc = "resume" => loop[l].suspended \subseteq Positions(log, "ApprovalRequested")
  BY Zenon DEF Inv, LogInv
<1>6. loop[l].waiting # 0 => loop[l].pc = "dispatch"
  BY Zenon DEF Inv, OneInRuntime
<1>7. \A ev \in Events : Grown(log, Append(log, ev), ev)
  BY <1>1, AppendGrows, Zenon
<1> QED
  BY <1>1, <1>2, <1>3, <1>4, <1>5, <1>6, <1>7, Zenon

\* What the invariant says of a call that a loop has yet to send.
LEMMA SentKnown ==
    ASSUME Inv, NEW l \in Loops, NEW a \in DOMAIN loop[l].sched
    PROVE  /\ loop[l].sched[a] \in DOMAIN loop[l].calls
           /\ Recorded(log, loop[l].calls[loop[l].sched[a]], loop[l].asst)
           /\ \A q \in DOMAIN tasks : q.call # loop[l].calls[loop[l].sched[a]]
BY Zenon DEF Inv, SentOnce

\* An ask has a turn and a call.
LEMMA AskTyped ==
    ASSUME NEW ev \in Events, ev.type = "ApprovalRequested"
    PROVE  ev.turn \in Nat /\ ev.call \in AllCalls
BY Zenon DEF Events

\* An event of no turn and of no call is appended.
LEMMA QuietAppends ==
    ASSUME Inv, NEW l \in Loops, NEW ev \in Events, ev.type \notin TurnEvents \cup CallEvents,
           NEW st, WellTyped(st), st.pc # "idle", Frame(l, st),
           AppendEvent(l, ev, st), UNCHANGED <<runs, tasks>>, loop[l].head = Len(log) => LoopOK(log, st)
    PROVE  Inv'
<1>1. st.suspended \subseteq Nat
  BY Zenon DEF WellTyped, LoopTypes
<1>2. ASSUME loop[l].head = Len(log) PROVE Fits(log, ev) /\ LoopOK(Append(log, ev), st)
  <2> DEFINE lg2 == Append(log, ev)
  <2>1. Grown(log, lg2, ev) /\ LogOK(log)
    BY ZenonT(30), Known
  <2> HIDE DEF lg2
  <2>2. Fits(log, ev) /\ LoopOK(lg2, st)
    BY Zenon, <1>1, <1>2, <2>1, QuietGrows
  <2> QED
    BY SMTT(30), <2>2 DEF lg2
<1> QED
  BY Zenon, <1>2, Appends

\* A message that is not the model's is an event of no turn and of no call.
LEMMA MessageQuiet ==
    ASSUME NEW role \in {"user", "tool", "retry"}, NEW calls \in Seq(AllCalls)
    PROVE  LET ev == [type |-> "MessageAppended", role |-> role, calls |-> calls]
           IN ev \in Events /\ ev.type \notin TurnEvents \cup CallEvents
<1> DEFINE ev == [type |-> "MessageAppended", role |-> role, calls |-> calls]
<1>1. ev \in [type : {"MessageAppended"}, role : {"user", "tool", "retry"}, calls : Seq(AllCalls)] /\ ev.type = "MessageAppended"
  BY Zenon
<1> HIDE DEF ev
<1>2. ev \in Events /\ ev.type \notin TurnEvents \cup CallEvents
  BY Zenon, <1>1 DEF Events, TurnEvents, CallEvents
<1> QED
  BY Zenon, <1>2 DEF ev

\* The fields of a loop that goes on elsewhere.
LEMMA GoesTo ==
    ASSUME Inv, NEW l \in Loops, NEW pc \in PCs \ {"idle", "finish", "batch"}, loop[l].pc \notin {"idle", "dispatch"}
    PROVE  LET st == [loop[l] EXCEPT !.pc = pc]
           IN /\ WellTyped(st) /\ Frame(l, st) /\ st.pc = pc
              /\ st.suspended = loop[l].suspended /\ st.open = loop[l].open /\ st.turn = loop[l].turn
              /\ st.calls = loop[l].calls /\ st.i = loop[l].i /\ st.head = loop[l].head
<1> DEFINE st == [loop[l] EXCEPT !.pc = pc]
<1>1. WellTyped(loop[l]) /\ loop[l].waiting = 0
  BY Zenon, Known
<1>2. /\ st \in LoopTypes /\ st.pc = pc
      /\ st.suspended = loop[l].suspended /\ st.open = loop[l].open /\ st.turn = loop[l].turn
      /\ st.calls = loop[l].calls /\ st.i = loop[l].i /\ st.head = loop[l].head
      /\ st.results = loop[l].results /\ st.run = loop[l].run /\ st.waiting = loop[l].waiting
      /\ st.asst = loop[l].asst /\ st.sched = loop[l].sched
  BY Zenon, <1>1 DEF WellTyped, LoopTypes
<1> HIDE DEF st
<1>3. WellTyped(st) /\ Frame(l, st)
  BY Zenon, <1>1, <1>2 DEF WellTyped, Frame, RunFrame, SchedFrame
<1> QED
  BY Zenon, <1>2, <1>3 DEF st
=============================================================================
