-------------------------- MODULE AgentLoopProofs ---------------------------
(***************************************************************************)
(* Proofs about the agent loop: the turns of the log are well formed, no   *)
(* tool call is started, answered or run twice, and calls that are not     *)
(* reads are in the tool runtime one at a time, for any number of loops,   *)
(* runs, calls and crashes.                                                *)
(***************************************************************************)
EXTENDS AgentLoopTurns, AgentLoopCalls

-----------------------------------------------------------------------------
(* The calls on their way to the runtime and back. *)

\* A run starts: nobody has its number, and the runtime has no call of it.
LEMMA StartRunInv == ASSUME Inv, NEW l \in Loops, StartRun(l) PROVE Inv'
<1> DEFINE st == [Idle EXCEPT !.pc = "load", !.run = runs + 1, !.head = Len(log)]
<1>1. /\ loop[l].pc = "idle" /\ runs < MaxRuns /\ runs' = runs + 1
      /\ loop' = [loop EXCEPT ![l] = st] /\ UNCHANGED <<log, tasks>>
  BY Zenon DEF StartRun, Set
<1>2. runs \in Nat /\ runs + 1 \in 0..MaxRuns /\ Len(log) \in Nat
  BY <1>1, ConfigAssumption DEF Inv, TypeInv
<1>3. /\ st \in LoopTypes /\ st.pc = "load" /\ st.run = runs + 1 /\ st.head = Len(log)
      /\ st.sched = << >> /\ st.waiting = 0 /\ st.calls = << >> /\ st.results = << >>
  <2>1. Idle.calls = << >> /\ Idle.results = << >>
    BY Zenon DEF Idle
  <2>2. "load" \in PCs /\ runs + 1 \in Nat
    BY <1>2 DEF PCs
  <2> QED
    BY Zenon, <1>2, <2>1, <2>2, IdleOK DEF LoopTypes
<1> HIDE DEF st
<1>4. WellTyped(st)
  BY Zenon, <1>3 DEF WellTyped
<1>5. LoopOK(log, st)
  BY <1>3 DEF LoopOK, InResume, InBatch, InTurn, CallsOK
<1>6. \A m \in Loops : loop'[m] = IF m = l THEN st ELSE loop[m]
  BY Zenon, <1>1 DEF Inv, TypeInv
<1>7. TypeInv'
  <2>1. loop' \in [Loops -> LoopTypes]
    BY Zenon, <1>1, <1>3 DEF Inv, TypeInv
  <2>2. Tools!TypeOK'
    BY Zenon, <1>1 DEF Inv, TypeInv, Tools!TypeOK
  <2>3. ASSUME NEW m \in Loops
        PROVE  WellTyped(loop'[m]) /\ loop'[m].run \in 0..(runs + 1) /\ loop'[m].head <= Len(log)
    <3>1. WellTyped(loop[m]) /\ loop[m].run \in 0..runs /\ loop[m].head <= Len(log)
      BY Zenon DEF Inv, TypeInv
    <3> QED
      BY SMTT(30), <1>2, <1>3, <1>4, <1>6, <3>1
  <2> QED
    BY ZenonT(30), <1>1, <1>2, <2>1, <2>2, <2>3 DEF Inv, TypeInv
<1>8. LogInv'
  BY ZenonT(30), <1>1, <1>3, <1>5, <1>6 DEF Inv, LogInv
<1>9. SentOnce'
  BY Zenon, <1>1, <1>3, FrameSent DEF Inv, SchedFrame
<1>10. \A m \in Loops : loop[m].run \in Nat /\ loop[m].run <= runs
  BY DEF Inv, TypeInv
<1>11. \A q \in DOMAIN tasks : q.run <= runs /\ q.run \in Nat
  BY DEF Inv, OneInRuntime, TypeInv, Tools!TypeOK, Tools!Requests
<1>12. (\A q \in DOMAIN tasks : q.run <= runs)'
  BY SMTT(30), <1>1, <1>2, <1>11
<1>13. (\A m \in Loops : loop[m].pc # "idle" => loop[m].run > 0)'
  BY SMTT(30), <1>2, <1>3, <1>6 DEF Inv, OneInRuntime
<1>14. ASSUME NEW k \in Loops, NEW m \in Loops, loop'[k].pc # "idle", loop'[m].run = loop'[k].run
       PROVE  k = m
  <2>1. loop[k].run # runs + 1 /\ loop[m].run # runs + 1
    BY SMTT(30), <1>2, <1>10
  <2> QED
    BY SMTT(30), <1>3, <1>6, <1>14, <2>1 DEF Inv, OneInRuntime
<1>15. ASSUME NEW m \in Loops, loop'[m].waiting # 0
       PROVE  /\ loop'[m].pc = "dispatch" /\ loop'[m].waiting \in DOMAIN loop'[m].calls
              /\ Request(m, loop[m].waiting)' \in DOMAIN tasks'
  BY SMTT(30), <1>1, <1>3, <1>6, <1>15 DEF Inv, OneInRuntime, Request
<1>16. ASSUME NEW q \in DOMAIN tasks, tasks[q].stage = "sent", ~ Parallel(q.call), NEW m \in Loops, loop'[m].run = q.run
       PROVE  loop'[m].waiting # 0 /\ q = Request(m, loop[m].waiting)'
  <2>1. m # l
    BY SMTT(30), <1>2, <1>3, <1>6, <1>11, <1>16
  <2> QED
    BY SMTT(30), <1>6, <1>16, <2>1 DEF Inv, OneInRuntime, Request
<1>17. OneInRuntime'
  BY SMTT(30), <1>1, <1>12, <1>13, <1>14, <1>15, <1>16 DEF OneInRuntime, Parallel
<1>18. MutationsAreSerial'
  BY Zenon, <1>1 DEF Inv, MutationsAreSerial, Parallel
<1> QED
  BY ZenonT(30), <1>7, <1>8, <1>9, <1>17, <1>18 DEF Inv

\* What a loop knows of the log does not depend on the calls it has yet to send, the one
\* it waits for, and the results.
LEMMA SameKnowledge ==
    ASSUME NEW lg, NEW st0, NEW st, LoopOK(lg, st0), st.pc = st0.pc, st.suspended = st0.suspended, st.open = st0.open,
           st.calls = st0.calls, st.turn = st0.turn, st.i = st0.i
    PROVE  LoopOK(lg, st)
<1>1. /\ InResume(st) <=> InResume(st0)
      /\ InBatch(st) <=> InBatch(st0)
      /\ InTurn(st) <=> InTurn(st0)
  BY Zenon DEF InResume, InBatch, InTurn
<1>2. CallsOK(lg, st)
  BY DEF LoopOK, CallsOK, CallOK
<1> QED
  BY ZenonT(30), <1>1, <1>2 DEF LoopOK

\* The call that the loop waits for is answered.
LEMMA AnsweredInv == ASSUME Inv, NEW l \in Loops, Answered(l) PROVE Inv'
<1> DEFINE st == [loop[l] EXCEPT !.waiting = 0]
<1>1. /\ loop[l].pc = "dispatch" /\ loop[l].waiting # 0 /\ tasks[Request(l, loop[l].waiting)].stage = "answered"
      /\ loop' = [loop EXCEPT ![l] = st] /\ UNCHANGED <<log, runs, tasks>>
  BY Zenon DEF Answered, Set, Stage
<1>2. WellTyped(loop[l]) /\ (loop[l].head = Len(log) => LoopOK(log, loop[l]))
  BY Zenon, Known
<1>3. /\ st \in LoopTypes /\ st.pc = "dispatch" /\ st.waiting = 0 /\ st.i = loop[l].i
      /\ st.suspended = loop[l].suspended /\ st.open = loop[l].open /\ st.turn = loop[l].turn
      /\ st.calls = loop[l].calls /\ st.head = loop[l].head /\ st.sched = loop[l].sched
      /\ st.results = loop[l].results /\ st.run = loop[l].run /\ st.asst = loop[l].asst
  BY Zenon, <1>1, <1>2 DEF WellTyped, LoopTypes
<1> HIDE DEF st
<1>4. WellTyped(st)
  BY Zenon, <1>2, <1>3 DEF WellTyped
<1>5. loop[l].head = Len(log) => LoopOK(log, st)
  BY Zenon, <1>1, <1>2, <1>3, SameKnowledge
<1>6. \A m \in Loops : loop'[m] = IF m = l THEN st ELSE loop[m]
  BY Zenon, <1>1 DEF Inv, TypeInv
<1>7. TypeInv'
  <2>1. loop' \in [Loops -> LoopTypes]
    BY Zenon, <1>1, <1>3 DEF Inv, TypeInv
  <2>2. Tools!TypeOK'
    BY Zenon, <1>1 DEF Inv, TypeInv, Tools!TypeOK
  <2> QED
    BY SMTT(30), <1>1, <1>3, <1>4, <1>6, <2>1, <2>2 DEF Inv, TypeInv
<1>8. LogInv'
  BY SMTT(30), <1>1, <1>3, <1>5, <1>6 DEF Inv, LogInv
<1>9. SentOnce'
  BY ZenonT(30), <1>1, <1>3, FrameSent DEF Inv, SchedFrame
<1>10. /\ (\A q \in DOMAIN tasks : q.run <= runs)'
       /\ (\A m \in Loops : loop[m].pc # "idle" => loop[m].run > 0)'
       /\ (\A k, m \in Loops : loop[k].pc # "idle" /\ loop[m].run = loop[k].run => k = m)'
  BY SMTT(30), <1>1, <1>3, <1>6 DEF Inv, OneInRuntime
<1>11. ASSUME NEW m \in Loops, loop'[m].waiting # 0
       PROVE  /\ loop'[m].pc = "dispatch" /\ loop'[m].waiting \in DOMAIN loop'[m].calls
              /\ Request(m, loop[m].waiting)' \in DOMAIN tasks'
  <2>1. m # l
    BY Zenon, <1>3, <1>6, <1>11
  <2> QED
    BY SMTT(30), <1>1, <1>6, <1>11, <2>1 DEF Inv, OneInRuntime, Request
<1>12. ASSUME NEW q \in DOMAIN tasks, tasks[q].stage = "sent", ~ Parallel(q.call), NEW m \in Loops, loop'[m].run = q.run
       PROVE  loop'[m].waiting # 0 /\ q = Request(m, loop[m].waiting)'
  <2>1. loop[m].waiting # 0 /\ q = Request(m, loop[m].waiting)
    BY SMTT(30), <1>3, <1>6, <1>12 DEF Inv, OneInRuntime
  <2>2. m # l
    BY ZenonT(30), <1>1, <1>12, <2>1
  <2> QED
    BY ZenonT(30), <1>6, <2>1, <2>2 DEF Request
<1>13. OneInRuntime'
  BY ZenonT(30), <1>1, <1>10, <1>11, <1>12 DEF OneInRuntime, Parallel
<1>14. MutationsAreSerial'
  BY SMTT(30), <1>1 DEF Inv, MutationsAreSerial, Parallel
<1> QED
  BY SMTT(30), <1>7, <1>8, <1>9, <1>13, <1>14 DEF Inv

\* The next scheduled call leaves the schedule, for the runtime or answered by the loop:
\* the claims on the calls stay apart.
LEMMA ShrinksSent ==
    ASSUME Inv, NEW l \in Loops, loop[l].sched # << >>, NEW st, WellTyped(st), NEW T,
           st.sched = Tail(loop[l].sched), st.calls = loop[l].calls, st.asst = loop[l].asst,
           loop' = [loop EXCEPT ![l] = st], UNCHANGED log,
           DOMAIN tasks' = DOMAIN tasks \cup T, T \subseteq {Request(l, Head(loop[l].sched))}
    PROVE  SentOnce'
<1> DEFINE c == loop[l].calls[Head(loop[l].sched)]
<1>1. \A m \in Loops : loop'[m] = IF m = l THEN st ELSE loop[m]
  BY Zenon DEF Inv, TypeInv
<1>2. /\ loop[l].sched \in Seq(Nat) /\ Head(loop[l].sched) = loop[l].sched[1] /\ 1 \in DOMAIN loop[l].sched
      /\ \A a \in DOMAIN Tail(loop[l].sched) :
            a + 1 \in DOMAIN loop[l].sched /\ Tail(loop[l].sched)[a] = loop[l].sched[a + 1] /\ a + 1 # 1 /\ a \in Nat
  <2>1. loop[l].sched \in Seq(Nat)
    BY SMTT(30), Known DEF WellTyped, LoopTypes
  <2> QED
    BY SMTT(30), <2>1
<1>3. Recorded(log, c, loop[l].asst) /\ \A q \in DOMAIN tasks : q.call # c
  BY SMTT(30), <1>2 DEF Inv, SentOnce
<1>4. \A q \in T : q.call = c /\ q.key = loop[l].asst
  BY SMTT(30) DEF Request
<1>5. ASSUME NEW m \in Loops, NEW a \in DOMAIN loop'[m].sched
      PROVE  \E b \in DOMAIN loop[m].sched :
                /\ b = (IF m = l THEN a + 1 ELSE a)
                /\ loop'[m].sched[a] = loop[m].sched[b]
                /\ loop'[m].calls = loop[m].calls /\ loop'[m].asst = loop[m].asst
                /\ loop[m].calls[loop[m].sched[b]] # c
  <2>1. CASE m = l
    <3>1. /\ a + 1 \in DOMAIN loop[m].sched /\ loop'[m].sched[a] = loop[m].sched[a + 1] /\ a + 1 # 1
          /\ loop'[m].calls = loop[m].calls /\ loop'[m].asst = loop[m].asst
      BY ZenonT(30), <1>1, <1>2, <2>1
    <3>2. loop[m].calls[loop[m].sched[a + 1]] # c
      BY SMTT(30), <1>2, <2>1, <3>1 DEF Inv, SentOnce
    <3> QED
      BY ZenonT(30), <2>1, <3>1, <3>2
  <2>2. CASE m # l
    <3>1. loop'[m] = loop[m] /\ a \in DOMAIN loop[m].sched
      BY SMTT(30), <1>1, <2>2
    <3>2. loop[m].calls[loop[m].sched[a]] # c
      BY SMTT(30), <1>2, <2>2, <3>1 DEF Inv, SentOnce
    <3> QED
      BY ZenonT(30), <2>2, <3>1, <3>2
  <2> QED
    BY SMTT(30), <2>1, <2>2
<1> HIDE DEF c
<1>6. ASSUME NEW m \in Loops, NEW a \in DOMAIN loop'[m].sched
      PROVE  /\ loop'[m].sched[a] \in DOMAIN loop'[m].calls
             /\ Recorded(log', loop'[m].calls[loop'[m].sched[a]], loop'[m].asst)
             /\ \A q \in DOMAIN tasks' : q.call # loop'[m].calls[loop'[m].sched[a]]
  <2>1. PICK b \in DOMAIN loop[m].sched :
                /\ loop'[m].sched[a] = loop[m].sched[b]
                /\ loop'[m].calls = loop[m].calls /\ loop'[m].asst = loop[m].asst
                /\ loop[m].calls[loop[m].sched[b]] # c
    BY ZenonT(30), <1>5
  <2>2. /\ loop[m].sched[b] \in DOMAIN loop[m].calls
        /\ Recorded(log, loop[m].calls[loop[m].sched[b]], loop[m].asst)
        /\ \A q \in DOMAIN tasks : q.call # loop[m].calls[loop[m].sched[b]]
    BY SMTT(30) DEF Inv, SentOnce
  <2> QED
    BY ZenonT(30), <1>4, <2>1, <2>2
<1>7. ASSUME NEW k \in Loops, NEW m \in Loops, NEW a \in DOMAIN loop'[k].sched, NEW b \in DOMAIN loop'[m].sched,
             loop'[k].calls[loop'[k].sched[a]] = loop'[m].calls[loop'[m].sched[b]]
      PROVE  k = m /\ a = b
  <2>1. PICK a1 \in DOMAIN loop[k].sched :
           a1 = (IF k = l THEN a + 1 ELSE a) /\ loop'[k].sched[a] = loop[k].sched[a1] /\ loop'[k].calls = loop[k].calls
    BY ZenonT(30), <1>5
  <2>2. PICK b1 \in DOMAIN loop[m].sched :
           b1 = (IF m = l THEN b + 1 ELSE b) /\ loop'[m].sched[b] = loop[m].sched[b1] /\ loop'[m].calls = loop[m].calls
    BY SMTT(30), <1>5
  <2>3. k = m /\ a1 = b1
    BY SMTT(30), <1>7, <2>1, <2>2 DEF Inv, SentOnce
  <2>4. k = l => a \in Nat /\ b \in Nat
    BY ZenonT(30), <1>1, <1>2, <2>3
  <2> QED
    BY SMTT(30), <2>1, <2>2, <2>3, <2>4
<1>8. \A q \in DOMAIN tasks' : Recorded(log', q.call, q.key)
  BY SMTT(30), <1>3, <1>4 DEF Inv, SentOnce
<1>9. \A q, r \in DOMAIN tasks' : q.call = r.call => q = r
  BY Zenon, <1>3, <1>4 DEF Inv, SentOnce
<1> QED
  BY SMTT(30), <1>6, <1>7, <1>8, <1>9 DEF SentOnce

\* The types and the knowledge of the loops when a call leaves the schedule.
LEMMA ShrinksKnown ==
    ASSUME Inv, NEW l \in Loops, NEW st, WellTyped(st), loop' = [loop EXCEPT ![l] = st], UNCHANGED <<log, runs>>,
           loop[l].pc = "dispatch", st.pc = loop[l].pc, st.suspended = loop[l].suspended, st.open = loop[l].open,
           st.calls = loop[l].calls, st.turn = loop[l].turn, st.i = loop[l].i, st.run = loop[l].run,
           st.head = loop[l].head, Tools!TypeOK'
    PROVE  TypeInv' /\ LogInv'
<1>1. \A m \in Loops : loop'[m] = IF m = l THEN st ELSE loop[m]
  BY Zenon DEF Inv, TypeInv
<1>2. loop[l].head = Len(log) => LoopOK(log, st)
  BY Zenon, Known, SameKnowledge
<1>3. TypeInv'
  <2>1. loop' \in [Loops -> LoopTypes]
    BY Zenon DEF Inv, TypeInv, WellTyped
  <2> QED
    BY ZenonT(30), <1>1, <2>1 DEF Inv, TypeInv
<1>4. LogInv'
  BY SMTT(30), <1>1, <1>2 DEF Inv, LogInv
<1> QED
  BY Zenon, <1>3, <1>4

\* The loop answers the call itself.
LEMMA ExecVirtual ==
    ASSUME Inv, NEW l \in Loops, loop[l].pc = "dispatch", loop[l].waiting = 0, loop[l].sched # << >>,
           NEW of \in AllCalls \cup {NoCall}, UNCHANGED <<runs, tasks>>,
           Set(l, [[loop[l] EXCEPT !.sched = Tail(@)] EXCEPT !.results[Head(loop[l].sched)] = of])
    PROVE  Inv'
<1> DEFINE p == Head(loop[l].sched)
           results == [loop[l].results EXCEPT ![p] = of]
           st == [[loop[l] EXCEPT !.sched = Tail(@)] EXCEPT !.results = results]
<1>1. WellTyped(loop[l])
  BY Zenon, Known
<1>2. loop[l].results \in Seq(AllCalls \cup {NoCall}) /\ loop[l].sched \in Seq(Nat)
  BY Zenon, <1>1 DEF WellTyped, LoopTypes
<1>3. results \in Seq(AllCalls \cup {NoCall}) /\ Len(results) = Len(loop[l].results) /\ Tail(loop[l].sched) \in Seq(Nat)
  <2>1. loop[l].results \in [1..Len(loop[l].results) -> AllCalls \cup {NoCall}] /\ Len(loop[l].results) \in Nat
    BY <1>2
  <2>2. results \in [1..Len(loop[l].results) -> AllCalls \cup {NoCall}]
    BY Zenon, <2>1
  <2>3. Tail(loop[l].sched) \in Seq(Nat)
    BY <1>2
  <2> HIDE DEF results
  <2> QED
    BY SMTT(30), <2>1, <2>2, <2>3
<1>4. loop' = [loop EXCEPT ![l] = st] /\ UNCHANGED log
  BY Zenon, <1>1 DEF Set, WellTyped, LoopTypes
<1> HIDE DEF results, p
<1>5. /\ st \in LoopTypes /\ st.pc = loop[l].pc /\ st.waiting = loop[l].waiting /\ st.i = loop[l].i
      /\ st.suspended = loop[l].suspended /\ st.open = loop[l].open /\ st.turn = loop[l].turn
      /\ st.calls = loop[l].calls /\ st.head = loop[l].head /\ st.sched = Tail(loop[l].sched)
      /\ st.results = results /\ st.run = loop[l].run /\ st.asst = loop[l].asst
  <2> DEFINE next == [loop[l] EXCEPT !.sched = Tail(@)]
  <2>1. /\ next \in LoopTypes /\ next.pc = loop[l].pc /\ next.waiting = loop[l].waiting /\ next.i = loop[l].i
        /\ next.suspended = loop[l].suspended /\ next.open = loop[l].open /\ next.turn = loop[l].turn
        /\ next.calls = loop[l].calls /\ next.head = loop[l].head /\ next.sched = Tail(loop[l].sched)
        /\ next.run = loop[l].run /\ next.asst = loop[l].asst
    BY Zenon, <1>1, <1>3 DEF WellTyped, LoopTypes
  <2> HIDE DEF next
  <2>2. st = [next EXCEPT !.results = results]
    BY Zenon DEF next
  <2> HIDE DEF st
  <2> QED
    BY ZenonT(30), <1>3, <2>1, <2>2 DEF LoopTypes
<1> HIDE DEF st
<1>6. WellTyped(st) /\ RunFrame(l, st)
  BY Zenon, <1>1, <1>3, <1>5 DEF WellTyped, RunFrame
<1>7. Tools!TypeOK'
  BY Zenon DEF Inv, TypeInv, Tools!TypeOK
<1>8. TypeInv' /\ LogInv'
  BY ZenonT(30), <1>4, <1>5, <1>6, <1>7, ShrinksKnown
<1>9. SentOnce'
  <2>1. DOMAIN tasks' = DOMAIN tasks \cup {} /\ {} \subseteq {Request(l, Head(loop[l].sched))}
    BY Zenon
  <2> QED
    BY ZenonT(30), <1>4, <1>5, <1>6, <2>1, ShrinksSent
<1>10. (OneInRuntime /\ MutationsAreSerial)'
  BY ZenonT(30), <1>4, <1>6, FrameRuntime DEF Inv
<1> QED
  BY ZenonT(30), <1>8, <1>9, <1>10 DEF Inv

\* The call is sent; the loop waits for it unless it is a read.
LEMMA ExecSends ==
    ASSUME Inv, NEW l \in Loops, loop[l].pc = "dispatch", loop[l].waiting = 0, loop[l].sched # << >>,
           NEW p, p = Head(loop[l].sched), Tools!Submit(Request(l, p)),
           NEW waiting, waiting = (IF Parallel(loop[l].calls[p]) THEN 0 ELSE p),
           Set(l, [loop[l] EXCEPT !.sched = Tail(@), !.waiting = waiting]), UNCHANGED runs
    PROVE  Inv'
<1> DEFINE r == Request(l, p)
           st == [loop[l] EXCEPT !.sched = Tail(@), !.waiting = waiting]
<1>1. WellTyped(loop[l])
  BY SMTT(30), Known
<1>2. loop[l].sched \in Seq(Nat) /\ loop[l].calls \in Seq(AllCalls) /\ loop[l].asst \in Nat
  BY SMTT(30), <1>1 DEF WellTyped, LoopTypes
<1>3. Tail(loop[l].sched) \in Seq(Nat) /\ p = loop[l].sched[1] /\ 1 \in DOMAIN loop[l].sched /\ p \in Nat
  BY SMTT(30), <1>2
<1>4. p \in DOMAIN loop[l].calls
  BY SMTT(30), <1>3 DEF Inv, SentOnce
<1>5. waiting \in Nat /\ p # 0 /\ loop[l].calls[p] \in AllCalls
  BY SMTT(30), <1>2, <1>3, <1>4
<1>6. loop' = [loop EXCEPT ![l] = st] /\ UNCHANGED log
  BY SMTT(30) DEF Set
<1>7. /\ st \in LoopTypes /\ st.pc = loop[l].pc /\ st.waiting = waiting /\ st.i = loop[l].i
      /\ st.suspended = loop[l].suspended /\ st.open = loop[l].open /\ st.turn = loop[l].turn
      /\ st.calls = loop[l].calls /\ st.head = loop[l].head /\ st.sched = Tail(loop[l].sched)
      /\ st.results = loop[l].results /\ st.run = loop[l].run /\ st.asst = loop[l].asst
  BY ZenonT(30), <1>1, <1>3, <1>5 DEF WellTyped, LoopTypes
<1> HIDE DEF st
<1>8. WellTyped(st)
  BY Zenon, <1>1, <1>7 DEF WellTyped
<1>9. /\ r.run = loop[l].run /\ r.call = loop[l].calls[p] /\ r.key = loop[l].asst
      /\ r \in [run : 1..MaxRuns, call : AllCalls, key : Nat] /\ r.run <= runs
  <2>1. loop[l].run \in 0..runs /\ runs \in 0..MaxRuns /\ loop[l].run > 0 /\ MaxRuns \in Nat
    BY ZenonT(30), ConfigAssumption DEF Inv, OneInRuntime, TypeInv
  <2>2. loop[l].run \in 1..MaxRuns /\ loop[l].run <= runs
    BY <2>1
  <2> QED
    BY ZenonT(30), <1>2, <1>5, <2>2 DEF Request
<1>10. /\ r \notin DOMAIN tasks /\ DOMAIN tasks' = DOMAIN tasks \cup {r}
       /\ tasks'[r] = [stage |-> "sent", ran |-> FALSE, of |-> NoCall]
       /\ \A q \in DOMAIN tasks : tasks'[q] = tasks[q]
  BY Zenon DEF Tools!Submit
<1>11. Tools!TypeOK'
  <2>1. DOMAIN tasks' \subseteq Tools!Requests
    BY SMTT(30), <1>9, <1>10 DEF Inv, TypeInv, Tools!TypeOK, Tools!Requests
  <2>2. \A q \in DOMAIN tasks' :
           tasks'[q] \in [stage : {"sent", "answered", "failed"}, ran : BOOLEAN, of : AllCalls \cup {NoCall}]
    <3> DEFINE Kept == [stage : {"sent", "answered", "failed"}, ran : BOOLEAN, of : AllCalls \cup {NoCall}]
    <3>1. \A q \in DOMAIN tasks : tasks[q] \in Kept
      BY Zenon DEF Inv, TypeInv, Tools!TypeOK
    <3>2. tasks'[r] \in Kept
      BY <1>10
    <3> HIDE DEF Kept, r
    <3>3. \A q \in DOMAIN tasks' : tasks'[q] \in Kept
      BY Zenon, <1>10, <3>1, <3>2
    <3> QED
      BY Zenon, <3>3 DEF Kept
  <2> QED
    BY SMTT(30), <2>1, <2>2 DEF Tools!TypeOK
<1>12. TypeInv' /\ LogInv'
  BY ZenonT(30), <1>6, <1>7, <1>8, <1>11, ShrinksKnown
<1>13. SentOnce'
  BY ZenonT(30), <1>6, <1>7, <1>8, <1>10, ShrinksSent
<1> HIDE DEF r
<1>14. \A m \in Loops : loop'[m] = IF m = l THEN st ELSE loop[m]
  BY SMTT(30), <1>6 DEF Inv, TypeInv
<1>15. \A q \in DOMAIN tasks : ~ (tasks[q].stage = "sent" /\ ~ Parallel(q.call) /\ q.run = loop[l].run)
  BY SMTT(30) DEF Inv, OneInRuntime
<1>16. /\ (\A q \in DOMAIN tasks : q.run <= runs)'
       /\ (\A m \in Loops : loop[m].pc # "idle" => loop[m].run > 0)'
       /\ (\A k, m \in Loops : loop[k].pc # "idle" /\ loop[m].run = loop[k].run => k = m)'
  BY SMTT(30), <1>7, <1>9, <1>10, <1>14 DEF Inv, OneInRuntime
<1>17. \A m \in Loops : \A w : Request(m, w)' = Request(m, w)
  BY ZenonT(30), <1>7, <1>14 DEF Request
<1>18. ASSUME NEW m \in Loops, loop'[m].waiting # 0
       PROVE  /\ loop'[m].pc = "dispatch" /\ loop'[m].waiting \in DOMAIN loop'[m].calls
              /\ Request(m, loop[m].waiting)' \in DOMAIN tasks'
  <2>1. CASE m = l
    <3>1. loop'[m].waiting = p /\ Request(m, loop[m].waiting)' = r
      BY SMTT(30), <1>7, <1>14, <1>18, <2>1 DEF Request, r
    <3> QED
      BY SMTT(30), <1>4, <1>7, <1>10, <1>14, <2>1, <3>1
  <2>2. CASE m # l
    BY ZenonT(30), <1>10, <1>14, <1>18, <2>2 DEF Inv, OneInRuntime, Request
  <2> QED
    BY SMTT(30), <2>1, <2>2
<1>19. ASSUME NEW q \in DOMAIN tasks', tasks'[q].stage = "sent", ~ Parallel(q.call), NEW m \in Loops, loop'[m].run = q.run
       PROVE  loop'[m].waiting # 0 /\ q = Request(m, loop[m].waiting)'
  <2>1. CASE q = r
    <3>1. m = l
      BY SMTT(30), <1>7, <1>9, <1>14, <1>16, <1>19, <2>1
    <3>2. loop'[m].waiting = p
      BY SMTT(30), <1>7, <1>9, <1>14, <1>19, <2>1, <3>1
    <3> QED
      BY SMTT(30), <1>5, <1>7, <1>14, <2>1, <3>1, <3>2 DEF r, Request
  <2>2. CASE q # r
    <3>1. q \in DOMAIN tasks /\ tasks[q].stage = "sent" /\ loop[m].run = q.run
      BY SMTT(30), <1>7, <1>10, <1>14, <1>19, <2>2
    <3>2. m # l
      BY SMTT(30), <1>15, <1>19, <3>1
    <3> QED
      BY SMTT(30), <1>14, <1>19, <3>1, <3>2 DEF Inv, OneInRuntime, Request
  <2> QED
    BY SMTT(30), <2>1, <2>2
<1>20. OneInRuntime'
  BY SMTT(30), <1>16, <1>18, <1>19 DEF OneInRuntime, Parallel
<1>21. MutationsAreSerial'
  <2> SUFFICES ASSUME NEW a \in DOMAIN tasks', NEW b \in DOMAIN tasks', a.run = b.run,
                      tasks'[a].stage = "sent", tasks'[b].stage = "sent", ~ Parallel(a.call), ~ Parallel(b.call)
               PROVE  a = b
    BY Zenon DEF MutationsAreSerial, Parallel
  <2>1. \A q \in {a, b} : q # r => q \in DOMAIN tasks /\ tasks[q].stage = "sent"
    BY ZenonT(30), <1>10
  <2>2. (a = r => b = r) /\ (b = r => a = r)
    BY SMTT(30), <1>9, <1>15, <2>1
  <2> QED
    BY SMTT(30), <2>1, <2>2 DEF Inv, MutationsAreSerial
<1> QED
  BY SMTT(30), <1>12, <1>13, <1>20, <1>21 DEF Inv

\* The next scheduled call is dispatched.
LEMMA ExecNextInv == ASSUME Inv, NEW l \in Loops, ExecNext(l) PROVE Inv'
<1> DEFINE p == Head(loop[l].sched)
           c == loop[l].calls[p]
           next == [loop[l] EXCEPT !.sched = Tail(@)]
<1>1. /\ loop[l].pc = "dispatch" /\ loop[l].waiting = 0 /\ loop[l].sched # << >> /\ UNCHANGED runs
      /\ IF Virtual(c)
            THEN (\E of \in {c, NoCall} : Set(l, [next EXCEPT !.results[p] = of])) /\ UNCHANGED tasks
            ELSE Tools!Submit(Request(l, p)) /\ Set(l, IF Parallel(c) THEN next ELSE [next EXCEPT !.waiting = p])
  BY Zenon DEF ExecNext
<1>2. WellTyped(loop[l])
  BY SMTT(30), Known
<1>3. CASE Virtual(c)
  <2>1. PICK of \in {c, NoCall} : Set(l, [next EXCEPT !.results[p] = of])
    BY ZenonT(30), <1>1, <1>3
  <2>2. c \in AllCalls
    <3>1. loop[l].calls \in Seq(AllCalls) /\ loop[l].sched \in Seq(Nat)
      BY SMTT(30), <1>2 DEF WellTyped, LoopTypes
    <3>2. p = loop[l].sched[1] /\ 1 \in DOMAIN loop[l].sched
      BY <1>1, <3>1
    <3>3. p \in DOMAIN loop[l].calls
      BY SMTT(30), <3>2 DEF Inv, SentOnce
    <3> QED
      BY SMTT(30), <3>1, <3>3
  <2> QED
    BY ZenonT(30), <1>1, <1>3, <2>1, <2>2, ExecVirtual
<1>4. CASE ~ Virtual(c)
  <2> PICK p1, waiting : p1 = p /\ waiting = (IF Parallel(c) THEN 0 ELSE p)
    BY Zenon
  <2>1. (IF Parallel(c) THEN next ELSE [next EXCEPT !.waiting = p]) = [loop[l] EXCEPT !.sched = Tail(@), !.waiting = waiting]
    BY ZenonT(30), <1>1, <1>2 DEF WellTyped, LoopTypes
  <2>2. Set(l, [loop[l] EXCEPT !.sched = Tail(@), !.waiting = waiting]) /\ Tools!Submit(Request(l, p1))
    BY SMTT(30), <1>1, <1>4, <2>1
  <2> QED
    BY ZenonT(30), <1>1, <2>2, ExecSends
<1> QED
  BY Zenon, <1>3, <1>4

\* The runtime serves a request.
LEMMA ToolStepInv == ASSUME Inv, ToolStep, UNCHANGED <<log, loop, runs>> PROVE Inv'
<1> DEFINE Kept == [stage : {"sent", "answered", "failed"}, ran : BOOLEAN, of : AllCalls \cup {NoCall}]
<1>1. PICK q \in DOMAIN tasks : Tools!Serve(q)
  BY Zenon DEF ToolStep
<1>2. tasks[q] \in Kept /\ DOMAIN tasks \subseteq Tools!Requests
  BY Zenon DEF Inv, TypeInv, Tools!TypeOK
<1>3. /\ DOMAIN tasks' = DOMAIN tasks /\ tasks'[q] \in Kept
      /\ \A p \in DOMAIN tasks : p # q => tasks'[p] = tasks[p]
      /\ \A p \in DOMAIN tasks : tasks'[p].stage = "sent" => tasks[p].stage = "sent"
  <2>1. CASE Tools!Execute(q)
    BY ZenonT(30), <1>2, <2>1 DEF Tools!Execute, Tools!Sent
  <2>2. CASE Tools!Fail(q)
    BY SMTT(30), <1>2, <2>2 DEF Tools!Fail, Tools!Sent
  <2>3. CASE Tools!Answer(q)
    <3>1. PICK of \in {p.call : p \in Tools!Sources(q)} \cup {NoCall} :
             tasks' = [tasks EXCEPT ![q].stage = "answered", ![q].of = of]
      BY Zenon, <2>3 DEF Tools!Answer
    <3>2. of \in AllCalls \cup {NoCall}
      BY SMTT(30), <1>2, <3>1 DEF Tools!Sources, Tools!Requests
    <3>3. tasks'[q] = [[tasks[q] EXCEPT !.stage = "answered"] EXCEPT !.of = of]
      BY Zenon, <3>1
    <3>4. tasks'[q] \in Kept /\ tasks'[q].stage = "answered"
      BY Zenon, <1>2, <3>2, <3>3
    <3>5. DOMAIN tasks' = DOMAIN tasks /\ \A p \in DOMAIN tasks : p # q => tasks'[p] = tasks[p]
      BY Zenon, <3>1
    <3> QED
      BY SMTT(30), <3>4, <3>5
  <2> QED
    BY SMTT(30), <1>1, <2>1, <2>2, <2>3 DEF Tools!Serve
<1>4. Tools!TypeOK'
  BY SMTT(30), <1>2, <1>3 DEF Inv, TypeInv, Tools!TypeOK
<1>5. TypeInv'
  BY Zenon, <1>4 DEF Inv, TypeInv
<1>6. LogInv'
  BY ZenonT(30) DEF Inv, LogInv
<1>7. SentOnce'
  BY SMTT(30), <1>3 DEF Inv, SentOnce
<1>8. OneInRuntime'
  BY SMTT(30), <1>3 DEF Inv, OneInRuntime, Request, Parallel
<1>9. MutationsAreSerial'
  BY Zenon, <1>3 DEF Inv, MutationsAreSerial, Parallel
<1> QED
  BY SMTT(30), <1>5, <1>6, <1>7, <1>8, <1>9 DEF Inv

-----------------------------------------------------------------------------
(* The invariant, and what it gives. *)

\* A new session and no run: the invariant holds.
LEMMA InitInv == Init => Inv
<1> SUFFICES ASSUME Init PROVE Inv
  BY Zenon
<1> DEFINE e == [type |-> "SessionStarted"]
<1>1. /\ log = <<e>> /\ loop = [l \in Loops |-> Idle] /\ runs = 0 /\ DOMAIN tasks = {}
  BY DEF Init, Tools!Init
<1>2. e \in Events /\ e.type = "SessionStarted"
  BY Zenon DEF Events
<1> HIDE DEF e
<1>3. log \in Seq(Events) /\ Len(log) = 1 /\ \A i \in DOMAIN log : log[i] = e
  BY SMTT(30), <1>1, <1>2
<1>4. TypeInv
  <2>1. 0 \in 0..MaxRuns
    BY ConfigAssumption
  <2>2. Tools!TypeOK
    BY Zenon, <1>1 DEF Tools!TypeOK
  <2> QED
    BY SMTT(30), <1>1, <1>3, <2>1, <2>2, IdleOK DEF TypeInv
<1>5. LogOK(log) /\ StartsSettled(log)
  BY Zenon, <1>2, <1>3 DEF LogOK, StartsSettled, TurnEvents, CallEvents, EndEvents
<1>6. LogInv
  BY SMTT(30), <1>1, <1>5, IdleOK DEF LogInv
<1>7. SentOnce
  <2>1. \A l \in Loops : DOMAIN loop[l].sched = {}
    BY SMTT(30), <1>1, IdleOK
  <2> QED
    BY SMTT(30), <1>1, <2>1 DEF SentOnce
<1>8. OneInRuntime
  BY SMTT(30), <1>1, IdleOK DEF OneInRuntime
<1>9. MutationsAreSerial
  BY Zenon, <1>1 DEF MutationsAreSerial
<1> QED
  BY SMTT(30), <1>4, <1>6, <1>7, <1>8, <1>9 DEF Inv

\* Every step keeps the invariant.
LEMMA NextInv == Inv /\ [Next]_vars => Inv'
<1> SUFFICES ASSUME Inv, [Next]_vars PROVE Inv'
  BY Zenon
<1>1. ASSUME NEW l \in Loops, StartRun(l) \/ Step(l) \/ Resolved(l) \/ ResumeAnswered(l) \/ Stop(l)
      PROVE  Inv'
  <2>1. CASE StartRun(l) \/ Resolved(l) \/ ResumeAnswered(l) \/ Stop(l)
    BY SMTT(30), <2>1, StartRunInv, ResolvedInv, ResumeAnsweredInv, StopInv
  <2>2. CASE \/ Analyze(l) \/ Reraise(l) \/ ResumeStart(l) \/ Abandon(l) \/ AbandonTurn(l)
             \/ CloseOpenTurn(l) \/ UserMessage(l)
    BY SMTT(30), <2>2, AnalyzeInv, ReraiseInv, ResumeStartInv, AbandonInv, AbandonTurnInv, CloseOpenTurnInv, UserMessageInv
  <2>3. CASE \/ Terminate(l) \/ Compact(l) \/ StartTurn(l) \/ StreamFails(l) \/ StreamEnds(l)
             \/ FinalMessage(l) \/ Finish(l)
    BY SMTT(30), <2>3, TerminateInv, CompactInv, StartTurnInv, StreamFailsInv, StreamEndsInv, FinalMessageInv, FinishInv
  <2>4. CASE CheckBatch(l) \/ Deny(l) \/ Allow(l) \/ Ask(l) \/ RecordIntent(l) \/ Dispatch(l)
    BY SMTT(30), <2>4, CheckBatchInv, DenyInv, AllowInv, AskInv, RecordIntentInv, DispatchInv
  <2>5. CASE ExecNext(l) \/ Answered(l) \/ DispatchFails(l) \/ Collect(l)
    BY SMTT(30), <2>5, ExecNextInv, AnsweredInv, DispatchFailsInv, CollectInv
  <2>6. CASE FeedPlan(l) \/ FeedResult(l) \/ FeedMessage(l)
    BY SMTT(30), <2>6, FeedPlanInv, FeedResultInv, FeedMessageInv
  <2> QED
    BY SMTT(30), <1>1, <2>1, <2>2, <2>3, <2>4, <2>5, <2>6 DEF Step
<1>2. CASE UNCHANGED vars
  <2>1. UNCHANGED <<log, loop, runs, tasks>>
    BY SMTT(30), <1>2 DEF vars
  <2>2. TypeInv'
    BY SMTT(30), <2>1 DEF Inv, TypeInv, Tools!TypeOK
  <2>3. LogInv' /\ SentOnce'
    BY SMTT(30), <2>1 DEF Inv, LogInv, SentOnce
  <2>4. OneInRuntime' /\ MutationsAreSerial'
    BY SMTT(30), <2>1 DEF Inv, OneInRuntime, MutationsAreSerial, Request, Parallel
  <2> QED
    BY SMTT(30), <2>2, <2>3, <2>4 DEF Inv
<1> QED
  BY ZenonT(30), <1>1, <1>2, ToolStepInv DEF Next

\* The invariant holds of every reachable state.
LEMMA Invariant == Spec => []Inv
BY InitInv, NextInv, PTL DEF Spec

\* The invariant makes turns well formed.
LEMMA InvTurns == Inv => TurnsAreWellFormed
<1> SUFFICES ASSUME Inv PROVE TurnsAreWellFormed
  BY Zenon
<1>1. TypeOK
  BY ZenonT(30) DEF Inv, TypeInv, TypeOK
<1>2. DOMAIN log \subseteq Nat /\ LogOK(log) /\ StartsSettled(log)
  BY SMTT(30) DEF Inv, TypeInv, LogInv
<1>3. TurnsStartSettled
  <2> SUFFICES ASSUME NEW i \in Positions(log, "TurnStarted"), NEW j \in DOMAIN log, j < i
               PROVE  /\ log[j].type = "TurnStarted" => \E k \in (j + 1)..(i - 1) : Closes(log, k, log[j].turn)
                      /\ log[j].type = "ApprovalRequested" =>
                            \E k \in (j + 1)..(i - 1) :
                               \/ Closes(log, k, log[j].turn)
                               \/ log[k].type = "PermissionDecided" /\ log[k].call = log[j].call
    BY Zenon DEF TurnsStartSettled, Closes
  <2>1. i \in DOMAIN log /\ log[i].type = "TurnStarted"
    BY Zenon DEF Positions
  <2>2. \A k \in DOMAIN log : j < k /\ k < i => k \in (j + 1)..(i - 1)
    BY SMTT(30), <1>2, <2>1
  <2> QED
    BY SMTT(30), <1>2, <2>1, <2>2 DEF StartsSettled
<1>4. TurnsEndOnce
  <2> SUFFICES ASSUME NEW i \in DOMAIN log, NEW j \in DOMAIN log, i < j, log[i].type \in EndEvents
               PROVE  /\ log[j].type \in TurnEvents => log[j].turn # log[i].turn
                      /\ log[j].type \in CallEvents => log[j].call.turn # log[i].turn
    BY Zenon DEF TurnsEndOnce, EndEvents, TurnEvents, CallEvents
  <2> QED
    BY Zenon, <1>2 DEF LogOK
<1>5. DispatchedIsRecorded
  <2> SUFFICES ASSUME NEW q \in DOMAIN tasks
               PROVE  \E i \in Positions(log, "ToolExecutionStarted") :
                         log[i].call = q.call /\ log[i].key = q.key /\ AllowedBefore(q.call, i)
    BY ZenonT(30) DEF DispatchedIsRecorded
  <2>1. PICK i \in Positions(log, "ToolExecutionStarted") : log[i].call = q.call /\ log[i].key = q.key
    BY DEF Inv, SentOnce, Recorded
  <2>2. ClearedBefore(log, q.call, i)
    BY ZenonT(30), <1>2, <2>1 DEF LogOK, Positions
  <2> QED
    BY SMTT(30), <2>1, <2>2 DEF ClearedBefore, AllowedBefore
<1> QED
  BY SMTT(30), <1>1, <1>3, <1>4, <1>5 DEF TurnsAreWellFormed

\* The invariant makes a call's effects happen once.
LEMMA InvOnce == Inv => AtMostOnce
<1> SUFFICES ASSUME Inv PROVE AtMostOnce
  OBVIOUS
<1>1. \A p, q \in DOMAIN tasks : p.call = q.call => p = q
  BY ZenonT(30) DEF Inv, SentOnce
<1>2. ASSUME NEW type \in {"ToolExecutionStarted", "ToolResult"}, NEW i \in Positions(log, type), NEW j \in Positions(log, type),
             log[i].call = log[j].call
      PROVE  i = j
  <2>1. i \in DOMAIN log /\ j \in DOMAIN log /\ log[i].type = type /\ log[j].type = type /\ i \in Nat /\ j \in Nat
    BY SMTT(30) DEF Positions, Inv, TypeInv
  <2>2. ~ (i < j) /\ ~ (j < i)
    BY SMTT(30), <1>2, <2>1 DEF Inv, LogInv, LogOK
  <2> QED
    BY SMTT(30), <2>1, <2>2
<1> QED
  BY SMTT(30), <1>1, <1>2 DEF AtMostOnce

\* However many runs crash, resume and overlap, every turn starts on a settled session
\* and ends once, and no call reaches the runtime that was not allowed and recorded.
THEOREM TurnsStayWellFormed == Spec => []TurnsAreWellFormed
BY Invariant, InvTurns, PTL

\* However many runs crash, resume and overlap, no tool call is started, answered or
\* run twice.
THEOREM CallsRunOnce == Spec => []AtMostOnce
BY Invariant, InvOnce, PTL

\* Of the calls of a run that are not plain reads, at most one is in the runtime.
THEOREM MutationsStaySerial == Spec => []MutationsAreSerial
<1>1. Inv => MutationsAreSerial
  BY Zenon DEF Inv
<1> QED
  BY Invariant, <1>1, PTL
=============================================================================
