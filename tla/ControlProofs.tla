--------------------------- MODULE ControlProofs ----------------------------
(***************************************************************************)
(* Proofs about what controls a run and what is held against it            *)
(* afterwards: the approvals and the slots of the Run calls, the           *)
(* permission gate, the cost roll-up, and the verification of the hash     *)
(* chain.                                                                  *)
(***************************************************************************)
EXTENDS RunControl, Permission, CostRollup, ChainVerify, TLAPS, FiniteSetTheorems, WellFoundedInduction

-----------------------------------------------------------------------------
(***************************************************************************)
(* An approval reaches the request it is for, and the slots of the tenant  *)
(* are exact, for any number of calls.                                     *)
(*                                                                         *)
(* An answer takes several steps from the Control call to the gate that    *)
(* waits for it, and its run may end between any two of them. GateInv says *)
(* who still waits at each of them.                                        *)
(***************************************************************************)

(* The approval gate. *)

ControlTypes ==
    /\ handler \in [Runs -> {"new", "subscribe", "relay", "return", "done"}]
    /\ session \in [Runs -> Sessions \cup {None}]
    /\ agent \in [Runs -> {"none", "work", "asking", "told", "over"}]
    /\ cancelled \in [Runs -> BOOLEAN]
    /\ running \in [Sessions -> Runs \cup {None}]
    /\ pending \in [Sessions -> Runs \cup {None}] /\ newest \in [Sessions -> Runs \cup {None}]
    /\ result \in [Runs -> Decisions \cup {"none"}]
    /\ sending \subseteq Runs \X Decisions

\* No entry, decision or answer is there for the run.
Unasked(r) ==
    /\ result[r] = "none"
    /\ \A d \in Decisions : <<r, d>> \notin sending

\* A loop runs for a session, once its handler has subscribed.
LoopsHaveSessions ==
    \A r \in Runs :
        /\ handler[r] # "new" => session[r] \in Sessions
        /\ handler[r] \in {"new", "subscribe"} => agent[r] = "none"

\* A loop that has not asked is nowhere in the gate.
NotYetAsked ==
    \A r \in Runs : agent[r] \in {"none", "work"} =>
        Unasked(r) /\ \A s \in Sessions : pending[s] # r /\ newest[s] # r

\* A pending entry is that of the last to ask for its session, which waits for the
\* decision and has none on its way.
PendingWaits ==
    \A s \in Sessions : pending[s] # None =>
        /\ pending[s] = newest[s] /\ session[pending[s]] = s
        /\ agent[pending[s]] = "asking" /\ Unasked(pending[s])

\* A decision on its way is the only one for its Request, which waits or was cancelled.
SendingIsAwaited ==
    \A r \in Runs : \A d \in Decisions : <<r, d>> \in sending =>
        /\ result[r] = "none" /\ (agent[r] = "asking" \/ cancelled[r])
        /\ \A d2 \in Decisions : <<r, d2>> \in sending => d2 = d

GateInv ==
    /\ ControlTypes /\ LoopsHaveSessions /\ NotYetAsked /\ PendingWaits /\ SendingIsAwaited
    /\ AskCanBeAnswered

\* Run 0 is no run.
LEMMA NoneIsNoRun == None \notin Runs
BY ControlAssumption DEF None, Runs

\* The invariant of the gate holds at the start.
LEMMA GateInit == ControlInit => GateInv
<1> SUFFICES ASSUME ControlInit PROVE GateInv
  BY Zenon
<1>1. ControlTypes
  BY Zenon DEF ControlInit, ControlTypes
<1>2. LoopsHaveSessions /\ SendingIsAwaited
  BY Zenon DEF ControlInit, LoopsHaveSessions, SendingIsAwaited
<1>3. NotYetAsked
  BY Zenon, NoneIsNoRun DEF ControlInit, NotYetAsked, Unasked
<1>4. PendingWaits /\ AskCanBeAnswered
  BY Zenon DEF ControlInit, PendingWaits, AskCanBeAnswered
<1> QED
  BY Zenon, <1>1, <1>2, <1>3, <1>4 DEF GateInv

\* A step that leaves the gate, the loops' places and their sessions alone, and takes
\* back no cancellation, keeps the invariant.
LEMMA GateAside ==
    ASSUME GateInv, ControlTypes',
           UNCHANGED <<agent, pending, newest, result, sending>>, LoopsHaveSessions',
           \A r \in Runs : (cancelled[r] => cancelled'[r]) /\ (agent[r] # "none" => session'[r] = session[r])
    PROVE  GateInv'
<1>1. NotYetAsked'
  BY Zenon DEF GateInv, NotYetAsked, Unasked
<1>2. PendingWaits'
  BY DEF GateInv, ControlTypes, PendingWaits, Unasked
<1>3. SendingIsAwaited'
  BY Zenon DEF GateInv, SendingIsAwaited
<1>4. AskCanBeAnswered'
  BY Zenon DEF GateInv, ControlTypes, AskCanBeAnswered
<1> QED
  BY Zenon, <1>1, <1>2, <1>3, <1>4 DEF GateInv

\* The steps of the handler and of the clients leave the gate alone.
LEMMA HandlerGate ==
    ASSUME GateInv, NEW r \in Runs,
           \/ \E s \in Sessions : Enter(r, s)
           \/ RelayReturns(r) \/ SubscriptionEnds(r) \/ Leave(r) \/ ClientGone(r)
    PROVE  GateInv'
<1>1. CASE \E s \in Sessions : Enter(r, s)
  <2>1. PICK s \in Sessions : Enter(r, s)
    BY Zenon, <1>1
  <2>2. handler[r] = "new" /\ session' = [session EXCEPT ![r] = s]
        /\ \E h \in {"done", "subscribe"} : handler' = [handler EXCEPT ![r] = h]
    BY Zenon, <2>1 DEF Enter
  <2>3. running' \in [Sessions -> Runs \cup {None}]
    BY Zenon, <2>1 DEF Enter, GateInv, ControlTypes
  <2>4. ControlTypes' /\ LoopsHaveSessions'
    BY <2>1, <2>2, <2>3 DEF Enter, GateInv, ControlTypes, LoopsHaveSessions
  <2>5. \A q \in Runs : agent[q] # "none" => session'[q] = session[q]
    BY Zenon, <2>2 DEF GateInv, ControlTypes, LoopsHaveSessions
  <2> QED
    BY Zenon, <2>1, <2>4, <2>5, GateAside DEF Enter
<1>2. CASE RelayReturns(r) \/ SubscriptionEnds(r)
  <2>1. ControlTypes' /\ LoopsHaveSessions'
    BY <1>2 DEF RelayReturns, SubscriptionEnds, GateInv, ControlTypes, LoopsHaveSessions
  <2> QED
    BY Zenon, <1>2, <2>1, GateAside DEF RelayReturns, SubscriptionEnds
<1>3. CASE Leave(r)
  <2>1. ControlTypes' /\ LoopsHaveSessions' /\ \A q \in Runs : cancelled[q] => cancelled'[q]
    BY Zenon, <1>3 DEF Leave, GateInv, ControlTypes, LoopsHaveSessions
  <2> QED
    BY Zenon, <1>3, <2>1, GateAside DEF Leave
<1>4. CASE ClientGone(r)
  <2>1. ControlTypes' /\ LoopsHaveSessions' /\ \A q \in Runs : cancelled[q] => cancelled'[q]
    BY Zenon, <1>4 DEF ClientGone, GateInv, ControlTypes, LoopsHaveSessions
  <2> QED
    BY Zenon, <1>4, <2>1, GateAside DEF ClientGone
<1> QED
  BY Zenon, <1>1, <1>2, <1>3, <1>4

\* An interrupt cancels one loop and leaves the gate alone.
LEMMA InterruptGate ==
    ASSUME GateInv, NEW s \in Sessions, InterruptRun(s)
    PROVE  GateInv'
<1>1. ControlTypes' /\ LoopsHaveSessions' /\ \A q \in Runs : cancelled[q] => cancelled'[q]
  BY Zenon DEF InterruptRun, GateInv, ControlTypes, LoopsHaveSessions
<1> QED
  BY Zenon, <1>1, GateAside DEF InterruptRun

\* A loop starts, and has not asked.
LEMMA SubscribeGate ==
    ASSUME GateInv, NEW r \in Runs, SubscribeLog(r)
    PROVE  GateInv'
<1>1. handler[r] = "subscribe" /\ agent[r] = "none"
  BY Zenon DEF SubscribeLog, GateInv, LoopsHaveSessions
<1>2. UNCHANGED <<session, cancelled, running, pending, result, sending, newest>>
  BY Zenon DEF SubscribeLog
<1>3. \/ agent' = [agent EXCEPT ![r] = "work"] /\ handler' = [handler EXCEPT ![r] = "relay"]
      \/ agent' = agent /\ handler' = [handler EXCEPT ![r] = "return"]
  BY Zenon DEF SubscribeLog
<1>4. ControlTypes' /\ LoopsHaveSessions'
  BY Zenon, <1>1, <1>2, <1>3 DEF GateInv, ControlTypes, LoopsHaveSessions
<1>5. NotYetAsked'
  BY Zenon, <1>1, <1>2, <1>3 DEF GateInv, ControlTypes, NotYetAsked, Unasked
<1>6. PendingWaits'
  BY <1>1, <1>2, <1>3 DEF GateInv, ControlTypes, PendingWaits, Unasked
<1>7. SendingIsAwaited'
  BY Zenon, <1>1, <1>2, <1>3 DEF GateInv, ControlTypes, SendingIsAwaited
<1>8. AskCanBeAnswered'
  BY Zenon, <1>1, <1>2, <1>3 DEF GateInv, ControlTypes, AskCanBeAnswered
<1> QED
  BY Zenon, <1>4, <1>5, <1>6, <1>7, <1>8 DEF GateInv

\* A new entry takes the place of any other for the call.
LEMMA RequestsGate ==
    ASSUME GateInv, NEW r \in Runs, LoopRequests(r)
    PROVE  GateInv'
<1> DEFINE s == session[r]
<1>1. /\ agent[r] = "work" /\ agent' = [agent EXCEPT ![r] = "asking"]
      /\ pending' = [pending EXCEPT ![s] = r] /\ newest' = [newest EXCEPT ![s] = r]
      /\ UNCHANGED <<handler, session, cancelled, running, result, sending>>
  BY Zenon DEF LoopRequests
<1>2. s \in Sessions /\ Unasked(r) /\ \A z \in Sessions : pending[z] # r /\ newest[z] # r
  BY Zenon, <1>1 DEF GateInv, ControlTypes, LoopsHaveSessions, NotYetAsked
<1>3. ControlTypes' /\ LoopsHaveSessions'
  BY Zenon, <1>1, <1>2 DEF GateInv, ControlTypes, LoopsHaveSessions
<1>4. NotYetAsked'
  BY <1>1, <1>2 DEF GateInv, ControlTypes, NotYetAsked, Unasked
<1>5. PendingWaits'
  BY <1>1, <1>2, NoneIsNoRun DEF GateInv, ControlTypes, PendingWaits, Unasked
<1>6. SendingIsAwaited'
  BY Zenon, <1>1, <1>2 DEF GateInv, ControlTypes, SendingIsAwaited, Unasked
<1>7. AskCanBeAnswered'
  BY <1>1, <1>2 DEF GateInv, ControlTypes, AskCanBeAnswered
<1> QED
  BY <1>3, <1>4, <1>5, <1>6, <1>7 DEF GateInv

\* A Request takes its answer.
LEMMA AnsweredGate ==
    ASSUME GateInv, NEW r \in Runs, RequestAnswered(r)
    PROVE  GateInv'
<1>1. /\ agent[r] = "asking" /\ result[r] # "none"
      /\ agent' = [agent EXCEPT ![r] = "told"] /\ result' = [result EXCEPT ![r] = "none"]
      /\ UNCHANGED <<handler, session, cancelled, running, pending, sending, newest>>
  BY Zenon DEF RequestAnswered
<1>2. (\A d \in Decisions : <<r, d>> \notin sending) /\ (\A s \in Sessions : pending[s] # r)
  BY <1>1, NoneIsNoRun DEF GateInv, PendingWaits, SendingIsAwaited, Unasked
<1>3. ControlTypes' /\ LoopsHaveSessions'
  BY Zenon, <1>1 DEF GateInv, ControlTypes, LoopsHaveSessions
<1>4. NotYetAsked'
  BY Zenon, <1>1, <1>2 DEF GateInv, ControlTypes, NotYetAsked, Unasked
<1>5. PendingWaits'
  BY <1>1, <1>2 DEF GateInv, ControlTypes, PendingWaits, Unasked
<1>6. SendingIsAwaited'
  BY <1>1, <1>2 DEF GateInv, ControlTypes, SendingIsAwaited
<1>7. AskCanBeAnswered'
  BY Zenon, <1>1 DEF GateInv, ControlTypes, AskCanBeAnswered
<1> QED
  BY <1>3, <1>4, <1>5, <1>6, <1>7 DEF GateInv

\* A cancelled Request deletes its own entry and no other.
LEMMA CancelledGate ==
    ASSUME GateInv, NEW r \in Runs, RequestCancelled(r)
    PROVE  GateInv'
<1> DEFINE s == session[r]
<1>1. /\ agent[r] = "asking" /\ cancelled[r] /\ agent' = [agent EXCEPT ![r] = "told"]
      /\ pending' = [pending EXCEPT ![s] = IF @ = r THEN None ELSE @]
      /\ UNCHANGED <<handler, session, cancelled, running, result, sending, newest>>
  BY Zenon DEF RequestCancelled
<1>2. s \in Sessions /\ \A z \in Sessions : pending[z] = r => z = s
  BY <1>1, NoneIsNoRun DEF GateInv, ControlTypes, LoopsHaveSessions, PendingWaits
<1>3. \A z \in Sessions : pending'[z] = IF pending[z] = r THEN None ELSE pending[z]
  BY Zenon, <1>1, <1>2 DEF GateInv, ControlTypes
<1>4. ControlTypes' /\ LoopsHaveSessions'
  BY Zenon, <1>1, <1>2 DEF GateInv, ControlTypes, LoopsHaveSessions
<1>5. NotYetAsked'
  BY <1>1, <1>3, NoneIsNoRun DEF GateInv, ControlTypes, NotYetAsked, Unasked
<1>6. PendingWaits'
  BY <1>1, <1>3 DEF GateInv, ControlTypes, PendingWaits, Unasked
<1>7. SendingIsAwaited'
  BY Zenon, <1>1 DEF GateInv, ControlTypes, SendingIsAwaited
<1>8. AskCanBeAnswered'
  BY ZenonT(30), <1>1, <1>3 DEF GateInv, ControlTypes, AskCanBeAnswered
<1> QED
  BY <1>4, <1>5, <1>6, <1>7, <1>8 DEF GateInv

\* A loop that is over waits for nothing.
LEMMA OverGate ==
    ASSUME GateInv, NEW r \in Runs, LoopOver(r)
    PROVE  GateInv'
<1>1. /\ agent[r] \in {"work", "told"} /\ agent' = [agent EXCEPT ![r] = "over"]
      /\ UNCHANGED <<handler, session, cancelled, running, pending, result, sending, newest>>
  BY Zenon DEF LoopOver
<1>2. ControlTypes' /\ LoopsHaveSessions'
  BY Zenon, <1>1 DEF GateInv, ControlTypes, LoopsHaveSessions
<1>3. NotYetAsked'
  BY Zenon, <1>1 DEF GateInv, ControlTypes, NotYetAsked, Unasked
<1>4. PendingWaits'
  BY <1>1 DEF GateInv, ControlTypes, PendingWaits, Unasked
<1>5. SendingIsAwaited'
  BY Zenon, <1>1 DEF GateInv, ControlTypes, SendingIsAwaited
<1>6. AskCanBeAnswered'
  BY Zenon, <1>1 DEF GateInv, ControlTypes, AskCanBeAnswered
<1> QED
  BY <1>2, <1>3, <1>4, <1>5, <1>6 DEF GateInv

\* Resolve takes the entry out of the map, and its decision is on its way.
LEMMA TakesGate ==
    ASSUME GateInv, NEW s \in Sessions, NEW d \in Decisions, ResolveTakes(s, d)
    PROVE  GateInv'
<1> DEFINE p == pending[s]
<1>1. /\ p # None /\ sending' = sending \cup {<<p, d>>} /\ pending' = [pending EXCEPT ![s] = None]
      /\ UNCHANGED <<handler, session, agent, cancelled, running, result, newest>>
  BY Zenon DEF ResolveTakes
<1>2. /\ p \in Runs /\ p = newest[s] /\ agent[p] = "asking" /\ Unasked(p)
      /\ \A z \in Sessions : pending[z] = p => z = s
  BY <1>1 DEF GateInv, ControlTypes, PendingWaits
<1> HIDE DEF p
<1>3. ControlTypes' /\ LoopsHaveSessions'
  BY <1>1, <1>2 DEF GateInv, ControlTypes, LoopsHaveSessions
<1>4. NotYetAsked'
  BY <1>1, <1>2, NoneIsNoRun DEF GateInv, ControlTypes, NotYetAsked, Unasked
<1>5. PendingWaits'
  BY <1>1, <1>2 DEF GateInv, ControlTypes, PendingWaits, Unasked
<1>6. SendingIsAwaited'
  BY Zenon, <1>1, <1>2 DEF GateInv, ControlTypes, SendingIsAwaited, Unasked
<1>7. AskCanBeAnswered'
  BY Zenon, <1>1, <1>2 DEF GateInv, ControlTypes, AskCanBeAnswered, p
<1> QED
  BY <1>3, <1>4, <1>5, <1>6, <1>7 DEF GateInv

\* The decision is on the channel of its Request.
LEMMA SendsGate ==
    ASSUME GateInv, NEW r \in Runs, NEW d \in Decisions, ResolveSends(r, d)
    PROVE  GateInv' /\ DecidesOnce
<1>1. /\ <<r, d>> \in sending /\ result' = [result EXCEPT ![r] = d] /\ sending' = sending \ {<<r, d>>}
      /\ UNCHANGED <<handler, session, agent, cancelled, running, pending, newest>>
  BY Zenon DEF ResolveSends
<1>2. /\ result[r] = "none" /\ (agent[r] = "asking" \/ cancelled[r]) /\ d # "none"
      /\ \A e \in Decisions : <<r, e>> \in sending => e = d
      /\ \A s \in Sessions : pending[s] # r
      /\ agent[r] \notin {"none", "work"}
  BY <1>1, ControlAssumption, NoneIsNoRun DEF GateInv, SendingIsAwaited, PendingWaits, NotYetAsked, Unasked
<1>3. ControlTypes' /\ LoopsHaveSessions'
  BY Zenon, <1>1 DEF GateInv, ControlTypes, LoopsHaveSessions
<1>4. NotYetAsked'
  BY <1>1, <1>2 DEF GateInv, ControlTypes, NotYetAsked, Unasked
<1>5. PendingWaits'
  BY <1>1, <1>2 DEF GateInv, ControlTypes, PendingWaits, Unasked
<1>6. SendingIsAwaited'
  BY <1>1, <1>2 DEF GateInv, ControlTypes, SendingIsAwaited
<1>7. AskCanBeAnswered'
  BY Zenon, <1>1, <1>2 DEF GateInv, ControlTypes, AskCanBeAnswered
<1>8. DecidesOnce
  BY <1>1, <1>2 DEF GateInv, ControlTypes, DecidesOnce
<1> QED
  BY Zenon, <1>3, <1>4, <1>5, <1>6, <1>7, <1>8 DEF GateInv

\* Every step keeps the invariant of the gate, and decides a Request at most once.
LEMMA GateNext == GateInv /\ [ControlNext]_controlVars => GateInv' /\ DecidesOnce
<1> SUFFICES ASSUME GateInv, [ControlNext]_controlVars PROVE GateInv' /\ DecidesOnce
  BY Zenon
<1>1. ASSUME UNCHANGED result PROVE DecidesOnce
  BY Zenon, <1>1 DEF DecidesOnce
<1>2. CASE UNCHANGED controlVars
  <2>1. UNCHANGED <<handler, session, agent, cancelled, running, pending, result, sending, newest>>
    BY Zenon, <1>2 DEF controlVars
  <2>2. ControlTypes' /\ LoopsHaveSessions'
    BY Zenon, <2>1 DEF GateInv, ControlTypes, LoopsHaveSessions
  <2> QED
    BY <1>1, <2>1, <2>2, GateAside
<1>3. ASSUME NEW r \in Runs,
             \/ \E s \in Sessions : Enter(r, s)
             \/ RelayReturns(r) \/ SubscriptionEnds(r) \/ Leave(r) \/ ClientGone(r)
      PROVE  GateInv' /\ DecidesOnce
  <2>1. UNCHANGED result
    BY Zenon, <1>3 DEF Enter, RelayReturns, SubscriptionEnds, Leave, ClientGone
  <2> QED
    BY <1>1, <1>3, <2>1, HandlerGate
<1>4. ASSUME NEW r \in Runs, SubscribeLog(r) \/ LoopRequests(r) \/ RequestCancelled(r) \/ LoopOver(r)
      PROVE  GateInv' /\ DecidesOnce
  <2>1. UNCHANGED result
    BY Zenon, <1>4 DEF SubscribeLog, LoopRequests, RequestCancelled, LoopOver
  <2> QED
    BY <1>1, <1>4, <2>1, SubscribeGate, RequestsGate, CancelledGate, OverGate
<1>5. ASSUME NEW r \in Runs, RequestAnswered(r)
      PROVE  GateInv' /\ DecidesOnce
  <2>1. result' = [result EXCEPT ![r] = "none"]
    BY Zenon, <1>5 DEF RequestAnswered
  <2>2. DecidesOnce
    BY Zenon, <2>1 DEF GateInv, ControlTypes, DecidesOnce
  <2> QED
    BY Zenon, <1>5, <2>2, AnsweredGate
<1>6. ASSUME NEW s \in Sessions, InterruptRun(s) \/ \E d \in Decisions : ResolveTakes(s, d)
      PROVE  GateInv' /\ DecidesOnce
  <2>1. UNCHANGED result
    BY Zenon, <1>6 DEF InterruptRun, ResolveTakes
  <2> QED
    BY Zenon, <1>1, <1>6, <2>1, InterruptGate, TakesGate
<1> QED
  BY <1>2, <1>3, <1>4, <1>5, <1>6, SendsGate DEF ControlNext, HandlerStep, LoopStep

\* An approval reaches the Request it is for, and that one only, for any number of
\* runs and sessions.
THEOREM ApprovalsAlwaysArrive == ControlSpec => ApprovalsArrive
<1>1. GateInv => AskCanBeAnswered
  BY Zenon DEF GateInv
<1> QED
  BY <1>1, GateInit, GateNext, PTL DEF ControlSpec, ApprovalsArrive

-----------------------------------------------------------------------------
(* The slots of the tenant. *)

Active == {r \in Runs : handler[r] \in {"subscribe", "relay", "return"}}

\* A step that leaves the active handlers and the count alone keeps the slots exact.
LEMMA SlotsAside ==
    ASSUME SlotsAreExact, Active' = Active, inflight' = inflight
    PROVE  SlotsAreExact'
BY Zenon DEF SlotsAreExact, Active

\* The active handlers are finitely many.
LEMMA ActiveFinite == IsFiniteSet(Active) /\ Cardinality(Active) \in Nat
<1>1. IsFiniteSet(Runs)
  BY ControlAssumption, FS_Interval DEF Runs
<1>2. IsFiniteSet(Active)
  BY Zenon, <1>1, FS_Subset DEF Active
<1> QED
  BY Zenon, <1>2, FS_CardinalityType

\* Entering takes a slot, when there is one.
LEMMA EnterSlots ==
    ASSUME GateInv, SlotsAreExact, NEW r \in Runs, NEW s \in Sessions, Enter(r, s)
    PROVE  SlotsAreExact'
<1>1. handler[r] = "new" /\ inflight = Cardinality(Active) /\ inflight \in Nat /\ inflight <= MaxInFlight
  BY Zenon, ActiveFinite DEF Enter, SlotsAreExact, Active
<1>2. CASE inflight >= MaxInFlight
  <2>1. handler' = [handler EXCEPT ![r] = "done"] /\ inflight' = inflight
    BY Zenon, <1>2 DEF Enter
  <2>2. Active' = Active
    BY Zenon, <1>1, <2>1 DEF Active, GateInv, ControlTypes
  <2> QED
    BY Zenon, <2>1, <2>2, SlotsAside
<1>3. CASE ~ (inflight >= MaxInFlight)
  <2>1. handler' = [handler EXCEPT ![r] = "subscribe"] /\ inflight' = inflight + 1
    BY Zenon, <1>3 DEF Enter
  <2>2. Active' = Active \cup {r} /\ r \notin Active
    BY Zenon, <1>1, <2>1 DEF Active, GateInv, ControlTypes
  <2>3. Cardinality(Active') = Cardinality(Active) + 1
    BY Zenon, <2>2, ActiveFinite, FS_AddElement
  <2>4. inflight' <= MaxInFlight
    BY <1>1, <1>3, <2>1, ControlAssumption
  <2> QED
    BY Zenon, <1>1, <2>1, <2>3, <2>4 DEF SlotsAreExact, Active
<1> QED
  BY Zenon, <1>2, <1>3

\* Leaving gives the slot back.
LEMMA LeaveSlots ==
    ASSUME GateInv, SlotsAreExact, NEW r \in Runs, Leave(r)
    PROVE  SlotsAreExact'
<1>1. handler[r] = "return" /\ handler' = [handler EXCEPT ![r] = "done"]
      /\ inflight' = IF inflight > 0 THEN inflight - 1 ELSE 0
  BY Zenon DEF Leave
<1>2. Active' = Active \ {r} /\ r \in Active
  BY Zenon, <1>1 DEF Active, GateInv, ControlTypes
<1>3. Cardinality(Active') = Cardinality(Active) - 1 /\ Cardinality(Active') \in Nat
  BY Zenon, <1>2, ActiveFinite, FS_RemoveElement, FS_CardinalityType
<1>4. inflight = Cardinality(Active) /\ inflight <= MaxInFlight
  BY Zenon DEF SlotsAreExact, Active
<1>5. inflight' = Cardinality(Active') /\ inflight' <= MaxInFlight
  BY <1>1, <1>3, <1>4, ActiveFinite, ControlAssumption
<1> QED
  BY Zenon, <1>5 DEF SlotsAreExact, Active

\* Every step keeps the slots exact.
LEMMA SlotsNext == GateInv /\ SlotsAreExact /\ [ControlNext]_controlVars => SlotsAreExact'
<1> SUFFICES ASSUME GateInv, SlotsAreExact, [ControlNext]_controlVars PROVE SlotsAreExact'
  BY Zenon
<1>1. ASSUME UNCHANGED <<handler, inflight>> PROVE SlotsAreExact'
  BY Zenon, <1>1 DEF SlotsAreExact
<1>2. ASSUME NEW r \in Runs, SubscribeLog(r) \/ RelayReturns(r) PROVE SlotsAreExact'
  <2>1. /\ handler[r] \in {"subscribe", "relay"} /\ inflight' = inflight
        /\ \E h \in {"relay", "return"} : handler' = [handler EXCEPT ![r] = h]
    BY Zenon, <1>2 DEF SubscribeLog, RelayReturns
  <2>2. Active' = Active
    BY Zenon, <2>1 DEF Active, GateInv, ControlTypes
  <2> QED
    BY Zenon, <2>1, <2>2, SlotsAside
<1>3. ASSUME NEW r \in Runs,
             \/ SubscriptionEnds(r) \/ ClientGone(r) \/ LoopRequests(r) \/ LoopStep(r)
             \/ \E d \in Decisions : ResolveSends(r, d)
      PROVE  SlotsAreExact'
  <2>1. UNCHANGED <<handler, inflight>>
    BY Zenon, <1>3 DEF SubscriptionEnds, ClientGone, LoopRequests, LoopStep, RequestAnswered, RequestCancelled,
                LoopOver, ResolveSends
  <2> QED
    BY Zenon, <1>1, <2>1
<1>4. ASSUME NEW s \in Sessions, InterruptRun(s) \/ \E d \in Decisions : ResolveTakes(s, d)
      PROVE  SlotsAreExact'
  <2>1. UNCHANGED <<handler, inflight>>
    BY Zenon, <1>4 DEF InterruptRun, ResolveTakes
  <2> QED
    BY Zenon, <1>1, <2>1
<1>5. CASE UNCHANGED controlVars
  BY Zenon, <1>1, <1>5 DEF controlVars
<1> QED
  BY Zenon, <1>2, <1>3, <1>4, <1>5, EnterSlots, LeaveSlots DEF ControlNext, HandlerStep

\* The slots taken are those of the handlers that are past acquireSlot and have not
\* returned, and never more than the cap, for any number of calls.
THEOREM SlotsStayExact == ControlSpec => []SlotsAreExact
<1>1. ControlInit => SlotsAreExact
  <2> SUFFICES ASSUME ControlInit PROVE SlotsAreExact
    OBVIOUS
  <2>1. Active = {} /\ inflight = 0
    BY Zenon DEF ControlInit, Active
  <2> QED
    BY <2>1, FS_EmptySet, ControlAssumption DEF SlotsAreExact, Active
<1> QED
  BY <1>1, GateInit, GateNext, SlotsNext, PTL DEF ControlSpec

-----------------------------------------------------------------------------
(***************************************************************************)
(* Nothing passes the gate that was not cleared, for any rules, hooks,     *)
(* modes and calls.                                                        *)
(*                                                                         *)
(* What cleared a call is decided over several steps, by the hooks, the    *)
(* rules and the answer of a user. CallInv keeps at each of them what the  *)
(* earlier ones have found.                                                *)
(***************************************************************************)

(* What lets a tool call through. *)

\* The hooks before the h-th that are for the event.
HooksBefore(h) == {i \in 1..(h - 1) : SpecMatchesEvent(i)}

\* No hook has blocked, and those passed over were not for the event.
HooksCleared ==
    /\ Len(ran) = Cardinality(HooksBefore(gate.hook))
    /\ \A i \in DOMAIN ran : ran[i] \notin {"stop", "exit"}

CallInv ==
    /\ tainted \in BOOLEAN
    /\ gate \in [call : ToolArgs, hook : 1..(Len(HookSpecs) + 1),
                 pc : {"hooks", "asking", "passed", "refused", "error"}]
    /\ ran \in Seq(HookOutputs) /\ decided \in Seq({"allow", "deny", "allowed", "denied"})
    /\ gate.pc \in {"hooks", "asking", "passed"} => HooksCleared
    /\ gate.pc \in {"asking", "passed"} =>
          gate.hook = Len(HookSpecs) + 1 /\ ~ Matched(ruleSet, "deny", gate.call)
    /\ gate.pc = "passed" /\ tainted /\ IsExternal(gate.call) => decided = <<"allowed">>
    /\ Len(decided) = IF gate.pc \in {"passed", "refused"} THEN 1 ELSE 0

\* The rules let through, or pass on to the human, only what no deny rule matches; in a
\* session with untrusted content they let nothing through that leaves the network.
LEMMA EvaluateClears ==
    ASSUME NEW rules, NEW call \in ToolArgs, NEW mode, NEW taint \in BOOLEAN
    PROVE  /\ Evaluate(rules, call, mode, taint) \in {"deny", "allow", "ask", "error"}
           /\ Evaluate(rules, call, mode, taint) \in {"allow", "ask"} => ~ Matched(rules, "deny", call)
           /\ Evaluate(rules, call, mode, taint) = "allow" /\ taint => ~ IsExternal(call)
<1>1. CASE Matched(rules, "deny", call)
  <2>1. Evaluate(rules, call, mode, taint) = "deny"
    BY Zenon, <1>1 DEF Evaluate
  <2> QED
    BY Zenon, <2>1
<1>2. CASE ~ Matched(rules, "deny", call) /\ mode = "bypass"
  <2>1. Evaluate(rules, call, mode, taint) = IF taint THEN "error" ELSE "allow"
    BY Zenon, <1>2 DEF Evaluate
  <2> QED
    BY Zenon, <1>2, <2>1
<1>3. CASE ~ Matched(rules, "deny", call) /\ mode = "accept_edits" /\ call.tool \in EditTools
  <2>1. Evaluate(rules, call, mode, taint) = "allow"
    BY Zenon, <1>3 DEF Evaluate
  <2> QED
    BY Zenon, <1>3, <2>1, PermissionAssumption DEF IsExternal
<1>4. CASE ~ Matched(rules, "deny", call) /\ mode = "plan" /\ call.mutating
  <2>1. Evaluate(rules, call, mode, taint) = "ask"
    BY Zenon, <1>4 DEF Evaluate
  <2> QED
    BY Zenon, <1>4, <2>1
<1>5. CASE /\ ~ Matched(rules, "deny", call) /\ mode # "bypass"
           /\ ~ (mode = "accept_edits" /\ call.tool \in EditTools) /\ ~ (mode = "plan" /\ call.mutating)
  <2>1. Evaluate(rules, call, mode, taint)
           = IF Matched(rules, "allow", call) /\ ~(IsExternal(call) /\ taint) THEN "allow" ELSE "ask"
    BY Zenon, <1>5 DEF Evaluate
  <2> QED
    BY Zenon, <1>5, <2>1
<1> QED
  BY Zenon, <1>1, <1>2, <1>3, <1>4, <1>5

\* The call is at the first hook.
LEMMA CallInit == PermissionInit => CallInv
<1> SUFFICES ASSUME PermissionInit PROVE CallInv
  OBVIOUS
<1>1. PICK call \in ToolArgs : gate = [call |-> call, hook |-> 1, pc |-> "hooks"]
  BY Zenon DEF PermissionInit
<1>2. ran = << >> /\ decided = << >> /\ tainted \in BOOLEAN
  BY Zenon DEF PermissionInit
<1>3. HooksBefore(1) = {}
  BY DEF HooksBefore
<1>4. HooksCleared
  BY <1>1, <1>2, <1>3, FS_EmptySet DEF HooksCleared
<1> QED
  BY <1>1, <1>2, <1>4, PermissionAssumption DEF CallInv

\* One more hook for the event is one more to run.
LEMMA HooksCount ==
    ASSUME NEW h \in Nat \ {0}
    PROVE  /\ Cardinality(HooksBefore(h)) \in Nat
           /\ ~ SpecMatchesEvent(h) => HooksBefore(h + 1) = HooksBefore(h)
           /\ SpecMatchesEvent(h) => Cardinality(HooksBefore(h + 1)) = Cardinality(HooksBefore(h)) + 1
<1>1. IsFiniteSet(HooksBefore(h))
  <2>1. IsFiniteSet(1..(h - 1))
    BY FS_Interval
  <2> QED
    BY Zenon, <2>1, FS_Subset DEF HooksBefore
<1>2. 1..(h + 1 - 1) = (1..(h - 1)) \cup {h} /\ h \notin 1..(h - 1)
  OBVIOUS
<1>3. ~ SpecMatchesEvent(h) => HooksBefore(h + 1) = HooksBefore(h)
  BY <1>2 DEF HooksBefore
<1>4. h \notin HooksBefore(h) /\ (SpecMatchesEvent(h) => HooksBefore(h + 1) = HooksBefore(h) \cup {h})
  BY <1>2 DEF HooksBefore
<1> QED
  BY Zenon, <1>1, <1>3, <1>4, FS_AddElement, FS_CardinalityType

\* A hook runs, or is passed over.
LEMMA HookStep ==
    ASSUME CallInv, HookSkipped \/ \E out \in HookOutputs : HookRuns(out)
    PROVE  CallInv'
<1>1. /\ gate.pc = "hooks" /\ gate.hook \in Nat \ {0} /\ gate.hook <= Len(HookSpecs)
      /\ HooksCleared /\ Len(decided) = 0 /\ decided = << >> /\ Len(ran) \in Nat
  <2>1. gate.pc = "hooks" /\ gate.hook <= Len(HookSpecs)
    BY Zenon DEF HookSkipped, HookRuns
  <2> QED
    BY <2>1, PermissionAssumption DEF CallInv
<1>2. gate.hook + 1 \in 1..(Len(HookSpecs) + 1)
  BY <1>1, PermissionAssumption
<1>3. CASE HookSkipped
  <2>1. gate' = [gate EXCEPT !.hook = @ + 1] /\ ~SpecMatchesEvent(gate.hook) /\ UNCHANGED <<ruleSet, tainted, ran, decided>>
    BY Zenon, <1>3 DEF HookSkipped
  <2>2. gate'.pc = "hooks" /\ gate'.hook = gate.hook + 1 /\ gate'.call = gate.call
    BY Zenon, <1>1, <2>1 DEF CallInv
  <2>3. HooksCleared'
    BY Zenon, <1>1, <2>1, <2>2, HooksCount DEF HooksCleared, HooksBefore, SpecMatchesEvent
  <2> QED
    BY <1>1, <1>2, <2>1, <2>2, <2>3 DEF CallInv
<1>4. ASSUME NEW out \in HookOutputs, HookRuns(out) PROVE CallInv'
  <2>1. /\ ran' = Append(ran, out) /\ SpecMatchesEvent(gate.hook) /\ UNCHANGED <<ruleSet, tainted>>
        /\ IF ParseResult(out) THEN gate' = [gate EXCEPT !.hook = @ + 1] /\ UNCHANGED decided
           ELSE Moves("refused") /\ Decides("deny")
    BY Zenon, <1>4 DEF HookRuns
  <2>2. ran' \in Seq(HookOutputs) /\ Len(ran') = Len(ran) + 1 /\ DOMAIN ran' = 1..(Len(ran) + 1)
        /\ DOMAIN ran = 1..Len(ran)
        /\ (\A i \in DOMAIN ran : ran'[i] = ran[i]) /\ ran'[Len(ran) + 1] = out
    BY <2>1 DEF CallInv
  <2>3. CASE ParseResult(out)
    <3>1. gate'.pc = "hooks" /\ gate'.hook = gate.hook + 1 /\ gate'.call = gate.call /\ decided' = decided
      BY Zenon, <1>1, <2>1, <2>3 DEF CallInv
    <3>2. out \notin {"stop", "exit"}
      BY Zenon, <2>3 DEF ParseResult
    <3>3. \A i \in DOMAIN ran' : ran'[i] \notin {"stop", "exit"}
      BY <1>1, <2>2, <3>2 DEF HooksCleared
    <3>4. HooksCleared'
      BY ZenonT(30), <1>1, <2>1, <2>2, <3>1, <3>3, HooksCount DEF HooksCleared, HooksBefore, SpecMatchesEvent
    <3>5. gate' \in [call : ToolArgs, hook : 1..(Len(HookSpecs) + 1), pc : {"hooks", "asking", "passed", "refused", "error"}]
      BY Zenon, <1>1, <1>2, <2>1, <2>3 DEF CallInv
    <3> QED
      BY SMTT(30), <1>1, <2>1, <2>2, <3>1, <3>4, <3>5 DEF CallInv
  <2>4. CASE ~ ParseResult(out)
    <3>1. gate' = [gate EXCEPT !.pc = "refused"] /\ decided' = Append(decided, "deny")
      BY Zenon, <2>1, <2>4 DEF Moves, Decides
    <3>2. gate'.pc = "refused" /\ gate' \in [call : ToolArgs, hook : 1..(Len(HookSpecs) + 1), pc : {"hooks", "asking", "passed", "refused", "error"}]
      BY Zenon, <3>1 DEF CallInv
    <3>3. decided' \in Seq({"allow", "deny", "allowed", "denied"}) /\ Len(decided') = 1
      BY <1>1, <3>1 DEF CallInv
    <3> QED
      BY Zenon, <2>1, <2>2, <3>2, <3>3 DEF CallInv
  <2> QED
    BY Zenon, <2>3, <2>4
<1> QED
  BY Zenon, <1>3, <1>4

\* The call leaves where it is for pc, with or without a decision.
LEMMA CallMoves ==
    ASSUME CallInv, gate.pc \in {"hooks", "asking"}, UNCHANGED <<ruleSet, tainted, ran>>,
           NEW pc \in {"asking", "passed", "refused", "error"}, Moves(pc),
           \/ pc \in {"asking", "error"} /\ UNCHANGED decided
           \/ pc \in {"passed", "refused"} /\ \E d \in {"allow", "deny", "allowed", "denied"} : Decides(d),
           pc \in {"asking", "passed"} =>
               gate.hook = Len(HookSpecs) + 1 /\ ~ Matched(ruleSet, "deny", gate.call),
           pc = "passed" /\ tainted /\ IsExternal(gate.call) => Decides("allowed")
    PROVE  CallInv'
<1>1. gate' = [gate EXCEPT !.pc = pc]
  BY Zenon DEF Moves
<1>2. /\ gate'.pc = pc /\ gate'.hook = gate.hook /\ gate'.call = gate.call
      /\ gate' \in [call : ToolArgs, hook : 1..(Len(HookSpecs) + 1), pc : {"hooks", "asking", "passed", "refused", "error"}]
  BY Zenon, <1>1 DEF CallInv
<1>3. decided = << >> /\ HooksCleared
  BY DEF CallInv
<1>4. HooksCleared'
  BY Zenon, <1>2, <1>3 DEF HooksCleared, HooksBefore, SpecMatchesEvent
<1>5. CASE pc \in {"asking", "error"}
  BY Zenon, <1>2, <1>3, <1>4, <1>5 DEF CallInv, Matched, RuleMatches, IsExternal
<1>6. CASE pc \in {"passed", "refused"}
  <2>1. PICK d \in {"allow", "deny", "allowed", "denied"} : decided' = <<d>>
    BY <1>3, <1>6 DEF Decides
  <2>2. pc = "passed" /\ tainted /\ IsExternal(gate.call) => decided' = <<"allowed">>
    BY <1>3 DEF Decides
  <2>3. decided' \in Seq({"allow", "deny", "allowed", "denied"}) /\ Len(decided') = 1
    BY <2>1
  <2>4. Matched(ruleSet', "deny", gate'.call) = Matched(ruleSet, "deny", gate.call)
    BY Zenon, <1>2
  <2>5. IsExternal(gate'.call) = IsExternal(gate.call)
    BY Zenon, <1>2
  <2> QED
    BY SMTT(30), <1>2, <1>4, <1>6, <2>2, <2>3, <2>4, <2>5 DEF CallInv
<1> QED
  BY Zenon, <1>5, <1>6

\* Every step of the gate keeps the invariant.
LEMMA CallNext == CallInv /\ [PermissionNext]_gateVars => CallInv'
<1> SUFFICES ASSUME CallInv, [PermissionNext]_gateVars PROVE CallInv'
  BY Zenon
<1>1. CASE HookSkipped \/ \E out \in HookOutputs : HookRuns(out)
  BY Zenon, <1>1, HookStep DEF HookSkipped, HookRuns
<1>2. CASE HookFails
  BY Zenon, <1>2, CallMoves DEF HookFails
<1>3. CASE PolicyDecides
  <2> DEFINE outcome == Evaluate(ruleSet, gate.call, gateMode, tainted)
  <2>1. /\ gate.pc = "hooks" /\ gate.hook > Len(HookSpecs) /\ UNCHANGED <<ruleSet, tainted, ran>>
        /\ CASE outcome = "deny" -> Moves("refused") /\ Decides("deny")
             [] outcome = "allow" -> Moves("passed") /\ Decides("allow")
             [] outcome = "ask" -> Moves("asking") /\ UNCHANGED decided
             [] outcome = "error" -> Moves("error") /\ UNCHANGED decided
    BY Zenon, <1>3 DEF PolicyDecides
  <2>2. gate.hook = Len(HookSpecs) + 1 /\ gate.call \in ToolArgs
    BY <2>1, PermissionAssumption DEF CallInv
  <2>3. /\ outcome \in {"deny", "allow", "ask", "error"}
        /\ outcome \in {"allow", "ask"} => ~ Matched(ruleSet, "deny", gate.call)
        /\ outcome = "allow" /\ tainted => ~ IsExternal(gate.call)
    <3>1. tainted \in BOOLEAN
      BY Zenon DEF CallInv
    <3> QED
      BY Zenon, <2>2, <3>1, EvaluateClears
  <2> HIDE DEF outcome
  <2>4. CASE outcome = "deny"
    BY Zenon, <2>1, <2>4, CallMoves
  <2>5. CASE outcome = "allow"
    BY Zenon, <2>1, <2>2, <2>3, <2>5, CallMoves
  <2>6. CASE outcome = "ask"
    BY Zenon, <2>1, <2>2, <2>3, <2>6, CallMoves
  <2>7. CASE outcome = "error"
    BY Zenon, <2>1, <2>7, CallMoves
  <2> QED
    BY <2>1, <2>3, <2>4, <2>5, <2>6, <2>7
<1>4. ASSUME NEW resolution \in {"allowed", "denied", "cancelled"}, AskAnswered(resolution)
      PROVE  CallInv'
  <2>1. gate.pc = "asking" /\ UNCHANGED <<ruleSet, tainted, ran>>
    BY Zenon, <1>4 DEF AskAnswered
  <2>2. gate.hook = Len(HookSpecs) + 1 /\ ~ Matched(ruleSet, "deny", gate.call)
    BY Zenon, <2>1 DEF CallInv
  <2>3. CASE resolution = "cancelled"
    BY Zenon, <1>4, <2>1, <2>3, CallMoves DEF AskAnswered
  <2>4. CASE resolution = "allowed"
    <3>1. Moves("passed") /\ Decides("allowed")
      BY Zenon, <1>4, <2>4 DEF AskAnswered
    <3> QED
      BY Zenon, <2>1, <2>2, <3>1, CallMoves
  <2>5. CASE resolution = "denied"
    <3>1. Moves("refused") /\ Decides("denied")
      BY Zenon, <1>4, <2>5 DEF AskAnswered
    <3> QED
      BY Zenon, <2>1, <3>1, CallMoves
  <2> QED
    BY Zenon, <2>3, <2>4, <2>5
<1>5. CASE UNCHANGED gateVars
  BY Zenon, <1>5 DEF gateVars, CallInv, HooksCleared, HooksBefore, SpecMatchesEvent, Matched, RuleMatches, IsExternal
<1> QED
  BY <1>1, <1>2, <1>3, <1>4, <1>5 DEF PermissionNext

\* A call that passes was let through by everyone concerned, for any hooks, rules and
\* calls.
THEOREM PassedIsCleared == PermissionSpec => []PassedMeansCleared
<1>1. CallInv => PassedMeansCleared
  <2> SUFFICES ASSUME CallInv PROVE PassedMeansCleared
    BY Zenon
  <2>1. Len(HookSpecs) + 1 - 1 = Len(HookSpecs)
    BY PermissionAssumption
  <2>2. HooksBefore(Len(HookSpecs) + 1) = {i \in DOMAIN HookSpecs : SpecMatchesEvent(i)}
    BY <2>1, PermissionAssumption DEF HooksBefore
  <2> QED
    BY Zenon, <2>2 DEF CallInv, HooksCleared, PassedMeansCleared, Matched
<1> QED
  BY <1>1, CallInit, CallNext, PTL DEF PermissionSpec

-----------------------------------------------------------------------------
(***************************************************************************)
(* The cost roll-up is the fold of the log, for any sessions, models,      *)
(* batch size and number of failures.                                      *)
(*                                                                         *)
(* A row is charged to the model its turn started with, which the          *)
(* projection finds in the batch at hand, in the map it keeps in memory or *)
(* in the table of runs. CostInv says that each of them knows the starts   *)
(* up to the cursor, except for the turns that are blurred.                *)
(***************************************************************************)

(* The greatest of a set of numbers. *)

\* A set of naturals that is not empty has a least element.
LEMMA MinIsIn ==
    ASSUME NEW S, S \subseteq Nat, S # {}
    PROVE  Min(S) \in S /\ \A x \in S : Min(S) <= x
<1>1. PICK m \in S : \A y \in S : ~ (<<y, m>> \in OpToRel(<, Nat))
  BY Zenon, NatLessThanWellFounded, WFMin
<1>2. \A y \in S : m <= y
  <2> TAKE y \in S
  <2>1. <<y, m>> \in Nat \X Nat /\ <<y, m>> \notin OpToRel(<, Nat)
    BY Zenon, <1>1
  <2>2. ~ (y < m)
    BY Zenon, <2>1 DEF OpToRel
  <2> QED
    BY <2>2
<1> QED
  BY Zenon, <1>2 DEF Min

\* A bounded set of naturals that is not empty has a greatest element.
LEMMA MaxIsIn ==
    ASSUME NEW S, NEW n \in Nat, S \subseteq 0..n, S # {}
    PROVE  Max(S) \in S /\ \A x \in S : x <= Max(S)
<1> DEFINE T == {k \in Nat : n - k \in S}
<1>1. T \subseteq Nat /\ T # {}
  <2>1. PICK x \in S : TRUE
    BY Zenon
  <2>2. n - x \in Nat /\ n - (n - x) = x
    BY <2>1
  <2> QED
    BY Zenon, <2>1, <2>2
<1> DEFINE m == Min(T)
<1>2. m \in T /\ \A x \in T : m <= x
  BY Zenon, <1>1, MinIsIn
<1>3. n - m \in S /\ m \in Nat
  BY Zenon, <1>2
<1>4. \A y \in S : n - m >= y
  <2> TAKE y \in S
  <2>1. n - y \in Nat /\ n - (n - y) = y /\ y \in Nat
    OBVIOUS
  <2>2. n - y \in T
    BY Zenon, <2>1
  <2>3. m <= n - y
    BY Zenon, <2>2, <1>2
  <2> QED
    BY <2>1, <2>3, <1>3
<1> QED
  BY Zenon, <1>3, <1>4 DEF Max

-----------------------------------------------------------------------------
(* Which model a turn's cost is charged to. *)

Starts(g) == feed[g].type = "TurnStarted"

\* The turn of an event that ends one is the last that started before it in the session.
EndsLast(g) ==
    LET t == feed[g].turn
    IN  \/ /\ t = 0
           /\ \A h \in DOMAIN feed : h < g /\ feed[h].session = feed[g].session => ~ Starts(h)
        \/ /\ t \in DOMAIN feed /\ t < g /\ Starts(t) /\ feed[t].session = feed[g].session
           /\ \A h \in DOMAIN feed : h < g /\ feed[h].session = feed[g].session /\ Starts(h) => h <= t

\* The model that turn was started with.
OwnModel(g) == IF feed[g].turn = 0 THEN "" ELSE feed[feed[g].turn].model

CostEvents == [session : CostSessions, type : {"TurnStarted", "TurnEnded"}, turn : Nat, model : Models \cup {""}]

FeedOK ==
    /\ feed \in Seq(CostEvents)
    /\ \A g \in DOMAIN feed : IF Starts(g) THEN feed[g].turn = g ELSE EndsLast(g)

MapOK ==
    \A k \in DOMAIN modelByTurn :
        /\ k[2] \in DOMAIN feed /\ Starts(k[2]) /\ modelByTurn[k] = feed[k[2]].model

RowsOK ==
    /\ blurred \subseteq DOMAIN costRows /\ DOMAIN costRows \subseteq DOMAIN feed
    /\ \A g \in DOMAIN costRows :
          /\ ~ Starts(g)
          /\ costRows[g] = IF g \in blurred THEN "" ELSE OwnModel(g)

\* Every row up to n is written.
WrittenTo(n) == \A g \in 1..n : ~ Starts(g) => g \in DOMAIN costRows

CursorOK ==
    /\ position \in Nat /\ position <= Len(feed)
    /\ projector \in [step : {"poll", "write"}, to : Nat, at : Nat]
    /\ WrittenTo(position)
    /\ projector.step = "write" =>
          /\ position < projector.at /\ projector.at <= projector.to + 1 /\ projector.to <= Len(feed)
          /\ WrittenTo(projector.at - 1)

CostInv == FeedOK /\ MapOK /\ RowsOK /\ CursorOK

\* There is nothing yet.
LEMMA CostStart == CostInit => CostInv
<1> SUFFICES ASSUME CostInit PROVE CostInv
  OBVIOUS
<1>1. FeedOK
  BY DEF CostInit, FeedOK
<1>2. MapOK /\ RowsOK
  BY DEF CostInit, MapOK, RowsOK
<1>3. CursorOK
  BY DEF CostInit, CursorOK, Resting, WrittenTo
<1> QED
  BY Zenon, <1>1, <1>2, <1>3 DEF CostInv

\* What the invariant says of an event that ends a turn.
LEMMA OwnKnown ==
    ASSUME FeedOK, NEW g \in DOMAIN feed, ~ Starts(g)
    PROVE  EndsLast(g) /\ feed[g].type = "TurnEnded"
<1>1. EndsLast(g)
  BY Zenon DEF FeedOK
<1>2. feed[g] \in CostEvents
  BY DEF FeedOK
<1> QED
  BY Zenon, <1>1, <1>2 DEF CostEvents, Starts

\* The feed and the cursors are numbers of its rows.
LEMMA FeedShape ==
    ASSUME CostInv
    PROVE  /\ feed \in Seq(CostEvents) /\ DOMAIN feed = 1..Len(feed) /\ Len(feed) \in Nat
           /\ position \in Nat /\ position <= Len(feed) /\ 1..position \subseteq DOMAIN feed
           /\ projector.step = "write" =>
                 /\ projector.at \in Nat /\ projector.to \in Nat /\ projector.to <= Len(feed)
                 /\ projector.at > 0 /\ (projector.at <= projector.to => projector.at \in DOMAIN feed)
<1>1. feed \in Seq(CostEvents) /\ DOMAIN feed = 1..Len(feed) /\ Len(feed) \in Nat
  BY DEF CostInv, FeedOK
<1>2. position \in Nat /\ position <= Len(feed)
  BY Zenon DEF CostInv, CursorOK
<1>3. projector.step = "write" =>
         projector.at \in Nat /\ projector.to \in Nat /\ projector.to <= Len(feed) /\ position < projector.at
  BY Zenon DEF CostInv, CursorOK
<1> QED
  BY <1>1, <1>2, <1>3

\* The lookup finds the turn's own model.
LEMMA RecoversOwn ==
    ASSUME FeedOK, NEW g \in DOMAIN feed, ~ Starts(g)
    PROVE  recoverModel(g) = OwnModel(g)
<1> DEFINE before == {h \in Started(feed[g].session) : h < g}
           t == feed[g].turn
<1>1. \A h : h \in before <=> h \in DOMAIN feed /\ feed[h].session = feed[g].session /\ Starts(h) /\ h < g
  BY Zenon DEF Started, Of, Starts
<1>2. EndsLast(g)
  BY Zenon, OwnKnown
<1>3. recoverModel(g) = IF before = {} THEN "" ELSE feed[Max(before)].model
  BY Zenon DEF recoverModel
<1>4. DOMAIN feed \subseteq Nat \ {0}
  BY DEF FeedOK
<1> HIDE DEF before
<1>5. CASE t = 0
  <2>1. before = {}
    BY Zenon, <1>1, <1>2, <1>4, <1>5 DEF EndsLast
  <2> QED
    BY Zenon, <1>3, <1>5, <2>1 DEF OwnModel
<1>6. CASE t # 0
  <2>1. t \in before /\ \A h \in before : h <= t
    BY Zenon, <1>1, <1>2, <1>4, <1>6 DEF EndsLast
  <2>2. before \subseteq Nat
    BY Zenon, <1>1, <1>4
  <2>3. Max(before) = t
    <3>1. ASSUME NEW x \in before, \A y \in before : x >= y PROVE x = t
      <4>1. x >= t /\ x <= t /\ x \in Nat /\ t \in Nat
        BY Zenon, <2>1, <2>2, <3>1
      <4> QED
        BY <4>1
    <3>2. \A y \in before : t >= y
      BY Zenon, <2>1, <2>2
    <3> QED
      BY Zenon, <2>1, <3>1, <3>2 DEF Max
  <2> QED
    BY Zenon, <1>3, <1>6, <2>1, <2>3 DEF OwnModel
<1> QED
  BY Zenon, <1>5, <1>6

\* An event is appended: what is said of those before it stays true.
LEMMA FeedAppends ==
    ASSUME CostInv, NEW e \in CostEvents, feed' = Append(feed, e),
           UNCHANGED <<costRows, modelByTurn, projector, position, blurred>>,
           IF e.type = "TurnStarted" THEN e.turn = Len(feed) + 1
           ELSE \/ e.turn = 0 /\ \A h \in DOMAIN feed : feed[h].session = e.session => ~ Starts(h)
                \/ /\ e.turn \in DOMAIN feed /\ Starts(e.turn) /\ feed[e.turn].session = e.session
                   /\ \A h \in DOMAIN feed : feed[h].session = e.session /\ Starts(h) => h <= e.turn
    PROVE  CostInv'
<1>0. PICK n : n = Len(feed) + 1
  BY Zenon
<1>1. /\ feed \in Seq(CostEvents) /\ DOMAIN feed = 1..Len(feed) /\ Len(feed) \in Nat
      /\ feed' \in Seq(CostEvents) /\ DOMAIN feed' = 1..n /\ Len(feed') = n
      /\ feed'[n] = e /\ \A g \in DOMAIN feed : feed'[g] = feed[g]
  BY <1>0 DEF CostInv, FeedOK
<1>2. \A g \in DOMAIN feed : g \in DOMAIN feed' /\ g < n /\ (Starts(g)' <=> Starts(g))
  BY <1>0, <1>1 DEF Starts
<1>3. \A g \in DOMAIN feed' : g \in DOMAIN feed \/ g = n
  BY <1>0, <1>1
<1>4. ASSUME NEW g \in DOMAIN feed, ~ Starts(g) PROVE EndsLast(g)' /\ OwnModel(g)' = OwnModel(g)
  <2>1. EndsLast(g) /\ feed'[g] = feed[g]
    BY Zenon, <1>1, <1>4, OwnKnown DEF CostInv
  <2>2. feed[g].turn = 0 \/ feed[g].turn \in DOMAIN feed
    BY Zenon, <2>1 DEF EndsLast
  <2>3. OwnModel(g)' = OwnModel(g)
    BY Zenon, <1>1, <2>1, <2>2 DEF OwnModel
  <2>4. \A h \in DOMAIN feed' : h < g => h \in DOMAIN feed
    BY <1>0, <1>1, <1>2, <1>3
  <2>5. EndsLast(g)'
    BY Zenon, <1>1, <1>2, <2>1, <2>4 DEF EndsLast
  <2> QED
    BY Zenon, <2>3, <2>5
<1>5. IF Starts(n)' THEN feed'[n].turn = n ELSE EndsLast(n)'
  <2>1. CASE e.type = "TurnStarted"
    BY Zenon, <1>0, <1>1, <2>1 DEF Starts
  <2>2. CASE e.type # "TurnStarted"
    <3>1. ~ Starts(n)'
      BY Zenon, <1>1, <2>2 DEF Starts
    <3>2. \A h \in DOMAIN feed' : h < n => h \in DOMAIN feed
      BY SMTT(30), <1>0, <1>1, <1>3
    <3>3. EndsLast(n)'
      BY <1>1, <1>2, <2>2, <3>2 DEF EndsLast
    <3> QED
      BY Zenon, <3>1, <3>3
  <2> QED
    BY Zenon, <2>1, <2>2
<1>6. FeedOK'
  <2>1. ASSUME NEW g \in DOMAIN feed PROVE IF Starts(g)' THEN feed'[g].turn = g ELSE EndsLast(g)'
    BY Zenon, <1>1, <1>2, <1>4, <2>1 DEF CostInv, FeedOK
  <2> QED
    BY Zenon, <1>1, <1>3, <1>5, <2>1 DEF FeedOK
<1>7. MapOK'
  BY Zenon, <1>1, <1>2 DEF CostInv, MapOK
<1>8. RowsOK'
  <2>1. DOMAIN costRows \subseteq DOMAIN feed /\ \A g \in DOMAIN costRows : ~ Starts(g) /\ costRows[g] = IF g \in blurred THEN "" ELSE OwnModel(g)
    BY Zenon DEF CostInv, RowsOK
  <2>2. \A g \in DOMAIN costRows : ~ Starts(g)' /\ OwnModel(g)' = OwnModel(g)
    BY Zenon, <1>2, <1>4, <2>1
  <2> QED
    BY Zenon, <1>2, <2>1, <2>2 DEF CostInv, RowsOK
<1>9. CursorOK'
  <2>1. ASSUME NEW k \in Nat, k <= Len(feed), WrittenTo(k) PROVE WrittenTo(k)'
    BY SMTT(30), <1>1, <1>2, <2>1 DEF WrittenTo
  <2>2. Len(feed) <= Len(feed')
    BY <1>0, <1>1
  <2>3. WrittenTo(position)'
    BY Zenon, <2>1 DEF CostInv, CursorOK
  <2>4. projector.step = "write" => WrittenTo(projector.at - 1)'
    BY <1>1, <2>1 DEF CostInv, CursorOK
  <2> QED
    BY SMTT(30), <1>1, <2>2, <2>3, <2>4 DEF CostInv, CursorOK
<1> QED
  BY Zenon, <1>6, <1>7, <1>8, <1>9 DEF CostInv

\* A row is charged to the model its turn was started with, or to none.
LEMMA WritesRow ==
    ASSUME CostInv, NEW g \in DOMAIN feed, ~ Starts(g), NEW model,
           InsertCost(g, model), UNCHANGED feed,
           \/ model = OwnModel(g) /\ UNCHANGED blurred
           \/ model = "" /\ blurred' = blurred \cup ({g} \ DOMAIN costRows)
    PROVE  RowsOK' /\ DOMAIN costRows' = DOMAIN costRows \cup {g}
<1>1. /\ DOMAIN costRows' = DOMAIN costRows \cup {g}
      /\ \A h \in DOMAIN costRows : costRows'[h] = costRows[h]
      /\ g \notin DOMAIN costRows => costRows'[g] = model
  BY Zenon DEF InsertCost
<1>2. /\ blurred \subseteq DOMAIN costRows /\ DOMAIN costRows \subseteq DOMAIN feed
      /\ \A h \in DOMAIN costRows : ~ Starts(h) /\ costRows[h] = IF h \in blurred THEN "" ELSE OwnModel(h)
  BY Zenon DEF CostInv, RowsOK
<1>3. \A h : (Starts(h)' <=> Starts(h)) /\ OwnModel(h)' = OwnModel(h)
  BY Zenon DEF Starts, OwnModel
<1>4. \A h \in DOMAIN costRows : h \in blurred' <=> h \in blurred
  BY Zenon
<1>5. \A h \in DOMAIN costRows : costRows'[h] = IF h \in blurred' THEN "" ELSE OwnModel(h)
  BY Zenon, <1>1, <1>2, <1>4
<1>6. g \notin DOMAIN costRows => costRows'[g] = IF g \in blurred' THEN "" ELSE OwnModel(g)
  BY Zenon, <1>1, <1>2
<1>7. blurred' \subseteq DOMAIN costRows' /\ DOMAIN costRows' \subseteq DOMAIN feed'
  BY Zenon, <1>1, <1>2
<1> QED
  BY Zenon, <1>1, <1>2, <1>3, <1>5, <1>6, <1>7 DEF RowsOK

\* The projector goes on to the next row, once this one is written.
LEMMA PassesRow ==
    ASSUME CostInv, projector.step = "write", projector.at <= projector.to, Pass(projector.at),
           DOMAIN costRows \subseteq DOMAIN costRows', ~ Starts(projector.at) => projector.at \in DOMAIN costRows',
           UNCHANGED <<feed, position>>
    PROVE  CursorOK'
<1>1. /\ position \in Nat /\ position <= Len(feed) /\ WrittenTo(position) /\ WrittenTo(projector.at - 1)
      /\ position < projector.at /\ projector.to <= Len(feed) /\ projector.at \in Nat /\ projector.to \in Nat
  BY Zenon DEF CostInv, CursorOK
<1>2. projector' = [projector EXCEPT !.at = projector.at + 1]
  BY Zenon DEF Pass
<1>3. /\ projector' \in [step : {"poll", "write"}, to : Nat, at : Nat]
      /\ projector'.step = "write" /\ projector'.to = projector.to /\ projector'.at = projector.at + 1
  BY <1>1, <1>2 DEF CostInv, CursorOK
<1>4. WrittenTo(position)'
  BY Zenon, <1>1 DEF WrittenTo, Starts
<1>5. \A g \in 1..projector.at : ~ Starts(g) => g \in DOMAIN costRows'
  <2>1. \A g \in 1..projector.at : g \in 1..(projector.at - 1) \/ g = projector.at
    BY <1>1
  <2> QED
    BY Zenon, <1>1, <2>1 DEF WrittenTo
<1>6. WrittenTo(projector.at - 1)'
  <2>1. projector'.at - 1 = projector.at
    BY <1>1, <1>3
  <2> QED
    BY Zenon, <1>5, <2>1 DEF WrittenTo, Starts
<1> QED
  BY SMTT(30), <1>1, <1>3, <1>4, <1>6 DEF CursorOK

\* The steps of the log.
LEMMA LogCost ==
    ASSUME CostInv, NEW s \in CostSessions, TurnEnds(s) \/ \E m \in Models : TurnStarts(s, m)
    PROVE  CostInv'
<1>1. feed \in Seq(CostEvents) /\ DOMAIN feed = 1..Len(feed) /\ Len(feed) \in Nat
  BY DEF CostInv, FeedOK
<1>2. CASE TurnEnds(s)
  <2> DEFINE e == [session |-> s, type |-> "TurnEnded", turn |-> LastTurn(s), model |-> ""]
  <2>1. feed' = Append(feed, e) /\ UNCHANGED <<costRows, modelByTurn, projector, position, blurred>>
    BY Zenon, <1>2 DEF TurnEnds
  <2>2. \A h : h \in Started(s) <=> h \in DOMAIN feed /\ feed[h].session = s /\ Starts(h)
    BY Zenon DEF Started, Of, Starts
  <2>3. CASE Started(s) = {}
    <3>1. LastTurn(s) = 0 /\ e \in CostEvents /\ e.type = "TurnEnded" /\ e.turn = 0 /\ e.session = s
      BY Zenon, <2>3 DEF LastTurn, CostEvents
    <3> HIDE DEF e
    <3>2. \A h \in DOMAIN feed : feed[h].session = e.session => ~ Starts(h)
      BY Zenon, <2>2, <2>3, <3>1
    <3> QED
      BY Zenon, <2>1, <3>1, <3>2, FeedAppends
  <2>4. CASE Started(s) # {}
    <3>1. Started(s) \subseteq 0..Len(feed)
      BY <1>1, <2>2
    <3>2. LastTurn(s) \in Started(s) /\ \A h \in Started(s) : h <= LastTurn(s)
      BY Zenon, <1>1, <2>4, <3>1, MaxIsIn DEF LastTurn
    <3>3. LastTurn(s) \in Nat
      BY <3>1, <3>2
    <3>4. e \in CostEvents /\ e.type = "TurnEnded" /\ e.turn = LastTurn(s) /\ e.session = s
      BY Zenon, <3>3 DEF CostEvents
    <3> HIDE DEF e
    <3>5. /\ e.turn \in DOMAIN feed /\ Starts(e.turn) /\ feed[e.turn].session = e.session
          /\ \A h \in DOMAIN feed : feed[h].session = e.session /\ Starts(h) => h <= e.turn
      BY Zenon, <2>2, <3>2, <3>4
    <3> QED
      BY Zenon, <2>1, <3>4, <3>5, FeedAppends
  <2> QED
    BY Zenon, <2>3, <2>4
<1>3. ASSUME NEW m \in Models, TurnStarts(s, m) PROVE CostInv'
  <2> DEFINE e == [session |-> s, type |-> "TurnStarted", turn |-> Len(feed) + 1, model |-> m]
  <2>1. feed' = Append(feed, e) /\ UNCHANGED <<costRows, modelByTurn, projector, position, blurred>>
    BY Zenon, <1>3 DEF TurnStarts
  <2>2. e \in CostEvents /\ e.type = "TurnStarted" /\ e.turn = Len(feed) + 1
    <3>1. Len(feed) + 1 \in Nat
      BY <1>1
    <3> QED
      BY Zenon, <3>1 DEF CostEvents
  <2> HIDE DEF e
  <2> QED
    BY Zenon, <2>1, <2>2, FeedAppends
<1> QED
  BY Zenon, <1>2, <1>3

\* A batch is fetched: its turns are noted with the model they start with.
LEMMA NotesModels == ASSUME CostInv, NoteModels PROVE CostInv'
<1> DEFINE to   == IF position + CostBatch < Len(feed) THEN position + CostBatch ELSE Len(feed)
           news == {g \in (position + 1)..to : feed[g].type = "TurnStarted"}
<1>1. /\ projector.step = "poll" /\ position < Len(feed)
      /\ projector' = [step |-> "write", to |-> to, at |-> position + 1]
      /\ modelByTurn' = [k \in DOMAIN modelByTurn \cup {turnKey(g) : g \in news} |->
                            IF \E g \in news : turnKey(g) = k THEN feed[k[2]].model ELSE modelByTurn[k]]
      /\ UNCHANGED <<feed, costRows, position, blurred>>
  BY Zenon DEF NoteModels
<1>2. /\ position \in Nat /\ Len(feed) \in Nat /\ to \in Nat /\ position < to /\ to <= Len(feed) /\ DOMAIN feed = 1..Len(feed)
  <2>1. /\ position \in Nat /\ Len(feed) \in Nat /\ position < Len(feed) /\ DOMAIN feed = 1..Len(feed)
        /\ CostBatch \in Nat \ {0}
    BY <1>1, FeedShape, CostAssumption, Zenon
  <2> QED
    BY <2>1
<1> HIDE DEF to
<1>3. \A g \in news : g \in DOMAIN feed /\ Starts(g)
  BY <1>2 DEF Starts
<1>4. \A g \in news : feed[g].turn = g
  BY Zenon, <1>3 DEF CostInv, FeedOK
<1>5. \A g \in news : turnKey(g)[2] = g
  BY Zenon, <1>4 DEF turnKey
<1> HIDE DEF news
<1>6. MapOK'
  <2> SUFFICES ASSUME NEW k \in DOMAIN modelByTurn'
               PROVE  k[2] \in DOMAIN feed /\ Starts(k[2]) /\ modelByTurn'[k] = feed[k[2]].model
    BY Zenon, <1>1 DEF MapOK, Starts
  <2>1. CASE \E g \in news : turnKey(g) = k
    BY Zenon, <1>1, <1>3, <1>5, <2>1
  <2>2. CASE ~ \E g \in news : turnKey(g) = k
    <3>1. k \in DOMAIN modelByTurn /\ modelByTurn'[k] = modelByTurn[k]
      BY Zenon, <1>1, <2>2
    <3> QED
      BY Zenon, <3>1 DEF CostInv, MapOK
  <2> QED
    BY Zenon, <2>1, <2>2
<1>7. CursorOK'
  <2>1. projector' \in [step : {"poll", "write"}, to : Nat, at : Nat] /\ projector'.at = position + 1 /\ projector'.to = to
    BY <1>1, <1>2
  <2>2. projector'.at - 1 = position
    BY <1>2, <2>1
  <2>3. WrittenTo(position)' /\ WrittenTo(projector.at - 1)'
    BY Zenon, <1>1, <2>2 DEF CostInv, CursorOK, WrittenTo, Starts
  <2> QED
    BY SMTT(30), <1>1, <1>2, <2>1, <2>3 DEF CursorOK
<1>8. FeedOK' /\ RowsOK'
  BY ZenonT(30), <1>1 DEF CostInv, FeedOK, RowsOK, EndsLast, Starts, OwnModel
<1> QED
  BY Zenon, <1>6, <1>7, <1>8 DEF CostInv

\* The row of an event that ends a turn is written, from the map or from the log.
LEMMA WritesCost == ASSUME CostInv, WriteCostRow PROVE CostInv'
<1> DEFINE g == projector.at
<1>1. /\ projector.step = "write" /\ g <= projector.to /\ feed[g].type = "TurnEnded" /\ Pass(g) /\ UNCHANGED <<feed, position>>
      /\ modelByTurn' = Restrict(modelByTurn, DOMAIN modelByTurn \ {turnKey(g)})
      /\ \/ turnKey(g) \in DOMAIN modelByTurn /\ InsertCost(g, modelByTurn[turnKey(g)]) /\ UNCHANGED blurred
         \/ InsertCost(g, recoverModel(g)) /\ UNCHANGED blurred
         \/ InsertCost(g, "") /\ blurred' = blurred \cup ({g} \ DOMAIN costRows)
  BY Zenon DEF WriteCostRow
<1>2. g \in DOMAIN feed /\ ~ Starts(g)
  BY Zenon, <1>1, FeedShape DEF Starts
<1>3. turnKey(g) \in DOMAIN modelByTurn => modelByTurn[turnKey(g)] = OwnModel(g)
  <2> SUFFICES ASSUME turnKey(g) \in DOMAIN modelByTurn PROVE modelByTurn[turnKey(g)] = OwnModel(g)
    BY Zenon
  <2>1. turnKey(g)[2] = feed[g].turn
    BY Zenon DEF turnKey
  <2>2. feed[g].turn \in DOMAIN feed /\ modelByTurn[turnKey(g)] = feed[feed[g].turn].model
    BY Zenon, <2>1 DEF CostInv, MapOK
  <2>3. feed[g].turn # 0
    BY <2>2 DEF CostInv, FeedOK
  <2> QED
    BY Zenon, <2>2, <2>3 DEF OwnModel
<1>4. recoverModel(g) = OwnModel(g)
  BY Zenon, <1>2, RecoversOwn DEF CostInv
<1>5. PICK model : /\ InsertCost(g, model)
                   /\ \/ model = OwnModel(g) /\ UNCHANGED blurred
                      \/ model = "" /\ blurred' = blurred \cup ({g} \ DOMAIN costRows)
  BY Zenon, <1>1, <1>3, <1>4
<1>6. RowsOK' /\ DOMAIN costRows' = DOMAIN costRows \cup {g}
  BY Zenon, <1>1, <1>2, <1>5, WritesRow
<1>7. CursorOK'
  BY Zenon, <1>1, <1>6, PassesRow
<1>8. MapOK'
  BY Zenon, <1>1 DEF CostInv, MapOK, Restrict, Starts
<1>9. FeedOK'
  BY ZenonT(30), <1>1 DEF CostInv, FeedOK, EndsLast, Starts
<1> QED
  BY Zenon, <1>6, <1>7, <1>8, <1>9 DEF CostInv

\* Every step keeps the invariant.
LEMMA CostKeeps == CostInv /\ [CostNext]_costVars => CostInv'
<1> SUFFICES ASSUME CostInv, [CostNext]_costVars PROVE CostInv'
  OBVIOUS
<1>1. ASSUME NEW s \in CostSessions, TurnEnds(s) \/ \E m \in Models : TurnStarts(s, m) PROVE CostInv'
  BY Zenon, <1>1, LogCost
<1>2. CASE NoteModels
  BY Zenon, <1>2, NotesModels
<1>3. CASE WriteCostRow
  BY Zenon, <1>3, WritesCost
<1>4. CASE SkipRow
  <2>1. /\ projector.step = "write" /\ projector.at <= projector.to /\ feed[projector.at].type # "TurnEnded"
        /\ Pass(projector.at) /\ UNCHANGED <<feed, costRows, modelByTurn, position, blurred>>
    BY Zenon, <1>4 DEF SkipRow
  <2>2. Starts(projector.at)
    <3>1. projector.at \in DOMAIN feed
      BY Zenon, <2>1, FeedShape
    <3> QED
      BY Zenon, <2>1, <3>1, OwnKnown DEF CostInv
  <2>3. CursorOK'
    BY Zenon, <2>1, <2>2, PassesRow
  <2> QED
    BY Zenon, <2>1, <2>3 DEF CostInv, FeedOK, MapOK, RowsOK, EndsLast, Starts, OwnModel
<1>5. CASE CostCursorSaved
  <2>1. /\ projector.step = "write" /\ projector.at > projector.to /\ position' = projector.to /\ projector' = Resting
        /\ UNCHANGED <<feed, costRows, modelByTurn, blurred>>
    BY Zenon, <1>5 DEF CostCursorSaved
  <2>2. projector.to \in Nat /\ projector.at - 1 = projector.to /\ projector.to <= Len(feed) /\ WrittenTo(projector.to)
    BY <2>1 DEF CostInv, CursorOK
  <2>3. CursorOK'
    BY Zenon, <2>1, <2>2 DEF CursorOK, Resting, WrittenTo, Starts
  <2> QED
    BY Zenon, <2>1, <2>3 DEF CostInv, FeedOK, MapOK, RowsOK, EndsLast, Starts, OwnModel
<1>6. CASE BatchFails \/ ProjectorRestarts
  <2>1. /\ projector' = Resting /\ UNCHANGED <<feed, costRows, position, blurred>>
        /\ modelByTurn' = modelByTurn \/ modelByTurn' = << >>
    BY Zenon, <1>6 DEF BatchFails, ProjectorRestarts
  <2>2. CursorOK'
    BY Zenon, <2>1 DEF CostInv, CursorOK, Resting, WrittenTo, Starts
  <2>3. MapOK'
    BY <2>1 DEF CostInv, MapOK, Starts
  <2> QED
    BY Zenon, <2>1, <2>2, <2>3 DEF CostInv, FeedOK, RowsOK, EndsLast, Starts, OwnModel
<1>7. CASE UNCHANGED costVars
  BY ZenonT(30), <1>7 DEF costVars, CostInv, FeedOK, MapOK, RowsOK, CursorOK, WrittenTo, EndsLast, Starts, OwnModel
<1> QED
  BY Zenon, <1>1, <1>2, <1>3, <1>4, <1>5, <1>6, <1>7 DEF CostNext

\* The table's rows and the fold's events, session by session and model by model.
LEMMA RowsAreFold ==
    ASSUME CostInv, DOMAIN costRows \subseteq 1..position, NEW S, NEW m
    PROVE  LET table == {g \in DOMAIN costRows : feed[g].session \in S /\ costRows[g] = m}
               fold  == {g \in 1..position : /\ feed[g].session \in S /\ feed[g].type = "TurnEnded" /\ OwnModel(g) = m}
           IN  /\ IsFiniteSet(table) /\ IsFiniteSet(fold) /\ IsFiniteSet(blurred)
               /\ blurred = {} => table = fold
               /\ m # "" => table \subseteq fold /\ fold \subseteq table \cup blurred
<1>1. /\ position \in Nat /\ WrittenTo(position) /\ blurred \subseteq DOMAIN costRows /\ 1..position \subseteq DOMAIN feed
      /\ \A g \in DOMAIN costRows : ~ Starts(g) /\ costRows[g] = IF g \in blurred THEN "" ELSE OwnModel(g)
  BY Zenon, FeedShape DEF CostInv, CursorOK, RowsOK
<1>2. IsFiniteSet(1..position)
  <2>1. position \in Nat
    BY FeedShape, Zenon
  <2>2. 1 \in Int /\ position \in Int
    BY <2>1
  <2> QED
    BY Zenon, <2>2, FS_Interval
<1>3. \A T : T \subseteq 1..position => IsFiniteSet(T)
  BY Zenon, <1>2, FS_Subset
<1>4. \A g \in 1..position : g \in DOMAIN costRows <=> feed[g].type = "TurnEnded"
  <2> TAKE g \in 1..position
  <2>1. ~ Starts(g) => feed[g].type = "TurnEnded"
    BY Zenon, <1>1, OwnKnown DEF CostInv
  <2>2. g \in DOMAIN costRows <=> ~ Starts(g)
    BY Zenon, <1>1 DEF WrittenTo
  <2> QED
    BY Zenon, <2>1, <2>2 DEF Starts
<1> QED
  BY Zenon, <1>1, <1>3, <1>4

\* The fold charges an event to its own turn's model.
LEMMA FoldIsOwn ==
    ASSUME CostInv, NEW g \in 1..position, feed[g].type = "TurnEnded"
    PROVE  (IF \E h \in Started(feed[g].session) : h <= position /\ feed[h].turn = feed[g].turn
            THEN feed[feed[g].turn].model ELSE "") = OwnModel(g)
<1>1. g \in DOMAIN feed /\ position \in Nat /\ DOMAIN feed \subseteq Nat \ {0}
  BY DEF CostInv, CursorOK, FeedOK
<1>2. EndsLast(g)
  BY Zenon, <1>1, OwnKnown DEF CostInv, Starts
<1>3. \A h : h \in Started(feed[g].session) <=> h \in DOMAIN feed /\ feed[h].session = feed[g].session /\ Starts(h)
  BY Zenon DEF Started, Of, Starts
<1>4. \A h \in DOMAIN feed : Starts(h) => feed[h].turn = h
  BY Zenon DEF CostInv, FeedOK
<1>5. CASE feed[g].turn = 0
  <2>1. ~ \E h \in Started(feed[g].session) : h <= position /\ feed[h].turn = feed[g].turn
    BY Zenon, <1>1, <1>3, <1>4, <1>5
  <2> QED
    BY Zenon, <1>5, <2>1 DEF OwnModel
<1>6. CASE feed[g].turn # 0
  <2>1. feed[g].turn \in Started(feed[g].session) /\ feed[g].turn < g /\ Starts(feed[g].turn) /\ feed[g].turn \in DOMAIN feed
    BY Zenon, <1>2, <1>3, <1>6 DEF EndsLast
  <2>2. feed[g].turn <= position /\ feed[feed[g].turn].turn = feed[g].turn
    BY SMTT(30), <1>1, <1>4, <2>1
  <2> QED
    BY Zenon, <1>6, <2>1, <2>2 DEF OwnModel
<1> QED
  BY Zenon, <1>5, <1>6

\* Between two polls the table has a row for every turn that ended, charged as the fold
\* of the log charges it, for any sessions, models, batch size and number of failures.
THEOREM RollupStaysTheFold == CostSpec => []RollupIsTheFold
<1>1. CostInv => RollupIsTheFold
  <2> SUFFICES ASSUME CostInv, DOMAIN costRows \subseteq 1..position
               PROVE  /\ DOMAIN costRows = {g \in 1..position : feed[g].type = "TurnEnded"}
                      /\ \A S \in SUBSET CostSessions :
                            LET billed == CostByModel(S)
                                fold == devFoldModelCost(S, position)
                            IN  /\ blurred = {} => billed = fold
                                /\ \A m \in Models : billed[m] <= fold[m] /\ fold[m] <= billed[m] + Cardinality(blurred)
    BY Zenon DEF RollupIsTheFold
  <2>1. /\ WrittenTo(position) /\ 1..position \subseteq DOMAIN feed /\ \A g \in DOMAIN costRows : ~ Starts(g)
    BY Zenon, FeedShape DEF CostInv, CursorOK, RowsOK
  <2>2. DOMAIN costRows = {g \in 1..position : feed[g].type = "TurnEnded"}
    <3>1. \A g \in 1..position : ~ Starts(g) <=> feed[g].type = "TurnEnded"
      BY Zenon, <2>1, OwnKnown DEF CostInv, Starts
    <3> QED
      BY Zenon, <2>1, <3>1 DEF WrittenTo
  <2>3. ASSUME NEW S \in SUBSET CostSessions
        PROVE  LET billed == CostByModel(S)
                   fold == devFoldModelCost(S, position)
               IN  /\ blurred = {} => billed = fold
                   /\ \A m \in Models : billed[m] <= fold[m] /\ fold[m] <= billed[m] + Cardinality(blurred)
    <3> DEFINE T(m) == {g \in DOMAIN costRows : feed[g].session \in S /\ costRows[g] = m}
               F(m) == {g \in 1..position : /\ feed[g].session \in S /\ feed[g].type = "TurnEnded" /\ OwnModel(g) = m}
               charged(g) == IF \E h \in Started(feed[g].session) : h <= position /\ feed[h].turn = feed[g].turn
                             THEN feed[feed[g].turn].model ELSE ""
    <3>1. CostByModel(S) = [m \in Models \cup {""} |-> Cardinality(T(m))]
      BY Zenon DEF CostByModel
    <3>2. \A m : {g \in 1..position : /\ feed[g].session \in S /\ feed[g].type = "TurnEnded" /\ charged(g) = m} = F(m)
      <4>1. \A g \in 1..position : feed[g].type = "TurnEnded" => charged(g) = OwnModel(g)
        BY Zenon, FoldIsOwn
      <4> HIDE DEF charged
      <4> QED
        BY Zenon, <4>1
    <3>3. devFoldModelCost(S, position) = [m \in Models \cup {""} |-> Cardinality(F(m))]
      <4>1. devFoldModelCost(S, position)
              = [m \in Models \cup {""} |->
                   Cardinality({g \in 1..position : /\ feed[g].session \in S /\ feed[g].type = "TurnEnded" /\ charged(g) = m})]
        BY Zenon DEF devFoldModelCost
      <4> HIDE DEF charged, F
      <4> QED
        BY Zenon, <3>2, <4>1
    <3>4. \A m : /\ IsFiniteSet(T(m)) /\ IsFiniteSet(F(m)) /\ IsFiniteSet(blurred)
                 /\ blurred = {} => T(m) = F(m)
                 /\ m # "" => T(m) \subseteq F(m) /\ F(m) \subseteq T(m) \cup blurred
      BY Zenon, RowsAreFold
    <3> HIDE DEF T, F, charged
    <3>5. blurred = {} => CostByModel(S) = devFoldModelCost(S, position)
      BY Zenon, <3>1, <3>3, <3>4
    <3>6. ASSUME NEW m \in Models
          PROVE  Cardinality(T(m)) <= Cardinality(F(m)) /\ Cardinality(F(m)) <= Cardinality(T(m)) + Cardinality(blurred)
      <4>1. m # ""
        BY Zenon, CostAssumption
      <4>2. Cardinality(T(m)) <= Cardinality(F(m))
        BY Zenon, <3>4, <4>1, FS_Subset
      <4>3. IsFiniteSet(T(m) \cup blurred) /\ Cardinality(F(m)) <= Cardinality(T(m) \cup blurred)
        BY Zenon, <3>4, <4>1, FS_Union, FS_Subset
      <4>4. /\ Cardinality(T(m) \cup blurred) = Cardinality(T(m)) + Cardinality(blurred) - Cardinality(T(m) \cap blurred)
            /\ IsFiniteSet(T(m) \cap blurred)
        BY Zenon, <3>4, FS_Union, FS_Intersection
      <4>5. /\ Cardinality(T(m)) \in Nat /\ Cardinality(F(m)) \in Nat /\ Cardinality(blurred) \in Nat
            /\ Cardinality(T(m) \cap blurred) \in Nat
        BY Zenon, <3>4, <4>4, FS_CardinalityType
      <4> QED
        BY SMTT(30), <4>2, <4>3, <4>4, <4>5
    <3> QED
      BY Zenon, <3>1, <3>3, <3>5, <3>6
  <2> QED
    BY Zenon, <2>2, <2>3
<1> QED
  BY <1>1, CostStart, CostKeeps, PTL DEF CostSpec

-----------------------------------------------------------------------------
(***************************************************************************)
(* The verdict over a window of the chain is right, for every log, fork,   *)
(* legacy prefix and window.                                               *)
(*                                                                         *)
(* The head of the session, the rows of the window and the row before it   *)
(* are read in steps of their own, while the session may grow. VerifyInv   *)
(* says what each row holds, as it was written or after the damage, and    *)
(* that what was read is still what is stored.                             *)
(***************************************************************************)

(* What a verification finds. *)

\* Whether the row at seq was written with hashes, and whether its link was changed since.
Hashed(seq) == seq - forkedFrom > legacy
Broke(seq) == damaged.what = "link" /\ damaged.seq = seq

\* The chain hash that the row at seq is linked to.
Before(seq) ==
    IF (seq - 1) \in DOMAIN stored /\ stored[seq - 1].chain # NULL THEN stored[seq - 1].chain ELSE Genesis

\* A row holds what was written, but for the damage.
HashesFit(seq) ==
    LET row == stored[seq] IN
    /\ row.content = ContentHash(<<seq>>)
    /\ row.canonical = <<seq>> <=> ~ (damaged.seq = seq /\ damaged.what # "link")
    /\ Broke(seq) => row.chain = <<"other">>
    /\ ~ Broke(seq) => /\ row.chain = FoldChain(row.chain[1], row.content)
                       /\ row.chain[1] # <<"other">>
                       /\ ~ Broke(seq - 1) => row.chain[1] = Before(seq)

IsRow(row) == row = [canonical |-> row.canonical, content |-> row.content, chain |-> row.chain]

RowsFit ==
    \A seq \in DOMAIN stored :
        /\ IsRow(stored[seq])
        /\ ~ Hashed(seq) => stored[seq].content = NULL /\ stored[seq].chain = NULL
        /\ Hashed(seq) => HashesFit(seq)

ChainShape ==
    /\ forkedFrom \in Nat /\ legacy \in Nat /\ HeadSeq \in Nat /\ HeadSeq >= forkedFrom
    /\ DOMAIN stored = (forkedFrom + 1)..HeadSeq

DamageShape ==
    \/ damaged = NoDamage
    \/ /\ damaged.seq \in DOMAIN stored /\ Hashed(damaged.seq)
       /\ damaged.what \in {"payload", "missing", "link"}

\* The window lies in the log, and the rows read of it are those of the log.
AuditShape ==
    /\ audit.at \in {"idle", "rows", "seed", "done"}
    /\ audit.at # "idle" => audit.from \in Nat /\ audit.to \in Nat /\ audit.from >= 1 /\ audit.to <= HeadSeq
    /\ audit.at = "seed" =>
          /\ audit.rows = [seq \in ChainedIn(audit.from, audit.to) |-> stored[seq]]
          /\ ChainedIn(audit.from, audit.to) # {}

VerifyInv == ChainShape /\ DamageShape /\ RowsFit /\ AuditShape /\ VerdictIsRight

\* The hashes of the model: a link is no other value.
LEMMA HashValues ==
    /\ \A a, b : FoldChain(a, b) # <<"other">> /\ FoldChain(a, b) # NULL /\ FoldChain(a, b)[1] = a
    /\ \A a, b, c : FoldChain(a, c) = FoldChain(b, c) => a = b
    /\ \A a, b : ContentHash(a) = ContentHash(b) => a = b
    /\ \A a : ContentHash(a) # NULL
    /\ Genesis # <<"other">> /\ <<"other">> # NULL
    /\ \A a \in Nat : <<a>> # NULL /\ (a > 0 => <<a>> # <<0>>)
<1>1. \A a, b : FoldChain(a, b) # <<"other">> /\ FoldChain(a, b) # NULL /\ FoldChain(a, b)[1] = a
    BY Zenon DEF FoldChain, NULL
<1>2. \A a, b, c : FoldChain(a, c) = FoldChain(b, c) => a = b
    BY Zenon DEF FoldChain
<1>3. \A a, b : ContentHash(a) = ContentHash(b) => a = b
    BY Zenon DEF ContentHash
<1>4. \A a : ContentHash(a) # NULL
    BY Zenon DEF ContentHash, NULL
<1>5. Genesis # <<"other">> /\ <<"other">> # NULL
    BY Zenon DEF Genesis, NULL
<1>6. \A a \in Nat : <<a>> # NULL /\ (a > 0 => <<a>> # <<0>>)
    BY DEF NULL
<1> QED
    BY <1>1, <1>2, <1>3, <1>4, <1>5, <1>6, Zenon

\* A log without rows ends where the fork starts.
LEMMA EmptyLog ==
    ASSUME stored = << >>, forkedFrom \in Nat PROVE HeadSeq = forkedFrom /\ DOMAIN stored = (forkedFrom + 1)..forkedFrom
<1>1. DOMAIN stored = {}
    OBVIOUS
<1>2. Cardinality(DOMAIN stored) = 0
    BY <1>1, FS_EmptySet, Zenon
<1> QED
    BY <1>1, <1>2 DEF HeadSeq

\* The start.
LEMMA ChainStart == ASSUME VerifyInit PROVE VerifyInv
<1>1. forkedFrom \in Nat /\ legacy \in Nat
    BY VerifyAssumption DEF VerifyInit
<1>2. ChainShape
    BY SMTT(30), <1>1, EmptyLog DEF VerifyInit, ChainShape
<1>3. DamageShape /\ RowsFit
    BY DEF VerifyInit, DamageShape, RowsFit
<1>4. AuditShape /\ VerdictIsRight
    BY Zenon DEF VerifyInit, AuditShape, VerdictIsRight
<1> QED
    BY <1>2, <1>3, <1>4, Zenon DEF VerifyInv

\* The head moves by one (appendTx takes the next seq).
LEMMA HeadMoves ==
    ASSUME ChainShape, forkedFrom' = forkedFrom, DOMAIN stored' = (DOMAIN stored) \cup {HeadSeq + 1}
    PROVE  HeadSeq' = HeadSeq + 1 /\ DOMAIN stored' = (forkedFrom + 1)..(HeadSeq + 1)
<1>1. PICK n : n = HeadSeq
    BY Zenon
<1>2. n \in Nat /\ forkedFrom \in Nat /\ n >= forkedFrom /\ DOMAIN stored = (forkedFrom + 1)..n
    BY <1>1, Zenon DEF ChainShape
<1>3. DOMAIN stored' = (forkedFrom + 1)..(n + 1)
    BY SMTT(30), <1>1, <1>2
<1>4. IsFiniteSet(DOMAIN stored) /\ n + 1 \notin DOMAIN stored
    <2>1. IsFiniteSet((forkedFrom + 1)..n)
        BY <1>2, FS_Interval
    <2> QED
        BY SMTT(30), <1>2, <2>1
<1>5. Cardinality(DOMAIN stored') = Cardinality(DOMAIN stored) + 1 /\ Cardinality(DOMAIN stored) \in Nat
    BY <1>1, <1>4, FS_AddElement, FS_CardinalityType, Zenon
<1> QED
    BY SMTT(30), <1>1, <1>2, <1>3, <1>5 DEF HeadSeq

\* The rows of a window, while the log grows behind it.
LEMMA WindowStays ==
    ASSUME ChainShape, NEW from \in Nat, NEW to \in Nat, to <= HeadSeq,
           DOMAIN stored' = (DOMAIN stored) \cup {HeadSeq + 1},
           \A seq \in DOMAIN stored : stored'[seq] = stored[seq]
    PROVE  /\ {seq \in DOMAIN stored' : from <= seq /\ seq <= to /\ stored'[seq].content # NULL} = ChainedIn(from, to)
           /\ ChainedIn(from, to) \subseteq DOMAIN stored
<1>1. HeadSeq \in Nat /\ ~ (HeadSeq + 1 <= to)
    BY DEF ChainShape
<1> QED
    BY <1>1, Zenon DEF ChainedIn

\* An append writes a row that is linked to the one before it, and leaves the window of
\* a verification and its verdict as they are.
LEMMA AppendRowChain == ASSUME VerifyInv, AppendRow PROVE VerifyInv'
<1>0. /\ damaged = NoDamage /\ UNCHANGED <<forkedFrom, legacy, damaged, audit>>
      /\ stored' = [seq \in (DOMAIN stored) \cup {HeadSeq + 1} |->
                       IF seq \in DOMAIN stored THEN stored[seq] ELSE Row(seq)]
    BY Zenon DEF AppendRow
<1>s. ChainShape /\ RowsFit /\ AuditShape /\ VerdictIsRight
    BY Zenon DEF VerifyInv
<1>h. PICK n : n = HeadSeq
    BY Zenon
<1>n. n \in Nat /\ forkedFrom \in Nat /\ legacy \in Nat /\ n >= forkedFrom /\ DOMAIN stored = (forkedFrom + 1)..n
      /\ n + 1 \notin DOMAIN stored
    <2>1. n \in Nat /\ forkedFrom \in Nat /\ legacy \in Nat /\ n >= forkedFrom /\ DOMAIN stored = (forkedFrom + 1)..n
        BY <1>s, <1>h, Zenon DEF ChainShape
    <2> QED
        BY <2>1
<1>d. /\ DOMAIN stored' = (DOMAIN stored) \cup {n + 1}
      /\ \A seq \in DOMAIN stored : stored'[seq] = stored[seq]
      /\ stored'[n + 1] = Row(n + 1)
    BY <1>0, <1>h, <1>n, Zenon
<1>1. ChainShape'
    <2>1. HeadSeq' = n + 1 /\ DOMAIN stored' = (forkedFrom + 1)..(n + 1)
        BY <1>0, <1>s, <1>h, <1>d, HeadMoves, ZenonT(30)
    <2> QED
        BY SMTT(30), <1>0, <1>n, <2>1 DEF ChainShape
<1>2. DamageShape'
    BY <1>0, Zenon DEF DamageShape
<1>b. \A seq : ~ Broke(seq) /\ ~ Broke(seq)' /\ (Hashed(seq)' <=> Hashed(seq))
    BY Zenon, <1>0 DEF Broke, NoDamage, Hashed
<1>z. damaged.seq = 0 /\ damaged'.seq = 0
    BY Zenon, <1>0 DEF NoDamage
<1>3. RowsFit'
    <2>1. ASSUME NEW seq \in DOMAIN stored
          PROVE  /\ IsRow(stored'[seq])
                 /\ ~ Hashed(seq)' => stored'[seq].content = NULL /\ stored'[seq].chain = NULL
                 /\ Hashed(seq)' => HashesFit(seq)'
        <3>1. stored'[seq] = stored[seq] /\ damaged' = damaged
            BY <1>0, <1>d, Zenon
        <3>2. Before(seq)' = Before(seq)
            <4>1. seq - 1 \in DOMAIN stored' <=> seq - 1 \in DOMAIN stored
                BY <1>n, <1>d
            <4> QED
                BY <1>d, <4>1, Zenon DEF Before
        <3> QED
            BY <1>s, <1>b, <3>1, <3>2, Zenon DEF RowsFit, HashesFit
    <2>r. IsRow(stored'[n + 1])
        <3>1. \A k : Row(k) = [canonical |-> Row(k).canonical, content |-> Row(k).content, chain |-> Row(k).chain]
            BY Zenon DEF Row
        <3> QED
            BY <1>d, <3>1, Zenon DEF IsRow
    <2>2. ~ Hashed(n + 1)' => stored'[n + 1].content = NULL /\ stored'[n + 1].chain = NULL
        BY SMTT(30), <1>d, <1>n, <1>b DEF Row, Hashed
    <2>3. ASSUME Hashed(n + 1)
          PROVE  /\ stored'[n + 1].content = ContentHash(<<n + 1>>)
                 /\ stored'[n + 1].canonical = <<n + 1>>
                 /\ stored'[n + 1].chain = FoldChain(ChainHead, ContentHash(<<n + 1>>))
                 /\ ChainHead # <<"other">>
                 /\ ChainHead = IF n \in DOMAIN stored' /\ stored'[n].chain # NULL THEN stored'[n].chain ELSE Genesis
        <3>1. ~ ((n + 1) - forkedFrom <= legacy)
            BY SMTT(30), <1>n, <2>3 DEF Hashed
        <3>2. /\ stored'[n + 1].content = ContentHash(<<n + 1>>)
              /\ stored'[n + 1].canonical = <<n + 1>>
              /\ stored'[n + 1].chain = FoldChain(ChainHead, ContentHash(<<n + 1>>))
            <4>1. Row(n + 1) = [canonical |-> <<n + 1>>, content |-> ContentHash(<<n + 1>>),
                                chain |-> FoldChain(ChainHead, ContentHash(<<n + 1>>))]
                <5>1. \A k : ~ (k - forkedFrom <= legacy) =>
                             Row(k) = [canonical |-> <<k>>, content |-> ContentHash(<<k>>),
                                       chain |-> FoldChain(ChainHead, ContentHash(<<k>>))]
                    BY Zenon DEF Row
                <5>2. PICK k : k = n + 1
                    BY Zenon
                <5>3. ~ (k - forkedFrom <= legacy)
                    BY <3>1, <5>2, Zenon
                <5> QED
                    BY <5>1, <5>2, <5>3, Zenon
            <4> QED
                BY <1>d, <4>1
        <3>3. ChainHead = IF n \in DOMAIN stored' /\ stored'[n].chain # NULL THEN stored'[n].chain ELSE Genesis
            <4>1. n \in DOMAIN stored' <=> n \in DOMAIN stored
                BY <1>n, <1>d
            <4> QED
                BY <1>d, <1>h, <4>1, Zenon DEF ChainHead
        <3>4. ChainHead # <<"other">>
            <4>1. CASE n \in DOMAIN stored /\ stored[n].chain # NULL
                <5>1. Hashed(n)
                    BY <1>s, <4>1, Zenon DEF RowsFit
                <5>2. stored[n].chain = FoldChain(stored[n].chain[1], stored[n].content)
                    BY <1>s, <1>b, <4>1, <5>1, Zenon DEF RowsFit, HashesFit
                <5>3. FoldChain(stored[n].chain[1], stored[n].content) # <<"other">>
                    BY HashValues, Zenon
                <5>4. ChainHead = stored[n].chain
                    BY <1>h, <4>1, Zenon DEF ChainHead
                <5> QED
                    BY <5>2, <5>3, <5>4, Zenon
            <4>2. CASE ~ (n \in DOMAIN stored /\ stored[n].chain # NULL)
                BY <1>h, <4>2, HashValues, Zenon DEF ChainHead
            <4> QED
                BY Zenon, <4>1, <4>2
        <3> QED
            BY <3>2, <3>3, <3>4, Zenon
    <2>4. ASSUME NEW m, m = n + 1, Hashed(m) PROVE HashesFit(m)'
        <3>1. m - 1 = n /\ damaged'.seq # m
            BY SMTT(30), <1>n, <1>z, <2>4
        <3>2. stored'[m].chain[1] = ChainHead /\ ChainHead = Before(m)'
            <4>1. stored'[m].chain[1] = ChainHead
                BY <2>3, <2>4, HashValues, Zenon
            <4>2. ChainHead = Before(m)'
                BY <2>3, <2>4, <3>1, Zenon DEF Before
            <4> QED
                BY Zenon, <4>1, <4>2
        <3> QED
            BY <1>b, <2>3, <2>4, <3>1, <3>2, ZenonT(30) DEF HashesFit
    <2> QED
        <3> SUFFICES ASSUME NEW m \in DOMAIN stored'
                     PROVE  /\ IsRow(stored'[m])
                            /\ ~ Hashed(m)' => stored'[m].content = NULL /\ stored'[m].chain = NULL
                            /\ Hashed(m)' => HashesFit(m)'
            BY Zenon DEF RowsFit, IsRow
        <3>1. CASE m \in DOMAIN stored
            BY <2>1, <3>1, Zenon
        <3>2. CASE m = n + 1
            BY <1>b, <2>r, <2>2, <2>4, <3>2, ZenonT(30)
        <3> QED
            BY <1>d, <3>1, <3>2, Zenon
<1>4. /\ audit.at # "idle" => audit.from \in Nat /\ audit.to \in Nat /\ audit.to <= HeadSeq
    BY <1>s, Zenon DEF AuditShape
<1>w. audit.at # "idle" => /\ ChainedIn(audit.from, audit.to)' = ChainedIn(audit.from, audit.to)
                           /\ ChainedIn(audit.from, audit.to) \subseteq DOMAIN stored
    <2> SUFFICES ASSUME audit.at # "idle"
                 PROVE  /\ ChainedIn(audit.from, audit.to)' = ChainedIn(audit.from, audit.to)
                        /\ ChainedIn(audit.from, audit.to) \subseteq DOMAIN stored
        BY Zenon
    <2>1. PICK f, t : f = audit.from /\ t = audit.to
        BY Zenon
    <2>2. /\ {seq \in DOMAIN stored' : f <= seq /\ seq <= t /\ stored'[seq].content # NULL} = ChainedIn(f, t)
          /\ ChainedIn(f, t) \subseteq DOMAIN stored
        <3>1. /\ f \in Nat /\ t \in Nat /\ t <= HeadSeq /\ ChainShape
              /\ DOMAIN stored' = (DOMAIN stored) \cup {HeadSeq + 1}
              /\ \A seq \in DOMAIN stored : stored'[seq] = stored[seq]
            BY <1>s, <1>4, <1>d, <1>h, <2>1, ZenonT(30)
        <3> QED
            BY <3>1, WindowStays, Zenon
    <2> QED
        BY <1>0, <2>1, <2>2, Zenon DEF ChainedIn
<1>5. AuditShape'
    <2>1. audit.at # "idle" => audit.to <= HeadSeq'
        <3>1. HeadSeq' = n + 1
            BY <1>0, <1>s, <1>h, <1>d, HeadMoves, Zenon
        <3> QED
            BY SMTT(30), <1>4, <1>h, <1>n, <3>1
    <2>2. audit.at = "seed" => audit.rows = [seq \in ChainedIn(audit.from, audit.to) |-> stored'[seq]]
        <3> SUFFICES ASSUME audit.at = "seed"
                     PROVE  audit.rows = [seq \in ChainedIn(audit.from, audit.to) |-> stored'[seq]]
            BY Zenon
        <3>1. audit.rows = [seq \in ChainedIn(audit.from, audit.to) |-> stored[seq]]
            BY <1>s, Zenon DEF AuditShape
        <3>2. \A seq \in ChainedIn(audit.from, audit.to) : stored'[seq] = stored[seq]
            BY Zenon, <1>d, <1>w
        <3> QED
            BY <3>1, <3>2, Zenon
    <2>3. audit.at = "seed" => audit.at # "idle"
        BY Zenon
    <2> QED
        BY <1>0, <1>s, <1>w, <2>1, <2>2, <2>3, ZenonT(30) DEF AuditShape
<1>6. VerdictIsRight'
    <2>1. audit.at = "done" => audit.at # "idle"
        BY Zenon
    <2> QED
        BY <1>0, <1>s, <1>w, <2>1, Zenon DEF VerdictIsRight
<1> QED
    BY <1>1, <1>2, <1>3, <1>5, <1>6, ZenonT(30) DEF VerifyInv

\* A row is damaged before the verification starts, and only that row.
LEMMA DamageChain ==
    ASSUME VerifyInv, NEW seq, NEW what \in {"payload", "missing", "link"}, Damage(seq, what) PROVE VerifyInv'
<1>0. /\ damaged = NoDamage /\ audit.at = "idle" /\ seq \in DOMAIN stored /\ stored[seq].content # NULL
      /\ damaged' = [seq |-> seq, what |-> what] /\ UNCHANGED <<forkedFrom, legacy, audit>>
    BY Zenon DEF Damage
<1>s. ChainShape /\ RowsFit /\ AuditShape
    BY Zenon DEF VerifyInv
<1>n. forkedFrom \in Nat /\ legacy \in Nat /\ DOMAIN stored \subseteq Nat /\ \A m \in DOMAIN stored : m > 0
    BY <1>s DEF ChainShape
<1>d. damaged'.seq = seq /\ damaged'.what = what
    BY Zenon, <1>0
<1>h. Hashed(seq) /\ HashesFit(seq)
    BY <1>0, <1>s, Zenon DEF RowsFit
<1>o. /\ DOMAIN stored' = DOMAIN stored
      /\ \A m \in DOMAIN stored : m # seq => stored'[m] = stored[m]
    BY Zenon DEF Damage
<1>p. /\ stored'[seq].content = stored[seq].content
      /\ what = "link" => stored'[seq].canonical = stored[seq].canonical /\ stored'[seq].chain = <<"other">>
      /\ what # "link" => stored'[seq].canonical \in {<<0>>, NULL} /\ stored'[seq].chain = stored[seq].chain
    <2>1. PICK a, b, c : stored[seq] = [canonical |-> a, content |-> b, chain |-> c]
        BY <1>0, <1>s, ZenonT(30) DEF RowsFit, IsRow
    <2>2. CASE what = "payload"
        <3>1. stored'[seq] = [stored[seq] EXCEPT !.canonical = <<0>>]
            BY <1>0, <2>2, Zenon DEF Damage
        <3> QED
            BY Zenon, <2>1, <2>2, <3>1
    <2>3. CASE what = "missing"
        <3>1. stored'[seq] = [stored[seq] EXCEPT !.canonical = NULL]
            BY Zenon, <1>0, <2>3 DEF Damage
        <3> QED
            BY Zenon, <2>1, <2>3, <3>1
    <2>4. CASE what = "link"
        <3>1. stored'[seq] = [stored[seq] EXCEPT !.chain = <<"other">>]
            BY Zenon, <1>0, <2>4 DEF Damage
        <3> QED
            BY Zenon, <2>1, <2>4, <3>1
    <2> QED
        BY <2>2, <2>3, <2>4, Zenon
<1>r. \A m \in DOMAIN stored : IsRow(stored'[m])
    <2>1. ASSUME NEW m \in DOMAIN stored, m = seq PROVE IsRow(stored'[m])
        <3>1. PICK a, b, c : stored[seq] = [canonical |-> a, content |-> b, chain |-> c]
            BY <1>0, <1>s, ZenonT(30) DEF RowsFit, IsRow
        <3>2. \/ stored'[seq] = [stored[seq] EXCEPT !.canonical = <<0>>]
              \/ stored'[seq] = [stored[seq] EXCEPT !.canonical = NULL]
              \/ stored'[seq] = [stored[seq] EXCEPT !.chain = <<"other">>]
            BY Zenon, <1>0 DEF Damage
        <3>3. PICK x, y, z : stored'[seq] = [canonical |-> x, content |-> y, chain |-> z]
            BY Zenon, <3>1, <3>2
        <3> QED
            BY Zenon, <2>1, <3>3 DEF IsRow
    <2>2. ASSUME NEW m \in DOMAIN stored, m # seq PROVE IsRow(stored'[m])
        BY <1>s, <1>o, <2>2, Zenon DEF RowsFit
    <2> QED
        BY Zenon, <2>1, <2>2
<1>1. ChainShape'
    BY <1>0, <1>s, <1>o, Zenon DEF ChainShape, HeadSeq
<1>b. \A m : ~ Broke(m) /\ (Broke(m)' <=> what = "link" /\ m = seq) /\ (Hashed(m)' <=> Hashed(m))
    BY Zenon, <1>0, <1>d DEF Broke, NoDamage, Hashed
<1>2. DamageShape'
    BY <1>0, <1>b, <1>d, <1>h, <1>o, Zenon DEF DamageShape
<1>3. RowsFit'
    <2> SUFFICES ASSUME NEW m \in DOMAIN stored
                 PROVE  /\ ~ Hashed(m) => stored'[m].content = NULL /\ stored'[m].chain = NULL
                        /\ Hashed(m) => HashesFit(m)'
        BY <1>b, <1>o, <1>r, Zenon DEF RowsFit, IsRow
    <2>0. damaged.seq # m
        BY <1>0, <1>n DEF NoDamage
    <2>c. ~ Broke(m - 1)' => Before(m)' = Before(m)
        <3>1. ASSUME m - 1 # seq PROVE Before(m)' = Before(m)
            BY <1>o, <3>1, Zenon DEF Before
        <3>2. ASSUME what # "link" PROVE Before(m)' = Before(m)
            <4>1. \A k \in DOMAIN stored : stored'[k].chain = stored[k].chain
                BY <1>o, <1>p, <3>2, Zenon
            <4> QED
                BY <1>o, <4>1, Zenon DEF Before
        <3> QED
            BY <1>b, <3>1, <3>2, Zenon
    <2>1. CASE m # seq
        <3>1. stored'[m] = stored[m]
            BY <1>o, <2>1, Zenon
        <3>2. /\ ~ Hashed(m) => stored[m].content = NULL /\ stored[m].chain = NULL
              /\ Hashed(m) => HashesFit(m)
            BY <1>s, Zenon DEF RowsFit
        <3>3. damaged'.seq # m
            BY <1>d, <2>1, Zenon
        <3> QED
            BY <1>b, <2>0, <2>1, <2>c, <3>1, <3>2, <3>3, ZenonT(30) DEF HashesFit
    <2>2. CASE m = seq
        <3>1. /\ stored[m].content = ContentHash(<<m>>) /\ stored[m].canonical = <<m>>
              /\ stored[m].chain = FoldChain(stored[m].chain[1], stored[m].content)
              /\ stored[m].chain[1] # <<"other">> /\ stored[m].chain[1] = Before(m)
            BY <1>b, <1>h, <2>0, <2>2, Zenon DEF HashesFit
        <3>2. what # "link" => stored'[m].canonical # <<m>>
            <4>1. <<m>> # <<0>> /\ <<m>> # NULL
                BY Zenon, <1>n, HashValues
            <4> QED
                BY <1>p, <2>2, <4>1, Zenon
        <3> QED
            BY <1>b, <1>d, <1>h, <1>p, <2>2, <2>c, <3>1, <3>2, ZenonT(30) DEF HashesFit
    <2> QED
        BY Zenon, <2>1, <2>2
<1>4. AuditShape' /\ VerdictIsRight'
    BY Zenon, <1>0, <1>s DEF AuditShape, VerdictIsRight
<1> QED
    BY <1>1, <1>2, <1>3, <1>4, Zenon DEF VerifyInv

\* The rows with hashes are those after the legacy ones.
LEMMA HashedKnown ==
    ASSUME VerifyInv, NEW seq \in DOMAIN stored
    PROVE  /\ seq \in Nat /\ seq >= 1 /\ (stored[seq].content # NULL <=> Hashed(seq))
           /\ stored[seq].chain # NULL <=> Hashed(seq)
<1>1. seq \in Nat /\ seq >= 1
    BY DEF VerifyInv, ChainShape
<1>2. CASE ~ Hashed(seq)
    BY <1>1, <1>2, Zenon DEF VerifyInv, RowsFit
<1>3. CASE Hashed(seq)
    <2>1. HashesFit(seq)
        BY <1>3, Zenon DEF VerifyInv, RowsFit
    <2>2. stored[seq].content # NULL
        BY <2>1, HashValues, Zenon DEF HashesFit
    <2>3. stored[seq].chain # NULL
        <3>1. \A a, b : FoldChain(a, b) # NULL
            BY HashValues, Zenon
        <3>2. <<"other">> # NULL
            BY HashValues, Zenon
        <3> QED
            BY <2>1, <3>1, <3>2, Zenon DEF HashesFit
    <2> QED
        BY <1>1, <1>3, <2>2, <2>3, Zenon
<1> QED
    BY Zenon, <1>2, <1>3

\* A step of the verification leaves the log alone.
LEMMA AuditSide ==
    ASSUME VerifyInv, UNCHANGED <<forkedFrom, legacy, stored, damaged>>
    PROVE  /\ ChainShape' /\ DamageShape' /\ RowsFit' /\ HeadSeq' = HeadSeq
           /\ \A from, to : ChainedIn(from, to)' = {seq \in DOMAIN stored : from <= seq /\ seq <= to /\ stored[seq].content # NULL}
<1>1. HeadSeq' = HeadSeq /\ \A seq : /\ Hashed(seq)' <=> Hashed(seq)
                                     /\ Broke(seq)' <=> Broke(seq)
                                     /\ Before(seq)' = Before(seq)
    BY Zenon DEF HeadSeq, Hashed, Broke, Before
<1>2. ChainShape' /\ DamageShape'
    BY <1>1, Zenon DEF VerifyInv, ChainShape, DamageShape
<1>3. \A seq : HashesFit(seq)' <=> HashesFit(seq)
    BY <1>1, Zenon DEF HashesFit
<1>4. RowsFit'
    BY <1>1, <1>3, Zenon DEF VerifyInv, RowsFit
<1> QED
    BY <1>1, <1>2, <1>4, Zenon DEF ChainedIn

\* The window is clamped to the head.
LEMMA ReadHeadChain ==
    ASSUME VerifyInv, NEW from \in Nat, NEW to \in Nat, ReadHead(from, to) PROVE VerifyInv'
<1>0. UNCHANGED <<forkedFrom, legacy, stored, damaged>>
    BY Zenon DEF ReadHead
<1>1. ChainShape' /\ DamageShape' /\ RowsFit' /\ HeadSeq' = HeadSeq
    BY <1>0, AuditSide, Zenon
<1>2. HeadSeq \in Nat
    BY Zenon DEF VerifyInv, ChainShape
<1>3. PICK first, last : /\ first = IF from <= 0 THEN 1 ELSE from
                         /\ last = IF to <= 0 \/ to > HeadSeq THEN HeadSeq ELSE to
    BY Zenon
<1>4. first \in Nat /\ first >= 1 /\ last \in Nat /\ last <= HeadSeq
    BY <1>2, <1>3
<1>5. audit' = IF first > last
               THEN [at |-> "done", from |-> first, to |-> last, bad |-> 0, checked |-> 0]
               ELSE [at |-> "rows", from |-> first, to |-> last]
    BY <1>3, Zenon DEF ReadHead
<1>6. CASE first > last
    <2>1. audit'.at = "done" /\ audit'.from = first /\ audit'.to = last /\ audit'.bad = 0 /\ audit'.checked = 0
        BY Zenon, <1>5, <1>6
    <2>2. AuditShape'
        BY Zenon, <1>1, <1>4, <2>1 DEF AuditShape
    <2>3. ChainedIn(audit.from, audit.to)' = {}
        <3>1. DOMAIN stored \subseteq Nat
            BY DEF VerifyInv, ChainShape
        <3>2. \A seq \in DOMAIN stored : ~ (first <= seq /\ seq <= last)
            BY SMTT(30), <1>4, <1>6, <3>1
        <3> QED
            BY <1>0, <2>1, <3>2, Zenon DEF ChainedIn
    <2>4. VerdictIsRight'
        <3>1. Cardinality({}) = 0
            BY FS_EmptySet, Zenon
        <3>2. \A b : {seq \in {} : b = 0 \/ seq < b} = {}
            BY Zenon
        <3> QED
            BY <2>1, <2>3, <3>1, <3>2, Zenon DEF VerdictIsRight
    <2> QED
        BY <1>1, <2>2, <2>4, Zenon DEF VerifyInv
<1>7. CASE ~ (first > last)
    <2>1. audit'.at = "rows" /\ audit'.from = first /\ audit'.to = last
        BY Zenon, <1>5, <1>7
    <2>2. AuditShape' /\ VerdictIsRight'
        BY Zenon, <1>1, <1>4, <2>1 DEF AuditShape, VerdictIsRight
    <2> QED
        BY <1>1, <2>2, Zenon DEF VerifyInv
<1> QED
    BY Zenon, <1>6, <1>7

\* The rows read are those of the window that have hashes: there is none without one
\* after them (the loop that skips the leading rows).
LEMMA ReadWindowChain == ASSUME VerifyInv, ReadWindow PROVE VerifyInv'
<1>0. UNCHANGED <<forkedFrom, legacy, stored, damaged>> /\ audit.at = "rows"
    BY Zenon DEF ReadWindow
<1>1. ChainShape' /\ DamageShape' /\ RowsFit' /\ HeadSeq' = HeadSeq
    BY <1>0, AuditSide, Zenon
<1>2. PICK from, to : from = audit.from /\ to = audit.to
    BY Zenon
<1>3. from \in Nat /\ to \in Nat /\ from >= 1 /\ to <= HeadSeq
    <2>1. audit.at # "idle"
        BY Zenon, <1>0
    <2> QED
        BY <1>2, <2>1, Zenon DEF VerifyInv, AuditShape
<1>4. PICK window : window = {seq \in DOMAIN stored : from <= seq /\ seq <= to}
    BY Zenon
<1>5. PICK chained : chained = {seq \in window : \E early \in window : early <= seq /\ stored[early].content # NULL}
    BY Zenon
<1>6. audit' = IF chained = {}
               THEN [at |-> "done", from |-> from, to |-> to, bad |-> 0, checked |-> 0]
               ELSE [at |-> "seed", from |-> from, to |-> to, rows |-> [seq \in chained |-> stored[seq]]]
    BY <1>2, <1>4, <1>5, Zenon DEF ReadWindow
<1>7. chained = ChainedIn(from, to)
    <2>1. \A seq \in DOMAIN stored : seq \in Nat /\ (stored[seq].content # NULL <=> Hashed(seq))
        BY HashedKnown, Zenon
    <2>2. forkedFrom \in Nat /\ legacy \in Nat
        BY Zenon DEF VerifyInv, ChainShape
    <2>3. \A x, y \in Nat : x <= y /\ Hashed(x) => Hashed(y)
        BY <2>2 DEF Hashed
    <2>4. \A x \in Nat : x <= x
        OBVIOUS
    <2>5. \A seq : seq \in chained => seq \in ChainedIn(from, to)
        BY <1>4, <1>5, <2>1, <2>3, Zenon DEF ChainedIn
    <2>6. \A seq : seq \in ChainedIn(from, to) => seq \in chained
        BY <1>4, <1>5, <2>1, <2>4, Zenon DEF ChainedIn
    <2> QED
        BY <2>5, <2>6, Zenon
<1>8. CASE chained = {}
    <2>1. audit'.at = "done" /\ audit'.from = from /\ audit'.to = to /\ audit'.bad = 0 /\ audit'.checked = 0
        BY Zenon, <1>6, <1>8
    <2>2. AuditShape'
        BY Zenon, <1>1, <1>3, <2>1 DEF AuditShape
    <2>3. ChainedIn(audit.from, audit.to)' = {}
        BY <1>0, <1>7, <1>8, <2>1, Zenon DEF ChainedIn
    <2>4. VerdictIsRight'
        <3>1. Cardinality({}) = 0
            BY FS_EmptySet, Zenon
        <3>2. \A b : {seq \in {} : b = 0 \/ seq < b} = {}
            BY Zenon
        <3> QED
            BY <2>1, <2>3, <3>1, <3>2, Zenon DEF VerdictIsRight
    <2> QED
        BY <1>1, <2>2, <2>4, Zenon DEF VerifyInv
<1>9. CASE chained # {}
    <2>1. /\ audit'.at = "seed" /\ audit'.from = from /\ audit'.to = to
          /\ audit'.rows = [seq \in chained |-> stored[seq]]
        BY Zenon, <1>6, <1>9
    <2>2. ChainedIn(audit.from, audit.to)' = chained
        BY <1>0, <1>7, <2>1, Zenon DEF ChainedIn
    <2>3. audit'.rows = [seq \in ChainedIn(audit.from, audit.to)' |-> stored'[seq]]
        BY <1>0, <2>1, <2>2, Zenon
    <2>4. audit'.at # "done" /\ audit'.at # "idle"
        BY Zenon, <2>1
    <2>5. AuditShape' /\ VerdictIsRight'
        BY <1>1, <1>3, <1>9, <2>1, <2>2, <2>3, <2>4, ZenonT(30) DEF AuditShape, VerdictIsRight
    <2> QED
        BY <1>1, <2>5, Zenon DEF VerifyInv
<1> QED
    BY Zenon, <1>8, <1>9

\* A row passes where nothing was changed: neither the row, nor the link it is folded on.
LEMMA RowPasses ==
    ASSUME VerifyInv, NEW seq \in DOMAIN stored, Hashed(seq)
    PROVE  RowVerifies(stored[seq], Before(seq)) <=> ~ (damaged.seq = seq \/ Broke(seq - 1))
<1>1. HashesFit(seq)
    BY Zenon DEF VerifyInv, RowsFit
<1>2. PICK row : row = stored[seq]
    BY Zenon
<1>3. /\ row.content = ContentHash(<<seq>>)
      /\ row.canonical = <<seq>> <=> ~ (damaged.seq = seq /\ damaged.what # "link")
      /\ Broke(seq) => row.chain = <<"other">>
      /\ ~ Broke(seq) => /\ row.chain = FoldChain(row.chain[1], row.content)
                         /\ row.chain[1] # <<"other">>
                         /\ ~ Broke(seq - 1) => row.chain[1] = Before(seq)
    BY <1>1, <1>2, Zenon DEF HashesFit
<1>4. <<seq>> # NULL
    <2>1. seq \in Nat
        BY DEF VerifyInv, ChainShape
    <2> QED
        BY <2>1, HashValues, Zenon
<1>5. row.canonical # NULL /\ ContentHash(row.canonical) = row.content <=> row.canonical = <<seq>>
    <2>1. ContentHash(row.canonical) = ContentHash(<<seq>>) => row.canonical = <<seq>>
        BY HashValues, Zenon
    <2> QED
        BY <1>3, <1>4, <2>1, Zenon
<1>6. FoldChain(Before(seq), row.content) = row.chain <=> ~ Broke(seq) /\ ~ Broke(seq - 1)
    <2>1. CASE Broke(seq)
        BY <1>3, <2>1, HashValues, ZenonT(30)
    <2>2. CASE ~ Broke(seq) /\ ~ Broke(seq - 1)
        BY <1>3, <2>2, Zenon
    <2>3. CASE ~ Broke(seq) /\ Broke(seq - 1)
        <3>1. Before(seq) = <<"other">>
            <4>1. seq - 1 \in DOMAIN stored /\ Hashed(seq - 1)
                BY <2>3 DEF VerifyInv, DamageShape, Broke, NoDamage
            <4>2. stored[seq - 1].chain = <<"other">>
                BY <2>3, <4>1, Zenon DEF VerifyInv, RowsFit, HashesFit
            <4> QED
                BY <4>1, <4>2, HashValues, Zenon DEF Before
        <3>2. row.chain = FoldChain(row.chain[1], row.content) /\ row.chain[1] # <<"other">>
            BY <1>3, <2>3, Zenon
        <3>3. \A a, b, c : FoldChain(a, c) = FoldChain(b, c) => a = b
            BY HashValues, Zenon
        <3> QED
            BY <2>3, <3>1, <3>2, <3>3, Zenon
    <2> QED
        BY <2>1, <2>2, <2>3, Zenon
<1> QED
    BY <1>2, <1>3, <1>5, <1>6, Zenon DEF RowVerifies, Broke

\* The chain hash a row of the window is compared with is the one it was linked to,
\* whether it comes from the row before it or, for the first, from verifySeedPrev.
LEMMA SeedIsBefore ==
    ASSUME VerifyInv, NEW from \in Nat, NEW to \in Nat, from >= 1, NEW C, C = ChainedIn(from, to), C # {}
    PROVE  /\ C \subseteq Nat /\ Min(C) \in C /\ \A seq \in C : Min(C) <= seq
           /\ verifySeedPrev(Min(C)) = Before(Min(C))
           /\ \A seq \in C : seq # Min(C) => seq - 1 \in C /\ Before(seq) = stored[seq - 1].chain
           /\ \A seq \in C : seq \in DOMAIN stored /\ Hashed(seq)
<1>1. \A seq \in C : seq \in DOMAIN stored /\ Hashed(seq) /\ from <= seq /\ seq <= to
    BY HashedKnown, Zenon DEF ChainedIn
<1>2. C \subseteq Nat
    BY <1>1, HashedKnown, Zenon
<1>3. Min(C) \in C /\ \A seq \in C : Min(C) <= seq
    BY <1>2, MinIsIn, Zenon
<1>4. ASSUME NEW seq \in C, seq # Min(C) PROVE seq - 1 \in C /\ Before(seq) = stored[seq - 1].chain
    <2>1. PICK f : f = Min(C)
        BY Zenon
    <2>2. /\ f \in DOMAIN stored /\ Hashed(f) /\ from <= f /\ f <= seq /\ f # seq
          /\ seq \in DOMAIN stored /\ seq <= to /\ f \in Nat /\ seq \in Nat
        BY <1>1, <1>2, <1>3, <1>4, <2>1, ZenonT(30)
    <2>3. f <= seq - 1 /\ seq - 1 <= seq /\ seq - 1 \in Nat
        BY <2>2
    <2>4. forkedFrom \in Nat /\ legacy \in Nat /\ HeadSeq \in Nat /\ DOMAIN stored = (forkedFrom + 1)..HeadSeq
        BY Zenon DEF VerifyInv, ChainShape
    <2>5. seq - 1 \in DOMAIN stored
        BY SMTT(30), <2>2, <2>3, <2>4
    <2>6. Hashed(seq - 1)
        BY SMTT(30), <2>2, <2>3, <2>4 DEF Hashed
    <2>7. from <= seq - 1 /\ seq - 1 <= to
        BY <2>2, <2>3
    <2>8. stored[seq - 1].content # NULL /\ stored[seq - 1].chain # NULL
        BY <2>5, <2>6, HashedKnown, Zenon
    <2> QED
        BY <2>5, <2>7, <2>8, Zenon DEF ChainedIn, Before
<1>5. verifySeedPrev(Min(C)) = Before(Min(C))
    <2>1. PICK f : f = Min(C)
        BY Zenon
    <2>2. f \in Nat
        BY <1>2, <1>3, <2>1, Zenon
    <2>3. f - 1 \in DOMAIN stored => f > 1
        <3>1. \A seq \in DOMAIN stored : seq \in Nat /\ seq >= 1
            BY HashedKnown, ZenonT(30)
        <3> QED
            BY <2>2, <3>1
    <2> QED
        BY <2>1, <2>3, Zenon DEF verifySeedPrev, Before
<1> QED
    BY <1>1, <1>2, <1>3, <1>4, <1>5, ZenonT(30)

\* The rows that do not pass are the damaged one and, after a changed link, the next.
LEMMA CompareRowsChain == ASSUME VerifyInv, CompareRows PROVE VerifyInv'
<1>0. UNCHANGED <<forkedFrom, legacy, stored, damaged>> /\ audit.at = "seed"
    BY Zenon DEF CompareRows
<1>1. ChainShape' /\ DamageShape' /\ RowsFit' /\ HeadSeq' = HeadSeq
    BY <1>0, AuditSide, Zenon
<1>2. PICK from, to : from = audit.from /\ to = audit.to
    OBVIOUS
<1>3. PICK C : C = ChainedIn(from, to)
    BY Zenon
<1>4. /\ from \in Nat /\ to \in Nat /\ from >= 1 /\ to <= HeadSeq /\ C # {}
      /\ audit.rows = [seq \in C |-> stored[seq]]
    <2>1. audit.at # "idle"
        BY Zenon, <1>0
    <2> QED
        BY <1>0, <1>2, <1>3, <2>1, Zenon DEF VerifyInv, AuditShape
<1>5. DOMAIN audit.rows = C /\ \A seq \in C : audit.rows[seq] = stored[seq]
    BY <1>4, Zenon
<1>c. /\ C \subseteq Nat /\ Min(C) \in C
      /\ verifySeedPrev(Min(C)) = Before(Min(C))
      /\ \A seq \in C : seq # Min(C) => seq - 1 \in C /\ Before(seq) = stored[seq - 1].chain
      /\ \A seq \in C : seq \in DOMAIN stored /\ Hashed(seq)
    BY <1>3, <1>4, SeedIsBefore, Zenon
<1>6. \A seq \in C : (IF seq = Min(C) THEN verifySeedPrev(Min(C)) ELSE audit.rows[seq - 1].chain) = Before(seq)
    BY <1>5, <1>c, Zenon
<1>7. PICK bad : bad = {seq \in C : damaged.seq = seq \/ Broke(seq - 1)}
    BY Zenon
<1>8. \A seq \in C : ~ RowVerifies(audit.rows[seq], Before(seq)) <=> seq \in bad
    BY <1>5, <1>7, <1>c, RowPasses, Zenon
<1>9. audit' = [at |-> "done", from |-> from, to |-> to,
                bad |-> IF bad = {} THEN 0 ELSE Min(bad),
                checked |-> Cardinality({seq \in C : \A b \in bad : seq < b})]
    <2>1. PICK prev : prev = [seq \in C |-> IF seq = Min(C) THEN verifySeedPrev(Min(C)) ELSE audit.rows[seq - 1].chain]
        BY Zenon
    <2>2. bad = {seq \in C : ~ RowVerifies(audit.rows[seq],
                                 IF seq = Min(C) THEN verifySeedPrev(Min(C)) ELSE audit.rows[seq - 1].chain)}
        <3>1. \A seq : seq \in bad => seq \in C
            BY <1>7, Zenon
        <3> QED
            BY <1>6, <1>8, <3>1, Zenon
    <2> QED
        BY <1>2, <1>5, <2>2, Zenon DEF CompareRows
<1>10. PICK d : d = damaged.seq
    BY Zenon
<1>11. PICK blamed : blamed = IF d \in C THEN d
                              ELSE IF damaged.what = "link" /\ d = from - 1 /\ C # {} THEN from ELSE 0
    BY Zenon
<1>12. /\ (IF bad = {} THEN 0 ELSE Min(bad)) = blamed
       /\ {seq \in C : \A b \in bad : seq < b} = {seq \in C : blamed = 0 \/ seq < blamed}
    <2>0. \A x \in C : x \in Nat /\ x >= 1 /\ x >= from /\ x <= to /\ x \in DOMAIN stored /\ Hashed(x)
        BY <1>3, <1>c, HashedKnown, ZenonT(30) DEF ChainedIn
    <2>d. d \in Nat /\ (d # 0 => d \in DOMAIN stored /\ Hashed(d)) /\ (damaged.what = "link" => d # 0)
        <3>1. \A x \in DOMAIN stored : x \in Nat /\ x >= 1
            BY HashedKnown, Zenon
        <3> QED
            BY <1>10, <3>1 DEF VerifyInv, DamageShape, NoDamage
    <2>b. \A seq \in C : seq \in bad <=> seq = d \/ (damaged.what = "link" /\ d = seq - 1)
        BY <1>7, <1>10, Zenon DEF Broke
    <2>1. CASE d \in C
        <3>1. d \in bad /\ \A b \in bad : d <= b
            BY SMTT(30), <1>7, <2>0, <2>b, <2>1
        <3>2. bad \subseteq Nat /\ bad # {}
            BY Zenon, <1>7, <2>0, <3>1
        <3>3. Min(bad) = d
            <4>1. PICK m : m = Min(bad)
                BY Zenon
            <4>2. m \in Nat /\ d <= m /\ m <= d
                BY <3>1, <3>2, <4>1, MinIsIn, ZenonT(30)
            <4> QED
                BY SMTT(30), <2>d, <4>1, <4>2
        <3>4. blamed = d /\ d # 0
            BY SMTT(30), <1>11, <2>0, <2>1
        <3>5. \A x \in C : (\A b \in bad : x < b) <=> x < d
            BY SMTT(30), <2>0, <2>d, <3>1, <3>2
        <3> QED
            BY <3>2, <3>3, <3>4, <3>5, ZenonT(30)
    <2>2. CASE d \notin C /\ damaged.what = "link" /\ d = from - 1
        <3>1. from \in C
            <4>1. PICK x \in C : TRUE
                BY Zenon, <1>4
            <4>2. forkedFrom \in Nat /\ legacy \in Nat /\ HeadSeq \in Nat /\ DOMAIN stored = (forkedFrom + 1)..HeadSeq
                BY Zenon DEF VerifyInv, ChainShape
            <4>3. /\ x \in Nat /\ x >= from /\ x <= to /\ x \in DOMAIN stored
                  /\ d \in DOMAIN stored /\ Hashed(d) /\ from = d + 1
                BY SMTT(30), <1>4, <2>0, <2>2, <2>d
            <4>4. from \in DOMAIN stored /\ Hashed(from) /\ from <= to
                BY SMTT(30), <1>4, <4>2, <4>3 DEF Hashed
            <4>5. stored[from].content # NULL /\ from <= from
                BY SMTT(30), <1>4, <4>4, HashedKnown
            <4> QED
                BY <1>3, <4>4, <4>5, Zenon DEF ChainedIn
        <3>2. from \in bad /\ \A b \in bad : b = from
            BY SMTT(30), <1>4, <1>7, <2>0, <2>2, <2>b, <3>1
        <3>3. bad = {from} /\ bad # {} /\ bad \subseteq Nat
            BY Zenon, <1>4, <3>2
        <3>4. Min(bad) = from
            BY <3>2, <3>3, MinIsIn, ZenonT(30)
        <3>5. blamed = from /\ from # 0
            BY SMTT(30), <1>4, <1>11, <2>2
        <3> QED
            BY <3>3, <3>4, <3>5, Zenon
    <2>3. CASE d \notin C /\ ~ (damaged.what = "link" /\ d = from - 1)
        <3>1. bad = {}
            <4> SUFFICES ASSUME NEW seq \in C, seq \in bad PROVE FALSE
                BY <1>7, Zenon
            <4>1. damaged.what = "link" /\ d = seq - 1
                BY <2>3, <2>b, Zenon
            <4>2. /\ seq \in Nat /\ seq >= from /\ seq <= to /\ d \in DOMAIN stored /\ Hashed(d)
                BY <2>0, <2>d, <4>1, ZenonT(30)
            <4>3. d >= from /\ d <= to
                BY SMTT(30), <1>4, <2>3, <2>d, <4>1, <4>2
            <4>4. d \in C
                BY ZenonT(30), <1>3, <4>2, <4>3, HashedKnown DEF ChainedIn
            <4> QED
                BY Zenon, <2>3, <4>4
        <3>2. blamed = 0
            BY <1>11, <2>3, Zenon
        <3> QED
            BY <3>1, <3>2, Zenon
    <2> QED
        BY <2>1, <2>2, <2>3, ZenonT(30)
<1>13. /\ audit'.at = "done" /\ audit'.from = from /\ audit'.to = to /\ audit'.bad = blamed
       /\ audit'.checked = Cardinality({seq \in C : blamed = 0 \/ seq < blamed})
    <2>1. PICK n, k : /\ n = (IF bad = {} THEN 0 ELSE Min(bad))
                      /\ k = Cardinality({seq \in C : \A b \in bad : seq < b})
        BY Zenon
    <2>2. audit' = [at |-> "done", from |-> from, to |-> to, bad |-> n, checked |-> k]
        BY <1>9, <2>1, Zenon
    <2>3. audit'.at = "done" /\ audit'.from = from /\ audit'.to = to /\ audit'.bad = n /\ audit'.checked = k
        BY Zenon, <2>2
    <2> QED
        BY <1>12, <2>1, <2>3, Zenon
<1>14. ChainedIn(audit.from, audit.to)' = C
    BY <1>0, <1>3, <1>13, Zenon DEF ChainedIn
<1>15. AuditShape'
    BY Zenon, <1>1, <1>4, <1>13 DEF AuditShape
<1>16. VerdictIsRight'
    BY <1>0, <1>10, <1>11, <1>13, <1>14, ZenonT(30) DEF VerdictIsRight
<1> QED
    BY <1>1, <1>15, <1>16, Zenon DEF VerifyInv

\* Over any window of a log that nobody touched the verdict is valid and counts the
\* window's rows with hashes, also while the session grows, forks and starts with rows
\* without hashes; a changed row or link is reported where it is (VerifyChainIntegrity).
THEOREM VerdictStaysRight == VerifySpec => []VerdictIsRight
<1>1. VerifyInit => VerifyInv
    BY ChainStart
<1>2. VerifyInv /\ [VerifyNext]_verifyVars => VerifyInv'
    <2> SUFFICES ASSUME VerifyInv, [VerifyNext]_verifyVars PROVE VerifyInv'
        OBVIOUS
    <2>1. CASE AppendRow
        BY <2>1, AppendRowChain, Zenon
    <2>2. CASE \E seq \in 1..MaxSeq, what \in {"payload", "missing", "link"} : Damage(seq, what)
        BY <2>2, DamageChain, Zenon
    <2>3. CASE \E from, to \in 0..MaxSeq : ReadHead(from, to)
        <3>1. 0..MaxSeq \subseteq Nat
            BY SMTT(30), VerifyAssumption
        <3> QED
            BY <2>3, <3>1, ReadHeadChain, Zenon
    <2>4. CASE ReadWindow
        BY <2>4, ReadWindowChain, Zenon
    <2>5. CASE CompareRows
        BY <2>5, CompareRowsChain, Zenon
    <2>6. CASE UNCHANGED verifyVars
        <3>1. UNCHANGED <<forkedFrom, legacy, stored, damaged, audit>>
            BY <2>6, Zenon DEF verifyVars
        <3>2. /\ ChainShape' /\ DamageShape' /\ RowsFit' /\ HeadSeq' = HeadSeq
            BY <3>1, AuditSide, Zenon
        <3>3. ChainedIn(audit.from, audit.to)' = ChainedIn(audit.from, audit.to)
            BY <3>1, Zenon DEF ChainedIn
        <3>4. AuditShape' /\ VerdictIsRight'
            BY <3>1, <3>2, <3>3, Zenon DEF VerifyInv, AuditShape, VerdictIsRight
        <3> QED
            BY <3>2, <3>4, Zenon DEF VerifyInv
    <2> QED
        BY <2>1, <2>2, <2>3, <2>4, <2>5, <2>6, ZenonT(30) DEF VerifyNext
<1>3. VerifyInv => VerdictIsRight
    BY Zenon DEF VerifyInv
<1> QED
    BY <1>1, <1>2, <1>3, PTL DEF VerifySpec
=============================================================================
