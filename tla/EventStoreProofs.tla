-------------------------- MODULE EventStoreProofs --------------------------
(***************************************************************************)
(* Proofs about EventStore: the COMMIT of an append, the invariant that    *)
(* carries what its gate found up to there with the safety properties that *)
(* follow, that EventStore implements SessionLog, and what the answers of  *)
(* the calls are worth.                                                    *)
(***************************************************************************)
EXTENDS EventStore, TLAPS

-----------------------------------------------------------------------------
(***************************************************************************)
(* The COMMIT of an append keeps the invariant of EventStore: the proof    *)
(* for the one step that changes the log.                                  *)
(***************************************************************************)

(* The hash chain *)

\* The NULL chain head and every genesis are chain hashes.
LEMMA ChainStarts ==
    /\ << >> \in ChainValues
    /\ \A s \in Sessions : GenesisChainHash(s) \in ChainValues /\ GenesisChainHash(s) # << >>
  BY DEF ChainValues, GenesisChainHash

\* Folding i events onto a chain hash gives a chain hash.
LEMMA FoldType ==
    ASSUME NEW r \in Requests, NEW prev \in ChainValues, NEW i \in 0..MaxBatch
    PROVE  ChainFold(prev, r, i) \in ChainValues
<1> DEFINE S == Sessions \cup (Requests \X (1..MaxBatch))
           new == [j \in 1..i |-> Content(r, j)]
<1>1. \A j \in 1..i : Content(r, j) \in S
  BY BoundsAssumption DEF Content
<1>2. new \in Seq(S)
  BY <1>1, BoundsAssumption
<1> QED
  BY <1>2 DEF ChainFold, ChainValues

\* Folding no events leaves the chain hash as it is.
LEMMA FoldNone ==
    ASSUME NEW r \in Requests, NEW prev \in ChainValues
    PROVE  ChainFold(prev, r, 0) = prev
<1> DEFINE S == Sessions \cup (Requests \X (1..MaxBatch))
           new == [j \in 1..0 |-> Content(r, j)]
<1>1. new = << >>
  OBVIOUS
<1> QED
  BY <1>1 DEF ChainFold, ChainValues

\* Folding i events is folding the i-th onto the fold of those before it.
LEMMA FoldStep ==
    ASSUME NEW r \in Requests, NEW prev \in ChainValues, NEW i \in 1..MaxBatch
    PROVE  /\ ChainFold(prev, r, i) = ChainHash(ChainFold(prev, r, i - 1), Content(r, i))
           /\ ChainFold(prev, r, i) # << >>
<1> DEFINE S == Sessions \cup (Requests \X (1..MaxBatch))
           a == [j \in 1..i |-> Content(r, j)]
           b == [j \in 1..(i - 1) |-> Content(r, j)]
<1>1. \A j \in 1..i : Content(r, j) \in S
  BY BoundsAssumption DEF Content
<1>2. a \in Seq(S) /\ b \in Seq(S) /\ Len(a) = i /\ Len(b) = i - 1
  BY <1>1, BoundsAssumption
<1>3. prev \o a = Append(prev \o b, Content(r, i))
  <2> HIDE DEF S
  <2>0. prev \in Seq(S)
    BY Zenon DEF S, ChainValues
  <2>1. prev \o a \in Seq(S) /\ Len(prev \o a) = Len(prev) + i
    BY <1>2, <2>0
  <2>2. prev \o b \in Seq(S) /\ Len(prev \o b) = Len(prev) + i - 1
    BY <1>2, <2>0
  <2> QED
    BY <1>1, <1>2, <2>0, <2>1, <2>2
<1> QED
  BY <1>2, <1>3 DEF ChainFold, ChainHash, ChainValues

-----------------------------------------------------------------------------
(* The commit *)

\* The rows of an append that passed the gate are new.
LEMMA CommitIsFree ==
    ASSUME IndInv, NEW c \in Calls, pc[c] = "commit"
    PROVE  ~ ViolatesUnique(insertEvents(req[c], prevChain[c]))
<1> DEFINE a == sent[req[c]]
<1>1. req[c] \in Requests /\ a.session \in Sessions /\ a \in Appends
  BY Zenon DEF IndInv, CallsAreAppends, AppendsHaveSessions, TypeOK
<1>2. head[a.session] = a.expected
  BY Zenon DEF IndInv, GateStillHolds, GateMatches, Holding
<1>3. \A f \in events : f.session = a.session => f.seq <= a.expected
  BY <1>1, <1>2, BoundsAssumption DEF IndInv, Contiguous, TypeOK, EventRows
<1>4. \A e \in insertEvents(req[c], prevChain[c]) : e.session = a.session /\ e.seq > a.expected
  BY <1>1 DEF insertEvents, Appends
<1>5. \A f \in events : f.seq \in Int
  BY DEF IndInv, TypeOK, EventRows
<1>6. \A e \in insertEvents(req[c], prevChain[c]) : e.seq \in Int
  BY <1>1 DEF insertEvents, Appends
<1> HIDE DEF a
<1> QED
  BY <1>1, <1>3, <1>4, <1>5, <1>6 DEF ViolatesUnique, Appends

\* The committed rows extend the log and the chain at their ends.
LEMMA CommitInv ==
    ASSUME IndInv, NEW c \in Calls, Commit(c)
    PROVE  IndInv'
<1> DEFINE r == req[c]
           a == sent[r]
           s == a.session
           new == insertEvents(r, prevChain[c])
           row(i) == [session |-> s, seq |-> a.expected + i, request |-> r,
                      i |-> i, chain |-> ChainFold(prevChain[c], r, i)]
<1>1. /\ r \in Requests /\ s \in Sessions /\ pc[c] = "commit"
      /\ a.n \in 1..MaxBatch /\ a.expected \in 0..MaxHead /\ a.epoch \in 0..MaxEpoch
      /\ a.expected + a.n \in 0..MaxHead
  BY BoundsAssumption
  DEF Commit, IndInv, CallsAreAppends, AppendsHaveSessions, TypeOK, Appends
<1>2. /\ head[s] = a.expected /\ status[s] = "active" /\ epoch[s] = a.epoch
      /\ prevChain[c] = loadChainHead(s) /\ prevChain[c] \in ChainValues /\ rowLock[s] = c
  BY <1>1 DEF IndInv, GateStillHolds, GateMatches, Holding, TypeOK, LocksAreHeld
<1>3. ~ ViolatesUnique(new)
  BY Zenon, <1>1, CommitIsFree
<1>4. /\ events' = events \cup new
      /\ head' = [head EXCEPT ![s] = a.expected + a.n]
      /\ chainHead' = [chainHead EXCEPT ![s] = ChainFold(prevChain[c], r, a.n)]
      /\ rowLock' = [rowLock EXCEPT ![s] = None]
      /\ pc' = [pc EXCEPT ![c] = "idle"]
      /\ prevChain' = [prevChain EXCEPT ![c] = << >>]
      /\ \E result \in {"ok", "error"} : res' = [res EXCEPT ![c] = result]
      /\ UNCHANGED <<status, epoch, parent, fork, sent, req>>
  BY Zenon, <1>3 DEF Commit, Return, NewHead
<1>5. new = {row(i) : i \in 1..a.n}
  BY Zenon DEF insertEvents
<1>6. \A i \in 1..a.n : row(i) \in EventRows
  BY SMTT(30), <1>1, <1>2, FoldType, BoundsAssumption DEF EventRows
<1>7. \A e \in events : /\ e.request = r => FALSE
                        /\ e.session = s => e.seq <= a.expected
  BY <1>1, <1>2, BoundsAssumption DEF IndInv, Contiguous, TypeOK, EventRows, RowsAreAsSent, Appends
<1>8. \A d \in Calls : d # c => /\ Holding(d)' <=> Holding(d)
                                /\ Holding(d) => sent[req[d]].session # s
  BY <1>1, <1>2, <1>4 DEF IndInv, TypeOK, Holding, LocksAreHeld
<1>9. ~ Holding(c)'
  BY Zenon, <1>4 DEF IndInv, TypeOK, Holding
<1> HIDE DEF r, a, s, new
<1>10. TypeOK'
  <2>1. ChainFold(prevChain[c], r, a.n) \in ChainValues
    BY <1>1, <1>2, FoldType
  <2>2. events' \subseteq EventRows
    BY <1>4, <1>5, <1>6 DEF IndInv, TypeOK
  <2> QED
    BY <1>1, <1>4, <2>1, <2>2, ChainStarts DEF IndInv, TypeOK, PCs, Results
<1>11. CallsAreAppends'
  BY Zenon, <1>4 DEF IndInv, TypeOK, CallsAreAppends
<1>12. AppendsHaveSessions'
  BY Zenon, <1>4 DEF IndInv, AppendsHaveSessions
<1>13. LocksAreHeld'
  <2>1. ASSUME NEW d \in Calls, Holding(d)'
        PROVE  (rowLock[sent[req[d]].session] = d)'
    BY <2>1, <1>1, <1>4, <1>8, <1>9 DEF IndInv, TypeOK, LocksAreHeld
  <2>2. ASSUME NEW t \in Sessions, rowLock'[t] # None
        PROVE  Holding(rowLock[t])' /\ sent'[req'[rowLock'[t]]].session = t
    <3>1. t # s /\ rowLock'[t] = rowLock[t] /\ rowLock[t] \in Calls
      BY Zenon, <2>2, <1>1, <1>4 DEF IndInv, TypeOK
    <3>2. Holding(rowLock[t]) /\ sent[req[rowLock[t]]].session = t
      BY Zenon, <2>2, <3>1 DEF IndInv, LocksAreHeld
    <3>3. rowLock[t] # c
      BY Zenon, <3>1, <3>2 DEF a, s, r
    <3> QED
      BY Zenon, <3>1, <3>2, <3>3, <1>4, <1>8 DEF Holding
  <2> QED
    BY Zenon, <2>1, <2>2 DEF LocksAreHeld
<1>14. GateStillHolds'
  <2>1. ASSUME NEW d \in Calls, Holding(d)' PROVE d # c /\ Holding(d) /\ sent[req[d]].session # s
    BY Zenon, <2>1, <1>8, <1>9
  <2>2. ASSUME NEW d \in Calls, Holding(d)' PROVE GateMatches(sent[req[d]])'
    BY <2>2, <2>1, <1>1, <1>4 DEF IndInv, TypeOK, GateStillHolds, GateMatches
  <2>3. ASSUME NEW d \in Calls, (pc[d] = "commit")'
        PROVE  (prevChain[d] = loadChainHead(sent[req[d]].session))'
    <3>1. d # c /\ pc[d] = "commit" /\ sent[req[d]].session # s
      BY Zenon, <2>3, <2>1, <1>4 DEF IndInv, TypeOK, Holding
    <3> QED
      BY <3>1, <1>1, <1>4 DEF IndInv, TypeOK, GateStillHolds, loadChainHead
  <2> QED
    BY Zenon, <2>2, <2>3 DEF GateStillHolds
<1>15. AbsentIsEmpty'
  BY SMTT(30), <1>1, <1>2, <1>4, BoundsAssumption DEF IndInv, TypeOK, AbsentIsEmpty
<1>16. RowsAreAsSent'
  <2> SUFFICES ASSUME NEW e \in events'
               PROVE  /\ sent[e.request].n # 0 /\ e.i <= sent[e.request].n
                      /\ e.session = sent[e.request].session
                      /\ e.seq = sent[e.request].expected + e.i
    BY Zenon, <1>4 DEF RowsAreAsSent
  <2>1. CASE e \in events
    BY Zenon, <2>1 DEF IndInv, RowsAreAsSent
  <2>2. CASE e \in new
    <3>1. PICK i \in 1..a.n : e = row(i)
      BY Zenon, <2>2, <1>5
    <3>2. e.request = r /\ e.i = i /\ e.session = s /\ e.seq = a.expected + i
      BY Zenon, <3>1
    <3> QED
      BY <3>2, <1>1 DEF a, s
  <2> QED
    BY Zenon, <2>1, <2>2, <1>4
<1>17. LandsOnceAndWhole'
  <2>1. ASSUME NEW q \in Requests, q # r
        PROVE  {e \in events' : e.request = q} = {e \in events : e.request = q}
    BY <2>1, <1>4, <1>5
  <2>2. {e \in events' : e.request = r} = new
    BY <1>4, <1>5, <1>7
  <2>3. {e.i : e \in new} = 1..a.n
    <3>1. \A i \in 1..a.n : row(i) \in new /\ row(i).i = i
      BY Zenon, <1>5
    <3>2. \A e \in new : e.i \in 1..a.n
      BY <1>5
    <3> QED
      BY Zenon, <3>1, <3>2
  <2>4. \A e \in new : e.session = s /\ e.seq = a.expected + e.i
    BY <1>5
  <2> QED
    BY <2>1, <2>2, <2>3, <2>4, <1>4 DEF IndInv, LandsOnceAndWhole, a, s
<1>18. Contiguous'
  <2> SUFFICES ASSUME NEW t \in Sessions
               PROVE  /\ \A k \in 1..MaxHead :
                             (\E e \in events' : e.session = t /\ e.seq = k)
                                 <=> (fork'[t] < k /\ k <= head'[t])
                      /\ \A e, f \in events' : e.session = t /\ f.session = t /\ e.seq = f.seq => e = f
    BY Zenon DEF Contiguous
  <2>1. CASE t # s
    BY SMTT(30), <2>1, <1>1, <1>4, <1>5 DEF IndInv, TypeOK, Contiguous
  <2>2. CASE t = s
    <3>0. fork'[s] = fork[s] /\ head'[s] = a.expected + a.n /\ fork[s] <= a.expected
          /\ fork[s] \in 0..MaxHead
      BY Zenon, <1>1, <1>2, <1>4 DEF IndInv, TypeOK, AbsentIsEmpty
    <3>1. ASSUME NEW k \in 1..MaxHead
          PROVE  (\E e \in new : e.session = s /\ e.seq = k) <=> (a.expected < k /\ k <= a.expected + a.n)
      <4>1. ASSUME a.expected < k, k <= a.expected + a.n
            PROVE  \E e \in new : e.session = s /\ e.seq = k
        <5>1. k - a.expected \in 1..a.n
          BY <4>1, <1>1, BoundsAssumption
        <5>2. row(k - a.expected) \in new /\ row(k - a.expected).seq = k
          BY <5>1, <1>1, <1>5, BoundsAssumption
        <5> QED
          BY Zenon, <5>2
      <4>2. ASSUME NEW e \in new, e.seq = k
            PROVE  a.expected < k /\ k <= a.expected + a.n
        BY <4>2, <1>1, <1>5, BoundsAssumption
      <4> QED
        BY Zenon, <4>1, <4>2
    <3>2. ASSUME NEW k \in 1..MaxHead
          PROVE  (\E e \in events : e.session = s /\ e.seq = k) <=> (fork[s] < k /\ k <= a.expected)
      BY Zenon, <1>1, <1>2 DEF IndInv, Contiguous
    <3>3. \A k \in 1..MaxHead :
              (\E e \in events' : e.session = s /\ e.seq = k) <=> (fork[s] < k /\ k <= a.expected + a.n)
      <4> SUFFICES ASSUME NEW k \in 1..MaxHead
                   PROVE  (\E e \in events' : e.session = s /\ e.seq = k)
                              <=> (fork[s] < k /\ k <= a.expected + a.n)
        BY Zenon
      <4>1. (\E e \in events' : e.session = s /\ e.seq = k)
                <=> \/ \E e \in events : e.session = s /\ e.seq = k
                    \/ \E e \in new : e.session = s /\ e.seq = k
        BY Zenon, <1>4
      <4> QED
        BY <4>1, <3>0, <3>1, <3>2, <1>1, BoundsAssumption
    <3>4. \A e, f \in events' : e.session = s /\ f.session = s /\ e.seq = f.seq => e = f
      <4>1. \A e \in new : \E i \in 1..a.n : e = row(i)
        BY Zenon, <1>5
      <4>2. \A e, f \in new : e.seq = f.seq => e = f
        BY <4>1, <1>1, BoundsAssumption
      <4>3. \A e \in new : e.seq > a.expected /\ e.seq \in Int
        BY <4>1, <1>1, BoundsAssumption
      <4>4. \A e \in events : e.seq \in Int
        BY DEF IndInv, TypeOK, EventRows
      <4> QED
        BY <4>2, <4>3, <4>4, <1>1, <1>4, <1>7 DEF IndInv, Contiguous
    <3> QED
      BY <2>2, <3>0, <3>3, <3>4
  <2> QED
    BY Zenon, <2>1, <2>2
<1>19. ChainIntact'
  <2> DEFINE Folded(t, e) ==
               IF e.seq = fork[t] + 1
                 THEN e.chain = ChainHash(GenesisChainHash(t), Content(e.request, e.i))
                 ELSE \E f \in events' : /\ f.session = t
                                         /\ f.seq = e.seq - 1
                                         /\ e.chain = ChainHash(f.chain, Content(e.request, e.i))
  <2>1. ASSUME NEW t \in Sessions, NEW e \in events, e.session = t
        PROVE  Folded(t, e)
    BY <2>1, <1>4 DEF IndInv, ChainIntact
  <2>2. ASSUME NEW i \in 1..a.n
        PROVE  Folded(s, row(i))
    <3>1. i \in 1..MaxBatch /\ i - 1 \in 0..MaxBatch
      BY <1>1, BoundsAssumption
    <3>2. row(i).chain = ChainHash(ChainFold(prevChain[c], r, i - 1), Content(r, i))
      BY Zenon, <3>1, <1>1, <1>2, FoldStep
    <3>3. CASE i # 1
      <4>1. i - 1 \in 1..a.n
        BY <3>3, <1>1, BoundsAssumption
      <4>2. row(i - 1) \in events'
        BY Zenon, <4>1, <1>4, <1>5
      <4>3. row(i - 1).seq = row(i).seq - 1 /\ row(i - 1).session = s
            /\ row(i - 1).chain = ChainFold(prevChain[c], r, i - 1)
        BY <1>1, BoundsAssumption
      <4>4. row(i).seq # fork[s] + 1
        BY <3>3, <1>1, <1>2 DEF IndInv, TypeOK, AbsentIsEmpty
      <4> QED
        BY Zenon, <3>2, <4>2, <4>3, <4>4
    <3>4. CASE i = 1
      <4>1. row(i).chain = ChainHash(prevChain[c], Content(r, i))
        <5>1. ChainFold(prevChain[c], r, 0) = prevChain[c]
          BY Zenon, <1>1, <1>2, FoldNone
        <5>2. i - 1 = 0
          BY <3>4
        <5> QED
          BY Zenon, <3>2, <5>1, <5>2
      <4>2. CASE head[s] = fork[s]
        <5>1. prevChain[c] = GenesisChainHash(s)
          BY Zenon, <4>2, <1>1, <1>2 DEF IndInv, ChainIntact, loadChainHead
        <5> QED
          BY Zenon, <4>1, <4>2, <5>1, <3>4, <1>1, <1>2
      <4>3. CASE head[s] # fork[s]
        <5>1. PICK f \in events : f.session = s /\ f.seq = head[s] /\ chainHead[s] = f.chain
          BY Zenon, <4>3, <1>1 DEF IndInv, ChainIntact
        <5>2. chainHead[s] # << >>
          <6>1. f.chain = ChainHash(GenesisChainHash(s), Content(f.request, f.i))
                \/ \E g \in events : f.chain = ChainHash(g.chain, Content(f.request, f.i))
            BY <5>1, <1>1 DEF IndInv, ChainIntact
          <6>2. GenesisChainHash(s) \in ChainValues /\ \A g \in events : g.chain \in ChainValues
            BY Zenon, <1>1, ChainStarts DEF IndInv, TypeOK, EventRows
          <6> QED
            BY <5>1, <6>1, <6>2 DEF ChainHash, ChainValues
        <5>3. prevChain[c] = f.chain
          BY Zenon, <5>1, <5>2, <1>2 DEF loadChainHead
        <5>4. f \in events' /\ f.seq = row(i).seq - 1 /\ row(i).seq # fork[s] + 1
          BY <5>1, <4>3, <3>4, <1>1, <1>2, <1>4 DEF IndInv, TypeOK
        <5> QED
          BY Zenon, <4>1, <5>1, <5>3, <5>4
      <4> QED
        BY Zenon, <4>2, <4>3
    <3> QED
      BY Zenon, <3>3, <3>4
  <2>3. \A t \in Sessions : \A e \in events' : e.session = t => Folded(t, e)
    <3>1. ASSUME NEW e \in new PROVE e.session = s /\ Folded(s, e)
      <4>1. PICK i \in 1..a.n : e = row(i)
        BY Zenon, <1>5
      <4> QED
        BY <4>1, <2>2
    <3> HIDE DEF Folded
    <3> QED
      BY Zenon, <2>1, <3>1, <1>4
  <2>4. ASSUME NEW t \in Sessions
        PROVE  IF head'[t] = fork'[t]
                 THEN chainHead'[t] = << >>
                 ELSE \E e \in events' : e.session = t /\ e.seq = head'[t] /\ chainHead'[t] = e.chain
    <3>1. CASE t # s
      <4>1. /\ head'[t] = head[t] /\ chainHead'[t] = chainHead[t] /\ fork'[t] = fork[t]
            /\ events \subseteq events'
        BY Zenon, <3>1, <1>4 DEF IndInv, TypeOK
      <4>2. IF head[t] = fork[t]
              THEN chainHead[t] = << >>
              ELSE \E e \in events : e.session = t /\ e.seq = head[t] /\ chainHead[t] = e.chain
        BY Zenon DEF IndInv, ChainIntact
      <4> QED
        BY Zenon, <4>1, <4>2
    <3>2. CASE t = s
      <4>1. head'[s] = a.expected + a.n /\ head'[s] # fork'[s]
        BY <1>1, <1>2, <1>4 DEF IndInv, TypeOK, AbsentIsEmpty
      <4>2. row(a.n) \in events' /\ chainHead'[s] = row(a.n).chain
        <5>1. a.n \in 1..a.n
          BY <1>1
        <5>2. row(a.n) \in new
          BY Zenon, <5>1, <1>5
        <5> QED
          BY Zenon, <5>2, <1>1, <1>4 DEF IndInv, TypeOK
      <4> QED
        BY Zenon, <3>2, <4>1, <4>2
    <3> QED
      BY Zenon, <3>1, <3>2
  <2> QED
    BY <2>3, <2>4, <1>4 DEF ChainIntact
<1> QED
  BY Zenon, <1>10, <1>11, <1>12, <1>13, <1>14, <1>15, <1>16, <1>17, <1>18, <1>19 DEF IndInv

\* What a COMMIT does to the log, given the invariant.
LEMMA CommitEffect ==
    ASSUME IndInv, NEW c \in Calls, Commit(c)
    PROVE  LET a == sent[req[c]] IN
           /\ a.session \in Sessions
           /\ status[a.session] = "active"
           /\ epoch[a.session] = a.epoch
           /\ head[a.session] = a.expected
           /\ a.n \in Nat /\ a.expected \in Nat
           /\ events' = events \cup insertEvents(req[c], prevChain[c])
           /\ head' = [head EXCEPT ![a.session] = a.expected + a.n]
           /\ chainHead' = [chainHead EXCEPT ![a.session] = ChainFold(prevChain[c], req[c], a.n)]
           /\ UNCHANGED <<status, epoch, parent, fork, sent>>
<1>1. pc[c] = "commit" /\ req[c] \in Requests /\ sent[req[c]].n # 0
  BY Zenon DEF Commit, IndInv, CallsAreAppends
<1>2. ~ ViolatesUnique(insertEvents(req[c], prevChain[c]))
  BY Zenon, <1>1, CommitIsFree
<1>3. sent[req[c]] \in Appends /\ sent[req[c]].session \in Sessions
  BY Zenon, <1>1 DEF IndInv, TypeOK, AppendsHaveSessions
<1>4. GateMatches(sent[req[c]])
  BY Zenon, <1>1 DEF IndInv, GateStillHolds, Holding
<1>5. sent[req[c]].n \in Nat /\ sent[req[c]].expected \in Nat
  BY <1>3, BoundsAssumption DEF Appends
<1>6. /\ events' = events \cup insertEvents(req[c], prevChain[c])
      /\ head' = [head EXCEPT ![sent[req[c]].session] = sent[req[c]].expected + sent[req[c]].n]
      /\ chainHead' = [chainHead EXCEPT ![sent[req[c]].session] =
                           ChainFold(prevChain[c], req[c], sent[req[c]].n)]
      /\ UNCHANGED <<status, epoch, parent, fork, sent>>
  BY Zenon, <1>2 DEF Commit, NewHead
<1> QED
  BY Zenon, <1>3, <1>4, <1>5, <1>6 DEF GateMatches

-----------------------------------------------------------------------------
(***************************************************************************)
(* Proofs about EventStore: the invariant that carries what the gate of an *)
(* append found up to its COMMIT, and the safety properties that follow.   *)
(***************************************************************************)

(* The inductive invariant *)

\* A step that leaves the events, heads, forks and requests alone leaves the log.
LEMMA LogFrame ==
    ASSUME IndInv, UNCHANGED <<events, head, fork, chainHead, sent>>
    PROVE  RowsAreAsSent' /\ LandsOnceAndWhole' /\ Contiguous' /\ ChainIntact'
<1> USE DEF IndInv
<1>1. RowsAreAsSent'
  BY Zenon DEF RowsAreAsSent
<1>2. LandsOnceAndWhole'
  BY Zenon DEF LandsOnceAndWhole
<1>3. Contiguous'
  BY DEF Contiguous
<1>4. ChainIntact'
  BY DEF ChainIntact
<1> QED
  BY Zenon, <1>1, <1>2, <1>3, <1>4

\* A step of a connection leaves the sessions of the requests as they are.
LEMMA SessionFrame ==
    ASSUME IndInv, UNCHANGED <<status, head, fork, sent>>
    PROVE  AppendsHaveSessions' /\ AbsentIsEmpty'
  BY Zenon DEF IndInv, AppendsHaveSessions, AbsentIsEmpty

\* A step that keeps the transactions past their gate, and the rows of the
\* sessions they hold, keeps what their gates found.
LEMMA HoldFrame ==
    ASSUME IndInv,
           UNCHANGED <<rowLock, sent>>,
           \A c \in Calls : Holding(c)' <=> Holding(c),
           \A c \in Calls : Holding(c) => /\ req'[c] = req[c] /\ prevChain'[c] = prevChain[c]
                                          /\ pc'[c] = pc[c],
           \A s \in Sessions : rowLock[s] # None =>
               /\ head'[s] = head[s] /\ epoch'[s] = epoch[s] /\ status'[s] = status[s]
               /\ chainHead'[s] = chainHead[s]
    PROVE  LocksAreHeld' /\ GateStillHolds'
<1> USE DEF IndInv
<1>1. LocksAreHeld'
  BY SMTT(30) DEF LocksAreHeld, TypeOK
<1>2. ASSUME NEW c \in Calls, Holding(c)'
      PROVE  /\ GateMatches(sent[req[c]])'
             /\ (pc[c] = "commit" => prevChain[c] = loadChainHead(sent[req[c]].session))'
  <2> DEFINE s == sent[req[c]].session
  <2>1. Holding(c) /\ s \in Sessions /\ rowLock[s] = c /\ rowLock[s] # None
    BY <1>2, NoneAssumption DEF LocksAreHeld, CallsAreAppends, AppendsHaveSessions, Holding
  <2>2. /\ req'[c] = req[c] /\ prevChain'[c] = prevChain[c] /\ pc'[c] = pc[c]
        /\ head'[s] = head[s] /\ epoch'[s] = epoch[s] /\ status'[s] = status[s]
        /\ chainHead'[s] = chainHead[s]
    BY Zenon, <2>1
  <2>3. GateMatches(sent[req[c]]) /\ (pc[c] = "commit" => prevChain[c] = loadChainHead(s))
    BY Zenon, <2>1 DEF GateStillHolds
  <2> QED
    BY SMTT(30), <2>2, <2>3 DEF GateMatches, loadChainHead
<1>3. \A c \in Calls : (pc[c] = "commit")' => Holding(c)'
  BY Zenon DEF Holding
<1> QED
  BY Zenon, <1>1, <1>2, <1>3 DEF GateStillHolds

\* A new session has no rows to disturb.
LEMMA CreateSessionInv ==
    ASSUME IndInv, NEW s \in Sessions, CreateSession(s)
    PROVE  IndInv'
<1> USE DEF IndInv, sessionVars, callVars, CreateSession
<1>1. TypeOK'
  BY Zenon, BoundsAssumption DEF TypeOK, Statuses
<1>2. CallsAreAppends'
  BY Zenon DEF CallsAreAppends
<1>3. AppendsHaveSessions' /\ AbsentIsEmpty'
  BY Zenon DEF TypeOK, AppendsHaveSessions, AbsentIsEmpty
<1>4. LocksAreHeld' /\ GateStillHolds'
  <2>1. rowLock[s] = None
    BY DEF LocksAreHeld, GateStillHolds, GateMatches, TypeOK
  <2>2. \A c \in Calls : Holding(c)' <=> Holding(c)
    BY Zenon DEF Holding
  <2> QED
    BY Zenon, <2>1, <2>2, HoldFrame DEF TypeOK
<1> QED
  BY Zenon, <1>1, <1>2, <1>3, <1>4, LogFrame

\* A forked session starts empty, after its fork point.
LEMMA ForkInv ==
    ASSUME IndInv, NEW p \in Sessions, NEW s \in Sessions, NEW atSeq \in 0..MaxHead, Fork(p, atSeq, s)
    PROVE  IndInv'
<1> USE DEF IndInv, sessionVars, callVars, Fork
<1>1. TypeOK'
  BY Zenon, BoundsAssumption DEF TypeOK, Statuses
<1>2. CallsAreAppends' /\ RowsAreAsSent' /\ LandsOnceAndWhole'
  BY Zenon DEF CallsAreAppends, RowsAreAsSent, LandsOnceAndWhole
<1>3. AppendsHaveSessions' /\ AbsentIsEmpty'
  BY DEF TypeOK, AppendsHaveSessions, AbsentIsEmpty
<1>4. LocksAreHeld' /\ GateStillHolds'
  <2>1. rowLock[s] = None
    BY DEF LocksAreHeld, GateStillHolds, GateMatches, TypeOK
  <2>2. \A c \in Calls : Holding(c)' <=> Holding(c)
    BY Zenon DEF Holding
  <2> QED
    BY Zenon, <2>1, <2>2, HoldFrame DEF TypeOK
<1>5. \A e \in events : e.session # s
  BY BoundsAssumption DEF TypeOK, EventRows, Contiguous, AbsentIsEmpty
<1>6. /\ head'[s] = fork'[s] /\ fork'[s] \in Int /\ chainHead' = chainHead /\ events' = events
      /\ \A t \in Sessions : t # s => head'[t] = head[t] /\ fork'[t] = fork[t]
  BY DEF TypeOK
<1>7. Contiguous'
  BY <1>5, <1>6 DEF Contiguous
<1>8. ChainIntact'
  <2>1. chainHead[s] = << >>
    BY DEF ChainIntact, AbsentIsEmpty
  <2> QED
    BY <1>5, <1>6, <2>1 DEF ChainIntact
<1> QED
  BY Zenon, <1>1, <1>2, <1>3, <1>4, <1>7, <1>8

\* A session is closed only while no transaction holds its row.
LEMMA SetSessionStatusInv ==
    ASSUME IndInv, NEW s \in Sessions, NEW e \in 0..MaxEpoch, SetSessionStatus(s, e)
    PROVE  IndInv'
<1> USE DEF IndInv, sessionVars, callVars, SetSessionStatus
<1>1. TypeOK'
  BY Zenon, BoundsAssumption DEF TypeOK, Statuses
<1>2. CallsAreAppends'
  BY Zenon DEF CallsAreAppends
<1>3. AppendsHaveSessions' /\ AbsentIsEmpty'
  BY Zenon DEF TypeOK, AppendsHaveSessions, AbsentIsEmpty
<1>4. LocksAreHeld' /\ GateStillHolds'
  <2>1. \A c \in Calls : Holding(c)' <=> Holding(c)
    BY Zenon DEF Holding
  <2> QED
    BY Zenon, <2>1, HoldFrame DEF TypeOK
<1> QED
  BY Zenon, <1>1, <1>2, <1>3, <1>4, LogFrame

\* The epoch moves only while no transaction holds the row.
LEMMA TakeoverInv ==
    ASSUME IndInv, NEW s \in Sessions, Takeover(s)
    PROVE  IndInv'
<1> USE DEF IndInv, sessionVars, callVars, Takeover
<1>1. TypeOK'
  BY BoundsAssumption DEF TypeOK, Statuses
<1>2. CallsAreAppends'
  BY Zenon DEF CallsAreAppends
<1>3. LocksAreHeld' /\ GateStillHolds'
  <2>1. \A c \in Calls : Holding(c)' <=> Holding(c)
    BY Zenon DEF Holding
  <2> QED
    BY Zenon, <2>1, HoldFrame DEF TypeOK
<1> QED
  BY Zenon, <1>1, <1>2, <1>3, LogFrame, SessionFrame

\* A request id is bound once, before it has rows.
LEMMA SendInv ==
    ASSUME IndInv, NEW c \in Calls, NEW r \in Requests, NEW s \in Sessions, NEW expected \in 0..MaxHead,
           NEW e \in 0..MaxEpoch, NEW n \in 1..MaxBatch, Send(c, r, s, expected, e, n)
    PROVE  IndInv'
<1> USE DEF IndInv, sessionVars, callVars, Send
<1>1. TypeOK'
  BY BoundsAssumption DEF TypeOK, PCs, Results, Appends
<1>2. CallsAreAppends'
  BY BoundsAssumption DEF TypeOK, CallsAreAppends
<1>3. AppendsHaveSessions' /\ AbsentIsEmpty'
  BY Zenon, BoundsAssumption DEF TypeOK, AppendsHaveSessions, AbsentIsEmpty
<1>4. \A f \in events : f.request # r
  BY Zenon DEF RowsAreAsSent
<1>5. \A q \in Requests : q # r => sent'[q] = sent[q]
  BY Zenon DEF TypeOK
<1>6. RowsAreAsSent'
  BY ZenonT(30), <1>4, <1>5 DEF TypeOK, RowsAreAsSent, EventRows
<1>7. LandsOnceAndWhole'
  BY <1>4, <1>5 DEF LandsOnceAndWhole
<1>8. Contiguous' /\ ChainIntact'
  BY DEF Contiguous, ChainIntact
<1>9. \A d \in Calls : /\ Holding(d)' <=> Holding(d)
                       /\ Holding(d) => /\ d # c /\ req[d] \in Requests /\ sent'[req'[d]] = sent[req[d]]
                                        /\ pc'[d] = pc[d] /\ prevChain'[d] = prevChain[d]
  BY SMTT(30), <1>5 DEF TypeOK, CallsAreAppends, Holding
<1>10. LocksAreHeld'
  BY SMTT(30), <1>9 DEF LocksAreHeld, TypeOK
<1>11. GateStillHolds'
  <2>1. \A d \in Calls : (pc[d] = "commit")' => Holding(d)'
    BY Zenon DEF Holding
  <2> QED
    BY <1>9, <2>1 DEF GateStillHolds, GateMatches, loadChainHead
<1> QED
  BY Zenon, <1>1, <1>2, <1>3, <1>6, <1>7, <1>8, <1>10, <1>11

\* Sending an append again changes nothing but the connection.
LEMMA ResendInv ==
    ASSUME IndInv, NEW c \in Calls, NEW r \in Requests, Resend(c, r)
    PROVE  IndInv'
<1> USE DEF IndInv, sessionVars, callVars, Resend
<1>1. TypeOK'
  BY Zenon, ChainStarts DEF TypeOK, PCs, Results
<1>2. CallsAreAppends'
  BY Zenon DEF TypeOK, CallsAreAppends
<1>3. LocksAreHeld' /\ GateStillHolds'
  <2>1. \A d \in Calls : /\ Holding(d)' <=> Holding(d)
                         /\ Holding(d) => /\ req'[d] = req[d] /\ prevChain'[d] = prevChain[d]
                                          /\ pc'[d] = pc[d]
    BY Zenon DEF TypeOK, Holding
  <2> QED
    BY Zenon, <2>1, HoldFrame
<1> QED
  BY Zenon, <1>1, <1>2, <1>3, LogFrame, SessionFrame

\* The lookup changes nothing but the connection.
LEMMA LookupInv ==
    ASSUME IndInv, NEW c \in Calls, Lookup(c)
    PROVE  IndInv'
<1> USE DEF IndInv, sessionVars, callVars, Lookup, Return
<1>1. TypeOK'
  BY Zenon, ChainStarts DEF TypeOK, PCs, Results
<1>2. CallsAreAppends'
  BY Zenon DEF TypeOK, CallsAreAppends
<1>3. LocksAreHeld' /\ GateStillHolds'
  <2>1. \A d \in Calls : /\ Holding(d)' <=> Holding(d)
                         /\ Holding(d) => /\ req'[d] = req[d] /\ prevChain'[d] = prevChain[d]
                                          /\ pc'[d] = pc[d]
    BY DEF TypeOK, Holding
  <2> QED
    BY Zenon, <2>1, HoldFrame
<1> QED
  BY Zenon, <1>1, <1>2, <1>3, LogFrame, SessionFrame

\* The gate locks the row it matched.
LEMMA GateInv ==
    ASSUME IndInv, NEW c \in Calls, Gate(c)
    PROVE  IndInv'
<1> USE DEF IndInv, sessionVars, callVars, Gate
<1> DEFINE a == sent[req[c]]
<1>1. req[c] \in Requests /\ a.session \in Sessions
  BY Zenon DEF CallsAreAppends, AppendsHaveSessions
<1>2. TypeOK'
  BY <1>1 DEF TypeOK, PCs
<1>3. CallsAreAppends'
  BY Zenon DEF TypeOK, CallsAreAppends
<1>4. \A d \in Calls : /\ d # c => (Holding(d)' <=> Holding(d))
                       /\ ~ Holding(c)
                       /\ Holding(d) => sent[req[d]].session # a.session
                       /\ (pc[d] = "commit")' => pc[d] = "commit"
  BY NoneAssumption DEF TypeOK, LocksAreHeld, Holding
<1>5. Holding(c)' <=> GateMatches(a)
  BY Zenon DEF TypeOK, Holding
<1>6. LocksAreHeld'
  <2>1. ASSUME NEW d \in Calls, Holding(d)' PROVE rowLock'[sent[req[d]].session] = d
    <3>1. CASE d = c
      BY Zenon, <2>1, <3>1, <1>1, <1>5 DEF TypeOK
    <3>2. CASE d # c
      <4>1. Holding(d) /\ sent[req[d]].session # a.session /\ rowLock[sent[req[d]].session] = d
        BY Zenon, <2>1, <3>2, <1>4 DEF LocksAreHeld
      <4>2. sent[req[d]].session \in Sessions
        BY Zenon, <4>1 DEF Holding, CallsAreAppends, AppendsHaveSessions
      <4> QED
        BY Zenon, <4>1, <4>2, <1>1 DEF TypeOK
    <3> QED
      BY Zenon, <3>1, <3>2
  <2>2. ASSUME NEW s \in Sessions, rowLock'[s] # None
        PROVE  Holding(rowLock[s])' /\ sent[req[rowLock'[s]]].session = s
    <3>1. CASE s = a.session /\ GateMatches(a)
      BY <3>1, <1>1, <1>5 DEF TypeOK
    <3>2. CASE ~ (s = a.session /\ GateMatches(a))
      <4>1. rowLock'[s] = rowLock[s] /\ rowLock[s] \in Calls
        BY Zenon, <2>2, <3>2, <1>1 DEF TypeOK
      <4> QED
        BY Zenon, <2>2, <4>1, <1>4 DEF LocksAreHeld
    <3> QED
      BY ZenonT(30), <3>1, <3>2
  <2> QED
    BY Zenon, <2>1, <2>2 DEF LocksAreHeld
<1>7. GateStillHolds'
  BY Zenon, <1>4, <1>5 DEF GateStillHolds, GateMatches, loadChainHead
<1> QED
  BY Zenon, <1>2, <1>3, <1>6, <1>7, LogFrame, SessionFrame

\* Naming a failure changes nothing but the connection.
LEMMA ClassifyInv ==
    ASSUME IndInv, NEW c \in Calls, Classify(c)
    PROVE  IndInv'
<1> USE DEF IndInv, sessionVars, callVars, Classify, Return, classifyAppendFailure
<1>1. TypeOK'
  BY Zenon, ChainStarts DEF TypeOK, PCs, Results
<1>2. CallsAreAppends'
  BY Zenon DEF TypeOK, CallsAreAppends
<1>3. LocksAreHeld' /\ GateStillHolds'
  <2>1. \A d \in Calls : /\ Holding(d)' <=> Holding(d)
                         /\ Holding(d) => /\ req'[d] = req[d] /\ prevChain'[d] = prevChain[d]
                                          /\ pc'[d] = pc[d]
    BY Zenon DEF TypeOK, Holding
  <2> QED
    BY Zenon, <2>1, HoldFrame
<1> QED
  BY Zenon, <1>1, <1>2, <1>3, LogFrame, SessionFrame

\* The chain head is read under the lock.
LEMMA InsertInv ==
    ASSUME IndInv, NEW c \in Calls, Insert(c)
    PROVE  IndInv'
<1> USE DEF IndInv, sessionVars, callVars, Insert
<1>1. sent[req[c]].session \in Sessions
  BY Zenon DEF CallsAreAppends, AppendsHaveSessions, TypeOK
<1>2. TypeOK'
  <2>1. loadChainHead(sent[req[c]].session) \in ChainValues
    BY Zenon, <1>1, ChainStarts DEF loadChainHead, TypeOK
  <2> QED
    BY Zenon, <2>1 DEF TypeOK, PCs
<1>3. CallsAreAppends'
  BY Zenon DEF TypeOK, CallsAreAppends
<1>4. \A d \in Calls : /\ Holding(d)' <=> Holding(d)
                       /\ d # c => (pc[d] = "commit")' = (pc[d] = "commit") /\ prevChain'[d] = prevChain[d]
  BY Zenon DEF TypeOK, Holding
<1>5. LocksAreHeld'
  BY <1>4, NoneAssumption DEF LocksAreHeld, TypeOK
<1>6. GateStillHolds'
  <2>1. prevChain'[c] = loadChainHead(sent[req[c]].session)
    BY Zenon DEF TypeOK
  <2>2. \A d \in Calls : Holding(d)' => GateMatches(sent[req[d]])'
    BY Zenon, <1>4 DEF GateStillHolds, GateMatches
  <2>3. \A d \in Calls : (pc[d] = "commit")' => prevChain'[d] = loadChainHead(sent[req[d]].session)
    BY Zenon, <1>4, <2>1 DEF GateStillHolds
  <2>4. \A d \in Calls : loadChainHead(sent[req[d]].session)' = loadChainHead(sent[req[d]].session)
    BY Zenon DEF loadChainHead
  <2> QED
    BY Zenon, <2>2, <2>3, <2>4 DEF GateStillHolds
<1> QED
  BY Zenon, <1>2, <1>3, <1>5, <1>6, LogFrame, SessionFrame

\* A transaction that ends early gives its lock back and leaves no rows.
LEMMA AbortInv ==
    ASSUME IndInv, NEW c \in Calls, Abort(c)
    PROVE  IndInv'
<1> USE DEF IndInv, sessionVars, callVars, Abort, Return
<1>1. TypeOK'
  BY Zenon, ChainStarts DEF TypeOK, PCs, Results
<1>2. CallsAreAppends'
  BY Zenon DEF TypeOK, CallsAreAppends
<1>3. \A d \in Calls : /\ Holding(d)' <=> (d # c /\ Holding(d))
                       /\ d # c => pc'[d] = pc[d] /\ prevChain'[d] = prevChain[d]
  BY Zenon DEF TypeOK, Holding
<1>4. LocksAreHeld'
  BY SMTT(30), <1>3, NoneAssumption DEF LocksAreHeld, TypeOK, CallsAreAppends, AppendsHaveSessions, Holding
<1>5. GateStillHolds'
  <2>1. \A d \in Calls : (pc[d] = "commit")' => d # c /\ Holding(d)'
    BY Zenon DEF TypeOK, Holding
  <2> QED
    BY <1>3, <2>1 DEF GateStillHolds, GateMatches, loadChainHead
<1> QED
  BY Zenon, <1>1, <1>2, <1>4, <1>5, LogFrame, SessionFrame

-----------------------------------------------------------------------------
(* Safety *)

\* The invariant holds of the empty store.
LEMMA InitInv == Init => IndInv
<1> SUFFICES ASSUME Init PROVE IndInv
  BY Zenon
<1> USE DEF Init
<1>1. TypeOK
  BY ChainStarts, BoundsAssumption, NoneAssumption DEF TypeOK, PCs, Results, Statuses, Appends
<1>2. CallsAreAppends /\ AppendsHaveSessions /\ LocksAreHeld /\ GateStillHolds
  BY Zenon, NoneAssumption
  DEF CallsAreAppends, AppendsHaveSessions, LocksAreHeld, GateStillHolds, Holding
<1>3. AbsentIsEmpty /\ RowsAreAsSent /\ LandsOnceAndWhole
  BY DEF AbsentIsEmpty, RowsAreAsSent, LandsOnceAndWhole
<1>4. Contiguous
  BY BoundsAssumption DEF Contiguous
<1>5. ChainIntact
  BY Zenon DEF ChainIntact
<1> QED
  BY Zenon, <1>1, <1>2, <1>3, <1>4, <1>5 DEF IndInv

\* Every step keeps the invariant: one lemma per action above.
LEMMA NextInv == IndInv /\ [Next]_vars => IndInv'
<1> SUFFICES ASSUME IndInv, [Next]_vars PROVE IndInv'
  BY Zenon
<1>1. CASE UNCHANGED vars
  <2> USE <1>1 DEF vars, sessionVars, callVars, IndInv
  <2>1. TypeOK' /\ CallsAreAppends' /\ AppendsHaveSessions' /\ AbsentIsEmpty' /\ RowsAreAsSent'
    BY Zenon DEF TypeOK, CallsAreAppends, AppendsHaveSessions, AbsentIsEmpty, RowsAreAsSent
  <2>2. LocksAreHeld' /\ GateStillHolds'
    BY Zenon DEF LocksAreHeld, GateStillHolds, Holding, GateMatches, loadChainHead
  <2>3. LandsOnceAndWhole'
    BY Zenon DEF LandsOnceAndWhole
  <2>4. Contiguous'
    BY DEF Contiguous
  <2>5. ChainIntact'
    BY DEF ChainIntact
  <2> QED
    BY Zenon, <2>1, <2>2, <2>3, <2>4, <2>5
<1>2. CASE Next
  BY Zenon, <1>2, CreateSessionInv, ForkInv, SetSessionStatusInv, TakeoverInv, SendInv, ResendInv,
     LookupInv, GateInv, ClassifyInv, InsertInv, CommitInv, AbortInv
  DEF Next, CallStep
<1> QED
  BY Zenon, <1>1, <1>2

\* In every reachable state, what a transaction found at its gate still holds when
\* it commits, whatever the other connections, takeovers and forks did meanwhile.
THEOREM StoreInvariant == Spec => []IndInv
  BY InitInv, NextInv, PTL DEF Spec

\* The tables keep the shape the schema declares, for any number of sessions,
\* requests and connections.
THEOREM TypeCorrect == Spec => []TypeOK
<1>1. IndInv => TypeOK
  BY Zenon DEF IndInv
<1> QED
  BY <1>1, StoreInvariant, PTL

\* The own events of a session are numbered forked_from_seq+1 .. head_seq without
\* gap or repetition.
THEOREM LogIsContiguous == Spec => []Contiguous
<1>1. IndInv => Contiguous
  BY Zenon DEF IndInv
<1> QED
  BY <1>1, StoreInvariant, PTL

\* An append lands once and whole however often and concurrently it is sent.
THEOREM AppendLandsOnce == Spec => []LandsOnceAndWhole
<1>1. IndInv => LandsOnceAndWhole
  BY Zenon DEF IndInv
<1> QED
  BY <1>1, StoreInvariant, PTL

\* Every event's hash folds its content onto its predecessor's.
THEOREM ChainIsIntact == Spec => []ChainIntact
<1>1. IndInv => ChainIntact
  BY Zenon DEF IndInv
<1> QED
  BY <1>1, StoreInvariant, PTL

\* The unique constraint on (session_id, seq) is never what stops an append.
THEOREM CommitNeverRaces == Spec => []NoCommitRace
<1>1. IndInv => NoCommitRace
  BY ZenonT(30), CommitIsFree DEF NoCommitRace
<1> QED
  BY <1>1, StoreInvariant, PTL

-----------------------------------------------------------------------------
(* Action properties *)

\* A step that is not a COMMIT leaves the log alone.
LEMMA OthersLeaveTheLog ==
    ASSUME IndInv, [Next]_vars, \A c \in Calls : ~ Commit(c)
    PROVE  events' = events
  BY DEF Next, CallStep, CreateSession, Takeover, Fork, SetSessionStatus, Send, Resend, Lookup,
         Gate, Classify, Insert, Abort, vars, sessionVars, callVars

\* No step removes an event or moves a head or an epoch back.
LEMMA LogGrows ==
    ASSUME IndInv, [Next]_vars
    PROVE  /\ events \subseteq events'
           /\ \A s \in Sessions : head[s] <= head'[s] /\ epoch[s] <= epoch'[s]
<1> DEFINE Grows == /\ events \subseteq events'
                    /\ \A s \in Sessions : head[s] <= head'[s] /\ epoch[s] <= epoch'[s]
<1> SUFFICES Grows
  BY Zenon
<1>1. CASE \E c \in Calls : Commit(c)
  BY <1>1, CommitEffect DEF IndInv, TypeOK
<1>2. CASE \A c \in Calls : ~ Commit(c)
  <2>1. events' = events
    BY Zenon, <1>2, OthersLeaveTheLog
  <2>2. CASE UNCHANGED vars
    BY <2>1, <2>2 DEF vars, sessionVars, IndInv, TypeOK
  <2>3. CASE Next
    <3>1. ASSUME NEW p \in Sessions, NEW s \in Sessions, NEW atSeq \in 0..MaxHead, Fork(p, atSeq, s)
          PROVE  Grows
      BY <2>1, <3>1, BoundsAssumption DEF Fork, IndInv, TypeOK, AbsentIsEmpty
    <3>2. ASSUME NEW s \in Sessions, Takeover(s)
          PROVE  Grows
      BY <2>1, <3>2, BoundsAssumption DEF Takeover, IndInv, TypeOK
    <3>3. ASSUME UNCHANGED <<head, epoch>>
          PROVE  Grows
      BY <2>1, <3>3, BoundsAssumption DEF IndInv, TypeOK
    <3>4. \/ \E p, s \in Sessions : \E atSeq \in 0..MaxHead : Fork(p, atSeq, s)
          \/ \E s \in Sessions : Takeover(s)
          \/ UNCHANGED <<head, epoch>>
      <4>1. ASSUME NEW s \in Sessions, NEW e \in 0..MaxEpoch, CreateSession(s) \/ SetSessionStatus(s, e)
            PROVE  UNCHANGED <<head, epoch>>
        BY Zenon, <4>1 DEF CreateSession, SetSessionStatus
      <4>2. ASSUME NEW c \in Calls, NEW r \in Requests, NEW s \in Sessions, NEW k \in 0..MaxHead,
                   NEW e \in 0..MaxEpoch, NEW n \in 1..MaxBatch, Send(c, r, s, k, e, n)
            PROVE  UNCHANGED <<head, epoch>>
        BY Zenon, <4>2 DEF Send, sessionVars
      <4>3. ASSUME NEW c \in Calls, NEW r \in Requests, Resend(c, r)
            PROVE  UNCHANGED <<head, epoch>>
        BY Zenon, <4>3 DEF Resend, sessionVars
      <4>4. ASSUME NEW c \in Calls, Lookup(c) \/ Gate(c) \/ Classify(c) \/ Insert(c) \/ Abort(c)
            PROVE  UNCHANGED <<head, epoch>>
        BY Zenon, <4>4 DEF Lookup, Gate, Classify, Insert, Abort, sessionVars
      <4>5. 0 \in 0..MaxEpoch
        BY BoundsAssumption
      <4> QED
        BY Zenon, <2>3, <1>2, <4>1, <4>2, <4>3, <4>4, <4>5 DEF Next, CallStep
    <3> QED
      BY Zenon, <3>1, <3>2, <3>3, <3>4
  <2> QED
    BY Zenon, <2>2, <2>3
<1> QED
  BY Zenon, <1>1, <1>2

\* No step removes or rewrites an event, moves a head back or lowers an epoch.
THEOREM LogIsAppendOnly == Spec => AppendOnly
<1>1. IndInv /\ [Next]_vars =>
          [/\ events \subseteq events'
           /\ \A s \in Sessions : head[s] <= head'[s] /\ epoch[s] <= epoch'[s]]_vars
  BY LogGrows, Zenon
<1> QED
  BY <1>1, StoreInvariant, PTL DEF Spec, AppendOnly

\* Events enter the log only for an active session and from the holder of its
\* current epoch, at the moment they become visible.
THEOREM WritersAreFenced == Spec => OnlyCurrentWriterAppends
<1> DEFINE Fenced == \A e \in events' \ events :
                         /\ status[e.session] = "active"
                         /\ epoch[e.session] = sent[e.request].epoch
<1>1. ASSUME IndInv, [Next]_vars PROVE Fenced
  <2>1. CASE \E c \in Calls : Commit(c)
    <3>1. PICK c \in Calls : Commit(c)
      BY Zenon, <2>1
    <3>2. \A e \in events' \ events : e.session = sent[req[c]].session /\ e.request = req[c]
      BY <1>1, <3>1, CommitEffect DEF insertEvents
    <3> QED
      BY ZenonT(30), <1>1, <3>1, <3>2, CommitEffect
  <2>2. CASE \A c \in Calls : ~ Commit(c)
    BY Zenon, <1>1, <2>2, OthersLeaveTheLog
  <2> QED
    BY Zenon, <2>1, <2>2
<1>2. IndInv /\ [Next]_vars => [Fenced]_vars
  BY Zenon, <1>1
<1> QED
  BY <1>2, StoreInvariant, PTL DEF Spec, OnlyCurrentWriterAppends

-----------------------------------------------------------------------------
(***************************************************************************)
(* Proof that EventStore implements SessionLog: the initial states map to  *)
(* initial states, a COMMIT maps to AppendBatch, and every other step maps *)
(* to a step of SessionLog that leaves the logs alone, or to a stutter.    *)
(***************************************************************************)

\* Sequences are equal that agree everywhere.
LEMMA SameSequence ==
    ASSUME NEW S, NEW s \in Seq(S), NEW t \in Seq(S), Len(s) = Len(t), \A i \in 1..Len(s) : s[i] = t[i]
    PROVE  s = t
OBVIOUS

\* A function that lists one sequence and then another is their concatenation.
LEMMA ListedInTurn ==
    ASSUME NEW S, NEW u \in Seq(S), NEW v \in Seq(S), NEW w,
           w = [k \in 1..(Len(u) + Len(v)) |-> w[k]],
           \A k \in 1..(Len(u) + Len(v)) : w[k] = IF k <= Len(u) THEN u[k] ELSE v[k - Len(u)]
    PROVE  w = u \o v
<1>1. Len(u) \in Nat /\ Len(v) \in Nat
  OBVIOUS
<1>2. \A k \in 1..(Len(u) + Len(v)) : k > Len(u) => k - Len(u) \in 1..Len(v)
  BY <1>1
<1>3. \A k \in 1..Len(u) : u[k] \in S
  OBVIOUS
<1>4. \A k \in 1..Len(v) : v[k] \in S
  OBVIOUS
<1>5. \A k \in 1..(Len(u) + Len(v)) : w[k] \in S
  <2> SUFFICES ASSUME NEW k \in 1..(Len(u) + Len(v)) PROVE w[k] \in S
    BY Zenon
  <2>1. CASE k <= Len(u)
    <3>1. k \in 1..Len(u)
      BY <2>1, <1>1
    <3> QED
      BY Zenon, <2>1, <3>1, <1>3
  <2>2. CASE ~ (k <= Len(u))
    <3>1. k - Len(u) \in 1..Len(v)
      BY <2>2, <1>1
    <3> QED
      BY Zenon, <2>2, <3>1, <1>4
  <2> QED
    BY Zenon, <2>1, <2>2
<1>6. w \in Seq(S) /\ Len(w) = Len(u) + Len(v)
  BY <1>1, <1>5
<1>7. u \o v \in Seq(S) /\ Len(u \o v) = Len(u) + Len(v)
      /\ \A k \in 1..(Len(u) + Len(v)) : (u \o v)[k] = IF k <= Len(u) THEN u[k] ELSE v[k - Len(u)]
  OBVIOUS
<1>8. \A k \in 1..Len(w) : w[k] = (u \o v)[k]
  BY Zenon, <1>6, <1>7
<1> QED
  BY Zenon, <1>6, <1>7, <1>8, SameSequence

\* The event of s numbered k determines what the log shows there.
LEMMA ContentOfRow ==
    ASSUME NEW evs, NEW s, NEW e \in evs,
           e.session = s,
           \A f \in evs : f.session = s /\ f.seq = e.seq => f = e
    PROVE  ContentAt(evs, s, e.seq) = Content(e.request, e.i)
<1> DEFINE P(f) == f.session = s /\ f.seq = e.seq
<1>1. P(e)
  BY Zenon
<1>2. (CHOOSE f \in evs : P(f)) = e
  BY Zenon, <1>1
<1> QED
  BY Zenon, <1>2 DEF ContentAt

\* The log of a session is a sequence of pairs, as long as its head is past its fork point.
LEMMA LogShape ==
    ASSUME IndInv, NEW s \in Sessions
    PROVE  /\ OwnLog(s) \in Seq(Requests \X (1..MaxBatch))
           /\ Len(OwnLog(s)) = head[s] - fork[s]
           /\ \A k \in 1..(head[s] - fork[s]) :
                  \E e \in events : /\ e.session = s /\ e.seq = fork[s] + k
                                    /\ OwnLog(s)[k] = Content(e.request, e.i)
<1>1. head[s] \in 0..MaxHead /\ fork[s] \in 0..MaxHead /\ fork[s] <= head[s]
  BY Zenon DEF IndInv, TypeOK, AbsentIsEmpty
<1>2. ASSUME NEW k \in 1..(head[s] - fork[s])
      PROVE  \E e \in events : /\ e.session = s /\ e.seq = fork[s] + k
                               /\ OwnLog(s)[k] = Content(e.request, e.i)
                               /\ OwnLog(s)[k] \in Requests \X (1..MaxBatch)
  <2>1. fork[s] + k \in 1..MaxHead /\ fork[s] < fork[s] + k /\ fork[s] + k <= head[s]
    BY <1>1, BoundsAssumption
  <2>2. PICK e \in events : e.session = s /\ e.seq = fork[s] + k
    BY Zenon, <2>1 DEF IndInv, Contiguous
  <2>3. ContentAt(events, s, e.seq) = Content(e.request, e.i)
    BY <2>2, ContentOfRow DEF IndInv, Contiguous
  <2>4. Content(e.request, e.i) \in Requests \X (1..MaxBatch)
    BY Zenon DEF IndInv, TypeOK, EventRows, Content
  <2> QED
    BY Zenon, <2>2, <2>3, <2>4 DEF OwnLog
<1>3. \A k \in 1..(head[s] - fork[s]) : OwnLog(s)[k] \in Requests \X (1..MaxBatch)
  BY Zenon, <1>2
<1>4. head[s] - fork[s] \in Nat
  BY <1>1, BoundsAssumption
<1>5. OwnLog(s) = [k \in 1..(head[s] - fork[s]) |-> OwnLog(s)[k]]
  BY Zenon DEF OwnLog
<1>6. OwnLog(s) \in Seq(Requests \X (1..MaxBatch)) /\ Len(OwnLog(s)) = head[s] - fork[s]
  BY <1>3, <1>4, <1>5
<1> QED
  BY Zenon, <1>2, <1>6

\* A step that leaves the events and the boundaries of a session alone leaves its log alone.
LEMMA SameLog ==
    ASSUME NEW s \in Sessions, events' = events, head'[s] = head[s], fork'[s] = fork[s]
    PROVE  OwnLog(s)' = OwnLog(s)
  BY Zenon DEF OwnLog

\* A COMMIT appends its batch to the log of its session, and to no other.
LEMMA CommitLog ==
    ASSUME IndInv, NEW c \in Calls, Commit(c), NEW s, s = sent[req[c]].session
    PROVE  /\ OwnLog(s)' = OwnLog(s) \o SL!Batch(req[c])
           /\ \A t \in Sessions : t # s => OwnLog(t)' = OwnLog(t)
<1> DEFINE r == req[c]
           a == sent[r]
           n0 == head[s] - fork[s]
           row(i) == [session |-> s, seq |-> a.expected + i, request |-> r,
                      i |-> i, chain |-> ChainFold(prevChain[c], r, i)]
<1>1. /\ s \in Sessions /\ head[s] = a.expected /\ a.n \in Nat /\ a.expected \in Nat
      /\ events' = events \cup {row(i) : i \in 1..a.n}
      /\ head' = [head EXCEPT ![s] = a.expected + a.n] /\ fork' = fork
  BY SMTT(30), CommitEffect DEF insertEvents
<1>2. /\ head[s] \in Nat /\ fork[s] \in Nat /\ n0 \in Nat /\ fork[s] + n0 = a.expected
      /\ head'[s] = a.expected + a.n /\ head'[s] - fork'[s] = n0 + a.n
  BY <1>1, BoundsAssumption DEF IndInv, TypeOK, AbsentIsEmpty
<1>n. n0 \in Nat /\ a.n \in Nat /\ fork[s] \in Nat /\ a.expected \in Nat /\ fork[s] + n0 = a.expected
  BY Zenon, <1>1, <1>2
<1>3. \A e, f \in events' : e.session = f.session /\ e.session \in Sessions /\ e.seq = f.seq => e = f
  BY CommitInv DEF IndInv, Contiguous
<1> DEFINE old == OwnLog(s)
           batch == [i \in 1..a.n |-> <<r, i>>]
           S == Requests \X (1..MaxBatch)
<1>4. old \in Seq(S) /\ Len(old) = n0
  BY Zenon, <1>1, LogShape
<1>5. batch \in Seq(S) /\ Len(batch) = a.n
  <2>1. r \in Requests /\ a.n <= MaxBatch
    BY BoundsAssumption DEF Commit, IndInv, CallsAreAppends, TypeOK, Appends
  <2>2. \A i \in 1..a.n : <<r, i>> \in S
    BY <2>1, <1>1, BoundsAssumption
  <2> QED
    BY SMTT(30), <2>2, <1>n
<1>6. OwnLog(s)' = [k \in 1..(n0 + a.n) |-> ContentAt(events', s, fork[s] + k)]
  BY Zenon, <1>1, <1>2 DEF OwnLog
<1>7. ASSUME NEW k \in 1..(n0 + a.n), k <= n0
      PROVE  ContentAt(events', s, fork[s] + k) = old[k]
  <2>1. k \in 1..n0
    BY <1>7, <1>n
  <2>2. PICK e \in events : e.session = s /\ e.seq = fork[s] + k /\ old[k] = Content(e.request, e.i)
    BY Zenon, <1>1, <2>1, LogShape
  <2>3. e \in events' /\ \A f \in events' : f.session = s /\ f.seq = e.seq => f = e
    BY Zenon, <1>1, <1>3, <2>2
  <2> QED
    BY SMTT(30), <2>2, <2>3, ContentOfRow
<1>8. ASSUME NEW k \in 1..(n0 + a.n), k > n0
      PROVE  ContentAt(events', s, fork[s] + k) = batch[k - n0]
  <2>1. k - n0 \in 1..a.n
    BY <1>8, <1>n
  <2>2. row(k - n0) \in events' /\ row(k - n0).seq = fork[s] + k
    <3>1. \A i \in 1..a.n : row(i) \in events'
      BY Zenon, <1>1
    <3>2. a.expected + (k - n0) = fork[s] + k
      BY <1>n
    <3> QED
      BY Zenon, <2>1, <3>1, <3>2
  <2>3. \A f \in events' : f.session = s /\ f.seq = row(k - n0).seq => f = row(k - n0)
    BY Zenon, <2>2, <1>1, <1>3
  <2>4. ContentAt(events', s, row(k - n0).seq) = Content(row(k - n0).request, row(k - n0).i)
    <3> HIDE DEF row
    <3>1. row(k - n0).session = s
      BY Zenon DEF row
    <3> QED
      BY Zenon, <2>2, <2>3, <3>1, ContentOfRow
  <2> QED
    BY Zenon, <2>1, <2>2, <2>4 DEF Content
<1>9. OwnLog(s)' = old \o batch
  <2> DEFINE new == OwnLog(s)'
  <2>1. new = [k \in 1..(Len(old) + Len(batch)) |-> new[k]]
    BY Zenon, <1>4, <1>5, <1>6
  <2>2. \A k \in 1..(Len(old) + Len(batch)) :
            new[k] = IF k <= Len(old) THEN old[k] ELSE batch[k - Len(old)]
    <3> SUFFICES ASSUME NEW k \in 1..(n0 + a.n)
                 PROVE  new[k] = IF k <= n0 THEN old[k] ELSE batch[k - n0]
      BY Zenon, <1>4, <1>5
    <3>1. new[k] = ContentAt(events', s, fork[s] + k)
      BY Zenon, <1>6
    <3>2. CASE k <= n0
      BY Zenon, <3>1, <3>2, <1>7
    <3>3. CASE ~ (k <= n0)
      <4>1. k > n0
        BY <3>3, <1>n
      <4> QED
        BY Zenon, <3>1, <3>3, <4>1, <1>8
    <3> QED
      BY Zenon, <3>2, <3>3
  <2> HIDE DEF new, old, batch, S
  <2>3. new = old \o batch
    BY Zenon, <2>1, <2>2, <1>4, <1>5, ListedInTurn
  <2> QED
    BY Zenon, <2>3 DEF new
<1>10. ASSUME NEW t \in Sessions, t # s
       PROVE  OwnLog(t)' = OwnLog(t)
  <2>1. head'[t] = head[t] /\ fork'[t] = fork[t]
    BY Zenon, <1>1, <1>10 DEF IndInv, TypeOK
  <2>2. ASSUME NEW k \in 1..(head[t] - fork[t])
        PROVE  ContentAt(events', t, fork[t] + k) = ContentAt(events, t, fork[t] + k)
    <3>1. PICK e \in events : e.session = t /\ e.seq = fork[t] + k /\ OwnLog(t)[k] = Content(e.request, e.i)
      BY Zenon, LogShape
    <3>2. e \in events' /\ \A f \in events' : f.session = t /\ f.seq = e.seq => f = e
      BY Zenon, <1>1, <1>3, <3>1
    <3> QED
      BY <3>1, <3>2, ContentOfRow DEF OwnLog
  <2> QED
    BY Zenon, <2>1, <2>2 DEF OwnLog
<1> QED
  BY ZenonT(30), <1>9, <1>10 DEF SL!Batch

\* An append that is about to commit is not in any log yet.
LEMMA CommitNotLanded ==
    ASSUME IndInv, NEW c \in Calls, pc[c] = "commit"
    PROVE  ~ SL!Landed(req[c])
<1> DEFINE r == req[c]
           a == sent[r]
<1>1. /\ r \in Requests /\ a.session \in Sessions /\ a \in Appends
      /\ head[a.session] = a.expected
  BY SMTT(30) DEF IndInv, CallsAreAppends, AppendsHaveSessions, TypeOK, GateStillHolds, GateMatches, Holding
<1>2. \A e \in events : e.request # r
  BY SMTT(30), <1>1, BoundsAssumption DEF IndInv, Contiguous, TypeOK, EventRows, RowsAreAsSent, Appends
<1>3. ASSUME NEW s \in Sessions, NEW k \in 1..Len(OwnLog(s))
      PROVE  OwnLog(s)[k][1] # r
  <2>1. k \in 1..(head[s] - fork[s])
    BY Zenon, <1>3, LogShape
  <2>2. PICK e \in events : OwnLog(s)[k] = Content(e.request, e.i)
    BY Zenon, <2>1, LogShape
  <2> QED
    BY <2>2, <1>2 DEF Content
<1> QED
  BY Zenon, <1>3 DEF SL!Landed

\* A COMMIT is an atomic compare-and-append.
LEMMA CommitImplements ==
    ASSUME IndInv, NEW c \in Calls, Commit(c)
    PROVE  SL!AppendBatch(req[c])
<1> DEFINE r == req[c]
           a == sent[r]
<1>1. /\ a.session \in Sessions /\ status[a.session] = "active" /\ epoch[a.session] = a.epoch
      /\ head[a.session] = a.expected /\ a.n \in Nat /\ a.expected \in Nat
      /\ UNCHANGED <<status, epoch, fork, sent>>
  BY Zenon, CommitEffect
<1>2. ~ SL!Landed(r) /\ a.n # 0
  BY Zenon, CommitNotLanded DEF Commit, IndInv, CallsAreAppends
<1>3. fork[a.session] + Len(OwnLog(a.session)) = a.expected
  <2> PICK s \in Sessions : s = a.session
    BY Zenon, <1>1
  <2>1. Len(OwnLog(s)) = head[s] - fork[s]
    BY Zenon, LogShape
  <2>2. fork[s] \in Int /\ head[s] \in Int
    BY BoundsAssumption DEF IndInv, TypeOK
  <2>3. head[s] = a.expected
    BY Zenon, <1>1
  <2>4. fork[s] + (head[s] - fork[s]) = head[s]
    BY <2>2
  <2> QED
    BY Zenon, <2>1, <2>3, <2>4
<1>4. \A t \in Sessions : OwnLog(t)' = IF t = a.session THEN OwnLog(t) \o SL!Batch(r) ELSE OwnLog(t)
  BY Zenon, <1>1, CommitLog
<1>5. [t \in Sessions |-> OwnLog(t)]' =
          [[t \in Sessions |-> OwnLog(t)] EXCEPT ![a.session] = @ \o SL!Batch(r)]
  BY Zenon, <1>1, <1>4
<1> QED
  BY Zenon, <1>1, <1>2, <1>3, <1>5 DEF SL!AppendBatch

\* The empty store shows empty logs.
LEMMA InitImplements == Init => SL!Init
<1> SUFFICES ASSUME Init PROVE SL!Init
  OBVIOUS
<1>1. \A s \in Sessions : OwnLog(s) = << >>
  BY DEF Init, OwnLog
<1> QED
  BY Zenon, <1>1 DEF Init, SL!Init

\* Opening a session, by creation or as a fork, shows an empty log after a prefix.
LEMMA OpenImplements ==
    ASSUME IndInv, NEW s \in Sessions,
           CreateSession(s) \/ \E p \in Sessions : \E atSeq \in 0..MaxHead : Fork(p, atSeq, s)
    PROVE  SL!Open(s)
<1> DEFINE logs == [t \in Sessions |-> OwnLog(t)]
<1>1. CASE CreateSession(s)
  <2>1. \A t \in Sessions : OwnLog(t)' = OwnLog(t)
    BY Zenon, <1>1, SameLog DEF CreateSession
  <2> QED
    BY Zenon, <1>1, <2>1 DEF SL!Open, CreateSession
<1>2. ASSUME NEW p \in Sessions, NEW atSeq \in 0..MaxHead, Fork(p, atSeq, s)
      PROVE  SL!Open(s)
  <2>1. ASSUME NEW t \in Sessions, t # s PROVE OwnLog(t)' = OwnLog(t)
    BY <1>2, <2>1, SameLog DEF Fork, IndInv, TypeOK
  <2>2. OwnLog(s)' = OwnLog(s)
    <3>1. head[s] = 0 /\ fork[s] = 0 /\ head'[s] = atSeq /\ fork'[s] = atSeq
      BY Zenon, <1>2 DEF Fork, IndInv, TypeOK, AbsentIsEmpty
    <3>2. OwnLog(s) = << >>
      BY SMTT(30), <3>1 DEF OwnLog
    <3>3. OwnLog(s)' = << >>
      BY <3>1, BoundsAssumption DEF OwnLog
    <3> QED
      BY Zenon, <3>2, <3>3
  <2>3. logs' = logs
    BY ZenonT(30), <2>1, <2>2
  <2>4. fork[p] + Len(OwnLog(p)) = head[p]
    <3>1. head[p] \in Nat /\ fork[p] \in Nat
      BY BoundsAssumption DEF IndInv, TypeOK
    <3>2. Len(OwnLog(p)) = head[p] - fork[p]
      BY Zenon, LogShape
    <3> QED
      BY <3>1, <3>2
  <2>5. p \in Sessions \ {s} /\ atSeq \in 0..(fork[p] + Len(logs[p]))
    BY <1>2, <2>4, BoundsAssumption DEF Fork, IndInv, TypeOK
  <2> QED
    BY Zenon, <1>2, <2>3, <2>5 DEF SL!Open, Fork
<1> QED
  BY Zenon, <1>1, <1>2

\* Every step of the store is a step of the abstract log or leaves it alone.
LEMMA NextImplements == IndInv /\ [Next]_vars => [SL!Next]_(SL!vars)
<1> SUFFICES ASSUME IndInv, [Next]_vars PROVE [SL!Next]_(SL!vars)
  BY Zenon
<1> DEFINE logs == [t \in Sessions |-> OwnLog(t)]
<1>1. ASSUME UNCHANGED <<events, head, fork>> PROVE logs' = logs
  BY Zenon, <1>1, SameLog
<1>2. ASSUME UNCHANGED <<events, head, fork, status, epoch, sent>> PROVE UNCHANGED SL!vars
  BY Zenon, <1>1, <1>2 DEF SL!vars
<1>3. ASSUME NEW s \in Sessions, CreateSession(s) PROVE SL!Next
  BY Zenon, <1>3, OpenImplements DEF SL!Next
<1>4. ASSUME NEW p \in Sessions, NEW s \in Sessions, NEW atSeq \in 0..MaxHead, Fork(p, atSeq, s)
      PROVE  SL!Next
  BY Zenon, <1>4, OpenImplements DEF SL!Next
<1>5. ASSUME NEW s \in Sessions, NEW e \in 0..MaxEpoch, SetSessionStatus(s, e) PROVE SL!Next
  BY Zenon, <1>1, <1>5 DEF SetSessionStatus, SL!Next, SL!Close
<1>6. ASSUME NEW s \in Sessions, Takeover(s) PROVE SL!Next
  BY Zenon, <1>1, <1>6 DEF Takeover, SL!Next, SL!Takeover
<1>7. ASSUME NEW c \in Calls, NEW r \in Requests, NEW s \in Sessions, NEW expected \in 0..MaxHead,
             NEW e \in 0..MaxEpoch, NEW n \in 1..MaxBatch, Send(c, r, s, expected, e, n)
      PROVE  SL!Next
  <2>1. sent[r].n = 0 /\ sent'[r].n # 0 /\ sent' = [sent EXCEPT ![r] = sent'[r]]
    BY <1>7, BoundsAssumption DEF Send, IndInv, TypeOK
  <2> QED
    BY Zenon, <1>1, <1>7, <2>1 DEF Send, sessionVars, SL!Next, SL!Ask
<1>8. ASSUME NEW c \in Calls, Commit(c) PROVE SL!Next
  <2>1. req[c] \in Requests
    BY Zenon, <1>8 DEF Commit, IndInv, CallsAreAppends
  <2> QED
    BY Zenon, <1>8, <2>1, CommitImplements DEF SL!Next
<1>9. ASSUME NEW c \in Calls, Lookup(c) \/ Gate(c) \/ Classify(c) \/ Insert(c) \/ Abort(c)
                              \/ \E r \in Requests : Resend(c, r)
      PROVE  UNCHANGED SL!vars
  BY Zenon, <1>2, <1>9 DEF Lookup, Gate, Classify, Insert, Abort, Resend, sessionVars
<1>10. CASE UNCHANGED vars
  BY Zenon, <1>2, <1>10 DEF vars, sessionVars
<1> QED
  BY Zenon, <1>3, <1>4, <1>5, <1>6, <1>7, <1>8, <1>9, <1>10 DEF Next, CallStep

\* The event store implements the abstract log: whatever its connections do, the
\* sessions' logs change only by atomic, fenced compare-and-appends.
THEOREM StoreImplementsLog == Spec => ImplementsSessionLog
  BY InitImplements, NextImplements, StoreInvariant, PTL DEF Spec, ImplementsSessionLog, SL!Spec

-----------------------------------------------------------------------------
(***************************************************************************)
(* What an append answered is true and stays true, whatever the other      *)
(* appends, forks and takeovers do after it.                               *)
(*                                                                         *)
(* A failed append reads the session a second time, in a transaction of    *)
(* its own, to name what went wrong. AnswerInv says why that read cannot   *)
(* be misled: the gate of a call that comes there was overtaken, and no    *)
(* later step of the store undoes it.                                      *)
(***************************************************************************)

\* An append that was sent asks for a head and an epoch the session has had.
SentInThePast ==
    \A r \in Requests : sent[r].n # 0 => /\ sent[r].expected <= head[sent[r].session]
                                         /\ sent[r].epoch <= epoch[sent[r].session]

\* The gate of an append can never match again.
Overtaken(a) == a.expected < head[a.session] \/ a.epoch < epoch[a.session] \/ status[a.session] # "active"

\* What an answer rests on: its append was sent, and a call that is about to name its
\* failure was overtaken, so that whatever the second read finds is for good.
AnswerInv ==
    /\ SentInThePast
    /\ \A c \in Calls : res[c] # "none" => req[c] \in Requests /\ sent[req[c]].n # 0
    /\ \A c \in Calls : pc[c] = "classify" => Overtaken(sent[req[c]])
    /\ AnswersAreTrue

\* What one step may do to a call, to what was sent and to a session that is closed.
LEMMA CallSteps ==
    ASSUME IndInv, Next, NEW c \in Calls
    PROVE  \/ pc'[c] = pc[c] /\ req'[c] = req[c] /\ res'[c] = res[c]
           \/ pc'[c] = "lookup" /\ res'[c] = "none"
           \/ pc[c] # "idle" /\ req'[c] = req[c] /\ pc'[c] # "classify" /\ res'[c] = res[c]
           \/ pc[c] = "lookup" /\ req'[c] = req[c] /\ pc'[c] # "classify" /\ res'[c] = "ok" /\ loadByRequestID(req[c]) # {}
           \/ /\ pc[c] = "gate" /\ req'[c] = req[c] /\ pc'[c] = "classify" /\ res'[c] = res[c]
              /\ ~ GateMatches(sent[req[c]])
           \/ /\ pc[c] = "classify" /\ req'[c] = req[c] /\ pc'[c] = "idle"
              /\ res'[c] = classifyAppendFailure(sent[req[c]])
           \/ pc[c] = "commit" /\ req'[c] = req[c] /\ pc'[c] = "idle" /\ res'[c] \in {"ok", "error"}
              /\ insertEvents(req[c], prevChain[c]) \subseteq events'
           \/ pc[c] # "idle" /\ req'[c] = req[c] /\ pc'[c] = "idle" /\ res'[c] = "error"
<1> DEFINE Goal(d) ==
           \/ pc'[d] = pc[d] /\ req'[d] = req[d] /\ res'[d] = res[d]
           \/ pc'[d] = "lookup" /\ res'[d] = "none"
           \/ pc[d] # "idle" /\ req'[d] = req[d] /\ pc'[d] # "classify" /\ res'[d] = res[d]
           \/ pc[d] = "lookup" /\ req'[d] = req[d] /\ pc'[d] # "classify" /\ res'[d] = "ok" /\ loadByRequestID(req[d]) # {}
           \/ /\ pc[d] = "gate" /\ req'[d] = req[d] /\ pc'[d] = "classify" /\ res'[d] = res[d]
              /\ ~ GateMatches(sent[req[d]])
           \/ /\ pc[d] = "classify" /\ req'[d] = req[d] /\ pc'[d] = "idle"
              /\ res'[d] = classifyAppendFailure(sent[req[d]])
           \/ pc[d] = "commit" /\ req'[d] = req[d] /\ pc'[d] = "idle" /\ res'[d] \in {"ok", "error"}
              /\ insertEvents(req[d], prevChain[d]) \subseteq events'
           \/ pc[d] # "idle" /\ req'[d] = req[d] /\ pc'[d] = "idle" /\ res'[d] = "error"
<1> SUFFICES Goal(c)
    BY Zenon
<1>t. /\ pc \in [Calls -> PCs] /\ req \in [Calls -> Requests \cup {None}]
      /\ res \in [Calls -> Results] /\ prevChain \in [Calls -> ChainValues]
    BY Zenon DEF IndInv, TypeOK
<1>1. ASSUME NEW s \in Sessions, NEW p \in Sessions, NEW n, NEW e,
             CreateSession(s) \/ Takeover(s) \/ Fork(p, n, s) \/ SetSessionStatus(s, e)
      PROVE  Goal(c)
    <2>1. UNCHANGED callVars
        BY <1>1, Zenon DEF CreateSession, Takeover, Fork, SetSessionStatus
    <2> QED
        BY <2>1, Zenon DEF callVars
<1>2. ASSUME NEW d \in Calls, NEW r \in Requests, NEW s, NEW k, NEW e, NEW n, Send(d, r, s, k, e, n) \/ Resend(d, r)
      PROVE  Goal(c)
    <2>1. /\ pc' = [pc EXCEPT ![d] = "lookup"] /\ req' = [req EXCEPT ![d] = r] /\ res' = [res EXCEPT ![d] = "none"]
        BY <1>2, Zenon DEF Send, Resend
    <2> QED
        BY Zenon, <1>t, <2>1
<1>3. ASSUME NEW d \in Calls, NEW result, Return(d, result)
      PROVE  /\ pc'[d] = "idle" /\ res'[d] = result /\ req' = req
             /\ c # d => pc'[c] = pc[c] /\ req'[c] = req[c] /\ res'[c] = res[c]
    BY Zenon, <1>3, <1>t DEF Return
<1>4. ASSUME NEW d \in Calls, Lookup(d) PROVE Goal(c)
    <2>1. CASE loadByRequestID(req[d]) # {}
        <3>1. Return(d, "ok") /\ pc[d] = "lookup"
            BY <1>4, <2>1, Zenon DEF Lookup
        <3> QED
            BY Zenon, <1>3, <2>1, <3>1
    <2>2. CASE ~ (loadByRequestID(req[d]) # {})
        <3>1. pc[d] = "lookup" /\ pc' = [pc EXCEPT ![d] = "gate"] /\ UNCHANGED <<req, res>>
            BY <1>4, <2>2, Zenon DEF Lookup
        <3> QED
            BY Zenon, <1>t, <3>1
    <2> QED
        BY <2>1, <2>2, Zenon
<1>5. ASSUME NEW d \in Calls, Gate(d) PROVE Goal(c)
    <2>1. /\ pc[d] = "gate" /\ UNCHANGED <<req, res>>
          /\ \/ pc' = [pc EXCEPT ![d] = "insert"]
             \/ pc' = [pc EXCEPT ![d] = "classify"] /\ ~ GateMatches(sent[req[d]])
        BY <1>5, Zenon DEF Gate
    <2> QED
        BY Zenon, <1>t, <2>1
<1>6. ASSUME NEW d \in Calls, Classify(d) PROVE Goal(c)
    <2>1. Return(d, classifyAppendFailure(sent[req[d]])) /\ pc[d] = "classify"
        BY <1>6, Zenon DEF Classify
    <2> QED
        BY Zenon, <1>3, <2>1
<1>7. ASSUME NEW d \in Calls, Insert(d) PROVE Goal(c)
    <2>1. pc[d] = "insert" /\ pc' = [pc EXCEPT ![d] = "commit"] /\ UNCHANGED <<req, res>>
        BY <1>7, Zenon DEF Insert
    <2> QED
        BY Zenon, <1>t, <2>1
<1>8. ASSUME NEW d \in Calls, Commit(d) PROVE Goal(c)
    <2>0. pc[d] = "commit"
        BY <1>8, Zenon DEF Commit
    <2>1. ~ ViolatesUnique(insertEvents(req[d], prevChain[d]))
        BY Zenon, <2>0, CommitIsFree
    <2>2. PICK result \in {"ok", "error"} : Return(d, result)
        BY <1>8, <2>1, Zenon DEF Commit
    <2>3. events' = events \cup insertEvents(req[d], prevChain[d])
        BY <1>8, <2>1, Zenon DEF Commit
    <2> QED
        BY Zenon, <1>3, <2>0, <2>2, <2>3
<1>9. ASSUME NEW d \in Calls, Abort(d) PROVE Goal(c)
    <2>1. Return(d, "error") /\ pc[d] # "idle"
        BY <1>9, Zenon DEF Abort
    <2> QED
        BY Zenon, <1>3, <2>1
<1> HIDE DEF Goal
<1> QED
    BY <1>1, <1>2, <1>4, <1>5, <1>6, <1>7, <1>8, <1>9, Zenon DEF Next, CallStep

\* An append stays as it was sent, and a session that is there does not become active.
LEMMA SentStays ==
    ASSUME IndInv, Next
    PROVE  /\ \A r \in Requests : sent[r].n # 0 => sent'[r] = sent[r]
           /\ \A r \in Requests : sent[r].n = 0 /\ sent'[r].n # 0 =>
                  /\ sent'[r].session \in Sessions
                  /\ sent'[r].expected <= head[sent'[r].session] /\ sent'[r].epoch <= epoch[sent'[r].session]
           /\ \A s \in Sessions : status[s] # "absent" /\ status[s] # "active" => status'[s] # "active"
<1> DEFINE SentOnly ==
           /\ \A r \in Requests : sent[r].n # 0 => sent'[r] = sent[r]
           /\ \A r \in Requests : sent[r].n = 0 /\ sent'[r].n # 0 =>
                  /\ sent'[r].session \in Sessions
                  /\ sent'[r].expected <= head[sent'[r].session] /\ sent'[r].epoch <= epoch[sent'[r].session]
           StatusStays ==
               \A s \in Sessions : status[s] # "absent" /\ status[s] # "active" => status'[s] # "active"
<1> SUFFICES SentOnly /\ StatusStays
    BY Zenon
<1>t. sent \in [Requests -> Appends] /\ status \in [Sessions -> Statuses]
    BY Zenon DEF IndInv, TypeOK
<1>1. UNCHANGED sent => SentOnly
    BY Zenon
<1>2. UNCHANGED status => StatusStays
    BY Zenon
<1>3. ASSUME NEW s \in Sessions, NEW p \in Sessions, NEW n, NEW e,
             CreateSession(s) \/ Takeover(s) \/ Fork(p, n, s) \/ SetSessionStatus(s, e)
      PROVE  SentOnly /\ StatusStays
    <2>1. UNCHANGED sent
        BY <1>3, Zenon DEF CreateSession, Takeover, Fork, SetSessionStatus
    <2>2. \/ UNCHANGED status
          \/ status[s] = "absent" /\ status' = [status EXCEPT ![s] = "active"]
          \/ status' = [status EXCEPT ![s] = "closed"]
        BY <1>3, Zenon DEF CreateSession, Takeover, Fork, SetSessionStatus
    <2>3. StatusStays
        BY Zenon, <1>t, <2>2
    <2> QED
        BY <1>1, <2>1, <2>3, Zenon
<1>4. ASSUME NEW d \in Calls, NEW r \in Requests, NEW s \in Sessions, NEW k, NEW e, NEW n, Send(d, r, s, k, e, n)
      PROVE  SentOnly /\ StatusStays
    <2>1. /\ sent[r].n = 0 /\ k <= head[s] /\ e <= epoch[s] /\ UNCHANGED status
          /\ sent' = [sent EXCEPT ![r] = [session |-> s, expected |-> k, epoch |-> e, n |-> n]]
        BY <1>4, Zenon DEF Send, sessionVars
    <2>2. SentOnly
        BY Zenon, <1>t, <2>1
    <2> QED
        BY <1>2, <2>1, <2>2, Zenon
<1>5. ASSUME NEW d \in Calls, NEW r \in Requests, Resend(d, r) PROVE SentOnly /\ StatusStays
    BY <1>1, <1>2, <1>5, Zenon DEF Resend, sessionVars
<1>6. ASSUME NEW d \in Calls, CallStep(d) \/ Abort(d) PROVE SentOnly /\ StatusStays
    <2>1. UNCHANGED <<sent, status>>
        BY <1>6, Zenon DEF CallStep, Lookup, Gate, Classify, Insert, Commit, Abort, sessionVars
    <2> QED
        BY <1>1, <1>2, <2>1, Zenon
<1> HIDE DEF SentOnly, StatusStays
<1> QED
    BY <1>3, <1>4, <1>5, <1>6, Zenon DEF Next

\* Every answer stays true: an append that landed stays landed, and one that was
\* overtaken is so for good.
LEMMA AnswerStep ==
    ASSUME IndInv, IndInv', AnswerInv, Next
    PROVE  AnswerInv'
<1>g. events \subseteq events' /\ \A s \in Sessions : head[s] <= head'[s] /\ epoch[s] <= epoch'[s]
    BY LogGrows, Zenon
<1>s. /\ \A r \in Requests : sent[r].n # 0 => sent'[r] = sent[r]
      /\ \A s \in Sessions : status[s] # "absent" /\ status[s] # "active" => status'[s] # "active"
    BY SentStays, Zenon
<1>t. \A s \in Sessions : /\ head[s] \in Nat /\ head'[s] \in Nat /\ epoch[s] \in Nat /\ epoch'[s] \in Nat
    BY BoundsAssumption DEF IndInv, TypeOK
<1>a. \A r \in Requests : sent'[r].n # 0 =>
          sent'[r].session \in Sessions /\ sent'[r].expected \in Nat /\ sent'[r].epoch \in Nat
    <2>1. \A r \in Requests : sent'[r] \in Appends
        BY Zenon DEF IndInv, TypeOK
    <2>2. \A a \in Appends : a.expected \in Nat /\ a.epoch \in Nat
        BY BoundsAssumption DEF Appends
    <2> QED
        BY <2>1, <2>2, Zenon DEF IndInv, AppendsHaveSessions
<1>b. \A r \in Requests : sent[r].n # 0 => status[sent[r].session] # "absent"
    BY Zenon DEF IndInv, AppendsHaveSessions
<1>m. \A x, y, z \in Nat : (x <= y /\ y <= z => x <= z) /\ (x < y /\ y <= z => x < z)
    OBVIOUS
<1>1. SentInThePast'
    <2> SUFFICES ASSUME NEW r \in Requests, sent'[r].n # 0
                 PROVE  /\ sent'[r].expected <= head'[sent'[r].session]
                        /\ sent'[r].epoch <= epoch'[sent'[r].session]
        BY Zenon DEF SentInThePast
    <2>1. PICK s : s = sent'[r].session
        BY Zenon
    <2>2. sent'[r].expected <= head[s] /\ sent'[r].epoch <= epoch[s]
        <3>1. CASE sent[r].n = 0
            BY <2>1, <3>1, SentStays, Zenon
        <3>2. CASE sent[r].n # 0
            BY <1>s, <2>1, <3>2, Zenon DEF AnswerInv, SentInThePast
        <3> QED
            BY Zenon, <3>1, <3>2
    <2> QED
        BY <1>a, <1>g, <1>m, <1>t, <2>1, <2>2, Zenon
<1>2. ASSUME NEW r \in Requests, sent[r].n # 0
      PROVE  /\ sent'[r] = sent[r]
             /\ sent[r].expected < head[sent[r].session] => sent[r].expected < head'[sent[r].session]
             /\ sent[r].epoch < epoch[sent[r].session] => sent[r].epoch < epoch'[sent[r].session]
             /\ status[sent[r].session] # "active" => status'[sent[r].session] # "active"
    <2>1. sent'[r] = sent[r]
        BY <1>2, <1>s, Zenon
    <2>2. PICK s : s = sent[r].session
        BY Zenon
    <2>3. s \in Sessions /\ sent[r].expected \in Nat /\ sent[r].epoch \in Nat /\ status[s] # "absent"
        BY <1>2, <1>a, <1>b, <2>1, <2>2, Zenon
    <2> QED
        BY <1>g, <1>m, <1>s, <1>t, <2>1, <2>2, <2>3, Zenon
<1>3. ASSUME NEW r \in Requests, sent[r].n # 0, Overtaken(sent[r])
      PROVE  Overtaken(sent[r])'
    BY <1>2, <1>3, Zenon DEF Overtaken
<1>4. ASSUME NEW r \in Requests, loadByRequestID(r)' # {}
      PROVE  {e.i : e \in loadByRequestID(r)'} = 1..sent'[r].n
    <2>1. PICK landed : landed = {e \in events' : e.request = r}
        BY Zenon
    <2>2. landed # {}
        BY <1>4, <2>1, Zenon DEF loadByRequestID
    <2>3. /\ \A e \in landed : e.session = sent'[r].session
          /\ {e.i : e \in landed} = 1..sent'[r].n
        BY <2>1, <2>2, Zenon DEF IndInv, LandsOnceAndWhole
    <2>4. loadByRequestID(r)' = landed
        BY <2>1, <2>3, Zenon DEF loadByRequestID
    <2> QED
        BY <2>3, <2>4, Zenon
<1>5. ASSUME NEW r \in Requests, sent[r].n # 0, loadByRequestID(r) # {}
      PROVE  loadByRequestID(r)' # {}
    <2>1. sent'[r] = sent[r]
        BY <1>5, <1>2, Zenon
    <2> QED
        BY <1>5, <1>g, <2>1, Zenon DEF loadByRequestID
<1>6. ASSUME NEW r \in Requests, sent[r].n # 0, {e.i : e \in loadByRequestID(r)} = 1..sent[r].n
      PROVE  loadByRequestID(r) # {}
    <2>1. sent[r].n \in Nat
        <3>1. sent[r] \in Appends
            BY Zenon DEF IndInv, TypeOK
        <3> QED
            BY <3>1, BoundsAssumption DEF Appends
    <2>2. 1 \in 1..sent[r].n
        BY <1>6, <2>1
    <2> QED
        BY <1>6, <2>2, Zenon
\* What holds of an append when its call is answered, so that it stays true.
<1> DEFINE Holds(r, result) ==
        /\ result = "ok" => loadByRequestID(r)' # {}
        /\ result = "fenced" => sent'[r].epoch < epoch'[sent'[r].session]
        /\ result = "conflict" => sent'[r].expected < head'[sent'[r].session]
        /\ result = "not_active" => status'[sent'[r].session] # "active"
<1>7. ASSUME NEW c \in Calls, NEW r \in Requests, NEW x, r = req[c], x = res[c], sent[r].n # 0 PROVE Holds(r, x)
    <2>3. /\ x = "ok" => {e.i : e \in loadByRequestID(r)} = 1..sent[r].n
          /\ x = "fenced" => sent[r].epoch < epoch[sent[r].session]
          /\ x = "conflict" => sent[r].expected < head[sent[r].session]
          /\ x = "not_active" => status[sent[r].session] # "active"
        BY <1>7, Zenon DEF AnswerInv, AnswersAreTrue
    <2>4. x = "ok" => loadByRequestID(r)' # {}
        BY <1>5, <1>6, <1>7, <2>3, Zenon
    <2>5. /\ x = "fenced" => sent'[r].epoch < epoch'[sent'[r].session]
          /\ x = "conflict" => sent'[r].expected < head'[sent'[r].session]
          /\ x = "not_active" => status'[sent'[r].session] # "active"
        BY <1>2, <1>7, <2>3, Zenon
    <2> QED
        BY <2>4, <2>5, Zenon
<1>8. ASSUME NEW c \in Calls, NEW r, NEW x, pc[c] = "classify", r = req[c], x = classifyAppendFailure(sent[r])
      PROVE  Holds(r, x)
    <2>2. r \in Requests /\ sent[r].n # 0
        BY <1>8, Zenon DEF IndInv, CallsAreAppends
    <2>3. PICK s : s = sent[r].session
        BY Zenon
    <2>4. s \in Sessions /\ sent[r].epoch \in Nat /\ epoch[s] \in Nat /\ sent[r].epoch <= epoch[s]
        BY <1>2, <1>a, <1>t, <2>2, <2>3, Zenon DEF AnswerInv, SentInThePast
    <2>5. sent[r].expected < head[s] \/ sent[r].epoch < epoch[s] \/ status[s] # "active"
        BY <1>8, <2>3, Zenon DEF AnswerInv, Overtaken
    <2>6. x = IF status[s] # "active" THEN "not_active"
              ELSE IF epoch[s] # sent[r].epoch THEN "fenced" ELSE "conflict"
        BY Zenon, <1>8, <2>3 DEF classifyAppendFailure
    <2>7. \A y, z \in Nat : (y <= z /\ y # z => y < z) /\ (y < z => y # z)
        OBVIOUS
    <2>8. CASE status[s] # "active"
        <3>1. x = "not_active" /\ status'[sent'[r].session] # "active"
            BY <1>2, <2>2, <2>3, <2>6, <2>8, Zenon
        <3> QED
            BY Zenon, <3>1
    <2>9. CASE status[s] = "active" /\ epoch[s] # sent[r].epoch
        <3>1. x = "fenced" /\ sent'[r].epoch < epoch'[sent'[r].session]
            BY <1>2, <2>2, <2>3, <2>4, <2>6, <2>7, <2>9, Zenon
        <3> QED
            BY Zenon, <3>1
    <2>10. CASE status[s] = "active" /\ epoch[s] = sent[r].epoch
        <3>1. x = "conflict" /\ sent'[r].expected < head'[sent'[r].session]
            BY <1>2, <2>2, <2>3, <2>4, <2>5, <2>6, <2>7, <2>10, Zenon
        <3> QED
            BY Zenon, <3>1
    <2> QED
        BY <2>8, <2>9, <2>10, Zenon
<1>9. ASSUME NEW c \in Calls, NEW r, pc[c] = "commit", r = req[c], insertEvents(r, prevChain[c]) \subseteq events'
      PROVE  loadByRequestID(r)' # {}
    <2>2. r \in Requests /\ sent[r].n # 0 /\ sent'[r] = sent[r]
        BY <1>2, <1>9, Zenon DEF IndInv, CallsAreAppends
    <2>3. sent[r].n \in Nat
        <3>1. sent[r] \in Appends
            BY <2>2, Zenon DEF IndInv, TypeOK
        <3> QED
            BY <3>1, BoundsAssumption DEF Appends
    <2>4. 1 \in 1..sent[r].n
        BY <2>2, <2>3
    <2>5. PICK e : /\ e \in events' /\ e = [session |-> sent[r].session, seq |-> sent[r].expected + 1, request |-> r,
                                            i |-> 1, chain |-> ChainFold(prevChain[c], r, 1)]
        BY <1>9, <2>4, Zenon DEF insertEvents
    <2>6. e.session = sent[r].session /\ e.request = r
        BY Zenon, <2>5
    <2> QED
        BY <2>2, <2>5, <2>6, Zenon DEF loadByRequestID
<1>10. \A r : Holds(r, "error")
    BY Zenon
<1>11. \A r : loadByRequestID(r)' # {} => Holds(r, "ok")
    BY Zenon
<1> HIDE DEF Holds
<1>12. ASSUME NEW c \in Calls, NEW r, NEW x, r = req'[c], x = res'[c]
       PROVE  /\ x # "none" => r \in Requests /\ sent[r].n # 0 /\ sent'[r].n # 0 /\ Holds(r, x)
              /\ pc'[c] = "classify" => Overtaken(sent[r])'
    <2>n. pc[c] # "idle" => req[c] \in Requests /\ sent[req[c]].n # 0
        BY Zenon DEF IndInv, CallsAreAppends
    <2>s. r \in Requests /\ sent[r].n # 0 => sent'[r].n # 0
        BY <1>2, Zenon
    <2>o. r = req[c] /\ x = res[c] => (x # "none" => r \in Requests /\ sent[r].n # 0 /\ sent'[r].n # 0 /\ Holds(r, x))
        BY <1>7, <2>s, Zenon DEF AnswerInv
    <2>1. CASE pc'[c] = pc[c] /\ req'[c] = req[c] /\ res'[c] = res[c]
        <3>1. pc[c] = "classify" => r \in Requests /\ sent[r].n # 0 /\ Overtaken(sent[r])
            BY <1>12, <2>1, <2>n, Zenon DEF AnswerInv
        <3> QED
            BY <1>12, <1>3, <2>1, <2>o, <3>1, Zenon
    <2>2. CASE pc'[c] = "lookup" /\ res'[c] = "none"
        BY Zenon, <1>12, <2>2
    <2>3. CASE pc[c] # "idle" /\ req'[c] = req[c] /\ pc'[c] # "classify" /\ res'[c] = res[c]
        BY <1>12, <2>3, <2>o, Zenon
    <2>4. CASE pc[c] = "lookup" /\ req'[c] = req[c] /\ pc'[c] # "classify" /\ res'[c] = "ok" /\ loadByRequestID(req[c]) # {}
        <3>1. r \in Requests /\ sent[r].n # 0 /\ loadByRequestID(r) # {} /\ x = "ok"
            BY Zenon, <1>12, <2>4, <2>n
        <3> QED
            BY <1>5, <1>11, <2>4, <2>s, <3>1, Zenon
    <2>5. CASE /\ pc[c] = "gate" /\ req'[c] = req[c] /\ pc'[c] = "classify" /\ res'[c] = res[c]
               /\ ~ GateMatches(sent[req[c]])
        <3>1. r \in Requests /\ sent[r].n # 0 /\ ~ GateMatches(sent[r])
            BY Zenon, <1>12, <2>5, <2>n
        <3>2. Overtaken(sent[r])
            <4>1. PICK s : s = sent[r].session
                BY Zenon
            <4>2. /\ s \in Sessions /\ sent[r].expected \in Nat /\ sent[r].epoch \in Nat
                  /\ head[s] \in Nat /\ epoch[s] \in Nat
                BY <1>2, <1>a, <1>t, <3>1, <4>1, Zenon
            <4>3. sent[r].expected <= head[s] /\ sent[r].epoch <= epoch[s]
                BY <3>1, <4>1, Zenon DEF AnswerInv, SentInThePast
            <4>4. head[s] # sent[r].expected \/ epoch[s] # sent[r].epoch \/ status[s] # "active"
                BY <3>1, <4>1, Zenon DEF GateMatches
            <4>5. \A y, z \in Nat : y <= z /\ z # y => y < z
                OBVIOUS
            <4> QED
                BY <4>1, <4>2, <4>3, <4>4, <4>5, Zenon DEF Overtaken
        <3> QED
            BY <1>3, <1>12, <2>5, <2>o, <3>1, <3>2, Zenon
    <2>6. CASE /\ pc[c] = "classify" /\ req'[c] = req[c] /\ pc'[c] = "idle"
               /\ res'[c] = classifyAppendFailure(sent[req[c]])
        <3>1. pc[c] # "idle" /\ pc'[c] # "classify"
            BY Zenon, <2>6
        <3>2. r \in Requests /\ sent[r].n # 0 /\ r = req[c] /\ x = classifyAppendFailure(sent[r])
            BY <1>12, <2>6, <2>n, <3>1, Zenon
        <3> QED
            BY <1>8, <2>6, <2>s, <3>1, <3>2, Zenon
    <2>7. CASE /\ pc[c] = "commit" /\ req'[c] = req[c] /\ pc'[c] = "idle" /\ res'[c] \in {"ok", "error"}
               /\ insertEvents(req[c], prevChain[c]) \subseteq events'
        <3>1. pc[c] # "idle" /\ pc'[c] # "classify"
            BY Zenon, <2>7
        <3>2. r \in Requests /\ sent[r].n # 0 /\ r = req[c] /\ (x = "ok" \/ x = "error")
            BY <1>12, <2>7, <2>n, <3>1, Zenon
        <3>3. insertEvents(r, prevChain[c]) \subseteq events'
            BY <2>7, <3>2, Zenon
        <3> QED
            BY <1>9, <1>10, <1>11, <2>7, <2>s, <3>1, <3>2, <3>3, Zenon
    <2>8. CASE pc[c] # "idle" /\ req'[c] = req[c] /\ pc'[c] = "idle" /\ res'[c] = "error"
        <3>1. pc'[c] # "classify"
            BY Zenon, <2>8
        <3> QED
            BY <1>10, <1>12, <2>8, <2>n, <2>s, <3>1, Zenon
    <2> QED
        BY <2>1, <2>2, <2>3, <2>4, <2>5, <2>6, <2>7, <2>8, CallSteps, Zenon
<1>13. /\ \A c \in Calls : res'[c] # "none" => req'[c] \in Requests /\ sent'[req'[c]].n # 0
       /\ \A c \in Calls : pc'[c] = "classify" => Overtaken(sent[req[c]])'
    BY <1>12, Zenon DEF Overtaken
<1>14. AnswersAreTrue'
    <2> SUFFICES ASSUME NEW c \in Calls, NEW r, NEW x, r = req'[c], x = res'[c]
                 PROVE  /\ x = "ok" => {e.i : e \in loadByRequestID(r)'} = 1..sent'[r].n
                        /\ x = "fenced" => sent'[r].epoch < epoch'[sent'[r].session]
                        /\ x = "conflict" => sent'[r].expected < head'[sent'[r].session]
                        /\ x = "not_active" => status'[sent'[r].session] # "active"
        BY Zenon DEF AnswersAreTrue, loadByRequestID
    <2>1. x # "none" => r \in Requests /\ Holds(r, x)
        <3>1. r = req'[c] /\ x = res'[c]
            BY Zenon
        <3> QED
            BY Zenon, <1>12, <3>1
    <2>2. Holds(r, x) =>
            /\ x = "ok" => loadByRequestID(r)' # {}
            /\ x = "fenced" => sent'[r].epoch < epoch'[sent'[r].session]
            /\ x = "conflict" => sent'[r].expected < head'[sent'[r].session]
            /\ x = "not_active" => status'[sent'[r].session] # "active"
        BY Zenon DEF Holds
    <2>3. CASE x = "none"
        BY Zenon, <2>3
    <2>4. CASE x # "none"
        BY <1>4, <2>1, <2>2, <2>4, Zenon
    <2> QED
        BY Zenon, <2>3, <2>4
<1> QED
    BY <1>1, <1>13, <1>14, Zenon DEF AnswerInv

\* Success means that the whole batch is in the log, and a refusal names what is so and
\* stays so, although the gate is read in one statement and the reason in another, with
\* other writers in between (Store.Append, classifyAppendFailure).
THEOREM AnswersStayTrue == Spec => []AnswersAreTrue
<1>1. Init => AnswerInv
    <2> SUFFICES ASSUME Init PROVE AnswerInv
        OBVIOUS
    <2>1. \A c \in Calls : res[c] = "none" /\ pc[c] = "idle"
        BY Zenon DEF Init
    <2>2. \A r \in Requests : sent[r].n = 0
        BY Zenon DEF Init
    <2>3. \A c \in Calls : pc[c] # "classify" /\ res[c] \notin {"ok", "fenced", "conflict", "not_active"}
        BY Zenon, <2>1
    <2> QED
        BY <2>1, <2>2, <2>3, Zenon DEF AnswerInv, SentInThePast, AnswersAreTrue
<1>2. IndInv /\ IndInv' /\ AnswerInv /\ [Next]_vars => AnswerInv'
    <2>1. ASSUME AnswerInv, UNCHANGED vars PROVE AnswerInv'
        BY <2>1, Zenon DEF vars, sessionVars, callVars, AnswerInv, SentInThePast, AnswersAreTrue, Overtaken, loadByRequestID
    <2> QED
        BY <2>1, AnswerStep, Zenon
<1>3. AnswerInv => AnswersAreTrue
    BY Zenon DEF AnswerInv
<1> QED
    BY <1>1, <1>2, <1>3, StoreInvariant, PTL DEF Spec
=============================================================================
