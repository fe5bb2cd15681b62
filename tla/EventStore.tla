----------------------------- MODULE EventStore -----------------------------
(***************************************************************************)
(* The append-only event store of the orchestrator                         *)
(* (internal/orchestrator/adapter/outbound/eventstore): the sessions and   *)
(* events tables, and the transaction by which every event reaches the     *)
(* log.                                                                    *)
(*                                                                         *)
(* An Append is one PostgreSQL transaction at READ COMMITTED, so other     *)
(* connections take steps between its statements.  The model has one step  *)
(* per statement whose result depends on them:                             *)
(*                                                                         *)
(*   lookup    (a) the request_id short-circuit                            *)
(*   gate      (b) UPDATE sessions ... WHERE head_seq, lease_epoch, status *)
(*             match; it waits for, then holds, the row lock of the session*)
(*   classify  the re-read that names the failure when no row matched      *)
(*   insert    (c), (d) read chain_head and build the rows                 *)
(*   commit    (e) and COMMIT: everything becomes visible at once          *)
(*                                                                         *)
(* A connection can die in any of these states, and the answer of a COMMIT *)
(* that took effect can be lost: the caller may then send the same request *)
(* again, also while the first attempt is still running.                   *)
(***************************************************************************)
EXTENDS Integers, Sequences, FiniteSets

CONSTANTS
    Sessions,    \* session ids
    Requests,    \* request ids, one per logical append
    Calls,       \* connections running an Append
    None,        \* no session, no call
    MaxHead,     \* bound on head_seq
    MaxEpoch,    \* bound on lease_epoch
    MaxBatch     \* bound on the number of events of one append

ASSUME BoundsAssumption ==
    /\ MaxHead \in Nat
    /\ MaxEpoch \in Nat
    /\ MaxBatch \in Nat \ {0}

ASSUME NoneAssumption == None \notin Sessions /\ None \notin Calls

VARIABLES
    (* the sessions table *)
    status,      \* "absent" for a session that has no row
    head,        \* head_seq
    epoch,       \* lease_epoch
    parent,      \* parent_id
    fork,        \* forked_from_seq, 0 when NULL
    chainHead,   \* chain_head, << >> when NULL
    rowLock,     \* the transaction holding the row lock
    (* the events table *)
    events,
    (* the appends: what each request id stands for, and the connections *)
    sent,        \* the arguments of an append, n = 0 for an unused request id
    pc, req, res,
    prevChain    \* the chain hash an append builds on, << >> before it is read

sessionVars == <<status, head, epoch, parent, fork, chainHead>>
callVars == <<pc, req, res, prevChain>>
vars == <<sessionVars, rowLock, events, sent, callVars>>

\* "closed" stands for the terminal statuses finished and failed.
Statuses == {"absent", "active", "closed"}
Results == {"none", "ok", "conflict", "fenced", "not_active", "error"}
PCs == {"idle", "lookup", "gate", "classify", "insert", "commit"}

Appends == [session : Sessions \cup {None}, expected : 0..MaxHead, epoch : 0..MaxEpoch, n : 0..MaxBatch]

-----------------------------------------------------------------------------
(* The hash chain.  SHA-256 is taken as collision free: a chain hash is the *)
(* sequence of what was folded into it, starting with the session's genesis.*)

\* What distinguishes one event's payload from another: its append and place in it.
Content(r, i) == <<r, i>>

GenesisChainHash(s) == <<s>>

ChainHash(prev, content) == Append(prev, content)

\* The chain hash of the i-th event of append r when the chain stood at prev.
ChainFold(prev, r, i) == prev \o [j \in 1..i |-> Content(r, j)]

ChainValues == Seq(Sessions \cup (Requests \X (1..MaxBatch)))

loadChainHead(s) == IF chainHead[s] = << >> THEN GenesisChainHash(s) ELSE chainHead[s]

EventRows == [session : Sessions, seq : 1..MaxHead, request : Requests,
              i : 1..MaxBatch, chain : ChainValues]

-----------------------------------------------------------------------------
Init ==
    /\ status = [s \in Sessions |-> "absent"]
    /\ head = [s \in Sessions |-> 0]
    /\ epoch = [s \in Sessions |-> 0]
    /\ parent = [s \in Sessions |-> None]
    /\ fork = [s \in Sessions |-> 0]
    /\ chainHead = [s \in Sessions |-> << >>]
    /\ rowLock = [s \in Sessions |-> None]
    /\ events = {}
    /\ sent = [r \in Requests |-> [session |-> None, expected |-> 0, epoch |-> 0, n |-> 0]]
    /\ pc = [c \in Calls |-> "idle"]
    /\ req = [c \in Calls |-> None]
    /\ res = [c \in Calls |-> "none"]
    /\ prevChain = [c \in Calls |-> << >>]

-----------------------------------------------------------------------------
(* Sessions *)

\* CreateSession: the row is inserted active, at head 0 and epoch 0.
CreateSession(s) ==
    /\ status[s] = "absent"
    /\ status' = [status EXCEPT ![s] = "active"]
    /\ UNCHANGED <<head, epoch, parent, fork, chainHead, rowLock, events, sent, callVars>>

\* Faulty: the fork point is not compared with the parent's head.
Fork_AnyPoint(p, atSeq, s) ==
    /\ status[p] # "absent"
    /\ status[s] = "absent"
    /\ status' = [status EXCEPT ![s] = "active"]
    /\ head' = [head EXCEPT ![s] = atSeq]
    /\ fork' = [fork EXCEPT ![s] = atSeq]
    /\ parent' = [parent EXCEPT ![s] = p]
    /\ UNCHANGED <<epoch, chainHead, rowLock, events, sent, callVars>>

\* Fork: the child continues the parent's numbering after atSeq, which may not
\* lie beyond the parent's head; chain_head starts NULL.
Fork(p, atSeq, s) ==
    /\ status[p] # "absent"
    /\ status[s] = "absent"
    /\ atSeq <= head[p]
    /\ status' = [status EXCEPT ![s] = "active"]
    /\ head' = [head EXCEPT ![s] = atSeq]
    /\ fork' = [fork EXCEPT ![s] = atSeq]
    /\ parent' = [parent EXCEPT ![s] = p]
    /\ UNCHANGED <<epoch, chainHead, rowLock, events, sent, callVars>>

\* SetSessionStatus to finished or failed: the UPDATE waits for the row lock and
\* matches the writer's epoch only, not the status it overwrites.
SetSessionStatus(s, e) ==
    /\ status[s] # "absent"
    /\ rowLock[s] = None
    /\ epoch[s] = e
    /\ status' = [status EXCEPT ![s] = "closed"]
    /\ UNCHANGED <<head, epoch, parent, fork, chainHead, rowLock, events, sent, callVars>>

\* A new owner takes the lease over and bumps the fencing token.  No code in the
\* repository does this yet (every writer runs at its configured epoch); the
\* fencing of Append exists for it.
Takeover(s) ==
    /\ status[s] # "absent"
    /\ rowLock[s] = None
    /\ epoch[s] < MaxEpoch
    /\ epoch' = [epoch EXCEPT ![s] = @ + 1]
    /\ UNCHANGED <<status, head, parent, fork, chainHead, rowLock, events, sent, callVars>>

-----------------------------------------------------------------------------
(* Append *)

\* A caller sends a new append to a session it has created, forked or loaded: it
\* expects some head the session has had, and carries some epoch that was granted.
Send(c, r, s, expected, e, n) ==
    /\ pc[c] = "idle"
    /\ sent[r].n = 0
    /\ status[s] # "absent"
    /\ expected <= head[s]
    /\ expected + n <= MaxHead
    /\ e <= epoch[s]
    /\ sent' = [sent EXCEPT ![r] = [session |-> s, expected |-> expected, epoch |-> e, n |-> n]]
    /\ pc' = [pc EXCEPT ![c] = "lookup"]
    /\ req' = [req EXCEPT ![c] = r]
    /\ res' = [res EXCEPT ![c] = "none"]
    /\ UNCHANGED <<sessionVars, rowLock, events, prevChain>>

\* The caller did not learn the outcome and sends the same append again.
Resend(c, r) ==
    /\ pc[c] = "idle"
    /\ sent[r].n # 0
    /\ pc' = [pc EXCEPT ![c] = "lookup"]
    /\ req' = [req EXCEPT ![c] = r]
    /\ res' = [res EXCEPT ![c] = "none"]
    /\ UNCHANGED <<sessionVars, rowLock, events, sent, prevChain>>

Return(c, result) ==
    /\ pc' = [pc EXCEPT ![c] = "idle"]
    /\ res' = [res EXCEPT ![c] = result]
    /\ prevChain' = [prevChain EXCEPT ![c] = << >>]
    /\ UNCHANGED req

\* The committed rows of append r.
loadByRequestID(r) == {e \in events : e.session = sent[r].session /\ e.request = r}

\* (a) The append already landed: its rows are returned as success.
Lookup(c) ==
    /\ pc[c] = "lookup"
    /\ IF loadByRequestID(req[c]) # {}
         THEN Return(c, "ok")
         ELSE /\ pc' = [pc EXCEPT ![c] = "gate"]
              /\ UNCHANGED <<req, res, prevChain>>
    /\ UNCHANGED <<sessionVars, rowLock, events, sent>>

\* Faulty: the version is not part of the WHERE clause.
GateMatches_NoVersion(a) ==
    /\ epoch[a.session] = a.epoch
    /\ status[a.session] = "active"

\* The WHERE clause of the gate.
GateMatches(a) ==
    /\ head[a.session] = a.expected
    /\ epoch[a.session] = a.epoch
    /\ status[a.session] = "active"

\* Faulty: the row is read, and found to match, but not locked.
Gate_NoLock(c) ==
    LET a == sent[req[c]] IN
    /\ pc[c] = "gate"
    /\ rowLock[a.session] = None
    /\ pc' = [pc EXCEPT ![c] = IF GateMatches(a) THEN "insert" ELSE "classify"]
    /\ UNCHANGED <<sessionVars, rowLock, events, sent, req, res, prevChain>>

\* (b) The UPDATE runs once no other transaction holds the row; when it matches
\* the row stays locked until this transaction ends.
Gate(c) ==
    LET a == sent[req[c]] IN
    /\ pc[c] = "gate"
    /\ rowLock[a.session] = None
    /\ IF GateMatches(a)
         THEN /\ rowLock' = [rowLock EXCEPT ![a.session] = c]
              /\ pc' = [pc EXCEPT ![c] = "insert"]
         ELSE /\ pc' = [pc EXCEPT ![c] = "classify"]
              /\ UNCHANGED rowLock
    /\ UNCHANGED <<sessionVars, events, sent, req, res, prevChain>>

\* Faulty: the epochs are not compared.
classifyAppendFailure_NoFence(a) ==
    IF status[a.session] # "active" THEN "not_active" ELSE "conflict"

\* The sentinel error for an append whose gate matched no row.
classifyAppendFailure(a) ==
    CASE status[a.session] # "active" -> "not_active"
      [] status[a.session] = "active" /\ epoch[a.session] # a.epoch -> "fenced"
      [] OTHER -> "conflict"

Classify(c) ==
    /\ pc[c] = "classify"
    /\ Return(c, classifyAppendFailure(sent[req[c]]))
    /\ UNCHANGED <<sessionVars, rowLock, events, sent>>

\* The rows of append r on top of chain hash prev.
insertEvents(r, prev) ==
    {[session |-> sent[r].session, seq |-> sent[r].expected + i, request |-> r,
      i |-> i, chain |-> ChainFold(prev, r, i)] : i \in 1..sent[r].n}

\* (c), (d) Read the chain head and fold the rows onto it, not yet visible to others.
Insert(c) ==
    /\ pc[c] = "insert"
    /\ prevChain' = [prevChain EXCEPT ![c] = loadChainHead(sent[req[c]].session)]
    /\ pc' = [pc EXCEPT ![c] = "commit"]
    /\ UNCHANGED <<sessionVars, rowLock, events, sent, req, res>>

\* uq_events_session_seq, the unique constraint on (session_id, seq).
ViolatesUnique(new) == \E e \in new, f \in events : e.session = f.session /\ e.seq = f.seq

\* head_seq = head_seq + n, on the row whose head_seq the gate found to be expected.
NewHead(a) == a.expected + a.n

\* (e) The chain head moves to the last row and everything becomes visible.  The
\* answer may be lost on its way back.  A unique violation loses the commit.
Commit(c) ==
    LET a == sent[req[c]]
        new == insertEvents(req[c], prevChain[c])
    IN
    /\ pc[c] = "commit"
    /\ rowLock' = [rowLock EXCEPT ![a.session] = None]
    /\ IF ViolatesUnique(new)
         THEN /\ Return(c, "conflict")
              /\ UNCHANGED <<head, chainHead, events>>
         ELSE /\ \E result \in {"ok", "error"} : Return(c, result)
              /\ events' = events \cup new
              /\ head' = [head EXCEPT ![a.session] = NewHead(a)]
              /\ chainHead' = [chainHead EXCEPT ![a.session] =
                                   ChainFold(prevChain[c], req[c], a.n)]
    /\ UNCHANGED <<status, epoch, parent, fork, sent>>

\* Faulty: the transaction is not ended when the call fails.
Abort_KeepsLock(c) ==
    /\ pc[c] # "idle"
    /\ Return(c, "error")
    /\ UNCHANGED <<sessionVars, rowLock, events, sent>>

\* The connection dies, the context is cancelled or a statement fails before the
\* COMMIT takes effect: the transaction is rolled back.
Abort(c) ==
    /\ pc[c] # "idle"
    /\ Return(c, "error")
    /\ rowLock' = [s \in Sessions |-> IF rowLock[s] = c THEN None ELSE rowLock[s]]
    /\ UNCHANGED <<sessionVars, events, sent>>

-----------------------------------------------------------------------------
CallStep(c) == Lookup(c) \/ Gate(c) \/ Classify(c) \/ Insert(c) \/ Commit(c)

Next ==
    \/ \E s \in Sessions : CreateSession(s) \/ Takeover(s)
    \/ \E p, s \in Sessions : \E atSeq \in 0..MaxHead : Fork(p, atSeq, s)
    \/ \E s \in Sessions : \E e \in 0..MaxEpoch : SetSessionStatus(s, e)
    \/ \E c \in Calls : \E r \in Requests : \E s \in Sessions :
           \E expected \in 0..MaxHead : \E e \in 0..MaxEpoch : \E n \in 1..MaxBatch :
               Send(c, r, s, expected, e, n)
    \/ \E c \in Calls : \E r \in Requests : Resend(c, r)
    \/ \E c \in Calls : CallStep(c) \/ Abort(c)

Spec == Init /\ [][Next]_vars

\* The database executes what it has been sent.  A transaction waiting for a row
\* lock is served in turn (PostgreSQL queues the waiters of a row), hence SF.
Fairness ==
    /\ \A c \in Calls : WF_vars(CallStep(c))
    /\ \A c \in Calls : SF_vars(Gate(c))

FairSpec == Spec /\ Fairness

-----------------------------------------------------------------------------
(* Reading *)

\* Load from seq 1: the session's own events.
Load(s) == {e \in events : e.session = s}

-----------------------------------------------------------------------------
(* Properties *)

\* The tables and the connections keep the shape the schema declares.
TypeOK ==
    /\ status \in [Sessions -> Statuses]
    /\ head \in [Sessions -> 0..MaxHead]
    /\ epoch \in [Sessions -> 0..MaxEpoch]
    /\ parent \in [Sessions -> Sessions \cup {None}]
    /\ fork \in [Sessions -> 0..MaxHead]
    /\ chainHead \in [Sessions -> ChainValues]
    /\ rowLock \in [Sessions -> Calls \cup {None}]
    /\ events \subseteq EventRows
    /\ sent \in [Requests -> Appends]
    /\ pc \in [Calls -> PCs]
    /\ req \in [Calls -> Requests \cup {None}]
    /\ res \in [Calls -> Results]
    /\ prevChain \in [Calls -> ChainValues]

\* head_seq and the events table never disagree, whatever the interleaving of
\* appends, aborts and forks: the own events of a session are numbered
\* forked_from_seq+1 .. head_seq, each number once, with no gap (ADR-0011,
\* "contiguity by construction").
Contiguous ==
    \A s \in Sessions :
        /\ \A k \in 1..MaxHead :
               (\E e \in events : e.session = s /\ e.seq = k) <=> (fork[s] < k /\ k <= head[s])
        /\ \A e, f \in events : e.session = s /\ f.session = s /\ e.seq = f.seq => e = f

\* However often an append is sent, and however many of its attempts run at the
\* same time, its batch lands at most once and never in part: its rows are none,
\* or one per event at the consecutive numbers it asked for.
LandsOnceAndWhole ==
    \A r \in Requests :
        LET landed == {e \in events : e.request = r} IN
        \/ landed = {}
        \/ /\ \A e \in landed : e.session = sent[r].session /\ e.seq = sent[r].expected + e.i
           /\ {e.i : e \in landed} = 1..sent[r].n

\* The hash of every event folds its content onto the hash of the event before
\* it, the first onto the session's genesis, and sessions.chain_head is the hash
\* of the last event: the chain an appender read is still the chain when it
\* commits (ADR-0033).
ChainIntact ==
    \A s \in Sessions :
        /\ \A e \in events : e.session = s =>
               IF e.seq = fork[s] + 1
                 THEN e.chain = ChainHash(GenesisChainHash(s), Content(e.request, e.i))
                 ELSE \E f \in events : /\ f.session = s
                                        /\ f.seq = e.seq - 1
                                        /\ e.chain = ChainHash(f.chain, Content(e.request, e.i))
        /\ IF head[s] = fork[s]
             THEN chainHead[s] = << >>
             ELSE \E e \in events : e.session = s /\ e.seq = head[s] /\ chainHead[s] = e.chain

\* A transaction that passed the gate never meets a unique violation at COMMIT:
\* the row lock taken by the gate already excludes the race that
\* reclassifyCommitError is there for.
NoCommitRace ==
    \A c \in Calls : pc[c] = "commit" => ~ ViolatesUnique(insertEvents(req[c], prevChain[c]))

\* What an Append answers is still true after the answer: success means the whole
\* batch is in the log, a fenced writer's epoch is over, a conflicting writer's
\* expected head is in the past, and a refused session is closed or missing.
\* (The failure is named by a second read, made after the gate.)
AnswersAreTrue ==
    \A c \in Calls :
        LET a == sent[req[c]] IN
        /\ res[c] = "ok" => {e.i : e \in loadByRequestID(req[c])} = 1..a.n
        /\ res[c] = "fenced" => a.epoch < epoch[a.session]
        /\ res[c] = "conflict" => a.expected < head[a.session]
        /\ res[c] = "not_active" => status[a.session] # "active"

\* No step removes or rewrites an event, moves a head back or lowers an epoch.
AppendOnly ==
    [][/\ events \subseteq events'
       /\ \A s \in Sessions : head[s] <= head'[s] /\ epoch[s] <= epoch'[s]]_vars

\* Events enter the log only for a session that is active, and only from the
\* holder of its current epoch, at the moment they become visible: a writer that
\* was fenced, or whose session was closed, after it passed the gate but before
\* its COMMIT would break this.
OnlyCurrentWriterAppends ==
    [][\A e \in events' \ events :
           /\ status[e.session] = "active"
           /\ epoch[e.session] = sent[e.request].epoch]_vars

-----------------------------------------------------------------------------
(* The inductive invariant behind the safety properties (EventStoreProofs). *)

\* A transaction between its gate and its end.
Holding(c) == pc[c] \in {"insert", "commit"}

CallsAreAppends == \A c \in Calls : pc[c] # "idle" => req[c] \in Requests /\ sent[req[c]].n # 0

AppendsHaveSessions ==
    \A r \in Requests : sent[r].n # 0 => /\ sent[r].session \in Sessions
                                         /\ status[sent[r].session] # "absent"
                                         /\ sent[r].expected + sent[r].n <= MaxHead

\* The row lock is held exactly by the transactions that passed the gate.
LocksAreHeld ==
    /\ \A c \in Calls : Holding(c) => rowLock[sent[req[c]].session] = c
    /\ \A s \in Sessions : rowLock[s] # None =>
           Holding(rowLock[s]) /\ sent[req[rowLock[s]]].session = s

\* What the gate found, and the chain head read after it, stay true under the lock.
GateStillHolds ==
    \A c \in Calls :
        /\ Holding(c) => GateMatches(sent[req[c]])
        /\ pc[c] = "commit" => prevChain[c] = loadChainHead(sent[req[c]].session)

AbsentIsEmpty ==
    \A s \in Sessions :
        /\ fork[s] <= head[s]
        /\ status[s] = "absent" => head[s] = 0 /\ fork[s] = 0

RowsAreAsSent ==
    \A e \in events : /\ sent[e.request].n # 0
                      /\ e.i <= sent[e.request].n
                      /\ e.session = sent[e.request].session
                      /\ e.seq = sent[e.request].expected + e.i

\* Everything the proofs of the safety properties need of a reachable state:
\* above all, that what a transaction saw at the gate holds until it commits.
IndInv ==
    /\ TypeOK
    /\ CallsAreAppends
    /\ AppendsHaveSessions
    /\ LocksAreHeld
    /\ GateStillHolds
    /\ AbsentIsEmpty
    /\ RowsAreAsSent
    /\ LandsOnceAndWhole
    /\ Contiguous
    /\ ChainIntact

-----------------------------------------------------------------------------
(* Refinement *)

\* The content of the event of s numbered k, in the events table evs.
ContentAt(evs, s, k) ==
    LET e == CHOOSE f \in evs : f.session = s /\ f.seq = k IN Content(e.request, e.i)

OwnLog(s) == [k \in 1..(head[s] - fork[s]) |-> ContentAt(events, s, fork[s] + k)]

SL == INSTANCE SessionLog WITH log <- [s \in Sessions |-> OwnLog(s)], base <- fork,
                               state <- status, owner <- epoch, asked <- sent

\* The store implements the log its callers are promised: each COMMIT that takes
\* effect is one atomic compare-and-append, and no other step touches a log.
ImplementsSessionLog == SL!Spec

\* Every Append returns: a transaction waiting on a row lock is not left waiting.
AppendReturns == \A c \in Calls : pc[c] # "idle" ~> pc[c] = "idle"
=============================================================================
