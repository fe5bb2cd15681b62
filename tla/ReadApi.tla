------------------------------ MODULE ReadApi ------------------------------
(***************************************************************************)
(* The read side of the orchestrator: ListSessions, ListSessionEvents,     *)
(* GetSession, GetSessionUsage, GetStateAtSeq, GetTenantCost and the store *)
(* queries under them, read by clients while sessions are created and      *)
(* finished, events are appended and the projector adds cost rows.         *)
(*                                                                         *)
(* Every handler makes two or more store reads, each in a transaction of   *)
(* its own, so anything may be committed between two of them.  A page of a *)
(* listing is one read; a walk is the pages a client fetches one after the *)
(* other.                                                                  *)
(*                                                                         *)
(* Time.  sessions.created_at is stored in ticks (microseconds); a page    *)
(* token carries milliseconds.  TicksPerMs ticks make one millisecond.     *)
(***************************************************************************)
EXTENDS Naturals, FiniteSets, Sequences, SequencesExt

CONSTANTS
    MaxSessions,   \* ids 1..MaxSessions, in the order Postgres compares them
    MaxTick,       \* created_at ranges over 0..MaxTick
    TicksPerMs,    \* stored ticks in one unit of a page token
    PageSize,      \* the client's page_size (after clampPageSize)
    MaxPages,      \* pages a client fetches before it gives up
    MaxEvents,     \* events of the session that is read
    Costly         \* sessions the projector writes cost rows for

ASSUME ReadAssumption ==
    /\ MaxSessions \in Nat \ {0} /\ MaxTick \in Nat /\ TicksPerMs \in Nat \ {0}
    /\ PageSize \in Nat \ {0} /\ MaxPages \in Nat \ {0} /\ MaxEvents \in Nat
    /\ IsFiniteSet(Costly)

VARIABLES
    rows,      \* committed sessions rows: id -> [created, status]
    walk,      \* the ListSessions walk of a client
    logged,    \* the events of the session that is read: their kinds
    poll,      \* the ListSessionEvents walk of a client
    call,      \* the unary read in flight, between its two store reads
    told,      \* GetStateAtSeq answers so far: seq -> the set of totals told
    wrong,     \* a GetSession or GetTenantCost answer that was inconsistent
    costs      \* sessions that have rows in session_cost_events

readVars == <<rows, walk, logged, poll, call, told, wrong, costs>>

Ids == 1..MaxSessions
RowStatuses == {"active", "finished"}
EventKinds == {"note", "delta", "finished", "aborted"}
NoToken == [ms |-> 0, id |-> 0, desc |-> FALSE]
NoWalk == [at |-> "idle", desc |-> FALSE, statuses |-> {}, after |-> 0, token |-> NoToken,
           seen |-> <<>>, due |-> {}, pages |-> 0]
NoCall == [op |-> "none", at |-> 0, seen |-> 0]

ReadInit ==
    /\ rows = << >> /\ walk = NoWalk
    /\ logged = << >> /\ poll = [after |-> 0, got |-> << >>, more |-> TRUE, end |-> 0]
    /\ call = NoCall /\ told = [n \in 0..MaxEvents |-> {}]
    /\ wrong = FALSE /\ costs = {}

----------------------------------------------------------------------------
(* The writers the reads race with.                                         *)

\* CreateSession commits its row.  created_at is the start of the inserting
\* transaction, so rows become visible in any order of created_at.
SessionCommitted(i) ==
    /\ i \notin DOMAIN rows
    /\ \E t \in 0..MaxTick :
         rows' = [j \in DOMAIN rows \cup {i} |->
                    IF j = i THEN [created |-> t, status |-> "active"] ELSE rows[j]]
    /\ UNCHANGED <<walk, logged, poll, call, told, wrong, costs>>

Matches(row, statuses, after) ==
    /\ statuses = {} \/ row.status \in statuses
    /\ after = 0 \/ row.created >= after * TicksPerMs

\* A run ends and finalises its session.  A walk no longer owes its client a
\* row that leaves the status filter.
SessionFinished(i) ==
    /\ i \in DOMAIN rows /\ rows[i].status = "active"
    /\ rows' = [rows EXCEPT ![i].status = "finished"]
    /\ walk' = [walk EXCEPT !.due =
                  {j \in @ : Matches(rows'[j], walk.statuses, walk.after)}]
    /\ UNCHANGED <<logged, poll, call, told, wrong, costs>>

EventCommitted(kind) ==
    /\ Len(logged) < MaxEvents
    /\ logged' = Append(logged, kind)
    /\ UNCHANGED <<rows, walk, poll, call, told, wrong, costs>>

CostCommitted(s) ==
    /\ s \in Costly \ costs
    /\ costs' = costs \cup {s}
    /\ UNCHANGED <<rows, walk, logged, poll, call, told, wrong>>

----------------------------------------------------------------------------
(* ListSessions.                                                            *)

\* The composite (created_at, id) order.
Before(t, i, u, j) == t < u \/ (t = u /\ i < j)

\* selectSessionsListSQL and its descending twin: the rows that match, strictly
\* after the cursor in the direction of the walk, at most limit of them.  The
\* cursor's milliseconds become a timestamp again.
SelectSessions(statuses, after, cursor, desc, limit) ==
    LET past(i) ==
          \/ cursor.id = 0
          \/ LET t == cursor.ms * TicksPerMs
             IN IF desc THEN Before(rows[i].created, i, t, cursor.id)
                        ELSE Before(t, cursor.id, rows[i].created, i)
        ids  == {i \in DOMAIN rows : Matches(rows[i], statuses, after) /\ past(i)}
        less(i, j) == IF desc THEN Before(rows[j].created, j, rows[i].created, i)
                              ELSE Before(rows[i].created, i, rows[j].created, j)
        sorted == SetToSortSeq(ids, less)
    IN  SubSeq(sorted, 1, IF Len(sorted) > limit THEN limit ELSE Len(sorted))

\* encodePageToken: the last row of the page, its time cut to milliseconds.
EncodePageToken(i, desc) == [ms |-> rows[i].created \div TicksPerMs, id |-> i, desc |-> desc]

\* ListSessions, after authorizeTenant: one row more than the page is fetched,
\* which says whether there is a next page and is dropped.  decodePageToken makes
\* the cursor: no token is the zero cursor, the first page.
ListSessions(cursor, reqDesc, statuses, after) ==
    LET desc   == IF cursor.id # 0 THEN cursor.desc ELSE reqDesc
        found  == SelectSessions(statuses, after, cursor, desc, PageSize + 1)
        page   == SubSeq(found, 1, IF Len(found) > PageSize THEN PageSize ELSE Len(found))
    IN  [page |-> page,
         next |-> IF Len(found) > PageSize THEN EncodePageToken(page[Len(page)], desc) ELSE NoToken]

\* The first page of a walk: the client chooses the filter and the direction.
WalkStarts(desc, statuses, after) ==
    /\ walk.at = "idle"
    /\ LET r == ListSessions(NoToken, desc, statuses, after)
       IN walk' = [at |-> IF r.next = NoToken THEN "done" ELSE "open", desc |-> desc,
                   statuses |-> statuses, after |-> after, token |-> r.next,
                   seen |-> r.page, pages |-> 1,
                   due |-> {i \in DOMAIN rows : Matches(rows[i], statuses, after)}]
    /\ UNCHANGED <<rows, logged, poll, call, told, wrong, costs>>

\* The next page.  The request's own direction no longer matters.
WalkGoesOn(reqDesc) ==
    /\ walk.at = "open"
    /\ IF walk.pages = MaxPages
       THEN walk' = [walk EXCEPT !.at = "gaveup"]
       ELSE LET r == ListSessions(walk.token, reqDesc, walk.statuses, walk.after)
            IN walk' = [walk EXCEPT !.at = IF r.next = NoToken THEN "done" ELSE "open",
                                    !.token = r.next, !.seen = @ \o r.page, !.pages = @ + 1]
    /\ UNCHANGED <<rows, logged, poll, call, told, wrong, costs>>

----------------------------------------------------------------------------
(* ListSessionEvents: pages of events, without the crash checkpoints.       *)

\* LoadRange: events with seq > afterSeq, at most limit of them.
LoadRange(afterSeq, limit) ==
    {n \in 1..Len(logged) : n > afterSeq /\ n <= afterSeq + limit}

\* Fault: the cursor is the last event that was shown.
ListSessionEvents_LastShown(afterSeq) ==
    LET found == LoadRange(afterSeq, PageSize + 1)
        page  == {n \in found : n <= afterSeq + PageSize}
        shown == SetToSortSeq({n \in page : logged[n] # "delta"}, <)
    IN  [page |-> shown, next |-> IF shown = <<>> THEN 0 ELSE shown[Len(shown)],
         more |-> found # page]

\* The page a client gets, and the cursor it goes on from: the last seq that was
\* fetched, a checkpoint included.
ListSessionEvents(afterSeq) ==
    LET found == LoadRange(afterSeq, PageSize + 1)
        page  == {n \in found : n <= afterSeq + PageSize}
    IN  [page |-> SetToSortSeq({n \in page : logged[n] # "delta"}, <),
         next |-> IF page = {} THEN 0 ELSE CHOOSE n \in page : \A k \in page : k <= n,
         more |-> found # page]

\* A client fetches pages while there are more.
PollGoesOn ==
    /\ poll.more
    /\ LET r == ListSessionEvents(poll.after)
       IN  poll' = [after |-> r.next, got |-> poll.got \o r.page, more |-> r.more,
                    end |-> IF r.more THEN 0 ELSE Len(logged)]
    /\ UNCHANGED <<rows, walk, logged, call, told, wrong, costs>>

----------------------------------------------------------------------------
(* GetStateAtSeq, GetSession / GetSessionUsage and GetTenantCost: each makes  *)
(* one store read, then another.                                             *)

\* foldEventTotals / foldTotals over the first n events: what was billed.
FoldEventTotals(n) == Cardinality({k \in 1..n : logged[k] \in {"finished", "aborted"}})

\* authorizeSession has read the session row, whose head_seq clamps the request.
ClampAtSeq(atSeq) == IF atSeq > Len(logged) THEN Len(logged) ELSE atSeq

StateAtSeqBegins(atSeq) ==
    /\ call.op = "none"
    /\ call' = [NoCall EXCEPT !.op = "state", !.at = ClampAtSeq(atSeq)]
    /\ UNCHANGED <<rows, walk, logged, poll, told, wrong, costs>>

\* LoadUpTo and the fold.
StateAtSeqEnds ==
    /\ call.op = "state"
    /\ LET n == IF call.at > Len(logged) THEN Len(logged) ELSE call.at
       IN told' = [told EXCEPT ![call.at] = @ \cup {FoldEventTotals(n)}]
    /\ call' = NoCall
    /\ UNCHANGED <<rows, walk, logged, poll, wrong, costs>>

\* GetSession and GetSessionUsage: the row with its head_seq ...
SessionBegins ==
    /\ call.op = "none"
    /\ call' = [NoCall EXCEPT !.op = "session", !.at = Len(logged)]
    /\ UNCHANGED <<rows, walk, logged, poll, told, wrong, costs>>

\* ... then the fold of the events, which is zero when they cannot be loaded.
SessionEnds(loaded) ==
    /\ call.op = "session"
    /\ LET totals == IF loaded THEN FoldEventTotals(Len(logged)) ELSE 0
       IN wrong' = (wrong \/ (loaded /\ totals < FoldEventTotals(call.at)))
    /\ call' = NoCall
    /\ UNCHANGED <<rows, walk, logged, poll, told, costs>>

\* GetTenantCost: the rollup by model ...
TenantCostBegins ==
    /\ call.op = "none"
    /\ call' = [NoCall EXCEPT !.op = "cost", !.seen = Cardinality(costs)]
    /\ UNCHANGED <<rows, walk, logged, poll, told, wrong, costs>>

\* ... then the number of distinct sessions, in a transaction of its own.
TenantCostEnds ==
    /\ call.op = "cost"
    /\ wrong' = (wrong \/ Cardinality(costs) < call.seen)
    /\ call' = NoCall
    /\ UNCHANGED <<rows, walk, logged, poll, told, costs>>

----------------------------------------------------------------------------
\* The client of the listing is looked at apart from the clients of the events
\* and totals: they read different tables.
ListingNext ==
    \/ \E i \in Ids : SessionCommitted(i) \/ SessionFinished(i)
    \/ \E desc \in BOOLEAN :
         \/ \E statuses \in {{}, {"active"}}, after \in 0..1 : WalkStarts(desc, statuses, after)
         \/ WalkGoesOn(desc)

TotalsNext ==
    \/ \E kind \in EventKinds : EventCommitted(kind)
    \/ \E s \in Costly : CostCommitted(s)
    \/ PollGoesOn
    \/ \E n \in 0..MaxEvents : StateAtSeqBegins(n)
    \/ StateAtSeqEnds
    \/ SessionBegins
    \/ \E loaded \in BOOLEAN : SessionEnds(loaded)
    \/ TenantCostBegins \/ TenantCostEnds

ReadSpec == ReadInit /\ [][ListingNext \/ TotalsNext]_readVars

----------------------------------------------------------------------------
(* Properties                                                               *)

Distinct(s) == \A m, n \in DOMAIN s : m # n => s[m] # s[n]

\* Half of what a listing promises survives the cut of the cursor to
\* milliseconds: a finished walk oldest-first shows every session that matched
\* its filter all along, and a walk newest-first shows none twice.
WalksLoseOrRepeat ==
    /\ walk.at = "done" /\ ~walk.desc => \A i \in walk.due : \E n \in DOMAIN walk.seen : walk.seen[n] = i
    /\ walk.desc => Distinct(walk.seen)

\* "The next page continues strictly after the last (created_at, id) with no
\* overlap and no gap, and the union is the full set": a finished walk shows
\* every session that matched its filter all along, and no walk shows one twice.
NoOverlapNoGap ==
    /\ walk.at = "done" => \A i \in walk.due : \E n \in DOMAIN walk.seen : walk.seen[n] = i
    /\ Distinct(walk.seen)

\* The events a client may see, oldest first.
Shown(n) == SetToSortSeq({k \in 1..n : logged[k] # "delta"}, <)

\* Reads that take several steps tell of one past state, whatever is committed
\* between the steps.  A walk over the events shows each of them once and in
\* order, and none is missing when it ends.  GetStateAtSeq answers about the past
\* only, and for one seq always the same.  A session's totals never lag behind
\* the head_seq, nor a tenant's session count behind the rollup, of one answer.
AnswersCohere ==
    /\ poll.got = SubSeq(Shown(Len(logged)), 1, Len(poll.got))
    /\ ~poll.more => poll.got = Shown(poll.end)
    /\ \A n \in 0..MaxEvents :
         told[n] # {} => n <= Len(logged) /\ told[n] = {FoldEventTotals(n)}
    /\ ~wrong

\* What the read API answers over several pages and steps fits together, while
\* sessions, events and cost rows are added (list_sessions.go, read_api.go).
ReadsCohere == WalksLoseOrRepeat /\ AnswersCohere

=============================================================================
