----------------------------- MODULE EventFeed -----------------------------
(***************************************************************************)
(* The global event feed read by the projections: the events table seen    *)
(* across all sessions, ordered by (transaction_id, global_id).            *)
(*                                                                         *)
(* Both numbers are handed out before the commit: transaction_id when the  *)
(* transaction first writes, global_id when the row is inserted.  So two   *)
(* overlapping appends may take their numbers in opposite orders, and may  *)
(* commit in either order; a row that is rolled back leaves its global_id  *)
(* unused.                                                                 *)
(***************************************************************************)
EXTENDS Integers, Sequences, FiniteSets

CONSTANTS
    MaxTx,      \* bound on the number of transactions
    MaxEvents   \* bound on the number of inserted rows

ASSUME FeedAssumption == MaxTx \in Nat /\ MaxEvents \in Nat

VARIABLES
    tx,     \* the state of each transaction id
    rows    \* rows[g]: the transaction that inserted the row with global_id g

feedVars == <<tx, rows>>

TxStates == {"future", "running", "committed", "aborted"}

FeedInit ==
    /\ tx = [x \in 1..MaxTx |-> "future"]
    /\ rows = << >>

\* A transaction takes the next transaction id.
BeginTx(x) ==
    /\ tx[x] = "future"
    /\ \A y \in 1..(x - 1) : tx[y] # "future"
    /\ tx' = [tx EXCEPT ![x] = "running"]
    /\ UNCHANGED rows

\* An append inserts a row: it gets the next global_id.
InsertEvent(x) ==
    /\ tx[x] = "running"
    /\ Len(rows) < MaxEvents
    /\ rows' = Append(rows, x)
    /\ UNCHANGED tx

EndTx(x, outcome) ==
    /\ tx[x] = "running"
    /\ tx' = [tx EXCEPT ![x] = outcome]
    /\ UNCHANGED rows

CommitTx(x) == EndTx(x, "committed")
AbortTx(x) == EndTx(x, "aborted")

FeedNext ==
    \E x \in 1..MaxTx : BeginTx(x) \/ InsertEvent(x) \/ CommitTx(x) \/ AbortTx(x)

-----------------------------------------------------------------------------
(* What a reader sees. *)

\* Faulty: a row is taken as soon as its own transaction has ended.
Settled_OwnOnly(x) == x > 0 => tx[x] \in {"committed", "aborted"}

\* xid x lies below pg_snapshot_xmin: every transaction up to x has ended.
Settled(x) == \A y \in 1..x : tx[y] \in {"committed", "aborted"}

Visible(g) == tx[rows[g]] = "committed"

Cursors == [txn : 0..MaxTx, gid : 0..MaxEvents]

ZeroCursor == [txn |-> 0, gid |-> 0]

\* Cursor.Less, the order of the feed.
Less(c, d) == c.txn < d.txn \/ (c.txn = d.txn /\ c.gid < d.gid)

\* The coordinates of a row.
At(g) == [txn |-> rows[g], gid |-> g]

\* fetchBatchSQL without its LIMIT: the settled rows after cursor c.
Ready(c) == {g \in DOMAIN rows : Visible(g) /\ Settled(rows[g]) /\ Less(c, At(g))}

=============================================================================
