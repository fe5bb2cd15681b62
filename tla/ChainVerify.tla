---------------------------- MODULE ChainVerify ----------------------------
(***************************************************************************)
(* VerifyChainIntegrity (eventstore/read_range.go): the audit read that    *)
(* recomputes the hashes of a window of one session's rows, while the      *)
(* session's writer goes on appending.  Its statements see the log at      *)
(* different times (READ COMMITTED): the head, then the rows of the        *)
(* window, then the chain hash before the first of them.                   *)
(*                                                                         *)
(* A hash is the value it is taken of, so hashes are equal when the values *)
(* are.  A session may be a fork, whose rows start after ForkedFrom, and   *)
(* may start with rows written before the hash columns existed, whose      *)
(* hashes are NULL.                                                        *)
(***************************************************************************)
EXTENDS Integers, FiniteSets, FiniteSetsExt

CONSTANTS
    MaxSeq,        \* bound on the session's head
    ForkPoints,    \* the values of forked_from_seq to start from, 0 for no fork
    MaxLegacy      \* bound on the rows without hashes

ASSUME VerifyAssumption ==
    /\ MaxSeq \in Nat /\ MaxLegacy \in Nat
    /\ ForkPoints \subseteq 0..MaxSeq

Genesis == <<"genesis">>
NULL == <<>>
ContentHash(canonical) == <<"hash", canonical>>
FoldChain(prev, content) == <<prev, content>>

VARIABLES
    forkedFrom,   \* sessions.forked_from_seq
    legacy,       \* how many rows have no hashes
    stored,       \* the rows by seq
    damaged,      \* a row that was changed behind the store's back, or none
    audit         \* the verification: its window, what it has read, its verdict

verifyVars == <<forkedFrom, legacy, stored, damaged, audit>>

HeadSeq == forkedFrom + Cardinality(DOMAIN stored)
NoDamage == [seq |-> 0, what |-> "nothing"]

VerifyInit ==
    /\ forkedFrom \in ForkPoints
    /\ legacy \in 0..MaxLegacy
    /\ stored = << >>
    /\ damaged = NoDamage
    /\ audit = [at |-> "idle"]

\* appendTx's chain head: that of the last row, the genesis when it is NULL.
ChainHead ==
    IF HeadSeq \in DOMAIN stored /\ stored[HeadSeq].chain # NULL
    THEN stored[HeadSeq].chain ELSE Genesis

Row(seq) ==
    IF seq - forkedFrom <= legacy
    THEN [canonical |-> NULL, content |-> NULL, chain |-> NULL]
    ELSE [canonical |-> <<seq>>, content |-> ContentHash(<<seq>>),
          chain |-> FoldChain(ChainHead, ContentHash(<<seq>>))]

\* An append commits; nothing is appended to a damaged log here.
AppendRow ==
    /\ HeadSeq < MaxSeq
    /\ damaged = NoDamage
    /\ stored' = [seq \in (DOMAIN stored) \cup {HeadSeq + 1} |->
                     IF seq \in DOMAIN stored THEN stored[seq] ELSE Row(seq)]
    /\ UNCHANGED <<forkedFrom, legacy, damaged, audit>>

\* A chained row's payload, or its link, does not hold what was written.
Damage(seq, what) ==
    /\ damaged = NoDamage /\ audit.at = "idle"
    /\ seq \in DOMAIN stored /\ stored[seq].content # NULL
    /\ damaged' = [seq |-> seq, what |-> what]
    /\ stored' = [stored EXCEPT ![seq] =
                     CASE what = "payload" -> [@ EXCEPT !.canonical = <<0>>]
                       [] what = "missing" -> [@ EXCEPT !.canonical = NULL]
                       [] what = "link" -> [@ EXCEPT !.chain = <<"other">>]]
    /\ UNCHANGED <<forkedFrom, legacy, audit>>

-----------------------------------------------------------------------------
\* The head is read and the window clamped to it; an empty one is valid.
ReadHead(from, to) ==
    /\ audit.at = "idle"
    /\ LET first == IF from <= 0 THEN 1 ELSE from
           last == IF to <= 0 \/ to > HeadSeq THEN HeadSeq ELSE to
       IN audit' = IF first > last
                   THEN [at |-> "done", from |-> first, to |-> last, bad |-> 0, checked |-> 0]
                   ELSE [at |-> "rows", from |-> first, to |-> last]
    /\ UNCHANGED <<forkedFrom, legacy, stored, damaged>>

\* The rows of the window are read, and the leading ones without a hash skipped.
ReadWindow ==
    /\ audit.at = "rows"
    /\ LET window == {seq \in DOMAIN stored : audit.from <= seq /\ seq <= audit.to}
           chained == {seq \in window : \E early \in window :
                          early <= seq /\ stored[early].content # NULL}
       IN audit' = IF chained = {}
                   THEN [at |-> "done", from |-> audit.from, to |-> audit.to, bad |-> 0, checked |-> 0]
                   ELSE [at |-> "seed", from |-> audit.from, to |-> audit.to,
                         rows |-> [seq \in chained |-> stored[seq]]]
    /\ UNCHANGED <<forkedFrom, legacy, stored, damaged>>

\* Faulty: a window that starts inside the chain is seeded with the genesis too.
verifySeedPrev_Genesis(first) == Genesis

\* The stored chain hash of the row before, or the genesis when there is none.
verifySeedPrev(first) ==
    IF first > 1 /\ (first - 1) \in DOMAIN stored /\ stored[first - 1].chain # NULL
    THEN stored[first - 1].chain ELSE Genesis

\* Whether a row passes, given the chain hash before it.
RowVerifies(row, prev) ==
    /\ row.canonical # NULL
    /\ ContentHash(row.canonical) = row.content
    /\ FoldChain(prev, row.content) = row.chain

\* The loop over the rows, up to the first that does not pass.
CompareRows ==
    /\ audit.at = "seed"
    /\ LET first == Min(DOMAIN audit.rows)
           prev(seq) == IF seq = first THEN verifySeedPrev(first) ELSE audit.rows[seq - 1].chain
           bad == {seq \in DOMAIN audit.rows : ~ RowVerifies(audit.rows[seq], prev(seq))}
       IN audit' = [at |-> "done", from |-> audit.from, to |-> audit.to,
                    bad |-> IF bad = {} THEN 0 ELSE Min(bad),
                    checked |-> Cardinality({seq \in DOMAIN audit.rows :
                                                \A b \in bad : seq < b})]
    /\ UNCHANGED <<forkedFrom, legacy, stored, damaged>>

VerifyNext ==
    \/ AppendRow
    \/ \E seq \in 1..MaxSeq, what \in {"payload", "missing", "link"} : Damage(seq, what)
    \/ \E from, to \in 0..MaxSeq : ReadHead(from, to)
    \/ ReadWindow
    \/ CompareRows

VerifySpec == VerifyInit /\ [][VerifyNext]_verifyVars

-----------------------------------------------------------------------------
\* The rows of the window that have hashes.
ChainedIn(from, to) == {seq \in DOMAIN stored : from <= seq /\ seq <= to /\ stored[seq].content # NULL}

(* The verdict is right: over any window of a log that nobody touched it is *)
(* valid and counts the window's chained rows, also while the session       *)
(* grows, forks and starts with rows of before the hashes; a changed row is *)
(* reported at its own seq, and a changed link also by the window that      *)
(* starts right after it.                                                   *)
VerdictIsRight ==
    audit.at = "done" =>
        LET seen == ChainedIn(audit.from, audit.to)
            blamed == IF damaged.seq \in seen THEN damaged.seq
                      ELSE IF damaged.what = "link" /\ damaged.seq = audit.from - 1 /\ seen # {}
                           THEN audit.from ELSE 0
        IN /\ audit.bad = blamed
           /\ audit.checked = Cardinality({seq \in seen : blamed = 0 \/ seq < blamed})

=============================================================================
