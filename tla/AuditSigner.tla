---------------------------- MODULE AuditSigner ----------------------------
(***************************************************************************)
(* The signed audit checkpoints: the projection worker with an AuditSigner *)
(* attached (internal/orchestrator/projection/audit_signer.go), and the    *)
(* verification of the checkpoint chain (eventstore/verify_checkpoints.go).*)
(*                                                                         *)
(* The signer gathers the content hashes of the rows it is given; with     *)
(* Every of them, and when the feed is drained, it inserts a checkpoint    *)
(* over them that links to the one before.  What it gathered is in memory  *)
(* only: after a restart it reads the head of the chain and, from the      *)
(* events table, the rows above it.                                        *)
(*                                                                         *)
(* SHA-256 is taken as collision free: the leaf of a row is its global_id, *)
(* a checkpoint hash the pair of what it was computed from.  A signature   *)
(* verifies exactly when the hash it was made for is recomputed.           *)
(***************************************************************************)
EXTENDS Runner, SequencesExt

CONSTANTS
    Every,        \* the leaf count of a checkpoint
    MaxOpen,      \* bound on the transactions open at once
    FaultKinds    \* the failures the environment may show

ASSUME SignerAssumption == Every \in Nat \ {0} /\ MaxOpen \in Nat \ {0}

VARIABLES
    signer,       \* the AuditSigner of each worker
    checkpoints   \* the audit_checkpoints table, by id

signerVars == <<signer, checkpoints>>
auditVars == <<vars, signerVars>>

CheckpointGenesisPrev == << >>

CheckpointHash(prev, leaves) == <<prev, leaves>>

NewAuditSigner ==
    [loaded |-> FALSE, prev |-> CheckpointGenesisPrev, lastCovered |-> 0, lastSeen |-> 0, leaves |-> << >>]

-----------------------------------------------------------------------------
(* One call of the signer works on a record of                              *)
(*   a       the signer            left  the inserts that succeed before a  *)
(*   table   audit_checkpoints           fault, -1 for a call without one   *)
(*   lost    whether the insert that returns an error took effect           *)
(*   failed  whether the call has returned an error                         *)

\* insertCheckpointSQL; covers_to_global_id is unique, a second insert does nothing.
Insert(table, a) ==
    LET row == [prev |-> a.prev, hash |-> CheckpointHash(a.prev, a.leaves),
                from |-> Head(a.leaves), to |-> Last(a.leaves)]
    IN  IF \E i \in DOMAIN table : table[i].to = row.to THEN table ELSE Append(table, row)

\* flush: the running head moves, and the accumulator empties, only after the insert.
flush(c) ==
    IF c.failed \/ c.a.leaves = << >> THEN c
    ELSE IF c.left = 0
    THEN [c EXCEPT !.failed = TRUE, !.table = IF c.lost THEN Insert(c.table, c.a) ELSE c.table]
    ELSE [c EXCEPT !.table = Insert(c.table, c.a),
                   !.left = c.left - 1,
                   !.a.prev = CheckpointHash(c.a.prev, c.a.leaves),
                   !.a.lastCovered = Last(c.a.leaves),
                   !.a.leaves = << >>]

\* A leaf joins the accumulator; at Every leaves a checkpoint is written.
Accumulate(c, g) ==
    LET d == [c EXCEPT !.a.leaves = Append(c.a.leaves, g), !.a.lastSeen = g]
    IN  IF c.failed THEN c
        ELSE IF Len(d.a.leaves) >= Every THEN flush(d) ELSE d

\* The body of Project's loop: rows at or below lastSeen are taken for a replay.
ProjectRow(c, g) == IF g <= c.a.lastSeen THEN c ELSE Accumulate(c, g)

\* The head of the checkpoint chain becomes the signer's.
LoadHead(c) ==
    LET empty == c.table = << >> IN
    [c EXCEPT !.a.loaded = TRUE,
              !.a.prev = IF empty THEN CheckpointGenesisPrev ELSE Last(c.table).hash,
              !.a.lastCovered = IF empty THEN 0 ELSE Last(c.table).to,
              !.a.lastSeen = IF empty THEN 0 ELSE Last(c.table).to]

\* selectUnanchoredTailSQL: the settled rows above the last anchored global_id.
UnanchoredTail(lastCovered) ==
    SetToSortSeq({g \in DOMAIN rows : g > lastCovered /\ Visible(g) /\ Settled(rows[g])}, <)

hydrateUnanchoredTail(c) == FoldLeft(Accumulate, c, UnanchoredTail(c.a.lastCovered))

\* Faulty: a restart takes the head of the chain and not the rows above it.
ensureLoaded_HeadOnly(c, readFault) ==
    IF c.a.loaded THEN c
    ELSE IF readFault # "none" THEN [c EXCEPT !.failed = TRUE]
    ELSE LoadHead(c)

\* ensureLoaded; readFault names the query that fails.  A signer whose read of
\* the tail failed stays loaded.
ensureLoaded(c, readFault) ==
    IF c.a.loaded THEN c
    ELSE IF readFault = "head" THEN [c EXCEPT !.failed = TRUE]
    ELSE IF readFault = "tail" THEN [LoadHead(c) EXCEPT !.failed = TRUE]
    ELSE hydrateUnanchoredTail(LoadHead(c))

\* AuditSigner.Project of the rows of B, in the order of the feed.
SignerProject(c, B, readFault) ==
    LET d == ensureLoaded(c, readFault)
    IN  IF d.failed THEN d
        ELSE FoldLeft(ProjectRow, d, SetToSortSeq(B, LAMBDA g, h : Less(At(g), At(h))))

\* AuditSigner.Flush.
SignerFlush(c, readFault) == flush(ensureLoaded(c, readFault))

-----------------------------------------------------------------------------
(* The steps of the worker. *)

Sound(w) == [a |-> signer[w], table |-> checkpoints, left |-> -1, lost |-> FALSE, failed |-> FALSE]

\* The calls in which a read fails, or one insert after some that succeed.
Broken(w) ==
    {[call |-> Sound(w), read |-> r] : r \in FaultKinds \cap {"head", "tail"}}
    \cup {[call |-> [Sound(w) EXCEPT !.left = k, !.lost = (f = "lost")], read |-> "none"] :
              k \in 0..MaxEvents, f \in FaultKinds \cap {"insert", "lost"}}

Becomes(w, c) ==
    /\ signer' = [signer EXCEPT ![w] = c.a]
    /\ checkpoints' = c.table

\* signer.Project within foldAndAdvance.
AuditProject(w) ==
    /\ Project(w)
    /\ \E c \in {SignerProject(Sound(w), batch[w], "none")} : Becomes(w, c)

\* It returns an error: the cursor stays, the next tick fetches the rows again.
AuditProjectFails(w) ==
    /\ pc[w] = "project"
    /\ Fault
    /\ \E b \in Broken(w) :
          LET c == SignerProject(b.call, batch[w], b.read)
          IN  c.failed /\ Becomes(w, c)
    /\ pc' = [pc EXCEPT ![w] = "poll"]
    /\ batch' = [batch EXCEPT ![w] = {}]
    /\ UNCHANGED <<feedVars, cursor, delivered, counted, mem>>

\* After a full batch catchUp fetches the next; a short one ends at the Flush.
NextBatch(w) ==
    /\ pc[w] = "emit"
    /\ pc' = [pc EXCEPT ![w] = IF Cardinality(batch[w]) < BatchSize THEN "flush" ELSE "poll"]
    /\ batch' = [batch EXCEPT ![w] = {}]
    /\ UNCHANGED <<feedVars, cursor, delivered, counted, mem, faults, signerVars>>

\* catchUp has drained the feed.
Drained(w) == pc[w] = "flush" \/ (pc[w] = "poll" /\ Ready(mem[w]) = {})

AuditFlush(w) ==
    /\ Drained(w)
    /\ \E c \in {SignerFlush(Sound(w), "none")} : Becomes(w, c)
    /\ pc' = [pc EXCEPT ![w] = "poll"]
    /\ UNCHANGED <<feedVars, cursor, delivered, counted, mem, batch, faults>>

\* The error of a Flush is logged; the accumulator is kept for the next one.
AuditFlushFails(w) ==
    /\ Drained(w)
    /\ Fault
    /\ \E b \in Broken(w) :
          LET c == SignerFlush(b.call, b.read)
          IN  c.failed /\ Becomes(w, c)
    /\ pc' = [pc EXCEPT ![w] = "poll"]
    /\ UNCHANGED <<feedVars, cursor, delivered, counted, mem, batch>>

\* The process dies, and the accumulator with it.
AuditCrash(w) ==
    /\ "crash" \in FaultKinds
    /\ Crash(w)
    /\ signer' = [signer EXCEPT ![w] = NewAuditSigner]
    /\ UNCHANGED checkpoints

AuditWork(w) ==
    \/ (Start(w) \/ Fetch(w) \/ SaveCursor(w)) /\ UNCHANGED signerVars
    \/ AuditProject(w) \/ NextBatch(w) \/ AuditFlush(w)

\* At most MaxOpen transactions are open at once.
Begin(x) ==
    /\ Cardinality({y \in 1..MaxTx : tx[y] = "running"}) < MaxOpen
    /\ BeginTx(x)

AuditFeed == \E x \in 1..MaxTx : Begin(x) \/ InsertEvent(x) \/ CommitTx(x) \/ AbortTx(x)

AuditInit ==
    /\ Init
    /\ signer = [w \in Workers |-> NewAuditSigner]
    /\ checkpoints = << >>

AuditNext ==
    \/ AuditFeed /\ UNCHANGED <<runnerVars, signerVars>>
    \/ \E w \in Workers :
          \/ AuditWork(w)
          \/ SaveFails(w) /\ "save" \in FaultKinds /\ UNCHANGED signerVars
          \/ AuditProjectFails(w) \/ AuditFlushFails(w) \/ AuditCrash(w)

AuditSpec == AuditInit /\ [][AuditNext]_auditVars

\* A step of the worker would change something: ENABLED <<AuditWork(w)>>_auditVars.
Busy(w) ==
    pc[w] # "poll" \/ Ready(mem[w]) # {} \/ ~ signer[w].loaded \/ signer[w].leaves # << >>

\* The poll ticker keeps the worker going, and a flush follows every catch-up: weak
\* fairness of AuditWork, written out because TLC is slow to find it enabled.
AuditLiveSpec ==
    /\ AuditSpec
    /\ \A x \in 1..MaxTx : WF_tx(CommitTx(x) \/ AbortTx(x))
    /\ \A w \in Workers : []<>~Busy(w) \/ []<><<AuditWork(w)>>_auditVars

-----------------------------------------------------------------------------
(* VerifyAuditCheckpoints. *)

\* selectCheckpointLeavesSQL: the committed rows of a range, by global_id.
loadCheckpointLeaves(from, to) == SetToSortSeq({g \in from..to : g \in DOMAIN rows /\ Visible(g)}, <)

\* classifyCheckpoints returns Valid.
Verifies ==
    \A i \in DOMAIN checkpoints :
        LET cp == checkpoints[i]
            before == IF i = 1 THEN CheckpointGenesisPrev ELSE checkpoints[i - 1].hash
        IN  /\ cp.prev = before
            /\ cp.hash = CheckpointHash(before, loadCheckpointLeaves(cp.from, cp.to))

\* The leaves checkpoint i was computed from.
LeavesOf(i) == checkpoints[i].hash[2]

Anchored(g) == \E i \in DOMAIN checkpoints : g \in ToSet(LeavesOf(i))

(* verify_checkpoints.go: classifyCheckpoints "mirrors the signer's chaining *)
(* so the recomputed hash matches when nothing was tampered".  No action of  *)
(* the model tampers, so the chain verifies in every state.                  *)
UntamperedVerifies == Verifies

(* A row is anchored once: after a restart, a replay of the feed or a failed *)
(* insert, no leaf is folded into the chain a second time.                   *)
AnchoredOnce ==
    \A i, j \in DOMAIN checkpoints : \A k \in DOMAIN LeavesOf(i), l \in DOMAIN LeavesOf(j) :
        LeavesOf(i)[k] = LeavesOf(j)[l] => i = j /\ k = l

(* audit_signer.go: AuditSigner is robust to a crash after a cursor save     *)
(* "WITHOUT a checkpoint being silently dropped": no row that is settled     *)
(* stays behind the last anchored one.                                       *)
NothingStranded ==
    \A i \in DOMAIN checkpoints : \A g \in DOMAIN rows :
        Visible(g) /\ g < checkpoints[i].to => Anchored(g)

(* Every committed row is anchored in the end, also after crashes between    *)
(* the save of the cursor and the checkpoint.                                *)
EventuallyAnchored ==
    \A g \in Gids : (g \in DOMAIN rows /\ Visible(g)) ~> Anchored(g)

=============================================================================
