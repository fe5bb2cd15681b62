------------------------------ MODULE Migrate ------------------------------
(***************************************************************************)
(* The schema migrations (internal/orchestrator/infra/dbmigrate), started  *)
(* by several deployments at once: each run takes a session-level advisory *)
(* lock, reads the recorded version, and for every newer step records it   *)
(* as dirty, executes it and records it as clean.  The order of those      *)
(* calls is golang-migrate's Up (external); the driver behind them is this *)
(* package's.  A run may fail in a step or lose its connection anywhere,   *)
(* which frees the lock.  A step is one simple-protocol batch, so it takes *)
(* effect as a whole or not at all.                                        *)
(***************************************************************************)
EXTENDS Naturals, Sequences

CONSTANTS
    Migrators,       \* the processes that call Migrate
    Latest,          \* the newest version
    MaxLosses        \* bound on failed steps and lost connections

ASSUME MigrateAssumption == Latest \in Nat /\ MaxLosses \in Nat

VARIABLES
    schema,          \* the versions executed, in order
    version,         \* schema_migrations: the version and the dirty flag
    lockedBy,        \* who holds the advisory lock
    migrator,        \* a process: where it is, and the version it works on
    losses

migrateVars == <<schema, version, lockedBy, migrator, losses>>

Away == [at |-> "away", step |-> 0]

MigrateInit ==
    /\ schema = <<>>
    /\ version = [number |-> 0, dirty |-> FALSE]
    /\ lockedBy = {}
    /\ migrator = [p \in Migrators |-> Away]
    /\ losses = 0

Goes(p, at, step) == migrator' = [migrator EXCEPT ![p] = [at |-> at, step |-> step]]

\* Migrate connects, and Up begins.
Begin(p) ==
    /\ migrator[p].at = "away"
    /\ Goes(p, "lock", 0)
    /\ UNCHANGED <<schema, version, lockedBy, losses>>

\* Faulty: the runs do not exclude each other.
Lock_None(p) ==
    /\ migrator[p].at = "lock"
    /\ lockedBy' = lockedBy \cup {p}
    /\ Goes(p, "read", 0)
    /\ UNCHANGED <<schema, version, losses>>

\* Lock: pg_advisory_lock waits until it is granted.
Lock(p) ==
    /\ migrator[p].at = "lock"
    /\ lockedBy = {}
    /\ lockedBy' = {p}
    /\ Goes(p, "read", 0)
    /\ UNCHANGED <<schema, version, losses>>

\* Version: a dirty one stops Up; at the latest one there is nothing to do.
Version(p) ==
    /\ migrator[p].at = "read"
    /\ IF version.dirty \/ version.number = Latest
         THEN Goes(p, "unlock", 0) ELSE Goes(p, "mark", version.number + 1)
    /\ UNCHANGED <<schema, version, lockedBy, losses>>

\* SetVersion(v, true).
MarkDirty(p) ==
    /\ migrator[p].at = "mark"
    /\ version' = [number |-> migrator[p].step, dirty |-> TRUE]
    /\ Goes(p, "run", migrator[p].step)
    /\ UNCHANGED <<schema, lockedBy, losses>>

\* Run executes the step.
RunStep(p) ==
    /\ migrator[p].at = "run"
    /\ schema' = Append(schema, migrator[p].step)
    /\ Goes(p, "clean", migrator[p].step)
    /\ UNCHANGED <<version, lockedBy, losses>>

\* Run fails: Up unlocks and returns the error; the version stays dirty.
RunStepFails(p) ==
    /\ migrator[p].at = "run"
    /\ losses < MaxLosses /\ losses' = losses + 1
    /\ Goes(p, "unlock", 0)
    /\ UNCHANGED <<schema, version, lockedBy>>

\* SetVersion(v, false), and on to the next step.
MarkClean(p) ==
    /\ migrator[p].at = "clean"
    /\ version' = [number |-> migrator[p].step, dirty |-> FALSE]
    /\ IF migrator[p].step = Latest THEN Goes(p, "unlock", 0) ELSE Goes(p, "mark", migrator[p].step + 1)
    /\ UNCHANGED <<schema, lockedBy, losses>>

\* Unlock; the connection is closed.
Unlock(p) ==
    /\ migrator[p].at = "unlock"
    /\ lockedBy' = lockedBy \ {p}
    /\ migrator' = [migrator EXCEPT ![p] = Away]
    /\ UNCHANGED <<schema, version, losses>>

\* The process or its connection dies.  A batch already sent may still commit;
\* the lock is freed when the server ends the session.
ConnectionLost(p) ==
    /\ migrator[p].at # "away"
    /\ losses < MaxLosses /\ losses' = losses + 1
    /\ \E commits \in BOOLEAN :
          schema' = IF commits /\ migrator[p].at = "run" THEN Append(schema, migrator[p].step) ELSE schema
    /\ lockedBy' = lockedBy \ {p}
    /\ migrator' = [migrator EXCEPT ![p] = Away]
    /\ UNCHANGED version

MigrateNext ==
    \E p \in Migrators :
        \/ Begin(p) \/ Lock(p) \/ Version(p) \/ MarkDirty(p) \/ RunStep(p) \/ RunStepFails(p)
        \/ MarkClean(p) \/ Unlock(p) \/ ConnectionLost(p)

MigrateSpec == MigrateInit /\ [][MigrateNext]_migrateVars

-----------------------------------------------------------------------------
(* However many deployments migrate at once, and wherever they fail, every  *)
(* step is executed at most once and in order, a clean version says exactly *)
(* what was executed, and a dirty one leaves only its own step in doubt     *)
(* (pgxDriver.Lock, SetVersion).                                            *)
SchemaIsVersion ==
    /\ \A i \in DOMAIN schema : schema[i] = i
    /\ IF version.dirty
         THEN Len(schema) \in {version.number - 1, version.number}
         ELSE Len(schema) = version.number

=============================================================================
