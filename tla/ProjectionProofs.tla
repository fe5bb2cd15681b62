-------------------------- MODULE ProjectionProofs --------------------------
(***************************************************************************)
(* Proofs about what is made of the event feed and kept beside it, and     *)
(* about the process that keeps it: the projection runner, the SIEM        *)
(* export, the blobs of large outputs, the migrations of the schema and    *)
(* the shutdown of the daemon; and about the catalogue of tools, which is  *)
(* made from what MCP servers list.                                        *)
(***************************************************************************)
EXTENDS Runner, SiemExport, Blobs, Migrate, Daemon, ToolCatalog, TLAPS

-----------------------------------------------------------------------------
(***************************************************************************)
(* The schema is what the recorded version says, for any number of         *)
(* deployments that migrate at once, any number of steps and any number of *)
(* failures.                                                               *)
(*                                                                         *)
(* SchemaIsVersion is not inductive: that executing a step leaves the      *)
(* schema in order depends on the step being the one after the last, which *)
(* the run that executes it read before, under the lock.  MigrateInv adds  *)
(* what the holder of the lock knows at each point.                        *)
(***************************************************************************)

Places == {"away", "lock", "read", "mark", "run", "clean", "unlock"}

\* A run past Lock.
Inside(p) == migrator[p].at \notin {"away", "lock"}

MigrateTypes ==
    /\ schema \in Seq(Nat)
    /\ version \in [number : Nat, dirty : BOOLEAN]
    /\ migrator \in [Migrators -> [at : Places, step : Nat]]
    /\ losses \in Nat

\* Only the holder of the advisory lock is past Lock.
LockIsHeld == \A p \in Migrators : Inside(p) => lockedBy = {p}

\* What a run has read is still so when it acts on it.
ReadIsCurrent ==
    \A p \in Migrators :
        /\ migrator[p].at = "mark" => ~ version.dirty /\ migrator[p].step = version.number + 1
        /\ migrator[p].at \in {"run", "clean"} => version.dirty /\ migrator[p].step = version.number
        /\ migrator[p].at = "run" => Len(schema) = version.number - 1
        /\ migrator[p].at = "clean" => Len(schema) = version.number

MigrateInv == MigrateTypes /\ LockIsHeld /\ ReadIsCurrent /\ SchemaIsVersion

-----------------------------------------------------------------------------
\* No deployment has begun: the schema is empty and so is the version.
LEMMA MigrateInitInv == MigrateInit => MigrateInv
  BY DEF MigrateInit, MigrateInv, MigrateTypes, LockIsHeld, ReadIsCurrent, SchemaIsVersion,
         Away, Places, Inside

\* A run that has not reached the lock, or leaves it, disturbs nobody.
LEMMA OutsideKeepsInv ==
  ASSUME MigrateInv, NEW p \in Migrators, Begin(p) \/ Unlock(p)
  PROVE  MigrateInv'
  <1>1. CASE Begin(p)
    <2>5. MigrateTypes'
      BY Zenon, <1>1 DEF Begin, Goes, MigrateInv, MigrateTypes, Places
    <2>6. LockIsHeld'
      BY Zenon, <1>1 DEF Begin, Goes, MigrateInv, MigrateTypes, LockIsHeld, Inside
    <2>7. ReadIsCurrent'
      BY Zenon, <1>1 DEF Begin, Goes, MigrateInv, MigrateTypes, ReadIsCurrent, SchemaIsVersion, Inside
    <2>8. SchemaIsVersion'
      BY Zenon, <1>1 DEF Begin, Goes, MigrateInv, MigrateTypes, ReadIsCurrent, SchemaIsVersion
    <2> QED BY Zenon, <2>5, <2>6, <2>7, <2>8 DEF MigrateInv
  <1>2. CASE Unlock(p)
    <2>5. MigrateTypes'
      BY Zenon, <1>2 DEF Unlock, Away, MigrateInv, MigrateTypes, Places
    <2>6. LockIsHeld'
      BY Zenon, <1>2 DEF Unlock, Away, MigrateInv, MigrateTypes, LockIsHeld, Inside
    <2>7. ReadIsCurrent'
      BY Zenon, <1>2 DEF Unlock, Away, MigrateInv, MigrateTypes, ReadIsCurrent, SchemaIsVersion, Inside
    <2>8. SchemaIsVersion'
      BY Zenon, <1>2 DEF Unlock, Away, MigrateInv, MigrateTypes, ReadIsCurrent, SchemaIsVersion
    <2> QED BY <2>5, <2>6, <2>7, <2>8 DEF MigrateInv
  <1> QED BY Zenon, <1>1, <1>2

\* The lock is granted to one run only, and what it reads is the recorded version.
LEMMA LockKeepsInv ==
  ASSUME MigrateInv, NEW p \in Migrators, Lock(p) \/ Version(p)
  PROVE  MigrateInv'
  <1>1. CASE Lock(p)
    <2>5. MigrateTypes'
      BY Zenon, <1>1 DEF Lock, Goes, MigrateInv, MigrateTypes, Places
    <2>6. LockIsHeld'
      BY Zenon, <1>1 DEF Lock, Goes, MigrateInv, MigrateTypes, LockIsHeld, Inside
    <2>7. ReadIsCurrent'
      BY Zenon, <1>1 DEF Lock, Goes, MigrateInv, MigrateTypes, ReadIsCurrent, SchemaIsVersion, Inside
    <2>8. SchemaIsVersion'
      BY Zenon, <1>1 DEF Lock, Goes, MigrateInv, MigrateTypes, ReadIsCurrent, SchemaIsVersion
    <2> QED BY <2>5, <2>6, <2>7, <2>8 DEF MigrateInv
  <1>2. CASE Version(p)
    <2>5. MigrateTypes'
      BY <1>2 DEF Version, Goes, MigrateInv, MigrateTypes, Places
    <2>6. LockIsHeld'
      BY Zenon, <1>2 DEF Version, Goes, MigrateInv, MigrateTypes, LockIsHeld, Inside
    <2>7. ReadIsCurrent'
      BY <1>2 DEF Version, Goes, MigrateInv, MigrateTypes, ReadIsCurrent, SchemaIsVersion, Inside
    <2>8. SchemaIsVersion'
      BY Zenon, <1>2 DEF Version, Goes, MigrateInv, MigrateTypes, ReadIsCurrent, SchemaIsVersion
    <2> QED BY <2>5, <2>6, <2>7, <2>8 DEF MigrateInv
  <1> QED BY <1>1, <1>2

\* The version changes in the hands of the holder of the lock: no other run is past it.
LEMMA MarkKeepsInv ==
  ASSUME MigrateInv, NEW p \in Migrators, MarkDirty(p) \/ MarkClean(p)
  PROVE  MigrateInv'
  <1>1. \A q \in Migrators \ {p} : ~ Inside(q)
    BY Zenon DEF MarkDirty, MarkClean, MigrateInv, LockIsHeld, Inside
  <1>2. CASE MarkDirty(p)
    <2>1. /\ schema' = schema /\ Len(schema) = version.number /\ version.number \in Nat /\ version'.dirty
          /\ version'.number = version.number + 1 /\ migrator[p].step = version.number + 1
      BY Zenon, <1>2 DEF MarkDirty, MigrateInv, MigrateTypes, ReadIsCurrent, SchemaIsVersion
    <2>2. /\ migrator'[p].at = "run" /\ migrator'[p].step = migrator[p].step
          /\ \A q \in Migrators \ {p} : migrator'[q] = migrator[q]
      BY Zenon, <1>2 DEF MarkDirty, Goes, MigrateInv, MigrateTypes
    <2>5. MigrateTypes'
      BY Zenon, <1>2 DEF MarkDirty, Goes, MigrateInv, MigrateTypes, Places
    <2>6. LockIsHeld'
      BY Zenon, <1>2, <1>1 DEF MarkDirty, Goes, MigrateInv, MigrateTypes, LockIsHeld, Inside
    <2>7. ReadIsCurrent'
      BY <1>1, <2>1, <2>2 DEF ReadIsCurrent, Inside
    <2>8. SchemaIsVersion'
      BY <1>2 DEF MarkDirty, Goes, MigrateInv, MigrateTypes, ReadIsCurrent, SchemaIsVersion
    <2> QED BY <2>5, <2>6, <2>7, <2>8 DEF MigrateInv
  <1>3. CASE MarkClean(p)
    <2>5. MigrateTypes'
      BY <1>3 DEF MarkClean, Goes, MigrateInv, MigrateTypes, Places
    <2>6. LockIsHeld'
      BY Zenon, <1>3, <1>1 DEF MarkClean, Goes, MigrateInv, MigrateTypes, LockIsHeld, Inside
    <2>7. ReadIsCurrent'
      BY SMTT(30), <1>3, <1>1 DEF MarkClean, Goes, MigrateInv, MigrateTypes, ReadIsCurrent, SchemaIsVersion, Inside
    <2>8. SchemaIsVersion'
      BY Zenon, <1>3 DEF MarkClean, Goes, MigrateInv, MigrateTypes, ReadIsCurrent, SchemaIsVersion
    <2> QED BY <2>5, <2>6, <2>7, <2>8 DEF MigrateInv
  <1> QED BY <1>2, <1>3

\* A step that is executed is the one after the last that was.
LEMMA NextStepFits ==
  ASSUME MigrateInv, NEW p \in Migrators, migrator[p].at = "run",
         schema' = Append(schema, migrator[p].step)
  PROVE  /\ schema' \in Seq(Nat) /\ Len(schema') = version.number /\ version.dirty
         /\ \A i \in DOMAIN schema' : schema'[i] = i
  BY DEF MigrateInv, MigrateTypes, ReadIsCurrent, SchemaIsVersion

\* Executing a step, or failing to, changes nothing a run elsewhere relies on.
LEMMA RunKeepsInv ==
  ASSUME MigrateInv, NEW p \in Migrators, RunStep(p) \/ RunStepFails(p)
  PROVE  MigrateInv'
  <1>1. \A q \in Migrators \ {p} : ~ Inside(q)
    BY Zenon DEF RunStep, RunStepFails, MigrateInv, LockIsHeld, Inside
  <1>2. CASE RunStep(p)
    <2>1. /\ schema' \in Seq(Nat) /\ Len(schema') = version.number /\ version.dirty
          /\ \A i \in DOMAIN schema' : schema'[i] = i
      BY Zenon, <1>2, NextStepFits DEF RunStep
    <2>5. MigrateTypes'
      BY Zenon, <1>2, <2>1 DEF RunStep, Goes, MigrateInv, MigrateTypes, Places
    <2>6. LockIsHeld'
      BY Zenon, <1>2, <1>1 DEF RunStep, Goes, MigrateInv, MigrateTypes, LockIsHeld, Inside
    <2>7. ReadIsCurrent'
      BY Zenon, <1>2, <1>1, <2>1 DEF RunStep, Goes, MigrateInv, MigrateTypes, ReadIsCurrent, SchemaIsVersion, Inside
    <2>8. SchemaIsVersion'
      BY Zenon, <1>2, <2>1 DEF RunStep, Goes, MigrateInv, MigrateTypes, ReadIsCurrent, SchemaIsVersion
    <2> QED BY <2>5, <2>6, <2>7, <2>8 DEF MigrateInv
  <1>3. CASE RunStepFails(p)
    <2>5. MigrateTypes'
      BY <1>3 DEF RunStepFails, Goes, MigrateInv, MigrateTypes, Places
    <2>6. LockIsHeld'
      BY Zenon, <1>3, <1>1 DEF RunStepFails, Goes, MigrateInv, MigrateTypes, LockIsHeld, Inside
    <2>7. ReadIsCurrent'
      BY Zenon, <1>3, <1>1 DEF RunStepFails, Goes, MigrateInv, MigrateTypes, ReadIsCurrent, SchemaIsVersion, Inside
    <2>8. SchemaIsVersion'
      BY Zenon, <1>3 DEF RunStepFails, Goes, MigrateInv, MigrateTypes, ReadIsCurrent, SchemaIsVersion
    <2> QED BY <2>5, <2>6, <2>7, <2>8 DEF MigrateInv
  <1> QED BY <1>2, <1>3

\* A lost connection leaves at most its own step in doubt, and the version dirty.
LEMMA LossKeepsInv ==
  ASSUME MigrateInv, NEW p \in Migrators, ConnectionLost(p)
  PROVE  MigrateInv'
  <1>1. CASE migrator[p].at = "run" /\ schema' = Append(schema, migrator[p].step)
    <2>1. \A q \in Migrators \ {p} : ~ Inside(q)
      BY Zenon, <1>1 DEF MigrateInv, LockIsHeld, Inside
    <2>2. /\ schema' \in Seq(Nat) /\ Len(schema') = version.number /\ version.dirty
          /\ \A i \in DOMAIN schema' : schema'[i] = i
      BY Zenon, <1>1, NextStepFits
    <2>5. MigrateTypes'
      BY <1>1, <2>2 DEF ConnectionLost, Away, MigrateInv, MigrateTypes, Places
    <2>6. LockIsHeld'
      BY Zenon, <1>1, <2>1 DEF ConnectionLost, Away, MigrateInv, MigrateTypes, LockIsHeld, Inside
    <2>7. ReadIsCurrent'
      BY Zenon, <1>1, <2>1, <2>2 DEF ConnectionLost, Away, MigrateInv, MigrateTypes, ReadIsCurrent, SchemaIsVersion, Inside
    <2>8. SchemaIsVersion'
      BY Zenon, <1>1, <2>2 DEF ConnectionLost, Away, MigrateInv, MigrateTypes, ReadIsCurrent, SchemaIsVersion
    <2> QED BY Zenon, <2>5, <2>6, <2>7, <2>8 DEF MigrateInv
  <1>2. CASE schema' = schema
    <2>5. MigrateTypes'
      BY <1>2 DEF ConnectionLost, Away, MigrateInv, MigrateTypes, Places
    <2>6. LockIsHeld'
      BY Zenon, <1>2 DEF ConnectionLost, Away, MigrateInv, MigrateTypes, LockIsHeld, Inside
    <2>7. ReadIsCurrent'
      BY Zenon, <1>2 DEF ConnectionLost, Away, MigrateInv, MigrateTypes, ReadIsCurrent, SchemaIsVersion, Inside
    <2>8. SchemaIsVersion'
      BY Zenon, <1>2 DEF ConnectionLost, Away, MigrateInv, MigrateTypes, ReadIsCurrent, SchemaIsVersion
    <2> QED BY <2>5, <2>6, <2>7, <2>8 DEF MigrateInv
  <1>3. schema' = schema \/ (migrator[p].at = "run" /\ schema' = Append(schema, migrator[p].step))
    BY Zenon DEF ConnectionLost
  <1> QED BY Zenon, <1>1, <1>2, <1>3

\* A clean version says exactly what was executed, in order and once each, and a
\* dirty one leaves only its own step in doubt, however many deployments migrate at
\* once and wherever they fail (pgxDriver.Lock, SetVersion, Run).
THEOREM SchemaFollowsVersion == MigrateSpec => []SchemaIsVersion
  <1>1. MigrateInv /\ [MigrateNext]_migrateVars => MigrateInv'
    <2> SUFFICES ASSUME MigrateInv, [MigrateNext]_migrateVars PROVE MigrateInv'
      BY Zenon
    <2>1. ASSUME NEW p \in Migrators,
                 \/ Begin(p) \/ Lock(p) \/ Version(p) \/ MarkDirty(p) \/ RunStep(p) \/ RunStepFails(p)
                 \/ MarkClean(p) \/ Unlock(p) \/ ConnectionLost(p)
          PROVE  MigrateInv'
      BY <2>1, OutsideKeepsInv, LockKeepsInv, MarkKeepsInv, RunKeepsInv, LossKeepsInv
    <2>2. CASE UNCHANGED migrateVars
      BY Zenon, <2>2 DEF migrateVars, MigrateInv, MigrateTypes, LockIsHeld, ReadIsCurrent, SchemaIsVersion, Inside
    <2> QED BY Zenon, <2>1, <2>2 DEF MigrateNext
  <1>2. MigrateInv => SchemaIsVersion
    BY DEF MigrateInv
  <1> QED BY <1>1, <1>2, MigrateInitInv, PTL DEF MigrateSpec

-----------------------------------------------------------------------------
(***************************************************************************)
(* The order of a daemon's shutdown, for any number of requests over any   *)
(* of the listeners.                                                       *)
(*                                                                         *)
(* ClosedAfterDrain speaks of the closers only.  What holds there was      *)
(* established two stages before, when the RPCs were drained or cut off,   *)
(* and must not be undone meanwhile by a request that still comes in over  *)
(* HTTP: DaemonInv follows it from the signal on.                          *)
(***************************************************************************)

ShutdownStages == {"listen", "serve", "drain", "http", "close", "flush", "exited"}

DaemonTypes ==
    /\ stage \in ShutdownStages
    /\ handlers \in [Handlers -> {"none", "running", "cancelled", "done"}]
    /\ via \in [Handlers -> Protocols]

\* From the signal on the daemon is not serving, as health checks see it.
NotServing == stage \in {"drain", "http", "close", "flush"} => ~ serving

\* Once the drain is over no RPC runs that was not cancelled.
RPCsAreOver ==
    stage \in {"http", "close", "flush"} =>
        \A h \in Handlers : via[h] = "grpc" => handlers[h] # "running"

DaemonInv == DaemonTypes /\ NotServing /\ RPCsAreOver

-----------------------------------------------------------------------------
\* Only a serving daemon accepts RPCs.
LEMMA NoRPCAfterServe ==
  ASSUME NEW h \in Handlers, via[h] = "grpc", Accepts(via[h])
  PROVE  stage = "serve"
  BY Zenon DEF Accepts

\* After HTTP is stopped no listener accepts anything.
LEMMA ClosedAcceptsNothing ==
  ASSUME DaemonTypes, stage \in {"close", "flush"}, NEW protocol \in Protocols
  PROVE  ~ Accepts(protocol)
  <1>1. protocol \in {"grpc", "http"}
    BY Zenon, DaemonAssumption
  <1> QED BY Zenon, <1>1 DEF Accepts

\* Start, signals, the worker and the clock leave the requests alone.
LEMMA OutsideKeepsDaemonInv ==
  ASSUME DaemonInv,
         BindFails \/ Serve \/ Signalled \/ (\E ofWorker \in BOOLEAN : ServeFails(ofWorker))
            \/ WorkerReturns \/ DeadlinePasses
  PROVE  DaemonInv'
  BY DEF DaemonInv, DaemonTypes, NotServing, RPCsAreOver, ShutdownStages, BindFails, Serve, Signalled, ServeFails,
         WorkerReturns, DeadlinePasses

\* A request begins only through a listener that still accepts it.
LEMMA HandlersKeepDaemonInv ==
  ASSUME DaemonInv, NEW h \in Handlers, HandlerBegins(h) \/ HandlerEnds(h)
  PROVE  DaemonInv'
  <1>1. CASE HandlerBegins(h)
    <2>1. stage \in {"http", "close", "flush"} => via[h] # "grpc"
      BY Zenon, <1>1, NoRPCAfterServe DEF HandlerBegins
    <2> QED
      BY Zenon, <1>1, <2>1 DEF HandlerBegins, DaemonInv, DaemonTypes, NotServing, RPCsAreOver
  <1>2. CASE HandlerEnds(h)
    BY Zenon, <1>2 DEF HandlerEnds, DaemonInv, DaemonTypes, NotServing, RPCsAreOver
  <1> QED BY <1>1, <1>2

\* The drain ends with the last RPC, or cancels those that are left.
LEMMA ShutdownKeepsDaemonInv ==
  ASSUME DaemonInv, ShutdownStep
  PROVE  DaemonInv'
  <1>1. CASE GrpcDrained
    BY Zenon, <1>1 DEF GrpcDrained, Drained, Alive, DaemonInv, DaemonTypes, NotServing, RPCsAreOver, ShutdownStages
  <1>2. CASE GrpcForced
    BY Zenon, <1>2 DEF GrpcForced, Alive, DaemonInv, DaemonTypes, NotServing, RPCsAreOver, ShutdownStages
  <1>3. CASE HttpStopped \/ CloseBegins \/ CloseEnds \/ Exit
    BY <1>3 DEF HttpStopped, CloseBegins, CloseEnds, Exit, DaemonInv, DaemonTypes, NotServing, RPCsAreOver,
                ShutdownStages
  <1> QED BY Zenon, <1>1, <1>2, <1>3 DEF ShutdownStep

\* Resources go after their users (gracefulShutdown): while the closers run, health
\* checks fail, no listener accepts, and no RPC runs that its client was not cut off
\* from, whatever came in before and however the drain ended.
THEOREM ClosersComeLast == DaemonSpec => []ClosedAfterDrain
  <1>1. DaemonInit => DaemonInv
    BY Zenon DEF DaemonInit, DaemonInv, DaemonTypes, NotServing, RPCsAreOver, ShutdownStages
  <1>2. DaemonInv /\ [DaemonNext]_daemonVars => DaemonInv'
    <2> SUFFICES ASSUME DaemonInv, [DaemonNext]_daemonVars PROVE DaemonInv'
      OBVIOUS
    <2>1. CASE UNCHANGED daemonVars
      BY Zenon, <2>1 DEF daemonVars, DaemonInv, DaemonTypes, NotServing, RPCsAreOver
    <2> QED
      BY Zenon, <2>1, OutsideKeepsDaemonInv, HandlersKeepDaemonInv, ShutdownKeepsDaemonInv DEF DaemonNext
  <1>3. DaemonInv => ClosedAfterDrain
    BY ClosedAcceptsNothing DEF DaemonInv, NotServing, RPCsAreOver, ClosedAfterDrain
  <1> QED BY <1>1, <1>2, <1>3, PTL DEF DaemonSpec

-----------------------------------------------------------------------------
(***************************************************************************)
(* What the log refers to can be read, for any outputs and leftovers of    *)
(* earlier runs.                                                           *)
(*                                                                         *)
(* A reference is written several steps after its blob, and the sweeper    *)
(* deletes in steps of its own. BlobInv says what of a blob is there at    *)
(* each of them.                                                           *)
(***************************************************************************)

(* What the log refers to. *)

\* The stages of an output, and the states of a pass: a pass deals with leftovers.
Stages == {"new", "half", "stored", "failed", "refused", "recorded", "abandoned"}
Passes ==
    {NoPass} \cup [at : {"payload"}, todo : SUBSET Leftovers]
             \cup [at : {"meta", "row"}, todo : SUBSET Leftovers, on : Leftovers]

BlobInv ==
    /\ rowAge \in [Keys -> {"none", "young", "old"}] /\ refs \subseteq Contents
    /\ output \in [Outputs -> [key : Contents, path : AppendPaths, at : Stages]]
    /\ sweep \in Passes
    /\ \A k \in Keys \ Leftovers : rowAge[k] # "none" => k \in refs
    /\ \A k \in refs \ Leftovers : rowAge[k] # "none" /\ Get(k)
    /\ \A c \in Outputs : output[c].key \notin Leftovers =>
          /\ output[c].at \in {"half", "stored", "refused"} => output[c].key \in payload
          /\ output[c].at \in {"stored", "refused"} => output[c].key \in meta

\* The blobs that no old row is for: what the sweeper leaves alone.
OthersAreReadable == \A k \in refs \ Leftovers : rowAge[k] # "none" /\ Get(k)

\* Nothing is referred to, and no output is written.
LEMMA BlobStart == BlobInit => BlobInv
<1> SUFFICES ASSUME BlobInit PROVE BlobInv
  BY Zenon
<1>1. output \in [Outputs -> [key : Contents, path : AppendPaths, at : Stages]] /\ \A c \in Outputs : output[c].at = "new"
  BY Zenon DEF BlobInit, Stages
<1> QED
  BY Zenon, <1>1 DEF BlobInit, BlobInv, Passes, Keys

\* An output gets on, and with it its files.
LEMMA OutputMoves ==
    ASSUME BlobInv, NEW c \in Outputs, NEW from \in Stages, NEW to \in Stages, Move(c, from, to),
           payload \subseteq payload', meta \subseteq meta', UNCHANGED <<rowAge, refs, sweep>>,
           to \in {"half", "stored", "refused"} => output[c].key \in payload' \/ output[c].key \in Leftovers,
           to \in {"stored", "refused"} => output[c].key \in meta' \/ output[c].key \in Leftovers
    PROVE  BlobInv'
<1>1. output' \in [Outputs -> [key : Contents, path : AppendPaths, at : Stages]]
  BY DEF BlobInv, Move
<1>2. \A d \in Outputs : output'[d].key = output[d].key /\ output'[d].at = IF d = c THEN to ELSE output[d].at
  BY Zenon DEF BlobInv, Move
<1>3. \A k : Get(k) => Get(k)'
  BY Zenon DEF Get
<1> QED
  BY Zenon, <1>1, <1>2, <1>3 DEF BlobInv

\* The row and the event of an output commit together.
LEMMA RecordsBlob == ASSUME BlobInv, NEW c \in Outputs, AppendWithBlob(c) PROVE BlobInv'
<1> DEFINE key == output[c].key
<1>1. /\ output[c].at = "stored" /\ output' = [output EXCEPT ![c].at = "recorded"]
      /\ rowAge' = [rowAge EXCEPT ![key] = IF @ = "none" THEN "young" ELSE @]
      /\ refs' = refs \cup {key} /\ UNCHANGED <<payload, meta, sweep>>
  BY Zenon DEF AppendWithBlob, Move
<1>2. key \in Contents /\ key \in Keys
  BY Zenon DEF BlobInv, Keys
<1>3. output' \in [Outputs -> [key : Contents, path : AppendPaths, at : Stages]]
  BY <1>1 DEF BlobInv, Stages
<1>4. \A d \in Outputs : output'[d].key = output[d].key /\ output'[d].at = IF d = c THEN "recorded" ELSE output[d].at
  BY Zenon, <1>1 DEF BlobInv
<1>5. /\ rowAge' \in [Keys -> {"none", "young", "old"}] /\ rowAge'[key] # "none"
      /\ \A k \in Keys : k # key => rowAge'[k] = rowAge[k]
  BY Zenon, <1>1, <1>2 DEF BlobInv
<1>6. key \notin Leftovers => Get(key)
  BY Zenon, <1>1 DEF BlobInv, Get
<1>7. \A k : Get(k)' <=> Get(k)
  BY Zenon, <1>1 DEF Get
<1> HIDE DEF key
<1>8. \A k \in refs' \ Leftovers : rowAge'[k] # "none" /\ Get(k)'
  BY Zenon, <1>1, <1>5, <1>6, <1>7 DEF BlobInv, Keys
<1>9. \A k \in Keys \ Leftovers : rowAge'[k] # "none" => k \in refs'
  BY Zenon, <1>1, <1>5 DEF BlobInv
<1> QED
  BY <1>1, <1>2, <1>3, <1>4, <1>5, <1>8, <1>9 DEF BlobInv

\* The sweeper takes up, and deletes, leftovers only.
LEMMA SweepsLeftovers == ASSUME BlobInv, SweepStep \/ SweepFails PROVE BlobInv'
<1>1. CASE FindOrphans
  <2>1. Orphans \subseteq Leftovers
    BY Zenon DEF Orphans, BlobInv
  <2>2. sweep' \in Passes /\ UNCHANGED <<payload, meta, rowAge, refs, output>>
    BY Zenon, <1>1, <2>1 DEF FindOrphans, Passes
  <2> QED
    BY Zenon, <2>2 DEF BlobInv, Get
<1>2. CASE DeletePayload
  <2>1. sweep.todo \subseteq Leftovers
    BY <1>2 DEF BlobInv, Passes, NoPass, DeletePayload
  <2>2. PICK k \in sweep.todo : payload' = payload \ {k} /\ sweep' = [at |-> "meta", todo |-> sweep.todo, on |-> k]
    BY Zenon, <1>2 DEF DeletePayload
  <2>3. sweep' \in Passes /\ UNCHANGED <<meta, rowAge, refs, output>>
    BY Zenon, <1>2, <2>1, <2>2 DEF DeletePayload, Passes
  <2>4. \A h : h \notin Leftovers => (h \in payload' <=> h \in payload) /\ (Get(h)' <=> Get(h))
    BY Zenon, <2>1, <2>2, <2>3 DEF Get
  <2> QED
    BY Zenon, <2>3, <2>4 DEF BlobInv
<1>3. CASE DeleteMeta
  <2>1. sweep \in [at : {"meta"}, todo : SUBSET Leftovers, on : Leftovers]
    BY <1>3 DEF BlobInv, Passes, NoPass, DeleteMeta
  <2>2. meta' = meta \ {sweep.on} /\ sweep' = [sweep EXCEPT !.at = "row"] /\ UNCHANGED <<payload, rowAge, refs, output>>
    BY Zenon, <1>3 DEF DeleteMeta
  <2>3. sweep' \in Passes
    BY Zenon, <2>1, <2>2 DEF Passes
  <2>4. \A h : h \notin Leftovers => (h \in meta' <=> h \in meta) /\ (Get(h)' <=> Get(h))
    BY Zenon, <2>1, <2>2 DEF Get
  <2> QED
    BY Zenon, <2>2, <2>3, <2>4 DEF BlobInv
<1>4. CASE DeleteRow
  <2>1. sweep \in [at : {"row"}, todo : SUBSET Leftovers, on : Leftovers]
    BY <1>4 DEF BlobInv, Passes, NoPass, DeleteRow
  <2>2. sweep' \in Passes
    BY Zenon, <1>4, <2>1 DEF DeleteRow, Passes
  <2>3. UNCHANGED <<payload, meta, refs, output>>
    BY Zenon, <1>4 DEF DeleteRow
  <2>4. rowAge' \in [Keys -> {"none", "young", "old"}] /\ \A h \in Keys \ Leftovers : rowAge'[h] = rowAge[h]
    BY Zenon, <1>4, <2>1 DEF DeleteRow, BlobInv
  <2> QED
    BY Zenon, <2>2, <2>3, <2>4 DEF BlobInv, Get, Keys
<1>5. CASE SweepFails
  BY Zenon, <1>5 DEF SweepFails, BlobInv, Passes, Get
<1> QED
  BY Zenon, <1>1, <1>2, <1>3, <1>4, <1>5 DEF SweepStep

\* Every step keeps the invariant.
LEMMA BlobStep == BlobInv /\ [BlobNext]_blobVars => BlobInv'
<1> SUFFICES ASSUME BlobInv, [BlobNext]_blobVars PROVE BlobInv'
  OBVIOUS
<1>1. ASSUME NEW c \in Outputs, OutputStep(c) \/ PutFails(c) \/ AppendRollsBack(c) PROVE BlobInv'
  <2>1. CASE PutPayload(c)
    BY Zenon, <2>1, OutputMoves DEF PutPayload, Stages
  <2>2. CASE PutMeta(c)
    <3>1. output[c].key \in payload \/ output[c].key \in Leftovers
      BY Zenon, <2>2 DEF PutMeta, Move, BlobInv
    <3> QED
      BY Zenon, <2>2, <3>1, OutputMoves DEF PutMeta, Stages
  <2>3. CASE PutFails(c)
    <3>1. PICK from \in {"new", "half"} : Move(c, from, "failed")
      BY Zenon, <2>3 DEF PutFails
    <3> QED
      BY Zenon, <2>3, <3>1, OutputMoves DEF PutFails, Stages
  <2>4. CASE AppendResult(c) \/ ResumeAfterRefusal(c) \/ AppendRollsBack(c)
    <3>1. output[c].at \in {"stored", "refused"}
      BY Zenon, <2>4 DEF AppendResult, ResumeAfterRefusal, AppendRollsBack, Move
    <3>2. output[c].key \in Leftovers \/ (output[c].key \in payload /\ output[c].key \in meta)
      BY Zenon, <3>1 DEF BlobInv
    <3>3. UNCHANGED <<payload, meta, rowAge, refs, sweep>>
      BY Zenon, <2>4 DEF AppendResult, ResumeAfterRefusal, AppendRollsBack
    <3>4. PICK from \in Stages, to \in Stages : Move(c, from, to)
      BY Zenon, <2>4 DEF AppendResult, ResumeAfterRefusal, AppendRollsBack, Stages
    <3> QED
      BY Zenon, <3>2, <3>3, <3>4, OutputMoves
  <2>5. CASE AppendWithBlob(c)
    BY Zenon, <2>5, RecordsBlob
  <2> QED
    BY <1>1, <2>1, <2>2, <2>3, <2>4, <2>5 DEF OutputStep
<1>2. CASE GraceEnds
  <2>1. /\ rowAge' \in [Keys -> {"none", "young", "old"}] /\ UNCHANGED <<payload, meta, refs, output, sweep>>
        /\ \A k \in Keys : rowAge'[k] = "none" <=> rowAge[k] = "none"
    BY Zenon, <1>2 DEF GraceEnds, BlobInv
  <2> QED
    BY Zenon, <2>1 DEF BlobInv, Get, Keys
<1>3. CASE SweepStep \/ SweepFails
  BY Zenon, <1>3, SweepsLeftovers
<1>4. CASE UNCHANGED blobVars
  BY Zenon, <1>4 DEF blobVars, BlobInv, Get
<1> QED
  BY Zenon, <1>1, <1>2, <1>3, <1>4 DEF BlobNext

\* An event's blob can be read, whatever the sweeper does, unless an old row that no
\* event refers to was for the same content.
THEOREM OthersStayReadable == BlobSpec => []OthersAreReadable
<1>1. BlobInv => OthersAreReadable
  BY Zenon DEF BlobInv, OthersAreReadable
<1> QED
  BY <1>1, BlobStart, BlobStep, PTL DEF BlobSpec

\* So what the log refers to is readable when no output repeats the content of a
\* leftover row.
THEOREM ReferencedStaysReadable ==
    ASSUME Contents \cap Leftovers = {}
    PROVE  BlobSpec => []ReferencedIsReadable
<1>1. BlobInv => ReferencedIsReadable
  BY Zenon DEF BlobInv, ReferencedIsReadable
<1> QED
  BY <1>1, BlobStart, BlobStep, PTL DEF BlobSpec

-----------------------------------------------------------------------------
(***************************************************************************)
(* Every sink of the SIEM export has the frames up to the saved position,  *)
(* for any number of rows and failures.                                    *)
(*                                                                         *)
(* The position is saved after the sinks were written, and a write may be  *)
(* repeated or cut short before it. SiemInv says what a sink has when the  *)
(* batch is on its way.                                                    *)
(***************************************************************************)

(* What the sinks of the exporter have. *)

\* s has every frame up to n.
Covers(s, n) == \A g \in 1..n : \E i \in DOMAIN s : s[i] = g
Broken(s) == \E i \in DOMAIN s : s[i] = 0

\* A frame comes after those before it in the feed.
InOrder(s) ==
    \A i \in DOMAIN s : s[i] > 0 /\ \A g \in 1..(s[i] - 1) : \E j \in 1..(i - 1) : s[j] = g

\* The file has line n, and what it has to have of it when it is open.
FileHas(n) == Covers(lines, n) \/ Broken(lines)

SiemTypes ==
    /\ fed \in Nat /\ saved \in Nat /\ saved <= fed /\ open \in BOOLEAN
    /\ lines \in Seq(Nat) /\ received \in Seq(Nat)
    /\ export \in [at : {"idle", "file", "http", "save"}, upto : Nat]
    /\ export # Idle => export.at # "idle" /\ saved < export.upto /\ export.upto <= fed
    /\ open => Len(lines) > 0 /\ lines[Len(lines)] = 0

SiemInv ==
    /\ SiemTypes
    /\ InOrder(received)
    /\ "http" \in Sinks => Covers(received, saved)
    /\ "http" \in Sinks /\ export.at = "save" => Covers(received, export.upto)
    /\ "file" \in Sinks => FileHas(saved)
    /\ "file" \in Sinks /\ export.at \in {"http", "save"} => FileHas(export.upto)

\* The frames of a batch.
LEMMA FrameTyped ==
    ASSUME NEW last \in Nat, saved \in Nat, saved < last
    PROVE  /\ frameOf(last) \in Seq(Nat) /\ Len(frameOf(last)) = last - saved
           /\ DOMAIN frameOf(last) = 1..(last - saved)
           /\ \A i \in 1..(last - saved) : frameOf(last)[i] = saved + i
BY DEF frameOf

\* Two sequences, one behind the other.
LEMMA Joined ==
    ASSUME NEW s \in Seq(Nat), NEW t \in Seq(Nat)
    PROVE  /\ s \o t \in Seq(Nat) /\ Len(s \o t) = Len(s) + Len(t) /\ DOMAIN (s \o t) = 1..(Len(s) + Len(t))
           /\ \A i \in 1..Len(s) : (s \o t)[i] = s[i]
           /\ \A i \in 1..Len(t) : (s \o t)[Len(s) + i] = t[i] /\ Len(s) + i \in 1..(Len(s) + Len(t))
           /\ DOMAIN s = 1..Len(s) /\ DOMAIN t = 1..Len(t) /\ Len(s) \in Nat /\ Len(t) \in Nat
OBVIOUS

\* The frames of a batch behind a sequence that covers what is before the batch.
LEMMA BatchCovers ==
    ASSUME NEW s \in Seq(Nat), NEW last \in Nat, saved \in Nat, saved < last
    PROVE  /\ Covers(s, saved) => Covers(s \o frameOf(last), last)
           /\ Broken(s) => Broken(s \o frameOf(last))
           /\ Covers(s, saved) /\ InOrder(s) => InOrder(s \o frameOf(last))
           /\ s \o frameOf(last) \in Seq(Nat)
           /\ \A n \in Nat : Covers(s, n) => Covers(s \o frameOf(last), n)
<1> DEFINE f == frameOf(last)
           t == s \o f
<1>1. /\ f \in Seq(Nat) /\ Len(f) = last - saved /\ \A i \in 1..(last - saved) : f[i] = saved + i
  BY Zenon, FrameTyped
<1> HIDE DEF f
<1>0. /\ t \in Seq(Nat) /\ DOMAIN t = 1..(Len(s) + Len(f)) /\ DOMAIN s = 1..Len(s) /\ Len(s) \in Nat
      /\ \A i \in 1..Len(s) : t[i] = s[i]
      /\ \A i \in 1..Len(f) : t[Len(s) + i] = f[i] /\ Len(s) + i \in 1..(Len(s) + Len(f))
  BY <1>1, Joined, Zenon
<1> HIDE DEF t
<1>2. /\ t \in Seq(Nat) /\ DOMAIN t = 1..(Len(s) + (last - saved)) /\ DOMAIN s = 1..Len(s) /\ Len(s) \in Nat
      /\ \A i \in 1..Len(s) : t[i] = s[i]
      /\ \A i \in 1..(last - saved) : t[Len(s) + i] = saved + i /\ Len(s) + i \in DOMAIN t
  BY Zenon, <1>0, <1>1
<1>3. \A i \in DOMAIN s : i \in DOMAIN t /\ t[i] = s[i]
  BY <1>2
<1>4. \A n \in Nat : Covers(s, n) => Covers(t, n)
  BY Zenon, <1>3 DEF Covers
<1>5. Broken(s) => Broken(t)
  BY Zenon, <1>3 DEF Broken
<1>6. ASSUME Covers(s, saved), NEW g \in 1..last PROVE \E i \in DOMAIN t : t[i] = g
  <2>1. CASE g \in 1..saved
    BY Zenon, <1>3, <1>6, <2>1 DEF Covers
  <2>2. CASE g \notin 1..saved
    <3>1. g - saved \in 1..(last - saved) /\ saved + (g - saved) = g
      BY <2>2
    <3> QED
      BY Zenon, <1>2, <3>1
  <2> QED
    BY Zenon, <2>1, <2>2
<1>7. ASSUME Covers(s, saved), InOrder(s), NEW i \in DOMAIN t
      PROVE  t[i] > 0 /\ \A g \in 1..(t[i] - 1) : \E j \in 1..(i - 1) : t[j] = g
  <2>1. CASE i \in DOMAIN s
    <3>1. \A j \in 1..(i - 1) : j \in DOMAIN s
      BY <1>2, <2>1
    <3> QED
      BY <1>3, <1>7, <2>1, <3>1 DEF InOrder
  <2>2. CASE i \notin DOMAIN s
    <3>1. PICK k \in 1..(last - saved) : i = Len(s) + k
      <4>1. i - Len(s) \in 1..(last - saved) /\ i = Len(s) + (i - Len(s))
        BY <1>2, <2>2
      <4> QED
        BY Zenon, <4>1
    <3>2. t[i] = saved + k
      BY Zenon, <1>2, <3>1
    <3>3. ASSUME NEW g \in 1..(saved + k - 1) PROVE \E j \in 1..(i - 1) : t[j] = g
      <4>1. CASE g \in 1..saved
        <5>1. PICK j \in DOMAIN s : s[j] = g
          BY Zenon, <1>7, <4>1 DEF Covers
        <5> QED
          BY <1>2, <1>3, <3>1, <5>1
      <4>2. CASE g \notin 1..saved
        <5>1. g - saved \in 1..(k - 1) /\ saved + (g - saved) = g
          BY <3>3, <4>2
        <5>2. Len(s) + (g - saved) \in 1..(i - 1) /\ g - saved \in 1..(last - saved)
          BY <1>2, <3>1, <5>1
        <5>3. t[Len(s) + (g - saved)] = g
          BY Zenon, <1>2, <5>1, <5>2
        <5> QED
          BY Zenon, <5>2, <5>3
      <4> QED
        BY Zenon, <4>1, <4>2
    <3> QED
      BY <3>2, <3>3
  <2> QED
    BY Zenon, <2>1, <2>2
<1>8. Covers(s, saved) => Covers(t, last)
  BY Zenon, <1>6 DEF Covers
<1>9. Covers(s, saved) /\ InOrder(s) => InOrder(t)
  BY Zenon, <1>7 DEF InOrder
<1> QED
  BY <1>2, <1>4, <1>5, <1>8, <1>9 DEF f, t

\* A file that was open is broken, and stays so.
LEMMA OpenIsBroken ==
    ASSUME SiemTypes, NEW f \in Seq(Nat), Len(f) > 0
    PROVE  /\ Appended(f) \in Seq(Nat) /\ Len(Appended(f)) > 0
           /\ open => Broken(lines) /\ Broken(Appended(f))
           /\ ~ open => Appended(f) = lines \o f
<1>1. CASE open
  <2>1. /\ lines \in Seq(Nat) /\ Len(lines) > 0 /\ lines[Len(lines)] = 0
        /\ Appended(f) = lines \o Tail(f)
    BY Zenon, <1>1 DEF SiemTypes, Appended
  <2>2. Tail(f) \in Seq(Nat) /\ Len(lines) \in Nat
    BY <2>1
  <2>3. /\ Appended(f) \in Seq(Nat) /\ DOMAIN Appended(f) = 1..(Len(lines) + Len(Tail(f))) /\ Len(Tail(f)) \in Nat
        /\ (\A i \in 1..Len(lines) : Appended(f)[i] = lines[i]) /\ Len(Appended(f)) = Len(lines) + Len(Tail(f))
    <3>1. PICK g : g = Tail(f)
      BY Zenon
    <3>2. Appended(f) = lines \o g /\ g \in Seq(Nat) /\ lines \in Seq(Nat)
      BY <2>1, <2>2, <3>1, Zenon
    <3>3. /\ lines \o g \in Seq(Nat) /\ DOMAIN (lines \o g) = 1..(Len(lines) + Len(g)) /\ Len(g) \in Nat
          /\ (\A i \in 1..Len(lines) : (lines \o g)[i] = lines[i]) /\ Len(lines \o g) = Len(lines) + Len(g)
      BY <3>2, Joined, Zenon
    <3> QED
      BY <3>1, <3>2, <3>3, Zenon
  <2>4. Len(lines) \in 1..Len(lines) /\ Len(lines) \in 1..(Len(lines) + Len(Tail(f))) /\ Len(lines) + Len(Tail(f)) > 0
    BY <2>1, <2>2, <2>3
  <2>5. Broken(Appended(f)) /\ Broken(lines)
    <3>1. lines[Len(lines)] = 0 /\ DOMAIN lines = 1..Len(lines)
      BY <2>1
    <3> QED
      BY <2>1, <2>3, <2>4, <3>1, Zenon DEF Broken
  <2> QED
    BY Zenon, <1>1, <2>3, <2>4, <2>5
<1>2. CASE ~ open
  <2>1. Appended(f) = lines \o f /\ lines \in Seq(Nat)
    BY Zenon, <1>2 DEF Appended, SiemTypes
  <2> QED
    BY <1>2, <2>1, Joined
<1> QED
  BY Zenon, <1>1, <1>2 DEF SiemTypes

\* No sink has anything.
LEMMA SiemStart == SiemInit => SiemInv
<1> SUFFICES ASSUME SiemInit PROVE SiemInv
  OBVIOUS
<1>1. SiemTypes
  <2>1. lines \in Seq(Nat) /\ received \in Seq(Nat)
    BY DEF SiemInit
  <2>2. export \in [at : {"idle", "file", "http", "save"}, upto : Nat] /\ export = Idle
    BY Zenon DEF SiemInit, Idle
  <2>3. fed = 0 /\ saved = 0
    BY Zenon DEF SiemInit
  <2>4. fed \in Nat /\ saved \in Nat /\ saved <= fed
    BY <2>3
  <2>5. open \in BOOLEAN /\ ~ open
    BY Zenon DEF SiemInit
  <2> QED
    BY <2>1, <2>2, <2>4, <2>5, Zenon DEF SiemTypes
<1>2. InOrder(received) /\ Covers(received, saved) /\ Covers(lines, saved)
  BY DEF SiemInit, InOrder, Covers
<1>3. export.at = "idle"
  BY Zenon DEF SiemInit, Idle
<1> QED
  BY Zenon, <1>1, <1>2, <1>3 DEF SiemInv, FileHas

\* The body is written to the file.
LEMMA WritesFile == ASSUME SiemInv, WriteFile PROVE SiemInv'
<1>1. /\ export.at = "file" /\ export # Idle /\ saved \in Nat /\ export.upto \in Nat /\ saved < export.upto
      /\ export' = [export EXCEPT !.at = "http"] /\ UNCHANGED <<fed, saved, received>>
  BY DEF WriteFile, SiemInv, SiemTypes, Idle
<1>2. export'.at = "http" /\ export'.upto = export.upto
      /\ export' \in [at : {"idle", "file", "http", "save"}, upto : Nat]
  BY Zenon, <1>1 DEF SiemInv, SiemTypes
<1>3. CASE "file" \notin Sinks
  BY Zenon, <1>1, <1>2, <1>3 DEF WriteFile, SiemInv, SiemTypes, Idle
<1>4. CASE "file" \in Sinks
  <2> DEFINE f == frameOf(export.upto)
  <2>1. lines' = Appended(f) /\ open' = FALSE
    BY Zenon, <1>4 DEF WriteFile
  <2>2. f \in Seq(Nat) /\ Len(f) > 0
    BY <1>1, FrameTyped
  <2>3. /\ Appended(f) \in Seq(Nat) /\ (open => Broken(lines) /\ Broken(Appended(f))) /\ (~ open => Appended(f) = lines \o f)
    BY Zenon, <2>2, OpenIsBroken DEF SiemInv
  <2>4. FileHas(saved) /\ lines \in Seq(Nat) /\ open \in BOOLEAN
    BY Zenon, <1>4 DEF SiemInv, SiemTypes
  <2>5. (Covers(lines, saved) => Covers(lines \o f, export.upto) /\ Covers(lines \o f, saved)) /\ (Broken(lines) => Broken(lines \o f))
    BY Zenon, <1>1, <2>4, BatchCovers
  <2> HIDE DEF f
  <2>6. FileHas(saved)' /\ FileHas(export.upto)'
    BY Zenon, <1>1, <1>2, <2>1, <2>3, <2>4, <2>5 DEF FileHas
  <2>7. SiemTypes'
    BY Zenon, <1>1, <1>2, <2>1, <2>3 DEF SiemInv, SiemTypes, Idle
  <2> QED
    BY Zenon, <1>1, <1>2, <2>6, <2>7 DEF SiemInv
<1> QED
  BY Zenon, <1>3, <1>4

\* The write fails part way: what was in the file stays in it.
LEMMA FailsToWrite == ASSUME SiemInv, WriteFails PROVE SiemInv'
<1>1. /\ export.at = "file" /\ export # Idle /\ saved \in Nat /\ export.upto \in Nat /\ saved < export.upto
      /\ "file" \in Sinks /\ export' = Idle /\ UNCHANGED <<fed, saved, received>>
  BY DEF WriteFails, SiemInv, SiemTypes, Idle
<1> DEFINE f == frameOf(export.upto)
<1>2. PICK n \in 0..(export.upto - saved - 1), torn \in BOOLEAN :
        LET kept == IF n = 0 THEN lines ELSE Appended(SubSeq(f, 1, n))
        IN IF torn THEN lines' = (IF n = 0 /\ open THEN lines ELSE Append(kept, 0)) /\ open' = TRUE
           ELSE lines' = kept /\ open' = (open /\ n = 0)
  BY Zenon DEF WriteFails
<1> DEFINE whole == SubSeq(f, 1, n)
           kept == IF n = 0 THEN lines ELSE Appended(whole)
<1>3. lines \in Seq(Nat) /\ open \in BOOLEAN /\ (open => Len(lines) > 0 /\ lines[Len(lines)] = 0) /\ FileHas(saved)
  BY Zenon, <1>1 DEF SiemInv, SiemTypes
<1>4. n # 0 => whole \in Seq(Nat) /\ Len(whole) > 0
  <2>1. f \in Seq(Nat) /\ Len(f) = export.upto - saved
    BY Zenon, <1>1, FrameTyped
  <2> HIDE DEF f
  <2> QED
    BY SMTT(30), <1>1, <2>1
<1> HIDE DEF f, whole
<1>5. kept \in Seq(Nat) /\ (n # 0 /\ open => Broken(kept)) /\ (n # 0 /\ ~ open => kept = lines \o whole)
  BY Zenon, <1>3, <1>4, OpenIsBroken DEF SiemInv
<1>6. Covers(kept, saved) \/ Broken(kept)
  <2>1. CASE n = 0 \/ open
    BY Zenon, <1>3, <1>5, <2>1 DEF FileHas
  <2>2. CASE n # 0 /\ ~ open
    <3>1. kept = lines \o whole /\ whole \in Seq(Nat)
      BY Zenon, <1>4, <1>5, <2>2
    <3>2. \A i \in DOMAIN lines : i \in DOMAIN kept /\ kept[i] = lines[i]
      <4>1. /\ DOMAIN (lines \o whole) = 1..(Len(lines) + Len(whole)) /\ DOMAIN lines = 1..Len(lines)
            /\ Len(lines) \in Nat /\ Len(whole) \in Nat /\ \A i \in 1..Len(lines) : (lines \o whole)[i] = lines[i]
        BY <1>3, <3>1, Joined, Zenon
      <4> HIDE DEF kept
      <4> QED
        BY <3>1, <4>1
    <3> HIDE DEF kept
    <3> QED
      BY Zenon, <1>3, <3>2 DEF FileHas, Covers, Broken
  <2> QED
    BY Zenon, <2>1, <2>2
<1>7. lines' = (IF torn THEN (IF n = 0 /\ open THEN lines ELSE Append(kept, 0)) ELSE kept)
      /\ open' = (IF torn THEN TRUE ELSE open /\ n = 0) /\ (n = 0 => kept = lines)
  BY Zenon, <1>2 DEF whole
<1> HIDE DEF kept
<1>8. /\ Append(kept, 0) \in Seq(Nat) /\ Len(Append(kept, 0)) > 0 /\ Append(kept, 0)[Len(Append(kept, 0))] = 0
      /\ Len(Append(kept, 0)) \in DOMAIN Append(kept, 0)
  BY <1>5
<1>9. Broken(Append(kept, 0))
  BY Zenon, <1>8 DEF Broken
<1>10. lines' \in Seq(Nat) /\ open' \in BOOLEAN /\ (open' => Len(lines') > 0 /\ lines'[Len(lines')] = 0)
  BY Zenon, <1>3, <1>5, <1>7, <1>8
<1>11. FileHas(saved)'
  BY Zenon, <1>1, <1>3, <1>6, <1>7, <1>9 DEF FileHas
<1>12. SiemTypes'
  BY Zenon, <1>1, <1>10 DEF SiemInv, SiemTypes, Idle
<1> QED
  BY Zenon, <1>1, <1>11, <1>12 DEF SiemInv, Idle

\* The body is posted, and the answer comes or is lost.
LEMMA Posts == ASSUME SiemInv, PostHTTP \/ PostFails PROVE SiemInv'
<1>1. /\ export.at = "http" /\ export # Idle /\ saved \in Nat /\ export.upto \in Nat /\ saved < export.upto
      /\ received \in Seq(Nat) /\ UNCHANGED <<fed, saved, lines, open>>
  BY DEF PostHTTP, PostFails, SiemInv, SiemTypes, Idle
<1> DEFINE f == frameOf(export.upto)
<1>2. /\ received \o f \in Seq(Nat)
      /\ Covers(received, saved) => Covers(received \o f, export.upto) /\ Covers(received \o f, saved)
      /\ Covers(received, saved) /\ InOrder(received) => InOrder(received \o f)
  BY Zenon, <1>1, BatchCovers
<1> HIDE DEF f
<1>3. CASE PostHTTP
  <2>1. export' = [export EXCEPT !.at = "save"] /\ received' = (IF "http" \in Sinks THEN received \o f ELSE received)
    BY Zenon, <1>3 DEF PostHTTP, f
  <2>2. export'.at = "save" /\ export'.upto = export.upto
        /\ export' \in [at : {"idle", "file", "http", "save"}, upto : Nat]
    BY Zenon, <1>1, <2>1 DEF SiemInv, SiemTypes
  <2>3. SiemTypes'
    BY Zenon, <1>1, <1>2, <2>1, <2>2 DEF SiemInv, SiemTypes, Idle
  <2>4. InOrder(received)' /\ ("http" \in Sinks => Covers(received, saved)' /\ Covers(received', export.upto))
    BY Zenon, <1>1, <1>2, <2>1 DEF SiemInv
  <2>5. "file" \in Sinks => FileHas(saved)' /\ FileHas(export.upto)'
    BY Zenon, <1>1, <2>2 DEF SiemInv, FileHas
  <2> QED
    BY Zenon, <2>2, <2>3, <2>4, <2>5 DEF SiemInv
<1>4. CASE PostFails
  <2>1. export' = Idle /\ "http" \in Sinks /\ (received' = received \o f \/ received' = received)
    BY Zenon, <1>4 DEF PostFails, f
  <2>2. SiemTypes'
    BY Zenon, <1>1, <1>2, <2>1 DEF SiemInv, SiemTypes, Idle
  <2>3. InOrder(received)' /\ Covers(received, saved)'
    BY Zenon, <1>1, <1>2, <2>1 DEF SiemInv
  <2>4. "file" \in Sinks => FileHas(saved)'
    BY Zenon, <1>1 DEF SiemInv, FileHas
  <2> QED
    BY Zenon, <2>1, <2>2, <2>3, <2>4 DEF SiemInv, Idle
<1> QED
  BY Zenon, <1>3, <1>4

\* Every step keeps the invariant.
LEMMA SiemKeeps == SiemInv /\ [SiemNext]_siemVars => SiemInv'
<1> SUFFICES ASSUME SiemInv, [SiemNext]_siemVars PROVE SiemInv'
  OBVIOUS
<1>1. CASE RowArrives
  BY <1>1 DEF RowArrives, SiemInv, SiemTypes, FileHas
<1>2. CASE ProjectBatch
  <2>1. /\ export' = [at |-> "file", upto |-> IF fed - saved > SiemBatch THEN saved + SiemBatch ELSE fed]
        /\ saved < fed /\ UNCHANGED <<fed, saved, lines, open, received>>
    BY Zenon, <1>2 DEF ProjectBatch
  <2>2. export'.at = "file" /\ export'.upto \in Nat /\ saved < export'.upto /\ export'.upto <= fed
        /\ export' \in [at : {"idle", "file", "http", "save"}, upto : Nat]
    BY <2>1, SiemAssumption DEF SiemInv, SiemTypes
  <2> QED
    BY Zenon, <2>1, <2>2 DEF SiemInv, SiemTypes, FileHas
<1>3. CASE WriteFile
  BY Zenon, <1>3, WritesFile
<1>4. CASE WriteFails
  BY <1>4, FailsToWrite
<1>5. CASE PostHTTP \/ PostFails
  BY Zenon, <1>5, Posts
<1>6. CASE SaveSiemCursor
  <2>1. /\ export.at = "save" /\ saved' = export.upto /\ export' = Idle /\ UNCHANGED <<fed, lines, open, received>>
    BY Zenon, <1>6 DEF SaveSiemCursor
  <2>2. export # Idle
    BY <2>1 DEF Idle
  <2> QED
    BY Zenon, <2>1, <2>2 DEF SiemInv, SiemTypes, FileHas, Idle
<1>7. CASE SiemRestarts
  BY Zenon, <1>7 DEF SiemRestarts, SiemInv, SiemTypes, FileHas, Idle
<1>8. CASE UNCHANGED siemVars
  BY Zenon, <1>8 DEF siemVars, SiemInv, SiemTypes, FileHas
<1> QED
  BY <1>1, <1>2, <1>3, <1>4, <1>5, <1>6, <1>7, <1>8 DEF SiemNext, SiemStep

\* A SIEM that dedups has the feed up to the cursor, for any batch size and any number
\* of rows and failures.
THEOREM SinksAlwaysKeepUp == SiemSpec => []SinksKeepUp
<1>1. SiemInv => SinksKeepUp
  <2> SUFFICES ASSUME SiemInv PROVE SinksKeepUp
    BY Zenon
  <2>1. "http" \in Sinks => 1..saved \subseteq Range(received)
    BY Zenon DEF SiemInv, Covers, Range
  <2>2. "file" \in Sinks => 1..saved \subseteq Range(lines) \/ 0 \in Range(lines)
    BY Zenon DEF SiemInv, FileHas, Covers, Broken, Range
  <2> QED
    BY Zenon, <2>1, <2>2 DEF SiemInv, InOrder, SinksKeepUp
<1> QED
  BY <1>1, SiemStart, SiemKeeps, PTL DEF SiemSpec

-----------------------------------------------------------------------------
(***************************************************************************)
(* NothingSkipped holds of Runner for every number of workers, rows,       *)
(* transactions, batch size and faults.                                    *)
(*                                                                         *)
(* The argument: a cursor that is or will be saved lies below the settled  *)
(* frontier, and what is below the frontier does not change any more.  So  *)
(* a set of rows that was complete up to such a cursor stays complete, and *)
(* a batch, once fetched, keeps having no gap after the cursor it was      *)
(* fetched from.                                                           *)
(***************************************************************************)

\* Every committed row up to cursor c is in the projection.
Held(c) == \A g \in DOMAIN rows : Visible(g) /\ ~ Less(c, At(g)) => g \in delivered

\* B holds settled rows only, and every committed row after c up to each of them.
NoGap(c, B) ==
    /\ B \subseteq DOMAIN rows
    /\ \A g \in B : Settled(rows[g])
    /\ \A g \in B, h \in DOMAIN rows :
          Visible(h) /\ Less(c, At(h)) /\ ~ Less(At(g), At(h)) => h \in B

FeedType == tx \in [1..MaxTx -> TxStates] /\ rows \in Seq(1..MaxTx) /\ Len(rows) <= MaxEvents

WorkerType ==
    /\ cursor \in Cursors
    /\ pc \in [Workers -> PCs]
    /\ mem \in [Workers -> Cursors]
    /\ batch \in [Workers -> SUBSET Gids]

WorkerInv(w) ==
    /\ Settled(mem[w].txn)
    /\ Held(mem[w])
    /\ NoGap(mem[w], batch[w])
    /\ pc[w] = "down" => batch[w] = {}
    /\ pc[w] = "save" => batch[w] \subseteq delivered

IInv ==
    /\ FeedType
    /\ WorkerType
    /\ Settled(cursor.txn)
    /\ Held(cursor)
    /\ \A w \in Workers : WorkerInv(w)

-----------------------------------------------------------------------------
(* The order of the feed. *)

\* A row has a place in the order.
LEMMA AtType ==
    ASSUME FeedType, NEW g \in DOMAIN rows
    PROVE  g \in 1..MaxEvents /\ rows[g] \in 1..MaxTx /\ At(g) \in Cursors
           /\ At(g).txn = rows[g] /\ At(g).gid = g
BY FeedAssumption DEF FeedType, At, Cursors

(* Two rows of the feed are never at the same place. *)
LEMMA LessTotal ==
    ASSUME FeedType, NEW g \in DOMAIN rows, NEW h \in DOMAIN rows, g # h
    PROVE  Less(At(g), At(h)) \/ Less(At(h), At(g))
BY AtType, FeedAssumption DEF Less

\* What is settled is settled with everything below.
LEMMA SettledBelow ==
    ASSUME NEW x \in 0..MaxTx, NEW y \in 0..MaxTx, y <= x, Settled(x)
    PROVE  Settled(y)
BY FeedAssumption DEF Settled

-----------------------------------------------------------------------------
(* A step of the feed. *)

\* A step of transaction x.
TxStep(x) == BeginTx(x) \/ InsertEvent(x) \/ CommitTx(x) \/ AbortTx(x)

(* A step of a transaction keeps the rows there are, does not touch settled *)
(* transactions, and makes rows of a transaction visible only if it was     *)
(* running.                                                                 *)
LEMMA TxStepFrame ==
    ASSUME FeedType, NEW x \in 1..MaxTx, TxStep(x)
    PROVE  /\ FeedType'
           /\ DOMAIN rows \subseteq DOMAIN rows'
           /\ \A g \in DOMAIN rows : rows'[g] = rows[g]
           /\ \A g \in DOMAIN rows' : g \in DOMAIN rows \/ (rows'[g] = x /\ tx' = tx /\ tx[x] = "running")
           /\ \A y \in 1..MaxTx : y # x => tx'[y] = tx[y]
           /\ tx[x] \in {"future", "running"}
           /\ tx'[x] \in TxStates
PROOF
  <1>1. CASE BeginTx(x) BY Zenon, <1>1 DEF BeginTx, FeedType, TxStates
  <1>2. CASE InsertEvent(x)
    <2>1. /\ rows' \in Seq(1..MaxTx) /\ Len(rows') = Len(rows) + 1
          /\ \A g \in 1..Len(rows) : rows'[g] = rows[g]
          /\ rows'[Len(rows) + 1] = x
      BY <1>2 DEF InsertEvent, FeedType
    <2>2. DOMAIN rows = 1..Len(rows) /\ DOMAIN rows' = 1..(Len(rows) + 1) /\ Len(rows) \in Nat
      BY <2>1 DEF FeedType
    <2> QED BY <1>2, <2>1, <2>2, FeedAssumption DEF InsertEvent, FeedType, TxStates
  <1>3. CASE CommitTx(x) BY Zenon, <1>3 DEF CommitTx, EndTx, FeedType, TxStates
  <1>4. CASE AbortTx(x) BY Zenon, <1>4 DEF AbortTx, EndTx, FeedType, TxStates
  <1> QED BY Zenon, <1>1, <1>2, <1>3, <1>4 DEF TxStep

(* What is settled stays settled. *)
LEMMA TxStepSettled ==
    ASSUME FeedType, NEW x \in 1..MaxTx, TxStep(x), NEW y \in 0..MaxTx, Settled(y)
    PROVE  Settled(y)' /\ y < x
PROOF
  <1>1. y < x BY TxStepFrame, FeedAssumption DEF Settled
  <1>2. \A z \in 1..y : tx'[z] = tx[z] BY <1>1, TxStepFrame, FeedAssumption
  <1> QED BY Zenon, <1>1, <1>2 DEF Settled

(* A row that becomes visible belongs to the transaction that took the step. *)
LEMMA TxStepVisible ==
    ASSUME FeedType, NEW x \in 1..MaxTx, TxStep(x), NEW g \in DOMAIN rows', Visible(g)'
    PROVE  g \in DOMAIN rows /\ At(g)' = At(g) /\ (Visible(g) \/ rows[g] = x)
PROOF
  <1>1. g \in DOMAIN rows BY Zenon, TxStepFrame DEF Visible
  <1> QED BY <1>1, TxStepFrame, AtType DEF Visible, At

(* A projection that is complete up to a settled cursor stays so. *)
LEMMA TxStepHeld ==
    ASSUME FeedType, NEW x \in 1..MaxTx, TxStep(x), UNCHANGED delivered,
           NEW c \in Cursors, Settled(c.txn), Held(c)
    PROVE  Settled(c.txn)' /\ Held(c)'
PROOF
  <1>1. Settled(c.txn)' /\ c.txn < x BY Zenon, TxStepSettled DEF Cursors
  <1>2. ASSUME NEW g \in DOMAIN rows', Visible(g)', ~ Less(c, At(g)')
        PROVE  g \in delivered'
    <2>1. g \in DOMAIN rows /\ At(g)' = At(g) /\ (Visible(g) \/ rows[g] = x)
      BY Zenon, <1>2, TxStepVisible
    <2>2. rows[g] = x => Less(c, At(g)) BY Zenon, <1>1, <2>1, AtType DEF Less
    <2> QED BY Zenon, <1>2, <2>1, <2>2 DEF Held
  <1>3. Held(c)' BY Zenon, <1>2 DEF Held, Less
  <1> QED BY Zenon, <1>1, <1>3

(* A batch without a gap stays one. *)
LEMMA TxStepNoGap ==
    ASSUME FeedType, NEW x \in 1..MaxTx, TxStep(x), NEW c \in Cursors, NEW B, NoGap(c, B)
    PROVE  NoGap(c, B)'
PROOF
  <1>1. \A g \in B : /\ g \in DOMAIN rows /\ g \in DOMAIN rows'
                     /\ rows'[g] = rows[g] /\ At(g)' = At(g) /\ rows[g] \in 1..MaxTx
    BY Zenon, TxStepFrame, AtType DEF NoGap, At
  <1>2. \A g \in B : Settled(rows[g])' /\ rows[g] < x
    BY <1>1, TxStepSettled, FeedAssumption, TxStepFrame DEF NoGap, Settled
  <1>3. ASSUME NEW g \in B, NEW h \in DOMAIN rows', Visible(h)', Less(c, At(h)'), ~ Less(At(g)', At(h)')
        PROVE  h \in B
    <2>1. h \in DOMAIN rows /\ At(h)' = At(h) /\ (Visible(h) \/ rows[h] = x)
      BY Zenon, <1>3, TxStepVisible
    <2>2. rows[h] = x => Less(At(g), At(h)) BY SMTT(30), <1>1, <1>2, <2>1, AtType DEF Less
    <2> QED BY Zenon, <1>1, <1>3, <2>1, <2>2 DEF NoGap
  <1> QED BY Zenon, <1>1, <1>2, <1>3 DEF NoGap, Less

-----------------------------------------------------------------------------
(* The steps of a worker. *)

\* A step of a worker changes no row.
LEMMA RowsFrame ==
    ASSUME UNCHANGED feedVars
    PROVE  /\ FeedType => FeedType'
           /\ \A y : Settled(y)' = Settled(y)
           /\ \A c, B : NoGap(c, B)' = NoGap(c, B)
           /\ \A c : Held(c) /\ delivered \subseteq delivered' => Held(c)'
BY DEF feedVars, FeedType, Settled, NoGap, Held, Visible, At, Less

(* The batch that Fetch takes has no gap after the cursor. *)
LEMMA FetchNoGap ==
    ASSUME FeedType, NEW c \in Cursors, NEW B \in SUBSET Ready(c), IsBatch(B, c)
    PROVE  NoGap(c, B)
PROOF
  <1>1. \A g \in B : g \in DOMAIN rows /\ Settled(rows[g]) /\ rows[g] \in 1..MaxTx
    BY Zenon, AtType DEF Ready
  <1>2. ASSUME NEW g \in B, NEW h \in DOMAIN rows,
               Visible(h), Less(c, At(h)), ~ Less(At(g), At(h)), h # g
        PROVE  h \in B
    <2>1. Less(At(h), At(g)) BY Zenon, <1>1, <1>2, LessTotal
    <2>2. rows[h] \in 1..MaxTx /\ rows[h] <= rows[g] BY <1>1, <2>1, AtType DEF Less
    <2>3. Settled(rows[h]) BY <1>1, <2>2, SettledBelow, FeedAssumption
    <2>4. h \in Ready(c) BY Zenon, <1>2, <2>3 DEF Ready
    <2> QED BY Zenon, <2>1, <2>4 DEF IsBatch
  <1> QED BY Zenon, <1>1, <1>2 DEF NoGap

(* Saving the cursor of a batch that is in the projection skips nothing. *)
LEMMA AdvanceHeld ==
    ASSUME FeedType, NEW c \in Cursors, Held(c), NEW B, NoGap(c, B), B \subseteq delivered,
           NEW g \in B
    PROVE  At(g) \in Cursors /\ Settled(At(g).txn) /\ Held(At(g))
PROOF
  <1>1. g \in DOMAIN rows /\ Settled(rows[g]) BY Zenon DEF NoGap
  <1>2. At(g) \in Cursors /\ At(g).txn = rows[g] BY Zenon, <1>1, AtType
  <1>3. Held(At(g)) BY Zenon DEF Held, NoGap
  <1> QED BY Zenon, <1>1, <1>2, <1>3

(* When the cursor is at a row of the batch, no row of the batch and up to  *)
(* it is missing: nothing is between the two.                               *)
LEMMA AdvanceNoGap ==
    ASSUME FeedType, NEW c, NEW B, NoGap(c, B), NEW g \in B, Advance(B, g)
    PROVE  NoGap(At(g), B)
PROOF
  <1>1. ASSUME NEW k \in B, NEW h \in DOMAIN rows, Less(At(g), At(h)), ~ Less(At(k), At(h))
        PROVE  FALSE
    <2>1. g \in DOMAIN rows /\ k \in DOMAIN rows BY Zenon, <1>1 DEF NoGap
    <2>2. ~ Less(At(g), At(k)) BY Zenon, <1>1 DEF Advance
    <2> QED BY <1>1, <2>1, <2>2, AtType DEF Less
  <1> QED BY Zenon, <1>1 DEF NoGap

\* An empty batch has no gap.
LEMMA NoGapEmpty == ASSUME NEW c PROVE NoGap(c, {})
BY Zenon DEF NoGap

\* The first cursor skips nothing.
LEMMA ZeroHeld ==
    ASSUME FeedType PROVE ZeroCursor \in Cursors /\ Settled(ZeroCursor.txn) /\ Held(ZeroCursor)
PROOF
  <1>1. ZeroCursor \in Cursors BY FeedAssumption DEF ZeroCursor, Cursors
  <1>2. Settled(ZeroCursor.txn) BY DEF ZeroCursor, Settled
  <1>3. Held(ZeroCursor) BY AtType DEF Held, ZeroCursor, Less
  <1> QED BY Zenon, <1>1, <1>2, <1>3

-----------------------------------------------------------------------------
(* The inductive invariant. *)

(* A worker that is left alone keeps its part, while the feed stands still  *)
(* and the projection grows.                                                *)
LEMMA WorkerFrame ==
    ASSUME UNCHANGED feedVars, delivered \subseteq delivered', NEW w \in Workers, WorkerInv(w),
           pc'[w] = pc[w], mem'[w] = mem[w], batch'[w] = batch[w]
    PROVE  WorkerInv(w)'
PROOF
  <1> PICK c, B : c = mem[w] /\ B = batch[w] BY Zenon
  <1>1. Settled(c.txn) /\ Held(c) /\ NoGap(c, B) BY Zenon DEF WorkerInv
  <1>2. (Settled(c.txn) /\ Held(c) /\ NoGap(c, B))' BY Zenon, <1>1, RowsFrame
  <1> QED BY Zenon, <1>2 DEF WorkerInv, Settled, Held, NoGap, Less

(* A worker at cursor c with batch B, put there by a step. *)
LEMMA WorkerSet ==
    ASSUME UNCHANGED feedVars, delivered \subseteq delivered', NEW w \in Workers,
           NEW c, NEW B, Settled(c.txn), Held(c), NoGap(c, B),
           mem'[w] = c, batch'[w] = B, pc'[w] = "down" => B = {}, pc'[w] = "save" => B \subseteq delivered'
    PROVE  WorkerInv(w)'
PROOF
  <1>1. (Settled(c.txn) /\ Held(c) /\ NoGap(c, B))' BY Zenon, RowsFrame
  <1> QED BY Zenon, <1>1 DEF WorkerInv, Settled, Held, NoGap, Less

(* The saved cursor is left alone. *)
LEMMA CursorFrame ==
    ASSUME UNCHANGED feedVars, delivered \subseteq delivered', Settled(cursor.txn), Held(cursor),
           cursor' = cursor
    PROVE  (Settled(cursor.txn) /\ Held(cursor))'
PROOF
  <1> PICK c : c = cursor BY Zenon
  <1>1. (Settled(c.txn) /\ Held(c))' BY Zenon, RowsFrame
  <1> QED BY Zenon, <1>1 DEF Settled, Held, Less

\* A cursor that holds may be saved.
LEMMA CursorSet ==
    ASSUME UNCHANGED feedVars, delivered \subseteq delivered',
           NEW c, Settled(c.txn), Held(c), cursor' = c
    PROVE  (Settled(cursor.txn) /\ Held(cursor))'
PROOF
  <1>1. (Settled(c.txn) /\ Held(c))' BY Zenon, RowsFrame
  <1> QED BY Zenon, <1>1 DEF Settled, Held, Less

\* The invariant holds before anything has happened.
LEMMA InitIInv == Init => IInv
PROOF
  <1> SUFFICES ASSUME Init PROVE IInv OBVIOUS
  <1> USE DEF Init, FeedInit, RunnerInit
  <1>1. FeedType BY FeedAssumption DEF FeedType, TxStates
  <1>2. ZeroCursor \in Cursors /\ Settled(ZeroCursor.txn) /\ Held(ZeroCursor) BY Zenon, <1>1, ZeroHeld
  <1>3. WorkerType BY Zenon, <1>2 DEF WorkerType, PCs
  <1>4. \A w \in Workers : WorkerInv(w) BY Zenon, <1>2, NoGapEmpty DEF WorkerInv
  <1> QED BY Zenon, <1>1, <1>2, <1>3, <1>4 DEF IInv

(* The feed. *)
LEMMA FeedIInv == IInv /\ FeedNext /\ UNCHANGED runnerVars => IInv'
PROOF
  <1> SUFFICES ASSUME IInv, NEW x \in 1..MaxTx, TxStep(x), UNCHANGED runnerVars PROVE IInv'
    BY Zenon DEF FeedNext, TxStep
  <1> USE DEF runnerVars, workerVars
  <1>1. FeedType /\ FeedType' BY Zenon, TxStepFrame DEF IInv
  <1>2. WorkerType' BY Zenon DEF IInv, WorkerType
  <1>3. (Settled(cursor.txn) /\ Held(cursor))'
    <2> PICK c : c = cursor BY Zenon
    <2>1. c \in Cursors /\ Settled(c.txn) /\ Held(c) BY Zenon DEF IInv, WorkerType
    <2>2. (Settled(c.txn) /\ Held(c))' BY Zenon, <1>1, <2>1, TxStepHeld
    <2> QED BY Zenon, <2>2 DEF Settled, Held, Less
  <1>4. ASSUME NEW w \in Workers PROVE WorkerInv(w)'
    <2> PICK c, B : c = mem[w] /\ B = batch[w] BY Zenon
    <2>1. c \in Cursors /\ Settled(c.txn) /\ Held(c) /\ NoGap(c, B) BY Zenon DEF IInv, WorkerType, WorkerInv
    <2>2. (Settled(c.txn) /\ Held(c))' BY Zenon, <1>1, <2>1, TxStepHeld
    <2>3. NoGap(c, B)' BY Zenon, <1>1, <2>1, TxStepNoGap
    <2>4. /\ pc'[w] = "down" => batch'[w] = {}
          /\ pc'[w] = "save" => batch'[w] \subseteq delivered'
      BY Zenon DEF IInv, WorkerInv
    <2> QED BY Zenon, <2>2, <2>3, <2>4 DEF WorkerInv, Settled, Held, NoGap, Less
  <1> QED BY Zenon, <1>1, <1>2, <1>3, <1>4 DEF IInv

(* A step of worker w that leaves the feed and the other workers alone: it  *)
(* is enough to look at the saved cursor and at the worker.                 *)
LEMMA OneWorker ==
    ASSUME IInv, NEW w \in Workers, UNCHANGED feedVars, delivered \subseteq delivered',
           WorkerType', WorkerInv(w)', (Settled(cursor.txn) /\ Held(cursor))',
           \A v \in Workers \ {w} : pc'[v] = pc[v] /\ mem'[v] = mem[v] /\ batch'[v] = batch[v]
    PROVE  IInv'
PROOF
  <1>1. FeedType' BY Zenon, RowsFrame DEF IInv
  <1>2. \A v \in Workers : WorkerInv(v)' BY Zenon, WorkerFrame DEF IInv
  <1> QED BY Zenon, <1>1, <1>2 DEF IInv

\* A worker starts from the saved cursor.
LEMMA StartIInv == ASSUME IInv, NEW w \in Workers, Start(w) PROVE IInv'
PROOF
  <1> USE DEF Start
  <1> PICK c : c = cursor BY Zenon
  <1>1. Settled(c.txn) /\ Held(c) /\ batch[w] = {} BY Zenon DEF IInv, WorkerInv
  <1>2. WorkerType' BY Zenon DEF IInv, WorkerType, PCs
  <1>3. mem'[w] = c /\ batch'[w] = {} /\ pc'[w] = "poll" BY Zenon, <1>1 DEF IInv, WorkerType
  <1>4. WorkerInv(w)' BY Zenon, <1>1, <1>3, NoGapEmpty, WorkerSet
  <1>5. (Settled(cursor.txn) /\ Held(cursor))' BY Zenon, <1>1, CursorSet
  <1> QED BY Zenon, <1>2, <1>4, <1>5, OneWorker DEF IInv, WorkerType

\* A batch is read without a gap.
LEMMA FetchIInv == ASSUME IInv, NEW w \in Workers, Fetch(w) PROVE IInv'
PROOF
  <1> USE DEF Fetch
  <1> PICK B \in SUBSET Ready(mem[w]) : IsBatch(B, mem[w]) /\ batch' = [batch EXCEPT ![w] = B] BY Zenon
  <1> PICK c : c = mem[w] BY Zenon
  <1>1. Settled(c.txn) /\ Held(c) /\ c \in Cursors /\ FeedType BY Zenon DEF IInv, WorkerInv, WorkerType
  <1>2. NoGap(c, B) BY Zenon, <1>1, FetchNoGap
  <1>3. B \subseteq Gids BY Zenon, <1>1, AtType DEF Ready, Gids
  <1>4. WorkerType' BY Zenon, <1>3 DEF IInv, WorkerType, PCs
  <1>5. mem'[w] = c /\ batch'[w] = B /\ pc'[w] = "project" BY Zenon DEF IInv, WorkerType
  <1>6. WorkerInv(w)' BY Zenon, <1>1, <1>2, <1>5, WorkerSet
  <1>7. (Settled(cursor.txn) /\ Held(cursor))' BY Zenon, CursorFrame DEF IInv
  <1> QED BY Zenon, <1>4, <1>6, <1>7, OneWorker DEF IInv, WorkerType

\* Delivering a batch fills the gap up to its last row.
LEMMA ProjectIInv == ASSUME IInv, NEW w \in Workers, Project(w) PROVE IInv'
PROOF
  <1> USE DEF Project
  <1> PICK c, B : c = mem[w] /\ B = batch[w] BY Zenon
  <1>1. Settled(c.txn) /\ Held(c) /\ NoGap(c, B) BY Zenon DEF IInv, WorkerInv
  <1>2. WorkerType' BY Zenon DEF IInv, WorkerType, PCs
  <1>3. mem'[w] = c /\ batch'[w] = B /\ pc'[w] = "save" BY Zenon DEF IInv, WorkerType
  <1>4. WorkerInv(w)' BY Zenon, <1>1, <1>3, WorkerSet
  <1>5. (Settled(cursor.txn) /\ Held(cursor))' BY Zenon, CursorFrame DEF IInv
  <1> QED BY Zenon, <1>2, <1>4, <1>5, OneWorker DEF IInv, WorkerType

(* Emit, and the failures after which the worker fetches again: the batch   *)
(* is dropped and the in-memory cursor kept.                                *)
LEMMA DropBatch ==
    ASSUME IInv, NEW w \in Workers, UNCHANGED <<feedVars, mem>>, delivered \subseteq delivered',
           batch' = [batch EXCEPT ![w] = {}], pc' = [pc EXCEPT ![w] = "poll"],
           cursor' \in Cursors, (Settled(cursor.txn) /\ Held(cursor))'
    PROVE  IInv'
PROOF
  <1> PICK c : c = mem[w] BY Zenon
  <1>1. Settled(c.txn) /\ Held(c) BY Zenon DEF IInv, WorkerInv
  <1>2. WorkerType' BY Zenon DEF IInv, WorkerType, PCs
  <1>3. mem'[w] = c /\ batch'[w] = {} /\ pc'[w] = "poll" BY Zenon DEF IInv, WorkerType
  <1>4. WorkerInv(w)' BY Zenon, <1>1, <1>3, NoGapEmpty, WorkerSet
  <1> QED BY Zenon, <1>2, <1>4, OneWorker DEF IInv, WorkerType

\* A batch that is done with, or failed, is forgotten; the cursor stays.
LEMMA DropIInv ==
    ASSUME IInv, NEW w \in Workers, Emit(w) \/ ProjectFails(w) PROVE IInv'
PROOF
  <1>1. (Settled(cursor.txn) /\ Held(cursor))' BY Zenon, CursorFrame DEF IInv, Emit, ProjectFails
  <1> QED BY Zenon, <1>1, DropBatch DEF Emit, ProjectFails, IInv, WorkerType

(* The last row of a batch that is being saved. *)
LEMMA SaveHeld ==
    ASSUME IInv, NEW w \in Workers, pc[w] = "save", NEW g \in batch[w]
    PROVE  At(g) \in Cursors /\ Settled(At(g).txn) /\ Held(At(g))
BY Zenon, AdvanceHeld DEF IInv, WorkerInv, WorkerType

\* A cursor save that is reported as failed may have happened.
LEMMA SaveFailsIInv == ASSUME IInv, NEW w \in Workers, SaveFails(w) PROVE IInv'
PROOF
  <1> USE DEF SaveFails
  <1>1. CASE UNCHANGED cursor
    <2>1. (Settled(cursor.txn) /\ Held(cursor))' BY Zenon, <1>1, CursorFrame DEF IInv
    <2> QED BY Zenon, <1>1, <2>1, DropBatch DEF IInv, WorkerType
  <1>2. CASE \E g \in batch[w] : Advance(batch[w], g) /\ cursor' = At(g)
    <2> PICK g \in batch[w] : cursor' = At(g) BY Zenon, <1>2
    <2> PICK c : c = At(g) BY Zenon
    <2>1. c \in Cursors /\ Settled(c.txn) /\ Held(c) BY Zenon, SaveHeld
    <2>2. (Settled(cursor.txn) /\ Held(cursor))' BY Zenon, <2>1, CursorSet
    <2> QED BY Zenon, <2>1, <2>2, DropBatch
  <1> QED BY Zenon, <1>1, <1>2

\* The cursor is saved after its batch was delivered.
LEMMA SaveCursorIInv == ASSUME IInv, NEW w \in Workers, SaveCursor(w) PROVE IInv'
PROOF
  <1> USE DEF SaveCursor
  <1> PICK g \in batch[w] : Advance(batch[w], g) /\ cursor' = At(g) /\ mem' = [mem EXCEPT ![w] = At(g)] BY Zenon
  <1> PICK c, B : c = At(g) /\ B = batch[w] BY Zenon
  <1>1. c \in Cursors /\ Settled(c.txn) /\ Held(c) BY Zenon, SaveHeld
  <1>2. NoGap(c, B) BY Zenon, AdvanceNoGap DEF IInv, WorkerInv
  <1>3. (Settled(cursor.txn) /\ Held(cursor))' BY Zenon, <1>1, CursorSet
  <1>4. WorkerType' BY Zenon, <1>1 DEF IInv, WorkerType, PCs
  <1>5. mem'[w] = c /\ batch'[w] = B /\ pc'[w] = "emit" BY Zenon DEF IInv, WorkerType
  <1>6. WorkerInv(w)' BY Zenon, <1>1, <1>2, <1>5, WorkerSet
  <1> QED BY Zenon, <1>3, <1>4, <1>6, OneWorker DEF IInv, WorkerType

\* A crash loses what is in memory.
LEMMA CrashIInv == ASSUME IInv, NEW w \in Workers, Crash(w) PROVE IInv'
PROOF
  <1> USE DEF Crash
  <1>1. ZeroCursor \in Cursors /\ Settled(ZeroCursor.txn) /\ Held(ZeroCursor) BY Zenon, ZeroHeld DEF IInv
  <1>2. (Settled(cursor.txn) /\ Held(cursor))' BY Zenon, CursorFrame DEF IInv
  <1>3. WorkerType' BY Zenon, <1>1 DEF IInv, WorkerType, PCs
  <1>4. mem'[w] = ZeroCursor /\ batch'[w] = {} /\ pc'[w] = "down" BY Zenon DEF IInv, WorkerType
  <1>5. WorkerInv(w)' BY Zenon, <1>1, <1>4, NoGapEmpty, WorkerSet DEF ZeroCursor
  <1> QED BY Zenon, <1>2, <1>3, <1>5, OneWorker DEF IInv, WorkerType

(* A step that changes nothing. *)
LEMMA StutterIInv == IInv /\ UNCHANGED vars => IInv'
PROOF
  <1> SUFFICES ASSUME IInv, UNCHANGED vars PROVE IInv' BY Zenon
  <1>1. UNCHANGED feedVars /\ UNCHANGED <<tx, rows, cursor, delivered, pc, mem, batch>>
    BY Zenon DEF vars, feedVars, runnerVars, workerVars
  <1>2. (FeedType /\ WorkerType)' BY Zenon, <1>1 DEF IInv, FeedType, WorkerType
  <1>3. (Settled(cursor.txn) /\ Held(cursor))' BY ZenonT(30), <1>1, CursorFrame DEF IInv
  <1>4. ASSUME NEW w \in Workers PROVE WorkerInv(w)'
    <2>1. WorkerInv(w) BY Zenon DEF IInv
    <2> QED BY <1>1, <2>1 DEF WorkerInv, Settled, Held, NoGap, Visible, At, Less
  <1> QED BY Zenon, <1>2, <1>3, <1>4 DEF IInv

(* Every step keeps the inductive invariant. *)
LEMMA NextIInv == IInv /\ [Next]_vars => IInv'
PROOF
  <1>1. IInv /\ RunnerNext => IInv'
    BY SMTT(30), StartIInv, FetchIInv, ProjectIInv, DropIInv, SaveCursorIInv, SaveFailsIInv, CrashIInv, StutterIInv
       DEF RunnerNext, Work, CaughtUp
  <1> QED BY ZenonT(30), <1>1, FeedIInv, StutterIInv DEF Next

(* No event is skipped, whatever the number of workers and faults: every    *)
(* committed row at or before the saved cursor is in the projection.        *)
THEOREM RunnerSkipsNothing == Spec => []NothingSkipped
PROOF
  <1>1. IInv => NothingSkipped BY DEF IInv, Held, NothingSkipped
  <1> QED BY <1>1, InitIInv, NextIInv, PTL DEF Spec

(* What TypeOK says beyond the types that IInv has. *)
Rest ==
    /\ delivered \in SUBSET Gids
    /\ counted \in [Gids -> Nat]
    /\ faults \in 0..MaxFaults
    /\ \A w \in Workers : pc[w] \in {"down", "poll"} <=> batch[w] = {}

\* Counting keeps the type of the counters.
LEMMA PlusType == ASSUME NEW f \in [Gids -> Nat], NEW B PROVE Plus(f, B) \in [Gids -> Nat]
BY DEF Plus, Gids

\* The rest of the type invariant.
LEMMA NextRest == IInv /\ Rest /\ [Next]_vars => Rest'
PROOF
  <1> SUFFICES ASSUME IInv, Rest, [Next]_vars PROVE Rest' BY Zenon
  <1> USE DEF Rest
  <1>1. CASE UNCHANGED runnerVars BY Zenon, <1>1 DEF runnerVars, workerVars
  <1>2. ASSUME NEW w \in Workers, Work(w) \/ CaughtUp(w) \/ ProjectFails(w) \/ SaveFails(w) \/ Crash(w) PROVE Rest'
    <2>0. pc \in [Workers -> PCs] /\ batch \in [Workers -> SUBSET Gids] /\ NotCounted \in [Gids -> Nat]
      BY Zenon DEF IInv, WorkerType, NotCounted, Gids
    <2>1. CASE Start(w) BY Zenon, <2>0, <2>1 DEF Start
    <2>2. CASE Fetch(w) BY Zenon, <2>0, <2>2 DEF Fetch
    <2>3. CASE Project(w) BY Zenon, <2>0, <2>3 DEF Project
    <2>4. CASE SaveCursor(w) BY Zenon, <2>0, <2>4 DEF SaveCursor
    <2>5. CASE Emit(w)
      <3>1. Plus(counted, batch[w]) \in [Gids -> Nat] BY Zenon, PlusType
      <3> QED BY Zenon, <2>0, <2>5, <3>1 DEF Emit
    <2>6. CASE CaughtUp(w) BY Zenon, <2>6 DEF CaughtUp, vars, runnerVars, workerVars
    <2>7. CASE ProjectFails(w) BY <2>0, <2>7, RunnerAssumption DEF ProjectFails, Fault
    <2>8. CASE SaveFails(w) BY <2>0, <2>8, RunnerAssumption DEF SaveFails, Fault
    <2>9. CASE Crash(w) BY <2>0, <2>9, RunnerAssumption DEF Crash, Fault
    <2> QED BY Zenon, <1>2, <2>1, <2>2, <2>3, <2>4, <2>5, <2>6, <2>7, <2>8, <2>9 DEF Work
  <1> QED BY Zenon, <1>1, <1>2 DEF Next, RunnerNext, vars

(* The variables of the worker and the feed keep their types, and a batch   *)
(* is in hand exactly between a fetch and the end of foldAndAdvance.        *)
THEOREM RunnerTypeOK == Spec => []TypeOK
PROOF
  <1>1. Init => Rest
    BY RunnerAssumption DEF Init, RunnerInit, Rest, NotCounted, Gids
  <1>2. IInv /\ Rest => TypeOK BY DEF IInv, Rest, FeedType, WorkerType, TypeOK
  <1> QED BY <1>1, <1>2, InitIInv, NextIInv, NextRest, PTL DEF Spec

-----------------------------------------------------------------------------
(***************************************************************************)
(* The tool catalogue and the exchanges with MCP servers.                  *)
(*                                                                         *)
(* A call takes what its waiter is handed.  That this is the answer to its own *)
(* request needs that only the latest id has a waiter, that nothing is left of *)
(* an exchange when the next begins, and that every line under way bears the *)
(* method of its id: CatInv, one predicate on a Get, its connection and its *)
(* server, kept by each of their steps.                                    *)
(***************************************************************************)

\* What a server can have been asked, and what it can say, in an exchange that is about
\* the method doing: id 1 is initialize, id 2 that method, and noise bears no id.
AnswerBodies == Listings \cup {{}, {"other identity"}}

Flags == BOOLEAN

FirstOf == [id : {1}, method : {"initialize"}, fails : Flags, body : AnswerBodies]
SecondOf(doing) == [id : {2}, method : {doing}, fails : Flags, body : AnswerBodies]
NoiseLines == [id : {0}, method : {"noise", "huge"}, fails : Flags, body : AnswerBodies]

AskedOf(doing) == FirstOf \cup SecondOf(doing)
LinesOf(doing) == NoiseLines \cup AskedOf(doing)

\* Connections and servers of such an exchange.
ConnsOf(doing) == [nextID : {0, 1, 2}, waiters : SUBSET {0, 1, 2}, handed : SUBSET LinesOf(doing), closed : Flags]
PeersOf(doing) == [up : Flags, asked : Seq(AskedOf(doing)), out : Seq(LinesOf(doing))]

\* A Get has its fields.
IsGet(L) == L = [pc |-> L.pc, name |-> L.name, doing |-> L.doing, listed |-> L.listed, ctx |-> L.ctx]

\* A Get and its connection fit together: before a request nobody waits and nothing was
\* handed over; only the latest id has a waiter, who is gone once it has its answer.
SoundConn(L, R) ==
    /\ L.pc = "call" => R.nextID \in {0, 1} /\ R.waiters = {} /\ R.handed = {}
    /\ L.pc \in {"write", "wait"} => R.nextID \in {1, 2}
    /\ R.waiters \subseteq {R.nextID}
    /\ R.handed # {} => R.waiters = {}
    /\ \A l \in R.handed : l.id = R.nextID

\* The lines under way belong to the exchange, and outside of one there are none.
Sound(L, R, P) ==
    /\ IsGet(L) /\ R \in ConnsOf(L.doing) /\ P \in PeersOf(L.doing)
    /\ L.pc \notin {"call", "write", "wait"} => R = NoRpc /\ P = NoPeer
    /\ SoundConn(L, R)

CatInv ==
    /\ lookup = [g \in Lookups |-> lookup[g]]
    /\ rpc = [g \in Lookups |-> rpc[g]]
    /\ peer = [g \in Lookups |-> peer[g]]
    /\ \A g \in Lookups : Sound(lookup[g], rpc[g], peer[g])

\* The method of a line follows from its id.
LEMMA MethodOfLine ==
    ASSUME NEW doing, NEW l \in LinesOf(doing)
    PROVE  (l.id = 1 => l.method = "initialize") /\ (l.id = 2 => l.method = doing)
<1>1. \/ l.id = 0
      \/ l.id = 1 /\ l.method = "initialize"
      \/ l.id = 2 /\ l.method = doing
    BY Zenon DEF LinesOf, AskedOf, NoiseLines, FirstOf, SecondOf
<1> QED
    BY <1>1

\* Noise is a line of every exchange, and both flags and the empty body are in range.
LEMMA NoiseIsLine ==
    /\ TRUE \in Flags /\ FALSE \in Flags /\ {} \in AnswerBodies
    /\ \A doing : LogLine \in LinesOf(doing) /\ HugeLine \in LinesOf(doing)
                  /\ AskedOf(doing) \subseteq LinesOf(doing)
<1>1. TRUE \in Flags /\ FALSE \in Flags /\ {} \in AnswerBodies
    BY Zenon DEF Flags, AnswerBodies
<1>2. LogLine \in NoiseLines /\ HugeLine \in NoiseLines
    BY Zenon, <1>1 DEF LogLine, HugeLine, Line, NoiseLines
<1> QED
    BY Zenon, <1>1, <1>2 DEF LinesOf

\* What a server answers to a request of the exchange belongs to it, and so does an
\* answer to initialize that it repeats.
LEMMA AnswerOfAsked ==
    ASSUME NEW doing, NEW f \in Flags, NEW b \in AnswerBodies
    PROVE  /\ \A a \in AskedOf(doing) : Line(a.id, a.method, f, b) \in AskedOf(doing)
           /\ Line(1, "initialize", f, b) \in AskedOf(doing)
           /\ Line(2, doing, f, b) \in AskedOf(doing)
<1>1. Line(1, "initialize", f, b) \in AskedOf(doing)
    BY Zenon DEF Line, AskedOf, FirstOf
<1>2. Line(2, doing, f, b) \in AskedOf(doing)
    BY Zenon DEF Line, AskedOf, SecondOf
<1>3. ASSUME NEW a \in AskedOf(doing) PROVE Line(a.id, a.method, f, b) \in AskedOf(doing)
  <2>1. (a.id = 1 /\ a.method = "initialize") \/ (a.id = 2 /\ a.method = doing)
    BY Zenon DEF AskedOf, FirstOf, SecondOf
  <2> QED
    BY Zenon, <1>1, <1>2, <2>1
<1> QED
    BY Zenon, <1>1, <1>2, <1>3

\* A connection and a server before anything was said are of every exchange.
LEMMA FreshConn ==
    ASSUME NEW doing
    PROVE  /\ NoRpc \in ConnsOf(doing) /\ NoPeer \in PeersOf(doing)
           /\ [NoPeer EXCEPT !.up = TRUE] \in PeersOf(doing)
<1>1. TRUE \in Flags /\ FALSE \in Flags
    BY Zenon, NoiseIsLine
<1>2. << >> \in Seq(AskedOf(doing)) /\ << >> \in Seq(LinesOf(doing))
    OBVIOUS
<1>3. {} \in SUBSET {0, 1, 2} /\ {} \in SUBSET LinesOf(doing) /\ 0 \in {0, 1, 2}
    BY Zenon
<1> QED
    BY Zenon, <1>1, <1>2, <1>3 DEF ConnsOf, PeersOf, NoRpc, NoPeer

\* A Get outside an exchange is sound when it has no connection, and one whose exchange
\* has just been dialled is.
LEMMA SoundFresh ==
    ASSUME NEW L, IsGet(L)
    PROVE  /\ L.pc \notin {"call", "write", "wait"} => Sound(L, NoRpc, NoPeer)
           /\ L.pc = "call" => Sound(L, NoRpc, [NoPeer EXCEPT !.up = TRUE])
<1>1. SoundConn(L, NoRpc) \/ L.pc \in {"write", "wait"}
    BY Zenon DEF SoundConn, NoRpc
<1>2. L.pc = "call" => L.pc \notin {"write", "wait"}
    BY Zenon
<1> QED
    BY Zenon, <1>1, <1>2, FreshConn DEF Sound

\* A step of one Get keeps the invariant when it leaves that Get sound.
LEMMA SoundStep ==
    ASSUME CatInv, NEW g \in Lookups, NEW L, NEW R, NEW P, Sound(L, R, P),
           lookup' = [lookup EXCEPT ![g] = L], rpc' = [rpc EXCEPT ![g] = R],
           peer' = [peer EXCEPT ![g] = P]
    PROVE  CatInv'
<1>1. /\ lookup' = [h \in Lookups |-> lookup'[h]]
      /\ rpc' = [h \in Lookups |-> rpc'[h]]
      /\ peer' = [h \in Lookups |-> peer'[h]]
    BY Zenon DEF CatInv
<1>2. lookup'[g] = L /\ rpc'[g] = R /\ peer'[g] = P
    BY Zenon DEF CatInv
<1>3. \A h \in Lookups : h # g => lookup'[h] = lookup[h] /\ rpc'[h] = rpc[h] /\ peer'[h] = peer[h]
    BY Zenon DEF CatInv
<1>4. \A h \in Lookups : Sound(lookup'[h], rpc'[h], peer'[h])
    BY Zenon, <1>2, <1>3 DEF CatInv
<1> QED
    BY Zenon, <1>1, <1>4 DEF CatInv

\* Values that a step leaves as they are.
LEMMA KeptAt ==
    ASSUME CatInv, NEW g \in Lookups
    PROVE  /\ lookup = [lookup EXCEPT ![g] = lookup[g]]
           /\ rpc = [rpc EXCEPT ![g] = rpc[g]]
           /\ peer = [peer EXCEPT ![g] = peer[g]]
BY Zenon DEF CatInv

\* A Get that is answered is a Get again.
LEMMA EndedIsGet ==
    ASSUME NEW place, place \notin {"call", "write", "wait"}
    PROVE  IsGet(Ended(place)) /\ Ended(place).pc \notin {"call", "write", "wait"}
<1>1. PICK L : L = Ended(place)
    BY Zenon
<1>2. L = [pc |-> place, name |-> "", doing |-> "", listed |-> {}, ctx |-> "live"]
    BY Zenon, <1>1 DEF Ended, NoLookup
<1>3. IsGet(L) /\ L.pc = place
    BY Zenon, <1>2 DEF IsGet
<1> QED
    BY Zenon, <1>1, <1>3

\* A Get whose tool is proxied is a Get about to make its tools/call.
LEMMA ProxiedIsGet ==
    /\ IsGet([NoLookup EXCEPT !.pc = "call", !.doing = "tools/call"])
    /\ [NoLookup EXCEPT !.pc = "call", !.doing = "tools/call"].pc = "call"
<1>1. PICK L : L = [NoLookup EXCEPT !.pc = "call", !.doing = "tools/call"]
    BY Zenon
<1>2. L = [pc |-> "call", name |-> "", doing |-> "tools/call", listed |-> {}, ctx |-> "live"]
    BY Zenon, <1>1 DEF NoLookup
<1>3. IsGet(L) /\ L.pc = "call"
    BY Zenon, <1>2 DEF IsGet
<1> QED
    BY Zenon, <1>1, <1>3

\* Outside an exchange a Get may take any step to outside, or dial.
LEMMA OutsideKeeps ==
    ASSUME CatInv, NEW g \in Lookups, NEW L, IsGet(L), lookup' = [lookup EXCEPT ![g] = L],
           \/ /\ L.pc \notin {"call", "write", "wait"}
              /\ \/ HangsUp(g)
                 \/ lookup[g].pc \notin {"call", "write", "wait"} /\ UNCHANGED <<rpc, peer>>
           \/ L.pc = "call" /\ Dials(g)
    PROVE  CatInv'
<1>1. CASE L.pc \notin {"call", "write", "wait"}
          /\ lookup[g].pc \notin {"call", "write", "wait"} /\ UNCHANGED <<rpc, peer>>
  <2>1. rpc[g] = NoRpc /\ peer[g] = NoPeer
    BY Zenon, <1>1 DEF CatInv, Sound
  <2>2. rpc' = [rpc EXCEPT ![g] = NoRpc] /\ peer' = [peer EXCEPT ![g] = NoPeer]
    BY Zenon, <1>1, <2>1, KeptAt
  <2> QED
    BY Zenon, <1>1, <2>2, SoundFresh, SoundStep
<1>2. CASE L.pc \notin {"call", "write", "wait"} /\ HangsUp(g)
    BY Zenon, <1>2, SoundFresh, SoundStep DEF HangsUp
<1>3. CASE L.pc = "call" /\ Dials(g)
    BY Zenon, <1>3, SoundFresh, SoundStep DEF Dials
<1> QED
    BY Zenon, <1>1, <1>2, <1>3

\* An exchange that fails leaves nothing of itself.
LEMMA FailsKeeps ==
    ASSUME CatInv, NEW g \in Lookups, CallFails(g)
    PROVE  CatInv'
<1>1. "failed" \notin {"call", "write", "wait"}
    BY Zenon
<1>2. PICK L : L = Ended("failed")
    BY Zenon
<1>3. IsGet(L) /\ L.pc \notin {"call", "write", "wait"}
    BY Zenon, <1>1, <1>2, EndedIsGet
<1>4. lookup' = [lookup EXCEPT ![g] = L] /\ HangsUp(g)
    BY Zenon, <1>2 DEF CallFails
<1> QED
    BY Zenon, <1>3, <1>4, OutsideKeeps

\* Get: its begin, and a server that does not start.
LEMMA BeginKeeps ==
    ASSUME CatInv, NEW g \in Lookups, NEW name, GetBegins(g, name) \/ SpawnFails(g)
    PROVE  CatInv'
<1>1. lookup[g].pc \notin {"call", "write", "wait"} /\ IsGet(lookup[g])
  <2>1. lookup[g].pc = "idle"
    BY Zenon DEF GetBegins, SpawnFails
  <2> QED
    BY Zenon, <2>1 DEF CatInv, Sound
<1>2. CASE GetBegins(g, name) /\ loaded
  <2>1. PICK L : L = [lookup[g] EXCEPT !.pc = "look", !.name = name]
    BY Zenon
  <2>2. IsGet(L) /\ L.pc \notin {"call", "write", "wait"}
    BY Zenon, <1>1, <2>1 DEF IsGet
  <2>3. lookup' = [lookup EXCEPT ![g] = L] /\ UNCHANGED <<rpc, peer>>
    BY Zenon, <1>2, <2>1 DEF GetBegins
  <2> QED
    BY Zenon, <1>1, <2>2, <2>3, OutsideKeeps
<1>3. CASE GetBegins(g, name) /\ ~loaded
  <2>1. PICK L : L = [lookup[g] EXCEPT !.pc = "call", !.name = name, !.doing = "tools/list"]
    BY Zenon
  <2>2. IsGet(L) /\ L.pc = "call"
    BY Zenon, <1>1, <2>1 DEF IsGet
  <2>3. lookup' = [lookup EXCEPT ![g] = L] /\ Dials(g)
    BY Zenon, <1>3, <2>1 DEF GetBegins
  <2> QED
    BY Zenon, <2>2, <2>3, OutsideKeeps
<1>4. CASE SpawnFails(g)
  <2>1. "failed" \notin {"call", "write", "wait"}
    BY Zenon
  <2>2. PICK L : L = Ended("failed")
    BY Zenon
  <2>3. IsGet(L) /\ L.pc \notin {"call", "write", "wait"}
    BY Zenon, <2>1, <2>2, EndedIsGet
  <2>4. lookup' = [lookup EXCEPT ![g] = L] /\ UNCHANGED <<rpc, peer>>
    BY Zenon, <1>4, <2>2 DEF SpawnFails
  <2> QED
    BY Zenon, <1>1, <2>3, <2>4, OutsideKeeps
<1> QED
    BY Zenon, <1>2, <1>3, <1>4

\* The merge, and the look-up with what it found.
LEMMA LookKeeps ==
    ASSUME CatInv, NEW g \in Lookups, Merge(g) \/ LookUpTool(g)
    PROVE  CatInv'
<1>1. lookup[g].pc \notin {"call", "write", "wait"} /\ IsGet(lookup[g])
  <2>1. lookup[g].pc = "merge" \/ lookup[g].pc = "look"
    BY Zenon DEF Merge, LookUpTool
  <2> QED
    BY Zenon, <2>1 DEF CatInv, Sound
<1>2. /\ "failed" \notin {"call", "write", "wait"} /\ "done" \notin {"call", "write", "wait"}
      /\ "look" \notin {"call", "write", "wait"}
    BY Zenon
<1>3. CASE Merge(g)
  <2>1. PICK L : L = [lookup[g] EXCEPT !.pc = "look", !.listed = {}]
    BY Zenon
  <2>2. IsGet(L) /\ L.pc = "look"
    BY Zenon, <1>1, <2>1 DEF IsGet
  <2>3. lookup' = [lookup EXCEPT ![g] = L] /\ UNCHANGED <<rpc, peer>>
    BY Zenon, <1>3, <2>1 DEF Merge
  <2> QED
    BY Zenon, <1>1, <1>2, <2>2, <2>3, OutsideKeeps
<1>4. CASE LookUpTool(g)
  <2>1. CASE UNCHANGED <<rpc, peer>> /\ \E place \in {"done", "failed"} : lookup' = [lookup EXCEPT ![g] = Ended(place)]
    <3>1. PICK place \in {"done", "failed"} : lookup' = [lookup EXCEPT ![g] = Ended(place)]
      BY Zenon, <2>1
    <3>2. PICK L : L = Ended(place)
      BY Zenon
    <3>3. IsGet(L) /\ L.pc \notin {"call", "write", "wait"}
      BY Zenon, <1>2, <3>1, <3>2, EndedIsGet
    <3>4. lookup' = [lookup EXCEPT ![g] = L]
      BY Zenon, <3>1, <3>2
    <3> QED
      BY Zenon, <1>1, <2>1, <3>3, <3>4, OutsideKeeps
  <2>2. CASE /\ lookup' = [lookup EXCEPT ![g] = [NoLookup EXCEPT !.pc = "call", !.doing = "tools/call"]]
             /\ Dials(g)
    BY Zenon, <2>2, ProxiedIsGet, OutsideKeeps
  <2> QED
    BY Zenon, <1>4, <2>1, <2>2 DEF LookUpTool
<1> QED
    BY Zenon, <1>3, <1>4

\* conn.call takes the next id: the latest one is the only one waited for.
LEMMA RegistersKeeps ==
    ASSUME CatInv, NEW g \in Lookups, CallRegisters(g)
    PROVE  CatInv'
<1>1. CASE rpc[g].closed
    BY Zenon, <1>1, FailsKeeps DEF CallRegisters
<1>2. CASE ~rpc[g].closed
  <2>1. PICK L : L = [lookup[g] EXCEPT !.pc = "write"]
    BY Zenon
  <2>2. PICK R : R = [rpc[g] EXCEPT !.nextID = rpc[g].nextID + 1, !.waiters = rpc[g].waiters \cup {rpc[g].nextID + 1}]
    BY Zenon
  <2>3. /\ lookup' = [lookup EXCEPT ![g] = L] /\ rpc' = [rpc EXCEPT ![g] = R]
        /\ peer' = peer
    <3>1. /\ rpc' = [rpc EXCEPT ![g].nextID = @ + 1, ![g].waiters = @ \cup {rpc[g].nextID + 1}]
          /\ lookup' = [lookup EXCEPT ![g].pc = "write"] /\ peer' = peer
      BY Zenon, <1>2 DEF CallRegisters
    <3>2. lookup' = [lookup EXCEPT ![g] = L]
      BY Zenon, <2>1, <3>1
    <3>3. rpc' = [rpc EXCEPT ![g] = R]
      BY Zenon, <2>2, <3>1 DEF CatInv
    <3> QED
      BY Zenon, <3>1, <3>2, <3>3
  <2>4. lookup[g].pc = "call" /\ Sound(lookup[g], rpc[g], peer[g])
    BY Zenon DEF CallRegisters, CatInv
  <2>5. IsGet(L) /\ L.pc = "write" /\ L.doing = lookup[g].doing
    BY Zenon, <2>1, <2>4 DEF Sound, IsGet
  <2>6. rpc[g] \in ConnsOf(L.doing) /\ peer[g] \in PeersOf(L.doing)
    BY Zenon, <2>4, <2>5 DEF Sound
  <2>7. rpc[g].nextID \in {0, 1} /\ rpc[g].waiters = {} /\ rpc[g].handed = {}
    BY Zenon, <2>4 DEF Sound, SoundConn
  <2>8. R \in ConnsOf(L.doing) /\ R.nextID \in {1, 2} /\ R.waiters = {R.nextID} /\ R.handed = {}
    <3>1. R.nextID \in {1, 2} /\ R.waiters = {R.nextID} /\ R.handed = {}
      BY <2>2, <2>6, <2>7 DEF ConnsOf
    <3>2. R.nextID \in {0, 1, 2} /\ R.waiters \in SUBSET {0, 1, 2} /\ R.handed \in SUBSET LinesOf(L.doing)
      BY Zenon, <3>1
    <3>3. R \in ConnsOf(L.doing)
      BY Zenon, <2>2, <2>6, <3>2 DEF ConnsOf
    <3> QED
      BY Zenon, <3>1, <3>3
  <2>9. SoundConn(L, R)
    BY Zenon, <2>5, <2>8 DEF SoundConn
  <2>10. Sound(L, R, peer[g])
    BY Zenon, <2>5, <2>6, <2>8, <2>9 DEF Sound
  <2>11. PICK P : P = peer[g] /\ peer' = [peer EXCEPT ![g] = P]
    BY Zenon, <2>3, KeptAt
  <2> QED
    BY Zenon, <2>3, <2>10, <2>11, SoundStep
<1> QED
    BY Zenon, <1>1, <1>2

\* The server is asked what the id stands for.
LEMMA WritesKeeps ==
    ASSUME CatInv, NEW g \in Lookups, CallWrites(g)
    PROVE  CatInv'
<1>1. CASE ~peer[g].up
    BY Zenon, <1>1, FailsKeeps DEF CallWrites
<1>2. CASE peer[g].up
  <2>1. PICK L : L = [lookup[g] EXCEPT !.pc = "wait"]
    BY Zenon
  <2>2. PICK line : line = Line(rpc[g].nextID, Method(g), FALSE, {})
    BY Zenon
  <2>3. PICK P : P = [peer[g] EXCEPT !.asked = Append(@, line)]
    BY Zenon
  <2>4. /\ lookup' = [lookup EXCEPT ![g] = L] /\ peer' = [peer EXCEPT ![g] = P]
        /\ rpc' = rpc
    BY Zenon, <1>2, <2>1, <2>2, <2>3 DEF CallWrites
  <2>5. lookup[g].pc = "write" /\ Sound(lookup[g], rpc[g], peer[g])
    BY Zenon DEF CallWrites, CatInv
  <2>6. IsGet(L) /\ L.pc = "wait" /\ L.doing = lookup[g].doing
    BY Zenon, <2>1, <2>5 DEF Sound, IsGet
  <2>7. rpc[g] \in ConnsOf(L.doing) /\ peer[g] \in PeersOf(L.doing)
    BY Zenon, <2>5, <2>6 DEF Sound
  <2>8. rpc[g].nextID \in {1, 2}
    BY Zenon, <2>5 DEF Sound, SoundConn
  <2>9. line \in AskedOf(L.doing)
    <3>1. CASE rpc[g].nextID = 1
      BY Zenon, <2>2, <3>1, AnswerOfAsked, NoiseIsLine DEF Method
    <3>2. CASE rpc[g].nextID = 2
      <4>1. Method(g) = L.doing
        BY <2>6, <3>2 DEF Method
      <4> QED
        BY Zenon, <2>2, <3>2, <4>1, AnswerOfAsked, NoiseIsLine
    <3> QED
      BY Zenon, <2>8, <3>1, <3>2
  <2>10. P \in PeersOf(L.doing)
    <3>1. peer[g].asked \in Seq(AskedOf(L.doing))
      BY Zenon, <2>7 DEF PeersOf
    <3>2. Append(peer[g].asked, line) \in Seq(AskedOf(L.doing))
      BY <2>9, <3>1
    <3> QED
      BY Zenon, <2>3, <2>7, <3>2 DEF PeersOf
  <2>11. SoundConn(L, rpc[g])
    BY Zenon, <2>5, <2>6, <2>8 DEF Sound, SoundConn
  <2>12. Sound(L, rpc[g], P)
    BY Zenon, <2>6, <2>7, <2>10, <2>11 DEF Sound
  <2>13. PICK R : R = rpc[g] /\ rpc' = [rpc EXCEPT ![g] = R]
    BY Zenon, <2>4, KeptAt
  <2> QED
    BY Zenon, <2>4, <2>12, <2>13, SoundStep
<1> QED
    BY Zenon, <1>1, <1>2

\* The answer is taken: to the handshake, to the merge or to the caller.
LEMMA AnsweredKeepsGet ==
    ASSUME CatInv, NEW g \in Lookups, CallAnswered(g)
    PROVE  CatInv'
<1>1. PICK answer \in rpc[g].handed :
         IF answer.fails THEN CallFails(g)
         ELSE IF rpc[g].nextID = 1 THEN Handshakes(g, answer)
         ELSE /\ lookup' = [lookup EXCEPT ![g] =
                    IF lookup[g].doing = "tools/list"
                    THEN [lookup[g] EXCEPT !.pc = "merge", !.listed = answer.body]
                    ELSE Ended("done")]
              /\ HangsUp(g)
    BY Zenon DEF CallAnswered
<1>2. lookup[g].pc = "wait" /\ Sound(lookup[g], rpc[g], peer[g])
    BY Zenon DEF CallAnswered, CatInv
<1>3. CASE CallFails(g)
    BY Zenon, <1>3, FailsKeeps
<1>4. CASE /\ lookup' = [lookup EXCEPT ![g] = [lookup[g] EXCEPT !.pc = "call"]]
           /\ rpc' = [rpc EXCEPT ![g] = [rpc[g] EXCEPT !.handed = {}]]
           /\ peer' = peer /\ rpc[g].nextID = 1
  <2>1. PICK L : L = [lookup[g] EXCEPT !.pc = "call"]
    BY Zenon
  <2>2. PICK R : R = [rpc[g] EXCEPT !.handed = {}]
    BY Zenon
  <2>3. IsGet(L) /\ L.pc = "call" /\ L.doing = lookup[g].doing
    BY Zenon, <1>2, <2>1 DEF Sound, IsGet
  <2>4. rpc[g] \in ConnsOf(L.doing) /\ peer[g] \in PeersOf(L.doing)
    BY Zenon, <1>2, <2>3 DEF Sound
  <2>5. rpc[g].waiters = {}
    BY Zenon, <1>1, <1>2 DEF Sound, SoundConn
  <2>6. R.nextID = 1 /\ R.waiters = {} /\ R.handed = {}
    BY Zenon, <1>4, <2>2, <2>4, <2>5 DEF ConnsOf
  <2>7. R \in ConnsOf(L.doing)
    <3>1. {} \in SUBSET LinesOf(L.doing)
      BY Zenon
    <3> QED
      BY Zenon, <2>2, <2>4, <3>1 DEF ConnsOf
  <2>8. SoundConn(L, R)
    BY Zenon, <2>3, <2>6 DEF SoundConn
  <2>9. Sound(L, R, peer[g])
    BY Zenon, <2>3, <2>4, <2>7, <2>8 DEF Sound
  <2>10. PICK P : P = peer[g] /\ peer' = [peer EXCEPT ![g] = P]
    BY Zenon, <1>4, KeptAt
  <2>11. lookup' = [lookup EXCEPT ![g] = L] /\ rpc' = [rpc EXCEPT ![g] = R]
    BY Zenon, <1>4, <2>1, <2>2
  <2> QED
    BY Zenon, <2>9, <2>10, <2>11, SoundStep
<1>5. CASE /\ lookup' = [lookup EXCEPT ![g] =
                    IF lookup[g].doing = "tools/list"
                    THEN [lookup[g] EXCEPT !.pc = "merge", !.listed = answer.body]
                    ELSE Ended("done")]
           /\ HangsUp(g)
  <2>1. PICK L : L = IF lookup[g].doing = "tools/list"
                     THEN [lookup[g] EXCEPT !.pc = "merge", !.listed = answer.body]
                     ELSE Ended("done")
    BY Zenon
  <2>2. IsGet(L) /\ L.pc \notin {"call", "write", "wait"}
    <3>1. CASE lookup[g].doing = "tools/list"
      BY Zenon, <1>2, <2>1, <3>1 DEF Sound, IsGet
    <3>2. CASE lookup[g].doing # "tools/list"
      <4>1. "done" \notin {"call", "write", "wait"}
        BY Zenon
      <4> QED
        BY Zenon, <2>1, <3>2, <4>1, EndedIsGet
    <3> QED
      BY Zenon, <3>1, <3>2
  <2>3. lookup' = [lookup EXCEPT ![g] = L] /\ HangsUp(g)
    BY Zenon, <1>5, <2>1
  <2> QED
    BY Zenon, <2>2, <2>3, OutsideKeeps
<1> QED
    BY Zenon, <1>1, <1>3, <1>4, <1>5 DEF Handshakes

\* A context that ends, and a process that does.
LEMMA ExitKeeps ==
    ASSUME CatInv, NEW g \in Lookups, CallerCancels(g) \/ ServerExits(g)
    PROVE  CatInv'
<1>1. PICK P : P = [peer[g] EXCEPT !.up = FALSE]
    BY Zenon
<1>2. peer' = [peer EXCEPT ![g] = P] /\ rpc' = rpc
    BY Zenon, <1>1 DEF CallerCancels, ServerExits
<1>3. PICK L : (L = lookup[g] \/ L = [lookup[g] EXCEPT !.ctx = "done"]) /\ lookup' = [lookup EXCEPT ![g] = L]
    BY Zenon, KeptAt DEF CallerCancels, ServerExits
<1>4. Sound(lookup[g], rpc[g], peer[g])
    BY Zenon DEF CatInv
<1>5. IsGet(L) /\ L.pc = lookup[g].pc /\ L.doing = lookup[g].doing
    BY Zenon, <1>3, <1>4 DEF Sound, IsGet
<1>6. lookup[g].pc \in {"call", "write", "wait"}
  <2>1. CASE CallerCancels(g)
    BY Zenon, <2>1 DEF CallerCancels
  <2>2. CASE ServerExits(g) /\ lookup[g].pc \notin {"call", "write", "wait"}
    <3>1. peer[g].up /\ peer[g] = NoPeer
      BY Zenon, <1>4, <2>2 DEF ServerExits, Sound
    <3>2. NoPeer.up = FALSE
      BY Zenon DEF NoPeer
    <3> QED
      BY Zenon, <3>1, <3>2
  <2> QED
    BY Zenon, <2>1, <2>2
<1>7. P \in PeersOf(L.doing) /\ rpc[g] \in ConnsOf(L.doing)
  <2>1. peer[g] \in PeersOf(L.doing) /\ FALSE \in Flags
    BY Zenon, <1>4, <1>5, NoiseIsLine DEF Sound
  <2>2. P \in PeersOf(L.doing)
    BY Zenon, <1>1, <2>1 DEF PeersOf
  <2> QED
    BY Zenon, <1>4, <1>5, <2>2 DEF Sound
<1>8. SoundConn(L, rpc[g])
    BY Zenon, <1>4, <1>5 DEF Sound, SoundConn
<1>9. Sound(L, rpc[g], P)
    BY Zenon, <1>5, <1>6, <1>7, <1>8 DEF Sound
<1>10. PICK R : R = rpc[g] /\ rpc' = [rpc EXCEPT ![g] = R]
    BY Zenon, <1>2, KeptAt
<1> QED
    BY Zenon, <1>2, <1>3, <1>9, <1>10, SoundStep

\* A server that writes a line of the exchange.
LEMMA SaysKeeps ==
    ASSUME CatInv, NEW g \in Lookups, ServerAnswers(g) \/ ServerChatters(g)
    PROVE  CatInv'
<1>1. lookup' = lookup /\ rpc' = rpc /\ peer[g].up
    BY Zenon DEF ServerAnswers, ServerChatters
<1>2. Sound(lookup[g], rpc[g], peer[g])
    BY Zenon DEF CatInv
<1>3. PICK doing : doing = lookup[g].doing
    BY Zenon
<1>4. lookup[g].pc \in {"call", "write", "wait"}
  <2> SUFFICES ASSUME lookup[g].pc \notin {"call", "write", "wait"} PROVE FALSE
    BY Zenon
  <2>1. peer[g] = NoPeer
    BY Zenon, <1>2 DEF Sound
  <2>2. NoPeer.up = FALSE
    BY Zenon DEF NoPeer
  <2> QED
    BY Zenon, <1>1, <2>1, <2>2
<1>5. peer[g] \in PeersOf(doing)
    BY Zenon, <1>2, <1>3 DEF Sound
<1>6. PICK P : P \in PeersOf(doing) /\ peer' = [peer EXCEPT ![g] = P]
  <2>1. peer[g].asked \in Seq(AskedOf(doing)) /\ peer[g].out \in Seq(LinesOf(doing))
    BY Zenon, <1>5 DEF PeersOf
  <2>2. CASE ServerAnswers(g)
    <3>1. PICK asked : asked = Head(peer[g].asked)
      BY Zenon
    <3>2. peer[g].asked # << >>
      BY ZenonT(30), <2>2 DEF ServerAnswers
    <3>3. asked \in AskedOf(doing) /\ Tail(peer[g].asked) \in Seq(AskedOf(doing))
      BY <2>1, <3>1, <3>2
    <3>4. PICK answer \in {Line(asked.id, asked.method, TRUE, {})}
                      \cup {Line(asked.id, asked.method, FALSE, b) : b \in Bodies(asked.method)} :
             peer' = [peer EXCEPT ![g].asked = Tail(@), ![g].out = Append(@, answer)]
      BY Zenon, <2>2, <3>1 DEF ServerAnswers
    <3>5. Bodies(asked.method) \subseteq AnswerBodies
      BY Zenon DEF Bodies, AnswerBodies
    <3>6. answer \in LinesOf(doing)
      BY Zenon, <3>3, <3>4, <3>5, AnswerOfAsked, NoiseIsLine
    <3>7. Append(peer[g].out, answer) \in Seq(LinesOf(doing))
      BY <2>1, <3>6
    <3>8. [peer[g] EXCEPT !.asked = Tail(peer[g].asked), !.out = Append(peer[g].out, answer)] \in PeersOf(doing)
      BY Zenon, <1>5, <3>3, <3>7 DEF PeersOf
    <3>9. peer' = [peer EXCEPT ![g] = [peer[g] EXCEPT !.asked = Tail(peer[g].asked),
                                                      !.out = Append(peer[g].out, answer)]]
      BY Zenon, <1>5, <3>4 DEF CatInv, PeersOf
    <3> QED
      BY Zenon, <3>8, <3>9
  <2>3. CASE ServerChatters(g)
    <3>1. PICK line \in {LogLine, HugeLine} \cup {Line(1, "initialize", FALSE, {})} :
             peer' = [peer EXCEPT ![g] = [peer[g] EXCEPT !.out = Append(peer[g].out, line)]]
      BY Zenon, <2>3 DEF ServerChatters
    <3>2. line \in LinesOf(doing)
      BY Zenon, <3>1, AnswerOfAsked, NoiseIsLine
    <3>3. Append(peer[g].out, line) \in Seq(LinesOf(doing))
      BY <2>1, <3>2
    <3>4. [peer[g] EXCEPT !.out = Append(peer[g].out, line)] \in PeersOf(doing)
      BY Zenon, <1>5, <3>3 DEF PeersOf
    <3> QED
      BY Zenon, <3>1, <3>4
  <2> QED
    BY Zenon, <2>2, <2>3
<1>7. Sound(lookup[g], rpc[g], P)
    BY Zenon, <1>2, <1>3, <1>4, <1>6 DEF Sound
<1>8. PICK L : L = lookup[g] /\ lookup' = [lookup EXCEPT ![g] = L]
    BY Zenon, <1>1, KeptAt
<1>9. PICK R : R = rpc[g] /\ rpc' = [rpc EXCEPT ![g] = R]
    BY Zenon, <1>1, KeptAt
<1> QED
    BY Zenon, <1>6, <1>7, <1>8, <1>9, SoundStep

\* The reader hands a line to the one who waits for its id, or gives up.
LEMMA ReadKeeps ==
    ASSUME CatInv, NEW g \in Lookups, ReadLoop(g)
    PROVE  CatInv'
<1>1. lookup' = lookup /\ lookup[g].pc \in {"call", "write", "wait"}
    BY Zenon DEF ReadLoop
<1>2. Sound(lookup[g], rpc[g], peer[g])
    BY Zenon DEF CatInv
<1>3. PICK L : L = lookup[g] /\ lookup' = [lookup EXCEPT ![g] = L]
    BY Zenon, <1>1, KeptAt
<1>4. rpc[g] \in ConnsOf(L.doing) /\ peer[g] \in PeersOf(L.doing) /\ SoundConn(L, rpc[g])
    BY Zenon, <1>2, <1>3 DEF Sound
<1>5. PICK P : P \in PeersOf(L.doing) /\ peer' = [peer EXCEPT ![g] = P]
  <2>1. CASE peer' = peer
    BY Zenon, <1>4, <2>1, KeptAt
  <2>2. CASE peer[g].out # << >> /\ peer' = [peer EXCEPT ![g] = [peer[g] EXCEPT !.out = Tail(peer[g].out)]]
    <3>1. peer[g].out \in Seq(LinesOf(L.doing))
      BY Zenon, <1>4 DEF PeersOf
    <3>2. Tail(peer[g].out) \in Seq(LinesOf(L.doing))
      <4>1. peer[g].out # << >>
        BY Zenon, <2>2
      <4>2. PICK S : S = LinesOf(L.doing)
        BY Zenon
      <4>3. PICK out : out = peer[g].out
        BY Zenon
      <4>4. out \in Seq(S) /\ out # << >>
        BY Zenon, <3>1, <4>1, <4>2, <4>3
      <4>5. Tail(out) \in Seq(S)
        BY <4>4
      <4> QED
        BY Zenon, <4>2, <4>3, <4>5
    <3>3. [peer[g] EXCEPT !.out = Tail(peer[g].out)] \in PeersOf(L.doing)
      BY Zenon, <1>4, <3>2 DEF PeersOf
    <3> QED
      BY Zenon, <2>2, <3>3
  <2> QED
    BY Zenon, <2>1, <2>2 DEF ReadLoop
<1>6. PICK R : R \in ConnsOf(L.doing) /\ SoundConn(L, R) /\ rpc' = [rpc EXCEPT ![g] = R]
  <2>1. CASE rpc' = rpc
    BY Zenon, <1>4, <2>1, KeptAt
  <2>2. CASE Fails(g)
    <3>1. PICK R : R = [rpc[g] EXCEPT !.closed = TRUE, !.waiters = {}]
      BY Zenon
    <3>2. rpc' = [rpc EXCEPT ![g] = R]
      BY Zenon, <2>2, <3>1 DEF Fails
    <3>3. TRUE \in Flags /\ {} \in SUBSET {0, 1, 2}
      BY Zenon, NoiseIsLine
    <3>4. R \in ConnsOf(L.doing)
      BY Zenon, <1>4, <3>1, <3>3 DEF ConnsOf
    <3>5. R.nextID = rpc[g].nextID /\ R.handed = rpc[g].handed /\ R.waiters = {}
      BY Zenon, <1>4, <3>1 DEF ConnsOf
    <3>6. SoundConn(L, R)
      BY Zenon, <1>4, <3>5 DEF SoundConn
    <3> QED
      BY Zenon, <3>2, <3>4, <3>6
  <2>3. ASSUME peer[g].out # << >>, NEW line, line = Head(peer[g].out), line.id \in rpc[g].waiters,
               rpc' = [rpc EXCEPT ![g].waiters = @ \ {line.id}, ![g].handed = {line}]
        PROVE  \E R : R \in ConnsOf(L.doing) /\ SoundConn(L, R) /\ rpc' = [rpc EXCEPT ![g] = R]
    <3>1. PICK R : R = [rpc[g] EXCEPT !.waiters = rpc[g].waiters \ {line.id}, !.handed = {line}]
      BY Zenon
    <3>2. rpc' = [rpc EXCEPT ![g] = R]
      BY Zenon, <2>3, <3>1 DEF CatInv
    <3>3. peer[g].out \in Seq(LinesOf(L.doing))
      BY Zenon, <1>4 DEF PeersOf
    <3>4. line \in LinesOf(L.doing)
      BY <2>3, <3>3
    <3>5. line.id = rpc[g].nextID /\ rpc[g].waiters \ {line.id} = {}
      BY Zenon, <1>4, <2>3 DEF SoundConn
    <3>6. {} \in SUBSET {0, 1, 2} /\ {line} \in SUBSET LinesOf(L.doing)
      BY Zenon, <3>4
    <3>7. R \in ConnsOf(L.doing)
      BY Zenon, <1>4, <3>1, <3>5, <3>6 DEF ConnsOf
    <3>8. R.nextID = rpc[g].nextID /\ R.handed = {line} /\ R.waiters = {}
      BY Zenon, <1>4, <3>1, <3>5 DEF ConnsOf
    <3>9. L.pc # "call"
      BY Zenon, <1>4, <2>3 DEF SoundConn
    <3>10. SoundConn(L, R)
      BY Zenon, <1>4, <3>5, <3>8, <3>9 DEF SoundConn
    <3> QED
      BY Zenon, <3>2, <3>7, <3>10
  <2>4. \/ rpc' = rpc \/ Fails(g)
        \/ peer[g].out # << >> /\ Deliver(g, Head(peer[g].out))
    BY Zenon DEF ReadLoop
  <2>5. CASE peer[g].out # << >> /\ Deliver(g, Head(peer[g].out)) /\ rpc' # rpc
    <3>1. PICK line : line = Head(peer[g].out)
      BY Zenon
    <3>2. Deliver(g, line)
      BY Zenon, <2>5, <3>1
    <3> QED
      BY Zenon, <2>3, <2>5, <3>1, <3>2 DEF Deliver
  <2> QED
    BY Zenon, <2>1, <2>2, <2>4, <2>5
<1>7. Sound(L, R, P)
    BY Zenon, <1>1, <1>2, <1>3, <1>5, <1>6 DEF Sound
<1> QED
    BY Zenon, <1>3, <1>5, <1>6, <1>7, SoundStep

\* For any number of lookups that race, listings and upsets: what a call takes for its
\* answer is the server's answer to that very request, though the server repeats itself
\* and talks in between (conn.call, deliver and readLoop of the MCP client).
THEOREM AnswersAreForTheRequest == CatalogSpec => []AnswersMatch
<1>1. CatalogInit => CatInv
  <2> SUFFICES ASSUME CatalogInit PROVE CatInv
    BY Zenon
  <2>1. /\ lookup = [g \in Lookups |-> NoLookup]
        /\ rpc = [g \in Lookups |-> NoRpc] /\ peer = [g \in Lookups |-> NoPeer]
    BY Zenon DEF CatalogInit
  <2>2. IsGet(NoLookup) /\ NoLookup.pc \notin {"call", "write", "wait"}
    BY Zenon DEF IsGet, NoLookup
  <2>3. Sound(NoLookup, NoRpc, NoPeer)
    BY Zenon, <2>2, SoundFresh
  <2>4. /\ lookup = [g \in Lookups |-> lookup[g]]
        /\ rpc = [g \in Lookups |-> rpc[g]] /\ peer = [g \in Lookups |-> peer[g]]
    BY Zenon, <2>1
  <2>5. \A g \in Lookups : lookup[g] = NoLookup /\ rpc[g] = NoRpc /\ peer[g] = NoPeer
    BY Zenon, <2>1
  <2> QED
    BY Zenon, <2>3, <2>4, <2>5 DEF CatInv
<1>2. CatInv /\ [CatalogNext]_catalogVars => CatInv'
  <2> SUFFICES ASSUME CatInv, [CatalogNext]_catalogVars PROVE CatInv'
    BY Zenon
  <2>1. CASE UNCHANGED catalogVars
    <3>1. lookup' = lookup /\ rpc' = rpc /\ peer' = peer
      BY Zenon, <2>1 DEF catalogVars
    <3> QED
      BY Zenon, <3>1 DEF CatInv
  <2>2. CASE CatalogNext
    <3>1. ASSUME NEW g \in Lookups, LookupStep(g) PROVE CatInv'
      BY Zenon, <3>1, LookKeeps, RegistersKeeps, WritesKeeps, AnsweredKeepsGet, FailsKeeps
         DEF LookupStep, CallLosesReader, CallSeesCancel
    <3> QED
      BY Zenon, <2>2, <3>1, BeginKeeps, ReadKeeps, ExitKeeps, SaysKeeps DEF CatalogNext
  <2> QED
    BY Zenon, <2>1, <2>2
<1>3. CatInv => AnswersMatch
  <2> SUFFICES ASSUME CatInv, NEW g \in Lookups, NEW answer \in rpc[g].handed, lookup[g].pc = "wait"
               PROVE  answer.method = Method(g)
    BY Zenon DEF AnswersMatch
  <2>1. Sound(lookup[g], rpc[g], peer[g])
    BY Zenon DEF CatInv
  <2>2. answer.id = rpc[g].nextID /\ answer \in LinesOf(lookup[g].doing)
    BY Zenon, <2>1 DEF Sound, SoundConn, ConnsOf
  <2>3. rpc[g].nextID \in {1, 2}
    BY Zenon, <2>1 DEF Sound, SoundConn
  <2>4. (answer.id = 1 => answer.method = "initialize") /\ (answer.id = 2 => answer.method = lookup[g].doing)
    BY Zenon, <2>2, MethodOfLine
  <2> QED
    BY Zenon, <2>2, <2>3, <2>4 DEF Method
<1> QED
    BY <1>1, <1>2, <1>3, PTL DEF CatalogSpec

\* However many first lookups consult the MCP source at once, one of its answers becomes
\* the catalogue, and no later step changes it (Registry.ensureMCPLoaded).
THEOREM CatalogStaysOneAnswer == CatalogSpec => CatalogIsOneAnswer
<1>1. [CatalogNext]_catalogVars => [loaded => UNCHANGED mcpTools]_catalogVars
  <2> SUFFICES ASSUME [CatalogNext]_catalogVars, ~UNCHANGED catalogVars, loaded
               PROVE  mcpTools' = mcpTools
    BY Zenon
  <2>1. PICK g \in Lookups :
           \/ \E name \in NativeTools \cup UNION Listings : GetBegins(g, name)
           \/ SpawnFails(g) \/ LookupStep(g) \/ ReadLoop(g) \/ CallerCancels(g)
           \/ ServerAnswers(g) \/ ServerChatters(g) \/ ServerExits(g)
    BY Zenon DEF CatalogNext
  <2>2. CASE Merge(g)
    BY Zenon, <2>2 DEF Merge
  <2>3. CASE LookupStep(g) /\ ~Merge(g)
    BY Zenon, <2>3 DEF LookupStep, LookUpTool, CallRegisters, CallWrites, CallAnswered, CallLosesReader, CallSeesCancel
  <2> QED
    BY Zenon, <2>1, <2>2, <2>3
       DEF GetBegins, SpawnFails, ReadLoop, CallerCancels, ServerAnswers, ServerChatters, ServerExits
<1> QED
    BY <1>1, PTL DEF CatalogSpec, CatalogIsOneAnswer

=============================================================================
