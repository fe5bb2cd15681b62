------------------------------ MODULE Sandbox ------------------------------
(***************************************************************************)
(* The sandboxes of the tool runtime: the per-session container runtime    *)
(* (adapter/outbound/runtime), its reaper, the router that gives a tool    *)
(* call the sandbox of its session (boltrope-toolruntimed/workspace.go),   *)
(* and the file and command tools that use it.                             *)
(*                                                                         *)
(* Docker is outside the repository and is modelled by what its commands   *)
(* do to the one container that can carry a session's name.  It outlives   *)
(* the daemon; everything else here is the daemon's memory and dies with   *)
(* it.  A box is one container ever created, numbered in order; a handle   *)
(* (the code's *container) is known by its box.                            *)
(***************************************************************************)
EXTENDS Naturals, FiniteSets

CONSTANTS
    BoxSessions,    \* the sessions that call tools
    MaxBoxCalls,    \* bound: tool calls over the whole behaviour
    MaxLive,        \* Config.MaxLive
    MaxCrashes,     \* bound: crashes of the daemon
    MaxBoxFaults    \* bound: docker commands and status lookups that fail

ASSUME BoxAssumption ==
    /\ MaxBoxCalls \in Nat \ {0} /\ MaxLive \in Nat \ {0}
    /\ MaxCrashes \in Nat /\ MaxBoxFaults \in Nat

VARIABLES
    docker,     \* per session, the container of that name: its box, and whether it runs
    made,       \* how many boxes docker has created
    live,       \* Runtime.live: the handle of a session and what its TTLs say of it
    gone,       \* the boxes whose handle is marked destroyed
    reclaimed,  \* the boxes the reaper or Close took out of the live set
    holder,     \* sessionWorkspaces.locks: the call inside Workspace, per session
    boxCall,    \* the tool calls
    reaper,     \* the lifecycle goroutine
    stopped,    \* Runtime.stopped, and what Close still has to destroy
    status,     \* sessions.status as the sessions table has it
    mishaps     \* crashes and faults so far; sessions with a failed docker rm

boxVars == <<docker, made, live, gone, reclaimed, holder, boxCall, reaper,
             stopped, status, mishaps>>

BoxCalls == 1 .. MaxBoxCalls
NoBox == [box |-> 0, up |-> FALSE]
NoHandle == [box |-> 0, age |-> "young"]
NoBoxCall == [pc |-> "idle", session |-> "none", box |-> 0]
Resting == [pc |-> "ticking", todo |-> {}, expired |-> {}, rm |-> {}]

BoxInit ==
    /\ docker = [s \in BoxSessions |-> NoBox]
    /\ made = 0
    /\ live = [s \in BoxSessions |-> NoHandle]
    /\ gone = {} /\ reclaimed = {}
    /\ holder = [s \in BoxSessions |-> 0]
    /\ boxCall = [c \in BoxCalls |-> NoBoxCall]
    /\ reaper = [Resting EXCEPT !.pc = "starting"]
    /\ stopped = [yes |-> FALSE, todo |-> {}]
    /\ status = [s \in BoxSessions |-> "active"]
    /\ mishaps = [crashes |-> 0, faults |-> 0, stuck |-> {}]

Tracked(s) == live[s].box # 0
LiveCount == Cardinality({s \in BoxSessions : Tracked(s)})
Exists(s) == docker[s].box # 0

\* One docker command, or one query of the sessions table, fails.
BoxFault == /\ mishaps.faults < MaxBoxFaults
            /\ mishaps' = [mishaps EXCEPT !.faults = @ + 1]

CallGoes(c, pc) == boxCall' = [boxCall EXCEPT ![c].pc = pc]
CallEnds(c) == boxCall' = [boxCall EXCEPT ![c] = [NoBoxCall EXCEPT !.pc = "over"]]
Unlock(c) == holder' = [s \in BoxSessions |-> IF holder[s] = c THEN 0 ELSE holder[s]]

----------------------------------------------------------------------------
\* sessionWorkspaces.Workspace and Runtime.Create

\* A fault the code must not have: Get-or-Create is not serialized per session.
LookUp_NoLock(c, s) ==
    /\ boxCall[c].pc = "idle"
    /\ \A d \in BoxCalls : d < c => boxCall[d].pc # "idle"
    /\ boxCall' = [boxCall EXCEPT
           ![c] = [pc |-> IF Tracked(s) THEN "holds" ELSE "absent", session |-> s,
                   box |-> live[s].box]]
    /\ UNCHANGED <<docker, made, live, gone, reclaimed, holder, reaper, stopped,
                   status, mishaps>>

\* A tool call takes its session's lock and asks for the live workspace.
\* Calls are numbered in the order they arrive.
LookUp(c, s) ==
    /\ boxCall[c].pc = "idle"
    /\ \A d \in BoxCalls : d < c => boxCall[d].pc # "idle"
    /\ holder[s] = 0
    /\ holder' = IF Tracked(s) THEN holder ELSE [holder EXCEPT ![s] = c]
    /\ boxCall' = [boxCall EXCEPT
           ![c] = [pc |-> IF Tracked(s) THEN "holds" ELSE "absent", session |-> s,
                   box |-> live[s].box]]
    /\ UNCHANGED <<docker, made, live, gone, reclaimed, reaper, stopped, status, mishaps>>

\* Create, first critical section: refuse when closed or full; tear down the
\* handle of an existing live workspace of the session.
AdmitCreate(c) ==
    LET s == boxCall[c].session
        refused == stopped.yes \/ (~Tracked(s) /\ LiveCount >= MaxLive)
    IN /\ boxCall[c].pc = "absent"
       /\ IF refused THEN CallEnds(c) /\ Unlock(c) /\ UNCHANGED <<live, gone>>
          ELSE /\ CallGoes(c, "creating")
               /\ gone' = gone \cup ({live[s].box} \ {0})
               /\ live' = [live EXCEPT ![s] = NoHandle]
               /\ UNCHANGED holder
       /\ UNCHANGED <<docker, made, reclaimed, reaper, stopped, status, mishaps>>

\* docker rm of a stale container, docker create, docker start, and the wait
\* until it runs.
DockerCreates(c) ==
    LET s == boxCall[c].session
    IN /\ boxCall[c].pc = "creating"
       /\ made' = made + 1
       /\ docker' = [docker EXCEPT ![s] = [box |-> made', up |-> TRUE]]
       /\ boxCall' = [boxCall EXCEPT ![c].pc = "created", ![c].box = made']
       /\ UNCHANGED <<live, gone, reclaimed, holder, reaper, stopped, status, mishaps>>

\* One of those commands fails, or the container never runs: what was made is
\* rolled back and the call ends with an error observation.
CreateFails(c) ==
    /\ boxCall[c].pc = "creating"
    /\ BoxFault
    /\ docker' = [docker EXCEPT ![boxCall[c].session] = NoBox]
    /\ CallEnds(c) /\ Unlock(c)
    /\ UNCHANGED <<made, live, gone, reclaimed, reaper, stopped, status>>

\* Create, second critical section: a runtime closed meanwhile removes the
\* container again; otherwise the workspace is live and the lock is released.
Register(c) ==
    LET s == boxCall[c].session
    IN /\ boxCall[c].pc = "created"
       /\ Unlock(c)
       /\ IF stopped.yes
          THEN /\ docker' = [docker EXCEPT ![s] = NoBox]
               /\ CallEnds(c)
               /\ UNCHANGED live
          ELSE /\ live' = [live EXCEPT ![s] = [box |-> boxCall[c].box, age |-> "young"]]
               /\ CallGoes(c, "holds")
               /\ UNCHANGED docker
       /\ UNCHANGED <<made, gone, reclaimed, reaper, stopped, status, mishaps>>

----------------------------------------------------------------------------
\* container.Exec, Read, Write and Mkdir

\* touch: the box was used now, so that it is no longer idle; its total lifetime
\* goes on.
Touch(s, box) ==
    live' = IF live[s].box = box /\ live[s].age = "idle"
            THEN [live EXCEPT ![s].age = "young"] ELSE live

\* Exec of bash, glob or grep: a destroyed handle and a container that does not
\* run fail at once; otherwise the command runs.
ExecBegins(c) ==
    LET s == boxCall[c].session
    IN /\ boxCall[c].pc = "holds"
       /\ IF boxCall[c].box \in gone THEN CallEnds(c) /\ UNCHANGED live
          ELSE /\ Touch(s, boxCall[c].box)
               /\ IF docker[s].up THEN CallGoes(c, "running") ELSE CallEnds(c)
       /\ UNCHANGED <<docker, made, gone, reclaimed, holder, reaper, stopped, status, mishaps>>

\* The read, write and edit tools run short docker execs that neither touch the
\* handle nor are watched.
FileOp(c) ==
    /\ boxCall[c].pc = "holds"
    /\ CallEnds(c)
    /\ UNCHANGED <<docker, made, live, gone, reclaimed, holder, reaper, stopped, status, mishaps>>

\* The command exits, by itself or because its container went away.
ExecEnds(c) ==
    /\ boxCall[c].pc = "running"
    /\ CallEnds(c)
    /\ UNCHANGED <<docker, made, live, gone, reclaimed, holder, reaper, stopped, status, mishaps>>

\* The caller's context ends or the wall-clock cap fires: reapProcessTree sends
\* TERM to the container's first process, which may make it exit.
KillTerm(c) ==
    LET s == boxCall[c].session
    IN /\ boxCall[c].pc = "running"
       /\ \E up \in {docker[s].up, FALSE} : docker' = [docker EXCEPT ![s].up = up]
       /\ CallGoes(c, "killing")
       /\ UNCHANGED <<made, live, gone, reclaimed, holder, reaper, stopped, status, mishaps>>

\* After the grace it sends KILL, which stops the container of that name.
KillKill(c) ==
    LET s == boxCall[c].session
    IN /\ boxCall[c].pc = "killing"
       /\ docker' = [docker EXCEPT ![s].up = FALSE]
       /\ CallEnds(c)
       /\ UNCHANGED <<made, live, gone, reclaimed, holder, reaper, stopped, status, mishaps>>

----------------------------------------------------------------------------
\* The reaper, orphan reconciliation and Close

\* Destroy up to its docker rm: the handle leaves the live set.
TakeOut(s) ==
    /\ live' = [live EXCEPT ![s] = NoHandle]
    /\ gone' = gone \cup ({live[s].box} \ {0})
    /\ reclaimed' = reclaimed \cup ({live[s].box} \ {0})

\* Its docker rm, by name.  An error is returned, and the reaper drops it.
RemoveContainer(s) ==
    \/ docker' = [docker EXCEPT ![s] = NoBox] /\ UNCHANGED mishaps
    \/ /\ Exists(s) /\ mishaps.faults < MaxBoxFaults
       /\ mishaps' = [mishaps EXCEPT !.faults = @ + 1, !.stuck = @ \cup {s}]
       /\ UNCHANGED docker

\* reapOnce snapshots the live set and its ages under the lock.
Sweep ==
    /\ reaper.pc = "ticking" /\ ~stopped.yes
    /\ reaper' = [pc |-> "sweeping",
                  todo |-> {s \in BoxSessions : Tracked(s)},
                  expired |-> {s \in BoxSessions : live[s].age # "young"},
                  rm |-> {}]
    /\ reaper'.todo # {}
    /\ UNCHANGED <<docker, made, live, gone, reclaimed, holder, boxCall, stopped, status, mishaps>>

\* What the lookup of sessionstatus can answer: the status, or an error.
StatusOf(s) == {status[s]} \cup (IF mishaps.faults < MaxBoxFaults THEN {"error"} ELSE {})

\* classify: an ended session is reaped at once, any other by its TTLs.
Classify(s, st) == st = "finished" \/ s \in reaper.expired

LookedUp(st) == IF st = "error" THEN BoxFault ELSE UNCHANGED mishaps

\* The loop goes on to the next entry of the snapshot.
GoesOn(pc, todo) == IF todo = {} THEN Resting
                    ELSE [reaper EXCEPT !.pc = pc, !.todo = todo, !.rm = {}]

\* The reaper classifies one box of the snapshot and takes it out, or keeps it.
ReapOne(s) ==
    /\ reaper.pc = "sweeping" /\ s \in reaper.todo
    /\ \E st \in StatusOf(s) :
           /\ LookedUp(st)
           /\ IF Classify(s, st)
              THEN /\ TakeOut(s)
                   /\ reaper' = [reaper EXCEPT !.pc = "removing", !.todo = @ \ {s}, !.rm = {s}]
              ELSE /\ reaper' = GoesOn("sweeping", reaper.todo \ {s})
                   /\ UNCHANGED <<live, gone, reclaimed>>
    /\ UNCHANGED <<docker, made, holder, boxCall, stopped, status>>

\* The rest of that Destroy, outside the lock.
ReapRemoves ==
    /\ reaper.pc = "removing"
    /\ \E s \in reaper.rm : RemoveContainer(s)
    /\ reaper' = GoesOn("sweeping", reaper.todo)
    /\ UNCHANGED <<made, live, gone, reclaimed, holder, boxCall, stopped, status>>

\* ReconcileOrphans at start: docker ps, less what this process tracks.
ListOrphans ==
    /\ reaper.pc = "starting"
    /\ reaper' = IF \E s \in BoxSessions : Exists(s) /\ ~Tracked(s)
                 THEN [pc |-> "reconciling", expired |-> {}, rm |-> {},
                       todo |-> {s \in BoxSessions : Exists(s) /\ ~Tracked(s)}]
                 ELSE Resting
    /\ UNCHANGED <<docker, made, live, gone, reclaimed, holder, boxCall, stopped, status, mishaps>>

\* An orphan is removed unless its session is known to be active.
ReconcileOne(s) ==
    /\ reaper.pc = "reconciling" /\ s \in reaper.todo
    /\ \E st \in StatusOf(s) :
           /\ LookedUp(st)
           /\ docker' = IF st = "active" THEN docker ELSE [docker EXCEPT ![s] = NoBox]
    /\ reaper' = GoesOn("reconciling", reaper.todo \ {s})
    /\ UNCHANGED <<made, live, gone, reclaimed, holder, boxCall, stopped, status>>

\* Close on shutdown: no Create succeeds from here on.
Close ==
    /\ ~stopped.yes
    /\ stopped' = [yes |-> TRUE, todo |-> {s \in BoxSessions : Tracked(s)}]
    /\ UNCHANGED <<docker, made, live, gone, reclaimed, holder, boxCall, reaper, status, mishaps>>

\* Close destroys the sandboxes it found live, one after the other.
CloseOne(s) ==
    /\ s \in stopped.todo
    /\ stopped' = [stopped EXCEPT !.todo = @ \ {s}]
    /\ TakeOut(s)
    /\ RemoveContainer(s)
    /\ UNCHANGED <<made, holder, boxCall, reaper, status>>

----------------------------------------------------------------------------
\* The surroundings

\* SetSessionStatus ends a session; no session becomes active again.
SessionEnds(s) ==
    /\ status[s] = "active"
    /\ status' = [status EXCEPT ![s] = "finished"]
    /\ UNCHANGED <<docker, made, live, gone, reclaimed, holder, boxCall, reaper, stopped, mishaps>>

\* Time passes for a live box: past the idle TTL, then past the absolute one.
\* The idle TTL (15 minutes) does not pass while a command runs: the wall-clock
\* cap of a command (5 minutes) is shorter.
BoxAges(s) ==
    /\ Tracked(s)
    /\ \/ /\ live[s].age = "young"
          /\ \A c \in BoxCalls : boxCall[c].pc = "running" => boxCall[c].box # live[s].box
          /\ live' = [live EXCEPT ![s].age = "idle"]
       \/ live[s].age # "old" /\ live' = [live EXCEPT ![s].age = "old"]
    /\ UNCHANGED <<docker, made, gone, reclaimed, holder, boxCall, reaper, stopped, status, mishaps>>

\* The daemon dies and starts again: docker keeps its containers, nothing else
\* is kept, and a command that was running goes on inside its container.
Crash ==
    /\ mishaps.crashes < MaxCrashes
    /\ mishaps' = [mishaps EXCEPT !.crashes = @ + 1]
    /\ live' = [s \in BoxSessions |-> NoHandle]
    /\ gone' = {} /\ reclaimed' = {}
    /\ holder' = [s \in BoxSessions |-> 0]
    /\ boxCall' = [c \in BoxCalls |-> IF boxCall[c].pc = "idle" THEN boxCall[c]
                                      ELSE [NoBoxCall EXCEPT !.pc = "over"]]
    /\ reaper' = [Resting EXCEPT !.pc = "starting"]
    /\ stopped' = [yes |-> FALSE, todo |-> {}]
    /\ UNCHANGED <<docker, made, status>>

ToolCallStep(c) ==
    \/ AdmitCreate(c) \/ DockerCreates(c) \/ CreateFails(c) \/ Register(c)
    \/ ExecBegins(c) \/ FileOp(c) \/ ExecEnds(c) \/ KillTerm(c) \/ KillKill(c)

ReaperStep ==
    \/ Sweep \/ ReapRemoves \/ ListOrphans
    \/ \E s \in BoxSessions : ReapOne(s) \/ ReconcileOne(s)

BoxNext ==
    \/ \E c \in BoxCalls, s \in BoxSessions : LookUp(c, s)
    \/ \E c \in BoxCalls : ToolCallStep(c)
    \/ ReaperStep
    \/ Close \/ \E s \in BoxSessions : CloseOne(s) \/ SessionEnds(s) \/ BoxAges(s)
    \/ Crash

\* A goroutine that can move moves, and time passes; docker answers.
BoxFairness ==
    /\ \A c \in BoxCalls : WF_boxVars(ToolCallStep(c))
    /\ WF_boxVars(ReaperStep)
    /\ WF_boxVars(\E s \in BoxSessions : CloseOne(s))
    /\ \A s \in BoxSessions : WF_boxVars(BoxAges(s))

BoxSpec == BoxInit /\ [][BoxNext]_boxVars /\ BoxFairness

----------------------------------------------------------------------------
\* Two calls of one session never tear down each other's sandbox: a handle is
\* marked destroyed only by the reaper or by Close, because Workspace serializes
\* Get-or-Create per session (workspace.go:25-30).
SiblingsKeepTheirBox == gone \subseteq reclaimed

\* Once Close has destroyed what it found and no Create is under way, no
\* container this process made is left, except one docker refused to remove or
\* one left by an earlier crash (runtime.go:196-202, 284-304).
CloseLeavesNothing ==
    (/\ stopped.yes /\ stopped.todo = {} /\ mishaps.crashes = 0
     /\ reaper.pc # "removing"
     /\ \A c \in BoxCalls : boxCall[c].pc \notin {"creating", "created"})
    => \A s \in BoxSessions : Exists(s) => s \in mishaps.stuck

\* Every container this process makes goes away: an ended session's at the next
\* sweep, any other's when its TTL has passed, whatever calls, kills and sweeps
\* come in between, unless docker refused (lifecycle.go:50-58).
ContainersGoAway ==
    <>[](mishaps.crashes = 0 /\ ~stopped.yes
         => \A s \in BoxSessions : Exists(s) => s \in mishaps.stuck)

\* A session keeps its sandbox while its calls use it, and no sandbox outlives the
\* session, its TTL or Close.
SandboxesAreKept == [](SiblingsKeepTheirBox /\ CloseLeavesNothing) /\ ContainersGoAway

-----------------------------------------------------------------------------
(* What the comments say and the code does not keep.  No run checks it: the *)
(* README, under "Where code and documents disagree", tells how it fails.   *)

\* The number of live sandboxes never exceeds the cap, which Create re-checks
\* "under lock in case of a concurrent Create" (runtime.go:197).
WithinLiveCap == LiveCount <= MaxLive

\* A workspace the runtime hands out is running (runtime.go:175-178), and stays
\* so until Destroy: "the container itself is torn down only by Destroy"
\* (container.go:117).
LiveIsRunning == \A s \in BoxSessions : Tracked(s) => docker[s] = [box |-> live[s].box, up |-> TRUE]

\* After a crash too: "Any container that still escapes (crash) is reclaimed by
\* ReconcileOrphans on the next start" (boltrope-toolruntimed/wiring.go:340-341).
OrphansGoAway ==
    <>[](~stopped.yes => \A s \in BoxSessions : Exists(s) => s \in mishaps.stuck)
============================================================================
