----------------------------- MODULE CostRollup ----------------------------
(***************************************************************************)
(* Which model a turn's cost is charged to.  TurnStarted names the model;  *)
(* the terminal event of the turn, some batches of the feed later, carries *)
(* the cost.  The cost projector joins them when it writes the row of the  *)
(* terminal event, from a map of the turns it saw start or, when the map   *)
(* has been lost in a restart, from the events table; a row is written     *)
(* once and never corrected.  The development store has no table and folds *)
(* the whole log for every answer.                                         *)
(*                                                                         *)
(* The feed is a sequence, its positions the global ids (module EventFeed  *)
(* says why the runner sees it so).  Cost and usage are one unit a row.    *)
(***************************************************************************)
EXTENDS Naturals, Sequences, FiniteSets, Functions, FiniteSetsExt

CONSTANTS
    CostSessions,   \* session ids
    Forked,         \* those of them that were forked in the middle of a turn
    Models,         \* models a turn may be started with
    MaxFeed,        \* rows of the feed
    CostBatch,      \* rows of a batch
    MaxCostFaults   \* failed statements and restarts

ASSUME CostAssumption ==
    /\ Forked \subseteq CostSessions /\ "" \notin Models
    /\ MaxFeed \in Nat /\ CostBatch \in Nat \ {0} /\ MaxCostFaults \in Nat

VARIABLES
    feed,          \* the events, [session, type, turn, model]
    costRows,      \* session_cost_events: global_id -> model
    modelByTurn,   \* the projector's map: <<session, turn>> -> model
    projector,     \* [step, to, at]: the batch in hand ends at to, row at is next
    position,      \* the saved cursor
    blurred,       \* rows whose model could not be looked up
    costFaults     \* faults so far

costVars == <<feed, costRows, modelByTurn, projector, position, blurred, costFaults>>

Resting == [step |-> "poll", to |-> 0, at |-> 0]

CostInit ==
    /\ feed = << >> /\ costRows = << >> /\ modelByTurn = << >>
    /\ projector = Resting /\ position = 0 /\ blurred = {} /\ costFaults = 0

----------------------------------------------------------------------------
(* The log.                                                                 *)

Of(s) == {g \in DOMAIN feed : feed[g].session = s}
Started(s) == {g \in Of(s) : feed[g].type = "TurnStarted"}

\* The turn a terminal event of s would close: the last one that started.  A
\* session forked in the middle of turn 0 closes that turn first.
LastTurn(s) == IF Started(s) = {} THEN 0 ELSE Max(Started(s))

\* runTurn and terminate start a turn.  A turn that goes on with tool calls gets
\* no terminal event: the turn that ends the run carries the cost of all.
TurnStarts(s, m) ==
    /\ Len(feed) < MaxFeed
    /\ feed' = Append(feed, [session |-> s, type |-> "TurnStarted", turn |-> Len(feed) + 1, model |-> m])
    /\ UNCHANGED <<costRows, modelByTurn, projector, position, blurred, costFaults>>

\* finishTurn, or TurnAborted from the turn itself or from a resume.
TurnEnds(s) ==
    /\ Len(feed) < MaxFeed
    /\ IF Started(s) = {} THEN s \in Forked /\ Of(s) = {}
       ELSE \A g \in Of(s) : feed[g].type = "TurnEnded" => feed[g].turn # LastTurn(s)
    /\ feed' = Append(feed, [session |-> s, type |-> "TurnEnded", turn |-> LastTurn(s), model |-> ""])
    /\ UNCHANGED <<costRows, modelByTurn, projector, position, blurred, costFaults>>

----------------------------------------------------------------------------
(* CostProjector.Project, inside the runner's poll.                         *)

turnKey(g) == <<feed[g].session, feed[g].turn>>

\* The batch is fetched, and the models of the turns that start in it noted.
NoteModels ==
    /\ projector.step = "poll" /\ position < Len(feed)
    /\ LET to   == IF position + CostBatch < Len(feed) THEN position + CostBatch ELSE Len(feed)
           news == {g \in (position + 1)..to : feed[g].type = "TurnStarted"}
       IN  /\ projector' = [step |-> "write", to |-> to, at |-> position + 1]
           /\ modelByTurn' = [k \in DOMAIN modelByTurn \cup {turnKey(g) : g \in news} |->
                                IF \E g \in news : turnKey(g) = k THEN feed[k[2]].model
                                ELSE modelByTurn[k]]
    /\ UNCHANGED <<feed, costRows, position, blurred, costFaults>>

Pass(g) == projector' = [projector EXCEPT !.at = g + 1]

SkipRow ==
    /\ projector.step = "write" /\ projector.at <= projector.to
    /\ feed[projector.at].type # "TurnEnded"
    /\ Pass(projector.at)
    /\ UNCHANGED <<feed, costRows, modelByTurn, position, blurred, costFaults>>

\* Fault: the lookup has no bound on seq, and finds a turn that started later.
recoverModel_Latest(g) ==
    LET before == Started(feed[g].session)
    IN  IF before = {} THEN "" ELSE feed[Max(before)].model

\* recoverModelSQL: the last turn of the session that started before the event,
\* whichever turn the event is about.
recoverModel(g) ==
    LET before == {h \in Started(feed[g].session) : h < g}
    IN  IF before = {} THEN "" ELSE feed[Max(before)].model

\* insertCostEventSQL: ON CONFLICT (global_id) DO NOTHING.
InsertCost(g, model) ==
    costRows' = [h \in DOMAIN costRows \cup {g} |-> IF h \in DOMAIN costRows THEN costRows[h] ELSE model]

CostFault == costFaults < MaxCostFaults /\ costFaults' = costFaults + 1

\* resolveModel and writeCostRow: the map, then the lookup, then no model.  The
\* map's entry is dropped once the row is written.
WriteCostRow ==
    /\ projector.step = "write" /\ projector.at <= projector.to
    /\ LET g == projector.at
       IN  /\ feed[g].type = "TurnEnded"
           /\ IF turnKey(g) \in DOMAIN modelByTurn
              THEN InsertCost(g, modelByTurn[turnKey(g)]) /\ UNCHANGED <<blurred, costFaults>>
              ELSE \/ InsertCost(g, recoverModel(g)) /\ UNCHANGED <<blurred, costFaults>>
                   \/ CostFault /\ InsertCost(g, "") /\ blurred' = blurred \cup ({g} \ DOMAIN costRows)
           /\ modelByTurn' = Restrict(modelByTurn, DOMAIN modelByTurn \ {turnKey(g)})
           /\ Pass(g)
    /\ UNCHANGED <<feed, position>>

\* An insert or the save fails: the batch is fetched again at the next poll.
BatchFails ==
    /\ projector.step = "write" /\ CostFault
    /\ projector' = Resting
    /\ UNCHANGED <<feed, costRows, modelByTurn, position, blurred>>

\* foldAndAdvance: the cursor is saved once every row is written.
CostCursorSaved ==
    /\ projector.step = "write" /\ projector.at > projector.to
    /\ position' = projector.to /\ projector' = Resting
    /\ UNCHANGED <<feed, costRows, modelByTurn, blurred, costFaults>>

\* projectord is restarted: the map is gone.
ProjectorRestarts ==
    /\ CostFault
    /\ modelByTurn' = << >> /\ projector' = Resting
    /\ UNCHANGED <<feed, costRows, position, blurred>>

CostNext ==
    \/ \E s \in CostSessions : TurnEnds(s) \/ (\E m \in Models : TurnStarts(s, m))
    \/ NoteModels \/ SkipRow \/ WriteCostRow \/ CostCursorSaved
    \/ BatchFails \/ ProjectorRestarts

CostSpec == CostInit /\ [][CostNext]_costVars

----------------------------------------------------------------------------
(* What is read.                                                            *)

\* SUM(...) GROUP BY model over the rows of some sessions: rows per model.
CostByModel(sessions) ==
    [m \in Models \cup {""} |->
       Cardinality({g \in DOMAIN costRows : feed[g].session \in sessions /\ costRows[g] = m})]

\* devFoldModelCost over the first n events: the terminal events, each charged to
\* the model its own turn was started with.
devFoldModelCost(sessions, n) ==
    LET charged(g) == IF \E h \in Started(feed[g].session) : h <= n /\ feed[h].turn = feed[g].turn
                      THEN feed[feed[g].turn].model ELSE ""
    IN  [m \in Models \cup {""} |->
           Cardinality({g \in 1..n : /\ feed[g].session \in sessions
                                     /\ feed[g].type = "TurnEnded" /\ charged(g) = m})]

----------------------------------------------------------------------------
(* Properties                                                               *)

\* Between two polls the table answers GetSessionCost and GetTenantCost as the
\* fold of the log does, model by model: no turn is charged twice or left out, nor
\* charged to the model of another turn, across batches, retries and restarts.
\* Rows whose lookup failed are under no model instead.
RollupIsTheFold ==
    projector.step = "poll" /\ DOMAIN costRows \subseteq 1..position =>
      /\ DOMAIN costRows = {g \in 1..position : feed[g].type = "TurnEnded"}
      /\ \A S \in SUBSET CostSessions :
           LET rows == CostByModel(S)
               fold == devFoldModelCost(S, position)
           IN  /\ blurred = {} => rows = fold
               /\ \A m \in Models : rows[m] <= fold[m] /\ fold[m] <= rows[m] + Cardinality(blurred)

-----------------------------------------------------------------------------
(* What a comment says and the code does not keep.  No run checks it: the   *)
(* README, under "Where code and documents disagree", tells how it fails.   *)

\* "Bounded in practice (one entry per in-flight turn, removed when the turn's
\* terminal event is folded)": between two polls a session has at most one entry
\* in the map.
OneEntryPerSession ==
    projector.step = "poll" =>
      \A s \in CostSessions : Cardinality({k \in DOMAIN modelByTurn : k[1] = s}) <= 1
============================================================================
