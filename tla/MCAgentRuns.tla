---------------------------- MODULE MCAgentRuns ----------------------------
(***************************************************************************)
(* Runs of AgentLoop on one session, in two scenarios: two loops that      *)
(* overlap, with two Run calls between them and every decision; and one    *)
(* loop run three times in a row around a call that needs a human, stopped *)
(* anywhere, also while a resumed ask is adjudicated.                      *)
(***************************************************************************)
EXTENDS MCAgentLoop

VARIABLE scenario

\* The loop of the second scenario.
Lone == CHOOSE l \in Loops : TRUE

RunsInit == Init /\ scenario \in {"overlap", "resume"}

RunsNext ==
    /\ Next
    /\ CASE scenario = "overlap" -> runs' <= 2
         [] scenario = "resume" -> /\ \A l \in Loops \ {Lone} : loop'[l] = loop[l]
                                   /\ ~ (Deny(Lone) \/ Allow(Lone))
    /\ UNCHANGED scenario

RunsSpec == RunsInit /\ [][RunsNext]_<<vars, scenario>> /\ Fairness
=============================================================================
