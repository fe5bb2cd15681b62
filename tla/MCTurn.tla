------------------------------- MODULE MCTurn -------------------------------
(***************************************************************************)
(* The parts of a turn, one at a time: the loop and its caps, the stream   *)
(* of a model's answer, the conversation the requests are built from, and  *)
(* the decision whether a call may run.  A behaviour is one of the active  *)
(* part; the others stay in their first state.                             *)
(***************************************************************************)
EXTENDS MCAgentLoop, ModelStream, Conversation, Permission

VARIABLE active

parts == <<vars, streamVars, dialogVars, gateVars>>

-----------------------------------------------------------------------------
(* Rules of both effects and every kind of match, calls that leave the      *)
(* network or not, and hooks of which one is not for the event.             *)

Rule(effect, tool, kind, arg) == [effect |-> effect, tool |-> tool, match |-> [kind |-> kind, arg |-> arg]]

MCRules ==
    {Rule("deny", "any", "host", <<"corp">>), Rule("deny", "bash", "prefix", <<"r">>),
     Rule("deny", "edit", "none", << >>), Rule("allow", "any", "none", << >>),
     Rule("allow", "fetch", "host", <<"docs", "corp">>), Rule("allow", "bash", "literal", <<"m">>)}

MCToolArgs ==
    {[tool |-> "fetch", mutating |-> TRUE, egress |-> "external", host |-> <<"docs", "corp">>, text |-> << >>],
     [tool |-> "bash", mutating |-> TRUE, egress |-> "internal", host |-> << >>, text |-> <<"r", "m">>],
     [tool |-> "edit", mutating |-> TRUE, egress |-> "none", host |-> << >>, text |-> <<"m">>],
     [tool |-> "plug", mutating |-> FALSE, egress |-> "unset", host |-> <<"net">>, text |-> << >>]}

MCHooks == <<{}, {"Stop"}, {"PreToolUse"}>>

-----------------------------------------------------------------------------

TurnInit ==
    /\ active \in {"loop", "stream", "dialog", "gate"}
    /\ Init
    /\ StreamInit /\ (active # "stream" => provider = CHOOSE p \in Providers : TRUE)
    /\ DialogInit /\ (active # "dialog" => target = CHOOSE p \in ModelProviders : TRUE)
    /\ PermissionInit
    /\ active # "gate" => /\ ruleSet = << >> /\ ~tainted
                          /\ gateMode = CHOOSE m \in Modes : TRUE
                          /\ gate.call = CHOOSE c \in ToolArgs : TRUE

TurnNext ==
    /\ UNCHANGED active
    /\ \/ active = "loop" /\ Next /\ UNCHANGED <<streamVars, dialogVars, gateVars>>
       \/ active = "stream" /\ StreamNext /\ UNCHANGED <<vars, dialogVars, gateVars>>
       \/ active = "dialog" /\ DialogNext /\ UNCHANGED <<vars, streamVars, gateVars>>
       \/ active = "gate" /\ PermissionNext /\ UNCHANGED <<vars, streamVars, dialogVars>>

\* The fairness of ModelStream, while it is the active part.
TurnSpec ==
    /\ TurnInit /\ [][TurnNext]_<<parts, active>>
    /\ WF_streamVars(active = "stream" /\ GatewayStep)
    /\ WF_streamVars(active = "stream" /\ CallerStep)
=============================================================================
