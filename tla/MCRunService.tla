---------------------------- MODULE MCRunService ----------------------------
(***************************************************************************)
(* The two halves of a Run call, one at a time: the relay that turns the   *)
(* session's log into the frames of the client, and the registry of runs   *)
(* with the approval gate and the pool of connections.  A behaviour is one *)
(* of the active half; the other stays in its first state.                 *)
(***************************************************************************)
EXTENDS Relay, RunControl

VARIABLE active

RunServiceInit ==
    /\ active \in {"relay", "control"}
    /\ RelayInit /\ (active # "relay" => client.transport = CHOOSE t \in Transports : TRUE)
    /\ ControlInit

\* The relay is the same behind every transport, and only the REST stream is taken
\* up again with a cursor.  The others differ in how a frame is written and in how a
\* call ends: one call and one event show that.
RelayPart == RelayNext /\ (client.transport # "rest" => client'.calls <= 1 /\ Len(log') <= 1)

RunServiceNext ==
    /\ UNCHANGED active
    /\ \/ active = "relay" /\ RelayPart /\ UNCHANGED controlVars
       \/ active = "control" /\ ControlNext /\ UNCHANGED relayVars

\* The fairness of each half, while it is the active one.
RunServiceSpec ==
    /\ RunServiceInit /\ [][RunServiceNext]_<<relayVars, controlVars, active>>
    /\ WF_relayVars(active = "relay" /\ (TailDrain \/ TailSend \/ TailTick \/ TailCancelled))
    /\ WF_relayVars(active = "relay" /\ RelayStep)
    /\ WF_relayVars(active = "relay" /\ ContextDone)
    /\ WF_relayVars(active = "relay" /\ (LoopAskHead \/ LoopAskSend))
    /\ \A r \in Runs : /\ WF_controlVars(active = "control" /\ HandlerStep(r))
                       /\ WF_controlVars(active = "control" /\ LoopStep(r))
=============================================================================
