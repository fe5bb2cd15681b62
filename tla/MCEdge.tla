------------------------------- MODULE MCEdge -------------------------------
(***************************************************************************)
(* What stands around the log, one part at a time: the appends of two      *)
(* writers that come to an end, the handlers and the token check of the    *)
(* edge, the listing and the totals of the read API, the verification of a *)
(* window of the chain, the in-memory store of the development server, the *)
(* command line client, the start and the shutdown of a daemon, and the    *)
(* schema migration.  A behaviour is one of the active part; the others    *)
(* stay in their first state.                                              *)
(***************************************************************************)
EXTENDS EventStore, FrontEnd, ReadApi, ChainVerify, DevStore, Cli, Daemon, Migrate

VARIABLE active

Parts == {"appends", "calls", "tokens", "listing", "totals", "audit", "dev", "cli", "daemon", "schema"}

\* Every global flag in its forms, one of them twice, and an unknown one.
MCSettings ==
    {[name |-> "endpoint", form |-> "space", val |-> "e1"], [name |-> "endpoint", form |-> "eq", val |-> "e2"],
     [name |-> "session", form |-> "space", val |-> "s1"], [name |-> "insecure", form |-> "bare", val |-> ""],
     [name |-> "other", form |-> "eq", val |-> "x"]}

\* A part that is not active has one first state.
EdgePartsInit ==
    /\ active \in Parts
    /\ Init /\ ReadInit /\ DevInit /\ MigrateInit
    /\ EdgeInit /\ (active # "tokens" => published = {CHOOSE k \in Kids : TRUE})
    /\ VerifyInit /\ (active # "audit" => forkedFrom = 0 /\ legacy = 0)
    /\ DaemonInit /\ (active # "daemon" => via = [h \in Handlers |-> "grpc"])
    /\ IF active = "cli" THEN CliInit
       ELSE /\ meant = [settings |-> << >>, sub |-> "run", rest |-> << >>, terminated |-> FALSE]
            /\ env = [endpoint |-> "", session |-> "", insecure |-> FALSE, devInsecure |-> FALSE]
            /\ cli = [pc |-> "start", cfg |-> NoCfg, sub |-> "", code |-> 0]
            /\ rpcs = << >> /\ printed = << >>

EdgePartsNext ==
    /\ UNCHANGED active
    /\ \/ active = "appends" /\ Next
          /\ UNCHANGED <<edgeVars, readVars, verifyVars, devVars, cliVars, daemonVars, migrateVars>>
       \/ /\ \/ active = "calls" /\ CallNext
             \/ active = "tokens" /\ AuthNext
          /\ UNCHANGED <<vars, readVars, verifyVars, devVars, cliVars, daemonVars, migrateVars>>
       \/ /\ \/ active = "listing" /\ ListingNext
             \/ active = "totals" /\ TotalsNext
          /\ UNCHANGED <<vars, edgeVars, verifyVars, devVars, cliVars, daemonVars, migrateVars>>
       \/ active = "audit" /\ VerifyNext
          /\ UNCHANGED <<vars, edgeVars, readVars, devVars, cliVars, daemonVars, migrateVars>>
       \/ active = "dev" /\ DevNext
          /\ UNCHANGED <<vars, edgeVars, readVars, verifyVars, cliVars, daemonVars, migrateVars>>
       \/ active = "cli" /\ CliNext
          /\ UNCHANGED <<vars, edgeVars, readVars, verifyVars, devVars, daemonVars, migrateVars>>
       \/ active = "daemon" /\ DaemonNext
          /\ UNCHANGED <<vars, edgeVars, readVars, verifyVars, devVars, cliVars, migrateVars>>
       \/ active = "schema" /\ MigrateNext
          /\ UNCHANGED <<vars, edgeVars, readVars, verifyVars, devVars, cliVars, daemonVars>>

\* The fairness of the two parts with a liveness property, while they are active.
EdgePartsSpec ==
    /\ EdgePartsInit
    /\ [][EdgePartsNext]_<<vars, edgeVars, readVars, verifyVars, devVars, cliVars, daemonVars,
                           migrateVars, active>>
    /\ \A c \in Calls : /\ WF_vars(active = "appends" /\ CallStep(c))
                        /\ SF_vars(active = "appends" /\ Gate(c))
    /\ WF_authVars(active = "tokens" /\ TimePasses)
    /\ \A k \in Kids : WF_authVars(active = "tokens" /\ CallerReturns(k))
=============================================================================
