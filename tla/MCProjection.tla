---------------------------- MODULE MCProjection ----------------------------
(***************************************************************************)
(* The consumers of the event feed and the keeping of the bytes, one at a  *)
(* time: a projection with three rows and transactions that overlap, the   *)
(* audit signer with four rows and one transaction at a time, the cost     *)
(* roll-up, the SIEM exporter, and the blobs with their sweeper.  A        *)
(* behaviour is one of the active part; the others stay in their first     *)
(* state.                                                                  *)
(***************************************************************************)
EXTENDS AuditSigner, CostRollup, SiemExport, Blobs

VARIABLE active

ProjectionInit ==
    /\ active \in {"runner", "audit", "cost", "siem", "blobs"}
    /\ AuditInit /\ CostInit /\ SiemInit
    /\ BlobInit
    /\ active # "blobs" =>
          \A o \in Outputs : output[o] = [key |-> "a", path |-> "Append", at |-> "new"]

\* Three rows and three transactions are enough for numbers taken in opposite
\* orders, a commit behind an open transaction and a full batch before a short one.
RunnerPart == Next /\ Len(rows') <= 3 /\ UNCHANGED signerVars

ProjectionNext ==
    /\ UNCHANGED active
    /\ \/ /\ \/ active = "runner" /\ RunnerPart
             \/ active = "audit" /\ AuditNext
          /\ UNCHANGED <<costVars, siemVars, blobVars>>
       \/ active = "cost" /\ CostNext /\ UNCHANGED <<auditVars, siemVars, blobVars>>
       \/ active = "siem" /\ SiemNext /\ UNCHANGED <<auditVars, costVars, blobVars>>
       \/ active = "blobs" /\ BlobNext /\ UNCHANGED <<auditVars, costVars, siemVars>>

\* The fairness of the runner and of the signer, while they are active.
ProjectionSpec ==
    /\ ProjectionInit /\ [][ProjectionNext]_<<auditVars, costVars, siemVars, blobVars, active>>
    /\ \A x \in 1..MaxTx : WF_tx(active \in {"runner", "audit"} /\ (CommitTx(x) \/ AbortTx(x)))
    /\ \A w \in Workers : /\ WF_vars(active = "runner" /\ Work(w))
                          /\ \/ []<>(active # "audit" \/ ~Busy(w))
                             \/ []<><<AuditWork(w)>>_auditVars

\* The signer anchors the log exactly: its chain verifies, no row is in it twice or
\* left behind, and where the signer is the consumer every committed row is anchored
\* in the end, also after crashes between the save of the cursor and the checkpoint.
AnchoredExactlyOnce ==
    /\ [](UntamperedVerifies /\ AnchoredOnce /\ NothingStranded)
    /\ active = "audit" => EventuallyAnchored
=============================================================================
