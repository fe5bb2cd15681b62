------------------------------- MODULE Blobs -------------------------------
(***************************************************************************)
(* Tool output too large for the log.  The tool runtime writes the bytes   *)
(* to the blob store (execute/service.go offload, platform/blob/           *)
(* fsstore.go) and answers with their key; the orchestrator appends a      *)
(* ToolResult that refers to the key (eventstore rows.go, sessions.go);    *)
(* projectord sweeps blobs rows that no event refers to (projection/       *)
(* sweeper.go).                                                            *)
(*                                                                         *)
(* A blob is two files, the payload and the metadata, each written by a    *)
(* rename and removed by itself.  A key is the hash of the content, so two *)
(* calls with the same output share one blob.  The loop appends with       *)
(* Append; AppendWithBlob, which inserts the blobs row in the transaction  *)
(* of the event, has no caller outside the tests.  Both are modelled.      *)
(***************************************************************************)
EXTENDS Naturals, FiniteSets

CONSTANTS
    Contents,        \* the keys of the outputs that calls produce
    Leftovers,       \* keys of old rows that no event refers to, at the start
    MaxOutputs,      \* bound on the calls with a large output
    AppendPaths,     \* which of "Append" and "AppendWithBlob" the writers use
    MaxBlobFaults    \* bound on failed writes, rollbacks and failed sweeps

ASSUME BlobAssumption ==
    /\ MaxOutputs \in Nat /\ MaxBlobFaults \in Nat
    /\ AppendPaths \subseteq {"Append", "AppendWithBlob"}

Keys == Contents \cup Leftovers
Outputs == 1..MaxOutputs

VARIABLES
    payload,     \* the keys with a payload file
    meta,        \* the keys with a metadata file
    rowAge,      \* the blobs rows: "none", or created within or before the grace period
    refs,        \* the keys in events.blob_ref
    output,      \* a call's output: its key, its writer's way to append, its stage
    sweep,       \* a pass of the sweeper: the candidates left, and the step on one
    blobFaults

blobVars == <<payload, meta, rowAge, refs, output, sweep, blobFaults>>

NoPass == [at |-> "idle", todo |-> {}]

BlobInit ==
    /\ payload = Leftovers /\ meta = Leftovers
    /\ rowAge = [k \in Keys |-> IF k \in Leftovers THEN "old" ELSE "none"]
    /\ refs = {}
    /\ output \in [Outputs -> [key : Contents, path : AppendPaths, at : {"new"}]]
    /\ sweep = NoPass
    /\ blobFaults = 0

BlobFault == blobFaults < MaxBlobFaults /\ blobFaults' = blobFaults + 1

Move(c, from, to) ==
    /\ output[c].at = from
    /\ output' = [output EXCEPT ![c].at = to]

-----------------------------------------------------------------------------
\* Put, first half: the payload is renamed into place.
PutPayload(c) ==
    /\ Move(c, "new", "half")
    /\ payload' = payload \cup {output[c].key}
    /\ UNCHANGED <<meta, rowAge, refs, sweep, blobFaults>>

\* Put, second half: the metadata is; offload puts the key into the observation.
PutMeta(c) ==
    /\ Move(c, "half", "stored")
    /\ meta' = meta \cup {output[c].key}
    /\ UNCHANGED <<payload, rowAge, refs, sweep, blobFaults>>

\* A write fails, or the output is over the store's limit: the call fails and
\* the files written so far stay.
PutFails(c) ==
    /\ BlobFault
    /\ \E from \in {"new", "half"} : Move(c, from, "failed")
    /\ UNCHANGED <<payload, meta, rowAge, refs, sweep>>

\* What the loop does: Append gets an event with a blob_ref and no BlobUpload,
\* insertEvent refuses it, and the run ends with the error.
AppendResult(c) ==
    /\ output[c].path = "Append"
    /\ Move(c, "stored", "refused")
    /\ UNCHANGED <<payload, meta, rowAge, refs, sweep, blobFaults>>

\* The run is resumed: the call has no result in the log, the ledger has its
\* observation, and feedToolResult appends that.
ResumeAfterRefusal(c) ==
    /\ Move(c, "refused", "stored")
    /\ UNCHANGED <<payload, meta, rowAge, refs, sweep, blobFaults>>

\* AppendWithBlob: the row (ON CONFLICT DO NOTHING keeps an old one as it is)
\* and the event commit together.
AppendWithBlob(c) ==
    /\ output[c].path = "AppendWithBlob"
    /\ Move(c, "stored", "recorded")
    /\ rowAge' = [rowAge EXCEPT ![output[c].key] = IF @ = "none" THEN "young" ELSE @]
    /\ refs' = refs \cup {output[c].key}
    /\ UNCHANGED <<payload, meta, sweep, blobFaults>>

\* The transaction fails: neither row nor event, and the caller gives up.
AppendRollsBack(c) ==
    /\ output[c].path = "AppendWithBlob"
    /\ BlobFault
    /\ Move(c, "stored", "abandoned")
    /\ UNCHANGED <<payload, meta, rowAge, refs, sweep>>

\* The grace period of the rows there are goes by.
GraceEnds ==
    /\ \E k \in Keys : rowAge[k] = "young"
    /\ rowAge' = [k \in Keys |-> IF rowAge[k] = "young" THEN "old" ELSE rowAge[k]]
    /\ UNCHANGED <<payload, meta, refs, output, sweep, blobFaults>>

-----------------------------------------------------------------------------
\* orphanBlobsSQL.
Orphans == {k \in Keys : rowAge[k] = "old" /\ k \notin refs}

\* Faulty: every row past the grace period, referred to or not.
FindOrphans_AgeOnly ==
    /\ sweep = NoPass
    /\ {k \in Keys : rowAge[k] = "old"} # {}
    /\ sweep' = [at |-> "payload", todo |-> {k \in Keys : rowAge[k] = "old"}]
    /\ UNCHANGED <<payload, meta, rowAge, refs, output, blobFaults>>

\* Sweep, on its tick: findOrphans.
FindOrphans ==
    /\ sweep = NoPass
    /\ Orphans # {}
    /\ sweep' = [at |-> "payload", todo |-> Orphans]
    /\ UNCHANGED <<payload, meta, rowAge, refs, output, blobFaults>>

\* Sweep takes the candidates in turn (here in any order): store.Delete
\* removes the payload ...
DeletePayload ==
    /\ sweep.at = "payload"
    /\ \E k \in sweep.todo :
          /\ payload' = payload \ {k}
          /\ sweep' = [at |-> "meta", todo |-> sweep.todo, on |-> k]
    /\ UNCHANGED <<meta, rowAge, refs, output, blobFaults>>

\* ... then the metadata ...
DeleteMeta ==
    /\ sweep.at = "meta"
    /\ meta' = meta \ {sweep.on}
    /\ sweep' = [sweep EXCEPT !.at = "row"]
    /\ UNCHANGED <<payload, rowAge, refs, output, blobFaults>>

\* ... and deleteBlobRowSQL the row, unless an event refers to it by now.
DeleteRow ==
    /\ sweep.at = "row"
    /\ rowAge' = IF sweep.on \in refs THEN rowAge ELSE [rowAge EXCEPT ![sweep.on] = "none"]
    /\ sweep' = IF sweep.todo = {sweep.on} THEN NoPass
                ELSE [at |-> "payload", todo |-> sweep.todo \ {sweep.on}]
    /\ UNCHANGED <<payload, meta, refs, output, blobFaults>>

\* A delete fails, or the process dies: the pass ends where it is.
SweepFails ==
    /\ sweep # NoPass
    /\ BlobFault
    /\ sweep' = NoPass
    /\ UNCHANGED <<payload, meta, rowAge, refs, output>>

SweepStep == FindOrphans \/ DeletePayload \/ DeleteMeta \/ DeleteRow

OutputStep(c) ==
    PutPayload(c) \/ PutMeta(c) \/ AppendResult(c) \/ ResumeAfterRefusal(c) \/ AppendWithBlob(c)

BlobNext ==
    \/ \E c \in Outputs : OutputStep(c) \/ PutFails(c) \/ AppendRollsBack(c)
    \/ GraceEnds
    \/ SweepStep \/ SweepFails

BlobFairness ==
    /\ \A c \in Outputs : WF_blobVars(OutputStep(c))
    /\ WF_blobVars(GraceEnds)
    /\ WF_blobVars(SweepStep)

BlobSpec == BlobInit /\ [][BlobNext]_blobVars /\ BlobFairness

-----------------------------------------------------------------------------
\* FSStore.Get finds both files.
Get(k) == k \in meta /\ k \in payload

(* What the log refers to is there: an event's blob_ref has its row, and    *)
(* the row's bytes can be read, whatever the sweeper (Sweep) and rolled     *)
(* back appends did around it.                                              *)
ReferencedIsReadable == \A k \in refs : rowAge[k] # "none" /\ Get(k)

(* A large output that was stored gets into the log as a ToolResult (the    *)
(* BlobRef of domain.ToolResult), if need be after the run is resumed.      *)
LargeResultsLand ==
    \A c \in Outputs : output[c].at = "stored" ~> output[c].at \in {"recorded", "abandoned"}

-----------------------------------------------------------------------------
(* What the comments say and the code does not keep.  No run checks it: the *)
(* README, under "Where code and documents disagree", tells how it fails.   *)

(* The bytes of an append that did not commit are reclaimed (Sweep).        *)
AbandonedBytesGo ==
    \A k \in Contents :
        <>[](k \in payload => \E c \in Outputs : output[c].key = k /\ output[c].at # "abandoned")

=============================================================================
