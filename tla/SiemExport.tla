----------------------------- MODULE SiemExport -----------------------------
(***************************************************************************)
(* The SIEM exporter (internal/orchestrator/projection/siem_exporter.go)   *)
(* under the projection runner: every batch of the feed becomes one NDJSON *)
(* body that is appended to a file and then POSTed; any error is returned  *)
(* before the runner saves its cursor, so that the batch is read again.    *)
(*                                                                         *)
(* Rows are numbered in the order of the feed.  The file is a sequence of  *)
(* lines: a row's frame, or 0 for a line that is no JSON object.  A write  *)
(* that fails part way leaves an open line, and the next batch's first     *)
(* frame continues it.                                                     *)
(***************************************************************************)
EXTENDS Naturals, Sequences, Functions

CONSTANTS
    MaxRows,        \* bound on the rows of the feed
    SiemBatch,      \* Config.BatchSize
    Sinks,          \* the configured sinks, among "file" and "http"
    MaxSiemFaults   \* bound on failures and crashes

ASSUME SiemAssumption ==
    /\ MaxRows \in Nat /\ MaxSiemFaults \in Nat /\ SiemBatch \in Nat \ {0}
    /\ Sinks \subseteq {"file", "http"}

VARIABLES
    fed,         \* how many rows the feed has
    saved,       \* the subscription's cursor
    export,      \* what the runner is doing, and the last row of its batch
    lines,       \* the lines of the file
    open,        \* whether the file's last line lacks its newline
    received,    \* what the HTTP sink took in, in order
    siemFaults

siemVars == <<fed, saved, export, lines, open, received, siemFaults>>

Idle == [at |-> "idle", upto |-> 0]

SiemInit ==
    /\ fed = 0 /\ saved = 0
    /\ export = Idle
    /\ lines = <<>> /\ open = FALSE
    /\ received = <<>>
    /\ siemFaults = 0

SiemFault == siemFaults < MaxSiemFaults /\ siemFaults' = siemFaults + 1

\* The frames of the rows the batch holds: no payload, and the global_id.
frameOf(last) == [i \in 1..(last - saved) |-> saved + i]

RowArrives ==
    /\ fed < MaxRows
    /\ fed' = fed + 1
    /\ UNCHANGED <<saved, export, lines, open, received, siemFaults>>

\* The runner fetches a batch and calls Project, which renders the frames.
ProjectBatch ==
    /\ export = Idle
    /\ saved < fed
    /\ export' = [at |-> "file", upto |-> IF fed - saved > SiemBatch THEN saved + SiemBatch ELSE fed]
    /\ UNCHANGED <<fed, saved, lines, open, received, siemFaults>>

\* The lines of the file after frames f: behind an open line the first of
\* them is part of that line, which stays no frame.
Appended(f) == lines \o (IF open THEN Tail(f) ELSE f)

\* writeFile: one append of the whole body.
WriteFile ==
    /\ export.at = "file"
    /\ export' = [export EXCEPT !.at = "http"]
    /\ IF "file" \in Sinks
         THEN lines' = Appended(frameOf(export.upto)) /\ open' = FALSE
         ELSE UNCHANGED <<lines, open>>
    /\ UNCHANGED <<fed, saved, received, siemFaults>>

\* Faulty: the write's error is not returned.
WriteFails_Ignored ==
    /\ export.at = "file"
    /\ "file" \in Sinks
    /\ SiemFault
    /\ export' = [export EXCEPT !.at = "http"]
    /\ UNCHANGED <<fed, saved, lines, open, received>>

\* The write fails after n frames and, perhaps, a part of the next one.
WriteFails ==
    /\ export.at = "file"
    /\ "file" \in Sinks
    /\ SiemFault
    /\ \E n \in 0..(export.upto - saved - 1), torn \in BOOLEAN :
          LET whole == SubSeq(frameOf(export.upto), 1, n)
              kept == IF n = 0 THEN lines ELSE Appended(whole)
          IN IF torn
               THEN /\ lines' = IF n = 0 /\ open THEN lines ELSE Append(kept, 0)
                    /\ open' = TRUE
               ELSE lines' = kept /\ open' = (open /\ n = 0)
    /\ export' = Idle
    /\ UNCHANGED <<fed, saved, received>>

\* postHTTP, answered with a 2xx.
PostHTTP ==
    /\ export.at = "http"
    /\ export' = [export EXCEPT !.at = "save"]
    /\ received' = IF "http" \in Sinks THEN received \o frameOf(export.upto) ELSE received
    /\ UNCHANGED <<fed, saved, lines, open, siemFaults>>

\* The POST is refused, or its answer is lost after the sink took the body in.
PostFails ==
    /\ export.at = "http"
    /\ "http" \in Sinks
    /\ SiemFault
    /\ \E taken \in BOOLEAN :
          received' = IF taken THEN received \o frameOf(export.upto) ELSE received
    /\ export' = Idle
    /\ UNCHANGED <<fed, saved, lines, open>>

\* foldAndAdvance saves the cursor.
SaveSiemCursor ==
    /\ export.at = "save"
    /\ saved' = export.upto
    /\ export' = Idle
    /\ UNCHANGED <<fed, lines, open, received, siemFaults>>

\* The save fails, or the process dies before it.
SiemRestarts ==
    /\ export # Idle
    /\ SiemFault
    /\ export' = Idle
    /\ UNCHANGED <<fed, saved, lines, open, received>>

SiemStep == ProjectBatch \/ WriteFile \/ PostHTTP \/ SaveSiemCursor

SiemNext == RowArrives \/ SiemStep \/ WriteFails \/ PostFails \/ SiemRestarts

SiemSpec == SiemInit /\ [][SiemNext]_siemVars /\ WF_siemVars(SiemStep)

-----------------------------------------------------------------------------
(* A SIEM dedups on global_id: it keeps the first appearance of a frame.    *)
(* What it keeps of the HTTP sink is the feed from its start, in order and  *)
(* without a hole (a frame comes after all those before it in the feed),    *)
(* and at least up to the cursor; and the file has a line for every row the *)
(* cursor has passed, or a line that was broken by a failed write in its    *)
(* place (SIEMExporter.Project).                                            *)
SinksKeepUp ==
    /\ \A i \in DOMAIN received :
          received[i] > 0 /\ \A g \in 1..(received[i] - 1) : \E j \in 1..(i - 1) : received[j] = g
    /\ "http" \in Sinks => 1..saved \subseteq Range(received)
    /\ "file" \in Sinks => 1..saved \subseteq Range(lines) \/ 0 \in Range(lines)

-----------------------------------------------------------------------------
(* What one would expect of the file sink and the code does not keep.  No   *)
(* run checks it: the README, under "Where code and documents disagree",    *)
(* tells how it fails.                                                      *)

(* Every row the cursor has passed can be read in the file.                 *)
FileNeverSkips == "file" \in Sinks => \A g \in 1..saved : g \in Range(lines)

=============================================================================
