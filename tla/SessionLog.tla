----------------------------- MODULE SessionLog -----------------------------
(***************************************************************************)
(* What the event store promises its callers (app.EventLogPort, ADR-0011): *)
(* the log of a session changes only by an atomic compare-and-append.  A   *)
(* batch goes to the end of the log as a whole, when the log has exactly   *)
(* the length its sender expects and the sender still owns the open        *)
(* session, and never twice.                                               *)
(***************************************************************************)
EXTENDS Integers, Sequences

CONSTANTS Sessions, Requests, None

VARIABLES
    log,      \* the own events of a session, oldest first
    base,     \* the number of events it inherited from the session it was forked from
    state,    \* absent, active or closed
    owner,    \* the epoch of the current owner
    asked     \* the append each request id stands for

vars == <<log, base, state, owner, asked>>

Batch(r) == [i \in 1..asked[r].n |-> <<r, i>>]

Landed(r) == \E s \in Sessions : \E k \in 1..Len(log[s]) : log[s][k][1] = r

Init ==
    /\ log = [s \in Sessions |-> << >>]
    /\ base = [s \in Sessions |-> 0]
    /\ state = [s \in Sessions |-> "absent"]
    /\ owner = [s \in Sessions |-> 0]
    /\ asked = [r \in Requests |-> [session |-> None, expected |-> 0, epoch |-> 0, n |-> 0]]

\* A session appears empty, on its own or on top of a prefix of another one.
Open(s) ==
    /\ state[s] = "absent"
    /\ state' = [state EXCEPT ![s] = "active"]
    /\ \/ UNCHANGED base
       \/ \E p \in Sessions \ {s} : \E b \in 0..(base[p] + Len(log[p])) :
              base' = [base EXCEPT ![s] = b]
    /\ UNCHANGED <<log, owner, asked>>

Close(s) ==
    /\ state[s] # "absent"
    /\ state' = [state EXCEPT ![s] = "closed"]
    /\ UNCHANGED <<log, base, owner, asked>>

Takeover(s) ==
    /\ owner' = [owner EXCEPT ![s] = @ + 1]
    /\ UNCHANGED <<log, base, state, asked>>

\* The arguments of an append are fixed when it is first sent.
Ask(r) ==
    /\ asked[r].n = 0
    /\ asked' = [asked EXCEPT ![r] = asked'[r]]
    /\ asked'[r].n # 0
    /\ UNCHANGED <<log, base, state, owner>>

AppendBatch(r) ==
    LET a == asked[r] IN
    /\ a.n # 0
    /\ ~ Landed(r)
    /\ state[a.session] = "active"
    /\ owner[a.session] = a.epoch
    /\ base[a.session] + Len(log[a.session]) = a.expected
    /\ log' = [log EXCEPT ![a.session] = @ \o Batch(r)]
    /\ UNCHANGED <<base, state, owner, asked>>

Next ==
    \/ \E s \in Sessions : Open(s) \/ Close(s) \/ Takeover(s)
    \/ \E r \in Requests : Ask(r) \/ AppendBatch(r)

Spec == Init /\ [][Next]_vars
=============================================================================
