---------------------------- MODULE MCEventStore ----------------------------
(* Instances of EventStore for TLC, and the properties of forked timelines,  *)
(* whose definition follows the chain of parents.                            *)
EXTENDS EventStore, TLC

\* Sessions, request ids and connections are interchangeable.
Symmetry == Permutations(Sessions) \cup Permutations(Requests) \cup Permutations(Calls)

RECURSIVE Timeline(_)
\* The composed root-to-leaf timeline of a session: its own events after the
\* timeline of its parent up to the fork point.
Timeline(s) ==
    Load(s) \cup IF parent[s] = None
                   THEN {}
                   ELSE {e \in Timeline(parent[s]) : e.seq <= fork[s]}

\* However sessions are forked from each other, also below their own fork point,
\* and however their parents go on, the composed timeline of a session has one
\* event for every number up to its head: "a single monotonic seq namespace".
TimelineIsComplete ==
    \A s \in Sessions :
        /\ {e.seq : e \in Timeline(s)} = 1..head[s]
        /\ \A e, f \in Timeline(s) : e.seq = f.seq => e = f
=============================================================================
