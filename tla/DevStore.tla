------------------------------ MODULE DevStore -----------------------------
(***************************************************************************)
(* The event store of the single-process development binary: the same port *)
(* as the PostgreSQL store, in memory, under one mutex.  Append assigns    *)
(* the sequence numbers itself, links the hash chain and fans each event   *)
(* out to the subscribers without blocking; a subscription replays a       *)
(* snapshot and then follows its tail channel.                             *)
(*                                                                         *)
(* A hash is modelled by what it is taken over: <<previous hash, seq>>.    *)
(***************************************************************************)
EXTENDS Naturals, Sequences, SequencesExt

CONSTANTS
    DevSessions,   \* session ids
    MaxDevLog,     \* events in one stream
    TailBuffer,    \* capacity of a subscriber's tail channel (256 in the code)
    OutBuffer      \* capacity of its out channel (64 in the code)

ASSUME DevAssumption == MaxDevLog \in Nat /\ TailBuffer \in Nat \ {0} /\ OutBuffer \in Nat \ {0}

VARIABLES
    aggregates,   \* session -> head_seq, for the sessions that exist
    stream,       \* session -> its events, [seq, content, chain]
    devHead,    \* session -> hash of its last event, << >> when there is none
    sub,          \* the subscription that is followed
    dropped       \* the fan-out met a full tail channel

devVars == <<aggregates, stream, devHead, sub, dropped>>

NoSub == [state |-> "none", session |-> "none", snapshot |-> << >>, tail |-> << >>, out |-> << >>,
          seen |-> 0, from |-> 0, got |-> << >>]

DevInit ==
    /\ aggregates = << >> /\ stream = [s \in DevSessions |-> << >>]
    /\ devHead = [s \in DevSessions |-> << >>]
    /\ sub = NoSub /\ dropped = FALSE

DevGenesis(s) == <<s>>
DevChainHash(prev, content) == <<prev, content>>
SeedPrev(s) == IF devHead[s] = << >> THEN DevGenesis(s) ELSE devHead[s]

\* CreateSession: a session that exists is left as it is.
DevCreate(s) ==
    /\ aggregates' = [x \in DOMAIN aggregates \cup {s} |->
                        IF x \in DOMAIN aggregates THEN aggregates[x] ELSE 0]
    /\ UNCHANGED <<stream, devHead, sub, dropped>>

\* LoadSession: a session that does not exist reads as an active one at head 0.
DevHead(s) == IF s \in DOMAIN aggregates THEN aggregates[s] ELSE 0

\* fanout: a full tail channel loses the event.
Fanout(s, e) ==
    IF sub.state = "open" /\ sub.session = s
    THEN IF Len(sub.tail) < TailBuffer
         THEN sub' = [sub EXCEPT !.tail = Append(@, e)] /\ UNCHANGED dropped
         ELSE dropped' = TRUE /\ UNCHANGED sub
    ELSE UNCHANGED <<sub, dropped>>

\* Append of one event, under the mutex: the next number of the stream, linked to
\* the head of its chain.  The expected head and the lease are not looked at.
DevAppend(s) ==
    /\ Len(stream[s]) < MaxDevLog
    /\ LET e == [seq |-> DevHead(s) + 1, content |-> DevHead(s) + 1,
                 chain |-> DevChainHash(SeedPrev(s), DevHead(s) + 1)]
       IN  /\ aggregates' = [x \in DOMAIN aggregates \cup {s} |->
                               IF x = s THEN e.seq ELSE aggregates[x]]
           /\ stream' = [stream EXCEPT ![s] = Append(@, e)]
           /\ devHead' = [devHead EXCEPT ![s] = e.chain]
           /\ Fanout(s, e)

\* Fork: the child takes the parent's numbering at any point, even beyond its head.
DevFork(p, at, s) ==
    /\ p # s /\ s \notin DOMAIN aggregates
    /\ aggregates' = [x \in DOMAIN aggregates \cup {s} |-> IF x = s THEN at ELSE aggregates[x]]
    /\ stream' = [stream EXCEPT ![s] = << >>]
    /\ UNCHANGED <<devHead, sub, dropped>>

----------------------------------------------------------------------------
(* Subscribe and its goroutine.                                             *)

\* The snapshot is taken and the tail registered under one lock.
DevSubscribe(s, from) ==
    /\ sub.state = "none"
    /\ sub' = [NoSub EXCEPT !.state = "open", !.session = s, !.from = from, !.seen = from,
                 !.snapshot = SelectSeq(stream[s], LAMBDA e : e.seq > from)]
    /\ UNCHANGED <<aggregates, stream, devHead, dropped>>

\* Fault: every event of the tail is passed on.
TailEvent_All ==
    /\ sub.state = "open" /\ sub.snapshot = << >> /\ sub.tail # << >>
    /\ LET e == Head(sub.tail)
       IN  /\ Len(sub.out) < OutBuffer
           /\ sub' = [sub EXCEPT !.tail = Tail(@), !.out = Append(@, e), !.seen = e.seq]
    /\ UNCHANGED <<aggregates, stream, devHead, dropped>>

Replay ==
    /\ sub.state = "open" /\ sub.snapshot # << >> /\ Len(sub.out) < OutBuffer
    /\ sub' = [sub EXCEPT !.snapshot = Tail(@), !.out = Append(@, Head(sub.snapshot)),
                 !.seen = Head(sub.snapshot).seq]
    /\ UNCHANGED <<aggregates, stream, devHead, dropped>>

TailEvent ==
    /\ sub.state = "open" /\ sub.snapshot = << >> /\ sub.tail # << >>
    /\ LET e == Head(sub.tail)
       IN  IF e.seq <= sub.seen THEN sub' = [sub EXCEPT !.tail = Tail(@)]
           ELSE /\ Len(sub.out) < OutBuffer
                /\ sub' = [sub EXCEPT !.tail = Tail(@), !.out = Append(@, e), !.seen = e.seq]
    /\ UNCHANGED <<aggregates, stream, devHead, dropped>>

DevReceive ==
    /\ sub.out # << >>
    /\ sub' = [sub EXCEPT !.out = Tail(@), !.got = Append(@, Head(sub.out).seq)]
    /\ UNCHANGED <<aggregates, stream, devHead, dropped>>

\* ctx is done: the goroutine unsubscribes and closes the channel.
DevUnsubscribe ==
    /\ sub.state = "open"
    /\ sub' = [sub EXCEPT !.state = "closed", !.snapshot = << >>, !.tail = << >>]
    /\ UNCHANGED <<aggregates, stream, devHead, dropped>>

DevNext ==
    \/ \E s \in DevSessions : DevCreate(s) \/ DevAppend(s)
    \/ \E p, s \in DevSessions, at \in 0..MaxDevLog : DevFork(p, at, s)
    \/ \E s \in DevSessions, from \in 0..MaxDevLog : DevSubscribe(s, from)
    \/ Replay \/ TailEvent \/ DevReceive \/ DevUnsubscribe

DevSpec == DevInit /\ [][DevNext]_devVars

----------------------------------------------------------------------------
(* Reads.                                                                   *)

\* VerifyChainIntegrity over a window, with 0 for a bound that is not given: the
\* window is clamped to the stream, the link into it is the stored hash of the
\* event before it or the genesis, and every hash is taken again.
VerifyChainIntegrity(s, fromSeq, toSeq) ==
    LET all    == stream[s]
        head   == IF all = << >> THEN 0 ELSE Last(all).seq
        to     == IF toSeq = 0 \/ toSeq > head THEN head ELSE toSeq
        window == SelectSeq(all, LAMBDA e : e.seq >= fromSeq /\ e.seq <= to)
        before == SelectSeq(all, LAMBDA e : e.seq + 1 = window[1].seq)
        prev(i) == IF i > 1 THEN window[i - 1].chain
                   ELSE IF before = << >> THEN DevGenesis(s) ELSE before[1].chain
    IN  [valid |-> \A i \in DOMAIN window :
                     window[i].chain = DevChainHash(prev(i), window[i].content),
         checked |-> Len(window)]

----------------------------------------------------------------------------
(* Properties                                                               *)

\* Whatever was appended to a stream, and wherever it was forked, verifying any
\* window of it finds every event of the window intact.
DevChainVerifies ==
    \A s \in DevSessions : \A from, to \in 0..(DevHead(s) + 1) :
      LET v == VerifyChainIntegrity(s, from, to)
      IN  v.valid /\ (from = 0 /\ to = 0 => v.checked = Len(stream[s]))

\* A subscriber gets events of its stream after the one it asked for, each once and
\* in order, across the change from the snapshot to the tail; unless the tail
\* channel overflowed, it gets them without a gap.
DevTailInOrder ==
    LET all == sub.got \o [i \in DOMAIN sub.out |-> sub.out[i].seq]
    IN  /\ \A i \in DOMAIN all : all[i] > sub.from /\ all[i] <= DevHead(sub.session)
        /\ \A i, j \in DOMAIN all : i < j => all[i] < all[j]
        /\ ~dropped => \A i \in 2..Len(all) : all[i] = all[i - 1] + 1

\* The in-memory store is a log as the SQL store is: its chain verifies and its tail
\* is in order (boltrope-dev/eventstore.go).
DevStoreIsALog == DevChainVerifies /\ DevTailInOrder

=============================================================================
