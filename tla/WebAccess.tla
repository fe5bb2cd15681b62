---------------------------- MODULE WebAccess ------------------------------
\* The egress path of the tool runtime: the broker and its audit log
\* (adapter/outbound/egress), the fetcher (adapter/outbound/egressclient) and the
\* webfetch and websearch tools (tools/web.go).  A call is cleared by the execute
\* service's gate, cleared again by the fetcher, and then hop by hop.  The remote
\* servers, DNS and Go's HTTP client are external: a server redirects as it likes,
\* names move, and a connection is kept for whoever asks for its host next.
EXTENDS Naturals, Sequences, FiniteSets

CONSTANTS
    Hosts,          \* host names, as sequences of labels
    AllowLists,     \* the lists a policy may hold: sets of entries
    DefaultHosts,   \* the operator's list for sessions without a policy
    SearchHost,     \* the host of the configured search endpoint
    WebSessions,
    MaxFetches,     \* tool calls
    MaxRedirects,   \* Config.MaxRedirects
    MaxChanges      \* policy changes and moves of a name

ASSUME WebAssumption ==
    /\ MaxFetches \in Nat /\ MaxRedirects \in Nat \ {0} /\ MaxChanges \in Nat
    /\ SearchHost \in Hosts

VARIABLES
    policies,   \* Broker.policies: per session its list, or {} when there is none
    decisions,  \* Broker.decisions, as a set: who asked for which host, and the answer
    dns,        \* external: the kind of address a name resolves to now
    pooled,     \* the transport's idle connections, host by host
    fetch,      \* per call: where it is, whose it is, its current host and hops
    contacts,   \* every request that left: session, host and kind of address
    changes

webVars == <<policies, decisions, dns, pooled, fetch, contacts, changes>>

Fetches == 1..MaxFetches

NoPolicy == [set |-> FALSE, hosts |-> {}]
NoFetch == [pc |-> "idle", session |-> "", host |-> <<>>, via |-> 0]

WebInit ==
    /\ policies = [s \in WebSessions |-> NoPolicy]
    /\ decisions = {} /\ pooled = {} /\ contacts = {} /\ changes = 0
    /\ dns \in [Hosts -> {"public", "private"}]
    /\ fetch = [f \in Fetches |-> NoFetch]

----------------------------------------------------------------------------
\* The broker

\* matchEntry: an exact host, or "*" and exactly one label before the suffix.
MatchEntry(host, entry) ==
    IF Head(entry) = "*"
    THEN Len(host) = Len(entry) /\ Tail(host) = Tail(entry)
    ELSE host = entry

\* matchesPolicy.
MatchesPolicy(host, allowed) == \E entry \in allowed : MatchEntry(host, entry)

\* Allow: a session's own policy alone, else the default; every answer is recorded.
Allowed(s, host) == MatchesPolicy(host, IF policies[s].set THEN policies[s].hosts ELSE DefaultHosts)
Records(s, host) == decisions' = decisions \cup {[session |-> s, host |-> host, allowed |-> Allowed(s, host)]}

\* SetPolicy installs or replaces, from the next Allow on.
SetPolicy(s, hosts) ==
    /\ changes < MaxChanges /\ changes' = changes + 1
    /\ policies' = [policies EXCEPT ![s] = [set |-> TRUE, hosts |-> hosts]]
    /\ UNCHANGED <<decisions, dns, pooled, fetch, contacts>>

----------------------------------------------------------------------------
\* The calls

FetchAt(f, pc, host, via) ==
    fetch' = [fetch EXCEPT ![f] = [@ EXCEPT !.pc = pc, !.host = host, !.via = via]]

\* The tool answers, with the page or with an error observation.
FetchEnds(f) == fetch' = [fetch EXCEPT ![f] = [NoFetch EXCEPT !.pc = "done"]]

\* EgressTarget and the service's gate: webfetch's host is its URL's, websearch's
\* the configured endpoint's; a URL without one is refused before the broker.
ToolBegins(f, s, tool) ==
    /\ fetch[f].pc = "idle" /\ \A g \in Fetches : g < f => fetch[g].pc # "idle"
    /\ \/ /\ tool = "webfetch"
          /\ FetchEnds(f) /\ UNCHANGED decisions
       \/ \E host \in IF tool = "websearch" THEN {SearchHost} ELSE Hosts :
             /\ Records(s, host)
             /\ IF Allowed(s, host)
                THEN fetch' = [fetch EXCEPT ![f] = [pc |-> "gate", session |-> s, host |-> host, via |-> 0]]
                ELSE FetchEnds(f)
    /\ UNCHANGED <<policies, dns, pooled, contacts, changes>>

\* Fetch clears the host itself, whatever was cleared before.
FetchGates(f) ==
    LET c == fetch[f]
    IN /\ c.pc = "gate"
       /\ Records(c.session, c.host)
       /\ IF Allowed(c.session, c.host) THEN FetchAt(f, "send", c.host, c.via) ELSE FetchEnds(f)
       /\ UNCHANGED <<policies, dns, pooled, contacts, changes>>

\* The request leaves over a connection to an address of that kind.
Contacts(f, kind) ==
    /\ contacts' = contacts \cup {[session |-> fetch[f].session, host |-> fetch[f].host, kind |-> kind]}
    /\ FetchAt(f, "sent", fetch[f].host, fetch[f].via + 1)

\* dialPinned: the address that was vetted is the address that is dialled.
Dial(f) ==
    /\ fetch[f].pc = "send" /\ fetch[f].host \notin pooled
    /\ IF dns[fetch[f].host] = "public" THEN Contacts(f, "public") ELSE FetchEnds(f) /\ UNCHANGED contacts
    /\ UNCHANGED <<policies, decisions, dns, pooled, changes>>

\* An idle connection to the host is used again, whoever opened it.
Reuse(f) ==
    /\ fetch[f].pc = "send" /\ fetch[f].host \in pooled
    /\ pooled' = pooled \ {fetch[f].host}
    /\ Contacts(f, "public")
    /\ UNCHANGED <<policies, decisions, dns, changes>>

\* The resolver, the dial or the exchange fails, or the timeout fires.
FetchFails(f) ==
    /\ fetch[f].pc \in {"send", "sent"}
    /\ FetchEnds(f)
    /\ UNCHANGED <<policies, decisions, dns, pooled, contacts, changes>>

\* A final response: the body is read up to the cap, the connection is kept.
Answers(f) ==
    /\ fetch[f].pc = "sent"
    /\ pooled' = pooled \cup {fetch[f].host}
    /\ FetchEnds(f)
    /\ UNCHANGED <<policies, decisions, dns, contacts, changes>>

\* A fault the code must not have: only the first host is cleared.
Redirects_Unchecked(f, host) ==
    LET c == fetch[f]
    IN /\ c.pc = "sent"
       /\ UNCHANGED decisions
       /\ IF c.via >= MaxRedirects THEN FetchEnds(f) ELSE FetchAt(f, "send", host, c.via)
       /\ pooled' = pooled \cup {c.host}
       /\ UNCHANGED <<policies, dns, contacts, changes>>

\* A redirect, and CheckRedirect: the length of the chain, then the broker for the
\* next host.
Redirects(f, host) ==
    LET c == fetch[f]
    IN /\ c.pc = "sent"
       /\ IF c.via >= MaxRedirects THEN FetchEnds(f) /\ UNCHANGED decisions
          ELSE /\ Records(c.session, host)
               /\ IF Allowed(c.session, host) THEN FetchAt(f, "send", host, c.via) ELSE FetchEnds(f)
       /\ pooled' = pooled \cup {c.host}
       /\ UNCHANGED <<policies, dns, contacts, changes>>

\* External: a name moves.
NameMoves(h) ==
    /\ changes < MaxChanges /\ changes' = changes + 1
    /\ dns' = [dns EXCEPT ![h] = IF @ = "public" THEN "private" ELSE "public"]
    /\ UNCHANGED <<policies, decisions, pooled, fetch, contacts>>

WebNext ==
    \/ \E s \in WebSessions, hosts \in AllowLists : SetPolicy(s, hosts)
    \/ \E h \in Hosts : NameMoves(h)
    \/ \E f \in Fetches :
          \/ \E s \in WebSessions, tool \in {"webfetch", "websearch"} : ToolBegins(f, s, tool)
          \/ FetchGates(f)
          \/ Dial(f)
          \/ Reuse(f)
          \/ FetchFails(f)
          \/ Answers(f)
          \/ \E h \in Hosts : Redirects(f, h)

WebSpec == WebInit /\ [][WebNext]_webVars

----------------------------------------------------------------------------
\* Every request that leaves goes to a public address and to a host the broker
\* allowed that very session, as the audit log shows: redirects, kept connections,
\* moving names and changing policies included (egressclient.go:113-230).
ContactsAreCleared ==
    \A c \in contacts :
       /\ c.kind = "public"
       /\ [session |-> c.session, host |-> c.host, allowed |-> TRUE] \in decisions
============================================================================
