---------------------------- MODULE ToolMemory -----------------------------
\* The agents' durable memory: the memory tools (src/internal/toolruntime/tools/
\* memory.go) over the SQL store (adapter/outbound/memory) and over the in-memory
\* store of the development binary (adapter/outbound/memory/inmem), which promises
\* the same answers.  Both stores get the same calls here.  A write to the SQL store
\* is a transaction whose now() is its start, and writes of two sessions overlap;
\* the in-memory store does it all under its lock.
EXTENDS Naturals, Sequences, FiniteSets

CONSTANTS
    MemTenants, MemKeys,
    Texts,          \* values, as sequences of characters
    Queries,        \* search strings
    MemTags,
    MaxWrites,      \* writes in all
    SearchLimit     \* DefaultMemorySearchLimit

ASSUME MemoryAssumption == MaxWrites \in Nat /\ SearchLimit \in Nat \ {0}

VARIABLES
    agentMemory,    \* the agent_memory table: tenant and key to a row
    inmem,          \* Store.data of the in-memory store
    writes,         \* SQL writes under way, by number: start, tenant, key, value, tags
    wallClock

memoryVars == <<agentMemory, inmem, writes, wallClock>>

NoEntry == [value |-> <<>>, tags |-> {}, created |-> 0, updated |-> 0]
Slots == MemTenants \X MemKeys

MemoryInit ==
    /\ agentMemory = [slot \in Slots |-> NoEntry]
    /\ inmem = [slot \in Slots |-> NoEntry]
    /\ writes = <<>> /\ wallClock = 1

\* Put of either store: value and tags replaced, the creation time kept.
Upsert(store, slot, value, tags, now) ==
    [store EXCEPT ![slot] = [value |-> value, tags |-> tags,
                             created |-> IF @.created = 0 THEN now ELSE @.created,
                             updated |-> now]]

\* ON CONFLICT DO UPDATE of the SQL store.
UpsertSql(store, slot, value, tags, now) ==
    [store EXCEPT ![slot] = [value |-> value, tags |-> tags,
                             created |-> IF @.created = 0 THEN now ELSE @.created,
                             updated |-> now]]

\* memory_write of the SQL store begins its transaction.  A call without key, value
\* or tenant, or with tags that are no strings, is answered before this.
PutBegins(t, k, value, tags) ==
    /\ wallClock <= MaxWrites
    /\ writes' = Append(writes, [slot |-> <<t, k>>, value |-> value, tags |-> tags, now |-> wallClock])
    /\ wallClock' = wallClock + 1
    /\ UNCHANGED <<agentMemory, inmem>>

WithoutIndex(s, i) == SubSeq(s, 1, i - 1) \o SubSeq(s, i + 1, Len(s))

\* It commits; the in-memory store does the same write under its lock.
PutCommits(i) ==
    LET w == writes[i]
    IN /\ agentMemory' = UpsertSql(agentMemory, w.slot, w.value, w.tags, w.now)
       /\ inmem' = Upsert(inmem, w.slot, w.value, w.tags, wallClock)
       /\ writes' = WithoutIndex(writes, i)
       /\ wallClock' = wallClock + 1

\* The transaction fails, and nothing of it stays.
PutRollsBack(i) ==
    /\ writes' = WithoutIndex(writes, i)
    /\ UNCHANGED <<agentMemory, inmem, wallClock>>

\* Delete of an entry, present or not.
DeleteEntry(t, k) ==
    /\ agentMemory[<<t, k>>] # NoEntry
    /\ agentMemory' = [agentMemory EXCEPT ![<<t, k>>] = NoEntry]
    /\ inmem' = [inmem EXCEPT ![<<t, k>>] = NoEntry]
    /\ UNCHANGED <<writes, wallClock>>

MemoryNext ==
    \/ \E t \in MemTenants, k \in MemKeys, value \in Texts, tags \in SUBSET MemTags : PutBegins(t, k, value, tags)
    \/ \E i \in DOMAIN writes : PutCommits(i) \/ PutRollsBack(i)
    \/ \E t \in MemTenants, k \in MemKeys : DeleteEntry(t, k)

MemorySpec == MemoryInit /\ [][MemoryNext]_memoryVars

----------------------------------------------------------------------------
\* memory_read and memory_search

\* value ILIKE '%' || q || '%': the query's "%" stands for any text and its "_" for
\* any one character.  after[i] is where the first i characters of q end in v.
ILike(v, q) ==
    \E after \in [0..Len(q) -> 0..Len(v)] :
       \A i \in 1..Len(q) :
          \/ q[i] = "%" /\ after[i] >= after[i - 1]
          \/ q[i] # "%" /\ after[i] = after[i - 1] + 1 /\ q[i] \in {"_", v[after[i]]}

\* strings.Contains.
Contains(v, q) == \E i \in 0..Len(v) - Len(q) : SubSeq(v, i + 1, i + Len(q)) = q

\* The rows row level security lets the tenant's transaction see.
TenantRows(store, t) == {k \in MemKeys : store[<<t, k>>] # NoEntry}

\* Get of either store.
GetEntry(store, t, k) == store[<<t, k>>]

\* limit, defaulted and capped.
Limit(n) == IF n = 0 \/ n > SearchLimit THEN SearchLimit ELSE n

\* ORDER BY updated_at DESC LIMIT n: every answer with the newest n, ties any way.
Newest(store, t, keys, n) ==
    {top \in SUBSET keys :
       /\ Cardinality(top) = IF Cardinality(keys) < n THEN Cardinality(keys) ELSE n
       /\ \A k \in top, m \in keys \ top : store[<<t, k>>].updated >= store[<<t, m>>].updated}

\* Search of the SQL store.
SearchSql(t, q, tags, n) ==
    Newest(agentMemory, t,
           {k \in TenantRows(agentMemory, t) : ILike(agentMemory[<<t, k>>].value, q)
                                               /\ tags \subseteq agentMemory[<<t, k>>].tags},
           Limit(n))

\* A fault the code must not have: one of the wanted tags is enough.
HasAllTags_Any(have, want) == want = {} \/ have \cap want # {}

\* hasAllTags.
HasAllTags(have, want) == want \subseteq have

\* Search of the in-memory store.
SearchInmem(t, q, tags, n) ==
    Newest(inmem, t,
           {k \in TenantRows(inmem, t) : Contains(inmem[<<t, k>>].value, q)
                                         /\ HasAllTags(inmem[<<t, k>>].tags, tags)},
           Limit(n))

----------------------------------------------------------------------------
\* The development store answers as the SQL store does: the same entries read, the
\* same matches found whatever the search, though recency is the transaction's
\* start in one and the write in the other (inmem.go:3-11).
StoresAnswerAlike ==
    \A t \in MemTenants :
       /\ \A k \in MemKeys : GetEntry(agentMemory, t, k).value = GetEntry(inmem, t, k).value
       /\ \A q \in Queries, tags \in SUBSET MemTags :
             SearchSql(t, q, tags, SearchLimit) = SearchInmem(t, q, tags, SearchLimit)

-----------------------------------------------------------------------------
(* What a comment says and the code does not keep.  No run checks it: the   *)
(* README, under "Where code and documents disagree", tells how it fails.   *)

\* "query is a case-insensitive SUBSTRING over the entry value" (memory.go:147-148).
SearchIsSubstring ==
    \A t \in MemTenants, q \in Queries : \A found \in SearchSql(t, q, {}, SearchLimit), k \in MemKeys :
       k \in found => Contains(agentMemory[<<t, k>>].value, q)
============================================================================
