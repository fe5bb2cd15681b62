---------------------------- MODULE ToolCatalog ----------------------------
\* The tool registry and the MCP client (src/internal/toolruntime/adapter/registry,
\* adapter/outbound/mcp and boltrope-toolruntimed/mcp_source.go).  Every Get or List
\* consults the MCP source until one consultation has succeeded; a consultation,
\* like a call of a tool found that way, spawns the server, shakes hands and makes
\* one JSON-RPC call over its pipes, read by a goroutine of the connection.  The
\* server process is external: it answers, repeats itself, makes noise or exits.
EXTENDS Naturals, Sequences, FiniteSets

CONSTANTS
    MaxLookups,     \* Get requests, each a tool call of the execute service
    NativeTools,    \* names registered at start-up
    Listings,       \* the sets of names an MCP server may list
    Malformed,      \* those of them whose spec does not compile
    VersionPin,     \* the configured pin, or "none"
    MaxUpsets       \* exits and idle lines of servers, cancelled contexts

ASSUME CatalogAssumption ==
    /\ MaxLookups \in Nat \ {0} /\ MaxUpsets \in Nat
    /\ Malformed \subseteq UNION Listings
    /\ VersionPin \in {"none", "pinned"}

VARIABLES
    loaded,     \* Registry.mcpLoaded
    mcpTools,   \* Registry.mcpTools: the merged names
    lookup,     \* per Get: where it is, what it wants, what it listed
    rpc,        \* per Get: the connection of its current exchange
    peer,       \* per Get: the server process of that exchange
    upsets      \* of those, so far

catalogVars == <<loaded, mcpTools, lookup, rpc, peer, upsets>>

Lookups == 1..MaxLookups

\* Where a Get is: the name it wants, the exchange under way, what that listed.
NoLookup == [pc |-> "idle", name |-> "", doing |-> "", listed |-> {}, ctx |-> "live"]

\* conn: nextID, the registered waiters, the answers handed to them, closed.
NoRpc == [nextID |-> 0, waiters |-> {}, handed |-> {}, closed |-> FALSE]

\* The server: running, the ids and methods it still has to answer, its stdout.
NoPeer == [up |-> FALSE, asked |-> <<>>, out |-> <<>>]

CatalogInit ==
    /\ loaded = FALSE /\ mcpTools = {}
    /\ lookup = [g \in Lookups |-> NoLookup]
    /\ rpc = [g \in Lookups |-> NoRpc]
    /\ peer = [g \in Lookups |-> NoPeer]
    /\ upsets = 0

Upset == upsets < MaxUpsets /\ upsets' = upsets + 1

\* One line of the server's output.
Line(id, method, fails, body) == [id |-> id, method |-> method, fails |-> fails, body |-> body]

\* What an answer can say: an identity, that of the pin or not, a list of tools, or
\* an observation.
Bodies(method) ==
    CASE method = "initialize" -> {{}, {"other identity"}}
      [] method = "tools/list" -> Listings
      [] OTHER -> {{}}

\* Lines the reader skips or that end the scan: log noise and notifications have no
\* id; a line above the scanner's limit ends it.
LogLine == Line(0, "noise", FALSE, {})
HugeLine == Line(0, "huge", FALSE, {})

----------------------------------------------------------------------------
\* Get and the lazy load

\* The exchange ends, well or badly: close kills the server, and nothing of the
\* connection is used again.
HangsUp(g) ==
    /\ rpc' = [rpc EXCEPT ![g] = NoRpc]
    /\ peer' = [peer EXCEPT ![g] = NoPeer]

\* The Get is answered.
Ended(pc) == [NoLookup EXCEPT !.pc = pc]

\* dial: the process is started, the connection and its reader with it.
Dials(g) ==
    /\ rpc' = [rpc EXCEPT ![g] = NoRpc]
    /\ peer' = [peer EXCEPT ![g] = [NoPeer EXCEPT !.up = TRUE]]

\* Get, its first critical section: a loaded catalog goes straight to the look-up,
\* otherwise Tools lists the server outside the lock.
GetBegins(g, name) ==
    /\ lookup[g].pc = "idle"
    /\ \A h \in Lookups : h < g => lookup[h].pc # "idle"
    /\ IF loaded
       THEN /\ lookup' = [lookup EXCEPT ![g] = [@ EXCEPT !.pc = "look", !.name = name]]
            /\ UNCHANGED <<rpc, peer>>
       ELSE /\ lookup' = [lookup EXCEPT ![g] = [@ EXCEPT !.pc = "call", !.name = name,
                                                         !.doing = "tools/list"]]
            /\ Dials(g)
    /\ UNCHANGED <<loaded, mcpTools, upsets>>

\* The spawn fails: no command, no process.  The error is the answer of the Get.
SpawnFails(g) ==
    /\ lookup[g].pc = "idle" /\ ~loaded
    /\ \A h \in Lookups : h < g => lookup[h].pc # "idle"
    /\ lookup' = [lookup EXCEPT ![g] = Ended("failed")]
    /\ UNCHANGED <<loaded, mcpTools, rpc, peer, upsets>>

\* compile, as far as it decides: a spec without name, description or schema, or
\* with a schema that does not compile, is refused.
Compiles(tool) == tool \notin Malformed

\* The tools a consultation adds: malformed ones are skipped, and so is one with a
\* native tool's name.
Merged(tools) == {t \in tools : Compiles(t) /\ t \notin NativeTools}

\* A fault the code must not have: the loser of the race merges too.
Merge_NoRecheck(g) ==
    /\ lookup[g].pc = "merge"
    /\ mcpTools' = mcpTools \cup Merged(lookup[g].listed)
    /\ loaded' = TRUE
    /\ lookup' = [lookup EXCEPT ![g] = [@ EXCEPT !.pc = "look", !.listed = {}]]
    /\ UNCHANGED <<rpc, peer, upsets>>

\* ensureMCPLoaded, its second critical section.
Merge(g) ==
    /\ lookup[g].pc = "merge"
    /\ mcpTools' = IF loaded THEN mcpTools ELSE Merged(lookup[g].listed)
    /\ loaded' = TRUE
    /\ lookup' = [lookup EXCEPT ![g] = [@ EXCEPT !.pc = "look", !.listed = {}]]
    /\ UNCHANGED <<rpc, peer, upsets>>

\* Get, its last critical section, and Execute of what it found: a native tool runs
\* here, an unknown name and arguments the schema refuses are answered at once, an
\* MCP tool is proxied to a server of its own, which a cancelled context cannot
\* start.
LookUpTool(g) ==
    /\ lookup[g].pc = "look"
    /\ \/ /\ lookup[g].name \notin mcpTools \ NativeTools
          /\ lookup' = [lookup EXCEPT ![g] = Ended(IF @.name \in NativeTools THEN "done" ELSE "failed")]
          /\ UNCHANGED <<rpc, peer>>
       \/ /\ lookup[g].name \in mcpTools \ NativeTools
          /\ \/ lookup' = [lookup EXCEPT ![g] = Ended("failed")] /\ UNCHANGED <<rpc, peer>>
             \/ /\ lookup[g].ctx = "live"
                /\ lookup' = [lookup EXCEPT ![g] = [NoLookup EXCEPT !.pc = "call", !.doing = "tools/call"]]
                /\ Dials(g)
    /\ UNCHANGED <<loaded, mcpTools, upsets>>

----------------------------------------------------------------------------
\* conn.call: initialize is id 1, the exchange's own method id 2

Method(g) == IF rpc[g].nextID = 1 THEN "initialize" ELSE lookup[g].doing

\* The exchange fails: the error goes up to the Get, which ends with it.
CallFails(g) ==
    /\ lookup' = [lookup EXCEPT ![g] = Ended("failed")]
    /\ HangsUp(g)

\* A fault the code must not have: call does not look whether the reader has gone.
CallRegisters_Unchecked(g) ==
    /\ lookup[g].pc = "call"
    /\ rpc' = [rpc EXCEPT ![g].nextID = @ + 1, ![g].waiters = @ \cup {rpc[g].nextID + 1}]
    /\ lookup' = [lookup EXCEPT ![g].pc = "write"] /\ UNCHANGED peer
    /\ UNCHANGED <<loaded, mcpTools, upsets>>

\* The id is taken and its waiter registered, unless the connection has failed.
CallRegisters(g) ==
    /\ lookup[g].pc = "call"
    /\ IF rpc[g].closed THEN CallFails(g)
       ELSE /\ rpc' = [rpc EXCEPT ![g].nextID = @ + 1, ![g].waiters = @ \cup {rpc[g].nextID + 1}]
            /\ lookup' = [lookup EXCEPT ![g].pc = "write"] /\ UNCHANGED peer
    /\ UNCHANGED <<loaded, mcpTools, upsets>>

\* The request is written; a write to a process that is gone fails.
CallWrites(g) ==
    /\ lookup[g].pc = "write"
    /\ IF ~peer[g].up THEN CallFails(g)
       ELSE /\ peer' = [peer EXCEPT ![g].asked = Append(@, Line(rpc[g].nextID, Method(g), FALSE, {}))]
            /\ lookup' = [lookup EXCEPT ![g].pc = "wait"] /\ UNCHANGED rpc
    /\ UNCHANGED <<loaded, mcpTools, upsets>>

\* handshake, after initialize's answer: the pin, then the notification.
Handshakes(g, answer) ==
    IF (VersionPin # "none" /\ answer.body # {}) \/ ~peer[g].up THEN CallFails(g)
    ELSE /\ lookup' = [lookup EXCEPT ![g].pc = "call"]
         /\ rpc' = [rpc EXCEPT ![g].handed = {}]
         /\ UNCHANGED peer

\* The waiter's answer: a JSON-RPC error ends the exchange, initialize's answer
\* goes on to the handshake, a list to the merge, an observation to the caller.
CallAnswered(g) ==
    /\ lookup[g].pc = "wait"
    /\ \E answer \in rpc[g].handed :
          IF answer.fails THEN CallFails(g)
          ELSE IF rpc[g].nextID = 1 THEN Handshakes(g, answer)
          ELSE /\ lookup' = [lookup EXCEPT ![g] =
                     IF @.doing = "tools/list"
                     THEN [@ EXCEPT !.pc = "merge", !.listed = answer.body]
                     ELSE Ended("done")]
               /\ HangsUp(g)
    /\ UNCHANGED <<loaded, mcpTools, upsets>>

\* The waiter's channel was closed by fail.
CallLosesReader(g) ==
    /\ lookup[g].pc = "wait" /\ rpc[g].nextID \notin rpc[g].waiters /\ rpc[g].handed = {}
    /\ CallFails(g)
    /\ UNCHANGED <<loaded, mcpTools, upsets>>

\* The caller's context ends, which kills the process.
CallerCancels(g) ==
    /\ lookup[g].pc \in {"call", "write", "wait"} /\ lookup[g].ctx = "live" /\ Upset
    /\ lookup' = [lookup EXCEPT ![g].ctx = "done"]
    /\ peer' = [peer EXCEPT ![g].up = FALSE]
    /\ UNCHANGED <<loaded, mcpTools, rpc>>

\* select takes ctx.Done.
CallSeesCancel(g) ==
    /\ lookup[g].pc = "wait" /\ lookup[g].ctx = "done"
    /\ CallFails(g)
    /\ UNCHANGED <<loaded, mcpTools, upsets>>

----------------------------------------------------------------------------
\* The reader of the connection

\* deliver: to the waiter of that id, who is then no waiter any more.
Deliver(g, line) ==
    IF line.id \in rpc[g].waiters
    THEN rpc' = [rpc EXCEPT ![g].waiters = @ \ {line.id}, ![g].handed = {line}]
    ELSE UNCHANGED rpc

\* fail: closed, and every waiter's channel with it.
Fails(g) == rpc' = [rpc EXCEPT ![g] = [@ EXCEPT !.closed = TRUE, !.waiters = {}]]

\* readLoop: the next line, or the end of the output.
ReadLoop(g) ==
    /\ lookup[g].pc \in {"call", "write", "wait"} /\ ~rpc[g].closed
    /\ IF peer[g].out = <<>> THEN ~peer[g].up /\ Fails(g) /\ UNCHANGED peer
       ELSE LET line == Head(peer[g].out)
            IN /\ peer' = [peer EXCEPT ![g].out = Tail(@)]
               /\ CASE line = HugeLine -> Fails(g)
                    [] line = LogLine -> UNCHANGED rpc
                    [] OTHER -> Deliver(g, line)
    /\ UNCHANGED <<loaded, mcpTools, lookup, upsets>>

----------------------------------------------------------------------------
\* The server process (external)

\* It answers the oldest request: with an error, its identity or its tools.
ServerAnswers(g) ==
    /\ peer[g].up /\ peer[g].asked # <<>>
    /\ LET asked == Head(peer[g].asked)
       IN \E answer \in {Line(asked.id, asked.method, TRUE, {})}
                      \cup {Line(asked.id, asked.method, FALSE, b) : b \in Bodies(asked.method)} :
             peer' = [peer EXCEPT ![g].asked = Tail(@), ![g].out = Append(@, answer)]
    /\ UNCHANGED <<loaded, mcpTools, lookup, rpc, upsets>>

\* It writes a log line or a notification, an overlong line, or an answer to the
\* first request again.
ServerChatters(g) ==
    /\ peer[g].up /\ Upset
    /\ \E line \in {LogLine, HugeLine}
               \cup (IF rpc[g].nextID = 2 THEN {Line(1, "initialize", FALSE, {})} ELSE {}) :
          peer' = [peer EXCEPT ![g].out = Append(@, line)]
    /\ UNCHANGED <<loaded, mcpTools, lookup, rpc>>

ServerExits(g) ==
    /\ peer[g].up /\ Upset
    /\ peer' = [peer EXCEPT ![g].up = FALSE]
    /\ UNCHANGED <<loaded, mcpTools, lookup, rpc>>

----------------------------------------------------------------------------
LookupStep(g) ==
    \/ Merge(g)
    \/ LookUpTool(g)
    \/ CallRegisters(g)
    \/ CallWrites(g)
    \/ CallAnswered(g)
    \/ CallLosesReader(g)
    \/ CallSeesCancel(g)

CatalogNext ==
    \E g \in Lookups :
       \/ \E name \in NativeTools \cup UNION Listings : GetBegins(g, name)
       \/ SpawnFails(g)
       \/ LookupStep(g)
       \/ ReadLoop(g)
       \/ CallerCancels(g)
       \/ ServerAnswers(g)
       \/ ServerChatters(g)
       \/ ServerExits(g)

\* A goroutine that can go on does; the server owes nothing.
CatalogFairness ==
    \A g \in Lookups : WF_catalogVars(LookupStep(g)) /\ WF_catalogVars(ReadLoop(g))

CatalogSpec == CatalogInit /\ [][CatalogNext]_catalogVars /\ CatalogFairness

----------------------------------------------------------------------------
\* What a call takes for its answer is the server's answer to that request, though
\* the server repeats answers and talks in between (jsonrpc.go:112-123).
AnswersMatch ==
    \A g \in Lookups : \A answer \in rpc[g].handed :
       lookup[g].pc = "wait" => answer.method = Method(g)

\* A call whose reader has gone, by an exit, an overlong line or a cancelled
\* context, returns, whichever step it was at (jsonrpc.go:82-84, 154-156).
CallsReturn ==
    <>[](\A g \in Lookups :
           lookup[g].ctx = "done" \/ rpc[g].closed => lookup[g].pc \in {"merge", "look", "done", "failed"})

\* Every exchange with an MCP server ends, with the answer to its own request if with
\* one.
ExchangesEnd == []AnswersMatch /\ CallsReturn

\* Racing first lookups leave one server answer as the catalog: once loaded, what is
\* listed and found never changes (registry.go:172-207).
CatalogIsOneAnswer == [][loaded => UNCHANGED mcpTools]_catalogVars
============================================================================
