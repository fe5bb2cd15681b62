------------------------------ MODULE FrontEnd -----------------------------
(***************************************************************************)
(* The client edge of the orchestrator: three transports (gRPC, REST, MCP) *)
(* over one server.  A request is authenticated with keys fetched from the *)
(* identity provider, authorized against the tenant that owns the session, *)
(* decoded, handled, and its gRPC status is turned into what the transport *)
(* answers.                                                                *)
(*                                                                         *)
(* The identity provider rotates its keys and may be unreachable; the      *)
(* verifier caches them and fetches again when it meets a key it does not  *)
(* know, at most once in MinRefresh units of time.                         *)
(***************************************************************************)
EXTENDS Naturals, FiniteSets

CONSTANTS
    Tenants,       \* tenants that have callers
    EdgeSessions,  \* session ids the server may mint
    Kids,          \* key ids of the identity provider
    Callers,       \* calls in flight
    MinRefresh     \* least time between two fetches of the key set

ASSUME EdgeAssumption ==
    /\ IsFiniteSet(Tenants) /\ IsFiniteSet(EdgeSessions) /\ IsFiniteSet(Kids)
    /\ "none" \notin EdgeSessions
    /\ MinRefresh \in Nat \ {0}

VARIABLES
    published,   \* the key set the identity provider serves now
    idp,         \* whether it answers
    keys,        \* the verifier's cached key set
    age,         \* time since lastFetch, counted up to MinRefresh
    quiet,       \* time since the provider was last asked, counted up to MinRefresh
    verdict,     \* what the last token of each key was told
    store,       \* sessions rows: id -> [tenant, head]
    request,     \* the call each caller waits for
    opened       \* sessions CreateSession answered with

authVars == <<published, idp, keys, age, quiet, verdict>>
edgeCallVars == <<store, request, opened>>
edgeVars == <<published, idp, keys, age, quiet, verdict, store, request, opened>>

NoTenant == "none"

\* The calls and the ways their arguments go wrong: they do not decode, ask for the
\* operator's mode, hold no page token of ours, name no action, or approve what does
\* not wait.
OpArgs ==
    [create |-> {"ok", "malformed", "bypass"}, get |-> {"ok"}, list |-> {"ok", "malformed", "badtoken"},
     control |-> {"ok", "malformed", "noaction", "nopending"}, fork |-> {"ok", "malformed"}]

Idle == [op |-> "none", principal |-> NoTenant, sid |-> "none", at |-> "idle"]

\* Only a gRPC message has a tenant field; it decodes or the call does not exist.
EdgeRequests ==
    {q \in [edge : {"grpc", "rest", "mcp"}, op : DOMAIN OpArgs, args : UNION {OpArgs[o] : o \in DOMAIN OpArgs},
            principal : Tenants, tenant : Tenants \cup {NoTenant},
            sid : EdgeSessions \cup {"none"}] :
       /\ q.args \in OpArgs[q.op]
       /\ q.edge # "grpc" => q.tenant = NoTenant
       /\ q.edge = "grpc" => q.args # "malformed"
       /\ q.op \in {"create", "list"} => q.sid = "none"}

EdgeInit ==
    /\ published \in {{k} : k \in Kids} /\ idp = "up"
    /\ keys = published /\ age = 0 /\ quiet = 0 /\ verdict = [k \in Kids |-> "none"]
    /\ store = << >> /\ request = [c \in Callers |-> Idle] /\ opened = {}

----------------------------------------------------------------------------
(* The identity provider (external) and time.                               *)

\* A rotation: a new key is served, beside the old ones or instead of them.
Rotate(k) ==
    /\ k \notin published
    /\ published' \in {published \cup {k}, {k}}
    /\ UNCHANGED <<idp, keys, age, quiet, verdict, edgeCallVars>>

Outage ==
    /\ idp' = IF idp = "up" THEN "down" ELSE "up"
    /\ UNCHANGED <<published, keys, age, quiet, verdict, edgeCallVars>>

Later(t) == IF t < MinRefresh THEN t + 1 ELSE t

TimePasses ==
    /\ age' = Later(age) /\ quiet' = Later(quiet)
    /\ UNCHANGED <<published, idp, keys, verdict, edgeCallVars>>

----------------------------------------------------------------------------
(* Authentication.                                                          *)

\* The lookup of a key in a key set.  A token without a kid is matched only when
\* there is one key.
Resolve(cache, kid) ==
    IF kid # "none" THEN {kid} \cap cache
    ELSE IF Cardinality(cache) = 1 THEN cache ELSE {}

\* VerifyBearer: the signature must be of the key that was resolved and the token
\* must name a tenant.
VerifyBearer(cache, token) ==
    IF token.by \in Resolve(cache, token.kid) /\ token.tenant # NoTenant THEN "ok" ELSE "refused"

\* A kid that is not in the cache is looked up at the provider, once in MinRefresh.
MayFetch(kid) == kid \notin keys \cup {"none"} /\ age = MinRefresh

\* Fault: the key set that was fetched is not stored.
Fetch_KeepsCache(kid) ==
    IF MayFetch(kid) THEN age' = 0 /\ quiet' = 0 /\ UNCHANGED keys
                     ELSE UNCHANGED <<keys, age, quiet>>

\* provider.resolve on an unknown kid.  The attempt counts whether or not it
\* succeeds; one that fails leaves the cache as it is.
Fetch(kid) ==
    IF MayFetch(kid) THEN /\ keys' = IF idp = "up" THEN published ELSE keys
                          /\ age' = 0 /\ quiet' = 0
                     ELSE UNCHANGED <<keys, age, quiet>>

\* A token arrives and is verified with the key set the lookup leaves.
Authenticate(token) ==
    /\ Fetch(token.kid)
    /\ verdict' = [verdict EXCEPT ![token.by] = VerifyBearer(keys', token)]
    /\ UNCHANGED <<published, idp, edgeCallVars>>

----------------------------------------------------------------------------
(* Authorization and the handlers.                                          *)

\* authorizeTenant: the tenant of the request, when it names one, is the caller's.
AuthorizeTenant(principal, reqTenant) ==
    IF reqTenant \in {NoTenant, principal} THEN "OK" ELSE "PermissionDenied"

\* What a transaction scoped to a tenant sees (row-level security, external).
VisibleRows(principal) == {s \in DOMAIN store : store[s].tenant = principal}

\* authorizeSession: a session that is missing, or that row-level security hides,
\* is not found.
AuthorizeSession(principal, sid) == IF sid \in VisibleRows(principal) THEN "OK" ELSE "NotFound"

\* The answers of the handlers before their store operation: the first check that
\* fails, in the order of the code.
First(a, b) == IF a # "OK" THEN a ELSE b

CreateChecks(principal, q) ==
    First(AuthorizeTenant(principal, q.tenant), IF q.args = "bypass" THEN "InvalidArgument" ELSE "OK")

GetChecks(principal, q) ==
    First(AuthorizeTenant(principal, q.tenant), AuthorizeSession(principal, q.sid))

ListChecks(principal, q) ==
    First(AuthorizeTenant(principal, q.tenant), IF q.args = "badtoken" THEN "InvalidArgument" ELSE "OK")

\* Approve and Deny answer FailedPrecondition when nothing waits for a decision.
ControlChecks(principal, q) ==
    First(GetChecks(principal, q), CASE q.args = "noaction" -> "InvalidArgument"
                                     [] q.args = "nopending" -> "FailedPrecondition"
                                     [] OTHER -> "OK")

ServerChecks(principal, q) ==
    CASE q.op = "create" -> CreateChecks(principal, q)
      [] q.op = "list" -> ListChecks(principal, q)
      [] q.op = "control" -> ControlChecks(principal, q)
      [] OTHER -> GetChecks(principal, q)

\* What REST checks before it calls the server.  The body and the mode of a new
\* session, the query of a listing, the body and the action of a control.
RestCreates(q) == q.args # "malformed"
RestReads(q) == q.args # "malformed"
RestControls(q) == q.args \notin {"malformed", "noaction"}

RestDecodes(q) ==
    CASE q.op = "create" -> RestCreates(q)
      [] q.op \in {"control", "fork"} -> RestControls(q)
      [] OTHER -> RestReads(q)

\* The same for the arguments of an MCP tool.  A tool on a session names one,
\* except control, which leaves that to the server.
McpCreates(q) == q.args # "malformed"
McpReads(q) == q.args # "malformed" /\ (q.op = "get" => q.sid # "none")
McpControls(q) == q.args \notin {"malformed", "noaction"} /\ (q.op = "fork" => q.sid # "none")

McpDecodes(q) ==
    CASE q.op = "create" -> McpCreates(q)
      [] q.op \in {"control", "fork"} -> McpControls(q)
      [] OTHER -> McpReads(q)

\* httpStatus of the REST edge.
RestHttpStatus(code) ==
    CASE code = "OK" -> 200
      [] code \in {"InvalidArgument", "FailedPrecondition", "OutOfRange"} -> 400
      [] code = "Unauthenticated" -> 401
      [] code = "PermissionDenied" -> 403
      [] code = "NotFound" -> 404
      [] code \in {"AlreadyExists", "Aborted"} -> 409
      [] code = "ResourceExhausted" -> 429
      [] code = "Canceled" -> 499
      [] code = "Unimplemented" -> 501
      [] code = "Unavailable" -> 503
      [] code = "DeadlineExceeded" -> 504
      [] OTHER -> 500

\* httpStatus of the MCP edge.
McpHttpStatus(code) ==
    CASE code = "OK" -> 200
      [] code \in {"InvalidArgument", "FailedPrecondition", "OutOfRange"} -> 400
      [] code = "Unauthenticated" -> 401
      [] code = "PermissionDenied" -> 403
      [] code = "NotFound" -> 404
      [] code \in {"AlreadyExists", "Aborted"} -> 409
      [] code = "ResourceExhausted" -> 429
      [] code = "Canceled" -> 499
      [] code = "Unimplemented" -> 501
      [] code = "Unavailable" -> 503
      [] code = "DeadlineExceeded" -> 504
      [] OTHER -> 500

\* jsonRPCCode: the code inside the JSON-RPC error of the MCP edge.
JsonRpcCode(code) ==
    CASE code \in {"InvalidArgument", "OutOfRange"} -> "invalid_params"
      [] code = "Internal" -> "internal_error"
      [] OTHER -> "server_error"

\* What the caller of each transport gets for a server status.
RestAnswer(q, code) == IF RestDecodes(q) THEN RestHttpStatus(code) ELSE 400

McpAnswer(q, code) ==
    IF ~McpDecodes(q) THEN [http |-> 200, error |-> "invalid_params"]
    ELSE [http |-> McpHttpStatus(code), error |-> IF code = "OK" THEN "" ELSE JsonRpcCode(code)]

\* The server is called only when the transport has decoded the request.
ReachesServer(q) ==
    CASE q.edge = "rest" -> RestDecodes(q)
      [] q.edge = "mcp" -> McpDecodes(q)
      [] OTHER -> TRUE

Passes(q) == ReachesServer(q) /\ ServerChecks(q.principal, q) = "OK"

\* An authenticated call arrives and passes the checks.  One that does not is
\* answered at once and leaves nothing behind.
Asks(c, q) ==
    /\ request[c].at = "idle" /\ Passes(q)
    /\ request' = [request EXCEPT ![c] =
                     [op |-> q.op, principal |-> q.principal, sid |-> q.sid, at |-> "sent"]]
    /\ UNCHANGED <<store, opened, authVars>>

Answered(c, rows, told) ==
    /\ request' = [request EXCEPT ![c] = Idle]
    /\ store' = rows /\ opened' = told
    /\ UNCHANGED authVars

\* A read, a Control, whose effects are on the run and not on the rows, and a store
\* operation that fails.
AnswersOnly(c) ==
    /\ request[c].at = "sent"
    /\ Answered(c, store, opened)

\* CreateSession, its first write: the row, under a fresh id, owned by the tenant
\* of the token.
CreateRow(c, s) ==
    /\ request[c].at = "sent" /\ request[c].op = "create"
    /\ s \notin DOMAIN store
    /\ store' = [x \in DOMAIN store \cup {s} |->
                   IF x = s THEN [tenant |-> request[c].principal, head |-> 0] ELSE store[x]]
    /\ request' = [request EXCEPT ![c].at = "row", ![c].sid = s]
    /\ UNCHANGED <<opened, authVars>>

\* Fault: the id is returned although the first event was not appended.
AppendStarted_IgnoresError(c) ==
    /\ request[c].at = "row"
    /\ \E rows \in {store, [store EXCEPT ![request[c].sid].head = 1]} :
         Answered(c, rows, opened \cup {request[c].sid})

\* Its second write: SessionStarted.  When it fails the row stays, and the caller
\* is told of an error and of no id.
AppendStarted(c) ==
    /\ request[c].at = "row"
    /\ \/ Answered(c, [store EXCEPT ![request[c].sid].head = 1], opened \cup {request[c].sid})
       \/ Answered(c, store, opened)

\* Fork, after the parent was authorized: the child starts at the parent's head or
\* before; a later point is refused
\* by the store, which the caller sees as Internal.
ForkRow(c, s) ==
    /\ request[c].at = "sent" /\ request[c].op = "fork"
    /\ s \notin DOMAIN store
    /\ \E n \in 0..store[request[c].sid].head :
         Answered(c, [x \in DOMAIN store \cup {s} |->
                        IF x = s THEN [tenant |-> request[c].principal, head |-> n] ELSE store[x]], opened)

----------------------------------------------------------------------------
\* Tokens as they are issued: of one key, whose kid the header may leave out, with
\* or without the tenant claim.
Tokens == UNION {[kid : {"none", k}, by : {k}, tenant : Tenants \cup {NoTenant}] : k \in Kids}

AuthNext ==
    \/ \E k \in Kids : Rotate(k)
    \/ \E token \in Tokens : Authenticate(token)
    \/ Outage \/ TimePasses

CallNext ==
    \E c \in Callers :
      \/ \E q \in EdgeRequests : Asks(c, q)
      \/ AnswersOnly(c) \/ AppendStarted(c)
      \/ \E s \in EdgeSessions : CreateRow(c, s) \/ ForkRow(c, s)

\* A caller with a token of a served key comes back.
CallerReturns(k) ==
    k \in published /\ \E token \in Tokens : token.by = k /\ token.kid = k /\ Authenticate(token)

\* Time passes, and the callers come back.
AuthFairness ==
    /\ WF_authVars(TimePasses)
    /\ \A k \in Kids : WF_authVars(CallerReturns(k))

EdgeSpec == EdgeInit /\ [][AuthNext \/ CallNext]_edgeVars /\ AuthFairness

----------------------------------------------------------------------------
(* Properties                                                               *)

\* One policy behind every transport: whatever the server would answer now, while
\* another call is halfway, to a request that decodes, REST and MCP give it the
\* same HTTP status, an MCP error exactly when REST reports one, and a request
\* either edge refuses on its own is one the server refuses as well.
TransportsAgree ==
    (\E c \in Callers : request[c] # Idle) =>
    \A q \in {x \in EdgeRequests : x.edge = "mcp"} :
      LET code == ServerChecks(q.principal, q)
          rest == RestAnswer(q, code)
          mcp  == McpAnswer(q, code)
      IN  /\ RestDecodes(q) /\ McpDecodes(q) => mcp.http = rest /\ (rest = 200) = (mcp.error = "")
          /\ q.args # "malformed" /\ ~(RestDecodes(q) /\ McpDecodes(q)) => code # "OK"

\* A row belongs to the tenant it was made for, for good; a call makes and changes
\* rows of its caller's tenant only, and branches only from them, even when two
\* tenants' calls interleave between the check of a session and its use.
TenantsKeepApart ==
    [][/\ \A s \in DOMAIN store : s \in DOMAIN store' /\ store'[s].tenant = store[s].tenant
       /\ \A c \in Callers :
            LET q == request[c]
            IN  request'[c] # q =>
                  /\ \A s \in DOMAIN store' : s \notin DOMAIN store \/ store'[s] # store[s]
                                              => store'[s].tenant = q.principal
                  /\ q.op = "fork" /\ store' # store => store[q.sid].tenant = q.principal]_edgeVars

\* A session CreateSession answered with has its first event, although the row and
\* the event are two transactions and the second may fail.
OpenedIsStarted == \A s \in opened : s \in DOMAIN store /\ store[s].head > 0

\* Whatever a caller is told holds, on every transport and while the calls of two
\* tenants interleave: the answer, the session it was given and whose it is.
AnswersHold == [](TransportsAgree /\ OpenedIsStarted) /\ TenantsKeepApart

\* The identity provider is shielded: between two fetches of the key set at least
\* MinRefresh passes, whatever tokens arrive and whether or not the provider
\* answers, and the cache is never emptied.
FetchesAreSpaced ==
    [][keys' # {} /\ (quiet' < quiet => quiet = MinRefresh)]_edgeVars

\* A rotation needs no restart: once the provider serves a key for good and stays
\* reachable, the tokens of that key come to be trusted, and stay so.
RotationIsLearned ==
    \A k \in Kids : <>[](k \in published /\ idp = "up") => <>[](k \in keys)

\* The key set is refreshed often enough and no more often than allowed (the cache
\* of the OIDC verifier).
KeysAreKeptFresh == FetchesAreSpaced /\ RotationIsLearned

=============================================================================
