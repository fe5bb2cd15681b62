---------------------------- MODULE Permission -----------------------------
\* What lets a tool call through (src/internal/orchestrator/policy/engine.go,
\* app/hooks/hooks.go and gateCall of app/agent/tools.go): the PreToolUse hooks, one
\* after the other, then the permission rules, then the human where these ask.
\* The hook commands are external: each exits, answers or fails as it likes.
EXTENDS Naturals, Sequences, FiniteSets

CONSTANTS
    Rules,          \* the rules a configuration may hold
    MaxRules,       \* in how long a list
    ToolArgs,       \* the calls: tool, classes, target host, text
    HookSpecs,      \* the events of each hook of the chain, in order
    EditTools       \* Config.EditTools

ASSUME PermissionAssumption ==
    /\ MaxRules \in Nat
    /\ \A r \in Rules : r.effect \in {"deny", "allow"}
    /\ Len(HookSpecs) \in Nat /\ DOMAIN HookSpecs = 1..Len(HookSpecs)
    \* The file tools that accept_edits is for reach no network.
    /\ \A c \in ToolArgs : c.tool \in EditTools => c.egress = "none"

VARIABLES
    ruleSet,    \* Config.RuleSet.Rules
    gateMode,   \* the operating mode
    tainted,
    gate,       \* the call at the gate: its arguments, the next hook, where it is
    ran,        \* the hooks that ran for it, with their answers
    decided     \* the PermissionDecided events of this call

gateVars == <<ruleSet, gateMode, tainted, gate, ran, decided>>

Modes == {"default", "accept_edits", "plan", "bypass"}
RuleLists(n) == UNION {[1..k -> Rules] : k \in 0..n}

PermissionInit ==
    /\ ruleSet \in RuleLists(MaxRules)
    /\ gateMode \in Modes /\ tainted \in BOOLEAN
    /\ \E call \in ToolArgs : gate = [call |-> call, hook |-> 1, pc |-> "hooks"]
    /\ ran = <<>> /\ decided = <<>>

----------------------------------------------------------------------------
\* The engine

\* hostMatches: the target is the host itself or below it.  Host names are
\* sequences of labels; the target is the "host" argument or the URL's.
HostMatches(want, got) ==
    /\ want # <<>> /\ Len(got) >= Len(want)
    /\ SubSeq(got, Len(got) - Len(want) + 1, Len(got)) = want

\* anyStringArg with a prefix, and with a substring.
HasPrefix(text, p) == Len(text) >= Len(p) /\ SubSeq(text, 1, Len(p)) = p
Includes(text, p) == \E i \in 0..Len(text) - Len(p) : SubSeq(text, i + 1, i + Len(p)) = p

\* argMatches: "host:...", "...*" or a literal.
ArgMatches(match, call) ==
    CASE match.kind = "host" -> HostMatches(match.arg, call.host)
      [] match.kind = "prefix" -> HasPrefix(call.text, match.arg)
      [] match.kind = "literal" -> Includes(call.text, match.arg)

\* ruleMatches: the tool's name, or any, and then the arguments.
RuleMatches(r, call) ==
    /\ r.tool \in {"any", call.tool}
    /\ r.match.kind = "none" \/ ArgMatches(r.match, call)

\* isExternal: a class that was never set counts as external.
IsExternal(call) == call.egress \notin {"none", "internal"}

Matched(rules, effect, call) ==
    \E i \in DOMAIN rules : rules[i].effect = effect /\ RuleMatches(rules[i], call)

\* Evaluate: deny, then mode, then allow, then ask; the first that speaks decides.
Evaluate(rules, call, mode, taint) ==
    CASE Matched(rules, "deny", call) -> "deny"
      [] ~Matched(rules, "deny", call) /\ mode = "bypass" -> IF taint THEN "error" ELSE "allow"
      [] ~Matched(rules, "deny", call) /\ mode = "accept_edits" /\ call.tool \in EditTools -> "allow"
      [] ~Matched(rules, "deny", call) /\ mode = "plan" /\ call.mutating -> "ask"
      [] OTHER -> IF Matched(rules, "allow", call) /\ ~(IsExternal(call) /\ taint) THEN "allow" ELSE "ask"

----------------------------------------------------------------------------
\* The hook chain

\* specMatchesEvent: no events at all means every event.
SpecMatchesEvent(i) == HookSpecs[i] = {} \/ "PreToolUse" \in HookSpecs[i]

\* parseResult: a non-zero exit and "continue": false block; silence and what is no
\* JSON are no opinion.
ParseResult(out) == out \in {"continue", "silent", "junk"}

HookOutputs == {"continue", "stop", "exit", "silent", "junk"}

Moves(pc) == gate' = [gate EXCEPT !.pc = pc]
Decides(outcome) == decided' = Append(decided, outcome)

\* A hook that is not for this event is passed over.
HookSkipped ==
    /\ gate.pc = "hooks" /\ gate.hook <= Len(HookSpecs) /\ ~SpecMatchesEvent(gate.hook)
    /\ gate' = [gate EXCEPT !.hook = @ + 1]
    /\ UNCHANGED <<ruleSet, gateMode, tainted, ran, decided>>

\* A fault the code must not have: the first hook that allows ends the chain.
HookRuns_FirstAllows(out) ==
    /\ gate.pc = "hooks" /\ gate.hook <= Len(HookSpecs) /\ SpecMatchesEvent(gate.hook)
    /\ ran' = Append(ran, out)
    /\ IF ParseResult(out) THEN gate' = [gate EXCEPT !.hook = Len(HookSpecs) + 1] /\ UNCHANGED decided
       ELSE Moves("refused") /\ Decides("deny")
    /\ UNCHANGED <<ruleSet, gateMode, tainted>>

\* The next hook runs.  One that blocks ends the chain: the refusal is recorded as a
\* deny and answers the call.
HookRuns(out) ==
    /\ gate.pc = "hooks" /\ gate.hook <= Len(HookSpecs) /\ SpecMatchesEvent(gate.hook)
    /\ ran' = Append(ran, out)
    /\ IF ParseResult(out) THEN gate' = [gate EXCEPT !.hook = @ + 1] /\ UNCHANGED decided
       ELSE Moves("refused") /\ Decides("deny")
    /\ UNCHANGED <<ruleSet, gateMode, tainted>>

\* The command cannot be started, or the run was cancelled: an error of the run.
HookFails ==
    /\ gate.pc = "hooks"
    /\ Moves("error")
    /\ UNCHANGED <<ruleSet, gateMode, tainted, ran, decided>>

----------------------------------------------------------------------------
\* gateCall after the hooks

PolicyDecides ==
    /\ gate.pc = "hooks" /\ gate.hook > Len(HookSpecs)
    /\ LET outcome == Evaluate(ruleSet, gate.call, gateMode, tainted)
       IN CASE outcome = "deny" -> Moves("refused") /\ Decides("deny")
            [] outcome = "allow" -> Moves("passed") /\ Decides("allow")
            [] outcome = "ask" -> Moves("asking") /\ UNCHANGED decided
            [] outcome = "error" -> Moves("error") /\ UNCHANGED decided
    /\ UNCHANGED <<ruleSet, gateMode, tainted, ran>>

\* The human's answer, or the end of the wait for it.
AskAnswered(resolution) ==
    /\ gate.pc = "asking"
    /\ IF resolution = "cancelled" THEN Moves("error") /\ UNCHANGED decided
       ELSE Moves(IF resolution = "allowed" THEN "passed" ELSE "refused") /\ Decides(resolution)
    /\ UNCHANGED <<ruleSet, gateMode, tainted, ran>>

PermissionNext ==
    \/ HookSkipped
    \/ \E out \in HookOutputs : HookRuns(out)
    \/ HookFails
    \/ PolicyDecides
    \/ \E resolution \in {"allowed", "denied", "cancelled"} : AskAnswered(resolution)

PermissionSpec == PermissionInit /\ [][PermissionNext]_gateVars

----------------------------------------------------------------------------
\* A call that passes was let through by everyone concerned: every hook of the
\* event ran and none blocked, no deny rule matches it, wherever in the list it
\* stands and in every mode, and once untrusted content is in the session a call
\* that can leave the network has a human's answer.  One decision is on record for
\* it, and for a refused one (engine.go:82-92, tools.go:145-150).
PassedMeansCleared ==
    /\ gate.pc = "passed" =>
         /\ Len(ran) = Cardinality({i \in DOMAIN HookSpecs : SpecMatchesEvent(i)})
         /\ \A i \in DOMAIN ran : ran[i] \notin {"stop", "exit"}
         /\ \A i \in DOMAIN ruleSet : ruleSet[i].effect = "deny" => ~RuleMatches(ruleSet[i], gate.call)
         /\ tainted /\ IsExternal(gate.call) => decided = <<"allowed">>
    /\ Len(decided) = IF gate.pc \in {"passed", "refused"} THEN 1 ELSE 0
============================================================================
