-------------------------------- MODULE Cli --------------------------------
(***************************************************************************)
(* The command line client (cmd/harnessctl): it splits its arguments into  *)
(* the global flags and the subcommand, takes the flags that are not given *)
(* from the environment, chooses the transport security, sends the calls   *)
(* of the subcommand, and prints what it receives until it exits.          *)
(*                                                                         *)
(* An argument is a token: a flag when it starts with a dash (name = "" is *)
(* the terminator "--"), with its value after "=" when eq holds, and a     *)
(* word otherwise.  What the operator means is a list of settings, a       *)
(* subcommand and its arguments; Render writes it as the tokens of a       *)
(* command line, in either form of a flag.                                 *)
(***************************************************************************)
EXTENDS Naturals, Sequences, FiniteSets, SequencesExt, FiniteSetsExt

CONSTANTS
    Settings,      \* the flags the operator may give: [name, form, val]
    MaxSettings,   \* bound on the flags of a command
    Subcommands,   \* the subcommands typed
    MaxFrames      \* bound on the frames of a Run before its result

ASSUME CliAssumption ==
    /\ \A s \in Settings : s.form \in {"space", "eq", "bare"} /\ (s.form = "bare" <=> s.name = "insecure")
    /\ MaxSettings \in Nat /\ MaxFrames \in Nat

VARIABLES
    meant,    \* what the operator means
    env,      \* the environment variables
    cli,      \* the process
    rpcs,     \* the calls it sent, in order
    printed   \* what it printed

cliVars == <<meant, env, cli, rpcs, printed>>

Flag(name, eq, val) == [dash |-> TRUE, name |-> name, eq |-> eq, val |-> val]
Word(val) == [dash |-> FALSE, name |-> "", eq |-> FALSE, val |-> val]
Terminator == Flag("", FALSE, "")

\* One setting as tokens.
Written(s) ==
    CASE s.form = "eq" -> <<Flag(s.name, TRUE, s.val)>>
      [] s.form = "space" -> <<Flag(s.name, FALSE, ""), Word(s.val)>>
      [] s.form = "bare" -> <<Flag(s.name, FALSE, "")>>

Render(m) ==
    FlattenSeq([i \in DOMAIN m.settings |-> Written(m.settings[i])])
        \o (IF m.terminated THEN <<Terminator>> ELSE << >>)
        \o <<Word(m.sub)>> \o [i \in DOMAIN m.rest |-> Word(m.rest[i])]

-----------------------------------------------------------------------------
(* The arguments.                                                           *)

\* The known global flags, and whether they take a value token.
globalFlagValueArity == [endpoint |-> TRUE, session |-> TRUE, insecure |-> FALSE]
known == DOMAIN globalFlagValueArity

\* Faulty: a flag's value in the space form is not skipped.
splitArgs_NoArity(args) ==
    LET stops == {i \in DOMAIN args : ~args[i].dash \/ args[i] = Terminator}
        i == IF stops = {} THEN Len(args) + 1 ELSE Min(stops)
        at == IF i \in DOMAIN args /\ args[i] = Terminator THEN i + 1 ELSE i
    IN  [global |-> SubSeq(args, 1, i - 1),
         sub |-> IF at \in DOMAIN args THEN args[at].val ELSE "",
         rest |-> SubSeq(args, at + 1, Len(args))]

\* The subcommand is the first token that is no flag and no value of a known flag
\* before it; "--" makes the next token the subcommand.
splitArgs(args) ==
    LET scan[i \in 1 .. Len(args) + 2] ==
            IF i > Len(args) \/ args[i] = Terminator \/ ~args[i].dash THEN i
            ELSE IF ~args[i].eq /\ args[i].name \in known /\ i < Len(args) /\ globalFlagValueArity[args[i].name]
                 THEN scan[i + 2] ELSE scan[i + 1]
        i == Min({scan[1], Len(args) + 1})
        at == IF i \in DOMAIN args /\ args[i] = Terminator THEN i + 1 ELSE i
    IN  [global |-> SubSeq(args, 1, i - 1),
         sub |-> IF at \in DOMAIN args THEN args[at].val ELSE "",
         rest |-> SubSeq(args, at + 1, Len(args))]

\* The tokens of known flags; an unknown flag is dropped, a word ends the scan.
filterKnownArgs(args) ==
    LET keep[i \in 1 .. Len(args) + 2] ==
            IF i > Len(args) \/ args[i] = Terminator \/ ~args[i].dash THEN << >>
            ELSE IF args[i].name \notin known THEN keep[i + 1]
            ELSE IF /\ ~args[i].eq /\ globalFlagValueArity[args[i].name]
                    /\ i < Len(args) /\ ~args[i + 1].dash
                 THEN <<args[i], args[i + 1]>> \o keep[i + 2]
                 ELSE <<args[i]>> \o keep[i + 1]
    IN  keep[1]

\* flag.FlagSet.Parse: the last value of each flag; ok is FALSE when one has none.
Parse(args) ==
    LET set[i \in 1 .. Len(args) + 2] ==
            IF i > Len(args) \/ ~args[i].dash THEN [ok |-> TRUE, at |-> << >>]
            ELSE IF args[i].eq \/ ~globalFlagValueArity[args[i].name]
                 THEN [set[i + 1] EXCEPT !.at = <<[name |-> args[i].name, val |-> args[i].val]>> \o set[i + 1].at]
            ELSE IF i = Len(args) THEN [ok |-> FALSE, at |-> << >>]
            ELSE [set[i + 2] EXCEPT !.at = <<[name |-> args[i].name, val |-> args[i + 1].val]>> \o set[i + 2].at]
    IN  set[1]

\* The value of a string flag: the last one given, else the environment's.
LastOf(given, name, fallback) ==
    LET at == {i \in DOMAIN given : given[i].name = name}
    IN  IF at = {} \/ given[Max(at)].val = "" THEN fallback ELSE given[Max(at)].val

\* parseCLIFlags: the endpoint is required.
parseCLIFlags(args) ==
    LET p == Parse(filterKnownArgs(args))
        endpoint == LastOf(p.at, "endpoint", env.endpoint)
    IN  [ok |-> p.ok /\ endpoint # "",
         endpoint |-> endpoint,
         session |-> LastOf(p.at, "session", env.session),
         insecure |-> env.insecure \/ \E i \in DOMAIN p.at : p.at[i].name = "insecure"]

\* The dev mutual TLS comes before plaintext; neither is an error.
dial(cfg) == IF env.devInsecure THEN "mtls" ELSE IF cfg.insecure THEN "plain" ELSE "none"

-----------------------------------------------------------------------------

NoCfg == [ok |-> FALSE, endpoint |-> "", session |-> "", insecure |-> FALSE]

CliInit ==
    /\ \E n \in 0 .. MaxSettings :
         meant \in [settings : [1 .. n -> Settings], sub : Subcommands, rest : {<< >>, <<"w">>}, terminated : BOOLEAN]
    /\ env \in [endpoint : {"", "e0"}, session : {"", "s0"}, insecure : BOOLEAN, devInsecure : BOOLEAN]
    /\ cli = [pc |-> "start", cfg |-> NoCfg, sub |-> "", code |-> 0]
    /\ rpcs = << >> /\ printed = << >>

Exits(code) == cli' = [cli EXCEPT !.pc = "exit", !.code = code]

\* The call a subcommand starts with; "" when its arguments are wrong.
FirstCall(sub, session, rest) ==
    CASE sub = "session" -> "CreateSession"
      [] sub = "run" -> IF rest = << >> THEN "" ELSE IF session = "" THEN "CreateSession" ELSE "Run"
      [] sub \in {"approve", "deny"} -> IF rest = << >> THEN "" ELSE "Control"
      [] sub = "interrupt" -> "Control"
      [] sub = "fork" -> "Fork"
      [] OTHER -> ""

\* run, up to the first call: the flags are parsed before the subcommand is looked
\* at, audit goes to the database without a connection to the orchestrator, and
\* the transport is chosen before the arguments of the subcommand are checked.
Dispatch ==
    /\ cli.pc = "start"
    /\ LET split == splitArgs(Render(meant))
           cfg == parseCLIFlags(split.global)
           transport == dial(cfg)
           call == FirstCall(split.sub, cfg.session, split.rest)
       IN  IF ~cfg.ok THEN Exits(1) /\ UNCHANGED rpcs
           ELSE IF split.sub = "audit"
           THEN IF split.rest = << >> THEN Exits(1) /\ UNCHANGED rpcs
                ELSE /\ cli' = [cli EXCEPT !.pc = "call", !.cfg = cfg, !.sub = split.sub]
                     /\ rpcs' = <<[rpc |-> "VerifyAuditCheckpoints", to |-> "database", by |-> "sql", session |-> ""]>>
           ELSE IF transport = "none" \/ call = "" THEN Exits(1) /\ UNCHANGED rpcs
           ELSE /\ cli' = [cli EXCEPT !.pc = "call", !.cfg = cfg, !.sub = split.sub]
                /\ rpcs' = <<[rpc |-> call, to |-> cfg.endpoint, by |-> transport,
                              session |-> IF call = "CreateSession" THEN "" ELSE cfg.session]>>
    /\ UNCHANGED <<meant, env, printed>>

\* A line is printed; when standard output is closed the command fails.
Say(line, then) ==
    \/ printed' = Append(printed, line) /\ then
    \/ printed' = printed /\ Exits(1) /\ UNCHANGED rpcs

\* The call fails, or the checkpoints are not valid.
CallFails ==
    /\ cli.pc = "call"
    /\ \/ UNCHANGED printed
       \/ cli.sub = "audit" /\ printed' = Append(printed, "INVALID")
    /\ Exits(1)
    /\ UNCHANGED <<meant, env, rpcs>>

\* runCommand: the new session is named before the run is started in it.
RunInNewSession ==
    /\ cli.pc = "call" /\ cli.sub = "run" /\ Last(rpcs).rpc = "CreateSession"
    /\ Say("session", rpcs' = Append(rpcs, [Last(rpcs) EXCEPT !.rpc = "Run", !.session = "new"]) /\ UNCHANGED cli)
    /\ UNCHANGED <<meant, env>>

\* The stream of the run is open.
RunOpens ==
    /\ cli.pc = "call" /\ Last(rpcs).rpc = "Run"
    /\ cli' = [cli EXCEPT !.pc = "stream"]
    /\ UNCHANGED <<meant, env, rpcs, printed>>

\* The other subcommands print their answer and are done.
CommandAnswers ==
    /\ cli.pc = "call" /\ cli.sub # "run"
    /\ Say("answer", Exits(0) /\ UNCHANGED rpcs)
    /\ UNCHANGED <<meant, env>>

\* renderStream: an error of the stream.  (The server ends a Run without an error
\* only after its result.)
StreamBreaks ==
    /\ cli.pc = "stream"
    /\ Exits(1)
    /\ UNCHANGED <<meant, env, rpcs, printed>>

\* renderStream: a frame is printed; the result ends the command, whatever its
\* subtype.
StreamFrame ==
    /\ cli.pc = "stream" /\ Len(printed) < MaxFrames
    /\ \E frame \in {"text", "approval"} : Say(frame, UNCHANGED <<cli, rpcs>>)
    /\ UNCHANGED <<meant, env>>

StreamResult ==
    /\ cli.pc = "stream"
    /\ Say("result", Exits(0) /\ UNCHANGED rpcs)
    /\ UNCHANGED <<meant, env>>

CliNext ==
    \/ Dispatch \/ CallFails \/ RunInNewSession \/ RunOpens \/ CommandAnswers
    \/ StreamBreaks \/ StreamFrame \/ StreamResult

CliSpec == CliInit /\ [][CliNext]_cliVars

-----------------------------------------------------------------------------

MeantValue(name, fallback) == LastOf(meant.settings, name, fallback)
MeantInsecure == env.insecure \/ \E i \in DOMAIN meant.settings : meant.settings[i].name = "insecure"

\* Whichever form each flag is written in, and wherever a value comes from, the
\* command does what was meant: every call goes to the endpoint, over the
\* transport and to the session the operator named (a run without one goes to the
\* session it created), and exit status 0 means that the command was carried out
\* to its answer, a run to its result (splitArgs: "`--endpoint host` consumes the
\* following token"; renderStream).
CommandIsCarriedOut ==
    /\ \A i \in DOMAIN rpcs :
         IF meant.sub = "audit" THEN rpcs[i].to = "database"
         ELSE /\ rpcs[i].to = MeantValue("endpoint", env.endpoint)
              /\ rpcs[i].by = IF env.devInsecure THEN "mtls" ELSE "plain"
              /\ rpcs[i].by = "plain" => MeantInsecure
              /\ rpcs[i].session = CASE rpcs[i].rpc = "CreateSession" -> ""
                                     [] i = 2 -> "new"
                                     [] OTHER -> MeantValue("session", env.session)
    /\ (cli.pc = "exit" /\ cli.code = 0) =>
         /\ rpcs # << >> /\ printed # << >>
         /\ Last(printed) = IF meant.sub = "run" THEN "result" ELSE "answer"
    /\ (cli.pc = "exit" /\ rpcs = << >>) =>
         \/ MeantValue("endpoint", env.endpoint) = ""
         \/ ~env.devInsecure /\ ~MeantInsecure
         \/ meant.rest = << >> \/ meant.sub \notin {"session", "run", "approve", "deny", "interrupt", "fork", "audit"}
=============================================================================
