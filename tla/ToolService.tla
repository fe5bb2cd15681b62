---------------------------- MODULE ToolService ----------------------------
(***************************************************************************)
(* What the agent loop may rely on when it sends ExecuteTool requests: the *)
(* tool runs at most once for a request, and an answer carries what this   *)
(* request produced, what an earlier request with the same key produced,   *)
(* or an error that no tool produced.  ToolRuntime implements it.          *)
(***************************************************************************)
CONSTANTS Runs, Calls, Keys, NoCall

VARIABLE tasks    \* the requests sent so far

Requests == [run : Runs, call : Calls, key : Keys]

TypeOK ==
    /\ DOMAIN tasks \subseteq Requests
    /\ \A q \in DOMAIN tasks :
          tasks[q] \in [stage : {"sent", "answered", "failed"}, ran : BOOLEAN, of : Calls \cup {NoCall}]

Init == tasks = << >>

Sent(q) == q \in DOMAIN tasks /\ tasks[q].stage = "sent"

Submit(q) ==
    /\ q \notin DOMAIN tasks
    /\ tasks' = [p \in DOMAIN tasks \cup {q} |->
                    IF p = q THEN [stage |-> "sent", ran |-> FALSE, of |-> NoCall] ELSE tasks[p]]

\* The side effect of the tool happens.
Execute(q) ==
    /\ Sent(q) /\ ~ tasks[q].ran
    /\ tasks' = [tasks EXCEPT ![q].ran = TRUE]

\* The requests whose outcome may be the answer to q.
Sources(q) == {p \in DOMAIN tasks : p.key = q.key /\ tasks[p].ran /\ (tasks[q].ran => p = q)}

Answer(q) ==
    /\ Sent(q)
    /\ \E of \in {p.call : p \in Sources(q)} \cup {NoCall} :
          /\ tasks[q].ran => of # NoCall
          /\ tasks' = [tasks EXCEPT ![q].stage = "answered", ![q].of = of]

\* The caller sees an error; the tool may have run.
Fail(q) ==
    /\ Sent(q)
    /\ tasks' = [tasks EXCEPT ![q].stage = "failed"]

Serve(q) == Execute(q) \/ Answer(q) \/ Fail(q)

Next == \E q \in Requests : Submit(q) \/ Serve(q)

Spec == Init /\ [][Next]_tasks
=============================================================================
