--------------------------- MODULE ServiceProofs ----------------------------
(***************************************************************************)
(* Proofs about what is served over a connection that may break: the calls *)
(* of the tool runtime, the requests of the web tools, the frames a client *)
(* of Run receives, and the answers of the client edge.                    *)
(***************************************************************************)
EXTENDS ToolRuntime, WebAccess, Relay, FrontEnd, TLAPS

-----------------------------------------------------------------------------
(***************************************************************************)
(* The tool runtime keeps its ledger honest and implements the service the *)
(* agent loop relies on, for any set of runs, calls and keys and any       *)
(* number of requests with one key in flight at once.                      *)
(*                                                                         *)
(* The row of a key is written by whoever ends last, from what its request *)
(* carries along.  RuntimeInv says what a request carries at each stage:   *)
(* that it has a row once it passed the guard, that the tool did not run   *)
(* before its stage, and whose outcome it holds after it.                  *)
(***************************************************************************)

\* What a request that has come this far carries along.
Carries(q, e) ==
    /\ e.stage \in {"gate", "run", "offload", "record"} => q.key \in DOMAIN ledger
    /\ e.stage \in {"begin", "gate", "run"} => ~ e.ran
    /\ e.stage = "offload" => e.ran
    /\ e.stage \in {"offload", "record"} => e.result.of = IF e.ran THEN q.call ELSE NoCall
    /\ e.stage = "record" /\ e.status = "completed" => e.ran /\ ~ e.result.isError
    /\ e.ran => q.key \in DOMAIN ledger

StagesAgree == \A q \in DOMAIN exec : Carries(q, exec[q])

RuntimeInv == TypeOK /\ StagesAgree /\ CompletedRowIsTrue

\* The step of one request: it goes on as e, and the others stay where they are.
Becomes(q, e) ==
    /\ q \in DOMAIN exec
    /\ DOMAIN exec' = DOMAIN exec
    /\ exec'[q] = e
    /\ \A p \in DOMAIN exec \ {q} : exec'[p] = exec[p]

-----------------------------------------------------------------------------
\* Moving on, as a step of one request.
LEMMA GotoBecomes ==
  ASSUME TypeOK, NEW q \in DOMAIN exec, NEW stage, Goto(q, stage)
  PROVE  Becomes(q, [stage |-> stage, ran |-> exec[q].ran, result |-> exec[q].result, status |-> exec[q].status])
  BY Zenon DEF TypeOK, Goto, Becomes, Execs

\* An answer, as a step of one request.
LEMMA AnswerBecomes ==
  ASSUME TypeOK, NEW q \in DOMAIN exec, NEW obs, Answer(q, obs)
  PROVE  Becomes(q, [stage |-> "answered", ran |-> exec[q].ran, result |-> obs, status |-> exec[q].status])
  BY Zenon DEF TypeOK, Answer, Becomes, Execs

\* Going on to the ledger, as a step of one request.
LEMMA ToRecordBecomes ==
  ASSUME TypeOK, NEW q \in DOMAIN exec, NEW obs, NEW status, ToRecord(q, obs, status)
  PROVE  Becomes(q, [stage |-> "record", ran |-> exec[q].ran, result |-> obs, status |-> status])
  BY Zenon DEF TypeOK, ToRecord, Becomes, Execs

\* A step that carries along what its stage demands, keeps the rows and undoes no
\* effect, keeps the invariant.
LEMMA StepKeepsInv ==
  ASSUME RuntimeInv, NEW q \in DOMAIN exec, NEW e \in Execs, Becomes(q, e), exec[q].ran => e.ran,
         Carries(q, e)',
         DOMAIN ledger \subseteq DOMAIN ledger', DOMAIN ledger' \subseteq Keys,
         \A k \in DOMAIN ledger' : ledger'[k] \in Rows,
         \A k \in DOMAIN ledger' : ledger'[k].status = "completed" =>
             \/ k \in DOMAIN ledger /\ ledger'[k] = ledger[k]
             \/ ~ ledger'[k].result.isError /\ q.key = k /\ q.call = ledger'[k].result.of /\ e.ran
  PROVE  RuntimeInv'
  <1>1. TypeOK'
    BY Zenon DEF RuntimeInv, TypeOK, Becomes
  <1>2. StagesAgree'
    <2> SUFFICES ASSUME NEW p \in DOMAIN exec PROVE Carries(p, exec[p])'
      BY Zenon DEF StagesAgree, Becomes
    <2>1. CASE p = q
      BY Zenon, <2>1 DEF Becomes, Carries
    <2>2. CASE p # q
      <3>1. exec'[p] = exec[p] /\ Carries(p, exec[p])
        BY Zenon, <2>2 DEF RuntimeInv, StagesAgree, Becomes
      <3> QED BY Zenon, <3>1 DEF Carries
    <2> QED BY Zenon, <2>1, <2>2
  <1>3. CompletedRowIsTrue'
    BY DEF RuntimeInv, CompletedRowIsTrue, Becomes
  <1> QED BY Zenon, <1>1, <1>2, <1>3 DEF RuntimeInv

\* The steps that leave the ledger alone need only say what the request carries on.
LEMMA QuietStepKeepsInv ==
  ASSUME RuntimeInv, NEW q \in DOMAIN exec, NEW e \in Execs, Becomes(q, e), exec[q].ran => e.ran,
         Carries(q, e), UNCHANGED ledger
  PROVE  RuntimeInv'
  <1>1. Carries(q, e)'
    BY Zenon DEF Carries
  <1> QED BY Zenon, <1>1, StepKeepsInv DEF RuntimeInv, TypeOK

\* A new request carries nothing.
LEMMA SubmitKeepsInv ==
  ASSUME RuntimeInv, NEW q \in Requests, Submit(q)
  PROVE  RuntimeInv'
  <1>1. /\ DOMAIN exec' = DOMAIN exec \cup {q} /\ q \notin DOMAIN exec /\ ledger' = ledger
        /\ exec'[q] = [stage |-> "begin", ran |-> FALSE, result |-> ErrResult, status |-> "started"]
        /\ \A p \in DOMAIN exec : exec'[p] = exec[p]
    BY Zenon DEF Submit, Extend
  <1>2. exec'[q] \in Execs
    BY <1>1 DEF Execs, Active, Observations, ErrResult
  <1>3. TypeOK'
    BY Zenon, <1>1, <1>2 DEF RuntimeInv, TypeOK
  <1>4. StagesAgree'
    <2>1. Carries(q, exec[q])'
      BY <1>1 DEF Carries
    <2>2. ASSUME NEW p \in DOMAIN exec PROVE Carries(p, exec[p])'
      <3>1. exec'[p] = exec[p] /\ Carries(p, exec[p])
        BY Zenon, <1>1 DEF RuntimeInv, StagesAgree
      <3> QED BY Zenon, <1>1, <3>1 DEF Carries
    <2> QED BY Zenon, <1>1, <2>1, <2>2 DEF StagesAgree
  <1>5. CompletedRowIsTrue'
    BY <1>1 DEF RuntimeInv, CompletedRowIsTrue
  <1> QED BY Zenon, <1>3, <1>4, <1>5 DEF RuntimeInv

\* The fields of what a request carries have their types.
LEMMA ExecFields ==
  ASSUME TypeOK, NEW q \in DOMAIN exec
  PROVE  /\ q \in Requests /\ q.key \in Keys /\ q.call \in Calls
         /\ exec[q].stage \in Active \cup {"answered", "failed"} /\ exec[q].ran \in BOOLEAN
         /\ exec[q].result \in Observations /\ exec[q].status \in {"started", "completed", "failed"}
  BY Zenon DEF TypeOK, Requests, Execs

\* A request that ends, either way, keeps its effect and its row.
LEMMA EndKeepsInv ==
  ASSUME RuntimeInv, NEW q \in Requests, UnknownTool(q) \/ Fail(q)
  PROVE  RuntimeInv'
  <1>0. TypeOK /\ q \in DOMAIN exec /\ ErrResult \in Observations /\ ledger' = ledger
    BY Zenon DEF RuntimeInv, UnknownTool, Fail, At, ErrResult, Observations
  <1>1. exec[q].ran \in BOOLEAN /\ exec[q].result \in Observations
           /\ exec[q].status \in {"started", "completed", "failed"} /\ (exec[q].ran => q.key \in DOMAIN ledger)
    BY Zenon, <1>0, ExecFields DEF RuntimeInv, StagesAgree, Carries
  <1>2. CASE UnknownTool(q)
    <2> DEFINE e == [stage |-> "answered", ran |-> exec[q].ran, result |-> ErrResult, status |-> exec[q].status]
    <2>1. Becomes(q, e)
      BY Zenon, <1>0, <1>2, AnswerBecomes DEF UnknownTool
    <2>2. e \in Execs /\ Carries(q, e)
      BY Zenon, <1>0, <1>1 DEF Execs, Carries
    <2> QED BY Zenon, <1>0, <2>1, <2>2, QuietStepKeepsInv
  <1>3. CASE Fail(q)
    <2> DEFINE e == [stage |-> "failed", ran |-> exec[q].ran, result |-> exec[q].result, status |-> exec[q].status]
    <2>1. Becomes(q, e)
      BY Zenon, <1>0, <1>3, GotoBecomes DEF Fail
    <2>2. e \in Execs /\ Carries(q, e)
      BY Zenon, <1>0, <1>1 DEF Execs, Carries
    <2> QED BY Zenon, <1>0, <2>1, <2>2, QuietStepKeepsInv
  <1> QED BY Zenon, <1>2, <1>3

\* The row the guard reads or inserts.
LEMMA BeginRowFits ==
  ASSUME TypeOK, NEW k \in Keys
  PROVE  /\ BeginRow(k) \in Rows
         /\ BeginRow(k).status = "completed" => k \in DOMAIN ledger /\ BeginRow(k) = ledger[k]
         /\ k \in DOMAIN ledger => BeginRow(k) = ledger[k]
  BY Zenon DEF TypeOK, BeginRow, Rows, Observations, ErrResult

\* The guard changes no row there is, and adds one that is not completed.
LEMMA BeginKeepsInv ==
  ASSUME RuntimeInv, NEW q \in Requests, Begin(q)
  PROVE  RuntimeInv'
  <1>0. TypeOK /\ q \in DOMAIN exec /\ exec[q].stage = "begin" /\ q.key \in Keys
    BY Zenon, ExecFields DEF RuntimeInv, Begin, At
  <1>1. ~ exec[q].ran /\ exec[q].result \in Observations /\ exec[q].status \in {"started", "completed", "failed"}
    BY Zenon, <1>0, ExecFields DEF RuntimeInv, StagesAgree, Carries
  <1>2. /\ DOMAIN ledger' = DOMAIN ledger \cup {q.key} /\ ledger'[q.key] = BeginRow(q.key)
        /\ \A k \in DOMAIN ledger \ {q.key} : ledger'[k] = ledger[k]
    BY Zenon DEF Begin, Extend
  <1>3. /\ \A k \in DOMAIN ledger' : ledger'[k] \in Rows
        /\ \A k \in DOMAIN ledger' :
              ledger'[k].status = "completed" => k \in DOMAIN ledger /\ ledger'[k] = ledger[k]
    BY Zenon, <1>0, <1>2, BeginRowFits DEF TypeOK
  <1>4. DOMAIN ledger' \subseteq Keys
    BY Zenon, <1>0, <1>2 DEF TypeOK
  <1>5. ASSUME NEW e \in Execs, Becomes(q, e), ~ e.ran, e.stage \in {"answered", "gate", "run"}
        PROVE  RuntimeInv'
    <2>1. Carries(q, e)'
      BY Zenon, <1>2, <1>5 DEF Carries
    <2> QED BY Zenon, <1>0, <1>1, <1>2, <1>3, <1>4, <1>5, <2>1, StepKeepsInv
  <1>6. CASE BeginRow(q.key).status = "completed"
    <2> DEFINE e == [stage |-> "answered", ran |-> exec[q].ran, result |-> BeginRow(q.key).result,
                     status |-> exec[q].status]
    <2>1. Becomes(q, e)
      BY Zenon, <1>0, <1>6, AnswerBecomes DEF Begin
    <2>2. e \in Execs
      BY Zenon, <1>0, <1>1, BeginRowFits, ExecFields DEF Execs, Rows
    <2> QED BY Zenon, <1>1, <1>5, <2>1, <2>2
  <1>7. CASE BeginRow(q.key).status # "completed"
    <2>1. PICK stage \in {"gate", "run"} : Goto(q, stage)
      BY Zenon, <1>7 DEF Begin, Admit
    <2> DEFINE e == [stage |-> stage, ran |-> exec[q].ran, result |-> exec[q].result, status |-> exec[q].status]
    <2>2. Becomes(q, e)
      BY Zenon, <1>0, <2>1, GotoBecomes
    <2>3. e \in Execs
      BY Zenon, <1>0, <1>1, <2>1, ExecFields DEF Execs, Active
    <2> QED BY Zenon, <1>1, <1>5, <2>2, <2>3
  <1> QED BY Zenon, <1>6, <1>7

\* The gate lets the request pass, or has it record an outcome of no tool.
LEMMA GateKeepsInv ==
  ASSUME RuntimeInv, NEW q \in Requests, EgressGate(q)
  PROVE  RuntimeInv'
  <1>0. TypeOK /\ q \in DOMAIN exec /\ exec[q].stage = "gate" /\ ledger' = ledger
    BY Zenon DEF RuntimeInv, EgressGate, At
  <1>1. /\ exec[q].ran = FALSE /\ q.key \in DOMAIN ledger /\ exec[q].result \in Observations
        /\ exec[q].status \in {"started", "completed", "failed"} /\ ErrResult \in Observations
    BY Zenon, <1>0, ExecFields DEF RuntimeInv, StagesAgree, Carries, ErrResult, Observations
  <1>2. CASE Goto(q, "run")
    <2> DEFINE e == [stage |-> "run", ran |-> exec[q].ran, result |-> exec[q].result, status |-> exec[q].status]
    <2>1. Becomes(q, e)
      BY Zenon, <1>0, <1>2, GotoBecomes
    <2>2. e \in Execs /\ Carries(q, e)
      BY Zenon, <1>1 DEF Execs, Active, Carries
    <2> QED BY Zenon, <1>0, <2>1, <2>2, QuietStepKeepsInv
  <1>3. CASE ToRecord(q, ErrResult, "failed")
    <2> DEFINE e == [stage |-> "record", ran |-> exec[q].ran, result |-> ErrResult, status |-> "failed"]
    <2>1. Becomes(q, e)
      BY Zenon, <1>0, <1>3, ToRecordBecomes
    <2>2. e \in Execs /\ Carries(q, e)
      BY Zenon, <1>1 DEF Execs, Active, Carries, ErrResult
    <2> QED BY Zenon, <1>0, <2>1, <2>2, QuietStepKeepsInv
  <1> QED BY Zenon, <1>2, <1>3 DEF EgressGate

\* The tool runs, with its row in place, and its outcome is the request's.
LEMMA RunKeepsInv ==
  ASSUME RuntimeInv, NEW q \in Requests, Run(q)
  PROVE  RuntimeInv'
  <1>0. TypeOK /\ q \in DOMAIN exec /\ exec[q].stage = "run" /\ ledger' = ledger
    BY Zenon DEF RuntimeInv, Run, At
  <1>1. q.key \in DOMAIN ledger /\ q.call \in Calls
    BY Zenon, <1>0, ExecFields DEF RuntimeInv, StagesAgree, Carries
  <1>2. PICK stage \in {"offload", "record"}, err \in BOOLEAN :
           exec' = [exec EXCEPT ![q] = [stage |-> stage, ran |-> TRUE, status |-> "failed",
                                        result |-> [of |-> q.call, isError |-> err]]]
    BY Zenon DEF Run
  <1> DEFINE e == [stage |-> stage, ran |-> TRUE, status |-> "failed",
                   result |-> [of |-> q.call, isError |-> err]]
  <1>3. Becomes(q, e)
    BY Zenon, <1>0, <1>2 DEF Becomes
  <1>4. e \in Execs /\ Carries(q, e)
    BY Zenon, <1>1 DEF Execs, Active, Observations, Carries
  <1> QED BY Zenon, <1>0, <1>3, <1>4, QuietStepKeepsInv

\* The status that will be recorded is completed only for a result without an error.
LEMMA OffloadKeepsInv ==
  ASSUME RuntimeInv, NEW q \in Requests, Offload(q)
  PROVE  RuntimeInv'
  <1>0. TypeOK /\ q \in DOMAIN exec /\ exec[q].stage = "offload" /\ ledger' = ledger
    BY Zenon DEF RuntimeInv, Offload, At
  <1>1. /\ q.key \in DOMAIN ledger /\ exec[q].result \in Observations
        /\ exec[q].ran = TRUE /\ exec[q].result.of = q.call
    BY Zenon, <1>0, ExecFields DEF RuntimeInv, StagesAgree, Carries
  <1> DEFINE status == IF exec[q].result.isError THEN "failed" ELSE "completed"
  <1> DEFINE e == [stage |-> "record", ran |-> exec[q].ran, result |-> exec[q].result, status |-> status]
  <1>2. Becomes(q, e)
    BY Zenon, <1>0, ToRecordBecomes DEF Offload
  <1>3. e \in Execs /\ Carries(q, e)
    BY Zenon, <1>1 DEF Execs, Active, Carries
  <1> QED BY Zenon, <1>0, <1>2, <1>3, QuietStepKeepsInv

\* What is recorded as completed is what the request's own tool produced.
LEMMA RecordKeepsInv ==
  ASSUME RuntimeInv, NEW q \in Requests, RecordTerminal(q)
  PROVE  RuntimeInv'
  <1>0. TypeOK /\ q \in DOMAIN exec /\ exec[q].stage = "record"
    BY Zenon DEF RuntimeInv, RecordTerminal, At
  <1>1. /\ q.key \in DOMAIN ledger /\ q.key \in Keys
        /\ exec[q].result \in Observations /\ exec[q].status \in {"started", "completed", "failed"}
        /\ exec[q].ran \in BOOLEAN
        /\ exec[q].status = "completed" =>
              exec[q].ran /\ ~ exec[q].result.isError /\ exec[q].result.of = q.call
    BY Zenon, <1>0, ExecFields DEF RuntimeInv, StagesAgree, Carries
  <1> DEFINE e == [stage |-> "answered", ran |-> exec[q].ran, result |-> exec[q].result, status |-> exec[q].status]
             row == [status |-> exec[q].status, result |-> exec[q].result]
  <1>2. Becomes(q, e)
    BY Zenon, <1>0, GotoBecomes DEF RecordTerminal
  <1>3. e \in Execs /\ Carries(q, e)
    BY Zenon, <1>0, <1>1 DEF Execs, Carries
  <1>4. CASE ledger' = ledger
    BY Zenon, <1>0, <1>2, <1>3, <1>4, QuietStepKeepsInv
  <1>5. CASE ledger' = [ledger EXCEPT ![q.key] = row]
    <2>1. /\ DOMAIN ledger' = DOMAIN ledger /\ ledger'[q.key] = row
          /\ \A k \in DOMAIN ledger \ {q.key} : ledger'[k] = ledger[k]
      BY Zenon, <1>1, <1>5
    <2>2. row \in Rows
      BY Zenon, <1>1 DEF Rows
    <2>3. \A k \in DOMAIN ledger' : ledger'[k] \in Rows
      BY Zenon, <1>0, <2>1, <2>2 DEF TypeOK
    <2>4. \A k \in DOMAIN ledger' : ledger'[k].status = "completed" =>
             \/ k \in DOMAIN ledger /\ ledger'[k] = ledger[k]
             \/ ~ ledger'[k].result.isError /\ q.key = k /\ q.call = ledger'[k].result.of /\ e.ran
      BY <1>1, <2>1
    <2>5. DOMAIN ledger' \subseteq Keys
      BY Zenon, <1>0, <2>1 DEF TypeOK
    <2>6. PICK x : x = e
      BY Zenon
    <2>7. x \in Execs /\ Becomes(q, x) /\ Carries(q, x) /\ x.ran = exec[q].ran
      BY Zenon, <1>2, <1>3, <2>6
    <2>8. Carries(q, x)'
      BY Zenon, <2>1, <2>7 DEF Carries
    <2>9. \A k \in DOMAIN ledger' : ledger'[k].status = "completed" =>
             \/ k \in DOMAIN ledger /\ ledger'[k] = ledger[k]
             \/ ~ ledger'[k].result.isError /\ q.key = k /\ q.call = ledger'[k].result.of /\ x.ran
      BY Zenon, <2>4, <2>7
    <2> HIDE DEF e, row
    <2> QED BY Zenon, <1>0, <2>1, <2>3, <2>5, <2>7, <2>8, <2>9, StepKeepsInv
  <1> QED BY Zenon, <1>4, <1>5 DEF RecordTerminal

\* The invariant is inductive.
LEMMA RuntimeInvHolds == Spec => []RuntimeInv
  <1>1. Init => RuntimeInv
    BY DEF Init, RuntimeInv, TypeOK, StagesAgree, CompletedRowIsTrue
  <1>2. RuntimeInv /\ [Next]_vars => RuntimeInv'
    <2> SUFFICES ASSUME RuntimeInv, [Next]_vars PROVE RuntimeInv'
      BY Zenon
    <2>1. CASE UNCHANGED vars
      BY Zenon, <2>1 DEF vars, RuntimeInv, TypeOK, StagesAgree, Carries, CompletedRowIsTrue
    <2> QED BY Zenon, <2>1, SubmitKeepsInv, EndKeepsInv, BeginKeepsInv, GateKeepsInv, RunKeepsInv, OffloadKeepsInv,
               RecordKeepsInv DEF Next, Serve
  <1> QED BY <1>1, <1>2, PTL DEF Spec

\* No effect without its row, and no completed row without its effect: however many
\* requests share a key, and wherever each is cut off (execute.Service, dedup.Store).
THEOREM LedgerIsTrue == Spec => [](TypeOK /\ EffectLeavesARow /\ CompletedRowIsTrue)
  <1>1. RuntimeInv => TypeOK /\ EffectLeavesARow /\ CompletedRowIsTrue
    BY DEF RuntimeInv, StagesAgree, Carries, EffectLeavesARow
  <1> QED BY <1>1, RuntimeInvHolds, PTL

-----------------------------------------------------------------------------
\* A step leaves what is settled alone when it is of another key, or answers from the
\* row.
LEMMA StepKeepsSettled ==
  ASSUME NEW k \in DOMAIN ledger, Settled(k), k \in DOMAIN ledger', ledger'[k] = ledger[k],
         NEW q \in DOMAIN exec, NEW e, Becomes(q, e),
         q.key = k => e.stage \in {"begin", "answered", "failed"} /\ e.ran = exec[q].ran
  PROVE  /\ Settled(k)' /\ ledger'[k] = ledger[k]
         /\ \A p \in DOMAIN exec : p.key = k => exec'[p].ran = exec[p].ran
  BY Zenon DEF Settled, Becomes

\* However often a settled key is sent again, its row stays as it is and no tool runs
\* for it (the guard of execute.Service over dedup.Store.Begin).
THEOREM SettledKeysStay == Spec => SettledIsForever
  <1> DEFINE Kept(k) == Settled(k) =>
                /\ Settled(k)' /\ ledger'[k] = ledger[k]
                /\ \A q \in DOMAIN exec : q.key = k => exec'[q].ran = exec[q].ran
  <1>1. ASSUME RuntimeInv, [Next]_vars, NEW k \in DOMAIN ledger, Settled(k) PROVE Kept(k)
    <2>0. TypeOK /\ ledger[k].status = "completed"
      BY Zenon, <1>1 DEF RuntimeInv, Settled
    <2>1. CASE UNCHANGED vars
      BY Zenon, <1>1, <2>1 DEF vars, Settled
    <2>2. ASSUME NEW q \in Requests, Submit(q) PROVE Kept(k)
      <3>1. /\ DOMAIN exec' = DOMAIN exec \cup {q} /\ q \notin DOMAIN exec /\ ledger' = ledger
            /\ exec'[q].stage = "begin" /\ \A p \in DOMAIN exec : exec'[p] = exec[p]
        BY Zenon, <2>2 DEF Submit, Extend
      <3> QED BY Zenon, <1>1, <3>1 DEF Settled
    <2>3. ASSUME NEW q \in Requests, UnknownTool(q) PROVE Kept(k)
      <3>1. q \in DOMAIN exec /\ ledger' = ledger
        BY Zenon, <2>3 DEF UnknownTool, At
      <3> QED BY Zenon, <1>1, <2>0, <2>3, <3>1, AnswerBecomes, StepKeepsSettled DEF UnknownTool
    <2>4. ASSUME NEW q \in Requests, Fail(q) PROVE Kept(k)
      <3>1. q \in DOMAIN exec /\ ledger' = ledger
        BY Zenon, <2>4 DEF Fail
      <3> QED BY Zenon, <1>1, <2>0, <2>4, <3>1, GotoBecomes, StepKeepsSettled DEF Fail
    <2>5. ASSUME NEW q \in Requests, Begin(q) PROVE Kept(k)
      <3>1. q \in DOMAIN exec /\ q.key \in Keys
        BY Zenon, <2>0, <2>5, ExecFields DEF Begin, At
      <3>2. k \in DOMAIN ledger' /\ ledger'[k] = ledger[k]
        BY Zenon, <1>1, <2>0, <2>5, <3>1, BeginRowFits DEF Begin, Extend
      <3>3. CASE q.key = k
        <4>1. Answer(q, BeginRow(q.key).result)
          BY Zenon, <1>1, <2>0, <2>5, <3>1, <3>3, BeginRowFits DEF Begin
        <4> QED BY Zenon, <1>1, <2>0, <3>1, <3>2, <4>1, AnswerBecomes, StepKeepsSettled
      <3>4. CASE q.key # k
        <4>1. Answer(q, BeginRow(q.key).result) \/ \E stage : Goto(q, stage)
          BY Zenon, <2>5 DEF Begin, Admit
        <4>2. CASE Answer(q, BeginRow(q.key).result)
          <5>1. PICK e : Becomes(q, e)
            BY Zenon, <2>0, <3>1, <4>2, AnswerBecomes
          <5> QED BY Zenon, <1>1, <3>1, <3>2, <3>4, <5>1, StepKeepsSettled
        <4>3. CASE \E stage : Goto(q, stage)
          <5>1. PICK e : Becomes(q, e)
            BY Zenon, <2>0, <3>1, <4>3, GotoBecomes
          <5> QED BY <1>1, <3>1, <3>2, <3>4, <5>1, StepKeepsSettled
        <4> QED BY Zenon, <4>1, <4>2, <4>3
      <3> QED BY Zenon, <3>3, <3>4
    <2>6. ASSUME NEW q \in DOMAIN exec, NEW e, Becomes(q, e), exec[q].stage \in {"gate", "run", "offload", "record"},
                 DOMAIN ledger' = DOMAIN ledger, \A j \in DOMAIN ledger \ {q.key} : ledger'[j] = ledger[j]
          PROVE  Kept(k)
      <3>1. q.key # k
        BY Zenon, <1>1, <2>6 DEF Settled
      <3> QED BY Zenon, <1>1, <2>6, <3>1, StepKeepsSettled
    <2>7. ASSUME NEW q \in Requests, EgressGate(q) \/ Run(q) \/ Offload(q) \/ RecordTerminal(q) PROVE Kept(k)
      <3>1. q \in DOMAIN exec /\ exec[q].stage \in {"gate", "run", "offload", "record"}
        BY Zenon, <2>7 DEF EgressGate, Run, Offload, RecordTerminal, At
      <3>2. DOMAIN ledger' = DOMAIN ledger /\ \A j \in DOMAIN ledger \ {q.key} : ledger'[j] = ledger[j]
        BY Zenon, <2>7 DEF EgressGate, Run, Offload, RecordTerminal
      <3>3. \E e : Becomes(q, e)
        <4>1. CASE Run(q)
          BY Zenon, <3>1, <4>1 DEF Run, Becomes
        <4>2. CASE EgressGate(q)
          BY Zenon, <2>0, <3>1, <4>2, GotoBecomes, ToRecordBecomes DEF EgressGate
        <4>3. CASE Offload(q)
          BY Zenon, <2>0, <3>1, <4>3, ToRecordBecomes DEF Offload
        <4>4. CASE RecordTerminal(q)
          BY Zenon, <2>0, <3>1, <4>4, GotoBecomes DEF RecordTerminal
        <4> QED BY Zenon, <2>7, <4>1, <4>2, <4>3, <4>4
      <3> QED BY Zenon, <2>6, <3>1, <3>2, <3>3
    <2> HIDE DEF Kept
    <2> QED BY Zenon, <1>1, <2>1, <2>2, <2>3, <2>4, <2>5, <2>7 DEF Next, Serve
  <1>2. RuntimeInv /\ [Next]_vars =>
           [\A k \in DOMAIN ledger : Settled(k) =>
               /\ Settled(k)'
               /\ ledger'[k] = ledger[k]
               /\ \A q \in DOMAIN exec : q.key = k => exec'[q].ran = exec[q].ran]_vars
    BY <1>1
  <1> QED BY <1>2, RuntimeInvHolds, PTL DEF Spec, SettledIsForever

-----------------------------------------------------------------------------
\* What the caller sees of a request, and the requests as the mapping has them.
Task(e) == [stage |-> IF e.stage \in Active THEN "sent" ELSE e.stage,
            ran |-> e.ran,
            of |-> IF e.stage = "answered" THEN e.result.of ELSE NoCall]

Tasks == [q \in DOMAIN exec |->
            [stage |-> IF exec[q].stage \in Active THEN "sent" ELSE exec[q].stage,
             ran |-> exec[q].ran,
             of |-> IF exec[q].stage = "answered" THEN exec[q].result.of ELSE NoCall]]

\* The mapping, request by request.
LEMMA TasksAre == DOMAIN Tasks = DOMAIN exec /\ \A q \in DOMAIN exec : Tasks[q] = Task(exec[q])
  BY Zenon DEF Tasks, Task

\* A step of one request is a change of one task.
LEMMA BecomesTask ==
  ASSUME NEW q \in DOMAIN exec, NEW e, Becomes(q, e)
  PROVE  Tasks' = [Tasks EXCEPT ![q] = Task(e)]
  <1>1. Tasks' = [p \in DOMAIN exec' |-> Task(exec'[p])] /\ Tasks = [p \in DOMAIN exec |-> Task(exec[p])]
    BY Zenon DEF Tasks, Task
  <1> QED BY Zenon, <1>1 DEF Becomes

\* A step inside the service is none for its callers.
LEMMA InsideIsHidden ==
  ASSUME NEW q \in DOMAIN exec, NEW e, Becomes(q, e), exec[q].stage \in Active, e.stage \in Active,
         e.ran = exec[q].ran
  PROVE  Tasks' = Tasks
  <1>1. Task(e) = Task(exec[q])
    BY Zenon DEF Task, Active
  <1>2. Tasks' = [Tasks EXCEPT ![q] = Tasks[q]]
    BY Zenon, <1>1, BecomesTask, TasksAre
  <1>3. Tasks = [p \in DOMAIN exec |-> Task(exec[p])]
    BY Zenon DEF Tasks, Task
  <1> QED BY Zenon, <1>2, <1>3

\* The actions of the service, on Tasks.
LEMMA ServiceActions ==
  ASSUME NEW q \in Requests
  PROVE  /\ Service!Submit(q) <=>
              /\ q \notin DOMAIN Tasks
              /\ Tasks' = [p \in DOMAIN Tasks \cup {q} |->
                             IF p = q THEN [stage |-> "sent", ran |-> FALSE, of |-> NoCall] ELSE Tasks[p]]
         /\ Service!Execute(q) <=>
              /\ q \in DOMAIN Tasks /\ Tasks[q].stage = "sent" /\ ~ Tasks[q].ran
              /\ Tasks' = [Tasks EXCEPT ![q].ran = TRUE]
         /\ Service!Fail(q) <=>
              /\ q \in DOMAIN Tasks /\ Tasks[q].stage = "sent"
              /\ Tasks' = [Tasks EXCEPT ![q].stage = "failed"]
  BY Zenon DEF Service!Submit, Service!Execute, Service!Fail, Service!Sent, Tasks

\* The request of an active stage is one the caller has sent and waits for.
LEMMA ActiveIsSent ==
  ASSUME NEW q \in DOMAIN exec, exec[q].stage \in Active
  PROVE  /\ q \in DOMAIN Tasks
         /\ Tasks[q] = [stage |-> "sent", ran |-> exec[q].ran, of |-> NoCall]
  BY Zenon DEF Tasks, Active

\* An answer names the outcome of a request with the key, the request's own if its
\* tool ran, or of none.
LEMMA ServiceAnswers ==
  ASSUME NEW q \in Requests, q \in DOMAIN Tasks, Tasks[q].stage = "sent", NEW of,
         \/ of = NoCall /\ ~ Tasks[q].ran
         \/ /\ of # NoCall \/ ~ Tasks[q].ran
            /\ \E p \in DOMAIN Tasks : p.key = q.key /\ Tasks[p].ran /\ (Tasks[q].ran => p = q) /\ of = p.call,
         Tasks' = [Tasks EXCEPT ![q].stage = "answered", ![q].of = of]
  PROVE  Service!Answer(q)
  <1> DEFINE Sources == {p \in DOMAIN Tasks : p.key = q.key /\ Tasks[p].ran /\ (Tasks[q].ran => p = q)}
  <1>1. of \in {p.call : p \in Sources} \cup {NoCall} /\ (Tasks[q].ran => of # NoCall)
    BY Zenon
  <1>2. Service!Answer(q) <=>
           /\ q \in DOMAIN Tasks /\ Tasks[q].stage = "sent"
           /\ \E o \in {p.call : p \in Sources} \cup {NoCall} :
                 /\ Tasks[q].ran => o # NoCall
                 /\ Tasks' = [Tasks EXCEPT ![q].stage = "answered", ![q].of = o]
    BY Zenon DEF Service!Answer, Service!Sent, Service!Sources, Tasks
  <1> HIDE DEF Sources
  <1> QED BY Zenon, <1>1, <1>2

\* Ends as the caller sees them.
LEMMA AnswerIsAnswer ==
  ASSUME NEW q \in Requests, q \in DOMAIN exec, exec[q].stage \in Active, NEW e, Becomes(q, e),
         e.stage = "answered", e.ran = exec[q].ran,
         \/ e.result.of = NoCall /\ ~ exec[q].ran
         \/ /\ e.result.of # NoCall \/ ~ exec[q].ran
            /\ \E p \in DOMAIN exec :
                  p.key = q.key /\ exec[p].ran /\ (exec[q].ran => p = q) /\ e.result.of = p.call
  PROVE  Service!Answer(q)
  <1>1. Task(e) = [stage |-> "answered", ran |-> exec[q].ran, of |-> e.result.of]
    BY Zenon DEF Task, Active
  <1>2. Tasks' = [Tasks EXCEPT ![q].stage = "answered", ![q].of = e.result.of]
    <2>1. Tasks' = [Tasks EXCEPT ![q] = Task(e)]
      BY Zenon, BecomesTask
    <2>2. q \in DOMAIN Tasks /\ Tasks[q] = [stage |-> "sent", ran |-> exec[q].ran, of |-> NoCall]
      BY Zenon, ActiveIsSent
    <2>3. PICK t, r, o, g, h :
             /\ t = Tasks /\ r = exec[q].ran /\ o = e.result.of /\ h = Tasks'
             /\ g = [t EXCEPT ![q].stage = "answered", ![q].of = o]
      BY Zenon
    <2>4. /\ q \in DOMAIN t /\ t[q] = [stage |-> "sent", ran |-> r, of |-> NoCall]
          /\ h = [t EXCEPT ![q] = [stage |-> "answered", ran |-> r, of |-> o]]
      BY Zenon, <1>1, <2>1, <2>2, <2>3
    <2>5. g = h
      <3>1. g[q] = [[t[q] EXCEPT !.stage = "answered"] EXCEPT !.of = o]
        BY Zenon, <2>3, <2>4
      <3>2. PICK y : y = [t[q] EXCEPT !.stage = "answered"]
        BY Zenon
      <3>3. y = [stage |-> "answered", ran |-> r, of |-> NoCall] /\ g[q] = [y EXCEPT !.of = o]
        BY <2>4, <3>1, <3>2
      <3>4. g[q] = [stage |-> "answered", ran |-> r, of |-> o]
        BY Zenon, <3>3
      <3>5. g = [p \in DOMAIN t |-> g[p]] /\ \A p \in DOMAIN t \ {q} : g[p] = t[p]
        BY Zenon, <2>3, <2>4
      <3>6. h = [p \in DOMAIN t |-> g[p]]
        BY Zenon, <2>4, <3>4, <3>5
      <3> QED BY Zenon, <3>5, <3>6
    <2> QED BY Zenon, <2>3, <2>5
  <1>3. \A p \in DOMAIN exec : p \in DOMAIN Tasks /\ Tasks[p].ran = exec[p].ran
    BY TasksAre DEF Task
  <1>4. q \in DOMAIN Tasks /\ Tasks[q].stage = "sent" /\ Tasks[q].ran = exec[q].ran /\ DOMAIN Tasks = DOMAIN exec
    BY ActiveIsSent, TasksAre
  <1>5. PICK of : of = e.result.of
    BY Zenon
  <1>6. \/ of = NoCall /\ ~ Tasks[q].ran
        \/ /\ of # NoCall \/ ~ Tasks[q].ran
           /\ \E p \in DOMAIN Tasks : p.key = q.key /\ Tasks[p].ran /\ (Tasks[q].ran => p = q) /\ of = p.call
    BY Zenon, <1>3, <1>4, <1>5
  <1> QED BY Zenon, <1>2, <1>4, <1>5, <1>6, ServiceAnswers

\* Every step of the runtime is one of the service, or none.
LEMMA StepIsServiceStep ==
  ASSUME RuntimeInv, NEW q \in Requests, Submit(q) \/ Serve(q) \/ Fail(q)
  PROVE  Service!Submit(q) \/ Service!Serve(q) \/ Tasks' = Tasks
  <1>0. TypeOK
    BY Zenon DEF RuntimeInv
  <1>1. CASE Submit(q)
    <2>1. /\ q \notin DOMAIN exec
          /\ exec' = [p \in DOMAIN exec \cup {q} |->
                        IF p = q THEN [stage |-> "begin", ran |-> FALSE, result |-> ErrResult, status |-> "started"]
                        ELSE exec[p]]
      BY Zenon, <1>1 DEF Submit, Extend
    <2>2. Tasks' = [p \in DOMAIN Tasks \cup {q} |->
                      IF p = q THEN [stage |-> "sent", ran |-> FALSE, of |-> NoCall] ELSE Tasks[p]]
      BY Zenon, <2>1 DEF Tasks, Active
    <2> QED BY Zenon, <2>1, <2>2, TasksAre, ServiceActions
  <1>2. CASE Fail(q)
    <2> DEFINE e == [stage |-> "failed", ran |-> exec[q].ran, result |-> exec[q].result, status |-> exec[q].status]
    <2>1. q \in DOMAIN exec /\ exec[q].stage \in Active /\ Becomes(q, e)
      BY Zenon, <1>0, <1>2, GotoBecomes DEF Fail
    <2>2. Tasks' = [Tasks EXCEPT ![q] = Task(e)] /\ Task(e) = [stage |-> "failed", ran |-> exec[q].ran, of |-> NoCall]
      BY Zenon, <2>1, BecomesTask DEF Task, Active
    <2>3. q \in DOMAIN Tasks /\ Tasks[q] = [stage |-> "sent", ran |-> exec[q].ran, of |-> NoCall]
      BY Zenon, <2>1, ActiveIsSent
    <2>4. Tasks' = [Tasks EXCEPT ![q].stage = "failed"]
      <3>1. PICK t, r, g, h :
               t = Tasks /\ r = exec[q].ran /\ h = Tasks' /\ g = [t EXCEPT ![q].stage = "failed"]
        BY Zenon
      <3>2. /\ q \in DOMAIN t /\ t[q] = [stage |-> "sent", ran |-> r, of |-> NoCall]
            /\ h = [t EXCEPT ![q] = [stage |-> "failed", ran |-> r, of |-> NoCall]]
        BY Zenon, <2>2, <2>3, <3>1
      <3>3. g[q] = [t[q] EXCEPT !.stage = "failed"]
        BY Zenon, <3>1, <3>2
      <3>4. g[q] = [stage |-> "failed", ran |-> r, of |-> NoCall]
        BY <3>2, <3>3
      <3>5. g = [p \in DOMAIN t |-> g[p]] /\ \A p \in DOMAIN t \ {q} : g[p] = t[p]
        BY Zenon, <3>1, <3>2
      <3>6. h = [p \in DOMAIN t |-> g[p]]
        BY Zenon, <3>2, <3>4, <3>5
      <3> QED BY Zenon, <3>1, <3>5, <3>6
    <2>5. Service!Fail(q)
      <3>1. Tasks[q].stage = "sent"
        BY <2>3
      <3> QED BY Zenon, <2>3, <2>4, <3>1, ServiceActions
    <2> QED BY Zenon, <2>5 DEF Service!Serve
  <1>3. CASE UnknownTool(q)
    <2> DEFINE e == [stage |-> "answered", ran |-> exec[q].ran, result |-> ErrResult, status |-> exec[q].status]
    <2>1. q \in DOMAIN exec /\ exec[q].stage \in Active /\ ~ exec[q].ran /\ Becomes(q, e)
      BY Zenon, <1>0, <1>3, AnswerBecomes DEF UnknownTool, At, Active, RuntimeInv, StagesAgree, Carries
    <2>2. Service!Answer(q)
      BY Zenon, <2>1, AnswerIsAnswer DEF ErrResult
    <2> QED BY Zenon, <2>2 DEF Service!Serve
  <1>4. CASE Begin(q)
    <2>1. q \in DOMAIN exec /\ exec[q].stage \in Active /\ ~ exec[q].ran /\ q.key \in Keys
      BY Zenon, <1>0, <1>4, ExecFields DEF Begin, At, Active, RuntimeInv, StagesAgree, Carries
    <2>2. CASE BeginRow(q.key).status = "completed"
      <3> DEFINE row == BeginRow(q.key)
                 e == [stage |-> "answered", ran |-> exec[q].ran, result |-> row.result, status |-> exec[q].status]
      <3>1. Becomes(q, e)
        BY Zenon, <1>0, <1>4, <2>1, <2>2, AnswerBecomes DEF Begin
      <3>2. \E p \in DOMAIN exec : p.key = q.key /\ exec[p].ran /\ row.result.of = p.call
        BY <1>0, <2>1, <2>2, BeginRowFits DEF RuntimeInv, CompletedRowIsTrue
      <3>3. Service!Answer(q)
        BY Zenon, <2>1, <3>1, <3>2, AnswerIsAnswer
      <3> QED BY <3>3 DEF Service!Serve
    <2>3. CASE BeginRow(q.key).status # "completed"
      <3>1. PICK stage \in {"gate", "run"} : Goto(q, stage)
        BY Zenon, <1>4, <2>3 DEF Begin, Admit
      <3> QED BY Zenon, <1>0, <2>1, <3>1, GotoBecomes, InsideIsHidden DEF Active
    <2> QED BY Zenon, <2>2, <2>3
  <1>5. CASE EgressGate(q) \/ Offload(q)
    <2>1. q \in DOMAIN exec /\ exec[q].stage \in Active
      BY Zenon, <1>5 DEF EgressGate, Offload, At, Active
    <2>2. Goto(q, "run") \/ \E obs, status : ToRecord(q, obs, status)
      BY Zenon, <1>5 DEF EgressGate, Offload
    <2> QED BY Zenon, <1>0, <2>1, <2>2, GotoBecomes, ToRecordBecomes, InsideIsHidden DEF Active
  <1>6. CASE Run(q)
    <2>1. q \in DOMAIN exec /\ exec[q].stage \in Active /\ ~ exec[q].ran
      BY Zenon, <1>6 DEF Run, At, Active, RuntimeInv, StagesAgree, Carries
    <2>2. PICK e : Becomes(q, e) /\ e.stage \in {"offload", "record"} /\ e.ran = TRUE
      BY <1>6, <2>1 DEF Run, Becomes
    <2>3. Tasks' = [Tasks EXCEPT ![q] = Task(e)] /\ Task(e) = [stage |-> "sent", ran |-> TRUE, of |-> NoCall]
      BY Zenon, <2>1, <2>2, BecomesTask DEF Task, Active
    <2>4. q \in DOMAIN Tasks /\ Tasks[q] = [stage |-> "sent", ran |-> exec[q].ran, of |-> NoCall]
      BY Zenon, <2>1, ActiveIsSent
    <2>5. Tasks' = [Tasks EXCEPT ![q].ran = TRUE]
      <3>1. PICK t, r, g, h, b :
               t = Tasks /\ r = exec[q].ran /\ h = Tasks' /\ b = TRUE /\ g = [t EXCEPT ![q].ran = b]
        BY Zenon
      <3>2. /\ q \in DOMAIN t /\ t[q] = [stage |-> "sent", ran |-> r, of |-> NoCall]
            /\ h = [t EXCEPT ![q] = [stage |-> "sent", ran |-> b, of |-> NoCall]]
        BY Zenon, <2>3, <2>4, <3>1
      <3>3. g[q] = [t[q] EXCEPT !.ran = b]
        BY Zenon, <3>1, <3>2
      <3>4. g[q] = [stage |-> "sent", ran |-> b, of |-> NoCall]
        BY <3>2, <3>3
      <3>5. g = [p \in DOMAIN t |-> g[p]] /\ \A p \in DOMAIN t \ {q} : g[p] = t[p]
        BY Zenon, <3>1, <3>2
      <3>6. h = [p \in DOMAIN t |-> g[p]]
        BY Zenon, <3>2, <3>4, <3>5
      <3> QED BY Zenon, <3>1, <3>5, <3>6
    <2>6. Service!Execute(q)
      <3>1. PICK t, r : t = Tasks[q] /\ r = exec[q].ran
        BY Zenon
      <3>2. t = [stage |-> "sent", ran |-> r, of |-> NoCall]
        BY Zenon, <2>4, <3>1
      <3>3. t.stage = "sent" /\ t.ran = r
        BY Zenon, <3>2
      <3> QED BY Zenon, <2>1, <2>4, <2>5, <3>1, <3>3, ServiceActions
    <2> QED BY Zenon, <2>6 DEF Service!Serve
  <1>7. CASE RecordTerminal(q)
    <2> DEFINE e == [stage |-> "answered", ran |-> exec[q].ran, result |-> exec[q].result, status |-> exec[q].status]
    <2>1. /\ q \in DOMAIN exec /\ exec[q].stage \in Active /\ Becomes(q, e)
          /\ exec[q].result.of = IF exec[q].ran THEN q.call ELSE NoCall
      BY Zenon, <1>0, <1>7, GotoBecomes DEF RecordTerminal, At, Active, RuntimeInv, StagesAgree, Carries
    <2>2. q.call # NoCall
      BY Zenon, ToolAssumption DEF Requests
    <2>3. Service!Answer(q)
      BY Zenon, <2>1, <2>2, AnswerIsAnswer
    <2> QED BY <2>3 DEF Service!Serve
  <1> QED BY Zenon, <1>1, <1>2, <1>3, <1>4, <1>5, <1>6, <1>7 DEF Serve

\* The runtime keeps the promise of the tool service: one run of the tool for a
\* request, and answers that this request, or one before it with its key, produced.
THEOREM RuntimeImplementsService == Spec => ImplementsToolService
  <1>1. Init => Service!Init
    BY DEF Init, Service!Init
  <1>2. RuntimeInv /\ [Next]_vars => [Service!Next]_Tasks
    <2> SUFFICES ASSUME RuntimeInv, [Next]_vars PROVE Service!Next \/ Tasks' = Tasks
      BY Zenon
    <2>1. CASE UNCHANGED vars
      BY Zenon, <2>1 DEF vars, Tasks
    <2>2. ASSUME NEW q \in Requests, Submit(q) \/ Serve(q) \/ Fail(q) PROVE Service!Next \/ Tasks' = Tasks
      BY Zenon, <2>2, StepIsServiceStep DEF Service!Next, Service!Requests, Requests
    <2> QED BY <2>1, <2>2 DEF Next
  <1> QED BY <1>1, <1>2, RuntimeInvHolds, PTL DEF Spec, ImplementsToolService, Service!Spec, Tasks

-----------------------------------------------------------------------------
(***************************************************************************)
(* Nothing leaves that was not cleared, for every set of hosts, lists of   *)
(* allowed hosts and sessions, and however the names, the policies and the *)
(* servers behave.                                                         *)
(*                                                                         *)
(* The request leaves a step after it was cleared, and a policy may change *)
(* in between: what lasts from the one to the other is the record in the   *)
(* audit log, which WebInv keeps for every call that is about to send.     *)
(***************************************************************************)

\* The audit log shows that the broker allowed the session this host.
Cleared(s, host) == [session |-> s, host |-> host, allowed |-> TRUE] \in decisions

Sends(f) == fetch[f].pc = "send"

Targets == Hosts \cup {<<>>}

FetchTypes ==
    fetch \in [Fetches -> [pc : {"idle", "gate", "send", "sent", "done"}, session : WebSessions \cup {""},
                           host : Targets, via : Nat]]

\* Every call about to send was cleared for where it sends to.
SendsAreCleared == \A f \in Fetches : Sends(f) => Cleared(fetch[f].session, fetch[f].host)

WebInv == FetchTypes /\ SendsAreCleared /\ ContactsAreCleared

-----------------------------------------------------------------------------
\* Hosts, and no host, are what a call may be after.
LEMMA TargetsHold == Hosts \subseteq Targets /\ <<>> \in Targets
  BY Zenon DEF Targets

\* What a call carries.
LEMMA FetchFields ==
  ASSUME FetchTypes, NEW f \in Fetches
  PROVE  fetch[f].via \in Nat /\ fetch[f].host \in Targets /\ fetch[f].session \in WebSessions \cup {""}
  BY Zenon DEF FetchTypes

\* What moving a call on does to the calls: the session stays with it.
LEMMA FetchMoves ==
  ASSUME FetchTypes, NEW f \in Fetches, NEW pc \in {"gate", "send", "sent"}, NEW host \in Targets,
         NEW via \in Nat, FetchAt(f, pc, host, via)
  PROVE  /\ FetchTypes'
         /\ fetch'[f].pc = pc /\ fetch'[f].session = fetch[f].session /\ fetch'[f].host = host
         /\ \A g \in Fetches \ {f} : fetch'[g] = fetch[g]
  BY Zenon DEF FetchTypes, FetchAt

\* A call that has ended sends nothing.
LEMMA FetchIsOver ==
  ASSUME FetchTypes, NEW f \in Fetches, FetchEnds(f)
  PROVE  /\ FetchTypes'
         /\ ~ Sends(f)'
         /\ \A g \in Fetches \ {f} : fetch'[g] = fetch[g]
  BY Zenon DEF FetchTypes, FetchEnds, NoFetch, Sends, Targets

\* The audit log only grows, so that what was cleared stays on record: a step of f
\* has to account for where f sends next, and for what left.
LEMMA ClearedStays ==
  ASSUME WebInv, FetchTypes', decisions \subseteq decisions', NEW f \in Fetches,
         \A g \in Fetches \ {f} : fetch'[g] = fetch[g],
         Sends(f)' => Cleared(fetch[f].session, fetch[f].host)',
         \A c \in contacts' \ contacts : c.kind = "public" /\ Cleared(c.session, c.host)
  PROVE  WebInv'
  <1>1. SendsAreCleared'
    BY Zenon DEF WebInv, SendsAreCleared, Sends, Cleared
  <1>2. ContactsAreCleared'
    BY Zenon DEF WebInv, ContactsAreCleared, Cleared
  <1> QED BY Zenon, <1>1, <1>2 DEF WebInv

\* Recording an answer keeps the log, and a positive one clears the host.
LEMMA RecordClears ==
  ASSUME NEW s, NEW host, Records(s, host)
  PROVE  /\ decisions \subseteq decisions'
         /\ Allowed(s, host) => Cleared(s, host)'
  <1>1. Allowed(s, host) \in BOOLEAN
    BY Zenon DEF Allowed, MatchesPolicy
  <1> QED BY Zenon, <1>1 DEF Records, Cleared

\* Policies and names move without a call's doing.
LEMMA ChangesKeepWebInv ==
  ASSUME WebInv,
         \/ \E s \in WebSessions, hosts \in AllowLists : SetPolicy(s, hosts)
         \/ \E h \in Hosts : NameMoves(h)
         \/ UNCHANGED webVars
  PROVE  WebInv'
  BY Zenon DEF WebInv, FetchTypes, SendsAreCleared, ContactsAreCleared, Sends, Cleared, SetPolicy, NameMoves, webVars

\* A call that begins is cleared by the service and sends nothing yet.
LEMMA BeginKeepsWebInv ==
  ASSUME WebInv, NEW f \in Fetches, NEW s \in WebSessions, NEW tool \in {"webfetch", "websearch"},
         ToolBegins(f, s, tool)
  PROVE  WebInv'
  <1>0. FetchTypes /\ contacts' = contacts
    BY Zenon DEF WebInv, ToolBegins
  <1>1. CASE FetchEnds(f) /\ decisions \subseteq decisions'
    BY Zenon, <1>0, <1>1, FetchIsOver, ClearedStays
  <1>2. CASE \E host \in Hosts :
                /\ Records(s, host)
                /\ fetch' = [fetch EXCEPT ![f] = [pc |-> "gate", session |-> s, host |-> host, via |-> 0]]
    <2>0. PICK host \in Hosts :
             fetch' = [fetch EXCEPT ![f] = [pc |-> "gate", session |-> s, host |-> host, via |-> 0]]
      BY Zenon, <1>2
    <2>1. FetchTypes' /\ ~ Sends(f)' /\ \A g \in Fetches \ {f} : fetch'[g] = fetch[g]
      <3>1. [pc |-> "gate", session |-> s, host |-> host, via |-> 0]
               \in [pc : {"idle", "gate", "send", "sent", "done"}, session : WebSessions \cup {""},
                    host : Targets, via : Nat]
        BY Zenon, TargetsHold
      <3> QED BY Zenon, <1>0, <2>0, <3>1 DEF FetchTypes, Sends
    <2>2. decisions \subseteq decisions'
      BY Zenon, <1>2, RecordClears
    <2> QED BY Zenon, <1>0, <2>1, <2>2, ClearedStays
  <1>3. \/ FetchEnds(f) /\ UNCHANGED decisions
        \/ \E host \in Hosts :
              /\ Records(s, host)
              /\ \/ FetchEnds(f)
                 \/ fetch' = [fetch EXCEPT ![f] = [pc |-> "gate", session |-> s, host |-> host, via |-> 0]]
    BY Zenon, WebAssumption DEF ToolBegins
  <1> QED BY Zenon, <1>1, <1>2, <1>3, RecordClears

\* The fetcher sends where the broker lets it, at the first hop and at every other.
LEMMA HopKeepsWebInv ==
  ASSUME WebInv, NEW f \in Fetches, NEW host \in Targets,
         NEW s, s = fetch[f].session, Records(s, host), contacts' = contacts,
         IF Allowed(s, host) THEN FetchAt(f, "send", host, fetch[f].via) ELSE FetchEnds(f)
  PROVE  WebInv'
  <1>0. FetchTypes /\ fetch[f].via \in Nat
    BY Zenon, FetchFields DEF WebInv
  <1>1. decisions \subseteq decisions' /\ (Allowed(s, host) => Cleared(s, host)')
    BY Zenon, RecordClears
  <1>2. CASE Allowed(s, host)
    <2>1. /\ FetchTypes' /\ fetch'[f].session = fetch[f].session /\ fetch'[f].host = host
          /\ \A g \in Fetches \ {f} : fetch'[g] = fetch[g]
      BY Zenon, <1>0, <1>2, FetchMoves
    <2>2. Cleared(fetch[f].session, fetch[f].host)'
      BY Zenon, <1>1, <1>2, <2>1 DEF Cleared
    <2> QED BY Zenon, <1>1, <2>1, <2>2, ClearedStays
  <1>3. CASE ~ Allowed(s, host)
    BY Zenon, <1>0, <1>1, <1>3, FetchIsOver, ClearedStays
  <1> QED BY Zenon, <1>2, <1>3

\* What leaves goes where the call was cleared to, over a vetted connection.
LEMMA ContactKeepsWebInv ==
  ASSUME WebInv, NEW f \in Fetches, Sends(f), Contacts(f, "public"), decisions' = decisions
  PROVE  WebInv'
  <1>0. FetchTypes /\ fetch[f].via \in Nat /\ fetch[f].host \in Targets
    BY Zenon, FetchFields DEF WebInv
  <1>1. fetch[f].via + 1 \in Nat
    BY <1>0
  <1>2. FetchTypes' /\ ~ Sends(f)' /\ \A g \in Fetches \ {f} : fetch'[g] = fetch[g]
    BY Zenon, <1>0, <1>1, FetchMoves DEF Contacts, Sends
  <1>3. Cleared(fetch[f].session, fetch[f].host)
    BY Zenon DEF WebInv, SendsAreCleared
  <1>4. \A c \in contacts' \ contacts : c.kind = "public" /\ Cleared(c.session, c.host)
    BY <1>3 DEF Contacts
  <1> QED BY Zenon, <1>2, <1>4, ClearedStays

\* Ending a call clears nothing and sends nothing.
LEMMA EndKeepsWebInv ==
  ASSUME WebInv, NEW f \in Fetches, FetchEnds(f), contacts' = contacts, decisions' = decisions
  PROVE  WebInv'
  BY Zenon, FetchIsOver, ClearedStays DEF WebInv

\* Every request that leaves goes to a public address and to a host the broker allowed
\* that very session: for all redirects, kept connections, moving names and changing
\* policies (Broker.Allow, Client.Fetch, dialPinned, checkRedirect).
THEOREM OnlyClearedLeaves == WebSpec => []ContactsAreCleared
  <1>1. WebInit => WebInv
    <2> SUFFICES ASSUME WebInit PROVE WebInv
      BY Zenon
    <2>1. FetchTypes
      BY Zenon DEF WebInit, FetchTypes, NoFetch, Targets
    <2>2. SendsAreCleared /\ ContactsAreCleared
      BY Zenon DEF WebInit, SendsAreCleared, ContactsAreCleared, Sends, NoFetch
    <2> QED BY Zenon, <2>1, <2>2 DEF WebInv
  <1>2. WebInv /\ [WebNext]_webVars => WebInv'
    <2> SUFFICES ASSUME WebInv, [WebNext]_webVars PROVE WebInv'
      OBVIOUS
    <2>1. ASSUME NEW f \in Fetches, NEW s \in WebSessions, NEW tool \in {"webfetch", "websearch"},
                 ToolBegins(f, s, tool)
          PROVE  WebInv'
      BY Zenon, <2>1, BeginKeepsWebInv
    <2>2. ASSUME NEW f \in Fetches, FetchGates(f) PROVE WebInv'
      <3>1. fetch[f].host \in Targets
        BY Zenon, FetchFields DEF WebInv
      <3> QED BY Zenon, <2>2, <3>1, HopKeepsWebInv DEF FetchGates
    <2>3. ASSUME NEW f \in Fetches, Dial(f) \/ Reuse(f) PROVE WebInv'
      BY Zenon, <2>3, ContactKeepsWebInv, EndKeepsWebInv DEF Dial, Reuse, Sends
    <2>4. ASSUME NEW f \in Fetches, FetchFails(f) \/ Answers(f) PROVE WebInv'
      BY Zenon, <2>4, EndKeepsWebInv DEF FetchFails, Answers
    <2>5. ASSUME NEW f \in Fetches, NEW h \in Hosts, Redirects(f, h) PROVE WebInv'
      BY Zenon, <2>5, HopKeepsWebInv, EndKeepsWebInv, TargetsHold DEF Redirects
    <2> QED BY Zenon, <2>1, <2>2, <2>3, <2>4, <2>5, ChangesKeepWebInv DEF WebNext
  <1>3. WebInv => ContactsAreCleared
    BY DEF WebInv
  <1> QED BY <1>1, <1>2, <1>3, PTL DEF WebSpec

-----------------------------------------------------------------------------
(***************************************************************************)
(* What a client receives is exact, for every length of the log, number of *)
(* calls and number of faults.                                             *)
(*                                                                         *)
(* The frames reach the client by two ways, from the subscription and from *)
(* the flush, and over several calls. DeliveryInv says that there is one   *)
(* place in the log up to which all is delivered, that what is on the      *)
(* channel or loaded for the flush are the places right after it, and that *)
(* a call which is still answered has had no end.                          *)
(***************************************************************************)

(* What a client receives. *)

TailType == [pc : {"closed", "drain", "send", "wait"}, cursor : Nat, hi : Nat, wake : BOOLEAN]
RelayType == [pc : {"idle", "select", "await", "flush", "return"}, afterSeq : Nat, liveSeq : Nat,
              todo : Seq(Nat), err : {"none", "send", "ctx", "loop"}, loaded : BOOLEAN]
LoopType == [pc : {"over", "run", "askHead", "askSend", "ask"}, out : {"none", "ok", "error", "canceled"},
             ask : Nat, stop : BOOLEAN, end : Nat]
ConnType == [up : BOOLEAN, gone : BOOLEAN, began : BOOLEAN, sendErr : BOOLEAN, result : BOOLEAN]
ClientType == [transport : Transports, frames : Seq(Nat), lastId : Nat,
               ends : {<< >>, <<"result">>, <<"error">>}, calls : Nat]

RelayTypes == /\ log \in Seq(Kinds) /\ chan \in Seq(Nat)
              /\ tail \in TailType /\ relay \in RelayType /\ loop \in LoopType
              /\ conn \in ConnType /\ client \in ClientType

\* How far the relay has come.
Delivered == IF relay.liveSeq > relay.afterSeq THEN relay.liveSeq ELSE relay.afterSeq

\* s are the places right after n, and all of them in the log.
Following(s, n) == (\A i \in DOMAIN s : s[i] = n + i) /\ n + Len(s) <= Len(log)

LastFrame == IF client.frames = << >> THEN 0 ELSE client.frames[Len(client.frames)]
Got(seq) == \E i \in DOMAIN client.frames : client.frames[i] = seq

\* The frames are in order, and those of the log up to the last of them.
FramesInOrder ==
    /\ \A i, j \in DOMAIN client.frames : i < j => client.frames[i] < client.frames[j]
    /\ \A i \in DOMAIN client.frames : client.frames[i] \in DOMAIN log /\ log[client.frames[i]] = "frame"
    /\ \A seq \in DOMAIN log : log[seq] = "frame" /\ seq <= LastFrame => Got(seq)

Relaying == relay.pc \in {"select", "await", "flush"}

\* Who is told what: a client that is connected has every frame the relay has passed.
Position ==
    /\ Relaying => Delivered <= Len(log)
    /\ Relaying => LastFrame <= Delivered
    /\ Relaying /\ conn.up /\ ~ Buffered => \A seq \in DOMAIN log : log[seq] = "frame" /\ seq <= Delivered => Got(seq)
    /\ relay.pc = "select" => Following(chan, Delivered)
    /\ relay.pc = "select" /\ tail.pc # "closed" =>
          /\ tail.cursor = Delivered + Len(chan)
          /\ tail.pc = "send" => tail.cursor < tail.hi /\ tail.hi <= Len(log)
    /\ relay.pc = "flush" => Following(relay.todo, Delivered)
    /\ relay.pc = "flush" /\ relay.loaded => loop.end <= Delivered + Len(relay.todo)
    /\ relay.pc \in {"select", "await"} => relay.todo = << >>
    /\ relay.pc = "flush" => loop.pc = "over"

\* How a call ends.
Ends ==
    /\ conn.sendErr \/ conn.gone => ~ conn.up
    /\ Buffered => client.frames = << >>
    /\ Relaying => relay.err = "none" /\ client.ends = << >> /\ (client.transport = "mcp" => ~ conn.result)
    /\ relay.pc = "return" =>
          /\ Buffered => client.ends = << >>
          /\ ~ Buffered => client.ends \in {<< >>, <<"result">>}
          /\ relay.err # "none" => client.ends = << >>
          /\ conn.up /\ ~ Buffered => (relay.err = "none" <=> client.ends = <<"result">>)
          /\ client.transport = "mcp" /\ relay.err # "none" => ~ conn.result
    /\ relay.pc = "idle" /\ client.calls > 0 /\ conn.up => client.ends # << >>
    /\ client.ends = <<"result">> /\ ~ Buffered =>
          /\ loop.pc = "over"
          /\ relay.loaded => \A seq \in DOMAIN log : log[seq] = "frame" /\ seq <= loop.end => Got(seq)
    /\ loop.end <= Len(log)

DeliveryInv == RelayTypes /\ FramesInOrder /\ Position /\ Ends

\* At the start nothing is delivered and nothing is awaited (RelayInit).
LEMMA DeliveryInitInv ==
    ASSUME RelayInit PROVE DeliveryInv
<1> USE DEF RelayInit
<1>0. << >> \in Seq(Nat) /\ << >> \in Seq(Kinds) /\ 0 \in Nat
    OBVIOUS
<1>1. RelayTypes
    BY <1>0, Zenon DEF RelayTypes, NoTail, NoRelay, NoLoop, NoConn,
                       TailType, RelayType, LoopType, ConnType, ClientType
<1>2. FramesInOrder
    BY DEF FramesInOrder
<1>3. Position
    BY Zenon DEF Position, Relaying, NoRelay
<1>4. Ends
    BY DEF Ends, Relaying, Buffered, NoRelay, NoLoop, NoConn
<1> QED
    BY <1>1, <1>2, <1>3, <1>4, Zenon DEF DeliveryInv

\* The numbers of the state (Envelope.Seq is a positive integer, and so is a cursor).
LEMMA DeliveryNumbers ==
    ASSUME RelayTypes
    PROVE  /\ Delivered \in Nat /\ relay.liveSeq \in Nat /\ relay.afterSeq \in Nat /\ relay.todo \in Seq(Nat)
           /\ tail.cursor \in Nat /\ tail.hi \in Nat
           /\ loop.end \in Nat /\ loop.ask \in Nat /\ client.calls \in Nat /\ client.lastId \in Nat
           /\ client.frames \in Seq(Nat)
           /\ client.ends \in {<< >>, <<"result">>, <<"error">>}
<1>1. relay.liveSeq \in Nat /\ relay.afterSeq \in Nat /\ relay.todo \in Seq(Nat)
    BY Zenon DEF RelayTypes, RelayType
<1>2. tail.cursor \in Nat /\ tail.hi \in Nat /\ loop.end \in Nat /\ loop.ask \in Nat
    BY Zenon DEF RelayTypes, TailType, LoopType
<1>3. /\ client.calls \in Nat /\ client.lastId \in Nat /\ client.frames \in Seq(Nat)
      /\ client.ends \in {<< >>, <<"result">>, <<"error">>}
    BY Zenon DEF RelayTypes, ClientType
<1> QED
    BY <1>1, <1>2, <1>3, Zenon DEF Delivered

\* The next place after s may be put behind it (Subscribe sends the rows in order).
LEMMA FollowingAppend ==
    ASSUME NEW s \in Seq(Nat), NEW n \in Nat, Len(log) \in Nat, Following(s, n), n + Len(s) < Len(log)
    PROVE  Following(Append(s, n + Len(s) + 1), n)
<1>1. PICK t : t = Append(s, n + Len(s) + 1)
    BY Zenon
<1>2. /\ Len(t) = Len(s) + 1 /\ Len(s) \in Nat /\ DOMAIN s = 1..Len(s) /\ DOMAIN t = 1..(Len(s) + 1)
      /\ t[Len(s) + 1] = n + Len(s) + 1 /\ \A i \in 1..Len(s) : t[i] = s[i]
    BY <1>1
<1>3. ASSUME NEW i \in DOMAIN t PROVE t[i] = n + i
    <2>1. CASE i = Len(s) + 1
        BY <1>2, <2>1
    <2>2. CASE i \in 1..Len(s)
        BY Zenon, <1>2, <2>2 DEF Following
    <2> QED
        BY <1>2, <2>1, <2>2
<1>4. n + Len(t) <= Len(log)
    BY <1>2
<1> QED
    BY <1>1, <1>3, <1>4, Zenon DEF Following

\* Taking the first of the places after n leaves the places after n + 1 (the relay's
\* select loop and finishWithFlush take them in order).
LEMMA FollowingTail ==
    ASSUME NEW s \in Seq(Nat), NEW n \in Nat, Len(log) \in Nat, Following(s, n), s # << >>
    PROVE  /\ Head(s) = n + 1 /\ n + 1 <= Len(log)
           /\ Tail(s) \in Seq(Nat) /\ Len(Tail(s)) = Len(s) - 1 /\ Following(Tail(s), n + 1)
<1>1. PICK t : t = Tail(s)
    BY Zenon
<1>2. /\ t \in Seq(Nat) /\ Len(t) = Len(s) - 1 /\ Len(s) \in Nat /\ Len(s) >= 1
      /\ DOMAIN s = 1..Len(s) /\ DOMAIN t = 1..(Len(s) - 1)
      /\ \A i \in 1..(Len(s) - 1) : t[i] = s[i + 1]
    BY <1>1
<1>3. Head(s) = s[1]
    BY <1>2
<1>4. ASSUME NEW i \in DOMAIN t PROVE t[i] = n + 1 + i
    <2>1. i + 1 \in DOMAIN s /\ i \in Nat /\ t[i] = s[i + 1]
        BY SMTT(30), <1>2
    <2>2. s[i + 1] = n + (i + 1)
        BY <2>1, Zenon DEF Following
    <2> QED
        BY <2>1, <2>2
<1>5. s[1] = n + 1 /\ n + Len(s) <= Len(log)
    <2>1. 1 \in DOMAIN s
        BY <1>2
    <2> QED
        BY <2>1, Zenon DEF Following
<1>6. n + 1 + Len(t) <= Len(log) /\ n + 1 <= Len(log)
    BY <1>2, <1>5
<1> QED
    BY <1>1, <1>2, <1>3, <1>4, <1>5, <1>6, Zenon DEF Following

\* The subscriber's own steps leave the client alone, and keep its cursor right behind
\* what is on the channel (drainNewEvents and the loop of Subscribe).
LEMMA TailStepInv ==
    ASSUME DeliveryInv, TailStep PROVE DeliveryInv'
<1>0. UNCHANGED <<log, relay, loop, conn, client>>
    BY Zenon DEF TailStep, TailDrain, TailReadError, TailSend, TailTick, TailWake, TailCancelled
<1>t. /\ tail \in TailType /\ chan \in Seq(Nat) /\ log \in Seq(Kinds)
      /\ Delivered \in Nat /\ tail.cursor \in Nat /\ tail.hi \in Nat
    BY DeliveryNumbers, Zenon DEF DeliveryInv, RelayTypes
<1> DEFINE
      ChanFollows == relay.pc = "select" => Following(chan, Delivered)
      CursorFollows == relay.pc = "select" /\ tail.pc # "closed" =>
                          /\ tail.cursor = Delivered + Len(chan)
                          /\ tail.pc = "send" => tail.cursor < tail.hi /\ tail.hi <= Len(log)
<1>p. ChanFollows /\ CursorFollows
    BY Zenon DEF DeliveryInv, Position
<1>q. Delivered' = Delivered /\ Relaying' = Relaying /\ LastFrame' = LastFrame /\ Buffered' = Buffered
    BY <1>0, Zenon DEF Delivered, Relaying, LastFrame, Buffered
<1>l. Len(log) \in Nat /\ Len(chan) \in Nat
    BY <1>t
<1>s. tail' \in TailType /\ chan' \in Seq(Nat) /\ ChanFollows' /\ CursorFollows'
    <2>1. CASE TailDrain
        <3>1. tail' = [tail EXCEPT !.hi = Len(log), !.pc = IF Len(log) > tail.cursor THEN "send" ELSE "wait"]
            BY <2>1, Zenon DEF TailDrain
        <3>2. tail' \in TailType /\ tail'.cursor = tail.cursor /\ tail'.hi = Len(log)
            BY <1>t, <1>l, <3>1, Zenon DEF TailType
        <3>3. tail'.pc = "send" => Len(log) > tail.cursor
            BY <1>t, <3>1, Zenon DEF TailType
        <3>4. chan' = chan /\ tail.pc = "drain"
            BY <2>1, Zenon DEF TailDrain
        <3>5. ChanFollows'
            BY <1>0, <1>p, <1>q, <3>4, Zenon DEF Following
        <3>6. CursorFollows'
            BY SMTT(30), <1>0, <1>p, <1>q, <1>l, <3>2, <3>3, <3>4
        <3> QED
            BY <1>t, <3>2, <3>4, <3>5, <3>6, Zenon
    <2>2. CASE TailReadError \/ TailCancelled
        <3>1. tail' = NoTail /\ chan' = chan
            BY <2>2, Zenon DEF TailReadError, TailCancelled
        <3>2. tail' \in TailType /\ tail'.pc = "closed"
            BY <3>1, Zenon DEF TailType, NoTail
        <3> QED
            BY <1>0, <1>t, <1>p, <1>q, <3>1, <3>2, Zenon DEF Following
    <2>3. CASE TailSend
        <3>1. /\ tail' = [tail EXCEPT !.cursor = tail.cursor + 1,
                                      !.pc = IF tail.cursor + 1 = tail.hi THEN "wait" ELSE "send"]
              /\ tail.pc = "send" /\ chan' = Append(chan, tail.cursor + 1)
            BY <2>3, Zenon DEF TailSend
        <3>2. tail.cursor + 1 \in Nat
            BY <1>t
        <3>3. tail' \in TailType /\ tail'.cursor = tail.cursor + 1 /\ tail'.hi = tail.hi
            BY <1>t, <3>1, <3>2, Zenon DEF TailType
        <3>4. tail'.pc = "send" => tail.cursor + 1 # tail.hi
            BY <1>t, <3>1, Zenon DEF TailType
        <3>5. /\ chan' \in Seq(Nat) /\ Len(chan') = Len(chan) + 1
              /\ DOMAIN chan = 1..Len(chan) /\ DOMAIN chan' = 1..(Len(chan) + 1)
              /\ chan'[Len(chan) + 1] = tail.cursor + 1
              /\ \A i \in 1..Len(chan) : chan'[i] = chan[i]
            BY <1>t, <3>1, <3>2
        <3>6. ChanFollows'
            <4> SUFFICES ASSUME relay.pc = "select"
                         PROVE  Following(chan', Delivered)
                BY <1>0, <1>q, Zenon DEF Following
            <4>1. Following(chan, Delivered) /\ tail.cursor = Delivered + Len(chan)
                BY <1>p, <3>1, Zenon
            <4>2. tail.cursor < tail.hi /\ tail.hi <= Len(log)
                BY <1>p, <3>1, Zenon
            <4>3. Delivered \in Nat /\ tail.cursor \in Nat /\ tail.hi \in Nat
                BY <1>t, Zenon
            <4> HIDE DEF ChanFollows, CursorFollows
            <4>4. Delivered + Len(chan) < Len(log) /\ tail.cursor + 1 = Delivered + Len(chan) + 1
                BY <1>l, <4>1, <4>2, <4>3
            <4> QED
                BY <1>l, <1>t, <3>1, <4>1, <4>4, FollowingAppend, Zenon
        <3>7. CursorFollows'
            BY SMTT(30), <1>0, <1>p, <1>q, <1>l, <1>t, <3>1, <3>3, <3>4, <3>5
        <3> QED
            BY <3>3, <3>5, <3>6, <3>7, Zenon
    <2>4. CASE TailTick \/ TailWake
        <3>1. /\ tail.pc = "wait" /\ chan' = chan
              /\ \/ tail' = [tail EXCEPT !.pc = "drain"]
                 \/ tail' = [tail EXCEPT !.pc = "drain", !.wake = FALSE]
            BY <2>4, Zenon DEF TailTick, TailWake
        <3>2. tail' \in TailType /\ tail'.cursor = tail.cursor /\ tail'.pc = "drain"
            BY <1>t, <3>1, Zenon DEF TailType
        <3> QED
            BY <1>0, <1>t, <1>p, <1>q, <3>1, <3>2, Zenon DEF Following
    <2> QED
        BY <2>1, <2>2, <2>3, <2>4, Zenon DEF TailStep
<1>1. RelayTypes'
    BY <1>0, <1>s, Zenon DEF DeliveryInv, RelayTypes
<1>2. FramesInOrder'
    BY <1>0, <1>q, Zenon DEF DeliveryInv, FramesInOrder, Got
<1>3. Position'
    <2>1. Following(relay.todo, Delivered)' <=> Following(relay.todo, Delivered)
        BY <1>0, <1>q, Zenon DEF Following
    <2> QED
        BY <1>0, <1>q, <1>s, <2>1, Zenon DEF DeliveryInv, Position, Got
<1>4. Ends'
    BY <1>0, <1>q, Zenon DEF DeliveryInv, Ends, Got
<1> QED
    BY <1>1, <1>2, <1>3, <1>4, Zenon DEF DeliveryInv

\* An event is appended behind all that is delivered, on the channel or still to be
\* flushed (Append of the event store).
LEMMA CommitInv ==
    ASSUME DeliveryInv, NEW kind \in Kinds, Commit(kind) PROVE DeliveryInv'
<1> USE DEF Commit
<1>0. UNCHANGED <<chan, relay, loop, conn, client>>
    BY Zenon
<1>a. /\ log' \in Seq(Kinds) /\ Len(log') = Len(log) + 1 /\ Len(log) \in Nat
      /\ DOMAIN log = 1..Len(log) /\ DOMAIN log' = 1..(Len(log) + 1)
      /\ \A seq \in DOMAIN log : log'[seq] = log[seq]
    BY DEF DeliveryInv, RelayTypes
<1>b. /\ tail' \in TailType
      /\ tail'.pc = tail.pc /\ tail'.cursor = tail.cursor /\ tail'.hi = tail.hi
    BY Zenon DEF DeliveryInv, RelayTypes, TailType
<1> HIDE DEF Commit
<1>1. RelayTypes'
    BY <1>0, <1>a, <1>b, Zenon DEF DeliveryInv, RelayTypes
<1>c. LastFrame' = LastFrame /\ Delivered' = Delivered /\ Relaying' = Relaying /\ Buffered' = Buffered
    BY Zenon, <1>0 DEF LastFrame, Delivered, Relaying, Buffered
<1>d. client.frames \in Seq(Nat) /\ LastFrame \in Nat /\ LastFrame <= Len(log)
    <2>1. client.frames \in Seq(Nat)
        BY DeliveryNumbers, Zenon DEF DeliveryInv
    <2>2. CASE client.frames = << >>
        BY <1>a, <2>1, <2>2 DEF LastFrame
    <2>3. CASE client.frames # << >>
        <3>1. Len(client.frames) \in DOMAIN client.frames
            BY <2>1, <2>3
        <3> QED
            BY <1>a, <2>1, <2>3, <3>1 DEF LastFrame, DeliveryInv, FramesInOrder
    <2> QED
        BY Zenon, <2>2, <2>3
<1>e. Delivered \in Nat /\ loop.end \in Nat
    BY DeliveryNumbers, Zenon DEF DeliveryInv
<1>2. FramesInOrder'
    <2>1. \A seq \in DOMAIN log' : log'[seq] = "frame" /\ seq <= LastFrame => Got(seq)
        BY <1>a, <1>d DEF DeliveryInv, FramesInOrder
    <2>2. \A i \in DOMAIN client.frames : client.frames[i] \in DOMAIN log' /\ log'[client.frames[i]] = "frame"
        BY <1>a DEF DeliveryInv, FramesInOrder
    <2> QED
        BY <1>0, <1>c, <2>1, <2>2, Zenon DEF DeliveryInv, FramesInOrder, Got
<1>3. Position'
    <2>1. relay.pc = "select" => Following(chan, Delivered)'
        BY <1>0, <1>a, <1>c, <1>e DEF DeliveryInv, Position, Following, RelayTypes
    <2>2. relay.pc = "flush" => Following(relay.todo, Delivered)'
        BY <1>0, <1>a, <1>c, <1>e DEF DeliveryInv, Position, Following, RelayTypes
    <2>3. Relaying /\ conn.up /\ ~ Buffered =>
              \A seq \in DOMAIN log' : log'[seq] = "frame" /\ seq <= Delivered => Got(seq)
        BY <1>a, <1>e DEF DeliveryInv, Position
    <2>4. relay.pc = "select" /\ tail.pc = "send" => tail.hi <= Len(log')
        <3>1. relay.pc = "select" /\ tail.pc = "send" => tail.hi <= Len(log)
            BY Zenon DEF DeliveryInv, Position
        <3>2. tail.hi \in Nat
            BY DeliveryNumbers, Zenon DEF DeliveryInv
        <3> QED
            BY <1>a, <3>1, <3>2
    <2>5. Relaying => Delivered <= Len(log') /\ LastFrame <= Delivered
        BY <1>a, <1>e DEF DeliveryInv, Position
    <2> QED
        BY <1>0, <1>b, <1>c, <2>1, <2>2, <2>3, <2>4, <2>5, Zenon DEF DeliveryInv, Position, Got
<1>4. Ends'
    <2>1. client.ends = <<"result">> /\ ~ Buffered /\ relay.loaded =>
              \A seq \in DOMAIN log' : log'[seq] = "frame" /\ seq <= loop.end => Got(seq)
        BY <1>a, <1>e DEF DeliveryInv, Ends
    <2>2. loop.end <= Len(log')
        BY <1>a, <1>e DEF DeliveryInv, Ends
    <2> QED
        BY <1>0, <1>c, <2>1, <2>2, Zenon DEF DeliveryInv, Ends, Got
<1> QED
    BY Zenon, <1>1, <1>2, <1>3, <1>4 DEF DeliveryInv

\* The last frame of the client is one of the log (envelopeToFrame carries the seq of a
\* committed event).
LEMMA LastFrameBound ==
    ASSUME RelayTypes, FramesInOrder
    PROVE  /\ LastFrame \in Nat /\ LastFrame <= Len(log) /\ Len(log) \in Nat
           /\ \A i \in DOMAIN client.frames : client.frames[i] \in Nat /\ client.frames[i] <= LastFrame
<1>1. client.frames \in Seq(Nat) /\ log \in Seq(Kinds)
    BY DeliveryNumbers, Zenon DEF RelayTypes
<1>2. Len(log) \in Nat /\ DOMAIN log = 1..Len(log)
    BY <1>1
<1>3. CASE client.frames = << >>
    BY <1>2, <1>3 DEF LastFrame
<1>4. CASE client.frames # << >>
    <2>1. /\ Len(client.frames) \in Nat /\ DOMAIN client.frames = 1..Len(client.frames)
          /\ Len(client.frames) \in DOMAIN client.frames
          /\ \A i \in DOMAIN client.frames : client.frames[i] \in Nat
        BY <1>1, <1>4
    <2>2. LastFrame = client.frames[Len(client.frames)]
        BY <1>4, Zenon DEF LastFrame
    <2>3. LastFrame \in DOMAIN log
        BY <2>1, <2>2, Zenon DEF FramesInOrder
    <2>4. ASSUME NEW i \in DOMAIN client.frames PROVE client.frames[i] <= LastFrame
        <3>1. i = Len(client.frames) \/ i < Len(client.frames)
            BY <2>1
        <3>2. i < Len(client.frames) => client.frames[i] < LastFrame
            BY <2>1, <2>2, Zenon DEF FramesInOrder
        <3> QED
            BY <2>1, <2>2, <3>1, <3>2
    <2> QED
        BY <1>2, <2>1, <2>3, <2>4
<1> QED
    BY Zenon, <1>3, <1>4

\* What only the loop of the call knows changes nothing of what the client has
\* (LoopRunner.Run on its own goroutine): its end is the head of the log.
LEMMA LoopStepInv ==
    ASSUME DeliveryInv, UNCHANGED <<log, tail, chan, relay, conn, client>>,
           loop' \in LoopType, loop.pc # "over",
           loop'.end = loop.end \/ loop'.end = Len(log)
    PROVE  DeliveryInv'
<1>0. /\ Delivered' = Delivered /\ Relaying' = Relaying /\ LastFrame' = LastFrame /\ Buffered' = Buffered
      /\ Following(chan, Delivered)' = Following(chan, Delivered)
      /\ Following(relay.todo, Delivered)' = Following(relay.todo, Delivered)
    BY Zenon DEF Delivered, Relaying, LastFrame, Buffered, Following
<1>1. RelayTypes'
    BY Zenon DEF DeliveryInv, RelayTypes
<1>2. FramesInOrder'
    BY <1>0, Zenon DEF DeliveryInv, FramesInOrder, Got
<1>3. Position'
    BY <1>0, Zenon DEF DeliveryInv, Position, Got
<1>4. Ends'
    <2>1. Len(log) \in Nat /\ loop.end <= Len(log) /\ loop.end \in Nat
        BY DeliveryNumbers, LastFrameBound, Zenon DEF DeliveryInv, Ends
    <2>2. loop'.end <= Len(log)
        BY <2>1
    <2> QED
        BY <1>0, <2>2, Zenon DEF DeliveryInv, Ends, Got
<1> QED
    BY <1>1, <1>2, <1>3, <1>4, Zenon DEF DeliveryInv

\* The steps of the loop that send nothing are of that kind.
LEMMA LoopQuietInv ==
    ASSUME DeliveryInv,
           \/ LoopAsk \/ LoopAskHead \/ LoopAnswered \/ Interrupt
           \/ \E out \in {"ok", "error", "canceled"} : LoopEnd(out)
    PROVE  DeliveryInv'
<1>0. UNCHANGED <<log, tail, chan, relay, conn, client>> /\ loop.pc # "over"
    BY Zenon DEF LoopAsk, LoopAskHead, LoopAnswered, Interrupt, LoopEnd
<1>t. loop \in LoopType /\ Len(log) \in Nat /\ relay.liveSeq \in Nat
    BY DeliveryNumbers, LastFrameBound, Zenon DEF DeliveryInv, RelayTypes
<1>1. CASE LoopAsk
    <2>1. /\ loop' = [loop EXCEPT !.pc = IF relay.liveSeq = 0 THEN "askHead" ELSE "askSend", !.ask = relay.liveSeq]
        BY <1>1, Zenon DEF LoopAsk
    <2>2. loop' \in LoopType /\ loop'.end = loop.end
        BY <1>t, <2>1, Zenon DEF LoopType
    <2> QED
        BY <1>0, <2>2, LoopStepInv, Zenon
<1>2. CASE LoopAskHead \/ LoopAnswered \/ Interrupt
    <2>1. \/ loop' = [loop EXCEPT !.pc = "askSend", !.ask = Len(log)]
          \/ loop' = [loop EXCEPT !.pc = "askSend"]
          \/ loop' = [loop EXCEPT !.pc = "run"]
          \/ loop' = [loop EXCEPT !.stop = TRUE]
        BY <1>2, Zenon DEF LoopAskHead, LoopAnswered, Interrupt
    <2>2. loop' \in LoopType /\ loop'.end = loop.end
        BY <1>t, <2>1, Zenon DEF LoopType
    <2> QED
        BY <1>0, <2>2, LoopStepInv, Zenon
<1>3. ASSUME NEW out \in {"ok", "error", "canceled"}, LoopEnd(out) PROVE DeliveryInv'
    <2>1. loop' = [loop EXCEPT !.pc = "over", !.out = out, !.end = Len(log)]
        BY <1>3, Zenon DEF LoopEnd
    <2>2. loop' \in LoopType /\ loop'.end = Len(log)
        BY <1>t, <2>1, Zenon DEF LoopType
    <2> QED
        BY <1>0, <2>2, LoopStepInv, Zenon
<1> QED
    BY <1>1, <1>2, <1>3, Zenon

\* A connection that is lost, and the server that learns of it, only take promises back:
\* what holds of a connection that is up is not asked any more.
LEMMA ConnectionInv ==
    ASSUME DeliveryInv, ConnectionLost \/ ContextDone PROVE DeliveryInv'
<1>0. UNCHANGED <<log, tail, chan, relay, loop, client>>
    BY Zenon DEF ConnectionLost, ContextDone
<1>1. /\ conn' \in ConnType /\ ~ conn'.up
      /\ conn'.result = conn.result
    <2>1. conn \in ConnType
        BY Zenon DEF DeliveryInv, RelayTypes
    <2>2. conn' = [conn EXCEPT !.up = FALSE] \/ (conn' = [conn EXCEPT !.gone = TRUE] /\ ~ conn.up)
        BY Zenon DEF ConnectionLost, ContextDone
    <2> QED
        BY <2>1, <2>2, Zenon DEF ConnType
<1>2. /\ Delivered' = Delivered /\ Relaying' = Relaying /\ LastFrame' = LastFrame /\ Buffered' = Buffered
      /\ Following(chan, Delivered)' = Following(chan, Delivered)
      /\ Following(relay.todo, Delivered)' = Following(relay.todo, Delivered)
    BY <1>0, Zenon DEF Delivered, Relaying, LastFrame, Buffered, Following
<1>3. RelayTypes' /\ FramesInOrder'
    BY <1>0, <1>1, <1>2, Zenon DEF DeliveryInv, RelayTypes, FramesInOrder, Got
<1>4. Position'
    BY <1>0, <1>1, <1>2, Zenon DEF DeliveryInv, Position, Got
<1>5. Ends'
    BY <1>0, <1>1, <1>2, Zenon DEF DeliveryInv, Ends, Got
<1> QED
    BY <1>3, <1>4, <1>5, Zenon DEF DeliveryInv

\* What a successful Send does to the client: the frame or the result is received when
\* the connection is up and the answer is not buffered, and else nothing.
LEMMA SendFacts ==
    ASSUME RelayTypes, client.ends = << >>, client.transport = "mcp" => ~ conn.result,
           NEW kind \in {"frame", "approval", "result"}, NEW seq \in Nat, SendOk(kind, seq)
    PROVE  /\ conn' \in ConnType /\ client' \in ClientType
           /\ conn'.up = conn.up /\ conn'.gone = conn.gone /\ conn'.sendErr = conn.sendErr
           /\ client'.transport = client.transport /\ client'.calls = client.calls
           /\ kind # "result" /\ client.transport = "mcp" => ~ conn'.result
           /\ ~ (conn.up /\ ~ Buffered) => client' = client
           /\ conn.up /\ ~ Buffered =>
                 /\ client'.frames = IF kind = "frame" THEN Append(client.frames, seq) ELSE client.frames
                 /\ client'.ends = IF kind = "result" THEN <<"result">> ELSE << >>
<1>t. /\ conn \in ConnType /\ client \in ClientType /\ client.frames \in Seq(Nat)
      /\ Append(client.frames, seq) \in Seq(Nat) /\ Append(<< >>, "result") = <<"result">>
    <2>1. conn \in ConnType /\ client \in ClientType /\ client.frames \in Seq(Nat)
        BY DeliveryNumbers, Zenon DEF RelayTypes
    <2>2. Append(client.frames, seq) \in Seq(Nat)
        BY <2>1
    <2>3. Append(<< >>, "result") = <<"result">>
        OBVIOUS
    <2> QED
        BY <2>1, <2>2, <2>3, Zenon
<1>r. /\ Receive(kind, seq) \in ClientType
      /\ Receive(kind, seq).transport = client.transport /\ Receive(kind, seq).calls = client.calls
      /\ Receive(kind, seq).frames = IF kind = "frame" THEN Append(client.frames, seq) ELSE client.frames
      /\ Receive(kind, seq).ends = IF kind = "result" THEN <<"result">> ELSE << >>
    <2>1. Receive(kind, seq) =
             [client EXCEPT !.frames = IF kind = "frame" THEN Append(client.frames, seq) ELSE client.frames,
                            !.lastId = seq,
                            !.ends = IF kind = "result" THEN <<"result">> ELSE << >>]
        BY <1>t, Zenon DEF Receive
    <2> QED
        BY <1>t, <2>1, Zenon DEF ClientType
<1>1. CASE client.transport = "mcp_buffered"
    <2>1. BufferSend(kind)
        BY <1>1, Zenon DEF SendOk
    <2>2. conn' = [conn EXCEPT !.result = conn.result \/ kind = "result"] /\ client' = client
        BY <2>1, Zenon DEF BufferSend
    <2>3. conn' \in ConnType /\ conn'.up = conn.up /\ conn'.gone = conn.gone /\ conn'.sendErr = conn.sendErr
        BY <1>t, <2>2, Zenon DEF ConnType
    <2> QED
        BY <1>1, <1>t, <2>2, <2>3, Zenon DEF Buffered
<1>2. CASE client.transport = "mcp"
    <2>1. McpSend(kind, seq)
        BY <1>2, Zenon DEF SendOk
    <2>2. /\ conn' = [conn EXCEPT !.began = TRUE, !.result = kind = "result"]
          /\ client' = IF conn.up THEN Receive(kind, seq) ELSE client
        BY <1>2, <2>1, Zenon DEF McpSend
    <2>3. /\ conn' \in ConnType /\ conn'.up = conn.up /\ conn'.gone = conn.gone /\ conn'.sendErr = conn.sendErr
          /\ kind # "result" => ~ conn'.result
        BY <1>t, <2>2, Zenon DEF ConnType
    <2>4. ~ Buffered
        BY Zenon, <1>2 DEF Buffered
    <2> QED
        BY <1>t, <1>r, <2>2, <2>3, <2>4, Zenon
<1>3. CASE client.transport # "mcp_buffered" /\ client.transport # "mcp"
    <2>1. SseSend(kind, seq)
        BY <1>3, Zenon DEF SendOk
    <2>2. /\ conn' = [conn EXCEPT !.began = TRUE]
          /\ client' = IF conn.up THEN Receive(kind, seq) ELSE client
        BY <2>1, Zenon DEF SseSend
    <2>3. conn' \in ConnType /\ conn'.up = conn.up /\ conn'.gone = conn.gone /\ conn'.sendErr = conn.sendErr
        BY <1>t, <2>2, Zenon DEF ConnType
    <2> QED
        BY <1>3, <1>t, <1>r, <2>2, <2>3, Zenon DEF Buffered
<1> QED
    BY <1>1, <1>2, <1>3, Zenon

\* A Send fails only on a connection that is not up any more, and changes nothing for
\* the client.
LEMMA SendFailsFacts ==
    ASSUME RelayTypes, Ends, Relaying, SendFails
    PROVE  /\ conn' \in ConnType /\ client' = client /\ ~ conn.up /\ ~ conn'.up /\ conn'.result = conn.result
<1>1. conn \in ConnType /\ conn' = [conn EXCEPT !.sendErr = TRUE] /\ client' = client
    BY Zenon DEF RelayTypes, SendFails
<1>2. ~ conn.up
    BY Zenon DEF SendFails, Ends
<1>3. conn' \in ConnType /\ conn'.up = conn.up /\ conn'.result = conn.result
    BY <1>1, Zenon DEF ConnType
<1> QED
    BY <1>1, <1>2, <1>3, Zenon

\* A frame behind all the others keeps them in order, when no frame before it is missing.
LEMMA FrameAppended ==
    ASSUME RelayTypes, FramesInOrder, NEW seq \in DOMAIN log, log[seq] = "frame", LastFrame < seq,
           \A x \in DOMAIN log : log[x] = "frame" /\ x < seq => Got(x),
           log' = log, client'.frames = Append(client.frames, seq)
    PROVE  /\ FramesInOrder' /\ LastFrame' = seq /\ Got(seq)'
           /\ \A x : Got(x) => Got(x)'
<1>1. client.frames \in Seq(Nat) /\ log \in Seq(Kinds)
    BY DeliveryNumbers, Zenon DEF RelayTypes
<1>2. PICK old, new : old = client.frames /\ new = client'.frames
    BY Zenon
<1>3. DOMAIN log = 1..Len(log) /\ Len(log) \in Nat /\ seq \in Nat /\ seq >= 1
    BY <1>1
<1>4. /\ new \in Seq(Nat) /\ Len(new) = Len(old) + 1 /\ Len(old) \in Nat
      /\ DOMAIN old = 1..Len(old) /\ DOMAIN new = 1..(Len(old) + 1)
      /\ new[Len(old) + 1] = seq /\ \A i \in 1..Len(old) : new[i] = old[i]
    BY <1>1, <1>2, <1>3
<1>5. LastFrame' = seq
    <2>1. new # << >>
        BY <1>4
    <2> QED
        BY <1>2, <1>4, <2>1, Zenon DEF LastFrame
<1>6. \A i \in DOMAIN old : old[i] \in Nat /\ old[i] <= LastFrame
    BY <1>2, LastFrameBound, Zenon
<1>l. LastFrame \in Nat
    BY LastFrameBound, Zenon
<1>7. Got(seq)'
    <2>1. Len(old) + 1 \in DOMAIN new
        BY <1>4
    <2> QED
        BY <1>2, <1>4, <2>1, Zenon DEF Got
<1>8. ASSUME NEW x, Got(x) PROVE Got(x)'
    <2>1. PICK i \in DOMAIN old : old[i] = x
        BY <1>2, <1>8, Zenon DEF Got
    <2>2. i \in DOMAIN new /\ new[i] = x
        BY <1>4, <2>1
    <2> QED
        BY <1>2, <2>2, Zenon DEF Got
<1>9. ASSUME NEW i \in DOMAIN new, NEW j \in DOMAIN new, i < j PROVE new[i] < new[j]
    <2>1. \A k, l \in DOMAIN old : k < l => old[k] < old[l]
        BY <1>2, Zenon DEF FramesInOrder
    <2>2. CASE j = Len(old) + 1
        <3>1. i \in DOMAIN old /\ new[i] = old[i]
            BY <1>4, <1>9, <2>2
        <3> QED
            BY <1>3, <1>4, <1>6, <1>l, <2>2, <3>1
    <2>3. CASE j # Len(old) + 1
        <3>1. i \in DOMAIN old /\ new[i] = old[i] /\ j \in DOMAIN old /\ new[j] = old[j]
            BY <1>4, <1>9, <2>3
        <3> QED
            BY <1>9, <2>1, <3>1, Zenon
    <2> QED
        BY Zenon, <2>2, <2>3
<1>10. ASSUME NEW i \in DOMAIN new PROVE new[i] \in DOMAIN log /\ log[new[i]] = "frame"
    <2>1. CASE i = Len(old) + 1
        BY <1>4, <2>1, Zenon
    <2>2. CASE i # Len(old) + 1
        <3>1. i \in DOMAIN old /\ new[i] = old[i]
            BY <1>4, <2>2
        <3> QED
            BY <1>2, <3>1, Zenon DEF FramesInOrder
    <2> QED
        BY Zenon, <2>1, <2>2
<1>11. ASSUME NEW x \in DOMAIN log, log[x] = "frame", x <= seq PROVE Got(x)'
    <2>1. x = seq \/ x < seq
        BY <1>3, <1>11
    <2> QED
        BY <1>7, <1>8, <1>11, <2>1, Zenon
<1> QED
    BY <1>2, <1>5, <1>7, <1>8, <1>9, <1>10, <1>11, Zenon DEF FramesInOrder

\* The approval frame of the gate is no durable frame: the client's frames and the end
\* of its call stay as they are (onApproval).
LEMMA LoopAskSendInv ==
    ASSUME DeliveryInv, LoopAskSend PROVE DeliveryInv'
<1>0. UNCHANGED <<log, tail, chan, relay>> /\ loop.pc = "askSend" /\ loop' = [loop EXCEPT !.pc = "ask", !.ask = 0]
    BY Zenon DEF LoopAskSend
<1>1. loop' \in LoopType /\ loop'.end = loop.end
    BY <1>0, Zenon DEF DeliveryInv, RelayTypes, LoopType
<1>2. CASE UNCHANGED <<conn, client>>
    BY <1>0, <1>1, <1>2, LoopStepInv, Zenon
<1>3. CASE ~ UNCHANGED <<conn, client>>
    <2>1. Relaying /\ (SendOk("approval", loop.ask) \/ SendFails)
        <3>1. relay.pc \in {"idle", "select", "await", "flush", "return"}
            BY Zenon DEF DeliveryInv, RelayTypes, RelayType
        <3> QED
            BY <1>3, <3>1, Zenon DEF LoopAskSend, Relaying
    <2>2. /\ conn' \in ConnType /\ client' \in ClientType
          /\ conn'.up => conn.up
          /\ (conn'.sendErr \/ conn'.gone) /\ conn'.up => conn.sendErr \/ conn.gone
          /\ client'.transport = client.transport /\ client'.calls = client.calls
          /\ client'.frames = client.frames /\ client'.ends = client.ends
          /\ client.transport = "mcp" => ~ conn'.result
        <3>1. RelayTypes /\ Ends /\ client.ends = << >> /\ (client.transport = "mcp" => ~ conn.result) /\ loop.ask \in Nat
            BY <2>1, DeliveryNumbers, Zenon DEF DeliveryInv, Ends
        <3>2. CASE SendOk("approval", loop.ask)
            BY <3>1, <3>2, SendFacts, Zenon
        <3>3. CASE SendFails
            BY <2>1, <3>1, <3>3, SendFailsFacts, Zenon DEF RelayTypes
        <3> QED
            BY Zenon, <2>1, <3>2, <3>3
    <2>3. /\ Delivered' = Delivered /\ Relaying' = Relaying /\ LastFrame' = LastFrame /\ Buffered' = Buffered
          /\ Following(chan, Delivered)' = Following(chan, Delivered)
          /\ Following(relay.todo, Delivered)' = Following(relay.todo, Delivered)
          /\ \A seq : Got(seq)' <=> Got(seq)
        BY <1>0, <2>2, Zenon DEF Delivered, Relaying, LastFrame, Buffered, Following, Got
    <2>4. RelayTypes' /\ FramesInOrder'
        BY <1>0, <1>1, <2>2, <2>3, Zenon DEF DeliveryInv, RelayTypes, FramesInOrder
    <2>5. relay.pc # "flush"
        BY Zenon, <1>0 DEF DeliveryInv, Position
    <2>6. Position'
        BY <1>0, <2>2, <2>3, <2>5, Zenon DEF DeliveryInv, Position
    <2>7. Ends'
        <3>1. client'.ends = << >> /\ relay.pc # "return" /\ relay.pc # "idle"
            BY Zenon, <2>1, <2>2 DEF DeliveryInv, Ends, Relaying
        <3>2. client'.ends # <<"result">>
            BY <3>1
        <3> QED
            BY <1>0, <1>1, <2>1, <2>2, <2>3, <3>1, <3>2, Zenon DEF DeliveryInv, Ends
    <2> QED
        BY <2>4, <2>6, <2>7, Zenon DEF DeliveryInv
<1> QED
    BY Zenon, <1>2, <1>3

\* One envelope: the place after all that is delivered is delivered.  The client has its
\* frame when the connection is up; the relay returns when it cannot be sent.
LEMMA EnvelopeFacts ==
    ASSUME DeliveryInv, Relaying, NEW todo \in Seq(Nat), Delivered + 1 <= Len(log), log' = log,
           RelayEnvelope(Delivered + 1, todo)
    PROVE  /\ relay' \in RelayType /\ conn' \in ConnType /\ client' \in ClientType
           /\ Delivered' = Delivered + 1 /\ relay'.loaded = relay.loaded
           /\ FramesInOrder' /\ LastFrame' <= Delivered + 1
           /\ client'.ends = << >> /\ client'.transport = client.transport
           /\ Buffered => client'.frames = client.frames
           /\ client.transport = "mcp" => ~ conn'.result
           /\ conn'.up => conn.up
           /\ conn'.sendErr \/ conn'.gone => ~ conn'.up
           /\ \/ relay'.pc = relay.pc /\ relay'.err = "none" /\ relay'.todo = todo
              \/ relay'.pc = "return" /\ relay'.err = "send" /\ ~ conn'.up
           /\ conn'.up /\ ~ Buffered =>
                 \A seq \in DOMAIN log : log[seq] = "frame" /\ seq <= Delivered + 1 => Got(seq)'
<1>t. /\ relay \in RelayType /\ conn \in ConnType /\ client \in ClientType /\ log \in Seq(Kinds)
      /\ Delivered \in Nat /\ relay.liveSeq \in Nat /\ relay.afterSeq \in Nat
      /\ LastFrame \in Nat /\ Len(log) \in Nat
    BY DeliveryNumbers, LastFrameBound, Zenon DEF DeliveryInv, RelayTypes
<1>e. /\ client.ends = << >> /\ relay.err = "none" /\ (client.transport = "mcp" => ~ conn.result)
      /\ conn.sendErr \/ conn.gone => ~ conn.up
      /\ LastFrame <= Delivered
      /\ conn.up /\ ~ Buffered => \A seq \in DOMAIN log : log[seq] = "frame" /\ seq <= Delivered => Got(seq)
    BY Zenon DEF DeliveryInv, Ends, Position
<1>d. /\ Delivered + 1 \in DOMAIN log /\ Delivered + 1 \in Nat /\ LastFrame < Delivered + 1
      /\ DOMAIN log \subseteq Nat
    BY <1>t, <1>e
<1>k. \A seq \in Nat : seq <= Delivered + 1 <=> seq <= Delivered \/ seq = Delivered + 1
    BY <1>t
<1>a. Advance(Delivered + 1) = Delivered + 1
    BY <1>t DEF Advance, Delivered
<1>v. ASSUME relay'.liveSeq = Delivered + 1, relay'.afterSeq = relay.afterSeq PROVE Delivered' = Delivered + 1
    BY <1>v, <1>t DEF Delivered
<1>1. CASE log[Delivered + 1] = "quiet"
    <2>1. relay' = [relay EXCEPT !.liveSeq = Delivered + 1, !.todo = todo] /\ UNCHANGED <<conn, client>>
        BY Zenon, <1>1, <1>a DEF RelayEnvelope
    <2>2. /\ relay' \in RelayType /\ relay'.liveSeq = Delivered + 1 /\ relay'.afterSeq = relay.afterSeq
          /\ relay'.loaded = relay.loaded /\ relay'.pc = relay.pc /\ relay'.err = "none" /\ relay'.todo = todo
        BY <1>t, <1>e, <1>d, <2>1, Zenon DEF RelayType
    <2>3. FramesInOrder' /\ LastFrame' = LastFrame /\ \A seq : Got(seq)' <=> Got(seq)
        BY <2>1, Zenon DEF DeliveryInv, FramesInOrder, LastFrame, Got
    <2>4. LastFrame' <= Delivered + 1
        BY <1>t, <1>e, <2>3
    <2>5. log[Delivered + 1] # "frame"
        BY Zenon, <1>1
    <2>6. conn'.up /\ ~ Buffered =>
             \A seq \in DOMAIN log : log[seq] = "frame" /\ seq <= Delivered + 1 => Got(seq)'
        BY <1>d, <1>e, <1>k, <2>1, <2>3, <2>5, Zenon
    <2> QED
        BY <1>t, <1>e, <1>v, <2>1, <2>2, <2>3, <2>4, <2>6, Zenon
<1>2. CASE log[Delivered + 1] = "frame" /\ SendOk("frame", Delivered + 1)
           /\ relay' = [relay EXCEPT !.liveSeq = Advance(Delivered + 1), !.todo = todo]
    <2>1. relay' = [relay EXCEPT !.liveSeq = Delivered + 1, !.todo = todo]
        BY <1>2, <1>a, Zenon
    <2>2. /\ relay' \in RelayType /\ relay'.liveSeq = Delivered + 1 /\ relay'.afterSeq = relay.afterSeq
          /\ relay'.loaded = relay.loaded /\ relay'.pc = relay.pc /\ relay'.err = "none" /\ relay'.todo = todo
        BY <1>t, <1>e, <1>d, <2>1, Zenon DEF RelayType
    <2>3. /\ conn' \in ConnType /\ client' \in ClientType
          /\ conn'.up = conn.up /\ conn'.gone = conn.gone /\ conn'.sendErr = conn.sendErr
          /\ client'.transport = client.transport
          /\ client.transport = "mcp" => ~ conn'.result
          /\ ~ (conn.up /\ ~ Buffered) => client' = client
          /\ conn.up /\ ~ Buffered =>
                client'.frames = Append(client.frames, Delivered + 1) /\ client'.ends = << >>
        <3>1. RelayTypes
            BY Zenon DEF DeliveryInv
        <3> QED
            BY <1>2, <1>e, <1>d, <3>1, SendFacts, Zenon
    <2>4. CASE conn.up /\ ~ Buffered
        <3>1. \A x \in DOMAIN log : log[x] = "frame" /\ x < Delivered + 1 => Got(x)
            <4>1. \A x \in DOMAIN log : x < Delivered + 1 => x <= Delivered
                BY <1>t, <1>d
            <4> QED
                BY <1>e, <2>4, <4>1, Zenon
        <3>2. /\ FramesInOrder' /\ LastFrame' = Delivered + 1
              /\ \E i \in DOMAIN client'.frames : client'.frames[i] = Delivered + 1
              /\ \A x : Got(x) => Got(x)'
            <4>1. RelayTypes /\ FramesInOrder
                BY Zenon DEF DeliveryInv
            <4>2. PICK n : n = Delivered + 1
                BY Zenon
            <4>3. /\ n \in DOMAIN log /\ log[n] = "frame" /\ LastFrame < n /\ client'.frames = Append(client.frames, n)
                  /\ \A x \in DOMAIN log : log[x] = "frame" /\ x < n => Got(x)
                BY <1>2, <1>d, <2>3, <2>4, <3>1, <4>2, Zenon
            <4>4. FramesInOrder' /\ LastFrame' = n /\ (\E i \in DOMAIN client'.frames : client'.frames[i] = n)
                  /\ \A x : Got(x) => Got(x)'
                BY <4>1, <4>3, FrameAppended, Zenon DEF Got
            <4> QED
                BY <4>2, <4>4, Zenon
        <3>3. \A seq \in DOMAIN log : log[seq] = "frame" /\ seq <= Delivered + 1 => Got(seq)'
            <4> SUFFICES ASSUME NEW seq \in DOMAIN log, log[seq] = "frame", seq <= Delivered + 1
                         PROVE  Got(seq)'
                BY Zenon
            <4>1. CASE seq <= Delivered
                BY <1>e, <2>4, <3>2, <4>1, Zenon
            <4>2. CASE seq = Delivered + 1
                BY <3>2, <4>2, Zenon DEF Got
            <4> QED
                BY <1>d, <1>k, <4>1, <4>2, Zenon
        <3>4. LastFrame' <= Delivered + 1
            BY <1>t, <3>2
        <3> QED
            BY <1>e, <1>v, <2>2, <2>3, <2>4, <3>2, <3>3, <3>4, Zenon
    <2>5. CASE ~ (conn.up /\ ~ Buffered)
        <3>1. client' = client
            BY <2>3, <2>5, Zenon
        <3>2. FramesInOrder' /\ LastFrame' = LastFrame
            BY <3>1, Zenon DEF DeliveryInv, FramesInOrder, LastFrame, Got
        <3>3. LastFrame' <= Delivered + 1
            BY <1>t, <1>e, <3>2
        <3> QED
            BY <1>e, <1>t, <1>v, <2>2, <2>3, <2>5, <3>1, <3>2, <3>3, Zenon
    <2> QED
        BY Zenon, <2>4, <2>5
<1>3. CASE log[Delivered + 1] = "frame" /\ SendFails
           /\ relay' = [relay EXCEPT !.liveSeq = Advance(Delivered + 1), !.pc = "return", !.err = "send"]
    <2>1. relay' = [relay EXCEPT !.liveSeq = Delivered + 1, !.pc = "return", !.err = "send"]
        BY <1>3, <1>a, Zenon
    <2>2. /\ relay' \in RelayType /\ relay'.liveSeq = Delivered + 1 /\ relay'.afterSeq = relay.afterSeq
          /\ relay'.loaded = relay.loaded /\ relay'.pc = "return" /\ relay'.err = "send"
        BY <1>t, <1>d, <2>1, Zenon DEF RelayType
    <2>3. conn' \in ConnType /\ client' = client /\ ~ conn'.up /\ conn'.result = conn.result
        BY <1>3, SendFailsFacts, Zenon DEF DeliveryInv
    <2>4. FramesInOrder' /\ LastFrame' = LastFrame
        BY <2>3, Zenon DEF DeliveryInv, FramesInOrder, LastFrame, Got
    <2>5. LastFrame' <= Delivered + 1
        BY <1>t, <1>e, <2>4
    <2> QED
        BY <1>e, <1>t, <1>v, <2>2, <2>3, <2>4, <2>5, Zenon
<1> QED
    BY <1>1, <1>2, <1>3, Zenon DEF RelayEnvelope

\* The select loop takes the next event of the subscription.
LEMMA RelayEventInv ==
    ASSUME DeliveryInv, RelayEvent PROVE DeliveryInv'
<1>0. /\ UNCHANGED <<log, tail, loop>> /\ relay.pc = "select" /\ chan # << >> /\ chan' = Tail(chan)
      /\ RelayEnvelope(Head(chan), << >>)
    BY Zenon DEF RelayEvent
<1>1. /\ Delivered \in Nat /\ Len(log) \in Nat /\ chan \in Seq(Nat) /\ Following(chan, Delivered) /\ Relaying
      /\ tail.cursor \in Nat /\ Len(chan) \in Nat
    <2>1. Delivered \in Nat /\ Len(log) \in Nat /\ chan \in Seq(Nat) /\ tail.cursor \in Nat
        BY DeliveryNumbers, LastFrameBound, Zenon DEF DeliveryInv, RelayTypes
    <2>2. Following(chan, Delivered) /\ Relaying
        BY <1>0, Zenon DEF DeliveryInv, Position, Relaying
    <2> QED
        BY <2>1, <2>2
<1>2. /\ Head(chan) = Delivered + 1 /\ Delivered + 1 <= Len(log)
      /\ chan' \in Seq(Nat) /\ Len(chan') = Len(chan) - 1 /\ Following(chan', Delivered + 1)
    BY <1>0, <1>1, FollowingTail, Zenon
<1>n. << >> \in Seq(Nat) /\ RelayEnvelope(Delivered + 1, << >>)
    <2>1. << >> \in Seq(Nat)
        OBVIOUS
    <2> QED
        BY <1>0, <1>2, <2>1, Zenon
<1>3. /\ relay' \in RelayType /\ conn' \in ConnType /\ client' \in ClientType
      /\ Delivered' = Delivered + 1 /\ relay'.loaded = relay.loaded
      /\ FramesInOrder' /\ LastFrame' <= Delivered + 1
      /\ client'.ends = << >> /\ client'.transport = client.transport
      /\ Buffered => client'.frames = client.frames
      /\ client.transport = "mcp" => ~ conn'.result
      /\ conn'.sendErr \/ conn'.gone => ~ conn'.up
      /\ \/ relay'.pc = relay.pc /\ relay'.err = "none" /\ relay'.todo = << >>
         \/ relay'.pc = "return" /\ relay'.err = "send" /\ ~ conn'.up
      /\ conn'.up /\ ~ Buffered =>
            \A seq \in DOMAIN log : log[seq] = "frame" /\ seq <= Delivered + 1 => Got(seq)'
    BY <1>0, <1>1, <1>2, <1>n, EnvelopeFacts, Zenon
<1>4. RelayTypes'
    BY <1>0, <1>2, <1>3, Zenon DEF DeliveryInv, RelayTypes
<1>5. Position'
    <2>1. CASE relay'.pc = "return"
        BY Zenon, <2>1 DEF Position, Relaying
    <2>2. CASE relay'.pc = "select" /\ relay'.todo = << >>
        <3>1. Following(chan, Delivered)'
            BY <1>0, <1>2, <1>3, Zenon DEF Following
        <3>2. tail.pc # "closed" => /\ tail.cursor = Delivered + 1 + Len(chan')
                                    /\ tail.pc = "send" => tail.cursor < tail.hi /\ tail.hi <= Len(log)
            <4>1. tail.pc # "closed" => /\ tail.cursor = Delivered + Len(chan)
                                        /\ tail.pc = "send" => tail.cursor < tail.hi /\ tail.hi <= Len(log)
                BY <1>0, Zenon DEF DeliveryInv, Position
            <4>2. Delivered + Len(chan) = Delivered + 1 + Len(chan')
                BY <1>1, <1>2
            <4> QED
                BY <4>1, <4>2, Zenon
        <3>3. relay'.pc # "flush" /\ Buffered' = Buffered
            BY Zenon, <1>3, <2>2 DEF Buffered
        <3> QED
            BY <1>0, <1>2, <1>3, <2>2, <3>1, <3>2, <3>3, Zenon DEF Position
    <2> QED
        BY <1>0, <1>3, <2>1, <2>2, Zenon
<1>6. Ends'
    <2>1. Buffered' = Buffered /\ client'.ends # <<"result">> /\ relay'.pc # "idle"
        BY <1>0, <1>3 DEF Buffered
    <2>2. relay'.pc = "return" \/ relay'.err = "none"
        BY <1>3, Zenon
    <2>3. Relaying' => relay'.err = "none"
        BY Zenon, <2>2 DEF Relaying
    <2>4. relay'.pc = "return" => relay'.err # "none" /\ ~ conn'.up
        BY Zenon, <1>0, <1>3
    <2> QED
        BY <1>0, <1>3, <2>1, <2>3, <2>4, Zenon DEF DeliveryInv, Ends
<1> QED
    BY <1>3, <1>4, <1>5, <1>6, Zenon DEF DeliveryInv

\* The flush relays the loaded events, one after the other.
LEMMA RelayFlushInv ==
    ASSUME DeliveryInv, RelayFlush PROVE DeliveryInv'
<1>0. /\ UNCHANGED <<log, tail, chan, loop>> /\ relay.pc = "flush" /\ relay.todo # << >>
      /\ RelayEnvelope(Head(relay.todo), Tail(relay.todo))
    BY Zenon DEF RelayFlush
<1>1. /\ Delivered \in Nat /\ Len(log) \in Nat /\ relay.todo \in Seq(Nat) /\ Following(relay.todo, Delivered) /\ Relaying
      /\ loop.end \in Nat /\ Len(relay.todo) \in Nat
    <2>1. Delivered \in Nat /\ Len(log) \in Nat /\ relay.todo \in Seq(Nat) /\ loop.end \in Nat
        BY DeliveryNumbers, LastFrameBound, Zenon DEF DeliveryInv, RelayTypes
    <2>2. Following(relay.todo, Delivered) /\ Relaying
        BY <1>0, Zenon DEF DeliveryInv, Position, Relaying
    <2> QED
        BY <2>1, <2>2
<1>2. PICK rest : rest = Tail(relay.todo)
    BY Zenon
<1>n. /\ RelayEnvelope(Delivered + 1, rest) /\ Delivered + 1 <= Len(log)
      /\ rest \in Seq(Nat) /\ Len(rest) = Len(relay.todo) - 1 /\ Following(rest, Delivered + 1)
    BY <1>0, <1>1, <1>2, FollowingTail, Zenon
<1>3. /\ relay' \in RelayType /\ conn' \in ConnType /\ client' \in ClientType
      /\ Delivered' = Delivered + 1 /\ relay'.loaded = relay.loaded
      /\ FramesInOrder' /\ LastFrame' <= Delivered + 1
      /\ client'.ends = << >> /\ client'.transport = client.transport
      /\ Buffered => client'.frames = client.frames
      /\ client.transport = "mcp" => ~ conn'.result
      /\ conn'.sendErr \/ conn'.gone => ~ conn'.up
      /\ \/ relay'.pc = relay.pc /\ relay'.err = "none" /\ relay'.todo = rest
         \/ relay'.pc = "return" /\ relay'.err = "send" /\ ~ conn'.up
      /\ conn'.up /\ ~ Buffered =>
            \A seq \in DOMAIN log : log[seq] = "frame" /\ seq <= Delivered + 1 => Got(seq)'
    BY <1>0, <1>1, <1>n, EnvelopeFacts, Zenon
<1>4. RelayTypes'
    BY <1>0, <1>3, Zenon DEF DeliveryInv, RelayTypes
<1>5. Position'
    <2>1. CASE relay'.pc = "return"
        BY <2>1 DEF Position, Relaying
    <2>2. CASE relay'.pc = "flush" /\ relay'.todo = rest
        <3>1. Following(relay.todo, Delivered)'
            BY <1>0, <1>n, <1>3, <2>2, Zenon DEF Following
        <3>2. relay.loaded => loop.end <= Delivered + 1 + Len(rest)
            <4>1. relay.loaded => loop.end <= Delivered + Len(relay.todo)
                BY <1>0, Zenon DEF DeliveryInv, Position
            <4>2. Delivered + Len(relay.todo) = Delivered + 1 + Len(rest)
                <5>1. Delivered \in Nat /\ Len(relay.todo) \in Nat /\ Len(rest) = Len(relay.todo) - 1
                    BY <1>1, <1>n, Zenon
                <5>2. \A d, n \in Nat : d + n = d + 1 + (n - 1)
                    OBVIOUS
                <5> QED
                    BY <5>1, <5>2, Zenon
            <4> QED
                BY <4>1, <4>2, Zenon
        <3>3. /\ relay'.pc # "select" /\ relay'.pc # "await" /\ Buffered' = Buffered
              /\ relay'.pc \notin {"select", "await"}
            BY Zenon, <1>3, <2>2 DEF Buffered
        <3>4. loop.pc = "over"
            BY <1>0, Zenon DEF DeliveryInv, Position
        <3> QED
            BY <1>0, <1>n, <1>3, <2>2, <3>1, <3>2, <3>3, <3>4, Zenon DEF Position
    <2> QED
        BY <1>0, <1>3, <2>1, <2>2, Zenon
<1>6. Ends'
    <2>1. Buffered' = Buffered /\ client'.ends # <<"result">> /\ relay'.pc # "idle"
        BY <1>0, <1>3 DEF Buffered
    <2>2. relay'.pc = "return" \/ relay'.err = "none"
        BY <1>3, Zenon
    <2>3. Relaying' => relay'.err = "none"
        BY <2>2 DEF Relaying
    <2>4. relay'.pc = "return" => relay'.err # "none" /\ ~ conn'.up
        BY Zenon, <1>0, <1>3
    <2> QED
        BY <1>0, <1>3, <2>1, <2>3, <2>4, Zenon DEF DeliveryInv, Ends
<1> QED
    BY <1>3, <1>4, <1>5, <1>6, Zenon DEF DeliveryInv

\* The subscription is closed and the relay waits, or the client is gone and it returns.
LEMMA RelayStopsInv ==
    ASSUME DeliveryInv, RelayClosed \/ RelayCtxDone PROVE DeliveryInv'
<1>0. /\ UNCHANGED <<log, tail, chan, loop, conn, client>> /\ relay.pc = "select"
      /\ \/ relay' = [relay EXCEPT !.pc = "await"]
         \/ conn.gone /\ relay' = [relay EXCEPT !.pc = "return", !.err = "ctx"]
    BY Zenon DEF RelayClosed, RelayCtxDone
<1>1. /\ relay' \in RelayType /\ relay'.liveSeq = relay.liveSeq /\ relay'.afterSeq = relay.afterSeq
      /\ relay'.todo = relay.todo /\ relay'.loaded = relay.loaded
      /\ \/ relay'.pc = "await" /\ relay'.err = relay.err
         \/ relay'.pc = "return" /\ relay'.err = "ctx" /\ ~ conn.up
    <2>1. relay \in RelayType
        BY Zenon DEF DeliveryInv, RelayTypes
    <2>2. conn.gone => ~ conn.up
        BY Zenon DEF DeliveryInv, Ends
    <2> QED
        BY <1>0, <2>1, <2>2, Zenon DEF RelayType
<1>2. Delivered' = Delivered /\ LastFrame' = LastFrame /\ Buffered' = Buffered /\ Relaying
    BY <1>0, <1>1, Zenon DEF Delivered, LastFrame, Buffered, Relaying
<1>3. RelayTypes' /\ FramesInOrder'
    BY <1>0, <1>1, <1>2, Zenon DEF DeliveryInv, RelayTypes, FramesInOrder, Got
<1>k. /\ client.ends = << >> /\ client.ends # <<"result">> /\ relay.err = "none"
      /\ client.transport = "mcp" => ~ conn.result
    <2>1. client.ends = << >> /\ relay.err = "none" /\ (client.transport = "mcp" => ~ conn.result)
        BY <1>2, Zenon DEF DeliveryInv, Ends
    <2> QED
        BY <2>1
<1>4. CASE relay'.pc = "await"
    <2>1. /\ relay'.pc # "select" /\ relay'.pc # "flush" /\ relay'.pc # "return" /\ relay'.pc # "idle"
          /\ relay'.err = "none"
        BY Zenon, <1>1, <1>k, <1>4
    <2>2. Position'
        BY <1>0, <1>1, <1>2, <2>1, Zenon DEF DeliveryInv, Position, Got
    <2>3. Ends'
        BY <1>0, <1>2, <1>k, <2>1, Zenon DEF DeliveryInv, Ends
    <2> QED
        BY <1>3, <2>2, <2>3, Zenon DEF DeliveryInv
<1>5. CASE relay'.pc = "return"
    <2>1. relay'.err # "none" /\ ~ conn.up /\ ~ Relaying' /\ relay'.pc # "idle"
        BY Zenon, <1>1, <1>5 DEF Relaying
    <2>2. Position'
        BY Zenon, <1>5 DEF Position, Relaying
    <2>3. Ends'
        BY <1>0, <1>2, <1>k, <2>1, Zenon DEF DeliveryInv, Ends
    <2> QED
        BY <1>3, <2>2, <2>3, Zenon DEF DeliveryInv
<1> QED
    BY <1>1, <1>4, <1>5, Zenon

\* The load of the flush gives the places after all that is delivered, up to the head.
LEMMA LoadedFollows ==
    ASSUME Delivered \in Nat, Len(log) \in Nat, Delivered <= Len(log)
    PROVE  /\ LoadedForFlush \in Seq(Nat) /\ Following(LoadedForFlush, Delivered)
           /\ Delivered + Len(LoadedForFlush) = Len(log)
<1>1. PICK d : d = Delivered
    BY Zenon
<1>2. PICK s : s = [i \in 1 .. Len(log) - d |-> d + i]
    BY Zenon
<1>3. LoadedForFlush = s
    BY Zenon, <1>1, <1>2 DEF LoadedForFlush, Delivered
<1>4. d \in Nat /\ Len(log) - d \in Nat
    BY <1>1
<1>5. s \in Seq(Nat) /\ Len(s) = Len(log) - d /\ DOMAIN s = 1..(Len(log) - d)
    BY <1>2, <1>4
<1>6. \A i \in DOMAIN s : s[i] = d + i
    BY <1>2, <1>5, Zenon
<1>7. d + Len(s) = Len(log) /\ d + Len(s) <= Len(log)
    BY <1>4, <1>5
<1> QED
    BY <1>1, <1>3, <1>5, <1>6, <1>7, Zenon DEF Following

\* The loop has ended, and the relay flushes or returns its error.
LEMMA RelayDoneInv ==
    ASSUME DeliveryInv, RelayDone PROVE DeliveryInv'
<1>0. /\ UNCHANGED <<log, tail, chan, loop, conn, client>> /\ relay.pc \in {"select", "await"} /\ loop.pc = "over"
      /\ \/ relay' = [relay EXCEPT !.pc = "flush", !.todo = LoadedForFlush]
         \/ relay' = [relay EXCEPT !.pc = "flush", !.loaded = FALSE]
         \/ relay' = [relay EXCEPT !.pc = "return", !.err = IF loop.out = "canceled" THEN "ctx" ELSE "loop"]
    BY Zenon DEF RelayDone
<1>t. /\ relay \in RelayType /\ Delivered \in Nat /\ Len(log) \in Nat /\ Delivered <= Len(log) /\ Relaying
      /\ relay.todo = << >> /\ loop.end <= Len(log) /\ relay.err = "none"
    <2>1. Relaying
        BY Zenon, <1>0 DEF Relaying
    <2> QED
        BY <1>0, <2>1, DeliveryNumbers, LastFrameBound, Zenon DEF DeliveryInv, RelayTypes, Position, Ends
<1>f. /\ LoadedForFlush \in Seq(Nat) /\ Following(LoadedForFlush, Delivered)
      /\ Delivered + Len(LoadedForFlush) = Len(log)
    BY <1>t, LoadedFollows, Zenon
<1>n. Following(<< >>, Delivered)
    BY <1>t DEF Following
<1>1. /\ relay' \in RelayType /\ relay'.liveSeq = relay.liveSeq /\ relay'.afterSeq = relay.afterSeq
      /\ \/ /\ relay'.pc = "flush" /\ relay'.err = "none"
            /\ \/ relay'.todo = LoadedForFlush
               \/ ~ relay'.loaded /\ relay'.todo = << >>
         \/ relay'.pc = "return" /\ relay'.err # "none"
    <2>1. CASE relay' = [relay EXCEPT !.pc = "flush", !.todo = LoadedForFlush]
        BY <1>t, <1>f, <2>1, Zenon DEF RelayType
    <2>2. CASE relay' = [relay EXCEPT !.pc = "flush", !.loaded = FALSE]
        BY <1>t, <2>2, Zenon DEF RelayType
    <2>3. CASE relay' = [relay EXCEPT !.pc = "return", !.err = IF loop.out = "canceled" THEN "ctx" ELSE "loop"]
        <3>1. PICK e \in {"ctx", "loop"} : relay' = [relay EXCEPT !.pc = "return", !.err = e]
            BY <2>3, Zenon
        <3> QED
            BY <1>t, <3>1, Zenon DEF RelayType
    <2> QED
        BY Zenon, <1>0, <2>1, <2>2, <2>3
<1>2. Delivered' = Delivered /\ LastFrame' = LastFrame /\ Buffered' = Buffered
    BY <1>0, <1>1, Zenon DEF Delivered, LastFrame, Buffered
<1>3. RelayTypes' /\ FramesInOrder'
    BY <1>0, <1>1, <1>2, Zenon DEF DeliveryInv, RelayTypes, FramesInOrder, Got
<1>k. /\ client.ends = << >> /\ client.ends # <<"result">>
      /\ client.transport = "mcp" => ~ conn.result
    <2>1. client.ends = << >> /\ (client.transport = "mcp" => ~ conn.result)
        BY <1>t, Zenon DEF DeliveryInv, Ends
    <2> QED
        BY <2>1
<1>4. CASE relay'.pc = "flush" /\ relay'.err = "none"
    <2>1. /\ relay'.pc # "select" /\ relay'.pc # "return" /\ relay'.pc # "idle" /\ relay'.pc # "await"
          /\ relay'.pc \notin {"select", "await"}
        BY Zenon, <1>4
    <2>2. Following(relay'.todo, Delivered) /\ (relay'.loaded => loop.end <= Delivered + Len(relay'.todo))
        BY <1>1, <1>t, <1>f, <1>n, <2>1, Zenon
    <2>3. Following(relay.todo, Delivered)'
        BY <1>0, <1>2, <2>2, Zenon DEF Following
    <2>4. Position'
        BY <1>0, <1>t, <1>2, <2>1, <2>2, <2>3, ZenonT(30) DEF DeliveryInv, Position, Got
    <2>5. Ends'
        BY <1>0, <1>2, <1>4, <1>k, <2>1, Zenon DEF DeliveryInv, Ends
    <2> QED
        BY <1>3, <2>4, <2>5, Zenon DEF DeliveryInv
<1>5. CASE relay'.pc = "return" /\ relay'.err # "none"
    <2>1. ~ Relaying' /\ relay'.pc # "idle"
        BY Zenon, <1>5 DEF Relaying
    <2>2. Position'
        BY Zenon, <1>5 DEF Position, Relaying
    <2>3. client.ends \in {<< >>, <<"result">>}
        BY Zenon, <1>k
    <2>4. Ends'
        BY <1>0, <1>2, <1>5, <1>k, <2>1, <2>3, Zenon DEF DeliveryInv, Ends
    <2> QED
        BY <1>3, <2>2, <2>4, Zenon DEF DeliveryInv
<1> QED
    BY <1>1, <1>4, <1>5, Zenon

\* Where no frame is received the frames stay in order.
LEMMA SameFrames ==
    ASSUME FramesInOrder, log' = log, client'.frames = client.frames
    PROVE  FramesInOrder' /\ \A seq : Got(seq)' <=> Got(seq)
<1>1. LastFrame' = LastFrame /\ \A seq : Got(seq)' <=> Got(seq)
    BY Zenon DEF LastFrame, Got
<1> QED
    BY <1>1, Zenon DEF FramesInOrder

\* The result comes after the flush: a client of a streaming call that gets it has every
\* frame up to the end of the loop (finishWithFlush).
LEMMA RelayResultInv ==
    ASSUME DeliveryInv, RelayResult PROVE DeliveryInv'
<1>0. /\ UNCHANGED <<log, tail, chan, loop>> /\ relay.pc = "flush" /\ relay.todo = << >>
      /\ \/ SendOk("result", relay.liveSeq) /\ relay' = [relay EXCEPT !.pc = "return"]
         \/ SendFails /\ relay' = [relay EXCEPT !.pc = "return", !.err = "send"]
    BY Zenon DEF RelayResult
<1>t. /\ relay \in RelayType /\ conn \in ConnType /\ client \in ClientType
      /\ relay.liveSeq \in Nat /\ Delivered \in Nat /\ loop.end \in Nat /\ Len(log) \in Nat /\ log \in Seq(Kinds)
    BY DeliveryNumbers, LastFrameBound, Zenon DEF DeliveryInv, RelayTypes
<1>k. /\ Relaying /\ relay.err = "none" /\ client.ends = << >> /\ (client.transport = "mcp" => ~ conn.result)
      /\ conn.sendErr \/ conn.gone => ~ conn.up
      /\ Buffered => client.frames = << >>
      /\ loop.pc = "over" /\ loop.end <= Len(log)
    <2>1. Relaying
        BY <1>0, Zenon DEF Relaying
    <2> QED
        BY <1>0, <2>1, Zenon DEF DeliveryInv, Ends, Position
<1>c. conn.up /\ ~ Buffered /\ relay.loaded =>
          \A seq \in DOMAIN log : log[seq] = "frame" /\ seq <= loop.end => Got(seq)
    <2>1. conn.up /\ ~ Buffered => \A seq \in DOMAIN log : log[seq] = "frame" /\ seq <= Delivered => Got(seq)
        BY <1>k, Zenon DEF DeliveryInv, Position
    <2>2. relay.loaded => loop.end <= Delivered
        <3>1. relay.loaded => loop.end <= Delivered + Len(<< >>)
            BY <1>0, Zenon DEF DeliveryInv, Position
        <3> QED
            BY <1>t, <3>1
    <2>3. relay.loaded => \A seq \in DOMAIN log : seq <= loop.end => seq <= Delivered
        BY <1>t, <2>2
    <2> QED
        BY <2>1, <2>3, Zenon
<1>1. CASE SendOk("result", relay.liveSeq) /\ relay' = [relay EXCEPT !.pc = "return"]
    <2>1. relay' \in RelayType /\ relay'.pc = "return" /\ relay'.err = "none" /\ relay'.loaded = relay.loaded
        BY <1>t, <1>k, <1>1, Zenon DEF RelayType
    <2>2. /\ conn' \in ConnType /\ client' \in ClientType
          /\ conn'.up = conn.up /\ conn'.gone = conn.gone /\ conn'.sendErr = conn.sendErr
          /\ client'.transport = client.transport
          /\ ~ (conn.up /\ ~ Buffered) => client' = client
          /\ conn.up /\ ~ Buffered => client'.frames = client.frames /\ client'.ends = <<"result">>
        <3>1. RelayTypes
            BY Zenon DEF DeliveryInv
        <3>2. "result" \in {"frame", "approval", "result"} /\ "result" # "frame"
            BY Zenon
        <3> QED
            BY <1>t, <1>k, <1>1, <3>1, <3>2, SendFacts, Zenon
    <2>3. client'.frames = client.frames /\ Buffered' = Buffered
        BY <2>2, Zenon DEF Buffered
    <2>4. RelayTypes' /\ FramesInOrder' /\ \A seq : Got(seq)' <=> Got(seq)
        <3>1. RelayTypes'
            BY <1>0, <2>1, <2>2, Zenon DEF DeliveryInv, RelayTypes
        <3> QED
            BY <1>0, <2>3, <3>1, SameFrames, Zenon DEF DeliveryInv
    <2>5. Position' /\ ~ Relaying' /\ relay'.pc # "idle"
        BY Zenon, <2>1 DEF Position, Relaying
    <2>6. client'.ends = <<"result">> => conn.up /\ ~ Buffered
        <3>1. client.ends # <<"result">>
            BY <1>k
        <3> QED
            BY <2>2, <3>1, Zenon
    <2>7. Ends'
        <3>1. client'.ends = <<"result">> /\ ~ Buffered =>
                /\ loop'.pc = "over"
                /\ relay'.loaded => \A seq \in DOMAIN log' : log'[seq] = "frame" /\ seq <= loop'.end => Got(seq)'
            BY <1>0, <1>k, <1>c, <2>1, <2>4, <2>6, Zenon
        <3>2. /\ Buffered => client'.ends = << >> /\ client'.frames = << >>
              /\ ~ Buffered => client'.ends \in {<< >>, <<"result">>}
              /\ conn'.up /\ ~ Buffered => client'.ends = <<"result">>
            BY <1>k, <2>2, <2>3, Zenon
        <3>3. (conn'.sendErr \/ conn'.gone => ~ conn'.up) /\ loop'.end <= Len(log')
            BY <1>0, <1>k, <2>2, Zenon
        <3> QED
            BY <2>1, <2>3, <2>5, <3>1, <3>2, <3>3, Zenon DEF Ends
    <2> QED
        BY <2>4, <2>5, <2>7, Zenon DEF DeliveryInv
<1>2. CASE SendFails /\ relay' = [relay EXCEPT !.pc = "return", !.err = "send"]
    <2>1. relay' \in RelayType /\ relay'.pc = "return" /\ relay'.err = "send"
        BY <1>t, <1>2, Zenon DEF RelayType
    <2>2. conn' \in ConnType /\ client' = client /\ ~ conn'.up /\ conn'.result = conn.result
        BY <1>2, <1>k, SendFailsFacts, Zenon DEF DeliveryInv
    <2>3. RelayTypes' /\ FramesInOrder' /\ Buffered' = Buffered
        BY <1>0, <2>1, <2>2, Zenon DEF DeliveryInv, RelayTypes, FramesInOrder, Got, LastFrame, Buffered
    <2>4. Position' /\ ~ Relaying' /\ relay'.pc # "idle" /\ relay'.err # "none"
        BY Zenon, <2>1 DEF Position, Relaying
    <2>5. client.ends # <<"result">>
        BY <1>k
    <2>6. Ends'
        BY <1>0, <1>k, <2>1, <2>2, <2>3, <2>4, <2>5, Zenon DEF Ends
    <2> QED
        BY <2>3, <2>4, <2>6, Zenon DEF DeliveryInv
<1> QED
    BY Zenon, <1>0, <1>1, <1>2

\* A call over a connection that held ends with the result or, in the way of its
\* transport, with an error (the handlers of the transports after Run returns).
LEMMA ReturnInv ==
    ASSUME DeliveryInv, Return PROVE DeliveryInv'
<1>0. /\ UNCHANGED <<log, tail, loop, conn>> /\ relay.pc = "return" /\ chan' = << >>
      /\ relay' = [relay EXCEPT !.pc = "idle"]
      /\ client' = IF conn.up THEN [client EXCEPT !.ends = client.ends \o EndOfCall] ELSE client
    BY Zenon DEF Return
<1>t. /\ relay \in RelayType /\ conn \in ConnType /\ client \in ClientType
      /\ client.transport \in {"grpc", "rest", "mcp", "mcp_buffered"}
    <2>1. relay \in RelayType /\ conn \in ConnType /\ client \in ClientType
        BY Zenon DEF DeliveryInv, RelayTypes
    <2>2. client.transport \in Transports
        BY <2>1, Zenon DEF ClientType
    <2> QED
        BY <2>1, <2>2, RelayAssumption, Zenon
<1>k. /\ conn.sendErr \/ conn.gone => ~ conn.up
      /\ Buffered => client.frames = << >> /\ client.ends = << >>
      /\ ~ Buffered => client.ends \in {<< >>, <<"result">>}
      /\ conn.up /\ ~ Buffered => (relay.err = "none" <=> client.ends = <<"result">>)
      /\ client.transport = "mcp" /\ relay.err # "none" => ~ conn.result
      /\ client.ends = <<"result">> /\ ~ Buffered =>
            /\ loop.pc = "over"
            /\ relay.loaded => \A seq \in DOMAIN log : log[seq] = "frame" /\ seq <= loop.end => Got(seq)
      /\ loop.end <= Len(log)
    BY <1>0, Zenon DEF DeliveryInv, Ends
<1>1. relay' \in RelayType /\ relay'.pc = "idle" /\ relay'.loaded = relay.loaded
    BY <1>0, <1>t, Zenon DEF RelayType
<1>2. ASSUME conn.up
      PROVE  /\ client.ends \o EndOfCall \in {<<"result">>, <<"error">>}
             /\ ~ Buffered /\ client.ends \o EndOfCall = <<"result">> => client.ends = <<"result">>
    <2>0. /\ << >> \o <<"error">> = <<"error">> /\ << >> \o <<"result">> = <<"result">>
          /\ <<"result">> \o << >> = <<"result">> /\ <<"error">> # <<"result">> /\ << >> # <<"result">>
        OBVIOUS
    <2>1. CASE client.transport = "mcp_buffered"
        <3>1. Buffered
            BY <2>1, Zenon DEF Buffered
        <3>2. EndOfCall = BufferedEnd
            BY <2>1, Zenon DEF EndOfCall
        <3>3. BufferedEnd \in {<<"result">>, <<"error">>}
            BY Zenon DEF BufferedEnd
        <3>4. client.ends = << >>
            BY <1>k, <3>1, Zenon
        <3> QED
            BY <2>0, <3>1, <3>2, <3>3, <3>4, Zenon
    <2>2. CASE client.transport # "mcp_buffered"
        <3>1. ~ Buffered /\ ~ conn.gone /\ ~ conn.sendErr
            BY <1>2, <1>k, <2>2, Zenon DEF Buffered
        <3>2. EndOfCall = IF relay.err # "none" THEN <<"error">> ELSE << >>
            <4>1. CASE client.transport = "mcp"
                <5>1. EndOfCall = McpEnd
                    BY <2>2, <4>1, Zenon DEF EndOfCall
                <5> QED
                    BY <1>k, <3>1, <4>1, <5>1, Zenon DEF McpEnd
            <4>2. CASE client.transport = "rest"
                <5>1. EndOfCall = RestEnd
                    BY Zenon, <2>2, <4>2 DEF EndOfCall
                <5> QED
                    BY <3>1, <5>1, Zenon DEF RestEnd
            <4>3. CASE client.transport = "grpc"
                BY Zenon, <4>3 DEF EndOfCall
            <4> QED
                BY <1>t, <2>2, <4>1, <4>2, <4>3, Zenon
        <3>3. client.ends = <<"result">> \/ (client.ends = << >> /\ relay.err # "none")
            BY <1>2, <1>k, <3>1, Zenon
        <3>4. client.ends = <<"result">> => relay.err = "none"
            BY <1>2, <1>k, <3>1, Zenon
        <3>5. CASE client.ends = <<"result">>
            <4>1. EndOfCall = << >>
                BY <3>2, <3>4, <3>5, Zenon
            <4> QED
                BY <2>0, <3>5, <4>1, Zenon
        <3>6. CASE client.ends = << >> /\ relay.err # "none"
            <4>1. EndOfCall = <<"error">>
                BY <3>2, <3>6, Zenon
            <4> QED
                BY <2>0, <3>6, <4>1, Zenon
        <3> QED
            BY <3>3, <3>5, <3>6, Zenon
    <2> QED
        BY Zenon, <2>1, <2>2
<1>3. /\ client' \in ClientType /\ client'.frames = client.frames /\ client'.transport = client.transport
      /\ conn.up => client'.ends # << >>
      /\ client'.ends = <<"result">> /\ ~ Buffered => client.ends = <<"result">>
    <2>1. CASE conn.up
        <3>1. PICK e \in {<<"result">>, <<"error">>} : e = client.ends \o EndOfCall
            BY <1>2, <2>1, Zenon
        <3>2. client' = [client EXCEPT !.ends = e]
            BY <1>0, <2>1, <3>1, Zenon
        <3>3. e # << >>
            <4>1. <<"result">> # << >> /\ <<"error">> # << >>
                BY Zenon
            <4> QED
                BY <4>1, Zenon
        <3>4. /\ client' \in ClientType /\ client'.frames = client.frames
              /\ client'.transport = client.transport /\ client'.ends = e
            BY <1>t, <3>2, Zenon DEF ClientType
        <3> QED
            BY <1>2, <2>1, <3>1, <3>3, <3>4, Zenon
    <2>2. CASE ~ conn.up
        BY <1>0, <1>t, <2>2, Zenon
    <2> QED
        BY Zenon, <2>1, <2>2
<1>4. Buffered' = Buffered /\ LastFrame' = LastFrame
    BY <1>3, Zenon DEF Buffered, LastFrame
<1>5. << >> \in Seq(Nat)
    OBVIOUS
<1>6. RelayTypes' /\ FramesInOrder' /\ \A seq : Got(seq)' <=> Got(seq)
    <2>1. RelayTypes'
        BY <1>0, <1>1, <1>3, <1>5, Zenon DEF DeliveryInv, RelayTypes
    <2> QED
        BY <1>0, <1>3, <2>1, SameFrames, Zenon DEF DeliveryInv
<1>7. Position' /\ ~ Relaying' /\ relay'.pc # "return"
    BY Zenon, <1>1 DEF Position, Relaying
<1>8. Ends'
    <2>1. client'.ends = <<"result">> /\ ~ Buffered =>
            /\ loop'.pc = "over"
            /\ relay'.loaded => \A seq \in DOMAIN log' : log'[seq] = "frame" /\ seq <= loop'.end => Got(seq)'
        BY <1>0, <1>k, <1>1, <1>3, <1>6, Zenon
    <2>2. Buffered => client'.frames = << >>
        BY <1>k, <1>3, Zenon
    <2>3. (conn'.sendErr \/ conn'.gone => ~ conn'.up) /\ loop'.end <= Len(log') /\ (conn'.up => client'.ends # << >>)
        BY <1>0, <1>k, <1>3, Zenon
    <2> QED
        BY <1>4, <1>7, <2>1, <2>2, <2>3, Zenon DEF Ends
<1> QED
    BY <1>6, <1>7, <1>8, Zenon DEF DeliveryInv

\* A call begins behind the last frame the client has, when the client resumes from its
\* last durable frame (afterSeq of relay.run).
LEMMA CallInv ==
    ASSUME LastEventID = FALSE, DeliveryInv, Call PROVE DeliveryInv'
<1>0. /\ log' = log /\ chan' = << >> /\ conn' = [NoConn EXCEPT !.up = TRUE]
      /\ client' = [client EXCEPT !.calls = client.calls + 1, !.ends = << >>]
      /\ \/ /\ relay' = [NoRelay EXCEPT !.pc = "select", !.afterSeq = ResumeCursor]
            /\ tail' = [NoTail EXCEPT !.pc = "drain", !.cursor = ResumeCursor]
            /\ loop' = [NoLoop EXCEPT !.pc = "run"]
         \/ /\ relay' = [NoRelay EXCEPT !.pc = "return", !.err = "loop"]
            /\ tail' = NoTail /\ loop' = NoLoop
    BY Zenon DEF Call
<1>r. ResumeCursor = LastFrame
    BY Zenon DEF ResumeCursor, LastFrame
<1>t. /\ client \in ClientType /\ client.calls + 1 \in Nat /\ LastFrame \in Nat /\ Len(log) \in Nat
      /\ LastFrame <= Len(log) /\ 0 \in Nat /\ << >> \in Seq(Nat) /\ log \in Seq(Kinds)
    <2>1. client \in ClientType /\ client.calls \in Nat /\ log \in Seq(Kinds)
        BY DeliveryNumbers, Zenon DEF DeliveryInv, RelayTypes
    <2>2. LastFrame \in Nat /\ Len(log) \in Nat /\ LastFrame <= Len(log)
        BY LastFrameBound, Zenon DEF DeliveryInv
    <2>3. client.calls + 1 \in Nat /\ 0 \in Nat /\ << >> \in Seq(Nat)
        BY <2>1
    <2> QED
        BY Zenon, <2>1, <2>2, <2>3
<1>1. /\ conn' \in ConnType /\ conn'.up /\ ~ conn'.gone /\ ~ conn'.sendErr /\ ~ conn'.result
    BY <1>0, Zenon DEF ConnType, NoConn
<1>2. /\ client' \in ClientType /\ client'.frames = client.frames /\ client'.transport = client.transport
      /\ client'.ends = << >>
    BY <1>0, <1>t, Zenon DEF ClientType
<1>3. FramesInOrder' /\ (\A seq : Got(seq)' <=> Got(seq)) /\ LastFrame' = LastFrame /\ Buffered' = Buffered
    <2>1. LastFrame' = LastFrame /\ Buffered' = Buffered
        BY <1>2, Zenon DEF LastFrame, Buffered
    <2>2. FramesInOrder
        BY Zenon DEF DeliveryInv
    <2> QED
        BY <1>0, <1>2, <2>1, <2>2, SameFrames, Zenon
<1>b. client'.ends # <<"result">> /\ (Buffered => client.frames = << >>)
    <2>1. Buffered => client.frames = << >>
        BY Zenon DEF DeliveryInv, Ends
    <2> QED
        BY <1>2, <2>1
<1>4. CASE /\ relay' = [NoRelay EXCEPT !.pc = "select", !.afterSeq = ResumeCursor]
           /\ tail' = [NoTail EXCEPT !.pc = "drain", !.cursor = ResumeCursor]
           /\ loop' = [NoLoop EXCEPT !.pc = "run"]
    <2>1. /\ relay' \in RelayType /\ relay'.pc = "select" /\ relay'.afterSeq = LastFrame /\ relay'.liveSeq = 0
          /\ relay'.todo = << >> /\ relay'.err = "none"
        BY <1>4, <1>r, <1>t, Zenon DEF RelayType, NoRelay
    <2>2. tail' \in TailType /\ tail'.pc = "drain" /\ tail'.cursor = LastFrame
        BY <1>4, <1>r, <1>t, Zenon DEF TailType, NoTail
    <2>3. loop' \in LoopType /\ loop'.end = 0
        BY <1>4, <1>t, Zenon DEF LoopType, NoLoop
    <2>4. RelayTypes'
        BY <1>0, <1>1, <1>2, <1>t, <2>1, <2>2, <2>3, ZenonT(30) DEF RelayTypes
    <2>5. Delivered' = LastFrame
        BY <1>t, <2>1 DEF Delivered
    <2>6. Following(chan, Delivered)'
        <3>1. Following(<< >>, LastFrame)
            BY <1>t DEF Following
        <3> QED
            BY <1>0, <2>5, <3>1, Zenon DEF Following
    <2>7. /\ relay'.pc # "flush" /\ relay'.pc # "return" /\ relay'.pc # "idle" /\ tail'.pc # "send"
          /\ LastFrame <= LastFrame /\ LastFrame = LastFrame + Len(<< >>)
        BY <1>t, <2>1, <2>2
    <2>8. Position'
        <3>1. \A seq \in DOMAIN log' : log'[seq] = "frame" /\ seq <= LastFrame => Got(seq)'
            BY <1>0, <1>3, Zenon DEF DeliveryInv, FramesInOrder
        <3> QED
            BY <1>0, <1>3, <1>t, <2>1, <2>2, <2>5, <2>6, <2>7, <3>1, ZenonT(30) DEF Position
    <2>9. Ends'
        <3>1. 0 <= Len(log)
            BY <1>t
        <3> QED
            BY <1>0, <1>1, <1>2, <1>3, <1>b, <2>1, <2>3, <2>7, <3>1, ZenonT(30) DEF Ends
    <2> QED
        BY <1>3, <2>4, <2>8, <2>9, Zenon DEF DeliveryInv
<1>5. CASE /\ relay' = [NoRelay EXCEPT !.pc = "return", !.err = "loop"]
           /\ tail' = NoTail /\ loop' = NoLoop
    <2>1. relay' \in RelayType /\ relay'.pc = "return" /\ relay'.err = "loop"
        BY <1>5, <1>t, Zenon DEF RelayType, NoRelay
    <2>2. tail' \in TailType /\ loop' \in LoopType /\ loop'.end = 0
        BY <1>5, <1>t, Zenon DEF TailType, NoTail, LoopType, NoLoop
    <2>3. RelayTypes'
        BY <1>0, <1>1, <1>2, <1>t, <2>1, <2>2, Zenon DEF RelayTypes
    <2>4. Position' /\ ~ Relaying' /\ relay'.pc # "idle" /\ relay'.err # "none"
        BY Zenon, <2>1 DEF Position, Relaying
    <2>5. Ends'
        <3>1. 0 <= Len(log)
            BY <1>t
        <3> QED
            BY <1>0, <1>1, <1>2, <1>3, <1>b, <2>1, <2>2, <2>4, <3>1, ZenonT(30) DEF Ends
    <2> QED
        BY <1>3, <2>3, <2>4, <2>5, Zenon DEF DeliveryInv
<1> QED
    BY Zenon, <1>0, <1>4, <1>5

\* Every step of the delivery keeps the invariant.
LEMMA DeliveryStep ==
    ASSUME LastEventID = FALSE, DeliveryInv, [RelayNext]_relayVars PROVE DeliveryInv'
<1>1. CASE TailStep
    BY <1>1, TailStepInv, Zenon
<1>2. CASE RelayStep
    BY <1>2, RelayEventInv, RelayStopsInv, RelayDoneInv, RelayFlushInv, RelayResultInv, ReturnInv, Zenon DEF RelayStep
<1>3. CASE \E kind \in Kinds : Commit(kind)
    BY <1>3, CommitInv, Zenon
<1>4. CASE \/ LoopAsk \/ LoopAskHead \/ LoopAnswered \/ Interrupt
           \/ \E out \in {"ok", "error", "canceled"} : LoopEnd(out)
    BY <1>4, LoopQuietInv, Zenon
<1>5. CASE LoopAskSend
    BY <1>5, LoopAskSendInv, Zenon
<1>6. CASE Call
    BY <1>6, CallInv, Zenon
<1>7. CASE ConnectionLost \/ ContextDone
    BY <1>7, ConnectionInv, Zenon
<1>8. CASE UNCHANGED relayVars
    <2>1. UNCHANGED <<log, tail, chan, relay, loop, conn, client>>
        BY <1>8, Zenon DEF relayVars
    <2>2. /\ Delivered' = Delivered /\ LastFrame' = LastFrame /\ Buffered' = Buffered /\ Relaying' = Relaying
          /\ Following(chan, Delivered)' = Following(chan, Delivered)
          /\ Following(relay.todo, Delivered)' = Following(relay.todo, Delivered)
        BY <2>1, Zenon DEF Delivered, LastFrame, Buffered, Relaying, Following
    <2>3. RelayTypes' /\ FramesInOrder' /\ \A seq : Got(seq)' <=> Got(seq)
        BY <2>1, SameFrames, Zenon DEF DeliveryInv, RelayTypes
    <2>4. Position'
        BY <2>1, <2>2, <2>3, Zenon DEF DeliveryInv, Position
    <2>5. Ends'
        BY <2>1, <2>2, <2>3, Zenon DEF DeliveryInv, Ends
    <2> QED
        BY <2>3, <2>4, <2>5, Zenon DEF DeliveryInv
<1> QED
    BY <1>1, <1>2, <1>3, <1>4, <1>5, <1>6, <1>7, <1>8, Zenon DEF RelayNext

\* The invariant says what the client is promised.
LEMMA DeliveryInvExact ==
    ASSUME DeliveryInv PROVE DeliveryIsExact
<1>t. /\ client.frames \in Seq(Nat) /\ log \in Seq(Kinds) /\ Len(log) \in Nat /\ DOMAIN log = 1..Len(log)
      /\ loop.end \in Nat /\ loop.end <= Len(log) /\ client.ends \in {<< >>, <<"result">>, <<"error">>}
      /\ LastFrame \in Nat /\ LastFrame <= Len(log)
      /\ \A i \in DOMAIN client.frames : client.frames[i] \in Nat /\ client.frames[i] <= LastFrame
    <2>1. client.frames \in Seq(Nat) /\ log \in Seq(Kinds) /\ loop.end \in Nat /\ loop.end <= Len(log)
          /\ client.ends \in {<< >>, <<"result">>, <<"error">>}
        BY DeliveryNumbers, Zenon DEF DeliveryInv, RelayTypes, Ends
    <2>2. /\ LastFrame \in Nat /\ LastFrame <= Len(log)
          /\ \A i \in DOMAIN client.frames : client.frames[i] \in Nat /\ client.frames[i] <= LastFrame
        BY LastFrameBound, Zenon DEF DeliveryInv
    <2> QED
        BY <2>1, <2>2
<1>v. ASSUME NEW n \in Nat, n <= Len(log), NEW seq
      PROVE  seq \in Visible(n) <=> seq \in DOMAIN log /\ log[seq] = "frame" /\ seq <= n
    BY <1>t, <1>v DEF Visible
<1>1. FramesAreExact
    <2>1. \A i, j \in DOMAIN client.frames : i < j => client.frames[i] < client.frames[j]
        BY Zenon DEF DeliveryInv, FramesInOrder
    <2>2. ASSUME client.frames # << >>
          PROVE  {client.frames[i] : i \in DOMAIN client.frames} = Visible(client.frames[Len(client.frames)])
        <3>1. LastFrame = client.frames[Len(client.frames)]
            BY <2>2, Zenon DEF LastFrame
        <3>2. ASSUME NEW seq PROVE (\E i \in DOMAIN client.frames : client.frames[i] = seq) <=> seq \in Visible(LastFrame)
            BY <1>t, <1>v, Zenon DEF DeliveryInv, FramesInOrder, Got
        <3> QED
            BY <3>1, <3>2, Zenon
    <2> QED
        BY <2>1, <2>2, Zenon DEF FramesAreExact
<1>2. ResultComesLast
    <2> SUFFICES ASSUME client.ends = <<"result">>, ~ Buffered, relay.loaded, NEW seq \in Visible(loop.end)
                 PROVE  \E i \in DOMAIN client.frames : client.frames[i] = seq
        BY Zenon DEF ResultComesLast
    <2> QED
        BY <1>t, <1>v, Zenon DEF DeliveryInv, Ends, Got
<1>3. EndsOnce
    <2>0. /\ Len(<< >>) = 0 /\ Len(<<"result">>) = 1 /\ Len(<<"error">>) = 1 /\ 0 <= 1 /\ 1 <= 1
        OBVIOUS
    <2>1. Len(client.ends) <= 1
        BY <1>t, <2>0, Zenon
    <2>2. client.ends # << >> => Len(client.ends) = 1
        BY <1>t, <2>0, Zenon
    <2> QED
        BY <2>1, <2>2, Zenon DEF DeliveryInv, Ends, EndsOnce
<1> QED
    BY <1>1, <1>2, <1>3, Zenon DEF DeliveryIsExact

\* Over all its calls, whatever is lost or fails, a client that resumes from its last
\* durable frame receives the client-visible events of the session in order and each
\* once, has all of them before the result, and every call over a connection that held
\* ends with one answer (relay.run, finishWithFlush and the handlers of the transports).
THEOREM DeliveryStaysExact ==
    ASSUME LastEventID = FALSE PROVE RelaySpec => []DeliveryIsExact
<1>1. RelayInit => DeliveryInv
    BY Zenon, DeliveryInitInv
<1>2. DeliveryInv /\ [RelayNext]_relayVars => DeliveryInv'
    BY Zenon, DeliveryStep
<1>3. DeliveryInv => DeliveryIsExact
    BY Zenon, DeliveryInvExact
<1> QED
    BY <1>1, <1>2, <1>3, PTL DEF RelaySpec

-----------------------------------------------------------------------------
(***************************************************************************)
(* The client edge: one answer on every transport, tenants kept apart.     *)
(*                                                                         *)
(* A handler authorizes a session in one transaction and uses it in another. *)
(* EdgeInv says what lasts from the one to the other: the row a call has made, *)
(* or is to branch from, is there and belongs to the caller's tenant.      *)
(***************************************************************************)

\* The calls a caller may wait for, and the rows of sessions.
EdgeCalls ==
    [op : {"none"} \cup DOMAIN OpArgs, principal : Tenants \cup {NoTenant}, sid : EdgeSessions \cup {"none"},
     at : {"idle", "sent", "row"}]

EdgeRows == [tenant : Tenants \cup {NoTenant}, head : Nat]

\* The row that a call has made, or wants to branch from, is its caller's.
OwnsItsRow(c) ==
    request[c].at = "row" \/ (request[c].at = "sent" /\ request[c].op = "fork") =>
        /\ request[c].sid \in DOMAIN store
        /\ store[request[c].sid].tenant = request[c].principal

EdgeTypes ==
    /\ request \in [Callers -> EdgeCalls]
    /\ DOMAIN store \subseteq EdgeSessions
    /\ store \in [DOMAIN store -> EdgeRows]

\* What the checks of a call established holds until its store operation.
EdgeInv == EdgeTypes /\ (\A c \in Callers : OwnsItsRow(c)) /\ OpenedIsStarted

\* A step of a call, as the properties see it.
EdgeStep ==
    /\ \A s \in DOMAIN store : s \in DOMAIN store' /\ store'[s].tenant = store[s].tenant
    /\ \A c \in Callers :
         request'[c] # request[c] =>
           /\ \A s \in DOMAIN store' : s \notin DOMAIN store \/ store'[s] # store[s]
                                       => store'[s].tenant = request[c].principal
           /\ request[c].op = "fork" /\ store' # store =>
                store[request[c].sid].tenant = request[c].principal

\* The answers the checks of the server can give.
EdgeCodes == {"OK", "PermissionDenied", "InvalidArgument", "NotFound", "FailedPrecondition"}

\* The checks of a handler give one of these.
LEMMA ServerCodes ==
    ASSUME NEW p, NEW q
    PROVE  ServerChecks(p, q) \in EdgeCodes
<1>1. AuthorizeTenant(p, q.tenant) \in EdgeCodes /\ AuthorizeSession(p, q.sid) \in EdgeCodes
    BY Zenon DEF AuthorizeTenant, AuthorizeSession, EdgeCodes
<1>2. \A a \in EdgeCodes, b \in EdgeCodes : First(a, b) \in EdgeCodes
    BY Zenon DEF First
<1>3. GetChecks(p, q) \in EdgeCodes
    BY Zenon, <1>1, <1>2 DEF GetChecks
<1>4. CreateChecks(p, q) \in EdgeCodes /\ ListChecks(p, q) \in EdgeCodes
    BY Zenon, <1>1, <1>2 DEF CreateChecks, ListChecks, EdgeCodes
<1>5. ControlChecks(p, q) \in EdgeCodes
    BY Zenon, <1>2, <1>3 DEF ControlChecks, EdgeCodes
<1> QED
    BY Zenon, <1>3, <1>4, <1>5 DEF ServerChecks

\* REST and MCP turn each of these into the same HTTP status, and only success into 200
\* and no error (httpStatus of both facades, jsonRPCCode).
LEMMA StatusAgrees ==
    ASSUME NEW code \in EdgeCodes
    PROVE  /\ McpHttpStatus(code) = RestHttpStatus(code)
           /\ code = "OK" => RestHttpStatus(code) = 200
           /\ code # "OK" => RestHttpStatus(code) # 200 /\ JsonRpcCode(code) # ""
<1>1. CASE code = "OK"
    BY <1>1 DEF McpHttpStatus, RestHttpStatus
<1>2. CASE code # "OK"
    BY <1>2 DEF McpHttpStatus, RestHttpStatus, JsonRpcCode, EdgeCodes
<1> QED
    BY Zenon, <1>1, <1>2

\* A request that a facade refuses on its own, although it is well formed, is one that
\* the server refuses too.
LEMMA RefusedByBoth ==
    ASSUME EdgeInv, NEW q \in EdgeRequests, q.args # "malformed",
           ~(RestDecodes(q) /\ McpDecodes(q))
    PROVE  ServerChecks(q.principal, q) # "OK"
<1>1. q.args \in OpArgs[q.op] /\ q.op \in DOMAIN OpArgs
    BY Zenon DEF EdgeRequests
<1>2. \/ q.op = "control" /\ q.args = "noaction"
      \/ q.op \in {"get", "fork"} /\ q.sid = "none"
  <2>1. CASE q.op = "create"
    BY Zenon, <2>1 DEF RestDecodes, McpDecodes, RestCreates, McpCreates
  <2>2. CASE q.op = "control"
    BY Zenon, <2>2 DEF RestDecodes, McpDecodes, RestControls, McpControls
  <2>3. CASE q.op = "fork"
    <3>1. q.args # "noaction"
      BY <1>1, <2>3 DEF OpArgs
    <3> QED
      BY Zenon, <2>3, <3>1 DEF RestDecodes, McpDecodes, RestControls, McpControls
  <2>4. CASE q.op = "get"
    BY Zenon, <2>4 DEF RestDecodes, McpDecodes, RestReads, McpReads
  <2>5. CASE q.op = "list"
    BY Zenon, <2>5 DEF RestDecodes, McpDecodes, RestReads, McpReads
  <2>6. q.op \in {"create", "get", "list", "control", "fork"}
    BY Zenon, <1>1 DEF OpArgs
  <2> QED
    BY Zenon, <2>1, <2>2, <2>3, <2>4, <2>5, <2>6
<1>3. CASE q.op = "control" /\ q.args = "noaction"
    BY Zenon, <1>3 DEF ServerChecks, ControlChecks, First
<1>4. CASE q.op \in {"get", "fork"} /\ q.sid = "none"
  <2>1. "none" \notin VisibleRows(q.principal)
    BY Zenon, EdgeAssumption DEF VisibleRows, EdgeInv, EdgeTypes
  <2>2. AuthorizeSession(q.principal, q.sid) = "NotFound"
    BY Zenon, <1>4, <2>1 DEF AuthorizeSession
  <2>3. GetChecks(q.principal, q) # "OK"
    BY Zenon, <2>2 DEF GetChecks, First
  <2> QED
    BY Zenon, <1>4, <2>3 DEF ServerChecks
<1> QED
    BY Zenon, <1>2, <1>3, <1>4

\* Whatever the sessions and the calls under way, the two facades agree.
LEMMA FacadesAgree == EdgeInv => TransportsAgree
<1> SUFFICES ASSUME EdgeInv, NEW q \in EdgeRequests
             PROVE  LET code == ServerChecks(q.principal, q)
                        rest == RestAnswer(q, code)
                        mcp  == McpAnswer(q, code)
                    IN  /\ RestDecodes(q) /\ McpDecodes(q) =>
                             mcp.http = rest /\ (rest = 200) = (mcp.error = "")
                        /\ q.args # "malformed" /\ ~(RestDecodes(q) /\ McpDecodes(q)) => code # "OK"
    BY Zenon DEF TransportsAgree
<1> DEFINE code == ServerChecks(q.principal, q)
<1>1. ASSUME RestDecodes(q), McpDecodes(q)
      PROVE  LET rest == RestAnswer(q, code)
                 mcp  == McpAnswer(q, code)
             IN  mcp.http = rest /\ (rest = 200) = (mcp.error = "")
  <2>1. code \in EdgeCodes
    BY Zenon, ServerCodes
  <2> HIDE DEF code
  <2>2. /\ McpHttpStatus(code) = RestHttpStatus(code)
        /\ code = "OK" => RestHttpStatus(code) = 200
        /\ code # "OK" => RestHttpStatus(code) # 200 /\ JsonRpcCode(code) # ""
    BY Zenon, <2>1, StatusAgrees
  <2>3. RestAnswer(q, code) = RestHttpStatus(code)
    BY Zenon, <1>1 DEF RestAnswer
  <2>4. /\ McpAnswer(q, code).http = McpHttpStatus(code)
        /\ McpAnswer(q, code).error = IF code = "OK" THEN "" ELSE JsonRpcCode(code)
    BY Zenon, <1>1 DEF McpAnswer
  <2>5. CASE code = "OK"
    BY Zenon, <2>2, <2>3, <2>4, <2>5
  <2>6. CASE code # "OK"
    BY Zenon, <2>2, <2>3, <2>4, <2>6
  <2> QED
    BY Zenon, <2>5, <2>6
<1>2. q.args # "malformed" /\ ~(RestDecodes(q) /\ McpDecodes(q)) => code # "OK"
    BY Zenon, RefusedByBoth
<1> QED
    BY Zenon, <1>1, <1>2

\* A call that ends without a row keeps the invariant, and so does one that has passed
\* its checks: the session to branch from is one its tenant sees.
LEMMA AsksKeeps ==
    ASSUME EdgeInv, NEW c \in Callers, NEW q \in EdgeRequests, Asks(c, q)
    PROVE  EdgeInv' /\ EdgeStep
<1>1. /\ request' = [request EXCEPT ![c] =
                       [op |-> q.op, principal |-> q.principal, sid |-> q.sid, at |-> "sent"]]
      /\ store' = store /\ opened' = opened
    BY Zenon DEF Asks
<1> DEFINE call == [op |-> q.op, principal |-> q.principal, sid |-> q.sid, at |-> "sent"]
<1>2. q.op \in DOMAIN OpArgs /\ q.principal \in Tenants /\ q.sid \in EdgeSessions \cup {"none"}
    BY Zenon DEF EdgeRequests
<1>3. call \in EdgeCalls
    BY Zenon, <1>2 DEF EdgeCalls
<1>4. EdgeTypes'
    BY Zenon, <1>1, <1>3 DEF EdgeInv, EdgeTypes
<1>5. q.op = "fork" => q.sid \in DOMAIN store /\ store[q.sid].tenant = q.principal
  <2> SUFFICES ASSUME q.op = "fork"
               PROVE  q.sid \in VisibleRows(q.principal)
    BY Zenon DEF VisibleRows
  <2>1. ServerChecks(q.principal, q) = "OK"
    BY Zenon DEF Asks, Passes
  <2>2. GetChecks(q.principal, q) = "OK"
    BY Zenon, <2>1 DEF ServerChecks
  <2>3. AuthorizeSession(q.principal, q.sid) = "OK"
    BY Zenon, <2>2 DEF GetChecks, First
  <2> QED
    BY Zenon, <2>3 DEF AuthorizeSession
<1>6. ASSUME NEW d \in Callers PROVE OwnsItsRow(d)'
  <2>1. CASE d = c
    <3>1. request'[c] = call
      BY Zenon, <1>1 DEF EdgeInv, EdgeTypes
    <3> QED
      BY SMTT(30), <1>1, <1>5, <2>1, <3>1 DEF OwnsItsRow
  <2>2. CASE d # c
    <3>1. request'[d] = request[d]
      BY Zenon, <1>1, <2>2 DEF EdgeInv, EdgeTypes
    <3> QED
      BY Zenon, <1>1, <3>1 DEF OwnsItsRow, EdgeInv
  <2> QED
    BY Zenon, <2>1, <2>2
<1>7. OpenedIsStarted'
    BY Zenon, <1>1 DEF EdgeInv, OpenedIsStarted
<1>8. EdgeStep
    BY Zenon, <1>1 DEF EdgeStep
<1> QED
    BY Zenon, <1>4, <1>6, <1>7, <1>8 DEF EdgeInv

\* Rows that are added, or whose head is set, leave every row with its tenant and every
\* session that was answered started: the common part of the steps that answer a call.
LEMMA AnsweredKeeps ==
    ASSUME EdgeInv, NEW c \in Callers, NEW rows, NEW told, Answered(c, rows, told),
           DOMAIN store \subseteq DOMAIN rows, DOMAIN rows \subseteq EdgeSessions,
           rows \in [DOMAIN rows -> EdgeRows],
           \A s \in DOMAIN store : rows[s].tenant = store[s].tenant,
           \A s \in told : s \in DOMAIN rows /\ rows[s].head > 0
    PROVE  EdgeInv' /\ \A d \in Callers : d # c => request'[d] = request[d]
<1>1. request' = [request EXCEPT ![c] = Idle] /\ store' = rows /\ opened' = told
    BY Zenon DEF Answered
<1>2. Idle \in EdgeCalls
  <2>1. NoTenant \in Tenants \cup {NoTenant} /\ "none" \in EdgeSessions \cup {"none"}
    BY Zenon
  <2> QED
    BY <2>1, Zenon DEF Idle, EdgeCalls
<1>3. EdgeTypes'
    BY Zenon, <1>1, <1>2 DEF EdgeInv, EdgeTypes
<1>4. ASSUME NEW d \in Callers, d # c PROVE request'[d] = request[d]
    BY Zenon, <1>1, <1>4 DEF EdgeInv, EdgeTypes
<1>5. ASSUME NEW d \in Callers PROVE OwnsItsRow(d)'
  <2>1. CASE d = c
    <3>1. request'[c].at = "idle"
      BY Zenon, <1>1 DEF EdgeInv, EdgeTypes, Idle
    <3> QED
      BY Zenon, <2>1, <3>1 DEF OwnsItsRow
  <2>2. CASE d # c
    <3>1. request'[d] = request[d]
      BY Zenon, <1>4, <2>2
    <3>2. OwnsItsRow(d)
      BY Zenon DEF EdgeInv
    <3> QED
      BY Zenon, <1>1, <3>1, <3>2 DEF OwnsItsRow
  <2> QED
    BY Zenon, <2>1, <2>2
<1>6. OpenedIsStarted'
    BY Zenon, <1>1 DEF OpenedIsStarted
<1> QED
    BY Zenon, <1>3, <1>4, <1>5, <1>6 DEF EdgeInv

\* A call answered without a write changes no row.
LEMMA AnswersOnlyKeeps ==
    ASSUME EdgeInv, NEW c \in Callers, AnswersOnly(c)
    PROVE  EdgeInv' /\ EdgeStep
<1>1. Answered(c, store, opened)
    BY Zenon DEF AnswersOnly
<1>2. EdgeInv'
    BY Zenon, <1>1, AnsweredKeeps DEF EdgeInv, EdgeTypes, OpenedIsStarted
<1>3. store' = store
    BY Zenon, <1>1 DEF Answered
<1> QED
    BY Zenon, <1>2, <1>3 DEF EdgeStep

\* The rows with one more.
WithRow(s, t, n) ==
    [x \in DOMAIN store \cup {s} |-> IF x = s THEN [tenant |-> t, head |-> n] ELSE store[x]]

\* A fresh row beside the others.
LEMMA FreshRow ==
    ASSUME EdgeInv, NEW s \in EdgeSessions, s \notin DOMAIN store, NEW t \in Tenants \cup {NoTenant},
           NEW n \in Nat
    PROVE  /\ DOMAIN WithRow(s, t, n) = DOMAIN store \cup {s} /\ DOMAIN WithRow(s, t, n) \subseteq EdgeSessions
           /\ WithRow(s, t, n) \in [DOMAIN WithRow(s, t, n) -> EdgeRows]
           /\ WithRow(s, t, n)[s].tenant = t
           /\ \A x \in DOMAIN store : WithRow(s, t, n)[x] = store[x]
<1>0. PICK rows : rows = WithRow(s, t, n)
    BY Zenon
<1>1. [tenant |-> t, head |-> n] \in EdgeRows
    BY Zenon DEF EdgeRows
<1>2. DOMAIN rows = DOMAIN store \cup {s} /\ DOMAIN rows \subseteq EdgeSessions
    BY Zenon, <1>0 DEF WithRow, EdgeInv, EdgeTypes
<1>3. \A x \in DOMAIN store : store[x] \in EdgeRows
    BY Zenon DEF EdgeInv, EdgeTypes
<1>4. \A x \in DOMAIN store \cup {s} : rows[x] \in EdgeRows
    BY Zenon, <1>0, <1>1, <1>3 DEF WithRow
<1>5. rows \in [DOMAIN rows -> EdgeRows]
    BY Zenon, <1>0, <1>2, <1>4 DEF WithRow
<1>6. rows[s] = [tenant |-> t, head |-> n]
    BY ZenonT(30), <1>0 DEF WithRow
<1>7. rows[s].tenant = t
    BY <1>6
<1>8. \A x \in DOMAIN store : rows[x] = store[x]
    BY Zenon, <1>0 DEF WithRow
<1> QED
    BY Zenon, <1>0, <1>2, <1>5, <1>7, <1>8

\* The child of a fork is a row of the tenant whose session it branches from.
LEMMA ForkRowKeeps ==
    ASSUME EdgeInv, NEW c \in Callers, NEW s \in EdgeSessions, ForkRow(c, s)
    PROVE  EdgeInv' /\ EdgeStep
<1>1. s \notin DOMAIN store /\ request[c].at = "sent" /\ request[c].op = "fork"
    BY Zenon DEF ForkRow
<1>2. /\ request[c].sid \in DOMAIN store
      /\ store[request[c].sid].tenant = request[c].principal
    BY Zenon, <1>1 DEF EdgeInv, OwnsItsRow
<1>3. store[request[c].sid] \in EdgeRows /\ request[c] \in EdgeCalls
    BY Zenon, <1>2 DEF EdgeInv, EdgeTypes
<1>4. store[request[c].sid].head \in Nat /\ request[c].principal \in Tenants \cup {NoTenant}
    BY Zenon, <1>3 DEF EdgeRows, EdgeCalls
<1>5. PICK n \in 0..store[request[c].sid].head :
         Answered(c, WithRow(s, request[c].principal, n), opened)
    BY ZenonT(30) DEF ForkRow, WithRow
<1>6. n \in Nat
    BY <1>4, <1>5
<1>7. PICK rows : rows = WithRow(s, request[c].principal, n)
    BY Zenon
<1>8. /\ DOMAIN rows = DOMAIN store \cup {s} /\ DOMAIN rows \subseteq EdgeSessions
      /\ rows \in [DOMAIN rows -> EdgeRows]
      /\ rows[s].tenant = request[c].principal
      /\ \A x \in DOMAIN store : rows[x] = store[x]
  <2>1. request[c].principal \in Tenants \cup {NoTenant} /\ s \notin DOMAIN store /\ n \in Nat
    BY Zenon, <1>1, <1>4, <1>6
  <2>2. /\ DOMAIN WithRow(s, request[c].principal, n) = DOMAIN store \cup {s}
        /\ DOMAIN WithRow(s, request[c].principal, n) \subseteq EdgeSessions
        /\ WithRow(s, request[c].principal, n) \in [DOMAIN WithRow(s, request[c].principal, n) -> EdgeRows]
    BY Zenon, <2>1, FreshRow
  <2>3. WithRow(s, request[c].principal, n)[s].tenant = request[c].principal
    BY Zenon, <2>1, FreshRow
  <2>4. \A x \in DOMAIN store : WithRow(s, request[c].principal, n)[x] = store[x]
    BY ZenonT(30), <2>1, FreshRow
  <2> QED
    BY Zenon, <1>7, <2>2, <2>3, <2>4
<1>9. Answered(c, rows, opened)
    BY Zenon, <1>5, <1>7
<1>10. \A x \in opened : x \in DOMAIN rows /\ rows[x].head > 0
    BY Zenon, <1>8 DEF EdgeInv, OpenedIsStarted
<1>11. EdgeInv' /\ \A d \in Callers : d # c => request'[d] = request[d]
    BY Zenon, <1>8, <1>9, <1>10, AnsweredKeeps
<1>12. store' = rows
    BY Zenon, <1>9 DEF Answered
<1>13. \A x \in DOMAIN rows : x \in DOMAIN store \/ x = s
    BY Zenon, <1>8
<1>14. EdgeStep
    BY Zenon, <1>2, <1>8, <1>11, <1>12, <1>13 DEF EdgeStep
<1> QED
    BY Zenon, <1>11, <1>14

\* The first write of CreateSession: a row of the caller's tenant.
LEMMA CreateRowKeeps ==
    ASSUME EdgeInv, NEW c \in Callers, NEW s \in EdgeSessions, CreateRow(c, s)
    PROVE  EdgeInv' /\ EdgeStep
<1>1. /\ s \notin DOMAIN store /\ request[c].at = "sent" /\ request[c].op = "create"
      /\ request' = [request EXCEPT ![c].at = "row", ![c].sid = s] /\ opened' = opened
    BY Zenon DEF CreateRow
<1>2. request[c] \in EdgeCalls
    BY Zenon DEF EdgeInv, EdgeTypes
<1>3. request[c].principal \in Tenants \cup {NoTenant}
    BY Zenon, <1>2 DEF EdgeCalls
<1>4. 0 \in Nat
    BY Zenon
<1>5. store' = WithRow(s, request[c].principal, 0)
    BY Zenon DEF CreateRow, WithRow
<1>6. /\ DOMAIN store' = DOMAIN store \cup {s} /\ DOMAIN store' \subseteq EdgeSessions
      /\ store' \in [DOMAIN store' -> EdgeRows]
      /\ store'[s].tenant = request[c].principal
      /\ \A x \in DOMAIN store : store'[x] = store[x]
  <2>1. request[c].principal \in Tenants \cup {NoTenant} /\ s \notin DOMAIN store /\ 0 \in Nat
    BY Zenon, <1>1, <1>3, <1>4
  <2>2. /\ DOMAIN WithRow(s, request[c].principal, 0) = DOMAIN store \cup {s}
        /\ DOMAIN WithRow(s, request[c].principal, 0) \subseteq EdgeSessions
        /\ WithRow(s, request[c].principal, 0) \in [DOMAIN WithRow(s, request[c].principal, 0) -> EdgeRows]
    BY Zenon, <2>1, FreshRow
  <2>3. WithRow(s, request[c].principal, 0)[s].tenant = request[c].principal
    BY Zenon, <2>1, FreshRow
  <2>4. \A x \in DOMAIN store : WithRow(s, request[c].principal, 0)[x] = store[x]
    BY ZenonT(30), <2>1, FreshRow
  <2>5. PICK rows : rows = WithRow(s, request[c].principal, 0)
    BY Zenon
  <2>6. store' = rows
    BY Zenon, <1>5, <2>5
  <2> QED
    BY Zenon, <2>2, <2>3, <2>4, <2>5, <2>6
<1>7. /\ request'[c] \in EdgeCalls /\ request'[c].sid = s
      /\ request'[c].principal = request[c].principal
    BY Zenon, <1>1, <1>2 DEF EdgeInv, EdgeTypes, EdgeCalls
<1>8. \A d \in Callers : d # c => request'[d] = request[d]
    BY Zenon, <1>1 DEF EdgeInv, EdgeTypes
<1>9. request' \in [Callers -> EdgeCalls]
  <2>1. \A d \in Callers : request'[d] \in EdgeCalls
    BY Zenon, <1>7, <1>8 DEF EdgeInv, EdgeTypes
  <2>2. DOMAIN request' = Callers /\ request' = [d \in DOMAIN request' |-> request'[d]]
    BY Zenon, <1>1 DEF EdgeInv, EdgeTypes
  <2> QED
    BY Zenon, <2>1, <2>2
<1>10. EdgeTypes'
    BY Zenon, <1>6, <1>9 DEF EdgeTypes
<1>11. ASSUME NEW d \in Callers PROVE OwnsItsRow(d)'
  <2>1. CASE d = c
    BY Zenon, <1>6, <1>7, <2>1 DEF OwnsItsRow
  <2>2. CASE d # c
    <3>1. request'[d] = request[d] /\ OwnsItsRow(d)
      BY Zenon, <1>8, <2>2 DEF EdgeInv
    <3> QED
      BY Zenon, <1>6, <3>1 DEF OwnsItsRow
  <2> QED
    BY Zenon, <2>1, <2>2
<1>12. OpenedIsStarted'
    BY Zenon, <1>1, <1>6 DEF EdgeInv, OpenedIsStarted
<1>13. \A x \in DOMAIN store' : x \in DOMAIN store \/ x = s
    BY Zenon, <1>6
<1>14. request[c].op # "fork"
    BY Zenon, <1>1
<1>15. EdgeStep
    BY Zenon, <1>6, <1>8, <1>13, <1>14 DEF EdgeStep
<1> QED
    BY Zenon, <1>10, <1>11, <1>12, <1>15 DEF EdgeInv

\* Its second write: the first event, or an error and no id.
LEMMA AppendStartedKeeps ==
    ASSUME EdgeInv, NEW c \in Callers, AppendStarted(c)
    PROVE  EdgeInv' /\ EdgeStep
<1>1. /\ request[c].sid \in DOMAIN store
      /\ store[request[c].sid].tenant = request[c].principal
    BY Zenon DEF AppendStarted, EdgeInv, OwnsItsRow
<1>2. PICK sid : sid = request[c].sid
    BY Zenon
<1>3. PICK rows : rows = [store EXCEPT ![sid].head = 1]
    BY Zenon
<1>4. CASE Answered(c, store, opened)
  <2>1. EdgeInv'
    BY Zenon, <1>4, AnsweredKeeps DEF EdgeInv, EdgeTypes, OpenedIsStarted
  <2>2. store' = store
    BY Zenon, <1>4 DEF Answered
  <2> QED
    BY Zenon, <2>1, <2>2 DEF EdgeStep
<1>5. CASE Answered(c, rows, opened \cup {sid})
  <2>1. store[sid] \in EdgeRows
    BY Zenon, <1>1, <1>2 DEF EdgeInv, EdgeTypes
  <2>2. /\ DOMAIN rows = DOMAIN store
        /\ rows[sid] \in EdgeRows /\ rows[sid].tenant = store[sid].tenant /\ rows[sid].head = 1
        /\ \A x \in DOMAIN store : x # sid => rows[x] = store[x]
        /\ rows = [x \in DOMAIN rows |-> rows[x]]
    BY Zenon, <1>1, <1>2, <1>3, <2>1 DEF EdgeInv, EdgeTypes, EdgeRows
  <2>3. rows \in [DOMAIN rows -> EdgeRows]
    <3>1. \A x \in DOMAIN rows : rows[x] \in EdgeRows
      BY Zenon, <2>2 DEF EdgeInv, EdgeTypes
    <3> QED
      BY Zenon, <2>2, <3>1
  <2>4. \A x \in opened \cup {sid} : x \in DOMAIN rows /\ rows[x].head > 0
    <3>1. 1 > 0
      OBVIOUS
    <3> QED
      BY Zenon, <1>1, <1>2, <2>2, <3>1 DEF EdgeInv, OpenedIsStarted
  <2>5. \A x \in DOMAIN store : rows[x].tenant = store[x].tenant
    BY Zenon, <2>2
  <2>6. EdgeInv' /\ \A d \in Callers : d # c => request'[d] = request[d]
    BY Zenon, <1>5, <2>2, <2>3, <2>4, <2>5, AnsweredKeeps DEF EdgeInv, EdgeTypes
  <2>7. store' = rows
    BY Zenon, <1>5 DEF Answered
  <2>8. EdgeStep
    BY Zenon, <1>1, <1>2, <2>2, <2>5, <2>6, <2>7 DEF EdgeStep
  <2> QED
    BY Zenon, <2>6, <2>8
<1> QED
    BY Zenon, <1>2, <1>3, <1>4, <1>5 DEF AppendStarted

\* Every step keeps the invariant and the tenants apart.
LEMMA EdgeNextKeeps ==
    ASSUME EdgeInv, AuthNext \/ CallNext
    PROVE  EdgeInv' /\ EdgeStep
<1>1. CASE AuthNext
  <2>1. UNCHANGED edgeCallVars
    BY Zenon, <1>1 DEF AuthNext, Rotate, Authenticate, Outage, TimePasses
  <2>2. store' = store /\ request' = request /\ opened' = opened
    BY Zenon, <2>1 DEF edgeCallVars
  <2> QED
    BY Zenon, <2>2 DEF EdgeInv, EdgeTypes, OwnsItsRow, OpenedIsStarted, EdgeStep
<1>2. CASE CallNext
    BY Zenon, <1>2, AsksKeeps, AnswersOnlyKeeps, AppendStartedKeeps, CreateRowKeeps, ForkRowKeeps DEF CallNext
<1> QED
    BY Zenon, <1>1, <1>2

\* For any tenants, sessions and calls in flight: REST and MCP answer a request alike, a
\* session that CreateSession answered with has its first event, and no call makes,
\* changes or branches from a row of another tenant, although check and use are separate
\* transactions (Server.CreateSession, Fork, authorizeSession, the facades' status maps).
THEOREM AnswersAlwaysHold == EdgeSpec => AnswersHold
<1>1. EdgeInit => EdgeInv
  <2> SUFFICES ASSUME EdgeInit PROVE EdgeInv
    BY Zenon
  <2>1. store = << >> /\ request = [c \in Callers |-> Idle] /\ opened = {}
    BY Zenon DEF EdgeInit
  <2>2. Idle \in EdgeCalls /\ Idle.at = "idle"
    <3>1. NoTenant \in Tenants \cup {NoTenant} /\ "none" \in EdgeSessions \cup {"none"}
      BY Zenon
    <3> QED
      BY Zenon, <3>1 DEF Idle, EdgeCalls
  <2>3. DOMAIN store = {} /\ store = [x \in {} |-> store[x]]
    BY <2>1
  <2>4. EdgeTypes
    BY Zenon, <2>1, <2>2, <2>3 DEF EdgeTypes
  <2>5. \A c \in Callers : OwnsItsRow(c)
    BY Zenon, <2>1, <2>2 DEF OwnsItsRow
  <2> QED
    BY Zenon, <2>1, <2>4, <2>5 DEF EdgeInv, OpenedIsStarted
<1>2. EdgeInv /\ [AuthNext \/ CallNext]_edgeVars => EdgeInv' /\ (EdgeStep \/ UNCHANGED edgeVars)
  <2>1. CASE UNCHANGED edgeVars
    <3>1. store' = store /\ request' = request /\ opened' = opened
      BY Zenon, <2>1 DEF edgeVars
    <3> QED
      BY Zenon, <2>1, <3>1 DEF EdgeInv, EdgeTypes, OwnsItsRow, OpenedIsStarted
  <2> QED
    BY Zenon, <2>1, EdgeNextKeeps
<1>3. EdgeInv => TransportsAgree /\ OpenedIsStarted
    BY Zenon, FacadesAgree DEF EdgeInv
<1> QED
    BY <1>1, <1>2, <1>3, PTL DEF EdgeSpec, AnswersHold, TenantsKeepApart, EdgeStep

=============================================================================
