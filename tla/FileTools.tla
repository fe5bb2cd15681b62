----------------------------- MODULE FileTools -----------------------------
(***************************************************************************)
(* The read, write, edit, bash, glob and grep tools over one file of a     *)
(* session's workspace.  Each is a few docker execs, any of which may fail *)
(* or be cancelled part of the way, and an answer to the model: a result   *)
(* or an error observation.                                                *)
(*                                                                         *)
(* A text is a sequence of letters.  The tools that change files are       *)
(* called one at a time (module AgentLoop).  A tee whose client is killed  *)
(* sees its input end, and is gone before the session's next call.         *)
(***************************************************************************)
EXTENDS Naturals, Sequences, FiniteSets, FiniteSetsExt

CONSTANTS
    FileTexts,        \* what is written: contents, replaced and replacing strings
    MaxToolRuns,  \* calls
    MaxText       \* length of a file

ASSUME FileAssumption ==
    /\ << >> \in FileTexts /\ MaxToolRuns \in Nat /\ MaxText \in Nat

VARIABLES
    file,      \* the file: [there, text]
    tool,      \* the call in progress
    answered   \* the calls that were answered

fileVars == <<file, tool, answered>>

NoTool == [name |-> "none", text |-> << >>, old |-> << >>, all |-> FALSE, step |-> "idle",
           before |-> [there |-> FALSE, text |-> << >>], next |-> << >>, count |-> 0,
           answer |-> "none", content |-> << >>, cut |-> FALSE]
Absent == [there |-> FALSE, text |-> << >>]

FileInit == file = Absent /\ tool = NoTool /\ answered = 0

----------------------------------------------------------------------------
(* The strings package.                                                     *)

HoldsAt(s, i, sub) == i + Len(sub) - 1 <= Len(s) /\ SubSeq(s, i, i + Len(sub) - 1) = sub

\* The places where occurrences that do not overlap are found from the left.  The
\* empty string is found before every letter and at the end.
Found(s, sub) ==
    LET step[i \in 1..(Len(s) + 2)] ==
          IF i > Len(s) + 1 THEN {}
          ELSE IF HoldsAt(s, i, sub) THEN {i} \cup (IF sub = << >> THEN step[i + 1] ELSE step[i + Len(sub)])
          ELSE step[i + 1]
    IN  step[1]

Count(s, sub) == Cardinality(Found(s, sub))

\* The places in at of s hold sub; they are replaced.
ReplaceAt(s, sub, new, at) ==
    LET out[i \in 1..(Len(s) + 2)] ==
          IF i > Len(s) + 1 THEN << >>
          ELSE IF i \in at
          THEN IF sub = << >> THEN new \o SubSeq(s, i, IF i > Len(s) THEN 0 ELSE i) \o out[i + 1]
               ELSE new \o out[i + Len(sub)]
          ELSE SubSeq(s, i, IF i > Len(s) THEN 0 ELSE i) \o out[i + 1]
    IN  out[1]

ReplaceEvery(s, sub, new) == ReplaceAt(s, sub, new, Found(s, sub))
ReplaceOne(s, sub, new) == ReplaceAt(s, sub, new, {Min(Found(s, sub))})

----------------------------------------------------------------------------
(* Commands in the container, as execRunner.Run reports them.               *)

\* The command ends by itself with one of these exit codes, or the context ends
\* first and its client is killed; or the context ends as the command does, which
\* makes it killed with the exit code it had.  Exit code 2 comes with a message.
Outcomes(codes) ==
    {[exit |-> c, killed |-> k, silent |-> c # 2] : c \in codes, k \in BOOLEAN}
      \cup {[exit |-> 143, killed |-> TRUE, silent |-> TRUE]}

ToolAnswers(t, kind, content) == [t EXCEPT !.step = "answered", !.answer = kind, !.content = content]

----------------------------------------------------------------------------
\* The tool is called.  A search for nothing is refused at once.
Call(name, text, old, all) ==
    /\ tool.step \in {"idle", "answered"} /\ answered < MaxToolRuns
    /\ LET t == [NoTool EXCEPT !.name = name, !.text = text, !.old = old, !.all = all,
                   !.before = file, !.step = CASE name = "write" -> "mkdir"
                                               [] name \in {"read", "edit"} -> "cat"
                                               [] OTHER -> "exec"]
       IN  tool' = IF name = "grep" /\ old = << >> THEN ToolAnswers(t, "error", << >>) ELSE t
    /\ answered' = answered + 1
    /\ UNCHANGED file

\* EditTool.Execute between its read and its write.
EditExecute(t, content) ==
    LET count == Count(content, t.old)
    IN  IF count = 0 \/ (~t.all /\ count > 1) THEN ToolAnswers(t, "error", << >>)
        ELSE [t EXCEPT !.step = "mkdir", !.count = count,
                !.next = IF t.all THEN ReplaceEvery(content, t.old, t.text)
                         ELSE ReplaceOne(content, t.old, t.text)]

\* container.Read: cat.  Any exit code but 0 is an error.
Cat ==
    /\ tool.step = "cat"
    /\ \E r \in Outcomes({IF file.there THEN 0 ELSE 1}) :
         tool' = IF r.exit # 0 THEN ToolAnswers(tool, "error", << >>)
                 ELSE IF tool.name = "read" THEN ToolAnswers(tool, "ok", file.text)
                 ELSE EditExecute(tool, file.text)
    /\ UNCHANGED <<file, answered>>

\* container.Write: mkdir -p, which may be refused, ...
Mkdir ==
    /\ tool.step = "mkdir"
    /\ \E r \in Outcomes({0, 1}) :
         tool' = IF r.exit # 0 THEN ToolAnswers(tool, "error", << >>)
                 ELSE [tool EXCEPT !.step = "tee",
                         !.next = IF tool.name = "write" THEN tool.text ELSE tool.next]
    /\ UNCHANGED <<file, answered>>

\* ... then tee, which opens the file, truncating it, ...
TeeOpens ==
    /\ tool.step = "tee"
    /\ \/ file' = [there |-> TRUE, text |-> << >>] /\ tool' = [tool EXCEPT !.step = "filling"]
       \/ tool' = ToolAnswers(tool, "error", << >>) /\ UNCHANGED file
    /\ UNCHANGED answered

\* Fault: the exit code of tee is not looked at.
TeeEnds_Unchecked ==
    /\ tool.step = "filling"
    /\ \E r \in Outcomes({0, 1}), n \in 0..Len(tool.next) :
         /\ r.exit = 0 => n = Len(tool.next)
         /\ file' = [file EXCEPT !.text = SubSeq(tool.next, 1, n)]
         /\ tool' = [ToolAnswers(tool, "ok", << >>) EXCEPT !.cut = (r.exit # 0)]
    /\ UNCHANGED answered

\* ... and copies its input, all of it when it exits with 0.
TeeEnds ==
    /\ tool.step = "filling"
    /\ \E r \in Outcomes({0, 1}), n \in 0..Len(tool.next) :
         /\ r.exit = 0 => n = Len(tool.next)
         /\ file' = [file EXCEPT !.text = SubSeq(tool.next, 1, n)]
         /\ tool' = [ToolAnswers(tool, IF r.exit = 0 THEN "ok" ELSE "error", << >>)
                       EXCEPT !.cut = (r.exit # 0)]
    /\ UNCHANGED answered

\* execObservation.
execObservation(t, r) ==
    IF r.killed \/ r.exit # 0 THEN ToolAnswers(t, "error", << >>) ELSE ToolAnswers(t, "ok", t.old)

\* GrepTool.Execute: grep exits with 1, and says nothing, when nothing matched.
GrepExecute(t, r) ==
    IF ~r.killed /\ r.exit = 1 /\ r.silent THEN ToolAnswers(t, "no matches", << >>)
    ELSE execObservation(t, r)

\* grep -rnE over the workspace; 2 is an unreadable file or a bad pattern.
Grep ==
    /\ tool.step = "exec" /\ tool.name = "grep"
    /\ \E r \in Outcomes({2, IF file.there /\ Found(file.text, tool.old) # {} THEN 0 ELSE 1}) :
         tool' = GrepExecute(tool, r)
    /\ UNCHANGED <<file, answered>>

\* find -path: an empty list is a result.
Glob ==
    /\ tool.step = "exec" /\ tool.name = "glob"
    /\ \E r \in Outcomes({0, 1}) : tool' = execObservation(tool, r)
    /\ UNCHANGED <<file, answered>>

\* sh -c: a command that removes the file, and may be cut before or after it did.
Bash ==
    /\ tool.step = "exec" /\ tool.name = "bash"
    /\ \/ file' = Absent /\ \E r \in Outcomes({0}) : tool' = execObservation(tool, r)
       \/ UNCHANGED file /\ \E r \in Outcomes({1}) : tool' = execObservation(tool, r)
    /\ UNCHANGED answered

FileNext ==
    \/ \E text, old \in FileTexts, all \in BOOLEAN :
         \/ Call("edit", text, old, all) /\ Len(file.text) * (1 + Len(text)) <= MaxText
         \/ ~all /\ old = << >> /\ \E n \in {"read", "bash", "glob"} : text = << >> /\ Call(n, text, old, all)
         \/ ~all /\ old = << >> /\ Call("write", text, old, all)
         \/ ~all /\ text = << >> /\ Call("grep", text, old, all)
    \/ Cat \/ Mkdir \/ TeeOpens \/ TeeEnds \/ Grep \/ Glob \/ Bash

FileSpec == FileInit /\ [][FileNext]_fileVars

----------------------------------------------------------------------------
(* Properties                                                               *)

\* s with the occurrences of sub replaced by new, some way to cut s into pieces.
Pieces(s, sub, new, n, out) ==
    \E at \in SUBSET (1..(Len(s) + 1)) :
      /\ Cardinality(at) = n /\ \A i \in at : HoldsAt(s, i, sub)
      /\ \A i, j \in at : i < j => i + Len(sub) <= j
      /\ Len(out) = Len(s) + n * Len(new) - n * Len(sub)
      /\ \A i \in 1..Len(s) :
           LET past == Cardinality({j \in at : j + Len(sub) <= i})
               in   == \E j \in at : j <= i /\ i < j + Len(sub)
               k    == i + past * Len(new) - past * Len(sub)
           IN  ~in => out[k] = s[i]
      /\ \A j \in at :
           LET past == Cardinality({m \in at : m < j})
           IN  HoldsAt(out, j + past * Len(new) - past * Len(sub), new)

\* The model is told the truth about the file.  What was read was there; a write
\* or an edit that succeeded is in the file whole, an edit having replaced as many
\* occurrences as it says, one unless all were asked for, and nothing else; a
\* search without matches did search.  A call that failed left the file alone,
\* unless it failed while the file was being filled or was a command.
ToolAnswersAreTrue ==
    tool.step = "answered" =>
      /\ tool.answer = "ok" =>
           CASE tool.name = "read"  -> file = tool.before /\ tool.content = file.text
             [] tool.name = "write" -> file = [there |-> TRUE, text |-> tool.text]
             [] tool.name = "edit"  ->
                  /\ Pieces(tool.before.text, tool.old, tool.text, tool.count, file.text)
                  /\ tool.all \/ Cardinality(Found(tool.before.text, tool.old)) = 1
             [] OTHER -> TRUE
      /\ tool.answer = "no matches" => file = tool.before /\ Found(file.text, tool.old) = {}
      /\ tool.answer = "error" /\ tool.name # "bash" => file = tool.before \/ tool.cut
=============================================================================
