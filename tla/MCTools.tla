------------------------------ MODULE MCTools ------------------------------
(***************************************************************************)
(* The tool runtime and what its tools stand on, one part at a time: the   *)
(* idempotent executions, the sandboxes, the catalogue with its MCP        *)
(* servers, the outgoing requests, the memory of the agent, and the file   *)
(* and shell tools.  A behaviour is one of the active part; the others     *)
(* stay in their first state.                                              *)
(***************************************************************************)
EXTENDS ToolRuntime, Sandbox, ToolCatalog, WebAccess, ToolMemory, FileTools

VARIABLE active

\* Two calls, one of them to an external tool, that may get the same key.
MCCalls == {[id |-> 1, kind |-> "mutating"], [id |-> 2, kind |-> "external"]}

\* A host, one below it, and the search engine; lists that hold some of them.
MCHosts == {<<"docs", "corp">>, <<"x", "docs", "corp">>, <<"find", "net">>}
MCLists == {{}, {<<"*", "corp">>, <<"find", "net">>}, {<<"*", "docs", "corp">>}}
MCDefault == {<<"*", "corp">>}
MCSearch == <<"find", "net">>

\* Remembered texts that share a word, and the words they are searched for.
MCTexts == {<<"a", "b">>, <<"b", "c">>}
MCQueries == {<< >>, <<"b">>, <<"a", "b">>}

\* Contents and replaced strings: none, one, overlapping and separate occurrences.
MCFileTexts == {<< >>, <<"a">>, <<"a", "a">>, <<"a", "b", "a">>}

ToolsInit ==
    /\ active \in {"runtime", "boxes", "catalog", "web", "memory", "files"}
    /\ Init /\ BoxInit /\ CatalogInit /\ MemoryInit /\ FileInit
    /\ WebInit /\ (active # "web" => dns = [h \in Hosts |-> "public"])

ToolsNext ==
    /\ UNCHANGED active
    /\ \/ active = "runtime" /\ Next
          /\ UNCHANGED <<boxVars, catalogVars, webVars, memoryVars, fileVars>>
       \/ active = "boxes" /\ BoxNext
          /\ UNCHANGED <<vars, catalogVars, webVars, memoryVars, fileVars>>
       \/ active = "catalog" /\ CatalogNext
          /\ UNCHANGED <<vars, boxVars, webVars, memoryVars, fileVars>>
       \/ active = "web" /\ WebNext
          /\ UNCHANGED <<vars, boxVars, catalogVars, memoryVars, fileVars>>
       \/ active = "memory" /\ MemoryNext
          /\ UNCHANGED <<vars, boxVars, catalogVars, webVars, fileVars>>
       \/ active = "files" /\ FileNext
          /\ UNCHANGED <<vars, boxVars, catalogVars, webVars, memoryVars>>

\* The fairness of each part, while it is the active one.
ToolsSpec ==
    /\ ToolsInit
    /\ [][ToolsNext]_<<vars, boxVars, catalogVars, webVars, memoryVars, fileVars, active>>
    /\ \A q \in Requests : WF_vars(active = "runtime" /\ Serve(q))
    /\ \A c \in BoxCalls : WF_boxVars(active = "boxes" /\ ToolCallStep(c))
    /\ WF_boxVars(active = "boxes" /\ ReaperStep)
    /\ WF_boxVars(active = "boxes" /\ \E s \in BoxSessions : CloseOne(s))
    /\ \A s \in BoxSessions : WF_boxVars(active = "boxes" /\ BoxAges(s))
    /\ \A g \in Lookups : /\ WF_catalogVars(active = "catalog" /\ LookupStep(g))
                          /\ WF_catalogVars(active = "catalog" /\ ReadLoop(g))
=============================================================================
