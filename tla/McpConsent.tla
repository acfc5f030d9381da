----------------------------- MODULE McpConsent -----------------------------
(***************************************************************************)
(* Who may start the program an .mcp file names: the consent store         *)
(* (main/mcp-consent.ts), the gate of the handlers that spawn              *)
(* (main/ipc-handlers.ts), the dialog of a tab in front of it (McpTab.tsx) *)
(* and run_request of the MCP server (main/mcp-server/tools.ts), with the  *)
(* recorded schema snapshot beside the file.  The file may be edited while *)
(* a handler is suspended.                                                 *)
(***************************************************************************)
EXTENDS Naturals, FiniteSets

CONSTANTS
  CommandLines,   \* command lines
  Url,        \* what a file of an http server holds: nothing to spawn
  Runs        \* bound: sends, sessions, snapshots and tool calls

ASSUME ConsentAssumption == Url \notin CommandLines

VARIABLES
  mcpFile,     \* what the file on disk holds
  editor,      \* what the tab holds, unsaved edits included
  approved,    \* commands approved for the collection, in userData
  run,         \* [Runs -> ...] who asked, the model that was sent along, the step
  snapshot,    \* a schema is recorded beside the file
  said,        \* history: commands the user has approved in the dialog
  spawned      \* history: [Runs -> ...] what was run

consentVars == <<mcpFile, editor, approved, run, snapshot, said, spawned>>

Files == CommandLines \cup {Url}
Ways == {"send", "session", "snapshot", "drift", "tool"}
Unasked == [way |-> "tool", model |-> Url, step |-> "unused", edited |-> FALSE]

ConsentInit ==
  /\ mcpFile \in Files /\ editor = mcpFile
  /\ approved = {} /\ said = {}
  /\ run = [r \in Runs |-> Unasked]
  /\ snapshot = FALSE
  /\ spawned = [r \in Runs |-> Url]

NeedsConsent(file) == file \in CommandLines
\* Variant: what is approved is the collection.
IsSpawnApprovedByRoot(file) == ~NeedsConsent(file) \/ approved # {}

IsSpawnApproved(file) == ~NeedsConsent(file) \/ file \in approved

Step(r, step) == run' = [run EXCEPT ![r].step = step]

-----------------------------------------------------------------------------
Edit ==
  /\ \E f \in Files \ {editor} : editor' = f
  /\ UNCHANGED <<mcpFile, approved, run, snapshot, said, spawned>>

\* The tab is saved, or the file changes under the app.
Save ==
  /\ mcpFile' \in Files \ {mcpFile}
  /\ run' = [r \in Runs |-> [run[r] EXCEPT !.edited = @ \/ run[r].step = "passed"]]
  /\ UNCHANGED <<editor, approved, snapshot, said, spawned>>

\* withSpawnConsent: the command the tab holds is shown, unless none is needed.
CheckMcpConsent(r) ==
  /\ run[r].step = "unused"
  /\ \E way \in Ways \ {"tool"} :
       run' = [run EXCEPT ![r] = [way |-> way, model |-> editor, edited |-> FALSE,
                                  step |-> IF IsSpawnApproved(editor) THEN "asked" ELSE "dialog"]]
  /\ UNCHANGED <<mcpFile, editor, approved, snapshot, said, spawned>>

\* The store is read, changed and written in one turn.
ApproveSpawn(r) ==
  /\ run[r].step = "dialog"
  /\ approved' = approved \cup {run[r].model}
  /\ said' = said \cup {run[r].model}
  /\ Step(r, "asked")
  /\ UNCHANGED <<mcpFile, editor, snapshot, spawned>>

Decline(r) ==
  /\ run[r].step = "dialog"
  /\ Step(r, "over")
  /\ UNCHANGED <<mcpFile, editor, approved, snapshot, said, spawned>>

\* A store that cannot be read approves of nothing.
StoreLost ==
  /\ approved # {}
  /\ approved' = {}
  /\ UNCHANGED <<mcpFile, editor, run, snapshot, said, spawned>>

\* The gate again, in the main process; a comparison needs a record.
RequireSpawnConsent(r) ==
  /\ run[r].step = "asked"
  /\ Step(r, IF ~IsSpawnApproved(run[r].model) \/ (run[r].way = "drift" /\ ~snapshot)
             THEN "over" ELSE "passed")
  /\ UNCHANGED <<mcpFile, editor, approved, snapshot, said, spawned>>

\* run_request of the MCP server: the file is read for the gate of the app, and
\* read again by executeRequest, as what runs.
RunRequestTool(r) ==
  /\ run[r].step = "unused"
  /\ run' = [run EXCEPT ![r] = [Unasked EXCEPT !.step = IF IsSpawnApproved(mcpFile) THEN "passed" ELSE "over"]]
  /\ UNCHANGED <<mcpFile, editor, approved, snapshot, said, spawned>>

\* workflowRun executes its steps as they are.
WorkflowStep(r) ==
  /\ run[r].step = "unused"
  /\ run' = [run EXCEPT ![r] = [Unasked EXCEPT !.way = "workflow", !.step = "passed"]]
  /\ UNCHANGED <<mcpFile, editor, approved, snapshot, said, spawned>>

Spawn(r) ==
  /\ run[r].step = "passed"
  /\ spawned' = [spawned EXCEPT ![r] = IF run[r].way \in {"tool", "workflow"} THEN mcpFile ELSE run[r].model]
  /\ Step(r, "spawned")
  /\ UNCHANGED <<mcpFile, editor, approved, snapshot, said>>

\* connectAndIntrospect: the schema is recorded, or compared with the record.
Introspected(r) ==
  /\ run[r].step = "spawned"
  /\ snapshot' = (snapshot \/ run[r].way = "snapshot")
  /\ Step(r, "over")
  /\ UNCHANGED <<mcpFile, editor, approved, said, spawned>>

ConsentNext ==
  \/ Edit \/ Save \/ StoreLost
  \/ \E r \in Runs :
       \/ CheckMcpConsent(r) \/ ApproveSpawn(r) \/ Decline(r)
       \/ RequireSpawnConsent(r) \/ RunRequestTool(r) \/ WorkflowStep(r) \/ Spawn(r) \/ Introspected(r)

ConsentSpec == ConsentInit /\ [][ConsentNext]_consentVars

-----------------------------------------------------------------------------
\* A program is started only if the user has approved its very command line in
\* the dialog, whatever the tab held by then and whatever was saved meanwhile.
\* Two ways are weaker: run_request reads the file twice, and answers for it when
\* nobody edits it in between; a workflow's steps pass no gate.
SpawnsAreApproved ==
  \A r \in Runs :
    NeedsConsent(spawned[r]) =>
      \/ spawned[r] \in said
      \/ run[r].way = "tool" /\ run[r].edited
      \/ run[r].way = "workflow"
=============================================================================
