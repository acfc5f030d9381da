------------------------------ MODULE MCEditor ------------------------------
(***************************************************************************)
(* TLC instances of what lies around an open file: the window, the editor, *)
(* the text of the file, the variables and scripts it is sent with, the    *)
(* workflows that run it and the captures that are shown.  They share no   *)
(* variable; `part` names the one whose actions a behaviour takes.         *)
(***************************************************************************)
EXTENDS Sandbox, GrpcFrames, Variables, Workflows, RequestText, RequestForm,
        Workbench, TLC

CONSTANTS
  Parts,                 \* the components a run explores
  WordTokens,            \* tokens typed in a word or a file
  CurlTokens, McpTokens  \* and in a command line

\* MaxTyped, by kind of text.
TypedBound == [word |-> WordTokens, body |-> WordTokens, curl |-> CurlTokens, grpc |-> CurlTokens,
               mqtt |-> McpTokens, ws |-> CurlTokens, mcp |-> McpTokens]

\* A file without rows, and two whose second record lacks a cell.
SomeDataFiles ==
  {NoDataFile, [kind |-> "csv", records |-> <<>>]}
    \cup [kind : {"csv", "json"}, records : {<<<<"b", "a">>, <<"a">>>>}]

VARIABLE part

Symmetry == Permutations(Collections) \cup Permutations(TabPaths) \cup Permutations(RequestPaths)

\* A part that is not explored stays in one of its initial states.
EditorInit ==
  /\ part \in Parts
  /\ SandboxInit
  /\ CaptureInit /\ (part = "captures" \/ wireKind = "sse")
  /\ FramesInit
  /\ VariablesInit
  /\ WorkflowInit
  /\ TextInit /\ (part = "text" \/ typedKind = "word")
  /\ FormInit /\ (part = "form" \/ fileRef = CHOOSE file \in Files : file.headers = <<>>)
  /\ WorkbenchInit

EditorNext ==
  \/ /\ part = "sandbox" /\ SandboxNext
     /\ UNCHANGED <<part, captureVars, frameVars, variablesVars,
                     workflowVars, textVars, formVars, workbenchVars>>
  \/ /\ part = "captures" /\ CaptureNext
     /\ UNCHANGED <<part, sandboxVars, frameVars, variablesVars,
                     workflowVars, textVars, formVars, workbenchVars>>
  \/ /\ part = "frames" /\ FramesNext
     /\ UNCHANGED <<part, sandboxVars, captureVars, variablesVars,
                     workflowVars, textVars, formVars, workbenchVars>>
  \/ /\ part = "variables" /\ VariablesNext
     /\ UNCHANGED <<part, sandboxVars, captureVars, frameVars,
                     workflowVars, textVars, formVars, workbenchVars>>
  \/ /\ part = "workflows" /\ WorkflowNext
     /\ UNCHANGED <<part, sandboxVars, captureVars, frameVars,
                     variablesVars, textVars, formVars, workbenchVars>>
  \/ /\ part = "text" /\ TextNext
     /\ UNCHANGED <<part, sandboxVars, captureVars, frameVars,
                     variablesVars, workflowVars, formVars, workbenchVars>>
  \/ /\ part = "form" /\ FormNext
     /\ UNCHANGED <<part, sandboxVars, captureVars, frameVars,
                     variablesVars, workflowVars, textVars, workbenchVars>>
  \/ /\ part = "workbench" /\ WorkbenchNext
     /\ UNCHANGED <<part, sandboxVars, captureVars, frameVars,
                     variablesVars, workflowVars, textVars, formVars>>

editorVars == <<part, sandboxVars, captureVars, frameVars, variablesVars,
                workflowVars, textVars, formVars, workbenchVars>>

EditorSpec == EditorInit /\ [][EditorNext]_editorVars
=============================================================================
