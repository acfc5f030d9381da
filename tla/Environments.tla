---------------------------- MODULE Environments ----------------------------
(***************************************************************************)
(* The environment manager (EnvironmentManager.tsx) over the environment   *)
(* files (main/env-ops.ts): one editor for whichever file is selected,     *)
(* whose reads, saves and file operations return when they like, also      *)
(* after another file was selected or the manager was closed.              *)
(***************************************************************************)
EXTENDS Naturals, Sequences, SequencesExt, FiniteSets

CONSTANTS
  EnvNames,     \* names an environment may be given
  FirstEnv,     \* the one that is selected when nothing is active
  MaxEnvEdits,  \* edits of the user
  MaxEnvOps,    \* file operations of the user
  NoEnvFile     \* the null of the code

ASSUME EnvironmentsAssumption == FirstEnv \in EnvNames /\ NoEnvFile \notin EnvNames

VARIABLES
  envFiles,      \* name -> its values; Missing or Garbled
  listed,        \* props.envs
  refreshDue,    \* onChanged was called and the list has not come back
  activeEnv,     \* props.activeEnvPath
  manager,       \* the state of the component; Closed when it is not mounted
  envReads,      \* files of the readEnv calls whose result still counts
  envSaves,      \* calls of writeEnv that have not returned
  envOps,        \* calls that create, rename, duplicate or delete, likewise
  envSteps,      \* edits and operations so far
  slips          \* history: what came back to an editor that had moved on meanwhile

environmentVars == <<envFiles, listed, refreshDue, activeEnv, manager, envReads, envSaves, envOps,
                     envSteps, slips>>

EnvFile(state, values) == [state |-> state, values |-> values]
Missing == EnvFile("missing", <<>>)
Garbled == EnvFile("garbled", <<>>)
IsFile(e) == envFiles[e] # Missing

-----------------------------------------------------------------------------
\* Rows, values and the bulk text, a sequence of lines.
EnvRow(n, v) == [name |-> n, value |-> v]
TwoLines == "1, and a line B=2"

\* rowsToValues: the last row of a name counts, rows without one do not.
RowsToValues(rows) ==
  [n \in {rows[i].name : i \in DOMAIN rows} \ {""} |->
     rows[CHOOSE i \in DOMAIN rows : rows[i].name = n /\ \A j \in DOMAIN rows :
                                       rows[j].name = n => j <= i].value]

ValuesToRows(values) ==
  LET names == SetToSeq(DOMAIN values)
  IN [i \in DOMAIN names |-> EnvRow(names[i], values[names[i]])]

\* rowsToBulk: NAME=value, so a value of two lines is two lines.
RowsToBulk(rows) ==
  FlattenSeq([i \in DOMAIN rows |->
    CASE rows[i].name = "" -> <<>>
      [] rows[i].name # "" /\ rows[i].value = TwoLines -> <<EnvRow(rows[i].name, "1"), EnvRow("B", "2")>>
      [] OTHER -> <<rows[i]>>])

\* bulkToRows: blank lines and comments are left out.
BulkToRows(lines) == SelectSeq(lines, LAMBDA l : l.name \notin {"", "#A"})

\* The row that is typed; "#A" reads as a comment.
TypedRow == EnvRow("#A", TwoLines)

CurrentRows == IF manager.bulkMode THEN BulkToRows(manager.bulkText) ELSE manager.rows
Dirty == RowsToValues(CurrentRows) # manager.baseline

-----------------------------------------------------------------------------
Closed == [shown |-> FALSE]

\* rowsOf and bulkOf: whose values the rows and the bulk text began as; unread: the
\* selected file has not been read since it was selected.
OpenedOn(p) ==
  [shown |-> TRUE, selected |-> p, rows |-> <<>>, baseline |-> <<>>, bulkMode |-> FALSE,
   bulkText |-> <<>>, pendingSelect |-> <<>>, rowsOf |-> p, bulkOf |-> NoEnvFile, unread |-> p # NoEnvFile]

\* Variant: reads that were overtaken by another selection still count.
StillCountAll(reads) == reads

\* The cleanup of the effect: `cancelled' of each read that has not returned.
StillCount(reads) == {}

\* setSelected: the effect runs when the selection changes.
Select(m, p) ==
  IF m.selected = p THEN manager' = m /\ UNCHANGED envReads
  ELSE /\ manager' = IF p = NoEnvFile
                     THEN [m EXCEPT !.selected = p, !.rows = <<>>, !.baseline = <<>>, !.rowsOf = p,
                                    !.unread = FALSE]
                     ELSE [m EXCEPT !.selected = p, !.unread = TRUE]
       /\ envReads' = StillCount(envReads) \cup ({p} \ {NoEnvFile})

ResetEditorFlags(m) == [m EXCEPT !.bulkMode = FALSE, !.bulkText = <<>>, !.bulkOf = NoEnvFile]

EnvironmentsInit ==
  /\ \E other \in EnvNames \ {FirstEnv}, bad \in BOOLEAN :
       envFiles = [e \in EnvNames |->
         IF e \notin {FirstEnv, other} THEN Missing
         ELSE IF e = other /\ bad THEN Garbled ELSE EnvFile("file", [n \in {"A"} |-> e])]
  /\ listed = {e \in EnvNames : IsFile(e)} /\ refreshDue = FALSE
  /\ activeEnv \in {NoEnvFile, FirstEnv}
  /\ manager = Closed /\ envReads = {} /\ envSaves = {} /\ envOps = {}
  /\ envSteps = [edits |-> 0, ops |-> 0] /\ slips = {}

-----------------------------------------------------------------------------
\* The manager is shown, with the active environment or the first of the list.
OpenManager ==
  /\ ~manager.shown
  /\ LET p == CASE activeEnv # NoEnvFile -> activeEnv
                [] activeEnv = NoEnvFile /\ listed = {} -> NoEnvFile
                [] OTHER -> CHOOSE e \in listed : FirstEnv \in listed => e = FirstEnv
     IN /\ manager' = OpenedOn(p)
        /\ envReads' = envReads \cup ({p} \ {NoEnvFile})
  /\ UNCHANGED <<envFiles, listed, refreshDue, activeEnv, envSaves, envOps, envSteps, slips>>

\* "Close", or a click beside the manager: what it has not saved is dropped, and
\* what it awaits comes back to a component that is gone.
CloseManager ==
  /\ manager.shown
  /\ manager' = Closed
  /\ envReads' = StillCount(envReads)
  /\ envSaves' = {[s EXCEPT !.mounted = FALSE] : s \in envSaves}
  /\ envOps' = {[o EXCEPT !.mounted = FALSE] : o \in envOps}
  /\ UNCHANGED <<envFiles, listed, refreshDue, activeEnv, envSteps, slips>>

\* readEnv returns: no values for a file that is gone, an error for one that does
\* not parse, which leaves the rows as they are.  The bulk text is left alone.
EndRead ==
  /\ \E p \in envReads :
       /\ envReads' = envReads \ {p}
       /\ manager' = IF envFiles[p] = Garbled THEN manager
                     ELSE [manager EXCEPT !.rows = ValuesToRows(envFiles[p].values),
                                          !.baseline = envFiles[p].values,
                                          !.rowsOf = p, !.unread = FALSE]
       /\ slips' = IF manager' # manager /\ manager.bulkMode THEN slips \cup {"read"} ELSE slips
  /\ UNCHANGED <<envFiles, listed, refreshDue, activeEnv, envSaves, envOps, envSteps>>

\* selectEnv: unsaved rows are asked about.
SelectEnv ==
  /\ manager.shown
  /\ \E p \in listed \ {manager.selected} :
       IF Dirty THEN manager' = [manager EXCEPT !.pendingSelect = <<p>>] /\ UNCHANGED envReads
       ELSE Select(ResetEditorFlags(manager), p)
  /\ UNCHANGED <<envFiles, listed, refreshDue, activeEnv, envSaves, envOps, envSteps, slips>>

\* "Discard" and "Keep editing".
ConfirmDiscardAndSwitch ==
  /\ manager.shown /\ manager.pendingSelect # <<>>
  /\ \/ Select(ResetEditorFlags([manager EXCEPT !.pendingSelect = <<>>]), manager.pendingSelect[1])
     \/ manager' = [manager EXCEPT !.pendingSelect = <<>>] /\ UNCHANGED envReads
  /\ UNCHANGED <<envFiles, listed, refreshDue, activeEnv, envSaves, envOps, envSteps, slips>>

-----------------------------------------------------------------------------
\* The table: updateRow, removeRow and addRow (bound: two rows); the textarea.
EditRows ==
  /\ manager.shown /\ manager.selected # NoEnvFile /\ envSteps.edits < MaxEnvEdits
  /\ envSteps' = [envSteps EXCEPT !.edits = @ + 1]
  /\ \/ /\ ~manager.bulkMode
        /\ \/ \E i \in DOMAIN manager.rows : manager' = [manager EXCEPT !.rows[i] = TypedRow]
           \/ \E i \in DOMAIN manager.rows : manager' = [manager EXCEPT !.rows = RemoveAt(@, i)]
           \/ /\ Len(manager.rows) < 2
              /\ manager' = [manager EXCEPT !.rows = Append(@, TypedRow)]
     \/ /\ manager.bulkMode
        /\ manager' = [manager EXCEPT !.bulkText = <<TypedRow>>]
  /\ UNCHANGED <<envFiles, listed, refreshDue, activeEnv, envReads, envSaves, envOps, slips>>

\* toggleBulk; the text of a bulk edit that was left is not looked at again.
ToggleBulk ==
  /\ manager.shown /\ manager.selected # NoEnvFile
  /\ manager' = IF manager.bulkMode
                THEN [manager EXCEPT !.rows = BulkToRows(manager.bulkText), !.rowsOf = manager.bulkOf,
                                     !.bulkMode = FALSE, !.bulkText = <<>>, !.bulkOf = NoEnvFile]
                ELSE [manager EXCEPT !.bulkText = RowsToBulk(manager.rows), !.bulkOf = manager.rowsOf,
                                     !.bulkMode = TRUE]
  /\ UNCHANGED <<envFiles, listed, refreshDue, activeEnv, envReads, envSaves, envOps, envSteps, slips>>

\* m with the rows, and the bulk text when it is shown, made from values.
Shows(m, values, of) ==
  LET n == [m EXCEPT !.rows = ValuesToRows(values), !.rowsOf = of]
  IN IF m.bulkMode THEN [n EXCEPT !.bulkText = RowsToBulk(n.rows), !.bulkOf = of] ELSE n

Revert ==
  /\ manager.shown /\ manager.selected # NoEnvFile /\ Dirty
  /\ manager' = Shows(manager, manager.baseline, manager.rowsOf)
  /\ UNCHANGED <<envFiles, listed, refreshDue, activeEnv, envReads, envSaves, envOps, envSteps, slips>>

\* save, up to its write (bound: one at a time).
StartEnvSave ==
  /\ envSaves = {} /\ manager.shown /\ manager.selected # NoEnvFile /\ Dirty
  /\ envSaves' = envSaves \cup
       {[path |-> manager.selected, values |-> RowsToValues(CurrentRows), mounted |-> TRUE]}
  /\ UNCHANGED <<envFiles, listed, refreshDue, activeEnv, manager, envReads, envOps, envSteps, slips>>

\* writeEnv returns: the editor shows what was saved, whatever it shows by now.
EndEnvSave ==
  /\ \E s \in envSaves, ok \in BOOLEAN :
       /\ envSaves' = envSaves \ {s}
       /\ envFiles' = IF ok THEN [envFiles EXCEPT ![s.path] = EnvFile("file", s.values)] ELSE envFiles
       /\ IF ok /\ s.mounted
          THEN manager' = Shows([manager EXCEPT !.baseline = s.values], s.values, s.path)
          ELSE UNCHANGED manager
       /\ slips' = IF ~manager.shown \/ (s.mounted /\ manager.selected = s.path)
                   THEN slips ELSE slips \cup {"save"}
  /\ UNCHANGED <<listed, refreshDue, activeEnv, envReads, envOps, envSteps>>

-----------------------------------------------------------------------------
\* createEnv, renameEnv, duplicateEnv and deleteEnv, up to the call.
StartEnvOp ==
  /\ manager.shown /\ envSteps.ops < MaxEnvOps
  /\ \E op \in {"create", "rename", "duplicate", "delete"}, to \in EnvNames :
       /\ op # "create" => manager.selected # NoEnvFile
       /\ op = "delete" => to = manager.selected
       /\ envOps' = envOps \cup
            {[op |-> op, path |-> manager.selected, to |-> to, wasActive |-> activeEnv = manager.selected,
              remaining |-> listed \ {manager.selected}, mounted |-> TRUE]}
  /\ envSteps' = [envSteps EXCEPT !.ops = @ + 1]
  /\ UNCHANGED <<envFiles, listed, refreshDue, activeEnv, manager, envReads, envSaves, slips>>

\* env-ops.ts: what the operation makes of the files; the same files when it throws.
Operate(o) ==
  CASE o.op = "create" /\ ~IsFile(o.to) -> [envFiles EXCEPT ![o.to] = EnvFile("file", <<>>)]
    [] o.op = "duplicate" /\ ~IsFile(o.to) /\ envFiles[o.path] # Garbled ->
         [envFiles EXCEPT ![o.to] = EnvFile("file", envFiles[o.path].values)]
    [] o.op = "rename" /\ IsFile(o.path) /\ (o.to = o.path \/ ~IsFile(o.to)) ->
         [envFiles EXCEPT ![o.path] = Missing, ![o.to] = envFiles[o.path]]
    [] o.op = "delete" /\ IsFile(o.path) -> [envFiles EXCEPT ![o.path] = Missing]
    [] OTHER -> envFiles

\* Renaming a file to the name it has succeeds and changes nothing.
Succeeds(o) == Operate(o) # envFiles \/ (o.op = "rename" /\ o.to = o.path /\ IsFile(o.path))

\* Where the editor goes: a rename keeps the mode it is in and what was typed there.
Follow(o) ==
  LET renamed(of) == IF of = o.path THEN o.to ELSE of
  IN CASE o.op = "rename" ->
            Select([manager EXCEPT !.rowsOf = renamed(@), !.bulkOf = renamed(@)], o.to)
       [] o.op = "delete" ->
            Select(ResetEditorFlags(manager),
                   IF o.remaining = {} THEN NoEnvFile
                   ELSE CHOOSE e \in o.remaining : FirstEnv \in o.remaining => e = FirstEnv)
       [] OTHER -> Select(ResetEditorFlags(manager), o.to)

\* A rename returns to another selection, or a copy to an editor that shows its name
\* already, as of a file that is not there: setSelected changes nothing then.
OvertakenOp(o) ==
  \/ o.op = "rename" /\ manager.selected # o.path
  \/ o.op = "duplicate" /\ manager.selected = o.to

EndEnvOp ==
  /\ \E o \in envOps :
       /\ envOps' = envOps \ {o}
       /\ envFiles' = Operate(o)
       /\ IF ~Succeeds(o) THEN UNCHANGED <<refreshDue, activeEnv, manager, envReads, slips>>
          ELSE /\ refreshDue' = TRUE
               /\ activeEnv' = CASE o.op = "rename" /\ o.wasActive -> o.to
                                 [] o.op = "delete" /\ o.wasActive -> NoEnvFile
                                 [] OTHER -> activeEnv
               /\ IF o.mounted THEN Follow(o) ELSE UNCHANGED <<manager, envReads>>
               /\ slips' = IF manager.shown /\ (o.mounted => OvertakenOp(o)) THEN slips \cup {"operation"} ELSE slips
  /\ UNCHANGED <<listed, envSaves, envSteps>>

\* refreshEnvs: the list comes back and set-envs follows, or there is an error.
RefreshEnvs ==
  /\ refreshDue /\ refreshDue' = FALSE
  /\ \/ /\ listed' = {e \in EnvNames : IsFile(e)}
        /\ activeEnv' = IF activeEnv \in listed' THEN activeEnv ELSE NoEnvFile
     \/ UNCHANGED <<listed, activeEnv>>
  /\ UNCHANGED <<envFiles, manager, envReads, envSaves, envOps, envSteps, slips>>

\* "Set active".
SetActive ==
  /\ manager.shown /\ manager.selected \notin {NoEnvFile, activeEnv} /\ envSteps.ops < MaxEnvOps
  /\ activeEnv' = manager.selected
  /\ envSteps' = [envSteps EXCEPT !.ops = @ + 1]
  /\ UNCHANGED <<envFiles, listed, refreshDue, manager, envReads, envSaves, envOps, slips>>

EnvironmentsNext ==
  \/ OpenManager \/ CloseManager \/ EndRead \/ SelectEnv \/ ConfirmDiscardAndSwitch
  \/ EditRows \/ ToggleBulk \/ Revert \/ StartEnvSave \/ EndEnvSave
  \/ StartEnvOp \/ EndEnvOp \/ RefreshEnvs \/ SetActive

EnvironmentsSpec == EnvironmentsInit /\ [][EnvironmentsNext]_environmentVars

-----------------------------------------------------------------------------
\* Once the selected file has been read, the rows and the bulk text are its own and a
\* clean editor shows what is in it, however reads, saves, renames and deletions
\* overlap; the exceptions are a save or a rename that returns to another selection, a
\* copy that returns to its own name, anything that returns to a manager that was opened
\* again, and a read that returns to the bulk text.
EditorShowsItsOwnFile ==
  manager.shown /\ manager.selected # NoEnvFile /\ ~manager.unread /\ slips = {} =>
    /\ (IF manager.bulkMode THEN manager.bulkOf ELSE manager.rowsOf) = manager.selected
    /\ ~Dirty => manager.baseline = envFiles[manager.selected].values
=============================================================================
