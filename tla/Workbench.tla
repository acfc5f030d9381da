----------------------------- MODULE Workbench -----------------------------
(***************************************************************************)
(* The shell of the window (App.tsx over the reducer of state.ts): the     *)
(* tabs and their unsaved edits, the loads of a collection, the dialogs    *)
(* before a tab or the window closes, and the file operations of the tree, *)
(* each of which awaits the main process while the user goes on.           *)
(***************************************************************************)
EXTENDS Naturals, Sequences, SequencesExt, FiniteSets

CONSTANTS
  Collections, \* collection folders
  TabPaths,   \* paths of requests in a collection
  MaxTouches, \* edits of the user
  MaxLoads,   \* loads of a collection, and operations of the tree
  Nothing     \* the null of the code, for roots, paths and modals

ASSUME WorkbenchAssumption == Nothing \notin Collections \cup TabPaths

VARIABLES
  root,         \* state.root
  tabs,         \* state.tabs; also what its editor holds, its dirtyRef, whether some of
                \* that was typed while a save of it was under way, and whether the
                \* save under way is one of an editor that was closed
  activeTabId,  \* state.activeTabId
  envs,         \* state.envs
  envPath,      \* state.envPath
  modal,        \* the dialog that is open
  saves,        \* calls of a tab's save() that have not returned, one for a path
  quitQueue,    \* saveDirtyTabs: the list it goes through and the tabs in it that it
                \* has still to save; NoQuit when it does not run
  treeLoads,    \* calls of loadCollection that have not returned
  fileOps,      \* operations of the tree that have not returned
  diskText,     \* root -> path -> text of the file; 0 where there is none
  typedTexts,   \* texts made so far
  begun,        \* loads and operations begun so far
  windowOpen,   \* confirmAppClose has not been called
  savedTexts,   \* history: the texts that were once on disk
  lost          \* history: how texts that never were went away

workbenchVars == <<root, tabs, activeTabId, envs, envPath, modal, saves, quitQueue, treeLoads,
                   fileOps, diskText, typedTexts, begun, windowOpen, savedTexts, lost>>

NoModal == [kind |-> "none", id |-> Nothing]
NoQuit == [on |-> FALSE, ids |-> <<>>, left |-> {}, allOk |-> TRUE]

NoEnv == <<>>
EnvsOf(r) == {<<r, "dev">>}

WorkbenchInit ==
  /\ root = Nothing /\ tabs = <<>> /\ activeTabId = Nothing /\ envs = {} /\ envPath = NoEnv
  /\ modal = NoModal /\ saves = {} /\ quitQueue = NoQuit /\ treeLoads = {} /\ fileOps = {}
  /\ diskText = [r \in Collections |-> [p \in TabPaths |-> 1]]
  /\ typedTexts = 1 /\ begun = 0 /\ windowOpen = TRUE
  /\ savedTexts = {0, 1} /\ lost = {}

SavesOf(p) == {s \in saves : s.path = p}

Tab(p, text) == [path |-> p, dirty |-> FALSE, dirtyRef |-> FALSE, text |-> text, during |-> FALSE,
                 foreign |-> SavesOf(p) # {}]

IsOpen(p) == \E i \in DOMAIN tabs : tabs[i].path = p
At(p) == CHOOSE i \in DOMAIN tabs : tabs[i].path = p

-----------------------------------------------------------------------------
\* The reducer.

\* Variant: the tab that moved up is not looked for.
NeighborGone(rest, i) == Nothing

\* close-tab of the active tab: the one that moved into its place, or the last.
Neighbor(rest, i) ==
  IF rest = <<>> THEN Nothing ELSE rest[IF i <= Len(rest) THEN i ELSE Len(rest)].path

TabClosed(p) ==
  IF ~IsOpen(p) THEN UNCHANGED <<tabs, activeTabId>>
  ELSE LET i == At(p)
           rest == RemoveAt(tabs, i)
       IN /\ tabs' = rest
          /\ activeTabId' = IF activeTabId = p THEN Neighbor(rest, i) ELSE activeTabId

OpenTab(p, text) ==
  /\ activeTabId' = p
  /\ tabs' = IF IsOpen(p) THEN tabs ELSE Append(tabs, Tab(p, text))

\* How the texts of the tabs in ts that never were on disk came to be.
HowLost(ts, texts) ==
  {IF t.during THEN "typed during a save" ELSE "unasked" : t \in {u \in ts : u.text \notin texts}}

Losses(p, texts) == HowLost({t \in ToSet(tabs) : t.path = p}, texts)

-----------------------------------------------------------------------------
\* Loads.
Begins == begun < MaxLoads /\ begun' = begun + 1

\* loadCollection: openCollection by the user, lastCollection, or a change of files.
LoadCollection ==
  /\ Begins
  /\ \E r \in Collections : treeLoads' = treeLoads \cup {[root |-> r, at |-> "scan", open |-> Nothing]}
  /\ UNCHANGED <<root, tabs, activeTabId, envs, envPath, modal, saves, quitQueue, fileOps, diskText,
                 typedTexts, windowOpen, lost, savedTexts>>

\* collection-loaded: another root than the open one closes every tab.
CollectionLoaded ==
  /\ \E l \in treeLoads :
       /\ l.at = "scan"
       /\ \/ treeLoads' = treeLoads \ {l} /\ UNCHANGED <<root, tabs, activeTabId, envPath>>
          \/ /\ treeLoads' = (treeLoads \ {l}) \cup {[l EXCEPT !.at = "envs"]}
             /\ root' = l.root
             /\ IF root # Nothing /\ root # l.root
                THEN tabs' = <<>> /\ activeTabId' = Nothing /\ envPath' = NoEnv
                ELSE UNCHANGED <<tabs, activeTabId, envPath>>
  /\ UNCHANGED <<envs, modal, saves, quitQueue, fileOps, diskText, typedTexts, begun, windowOpen, lost, savedTexts>>

\* Variant: the environment that was chosen stays.
EnvKept(list) == envPath

EnvAfter(list) == IF envPath \in list THEN envPath ELSE NoEnv

\* set-envs, and the end of the load: a file that was made or moved is opened.
SetEnvs ==
  /\ \E l \in treeLoads, failed \in BOOLEAN :
       /\ l.at = "envs"
       /\ treeLoads' = treeLoads \ {l}
       /\ envs' = IF failed THEN {} ELSE EnvsOf(l.root)
       /\ envPath' = EnvAfter(envs')
       /\ IF l.open = Nothing THEN UNCHANGED <<tabs, activeTabId>> ELSE OpenTab(l.open, diskText[root][l.open])
  /\ UNCHANGED <<root, modal, saves, quitQueue, fileOps, diskText, typedTexts, begun, windowOpen, lost, savedTexts>>

SetEnv ==
  /\ modal = NoModal
  /\ envPath' \in envs \cup {NoEnv}
  /\ UNCHANGED <<root, tabs, activeTabId, envs, modal, saves, quitQueue, treeLoads, fileOps, diskText,
                 typedTexts, begun, windowOpen, lost, savedTexts>>

-----------------------------------------------------------------------------
\* Tabs.
OpenNode ==
  /\ modal = NoModal /\ root # Nothing
  /\ \E p \in TabPaths : diskText[root][p] # 0 /\ OpenTab(p, diskText[root][p])
  /\ UNCHANGED <<root, envs, envPath, modal, saves, quitQueue, treeLoads, fileOps, diskText, typedTexts,
                 begun, windowOpen, savedTexts, lost>>

\* activate-tab.
ActivateTab ==
  /\ modal = NoModal
  /\ \E i \in DOMAIN tabs : activeTabId' = tabs[i].path
  /\ UNCHANGED <<root, tabs, envs, envPath, modal, saves, quitQueue, treeLoads, fileOps, diskText, typedTexts,
                 begun, windowOpen, savedTexts, lost>>

\* touch() of the editor, which a file that could not be read does not have: only the
\* first edit of a clean editor tells the shell.
Touch ==
  /\ modal = NoModal /\ typedTexts < MaxTouches + 1
  /\ \E i \in DOMAIN tabs : tabs[i].text # 0 /\
       LET t == [tabs[i] EXCEPT !.text = typedTexts + 1, !.dirtyRef = TRUE,
                                !.during = @ \/ SavesOf(tabs[i].path) # {} \/ quitQueue.on]
       IN tabs' = [tabs EXCEPT ![i] = IF tabs[i].dirtyRef THEN t ELSE [t EXCEPT !.dirty = TRUE]]
  /\ typedTexts' = typedTexts + 1
  /\ UNCHANGED <<root, activeTabId, envs, envPath, modal, saves, quitQueue, treeLoads, fileOps, diskText,
                 begun, windowOpen, lost, savedTexts>>

\* save() of a tab up to its await, and what follows it; a file has one at a time.
SaveOf(p, then) == [root |-> root, path |-> p, text |-> tabs[At(p)].text, then |-> then]

StartTabSave ==
  /\ modal = NoModal
  /\ \E i \in DOMAIN tabs :
       SavesOf(tabs[i].path) = {} /\ saves' = saves \cup {SaveOf(tabs[i].path, "stay")}
  /\ UNCHANGED <<root, tabs, activeTabId, envs, envPath, modal, quitQueue, treeLoads, fileOps, diskText,
                 typedTexts, begun, windowOpen, lost, savedTexts>>

\* requestCloseTab.
RequestCloseTab ==
  /\ modal = NoModal
  /\ \E i \in DOMAIN tabs :
       LET p == tabs[i].path
       IN IF tabs[i].dirty
          THEN modal' = [kind |-> "close-tab", id |-> p] /\ UNCHANGED <<tabs, activeTabId, lost>>
          ELSE TabClosed(p) /\ lost' = lost \cup Losses(p, savedTexts) /\ UNCHANGED modal
  /\ UNCHANGED <<root, envs, envPath, saves, quitQueue, treeLoads, fileOps, diskText, typedTexts, begun,
                 windowOpen, savedTexts>>

\* `saving' of the shell, which disables the buttons of its dialogs.
Busy == quitQueue.on \/ \E s \in saves : s.then # "stay"

\* "Save" and "Don't Save" of the dialog.
CloseTabDialog ==
  /\ modal.kind = "close-tab" /\ ~Busy
  /\ \/ /\ IsOpen(modal.id) /\ SavesOf(modal.id) = {}
        /\ saves' = saves \cup {SaveOf(modal.id, "close")}
        /\ UNCHANGED <<tabs, activeTabId, modal>>
     \/ modal' = NoModal /\ TabClosed(modal.id) /\ UNCHANGED saves
  /\ UNCHANGED <<root, envs, envPath, quitQueue, treeLoads, fileOps, diskText, typedTexts, begun,
                 windowOpen, lost, savedTexts>>

\* A click beside the dialog closes it, busy or not.
CancelDialog ==
  /\ modal # NoModal /\ modal' = NoModal
  /\ UNCHANGED <<root, tabs, activeTabId, envs, envPath, saves, quitQueue, treeLoads, fileOps, diskText,
                 typedTexts, begun, windowOpen, lost, savedTexts>>

\* createWindow, appCloseConfirmed: the window closes without asking again.
ConfirmAppClose == windowOpen' = FALSE

\* The user closes the window: onAppBeforeClose.
AppBeforeClose ==
  /\ IF \E i \in DOMAIN tabs : tabs[i].dirty
     THEN modal' = [kind |-> "quit", id |-> Nothing] /\ UNCHANGED <<windowOpen, lost>>
     ELSE ConfirmAppClose /\ lost' = lost \cup HowLost(ToSet(tabs), savedTexts) /\ UNCHANGED modal
  /\ UNCHANGED <<root, tabs, activeTabId, envs, envPath, saves, quitQueue, treeLoads, fileOps, diskText,
                 typedTexts, begun, savedTexts>>

\* "Save All" and "Discard" of the dialog.
QuitDialog ==
  /\ modal.kind = "quit" /\ ~Busy
  /\ \/ /\ quitQueue' = [on |-> TRUE, ids |-> [i \in DOMAIN tabs |-> tabs[i].path],
                          left |-> {i \in DOMAIN tabs : tabs[i].dirty}, allOk |-> TRUE]
        /\ UNCHANGED <<modal, windowOpen>>
     \/ ConfirmAppClose /\ modal' = NoModal /\ UNCHANGED quitQueue
  /\ UNCHANGED <<root, tabs, activeTabId, envs, envPath, saves, treeLoads, fileOps, diskText, typedTexts,
                 begun, lost, savedTexts>>

\* Variant: a save that failed does not count.
QuitAnyway(q) == TRUE

\* What saveDirtyTabs returns.
AllSaved(q) == q.allOk

\* saveDirtyTabs: the next tab that was dirty is saved, or all have been and the window
\* closes.
SaveDirtyTabs ==
  /\ quitQueue.on /\ \A s \in saves : s.then # "quit"
  /\ \/ \E i \in quitQueue.left :
          LET p == quitQueue.ids[i]
          IN /\ \A j \in quitQueue.left : i <= j
             /\ IF IsOpen(p)
                THEN SavesOf(p) = {} /\ saves' = saves \cup {SaveOf(p, "quit")} /\ UNCHANGED quitQueue
                ELSE quitQueue' = [quitQueue EXCEPT !.left = @ \ {i}] /\ UNCHANGED saves
             /\ UNCHANGED <<modal, windowOpen, lost>>
     \/ /\ quitQueue.left = {} /\ quitQueue' = NoQuit /\ modal' = NoModal /\ UNCHANGED saves
        /\ IF AllSaved(quitQueue) THEN ConfirmAppClose /\ lost' = lost \cup HowLost(ToSet(tabs), savedTexts)
           ELSE UNCHANGED <<windowOpen, lost>>
  /\ UNCHANGED <<root, tabs, activeTabId, envs, envPath, treeLoads, fileOps, diskText, typedTexts, begun, savedTexts>>

\* Variant: clean() runs after a write that failed, too.
CleanedAnyway(t, s, ok) ==
  [t EXCEPT !.foreign = FALSE, !.dirty = FALSE, !.dirtyRef = @ /\ t.foreign,
            !.during = @ /\ t.text # s.text]

\* clean() after the write, which reaches the tab of that name, whichever editor made
\* it: the dirtyRef of another one stays; an unwritten text stays dirty.
Cleaned(t, s, ok) ==
  [t EXCEPT !.foreign = FALSE, !.dirty = @ /\ ~ok, !.dirtyRef = @ /\ (ok => t.foreign),
            !.during = @ /\ (ok => t.text # s.text)]

\* save() returns, and whoever called it goes on.
EndTabSave ==
  /\ \E s \in saves, ok \in BOOLEAN :
       /\ saves' = saves \ {s}
       /\ savedTexts' = IF ok THEN savedTexts \cup {s.text} ELSE savedTexts
       /\ diskText' = IF ok THEN [diskText EXCEPT ![s.root][s.path] = s.text] ELSE diskText
       /\ IF s.then = "close" /\ ok
          THEN TabClosed(s.path) /\ lost' = lost \cup Losses(s.path, savedTexts')
          ELSE /\ tabs' = [i \in DOMAIN tabs |-> IF tabs[i].path = s.path THEN Cleaned(tabs[i], s, ok) ELSE tabs[i]]
               /\ UNCHANGED <<activeTabId, lost>>
       /\ modal' = IF s.then = "close" THEN NoModal ELSE modal
       /\ quitQueue' = IF s.then = "quit"
                       THEN [quitQueue EXCEPT !.left = {i \in @ : quitQueue.ids[i] # s.path}, !.allOk = @ /\ ok]
                       ELSE quitQueue
  /\ UNCHANGED <<root, envs, envPath, treeLoads, fileOps, typedTexts, begun, windowOpen>>

-----------------------------------------------------------------------------
\* The tree: create, rename or move, delete.
StartFileOp ==
  /\ modal = NoModal /\ root # Nothing /\ Begins
  /\ \E op \in {"create", "rename", "delete"}, from, to \in TabPaths :
       /\ (op = "rename") = (from # to)
       /\ fileOps' = fileOps \cup {[op |-> op, root |-> root, from |-> from, to |-> to,
                                    affected |-> IsOpen(from) /\ op # "create"]}
  /\ UNCHANGED <<root, tabs, activeTabId, envs, envPath, modal, saves, quitQueue, treeLoads, diskText,
                 typedTexts, windowOpen, lost, savedTexts>>

\* The main process has done it, or refused; the tabs it touches close and the
\* collection it was begun in is loaded again.
EndFileOp ==
  /\ \E o \in fileOps :
       LET there == diskText[o.root][o.from] # 0
           free == diskText[o.root][o.to] = 0
           done == CASE o.op = "create" -> free
                     [] o.op = "rename" -> there /\ free
                     [] OTHER -> there
       IN /\ fileOps' = fileOps \ {o}
          /\ IF ~done THEN UNCHANGED <<diskText, tabs, activeTabId, treeLoads>>
             ELSE /\ diskText' = CASE o.op = "create" -> [diskText EXCEPT ![o.root][o.to] = 1]
                               [] o.op = "rename" ->
                                    [diskText EXCEPT ![o.root][o.to] = diskText[o.root][o.from],
                                                 ![o.root][o.from] = 0]
                               [] OTHER -> [diskText EXCEPT ![o.root][o.from] = 0]
                  /\ IF o.affected THEN TabClosed(o.from) ELSE UNCHANGED <<tabs, activeTabId>>
                  /\ treeLoads' = treeLoads \cup
                       {[root |-> o.root, at |-> "scan",
                         open |-> IF o.op = "create" \/ (o.op = "rename" /\ o.affected) THEN o.to
                                  ELSE Nothing]}
  /\ UNCHANGED <<root, envs, envPath, modal, saves, quitQueue, typedTexts, begun, windowOpen, lost, savedTexts>>

\* Nothing goes on once the window is closed, or between the last save of
\* saveDirtyTabs and what its caller does at once.
Running == windowOpen /\ (quitQueue.on => quitQueue.left # {})

WorkbenchNext ==
  \/ Running /\ LoadCollection
  \/ Running /\ CollectionLoaded
  \/ Running /\ SetEnvs
  \/ Running /\ SetEnv
  \/ Running /\ OpenNode
  \/ Running /\ ActivateTab
  \/ Running /\ Touch
  \/ Running /\ StartTabSave
  \/ Running /\ EndTabSave
  \/ Running /\ RequestCloseTab
  \/ Running /\ CloseTabDialog
  \/ Running /\ CancelDialog
  \/ Running /\ AppBeforeClose
  \/ Running /\ QuitDialog
  \/ Running /\ StartFileOp
  \/ Running /\ EndFileOp
  \/ windowOpen /\ SaveDirtyTabs

WorkbenchSpec == WorkbenchInit /\ [][WorkbenchNext]_workbenchVars

-----------------------------------------------------------------------------
\* Whatever is awaited when the user closes a tab or the window, a text that is on no
\* disk is not dropped without a question unless it was typed while a save of its tab
\* was under way (a rename, a deletion or another collection closes tabs all the same);
\* and the tabs stay usable: one of them is shown when there are any, no file has two,
\* and the chosen environment is one of those listed.
EditsAreLostByChoice ==
  /\ "unasked" \notin lost
  /\ (activeTabId = Nothing) = (tabs = <<>>)
  /\ activeTabId # Nothing => IsOpen(activeTabId)
  /\ \A i, j \in DOMAIN tabs : tabs[i].path = tabs[j].path => i = j
  /\ envPath # NoEnv => envPath \in envs

\* "Closing a tab with unsaved edits prompts first": a text that is on no disk, and was
\* typed in a tab the user closes or in a window the user closes, is asked for.
ClosingPromptsFirst == lost = {}
=============================================================================
