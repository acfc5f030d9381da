------------------------------- MODULE Shell -------------------------------
(***************************************************************************)
(* The app's shell in the main process: which collection is open           *)
(* (main/current-root.ts), the settings file (main/settings.ts) and the    *)
(* MCP server toggle of the Tools menu (main/mcp-server/app-toggle.ts over *)
(* engine/mcp-http.ts).  Opening a collection tells the toggle, and saves  *)
(* the collection for the next launch.                                     *)
(***************************************************************************)
EXTENDS Naturals, FiniteSets

CONSTANTS
  Roots,      \* collections
  NoRoot,     \* none is open
  Starts,     \* bound: clicks on the toggle that start the MCP server
  Updates     \* bound: calls of writeSettings

ASSUME ShellAssumption == NoRoot \notin Roots /\ "torn" \notin Roots \cup {NoRoot}

VARIABLES
  currentRoot,  \* the open collection
  file,         \* settings.json: its two keys, or Torn while it is not JSON
  update,       \* [Updates -> ...] a call of writeSettings
  mcpStart,     \* [Starts -> ...] a call of startAppMcpServer, and its collection
  running,      \* the call whose handle the toggle holds, a set of at most one
  bound,        \* calls whose listener is bound; they all ask for one port
  overtaken,    \* history: calls during which another collection was opened
  saved,        \* history: what the file should hold
  spoiled       \* history: two updates overlapped, or the app died within one

shellVars == <<currentRoot, file, update, mcpStart, running, bound, overtaken, saved, spoiled>>
toggle == <<mcpStart, running, bound, overtaken>>
persisted == <<file, update, saved, spoiled>>

Keys == {"lastRoot", "proxy"}
Torn == [k \in Keys |-> "torn"]
Idle == [stage |-> "idle", patch |-> [k \in {} |-> NoRoot], next |-> Torn]

ShellInit ==
  /\ currentRoot = NoRoot
  /\ file = [k \in Keys |-> NoRoot]
  /\ update = [u \in Updates |-> Idle]
  /\ mcpStart = [c \in Starts |-> [stage |-> "idle", root |-> NoRoot]]
  /\ running = {} /\ bound = {} /\ overtaken = {}
  /\ saved = [k \in Keys |-> NoRoot]
  /\ spoiled = FALSE

-----------------------------------------------------------------------------
\* A corrupt file counts as an empty one.
ReadSettings == IF file = Torn THEN [k \in Keys |-> NoRoot] ELSE file

InProgress == {u \in Updates : update[u].stage \in {"read", "write"}}

BeginUpdate(u, patch) ==
  /\ update[u].stage = "idle"
  /\ update' = [update EXCEPT ![u] = [@ EXCEPT !.stage = "read", !.patch = patch]]
  /\ spoiled' = (spoiled \/ InProgress # {})

\* Variant: the patch replaces the settings.
MergeNothing(u) == [k \in Keys |-> IF k \in DOMAIN update[u].patch THEN update[u].patch[k] ELSE NoRoot]

Merge(u) == [k \in Keys |-> IF k \in DOMAIN update[u].patch THEN update[u].patch[k] ELSE ReadSettings[k]]

\* What was read is merged with the patch; writeFile first truncates the file...
ReadAndTruncate(u) ==
  /\ update[u].stage = "read"
  /\ update' = [update EXCEPT ![u] = [@ EXCEPT !.stage = "write", !.next = Merge(u)]]
  /\ file' = Torn
  /\ UNCHANGED <<currentRoot, toggle, saved, spoiled>>

\* ... and then fills it.  Two that write at once may leave a mixture.
WriteSettings(u) ==
  /\ update[u].stage = "write"
  /\ update' = [update EXCEPT ![u] = [Idle EXCEPT !.stage = "done"]]
  /\ file' \in {update[u].next} \cup (IF InProgress = {u} THEN {} ELSE {Torn})
  /\ saved' = [k \in Keys |-> IF k \in DOMAIN update[u].patch THEN update[u].patch[k] ELSE saved[k]]
  /\ UNCHANGED <<currentRoot, toggle, spoiled>>

\* startAppProxy saves its target and ports under other keys.
SaveProxyPorts(u) ==
  /\ \E v \in Roots : BeginUpdate(u, [k \in {"proxy"} |-> v])
  /\ UNCHANGED <<currentRoot, toggle, file, saved>>

-----------------------------------------------------------------------------
InFlight == {c \in Starts : mcpStart[c].stage \in {"settings", "listen"}}

\* Variant: the handle is dropped without being closed.
OnRootChangeDrops(root) ==
  /\ running' = {c \in running : mcpStart[c].root = root}
  /\ bound' = bound
  /\ overtaken' = overtaken \cup {c \in InFlight : mcpStart[c].root # root}

\* The root listener of the toggle: a server of another collection is stopped.
OnRootChange(root) ==
  LET stale == {c \in running : mcpStart[c].root # root}
  IN  /\ running' = running \ stale
      /\ bound' = bound \ stale
      /\ overtaken' = overtaken \cup {c \in InFlight : mcpStart[c].root # root}

SetCurrentRoot(root) ==
  /\ currentRoot' = root
  /\ IF root = currentRoot THEN UNCHANGED <<running, bound, overtaken>> ELSE OnRootChange(root)

\* The folder picker makes its choice current before the renderer scans it.
CollectionOpen(root) ==
  /\ root # currentRoot
  /\ SetCurrentRoot(root)
  /\ UNCHANGED <<mcpStart, persisted>>

\* Every load of a collection comes here, and is remembered.
CollectionScan(u, root) ==
  /\ SetCurrentRoot(root)
  /\ BeginUpdate(u, [k \in {"lastRoot"} |-> root])
  /\ UNCHANGED <<mcpStart, file, saved>>

\* The next launch: what runs and what is in progress is gone, and the renderer
\* opens the last collection, if its folder is still there.
Relaunch ==
  /\ currentRoot # NoRoot
  /\ currentRoot' \in {ReadSettings["lastRoot"], NoRoot}
  /\ update' = [u \in Updates |-> IF u \in InProgress THEN [Idle EXCEPT !.stage = "done"] ELSE update[u]]
  /\ mcpStart' = [c \in Starts |-> IF c \in InFlight THEN [mcpStart[c] EXCEPT !.stage = "over"] ELSE mcpStart[c]]
  /\ running' = {} /\ bound' = {}
  /\ spoiled' = (spoiled \/ InProgress # {})
  /\ UNCHANGED <<file, overtaken, saved>>

-----------------------------------------------------------------------------
\* toggleAppMcpServer when nothing runs: the collection is taken before the first await.
StartAppMcpServer(c) ==
  /\ running = {} /\ mcpStart[c].stage = "idle"
  /\ IF currentRoot = NoRoot
       THEN mcpStart' = [mcpStart EXCEPT ![c].stage = "over"]
       ELSE mcpStart' = [mcpStart EXCEPT ![c] = [stage |-> "settings", root |-> currentRoot]]
  /\ UNCHANGED <<currentRoot, persisted, running, bound, overtaken>>

PortRead(c) ==
  /\ mcpStart[c].stage = "settings"
  /\ mcpStart' = [mcpStart EXCEPT ![c].stage = "listen"]
  /\ UNCHANGED <<currentRoot, persisted, running, bound, overtaken>>

\* The listener is bound, and the toggle holds its handle in the same turn; or
\* the port is taken, by one of these calls or by another program.
Listen(c) ==
  /\ mcpStart[c].stage = "listen"
  /\ \/ /\ bound = {}
        /\ bound' = {c} /\ running' = {c}
        /\ mcpStart' = [mcpStart EXCEPT ![c].stage = "up"]
     \/ /\ mcpStart' = [mcpStart EXCEPT ![c].stage = "over"]
        /\ UNCHANGED <<running, bound>>
  /\ UNCHANGED <<currentRoot, persisted, overtaken>>

\* close() releases the port at once; only what is connected lingers.
StopAppMcpServer ==
  /\ running # {}
  /\ running' = {}
  /\ bound' = bound \ running
  /\ UNCHANGED <<currentRoot, persisted, mcpStart, overtaken>>

ShellNext ==
  \/ \E root \in Roots : CollectionOpen(root) \/ \E u \in Updates : CollectionScan(u, root)
  \/ \E u \in Updates : SaveProxyPorts(u) \/ ReadAndTruncate(u) \/ WriteSettings(u)
  \/ \E c \in Starts : StartAppMcpServer(c) \/ PortRead(c) \/ Listen(c)
  \/ StopAppMcpServer \/ Relaunch

ShellSpec == ShellInit /\ [][ShellNext]_shellVars

-----------------------------------------------------------------------------
\* The server that runs serves the open collection (current-root.ts:6-8), unless it
\* was switched while the server was starting; and however starts, stops and switches interleave, the listener that is
\* bound is the one the toggle can stop.
ToggleIsInControl ==
  /\ \A c \in running \ overtaken : mcpStart[c].root = currentRoot
  /\ bound = running

\* Updates that do not overlap and are not cut short lose nothing of one
\* another, so that the next launch opens the collection scanned last.
SettingsSurvive == ~spoiled /\ InProgress = {} => file = saved

\* Calls that overlap lose neither a server nor a setting.
OverlapsAreContained == ToggleIsInControl /\ SettingsSurvive
=============================================================================
