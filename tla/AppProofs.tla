------------------------------ MODULE AppProofs ------------------------------
(***************************************************************************)
(* Proofs about the modules of the application around its engine: Shell,   *)
(* McpConsent, CollectionFiles, Cli, Sandbox, Streams, Environments,       *)
(* Workbench and the relay of WebSockets.  A section each: the inductive   *)
(* invariant with what its parts say, the lemmas about the actions, the    *)
(* step, and the theorem.                                                  *)
(***************************************************************************)
EXTENDS Shell, McpConsent, CollectionFiles, Cli, Sandbox, Streams, Environments,
        Workbench, WsRelay, SequenceTheorems, TLAPS

(***************************************************************************)
(* Shell: overlapping toggles, switches and updates.                       *)
(***************************************************************************)
Kept == [Keys -> Roots \cup {NoRoot}]
Patches == [{"lastRoot"} -> Roots] \cup [{"proxy"} -> Roots]

\* A start that was not overtaken is for the open collection, before it is up and after.
StartsFit ==
  /\ bound = running
  /\ \A c \in running : mcpStart[c].stage = "up"
  /\ \A c \in (running \cup InFlight) \ overtaken : mcpStart[c].root = currentRoot

\* While nothing overlapped, the one update in progress has the file to itself.
OneUpdate ==
  ~spoiled =>
    /\ \A u, v \in InProgress : u = v
    /\ (\A u \in Updates : update[u].stage # "write") => file = saved
    /\ \A u \in Updates : update[u].stage = "write" =>
         /\ file = Torn
         /\ update[u].next = [k \in Keys |-> IF k \in DOMAIN update[u].patch THEN update[u].patch[k] ELSE saved[k]]

UpdateTypes ==
  /\ file \in Kept \cup {Torn} /\ saved \in Kept /\ spoiled \in BOOLEAN
  /\ update \in [Updates -> [stage : {"idle", "read", "write", "done"},
                             patch : Patches \cup {Idle.patch}, next : Kept \cup {Torn}]]

ToggleTypes ==
  /\ currentRoot \in Roots \cup {NoRoot}
  /\ mcpStart \in [Starts -> [stage : {"idle", "settings", "listen", "up", "over"},
                              root : Roots \cup {NoRoot}]]
  /\ running \in SUBSET Starts
ToggleInv == ToggleTypes /\ StartsFit

UpdateInv == UpdateTypes /\ OneUpdate

\* A switch of the collection overtakes the starts under way and stops what runs.
LEMMA RootChangeKeepsToggle ==
  ASSUME ToggleInv, NEW opened \in Roots, SetCurrentRoot(opened), UNCHANGED mcpStart PROVE ToggleInv'
BY DEF ToggleInv, ToggleTypes, StartsFit, SetCurrentRoot, OnRootChange, InFlight

\* The toggle's part of the invariant is inductive.
LEMMA ToggleNextInv == ToggleInv /\ UpdateTypes /\ [ShellNext]_shellVars => ToggleInv'
<1> SUFFICES ASSUME ToggleInv, UpdateTypes, [ShellNext]_shellVars PROVE ToggleInv'
  OBVIOUS
<1>0. UNCHANGED <<currentRoot, mcpStart, running, bound, overtaken>> => ToggleInv'
  BY DEF ToggleInv, ToggleTypes, StartsFit, InFlight
<1>1. ASSUME NEW opened \in Roots, CollectionOpen(opened) PROVE ToggleInv'
  BY <1>1, RootChangeKeepsToggle DEF CollectionOpen
<1>2. ASSUME NEW opened \in Roots, NEW u \in Updates, CollectionScan(u, opened) PROVE ToggleInv'
  BY <1>2, RootChangeKeepsToggle DEF CollectionScan
<1>3. ASSUME NEW u \in Updates, SaveProxyPorts(u) \/ ReadAndTruncate(u) \/ WriteSettings(u) PROVE ToggleInv'
  BY <1>3, <1>0 DEF SaveProxyPorts, ReadAndTruncate, WriteSettings, toggle
<1>4. ASSUME NEW c \in Starts, StartAppMcpServer(c) PROVE ToggleInv'
  BY <1>4 DEF StartAppMcpServer, ToggleInv, ToggleTypes, StartsFit, InFlight
<1>5. ASSUME NEW c \in Starts, PortRead(c) PROVE ToggleInv'
  BY <1>5 DEF PortRead, ToggleInv, ToggleTypes, StartsFit, InFlight
<1>6. ASSUME NEW c \in Starts, Listen(c) PROVE ToggleInv'
  BY <1>6 DEF Listen, ToggleInv, ToggleTypes, StartsFit, InFlight
<1>7. CASE StopAppMcpServer
  BY <1>7 DEF StopAppMcpServer, ToggleInv, ToggleTypes, StartsFit, InFlight
<1>8. CASE Relaunch
  <2>1. currentRoot' \in Roots \cup {NoRoot}
    <3>1. ReadSettings["lastRoot"] = NoRoot \/ ReadSettings["lastRoot"] = file["lastRoot"]
      BY DEF ReadSettings, Keys
    <3>2. file["lastRoot"] \in Roots \cup {NoRoot} \/ file = Torn
      BY DEF UpdateTypes, Kept, Keys
    <3>3. file = Torn => ReadSettings["lastRoot"] = NoRoot
      BY DEF ReadSettings, Keys
    <3>. QED BY <1>8, <3>1, <3>2, <3>3 DEF Relaunch
  <2>. QED BY <1>8, <2>1 DEF Relaunch, ToggleInv, ToggleTypes, StartsFit, InFlight
<1>9. CASE UNCHANGED shellVars
  BY <1>9, <1>0 DEF shellVars
<1>. QED
  BY <1>1, <1>2, <1>3, <1>4, <1>5, <1>6, <1>7, <1>8, <1>9 DEF ShellNext

\* An update begins, alone or not.
LEMMA BeginKeepsFile ==
  ASSUME UpdateInv, NEW u \in Updates, NEW patch \in Patches, BeginUpdate(u, patch), UNCHANGED <<file, saved>>
  PROVE UpdateInv'
<1>1. UpdateTypes'
  BY DEF UpdateInv, UpdateTypes, BeginUpdate
<1>2. \A v \in Updates : v # u => update'[v] = update[v]
  BY DEF UpdateInv, UpdateTypes, BeginUpdate
<1>3. update'[u].stage = "read"
  BY DEF UpdateInv, UpdateTypes, BeginUpdate
<1>4. spoiled' \/ (~spoiled /\ InProgress = {})
  BY DEF BeginUpdate
<1>5. ASSUME ~spoiled, InProgress = {} PROVE OneUpdate'
  <2>1. \A v \in Updates : v # u => update'[v].stage \notin {"read", "write"}
    BY <1>2, <1>5 DEF InProgress
  <2>. QED BY <1>3, <1>5, <2>1 DEF UpdateInv, OneUpdate, InProgress
<1>. QED BY <1>1, <1>4, <1>5 DEF UpdateInv, OneUpdate

\* The settings file's part of the invariant is inductive.
LEMMA UpdateNextInv == UpdateInv /\ ToggleTypes /\ [ShellNext]_shellVars => UpdateInv'
<1> SUFFICES ASSUME UpdateInv, ToggleTypes, [ShellNext]_shellVars PROVE UpdateInv'
  OBVIOUS
<1>0. UNCHANGED <<file, update, saved, spoiled>> => UpdateInv'
  BY DEF UpdateInv, UpdateTypes, OneUpdate, InProgress
<1>1. ASSUME NEW opened \in Roots, CollectionOpen(opened) PROVE UpdateInv'
  BY <1>1, <1>0 DEF CollectionOpen, persisted
<1>2. ASSUME NEW opened \in Roots, NEW u \in Updates, CollectionScan(u, opened) PROVE UpdateInv'
  <2>1. [k \in {"lastRoot"} |-> opened] \in Patches
    BY DEF Patches, Keys
  <2>. QED BY <1>2, <2>1, BeginKeepsFile DEF CollectionScan
<1>3. ASSUME NEW u \in Updates, SaveProxyPorts(u) PROVE UpdateInv'
  <2>1. \A v \in Roots : [k \in {"proxy"} |-> v] \in Patches
    BY DEF Patches, Keys
  <2>. QED BY <1>3, <2>1, BeginKeepsFile DEF SaveProxyPorts
<1>4. ASSUME NEW u \in Updates, ReadAndTruncate(u) PROVE UpdateInv'
  <2>1. ReadSettings \in Kept
    BY DEF UpdateInv, UpdateTypes, ReadSettings, Kept
  <2>2. update[u].patch \in Patches \cup {Idle.patch}
    BY DEF UpdateInv, UpdateTypes
  <2>3. \A k \in DOMAIN update[u].patch : update[u].patch[k] \in Roots
    BY <2>2 DEF Patches, Idle
  <2>4. Merge(u) \in Kept
    BY <2>1, <2>3 DEF Merge, Kept
  <2>5. UpdateTypes'
    BY <1>4, <2>4 DEF UpdateInv, UpdateTypes, ReadAndTruncate
  <2>6. /\ update'[u].stage = "write" /\ update'[u].patch = update[u].patch /\ update'[u].next = Merge(u)
        /\ \A v \in Updates : v # u => update'[v] = update[v]
        /\ file' = Torn /\ saved' = saved /\ spoiled' = spoiled /\ update[u].stage = "read"
    BY <1>4 DEF UpdateInv, UpdateTypes, ReadAndTruncate
  <2>7. ASSUME ~spoiled PROVE OneUpdate'
    <3>1. \A v \in Updates : v # u => update[v].stage \notin {"read", "write"}
      BY <2>6, <2>7 DEF UpdateInv, OneUpdate, InProgress
    <3>2. file = saved
      BY <2>6, <2>7, <3>1 DEF UpdateInv, OneUpdate
    <3>3. file # Torn
      <4>1. saved["proxy"] \in Roots \cup {NoRoot}
        BY DEF UpdateInv, UpdateTypes, Kept, Keys
      <4>. QED BY <4>1, <3>2, ShellAssumption DEF Torn, Keys
    <3>4. Merge(u) = [k \in Keys |-> IF k \in DOMAIN update[u].patch THEN update[u].patch[k] ELSE saved[k]]
      BY <3>2, <3>3 DEF Merge, ReadSettings
    <3>. QED BY <2>6, <3>1, <3>4 DEF OneUpdate, InProgress
  <2>. QED BY <2>5, <2>6, <2>7 DEF UpdateInv, OneUpdate
<1>5. ASSUME NEW u \in Updates, WriteSettings(u) PROVE UpdateInv'
  <2>2. update[u].patch \in Patches \cup {Idle.patch}
    BY DEF UpdateInv, UpdateTypes
  <2>3. \A k \in DOMAIN update[u].patch : update[u].patch[k] \in Roots
    BY <2>2 DEF Patches, Idle
  <2>4. saved' \in Kept
    BY <1>5, <2>3 DEF UpdateInv, UpdateTypes, WriteSettings, Kept
  <2>5. file' \in Kept \cup {Torn} /\ spoiled' = spoiled
    BY <1>5 DEF UpdateInv, UpdateTypes, WriteSettings
  <2>6. /\ update'[u].stage = "done"
        /\ \A v \in Updates : v # u => update'[v] = update[v]
        /\ update[u].stage = "write"
    BY <1>5 DEF UpdateInv, UpdateTypes, WriteSettings, Idle
  <2>7. UpdateTypes'
    <3>1. [Idle EXCEPT !.stage = "done"] \in [stage : {"idle", "read", "write", "done"},
                             patch : Patches \cup {Idle.patch}, next : Kept \cup {Torn}]
      BY DEF Idle
    <3>. QED BY <1>5, <2>4, <2>5, <3>1 DEF UpdateInv, UpdateTypes, WriteSettings
  <2>8. ASSUME ~spoiled PROVE OneUpdate'
    <3>1. \A v \in Updates : v # u => update[v].stage \notin {"read", "write"}
      BY <2>6, <2>8 DEF UpdateInv, OneUpdate, InProgress
    <3>2. InProgress = {u}
      BY <2>6, <3>1 DEF InProgress
    <3>3. file' = update[u].next
      BY <1>5, <3>2 DEF WriteSettings
    <3>4. file' = saved'
      BY <1>5, <2>6, <2>8, <3>3 DEF WriteSettings, UpdateInv, OneUpdate
    <3>. QED BY <2>6, <3>1, <3>4 DEF OneUpdate, InProgress
  <2>. QED BY <2>5, <2>7, <2>8 DEF UpdateInv, OneUpdate
<1>6. ASSUME NEW c \in Starts, StartAppMcpServer(c) \/ PortRead(c) \/ Listen(c) PROVE UpdateInv'
  BY <1>6, <1>0 DEF StartAppMcpServer, PortRead, Listen, persisted
<1>7. CASE StopAppMcpServer
  BY <1>7, <1>0 DEF StopAppMcpServer, persisted
<1>8. CASE Relaunch
  <2>1. UpdateTypes'
    <3>1. [Idle EXCEPT !.stage = "done"] \in [stage : {"idle", "read", "write", "done"},
                             patch : Patches \cup {Idle.patch}, next : Kept \cup {Torn}]
      BY DEF Idle
    <3>. QED BY <1>8, <3>1 DEF UpdateInv, UpdateTypes, Relaunch
  <2>2. ASSUME ~spoiled, InProgress = {} PROVE OneUpdate'
    <3>1. \A u \in Updates : update'[u] = update[u]
      BY <1>8, <2>2 DEF Relaunch
    <3>. QED BY <1>8, <2>2, <3>1 DEF Relaunch, UpdateInv, OneUpdate, InProgress
  <2>. QED BY <1>8, <2>1, <2>2 DEF UpdateInv, OneUpdate, Relaunch
<1>9. CASE UNCHANGED shellVars
  BY <1>9, <1>0 DEF shellVars
<1>. QED
  BY <1>1, <1>2, <1>3, <1>4, <1>5, <1>6, <1>7, <1>8, <1>9 DEF ShellNext

\* However starts, stops, switches and updates overlap: the server that is bound is the one the
\* toggle can stop, and updates that do not overlap lose nothing (app-toggle.ts, settings.ts).
THEOREM OverlapsContained == ShellSpec => []OverlapsAreContained
<1>1. ShellInit => ToggleInv /\ UpdateInv
  <2> SUFFICES ASSUME ShellInit PROVE ToggleInv /\ UpdateInv
    OBVIOUS
  <2>1. ToggleInv
    BY DEF ShellInit, ToggleInv, ToggleTypes, StartsFit, InFlight
  <2>2. UpdateTypes
    BY DEF ShellInit, UpdateTypes, Kept, Idle
  <2>3. OneUpdate
    BY DEF ShellInit, OneUpdate, InProgress, Idle
  <2>. QED BY <2>1, <2>2, <2>3 DEF UpdateInv
<1>2. ToggleInv /\ UpdateInv => OverlapsAreContained
  BY DEF ToggleInv, UpdateInv, StartsFit, OneUpdate, OverlapsAreContained, ToggleIsInControl, SettingsSurvive, InProgress
<1>. DEFINE I == ToggleInv /\ UpdateInv
<1>3. I /\ [ShellNext]_shellVars => I'
  BY ToggleNextInv, UpdateNextInv DEF ToggleInv, UpdateInv
<1>4. ShellInit => I
  BY <1>1
<1>5. I => OverlapsAreContained
  BY <1>2
<1>. HIDE DEF I
<1>. QED
  BY <1>3, <1>4, <1>5, PTL DEF ShellSpec

-----------------------------------------------------------------------------
(***************************************************************************)
(* McpConsent: what is spawned was approved in the dialog.                 *)
(***************************************************************************)
ConsentSteps == {"unused", "dialog", "asked", "passed", "spawned", "over"}

ConsentTypes ==
  /\ mcpFile \in Files /\ editor \in Files
  /\ run \in [Runs -> [way : Ways \cup {"workflow"}, model : Files, step : ConsentSteps, edited : BOOLEAN]]
  /\ spawned \in [Runs -> Files]

Approved(f) == NeedsConsent(f) => f \in said

\* What the gate has let pass was approved: the model that was sent along, or, for a tool, the
\* file as it is until somebody edits it.
GateHolds ==
  /\ approved \subseteq said
  /\ \A r \in Runs :
       /\ run[r].step \in {"unused", "dialog", "asked", "passed"} => spawned[r] = Url
       /\ run[r].step = "passed" =>
            CASE run[r].way = "workflow" -> TRUE
              [] run[r].way = "tool" -> run[r].edited \/ Approved(mcpFile)
              [] OTHER -> Approved(run[r].model)
       /\ run[r].step \in {"dialog", "asked"} => run[r].way \notin {"tool", "workflow"}

ConsentInv == ConsentTypes /\ GateHolds /\ SpawnsAreApproved

\* The invariant is inductive.
LEMMA ConsentNextInv == ConsentInv /\ [ConsentNext]_consentVars => ConsentInv'
<1> SUFFICES ASSUME ConsentInv, [ConsentNext]_consentVars PROVE ConsentInv'
  OBVIOUS
<1> USE ConsentAssumption
    DEF ConsentInv, ConsentTypes, GateHolds, SpawnsAreApproved, Approved, NeedsConsent, ConsentSteps, Files,
        Ways, Step, IsSpawnApproved, Unasked
<1>1. CASE Edit BY <1>1 DEF Edit
<1>2. CASE Save
  <2>1. mcpFile' \in Files /\ UNCHANGED <<editor, approved, said, spawned>>
    BY <1>2 DEF Save
  <2>2. \A r \in Runs : /\ run'[r].way = run[r].way /\ run'[r].model = run[r].model
                        /\ run'[r].step = run[r].step
                        /\ run[r].edited => run'[r].edited
                        /\ run[r].step = "passed" => run'[r].edited
    BY <1>2 DEF Save
  <2>3. ConsentTypes'
    BY <1>2 DEF Save
  <2>. QED BY <2>1, <2>2, <2>3
<1>3. CASE StoreLost BY <1>3 DEF StoreLost
<1>4. ASSUME NEW r \in Runs, CheckMcpConsent(r) PROVE ConsentInv'
  BY <1>4 DEF CheckMcpConsent
<1>5. ASSUME NEW r \in Runs, ApproveSpawn(r) PROVE ConsentInv'
  BY <1>5 DEF ApproveSpawn
<1>6. ASSUME NEW r \in Runs, Decline(r) PROVE ConsentInv'
  BY <1>6 DEF Decline
<1>7. ASSUME NEW r \in Runs, RequireSpawnConsent(r) PROVE ConsentInv'
  BY <1>7 DEF RequireSpawnConsent
<1>8. ASSUME NEW r \in Runs, RunRequestTool(r) PROVE ConsentInv'
  BY <1>8 DEF RunRequestTool
<1>9. ASSUME NEW r \in Runs, WorkflowStep(r) PROVE ConsentInv'
  BY <1>9 DEF WorkflowStep
<1>10. ASSUME NEW r \in Runs, Spawn(r) PROVE ConsentInv'
  BY <1>10 DEF Spawn
<1>11. ASSUME NEW r \in Runs, Introspected(r) PROVE ConsentInv'
  BY <1>11 DEF Introspected
<1>12. CASE UNCHANGED consentVars BY <1>12 DEF consentVars
<1>. QED
  BY <1>1, <1>2, <1>3, <1>4, <1>5, <1>6, <1>7, <1>8, <1>9, <1>10, <1>11, <1>12 DEF ConsentNext

\* For any command lines and any number of runs: nothing is spawned that the user has not approved,
\* but for the two ways that are weaker (main/mcp-consent.ts, main/mcp-server/tools.ts).
THEOREM NothingSpawnsUnasked == ConsentSpec => []SpawnsAreApproved
<1>1. ConsentInit => ConsentInv
  BY ConsentAssumption
  DEF ConsentInit, ConsentInv, ConsentTypes, GateHolds, SpawnsAreApproved, NeedsConsent, ConsentSteps, Files, Ways,
      Unasked
<1>2. ConsentSpec => []ConsentInv
  BY <1>1, ConsentNextInv, PTL DEF ConsentSpec
<1>3. ConsentInv => SpawnsAreApproved
  BY DEF ConsentInv
<1>. QED BY <1>2, <1>3, PTL

-----------------------------------------------------------------------------
(***************************************************************************)
(* CollectionFiles: handlers that do not overlap lose no file.             *)
(***************************************************************************)
WaitingStages == {"write", "move", "example"}
HealingStages == {"heal", "heal write"}
FileDocs == Handlers \cup {Given, NoDocument}
MovingCalls == {"rename", "move", "folder"}

FileCalls ==
  [does : {"nothing", "create", "save example", "delete example"} \cup MovingCalls,
   stage : {"unused", "over"} \cup WaitingStages \cup HealingStages, moves : SUBSET (Places \X Places),
   at : Places \cup (Folders \X Folders), view : SUBSET Handlers]

\* A move is of one file, or of a folder.
ShapedCall(c) ==
  c.stage = "move" =>
    /\ c.does = "folder" => c.at \in Folders \X Folders
    /\ c.does # "folder" => \E from, to \in Places : from # to /\ c.moves = {<<from, to>>}

FilesTypes ==
  /\ disk \in [Places -> FileDocs] /\ stepRef \in Places /\ meant \in FileDocs
  /\ handler \in [Handlers -> FileCalls]
  /\ examples \in SUBSET Handlers /\ keptNames \in SUBSET Handlers
  /\ alive \in SUBSET (Handlers \cup {Given}) /\ muddled \in BOOLEAN
  /\ \A h \in Handlers : handler[h].stage \in {"write", "heal write"} => handler[h].at \in Places
  /\ \A h \in Handlers : ShapedCall(handler[h])

\* A document is named by a handler that has written it.
DocsAreOld ==
  \A h \in Handlers :
    handler[h].stage # "over" => h \notin alive /\ h # meant /\ \A p \in Places : disk[p] # h

\* What a handler that waits for its leap has looked at is still so.
LookHolds(c, d, kept) ==
  /\ c.stage = "write" => d[c.at] = NoDocument
  /\ c.stage = "example" => c.view = kept
  /\ c.stage = "move" =>
       /\ c.does \in MovingCalls
       /\ c.does # "folder" =>
            \E from, to \in Places : from # to /\ d[to] = NoDocument /\ c.moves = {<<from, to>>}
       /\ c.does = "folder" =>
            /\ c.at \in Folders \X Folders /\ c.at[1] # c.at[2]
            /\ c.moves = {<<p, <<c.at[2], p[2]>>>> : p \in {q \in Places : q[1] = c.at[1] /\ d[q] # NoDocument}}

\* Where the step's document is, while the step is healed and otherwise.
StepLeads ==
  meant \in alive =>
    /\ (\A h \in Handlers : handler[h].stage \notin HealingStages) => disk[stepRef] = meant
    /\ \A h \in Handlers : handler[h].stage = "heal" => disk[Healed(h, stepRef)] = meant
    /\ \A h \in Handlers : handler[h].stage = "heal write" => disk[handler[h].at] = meant

Unmuddled ==
  /\ \A h, i \in Active : h = i
  /\ \A h \in Handlers : LookHolds(handler[h], disk, examples)
  /\ \A d \in alive : \E p \in Places : disk[p] = d
  /\ examples = keptNames
  /\ StepLeads

FilesInv == FilesTypes /\ DocsAreOld /\ (~muddled => Unmuddled)

\* A call that begins, typed, and with what it has looked at.
SoundLook(h, does, stage, moves, at) ==
  /\ Begin(h, does, stage, moves, at)
  /\ does \in {"create", "save example", "delete example"} \cup MovingCalls
  /\ stage \in WaitingStages
  /\ moves \in SUBSET (Places \X Places)
  /\ at \in Places \cup (Folders \X Folders)
  /\ stage = "write" => at \in Places
  /\ LookHolds([does |-> does, stage |-> stage, moves |-> moves, at |-> at, view |-> examples], disk, examples)

\* A handler begins, with what it has looked at.
LEMMA FilesBegin ==
  ASSUME FilesInv, NEW h \in Handlers, NEW does, NEW stage, NEW moves, NEW at,
         SoundLook(h, does, stage, moves, at)
  PROVE  FilesInv'
<1>. DEFINE c == [does |-> does, stage |-> stage, moves |-> moves, at |-> at, view |-> examples]
<1>1. /\ handler[h].stage = "unused" /\ handler' = [handler EXCEPT ![h] = c]
      /\ muddled' = (muddled \/ Active # {})
      /\ UNCHANGED <<disk, stepRef, examples, meant, alive, keptNames>>
  BY DEF Begin, SoundLook
<1>2. /\ c.stage = stage /\ c.at = at
      /\ c \in FileCalls
  BY DEF FilesInv, FilesTypes, FileCalls, SoundLook
<1>3. LookHolds(c, disk, examples)
  BY DEF SoundLook
<1>. HIDE DEF c
<1>4. stage \notin HealingStages /\ stage \notin {"unused", "over"}
  BY DEF WaitingStages, HealingStages, SoundLook
<1>5. /\ handler'[h] = c
      /\ \A i \in Handlers : i # h => handler'[i] = handler[i]
  BY <1>1 DEF FilesInv, FilesTypes
<1>6. FilesTypes'
  <2>1. handler' \in [Handlers -> FileCalls]
    BY <1>1, <1>2 DEF FilesInv, FilesTypes
  <2>2. muddled' \in BOOLEAN
    BY <1>1 DEF FilesInv, FilesTypes
  <2>3. \A i \in Handlers : handler'[i].stage \in {"write", "heal write"} => handler'[i].at \in Places
    BY <1>2, <1>4, <1>5 DEF FilesInv, FilesTypes, HealingStages, SoundLook
  <2>4. \A i \in Handlers : ShapedCall(handler'[i])
    <3>1. ShapedCall(c)
      BY <1>3 DEF LookHolds, ShapedCall
    <3>. QED BY <1>5, <3>1 DEF FilesInv, FilesTypes
  <2>. QED BY <1>1, <2>1, <2>2, <2>3, <2>4 DEF FilesInv, FilesTypes
<1>7. DocsAreOld'
  BY <1>1, <1>2, <1>4, <1>5 DEF FilesInv, DocsAreOld
<1>8. ASSUME ~muddled, Active = {} PROVE Unmuddled'
  <2>1. \A i \in Handlers : i # h => handler'[i].stage \in {"unused", "over"}
    BY <1>5, <1>8 DEF Active
  <2>2. \A i \in Handlers : LookHolds(handler[i], disk, examples)
    BY <1>8 DEF FilesInv, Unmuddled
  <2>3. \A i \in Handlers : LookHolds(handler[i], disk, examples)'
    <3>. TAKE i \in Handlers
    <3>1. CASE i = h
      BY <1>1, <1>3, <1>5, <3>1
    <3>2. CASE i # h
      BY <1>1, <1>5, <2>2, <3>2
    <3>. QED BY <3>1, <3>2
  <2>4. \A i \in Handlers : handler[i].stage \notin HealingStages /\ handler'[i].stage \notin HealingStages
    BY <1>1, <1>2, <1>4, <1>5, <2>1 DEF HealingStages
  <2>5. StepLeads'
    <3>1. meant \in alive => disk[stepRef] = meant
      BY <1>8, <2>4 DEF FilesInv, Unmuddled, StepLeads
    <3>. QED BY <1>1, <2>4, <3>1 DEF StepLeads, HealingStages
  <2>6. Active' = {h}
    BY <1>2, <1>4, <1>5, <2>1 DEF Active
  <2>. QED BY <1>1, <1>8, <2>3, <2>5, <2>6 DEF FilesInv, Unmuddled
<1>. QED BY <1>1, <1>6, <1>7, <1>8 DEF FilesInv

\* A handler that is over, or goes on to heal, leaves the others as they are.
LEMMA FilesCreate ==
  ASSUME FilesInv, NEW h \in Handlers, NEW p \in Places, BeginCreate(h, p) PROVE FilesInv'
<1>1. LookHolds([does |-> "create", stage |-> "write", moves |-> {}, at |-> p, view |-> examples], disk, examples)
  BY DEF LookHolds, BeginCreate, Taken
<1>2. SoundLook(h, "create", "write", {}, p)
  BY <1>1 DEF SoundLook, BeginCreate, WaitingStages
<1>. QED BY <1>2, FilesBegin

\* A rename or a move of one file begins with a look at where it goes.
LEMMA FilesRename ==
  ASSUME FilesInv, NEW h \in Handlers, NEW from \in Places, NEW to \in Places \ {from},
         NEW does \in {"rename", "move"}, BeginRename(h, from, to, does) PROVE FilesInv'
<1>1. LookHolds([does |-> does, stage |-> "move", moves |-> {<<from, to>>}, at |-> to, view |-> examples], disk, examples)
  BY DEF LookHolds, BeginRename, MovingCalls, Taken
<1>2. SoundLook(h, does, "move", {<<from, to>>}, to)
  <2>1. {<<from, to>>} \in SUBSET (Places \X Places) /\ to \in Places /\ Begin(h, does, "move", {<<from, to>>}, to)
    BY DEF BeginRename
  <2>. QED BY <1>1, <2>1 DEF SoundLook, WaitingStages, MovingCalls
<1>. QED BY <1>2, FilesBegin

\* A rename of a folder begins with a look at what is in it.
LEMMA FilesFolder ==
  ASSUME FilesInv, NEW h \in Handlers, NEW f \in Folders, NEW g \in Folders, FolderRename(h, f, g)
  PROVE FilesInv'
<1>. DEFINE moves == {<<p, <<g, p[2]>>>> : p \in {q \in Places : q[1] = f /\ Taken(q)}}
<1>1. LookHolds([does |-> "folder", stage |-> "move", moves |-> moves, at |-> <<f, g>>, view |-> examples], disk, examples)
  BY DEF LookHolds, FolderRename, MovingCalls, Taken
<1>2. moves \in SUBSET (Places \X Places)
  BY DEF Places
<1>3. Begin(h, "folder", "move", moves, <<f, g>>)
  BY DEF FolderRename
<1>. HIDE DEF moves
<1>4. SoundLook(h, "folder", "move", moves, <<f, g>>)
  BY <1>1, <1>2, <1>3 DEF SoundLook, WaitingStages, MovingCalls
<1>. QED BY <1>4, FilesBegin

\* An example is saved or deleted from the list as it is.
LEMMA FilesExample ==
  ASSUME FilesInv, NEW h \in Handlers, BeginExample(h) PROVE FilesInv'
<1>1. \A does \in {"save example", "delete example"} :
        LookHolds([does |-> does, stage |-> "example", moves |-> {}, at |-> <<"f", "a">>, view |-> examples], disk, examples)
  BY DEF LookHolds
<1>2. <<"f", "a">> \in Places
  BY DEF Places, Folders, Names
<1>3. PICK does \in {"save example", "delete example"} : Begin(h, does, "example", {}, <<"f", "a">>)
  BY DEF BeginExample
<1>4. SoundLook(h, does, "example", {}, <<"f", "a">>)
  BY <1>1, <1>2, <1>3 DEF SoundLook, WaitingStages
<1>. QED BY <1>4, FilesBegin

\* One handler is active, at this stage, and nothing muddled: the others wait for nothing.
LEMMA FilesAlone ==
  ASSUME FilesInv, ~muddled, NEW h \in Handlers, handler[h].stage \notin {"unused", "over"}
  PROVE  /\ \A i \in Handlers : i # h => handler[i].stage \in {"unused", "over"}
         /\ meant \in alive /\ handler[h].stage \notin HealingStages => disk[stepRef] = meant
<1>1. \A i \in Handlers : i # h => handler[i].stage \in {"unused", "over"}
  BY DEF FilesInv, Unmuddled, Active
<1>2. ASSUME handler[h].stage \notin HealingStages PROVE \A i \in Handlers : handler[i].stage \notin HealingStages
  BY <1>1, <1>2 DEF HealingStages
<1>3. StepLeads
  BY DEF FilesInv, Unmuddled
<1>. QED BY <1>1, <1>2, <1>3 DEF StepLeads

\* Nothing active and nothing waiting after a step.
LEMMA FilesQuiet ==
  ASSUME FilesTypes', DocsAreOld',
         ~muddled' => /\ \A i \in Handlers : handler'[i].stage \in {"unused", "over"}
                      /\ \A d \in alive' : \E p \in Places : disk'[p] = d
                      /\ examples' = keptNames'
                      /\ meant' \in alive' => disk'[stepRef'] = meant'
  PROVE  FilesInv'
<1>1. ASSUME ~muddled' PROVE Unmuddled'
  <2>1. \A i \in Handlers : handler'[i].stage \in {"unused", "over"}
    BY <1>1
  <2>2. Active' = {}
    BY <2>1 DEF Active
  <2>3. \A i \in Handlers : LookHolds(handler[i], disk, examples)'
    BY <2>1 DEF LookHolds
  <2>4. StepLeads'
    BY <1>1, <2>1 DEF StepLeads, HealingStages
  <2>. QED BY <1>1, <2>2, <2>3, <2>4 DEF Unmuddled
<1>. QED BY <1>1 DEF FilesInv

\* A handler that ends leaves the others alone.
LEMMA FilesOver ==
  ASSUME FilesInv, NEW h \in Handlers, Over(h)
  PROVE  /\ handler'[h] = [handler[h] EXCEPT !.stage = "over"] /\ handler'[h].stage = "over"
         /\ \A i \in Handlers : i # h => handler'[i] = handler[i]
         /\ handler' \in [Handlers -> FileCalls]
         /\ ShapedCall(handler'[h])
<1>1. handler \in [Handlers -> FileCalls] /\ handler[h] \in FileCalls
  BY DEF FilesInv, FilesTypes
<1>2. [handler[h] EXCEPT !.stage = "over"] \in FileCalls /\ [handler[h] EXCEPT !.stage = "over"].stage = "over"
  BY <1>1 DEF FileCalls
<1>3. handler' \in [Handlers -> FileCalls] /\ handler'[h] = [handler[h] EXCEPT !.stage = "over"]
  BY <1>1, <1>2 DEF Over
<1>4. \A i \in Handlers : i # h => handler'[i] = handler[i]
  BY <1>1 DEF Over
<1>5. ShapedCall(handler'[h])
  BY <1>2, <1>3 DEF ShapedCall
<1>. QED BY <1>2, <1>3, <1>4, <1>5

\* A new file goes where nothing is.
LEMMA FilesWriteNew ==
  ASSUME FilesInv, NEW h \in Handlers, WriteNew(h) PROVE FilesInv'
<1>1. /\ handler[h].stage = "write" /\ handler[h].at \in Places
      /\ disk' = [disk EXCEPT ![handler[h].at] = h]
      /\ alive' = alive \cup {h}
      /\ UNCHANGED <<stepRef, examples, meant, keptNames, muddled>>
  BY DEF WriteNew, FilesInv, FilesTypes
<1>2. /\ handler'[h].stage = "over"
      /\ \A i \in Handlers : i # h => handler'[i] = handler[i]
  BY FilesOver DEF WriteNew
<1>3. FilesTypes'
  BY <1>1, <1>2, FilesOver DEF FilesInv, FilesTypes, WriteNew, FileDocs
<1>4. DocsAreOld'
  BY <1>1, <1>2 DEF FilesInv, DocsAreOld
<1>5. ASSUME ~muddled'
      PROVE  /\ \A i \in Handlers : handler'[i].stage \in {"unused", "over"}
             /\ \A d \in alive' : \E p \in Places : disk'[p] = d
             /\ examples' = keptNames'
             /\ meant' \in alive' => disk'[stepRef'] = meant'
  <2>1. ~muddled /\ Unmuddled
    BY <1>1, <1>5 DEF FilesInv
  <2>2. LookHolds(handler[h], disk, examples)
    BY <2>1 DEF Unmuddled
  <2>3. disk[handler[h].at] = NoDocument
    BY <1>1, <2>2 DEF LookHolds, Taken
  <2>4. \A i \in Handlers : handler'[i].stage \in {"unused", "over"}
    BY <1>1, <1>2, <2>1, FilesAlone
  <2>5. \A d \in alive' : \E p \in Places : disk'[p] = d
    <3>1. \A d \in alive : d # NoDocument
      BY FilesAssumption DEF FilesInv, FilesTypes
    <3>2. disk'[handler[h].at] = h /\ \A p \in Places \ {handler[h].at} : disk'[p] = disk[p]
      BY <1>1 DEF FilesInv, FilesTypes
    <3>. QED BY <1>1, <2>1, <2>3, <3>1, <3>2 DEF Unmuddled
  <2>6. meant' \in alive' => disk'[stepRef'] = meant'
    <3>1. meant # h
      BY <1>1 DEF FilesInv, DocsAreOld
    <3>2. meant \in alive => disk[stepRef] = meant /\ meant # NoDocument
      BY <1>1, <2>1, FilesAlone, FilesAssumption DEF FilesInv, FilesTypes, HealingStages
    <3>. QED BY <1>1, <2>3, <3>1, <3>2 DEF FilesInv, FilesTypes
  <2>. QED BY <1>1, <2>1, <2>4, <2>5, <2>6 DEF Unmuddled
<1>. QED BY <1>3, <1>4, <1>5, FilesQuiet

\* A write or a move that fails changes nothing.
LEMMA FilesLeapFails ==
  ASSUME FilesInv, NEW h \in Handlers, LeapFails(h) PROVE FilesInv'
<1>1. /\ handler[h].stage \in {"write", "move"}
      /\ UNCHANGED <<disk, stepRef, examples, meant, alive, keptNames, muddled>>
  BY DEF LeapFails
<1>2. /\ handler'[h].stage = "over"
      /\ \A i \in Handlers : i # h => handler'[i] = handler[i]
  BY FilesOver DEF LeapFails
<1>3. FilesTypes'
  BY <1>1, <1>2, FilesOver DEF FilesInv, FilesTypes, LeapFails
<1>4. DocsAreOld'
  BY <1>1, <1>2 DEF FilesInv, DocsAreOld
<1>. QED BY <1>1, <1>2, <1>3, <1>4, FilesAlone, FilesQuiet DEF FilesInv, Unmuddled, HealingStages

\* Where the documents go, each with the step that may refer to them.
LEMMA MovedKeeps ==
  ASSUME FilesInv, ~muddled, NEW h \in Handlers, Move(h)
  PROVE  /\ disk' \in [Places -> FileDocs]
         /\ \A p \in Places : disk[p] # NoDocument =>
              /\ Healed(h, p) \in Places
              /\ disk'[Healed(h, p)] = disk[p]
              /\ Healed(h, p) = p \/ \E m \in handler[h].moves : m[1] = p
<1>1. /\ handler[h].stage = "move" /\ disk' = Moved(h) /\ disk \in [Places -> FileDocs]
      /\ LookHolds(handler[h], disk, examples)
  BY DEF Move, FilesInv, FilesTypes, Unmuddled
<1>2. CASE handler[h].does = "folder"
  <2>. DEFINE f == handler[h].at[1]
              g == handler[h].at[2]
  <2>1. /\ f \in Folders /\ g \in Folders /\ f # g
        /\ handler[h].moves = {<<p, <<g, p[2]>>>> : p \in {q \in Places : q[1] = f /\ disk[q] # NoDocument}}
    BY <1>1, <1>2 DEF LookHolds
  <2>2. \A p \in Places : p[1] = g => disk[p] = NoDocument
    BY <1>2 DEF Move, TakenFolder, Taken
  <2>3. disk' = [p \in Places |-> IF p[1] = g THEN disk[<<f, p[2]>>]
                                 ELSE IF p[1] = f THEN NoDocument ELSE disk[p]]
    BY <1>1, <1>2 DEF Moved
  <2>. HIDE DEF f, g
  <2>4. disk' \in [Places -> FileDocs]
    BY <1>1, <2>1, <2>3 DEF Places, FileDocs
  <2>5. ASSUME NEW p \in Places, disk[p] # NoDocument
        PROVE  /\ Healed(h, p) \in Places
               /\ disk'[Healed(h, p)] = disk[p]
               /\ Healed(h, p) = p \/ \E m \in handler[h].moves : m[1] = p
    <3>1. p[1] # g /\ p[1] \in Folders /\ p[2] \in Names /\ p = <<p[1], p[2]>>
      BY <2>2, <2>5 DEF Places
    <3>2. CASE p[1] = f
      <4>1. <<p, <<g, p[2]>>>> \in handler[h].moves
        BY <2>1, <2>5, <3>2
      <4>2. \A m \in handler[h].moves : m[1] = p => m[2] = <<g, p[2]>>
        BY <2>1
      <4>3. Healed(h, p) = <<g, p[2]>>
        <5>1. \E m \in handler[h].moves : m[1] = p
          BY <4>1
        <5>. QED BY <4>2, <5>1 DEF Healed
      <4>4. <<g, p[2]>> \in Places
        BY <2>1, <3>1 DEF Places
      <4>5. disk'[<<g, p[2]>>] = disk[p]
        BY <2>3, <3>1, <3>2, <4>4
      <4>. QED BY <4>1, <4>3, <4>4, <4>5
    <3>3. CASE p[1] # f
      <4>1. \A m \in handler[h].moves : m[1] # p
        BY <2>1, <3>3
      <4>2. Healed(h, p) = p
        BY <4>1 DEF Healed
      <4>. QED BY <2>3, <3>1, <3>3, <4>2
    <3>. QED BY <3>2, <3>3
  <2>. QED BY <2>4, <2>5
<1>3. CASE handler[h].does # "folder"
  <2>1. PICK from \in Places, to \in Places :
          from # to /\ disk[to] = NoDocument /\ handler[h].moves = {<<from, to>>}
    BY <1>1, <1>3 DEF LookHolds
  <2>2. (CHOOSE m \in handler[h].moves : TRUE) = <<from, to>>
    BY <2>1
  <2>3. disk' = [p \in Places |-> IF p = from THEN NoDocument ELSE IF p = to THEN disk[from] ELSE disk[p]]
    <3>. DEFINE mm == CHOOSE m \in handler[h].moves : TRUE
    <3>1. Moved(h) = [disk EXCEPT ![mm[2]] = disk[mm[1]], ![mm[1]] = NoDocument]
      BY <1>3, Zenon DEF Moved
    <3>2. mm = <<from, to>>
      BY <2>2
    <3>. HIDE DEF mm
    <3>4. mm[1] = from /\ mm[2] = to
      BY <3>2
    <3>3. disk' = [disk EXCEPT ![to] = disk[from], ![from] = NoDocument]
      BY <1>1, <3>1, <3>4
    <3>. QED BY <1>1, <2>1, <3>3
  <2>4. disk' \in [Places -> FileDocs]
    BY <1>1, <2>1, <2>3 DEF FileDocs
  <2>5. ASSUME NEW p \in Places, disk[p] # NoDocument
        PROVE  /\ Healed(h, p) \in Places
               /\ disk'[Healed(h, p)] = disk[p]
               /\ Healed(h, p) = p \/ \E m \in handler[h].moves : m[1] = p
    <3>1. CASE p = from
      <4>3. \A m \in handler[h].moves : m[1] = p => m[2] = to
        BY <2>1, <3>1
      <4>2. \E m \in handler[h].moves : m[1] = p
        <5>1. <<from, to>> \in handler[h].moves /\ <<from, to>>[1] = p
          BY <2>1, <3>1
        <5>. QED BY <5>1
      <4>1. Healed(h, p) = to
        BY <4>2, <4>3 DEF Healed
      <4>. QED BY <2>1, <2>3, <3>1, <4>1, <4>2
    <3>2. CASE p # from
      <4>1. Healed(h, p) = p
        BY <2>1, <3>2 DEF Healed
      <4>. QED BY <2>1, <2>3, <2>5, <3>2, <4>1
    <3>. QED BY <3>1, <3>2
  <2>. QED BY <2>4, <2>5
<1>. QED BY <1>2, <1>3

\* A move puts no document anywhere that was nowhere.
LEMMA MoveTypes ==
  ASSUME FilesInv, NEW h \in Handlers, Move(h)
  PROVE  \A p \in Places : \/ disk'[p] = NoDocument
                           \/ \E q \in Places : disk'[p] = disk[q]
<1>1. /\ handler[h].stage = "move" /\ disk' = Moved(h) /\ disk \in [Places -> FileDocs]
      /\ ShapedCall(handler[h])
  BY DEF Move, FilesInv, FilesTypes
<1>2. CASE handler[h].does = "folder"
  <2>. DEFINE f == handler[h].at[1]
              g == handler[h].at[2]
  <2>1. f \in Folders /\ g \in Folders
    BY <1>1, <1>2 DEF ShapedCall
  <2>2. disk' = [p \in Places |-> IF p[1] = g THEN disk[<<f, p[2]>>]
                                 ELSE IF p[1] = f THEN NoDocument ELSE disk[p]]
    BY <1>1, <1>2 DEF Moved
  <2>. HIDE DEF f, g
  <2>3. \A p \in Places : <<f, p[2]>> \in Places
    BY <2>1 DEF Places
  <2>. QED BY <2>2, <2>3
<1>3. CASE handler[h].does # "folder"
  <2>1. PICK from \in Places, to \in Places : from # to /\ handler[h].moves = {<<from, to>>}
    BY <1>1, <1>3 DEF ShapedCall
  <2>. DEFINE mm == CHOOSE m \in handler[h].moves : TRUE
  <2>2. Moved(h) = [disk EXCEPT ![mm[2]] = disk[mm[1]], ![mm[1]] = NoDocument]
    BY <1>3, Zenon DEF Moved
  <2>3. mm = <<from, to>>
    BY <2>1
  <2>. HIDE DEF mm
  <2>4. mm[1] = from /\ mm[2] = to
    BY <2>3
  <2>5. disk' = [disk EXCEPT ![to] = disk[from], ![from] = NoDocument]
    BY <1>1, <2>2, <2>4
  <2>. QED BY <1>1, <2>1, <2>5
<1>. QED BY <1>2, <1>3

\* A healed path is a path.
LEMMA HealedPlace ==
  ASSUME FilesInv, NEW h \in Handlers, NEW p \in Places PROVE Healed(h, p) \in Places
<1>1. handler[h].moves \in SUBSET (Places \X Places)
  BY DEF FilesInv, FilesTypes, FileCalls
<1>2. \A m \in handler[h].moves : m[2] \in Places
  BY <1>1
<1>. QED BY <1>2 DEF Healed

\* The documents move, and the step that named one is to be healed, or is forgotten.
LEMMA FilesMove ==
  ASSUME FilesInv, NEW h \in Handlers, Move(h) PROVE FilesInv'
<1>. DEFINE c == [handler[h] EXCEPT !.stage = IF handler[h].does = "move" THEN "over" ELSE "heal"]
<1>1. /\ handler[h].stage = "move" /\ handler' = [handler EXCEPT ![h] = c]
      /\ UNCHANGED <<stepRef, examples, alive, keptNames, muddled>>
      /\ meant' = IF handler[h].does = "move" /\ stepRef \in {m[1] : m \in handler[h].moves}
                    THEN NoDocument ELSE meant
  BY DEF Move
<1>2. handler \in [Handlers -> FileCalls] /\ handler[h] \in FileCalls
  BY DEF FilesInv, FilesTypes
<1>3. /\ c \in FileCalls /\ c.moves = handler[h].moves
      /\ c.stage = IF handler[h].does = "move" THEN "over" ELSE "heal"
  BY <1>2 DEF FileCalls, HealingStages
<1>. HIDE DEF c
<1>4. /\ handler'[h] = c /\ handler' \in [Handlers -> FileCalls]
      /\ \A i \in Handlers : i # h => handler'[i] = handler[i]
  BY <1>1, <1>2, <1>3
<1>5. FilesTypes'
  <2>1. disk' \in [Places -> FileDocs]
    <3>1. \A p \in Places : disk'[p] \in FileDocs
      BY MoveTypes DEF FilesInv, FilesTypes, FileDocs
    <3>2. disk' = [p \in Places |-> disk'[p]]
      <4>1. Moved(h) = [p \in Places |-> Moved(h)[p]]
        <5>1. disk = [p \in Places |-> disk[p]]
          BY DEF FilesInv, FilesTypes
        <5>2. CASE handler[h].does = "folder"
          BY <5>2, Zenon DEF Moved
        <5>3. CASE handler[h].does # "folder"
          <6>. DEFINE mm == CHOOSE m \in handler[h].moves : TRUE
          <6>2. Moved(h) = [disk EXCEPT ![mm[2]] = disk[mm[1]], ![mm[1]] = NoDocument]
            BY <5>3, Zenon DEF Moved
          <6>. HIDE DEF mm
          <6>. QED BY <5>1, <6>2
        <5>. QED BY <5>2, <5>3
      <4>. QED BY <4>1 DEF Move
    <3>. QED BY <3>1, <3>2
  <2>2. meant' \in FileDocs
    BY <1>1 DEF FilesInv, FilesTypes, FileDocs
  <2>3. \A i \in Handlers : handler'[i].stage \in {"write", "heal write"} => handler'[i].at \in Places
    BY <1>3, <1>4 DEF FilesInv, FilesTypes
  <2>4. \A i \in Handlers : ShapedCall(handler'[i])
    <3>1. ShapedCall(c)
      BY <1>3 DEF ShapedCall
    <3>. QED BY <1>4, <3>1 DEF FilesInv, FilesTypes
  <2>. QED BY <1>1, <1>4, <2>1, <2>2, <2>3, <2>4 DEF FilesInv, FilesTypes
<1>6. DocsAreOld'
  <2>1. \A i \in Handlers : handler'[i].stage # "over" => handler[i].stage # "over"
    BY <1>1, <1>4
  <2>2. \A i \in Handlers : i # NoDocument
    BY FilesAssumption
  <2>. QED BY <1>1, <2>1, <2>2, MoveTypes DEF FilesInv, DocsAreOld
<1>7. ASSUME ~muddled PROVE Unmuddled'
  <2>1. /\ \A i \in Handlers : i # h => handler[i].stage \in {"unused", "over"}
        /\ meant \in alive => disk[stepRef] = meant
    BY <1>1, <1>7, FilesAlone DEF HealingStages
  <2>2. /\ \A d \in alive : \E p \in Places : disk[p] = d
        /\ examples = keptNames
        /\ \A d \in alive : d # NoDocument
        /\ stepRef \in Places
    BY <1>7, FilesAssumption DEF FilesInv, Unmuddled, FilesTypes
  <2>3. \A d \in alive' : \E p \in Places : disk'[p] = d
    BY <1>1, <1>7, <2>2, MovedKeeps
  <2>4. \A i \in Handlers : handler'[i].stage \notin WaitingStages
    BY <1>3, <1>4, <2>1 DEF WaitingStages
  <2>5. \A i \in Handlers : LookHolds(handler[i], disk, examples)'
    BY <2>4 DEF LookHolds, WaitingStages
  <2>6. \A i, j \in Active' : i = j
    BY <1>4, <2>1 DEF Active
  <2>7. Healed(h, stepRef)' = Healed(h, stepRef)
    BY <1>1, <1>3, <1>4 DEF Healed
  <2>8. ASSUME meant' \in alive' PROVE meant' = meant /\ meant \in alive /\ disk'[Healed(h, stepRef)] = meant
    <3>1. meant' = meant
      BY <1>1, <2>2, <2>8
    <3>. QED BY <1>1, <1>7, <2>1, <2>2, <2>8, <3>1, MovedKeeps
  <2>9. StepLeads'
    <3>1. CASE handler[h].does = "move"
      <4>1. \A i \in Handlers : handler'[i].stage \notin HealingStages
        BY <1>3, <1>4, <2>1, <3>1 DEF HealingStages
      <4>2. ASSUME meant' \in alive' PROVE disk'[stepRef] = meant'
        <5>1. ~\E m \in handler[h].moves : m[1] = stepRef
          BY <1>1, <2>2, <3>1, <4>2
        <5>2. Healed(h, stepRef) = stepRef
          BY <5>1 DEF Healed
        <5>. QED BY <2>8, <4>2, <5>2
      <4>. QED BY <1>1, <4>1, <4>2 DEF StepLeads, HealingStages
    <3>2. CASE handler[h].does # "move"
      <4>1. handler'[h].stage = "heal" /\ \A i \in Handlers : i # h => handler'[i].stage \notin HealingStages
        BY <1>3, <1>4, <2>1, <3>2 DEF HealingStages
      <4>. QED BY <2>7, <2>8, <4>1 DEF StepLeads, HealingStages
    <3>. QED BY <3>1, <3>2
  <2>. QED BY <1>1, <2>2, <2>3, <2>5, <2>6, <2>9 DEF Unmuddled
<1>. QED BY <1>1, <1>5, <1>6, <1>7 DEF FilesInv

\* Healing finds the step led to what was moved, or has nothing to do.
LEMMA FilesHealRead ==
  ASSUME FilesInv, NEW h \in Handlers, HealRead(h) PROVE FilesInv'
<1>. DEFINE s == IF Healed(h, stepRef) = stepRef THEN "over" ELSE "heal write"
            c == [handler[h] EXCEPT !.stage = s, !.at = Healed(h, stepRef)]
<1>1. /\ handler[h].stage = "heal" /\ handler' = [handler EXCEPT ![h] = c]
      /\ UNCHANGED <<disk, stepRef, examples, meant, alive, keptNames, muddled>>
  BY DEF HealRead
<1>2. handler \in [Handlers -> FileCalls] /\ handler[h] \in FileCalls /\ Healed(h, stepRef) \in Places
  BY HealedPlace DEF FilesInv, FilesTypes
<1>3. c \in FileCalls /\ c.stage = s /\ c.at = Healed(h, stepRef)
  BY <1>2 DEF FileCalls, HealingStages
<1>. HIDE DEF c
<1>4. /\ handler'[h] = c /\ handler' \in [Handlers -> FileCalls]
      /\ \A i \in Handlers : i # h => handler'[i] = handler[i]
  BY <1>1, <1>2, <1>3
<1>5. FilesTypes'
  <2>1. \A i \in Handlers : handler'[i].stage \in {"write", "heal write"} => handler'[i].at \in Places
    BY <1>2, <1>3, <1>4 DEF FilesInv, FilesTypes
  <2>2. \A i \in Handlers : ShapedCall(handler'[i])
    <3>1. ShapedCall(c)
      BY <1>3 DEF ShapedCall
    <3>. QED BY <1>4, <3>1 DEF FilesInv, FilesTypes
  <2>. QED BY <1>1, <1>4, <2>1, <2>2 DEF FilesInv, FilesTypes
<1>6. DocsAreOld'
  <2>1. \A i \in Handlers : handler'[i].stage # "over" => handler[i].stage # "over"
    BY <1>1, <1>4
  <2>. QED BY <1>1, <2>1 DEF FilesInv, DocsAreOld
<1>7. ASSUME ~muddled PROVE Unmuddled'
  <2>1. \A i \in Handlers : i # h => handler[i].stage \in {"unused", "over"}
    BY <1>1, <1>7, FilesAlone
  <2>2. meant \in alive => disk[Healed(h, stepRef)] = meant
    BY <1>1, <1>7 DEF FilesInv, Unmuddled, StepLeads
  <2>3. StepLeads'
    <3>1. CASE Healed(h, stepRef) = stepRef
      <4>1. \A i \in Handlers : handler'[i].stage \notin HealingStages
        BY <1>3, <1>4, <2>1, <3>1 DEF HealingStages
      <4>. QED BY <1>1, <2>2, <3>1, <4>1 DEF StepLeads, HealingStages
    <3>2. CASE Healed(h, stepRef) # stepRef
      <4>1. handler'[h].stage = "heal write" /\ \A i \in Handlers : i # h => handler'[i].stage \notin HealingStages
        BY <1>3, <1>4, <2>1, <3>2 DEF HealingStages
      <4>. QED BY <1>1, <1>3, <1>4, <2>2, <4>1 DEF StepLeads, HealingStages
    <3>. QED BY <3>1, <3>2
  <2>4. \A i \in Handlers : handler'[i].stage \notin WaitingStages
    BY <1>3, <1>4, <2>1 DEF WaitingStages
  <2>5. \A i \in Handlers : LookHolds(handler[i], disk, examples)'
    BY <2>4 DEF LookHolds, WaitingStages
  <2>6. \A i, j \in Active' : i = j
    BY <1>4, <2>1 DEF Active
  <2>. QED BY <1>1, <1>7, <2>3, <2>5, <2>6 DEF FilesInv, Unmuddled
<1>. QED BY <1>1, <1>5, <1>6, <1>7 DEF FilesInv

\* The healed step leads to its document again.
LEMMA FilesHealWrite ==
  ASSUME FilesInv, NEW h \in Handlers, HealWrite(h) PROVE FilesInv'
<1>1. /\ handler[h].stage = "heal write" /\ stepRef' = handler[h].at /\ handler[h].at \in Places
      /\ UNCHANGED <<disk, examples, meant, alive, keptNames, muddled>>
  BY DEF HealWrite, FilesInv, FilesTypes
<1>2. /\ handler'[h].stage = "over"
      /\ \A i \in Handlers : i # h => handler'[i] = handler[i]
  BY FilesOver DEF HealWrite
<1>3. FilesTypes'
  BY <1>1, <1>2, FilesOver DEF FilesInv, FilesTypes, HealWrite
<1>4. DocsAreOld'
  BY <1>1, <1>2 DEF FilesInv, DocsAreOld
<1>5. ASSUME ~muddled PROVE meant \in alive => disk[handler[h].at] = meant
  BY <1>1, <1>5 DEF FilesInv, Unmuddled, StepLeads
<1>. QED BY <1>1, <1>2, <1>3, <1>4, <1>5, FilesAlone, FilesQuiet DEF FilesInv, Unmuddled

\* A workflow that cannot be healed is told apart.
LEMMA FilesHealFails ==
  ASSUME FilesInv, NEW h \in Handlers, HealFails(h) PROVE FilesInv'
<1>1. UNCHANGED <<disk, stepRef, examples, meant, alive, keptNames>> /\ muddled'
  BY DEF HealFails
<1>2. /\ handler'[h].stage = "over"
      /\ \A i \in Handlers : i # h => handler'[i] = handler[i]
  BY FilesOver DEF HealFails
<1>3. FilesTypes'
  BY <1>1, <1>2, FilesOver DEF FilesInv, FilesTypes, HealFails
<1>4. DocsAreOld'
  BY <1>1, <1>2 DEF FilesInv, DocsAreOld
<1>. QED BY <1>1, <1>3, <1>4 DEF FilesInv

\* The list of examples is written as it was read, but for the one.
LEMMA FilesWriteExamples ==
  ASSUME FilesInv, NEW h \in Handlers, WriteExamples(h) PROVE FilesInv'
<1>1. /\ handler[h].stage = "example"
      /\ UNCHANGED <<disk, stepRef, meant, alive, muddled>>
  BY DEF WriteExamples
<1>2. /\ handler'[h].stage = "over"
      /\ \A i \in Handlers : i # h => handler'[i] = handler[i]
  BY FilesOver DEF WriteExamples
<1>3. handler[h].view \in SUBSET Handlers
  BY DEF FilesInv, FilesTypes, FileCalls
<1>4. examples' \in SUBSET Handlers /\ keptNames' \in SUBSET Handlers
  BY <1>3 DEF WriteExamples, FilesInv, FilesTypes
<1>5. FilesTypes'
  BY <1>1, <1>2, <1>4, FilesOver DEF FilesInv, FilesTypes, WriteExamples
<1>6. DocsAreOld'
  BY <1>1, <1>2 DEF FilesInv, DocsAreOld
<1>7. ASSUME ~muddled PROVE examples' = keptNames'
  <2>1. LookHolds(handler[h], disk, examples) /\ examples = keptNames
    BY <1>7 DEF FilesInv, Unmuddled
  <2>2. handler[h].view = keptNames
    BY <1>1, <2>1 DEF LookHolds
  <2>. QED BY <2>2 DEF WriteExamples
<1>. QED BY <1>1, <1>2, <1>5, <1>6, <1>7, FilesAlone, FilesQuiet DEF FilesInv, Unmuddled, HealingStages

\* What is done in one turn muddles, or finds nobody active.
LEMMA FilesNobody ==
  ASSUME FilesInv, ~muddled, Active = {}
  PROVE  /\ \A i \in Handlers : handler[i].stage \in {"unused", "over"}
         /\ \A d \in alive : \E p \in Places : disk[p] = d
         /\ examples = keptNames
         /\ meant \in alive => disk[stepRef] = meant
<1>1. \A i \in Handlers : handler[i].stage \in {"unused", "over"}
  BY DEF Active
<1>2. \A i \in Handlers : handler[i].stage \notin HealingStages
  BY <1>1 DEF HealingStages
<1>. QED BY <1>1, <1>2 DEF FilesInv, Unmuddled, StepLeads

\* A save or an import writes at once.
LEMMA FilesWriteInPlace ==
  ASSUME FilesInv, NEW h \in Handlers, NEW p \in Places, NEW replaces \in BOOLEAN,
         WriteInPlace(h, p, replaces)
  PROVE  FilesInv'
<1>1. /\ handler[h].stage = "unused"
      /\ disk' = IF Taken(p) /\ ~replaces THEN disk ELSE [disk EXCEPT ![p] = h]
      /\ alive' = IF disk'[p] = disk[p] THEN alive ELSE (alive \ {disk[p]}) \cup {h}
      /\ muddled' = (muddled \/ Active # {})
      /\ UNCHANGED <<stepRef, examples, meant, keptNames>>
  BY DEF WriteInPlace
<1>2. /\ handler'[h].stage = "over"
      /\ \A i \in Handlers : i # h => handler'[i] = handler[i]
  BY FilesOver DEF WriteInPlace
<1>3. h \notin alive /\ h # meant /\ \A q \in Places : disk[q] # h
  BY <1>1 DEF FilesInv, DocsAreOld
<1>4. \/ disk' = disk /\ alive' = alive
      \/ /\ disk' = [disk EXCEPT ![p] = h] /\ disk'[p] = h
         /\ \A q \in Places : q # p => disk'[q] = disk[q]
         /\ alive' = (alive \ {disk[p]}) \cup {h}
  BY <1>1, <1>3 DEF FilesInv, FilesTypes
<1>5. FilesTypes'
  <2>1. disk' \in [Places -> FileDocs] /\ alive' \in SUBSET (Handlers \cup {Given}) /\ muddled' \in BOOLEAN
    BY <1>1, <1>4 DEF FilesInv, FilesTypes, FileDocs
  <2>. QED BY <1>1, <1>2, <2>1, FilesOver DEF FilesInv, FilesTypes, WriteInPlace
<1>6. DocsAreOld'
  BY <1>1, <1>2, <1>4 DEF FilesInv, DocsAreOld
<1>7. ASSUME ~muddled'
      PROVE  /\ \A i \in Handlers : handler'[i].stage \in {"unused", "over"}
             /\ \A d \in alive' : \E q \in Places : disk'[q] = d
             /\ examples' = keptNames'
             /\ meant' \in alive' => disk'[stepRef'] = meant'
  <2>1. ~muddled /\ Active = {}
    BY <1>1, <1>7
  <2>2. \A i \in Handlers : handler'[i].stage \in {"unused", "over"}
    BY <1>2, <2>1, FilesNobody
  <2>3. \A d \in alive : \E q \in Places : disk[q] = d
    BY <2>1, FilesNobody
  <2>4. \A d \in alive' : \E q \in Places : disk'[q] = d
    BY <1>4, <2>3
  <2>5. meant \in alive => disk[stepRef] = meant
    BY <2>1, FilesNobody
  <2>6. stepRef \in Places
    BY DEF FilesInv, FilesTypes
  <2>7. meant' \in alive' => disk'[stepRef'] = meant'
    BY <1>1, <1>3, <1>4, <2>5, <2>6
  <2>. QED BY <1>1, <2>1, <2>2, <2>4, <2>7, FilesNobody
<1>. QED BY <1>5, <1>6, <1>7, FilesQuiet

\* A deletion takes its files and no other.
LEMMA FilesDelete ==
  ASSUME FilesInv, NEW places \in SUBSET Places, Delete(places) PROVE FilesInv'
<1>1. /\ disk' = [q \in Places |-> IF q \in places THEN NoDocument ELSE disk[q]]
      /\ alive' = alive \ {disk[q] : q \in places}
      /\ muddled' = (muddled \/ Active # {})
      /\ UNCHANGED <<stepRef, handler, examples, meant, keptNames>>
  BY DEF Delete
<1>2. FilesTypes'
  <2>1. disk' \in [Places -> FileDocs] /\ alive' \in SUBSET (Handlers \cup {Given}) /\ muddled' \in BOOLEAN
    BY <1>1 DEF FilesInv, FilesTypes, FileDocs
  <2>. QED BY <1>1, <2>1 DEF FilesInv, FilesTypes
<1>3. DocsAreOld'
  <2>1. \A i \in Handlers : i # NoDocument
    BY FilesAssumption
  <2>. QED BY <1>1, <2>1 DEF FilesInv, DocsAreOld
<1>4. \A q \in Places, d \in alive' : disk[q] = d => disk'[q] = d
  BY <1>1
<1>5. alive' \subseteq alive
  BY <1>1
<1>6. stepRef \in Places
  BY DEF FilesInv, FilesTypes
<1>7. ASSUME ~muddled'
      PROVE  /\ \A i \in Handlers : handler'[i].stage \in {"unused", "over"}
             /\ \A d \in alive' : \E q \in Places : disk'[q] = d
             /\ examples' = keptNames'
             /\ meant' \in alive' => disk'[stepRef'] = meant'
  <2>1. ~muddled /\ Active = {}
    BY <1>1, <1>7
  <2>. QED BY <1>1, <1>4, <1>5, <1>6, <2>1, FilesNobody
<1>. QED BY <1>2, <1>3, <1>7, FilesQuiet

\* A workflow names a request.
LEMMA FilesWorkflowWrite ==
  ASSUME FilesInv, NEW p \in Places, WorkflowWrite(p) PROVE FilesInv'
<1>1. /\ stepRef' = p /\ meant' = disk[p]
      /\ muddled' = (muddled \/ Active # {})
      /\ UNCHANGED <<disk, handler, examples, alive, keptNames>>
  BY DEF WorkflowWrite
<1>2. FilesTypes'
  BY <1>1 DEF FilesInv, FilesTypes
<1>3. DocsAreOld'
  BY <1>1 DEF FilesInv, DocsAreOld
<1>. QED BY <1>1, <1>2, <1>3, FilesNobody, FilesQuiet

\* A crash is told apart.
LEMMA FilesCrashes ==
  ASSUME FilesInv, FilesCrash PROVE FilesInv'
<1>1. /\ handler' = [h \in Handlers |-> IF h \in Active THEN [handler[h] EXCEPT !.stage = "over"] ELSE handler[h]]
      /\ muddled' = TRUE
      /\ UNCHANGED <<disk, stepRef, examples, meant, alive, keptNames>>
  BY DEF FilesCrash
<1>2. ASSUME NEW h \in Handlers
      PROVE  /\ [handler[h] EXCEPT !.stage = "over"] \in FileCalls
             /\ [handler[h] EXCEPT !.stage = "over"].stage = "over"
  <2>1. handler[h] \in FileCalls
    BY DEF FilesInv, FilesTypes
  <2>. QED BY <2>1 DEF FileCalls
<1>4. handler' \in [Handlers -> FileCalls]
  BY <1>1, <1>2 DEF FilesInv, FilesTypes
<1>5. \A h \in Handlers : handler'[h] = handler[h] \/ handler'[h].stage = "over"
  BY <1>1, <1>2
<1>6. FilesTypes'
  <2>1. \A h \in Handlers : ShapedCall(handler'[h])
    BY <1>5 DEF FilesInv, FilesTypes, ShapedCall
  <2>2. \A h \in Handlers : handler'[h].stage \in {"write", "heal write"} => handler'[h].at \in Places
    BY <1>5 DEF FilesInv, FilesTypes
  <2>. QED BY <1>1, <1>4, <2>1, <2>2 DEF FilesInv, FilesTypes
<1>7. DocsAreOld'
  BY <1>1, <1>5 DEF FilesInv, DocsAreOld
<1>. QED BY <1>1, <1>6, <1>7 DEF FilesInv

\* The invariant is inductive.
LEMMA FilesNextInv == FilesInv /\ [FilesNext]_filesVars => FilesInv'
<1> SUFFICES ASSUME FilesInv, [FilesNext]_filesVars PROVE FilesInv'
  OBVIOUS
<1>1. ASSUME NEW h \in Handlers, NEW p \in Places,
             RequestCreate(h, p) \/ CreateEnv(h, p) PROVE FilesInv'
  BY <1>1, FilesCreate DEF RequestCreate, CreateEnv
<1>2. ASSUME NEW h \in Handlers, NEW p \in Places,
             RequestWrite(h, p) \/ WriteEnv(h, p) \/ WriteRequestTool(h, p) \/ ImportPostman(h, p)
      PROVE FilesInv'
  BY <1>2, FilesWriteInPlace DEF RequestWrite, WriteEnv, WriteRequestTool, ImportPostman
<1>3. ASSUME NEW h \in Handlers, NEW p \in Places, NEW to \in Places \ {p},
             RequestDuplicate(h, p, to) \/ DuplicateEnv(h, p, to) PROVE FilesInv'
  BY <1>3, FilesCreate DEF RequestDuplicate, DuplicateEnv
<1>4. ASSUME NEW h \in Handlers, NEW p \in Places, NEW to \in Places \ {p},
             RequestRename(h, p, to) \/ RenameEnv(h, p, to) \/ MovePath(h, p, to) PROVE FilesInv'
  BY <1>4, FilesRename DEF RequestRename, RenameEnv, MovePath
<1>5. ASSUME NEW h \in Handlers, NEW f \in Folders,
             WriteRequestDeduped(h, f) \/ ImportOpenApi(h, f) PROVE FilesInv'
  <2>1. <<f, "a">> \in Places /\ <<f, "a-2">> \in Places
    BY DEF Places, Names
  <2>. QED BY <1>5, <2>1, FilesCreate DEF WriteRequestDeduped, ImportOpenApi
<1>6. ASSUME NEW h \in Handlers, NEW f \in Folders, NEW g \in Folders, FolderRename(h, f, g) PROVE FilesInv'
  BY <1>6, FilesFolder
<1>7. ASSUME NEW h \in Handlers,
             \/ WriteNew(h) \/ Move(h) \/ LeapFails(h)
             \/ HealRead(h) \/ HealWrite(h) \/ HealFails(h)
             \/ BeginExample(h) \/ WriteExamples(h)
      PROVE FilesInv'
  BY <1>7, FilesWriteNew, FilesMove, FilesLeapFails, FilesHealRead, FilesHealWrite, FilesHealFails,
     FilesExample, FilesWriteExamples
<1>8. ASSUME NEW p \in Places, RequestDelete(p) \/ WorkflowWrite(p) PROVE FilesInv'
  <2>1. {p} \in SUBSET Places
    OBVIOUS
  <2>. QED BY <1>8, <2>1, FilesDelete, FilesWorkflowWrite DEF RequestDelete
<1>9. ASSUME NEW f \in Folders, FolderDelete(f) PROVE FilesInv'
  <2>1. {f} \X Names \in SUBSET Places
    BY DEF Places
  <2>. QED BY <1>9, <2>1, FilesDelete DEF FolderDelete
<1>10. CASE FilesCrash
  BY <1>10, FilesCrashes
<1>11. CASE UNCHANGED filesVars
  <2>1. UNCHANGED <<disk, stepRef, handler, examples, meant, alive, keptNames, muddled>>
    BY <1>11 DEF filesVars
  <2>2. FilesTypes'
    BY <2>1 DEF FilesInv, FilesTypes
  <2>3. DocsAreOld'
    BY <2>1 DEF FilesInv, DocsAreOld
  <2>4. ASSUME Unmuddled PROVE Unmuddled'
    <3>1. StepLeads'
      BY <2>1, <2>4 DEF Unmuddled, StepLeads, Healed
    <3>. QED BY <2>1, <2>4, <3>1 DEF Unmuddled, Active
  <2>. QED BY <2>1, <2>2, <2>3, <2>4 DEF FilesInv
<1>. QED
  BY <1>1, <1>2, <1>3, <1>4, <1>5, <1>6, <1>7, <1>8, <1>9, <1>10, <1>11 DEF FilesNext

\* For any number of handlers, one after another: no file and no example is lost to a create, a
\* copy, a rename, a move or an import, and a workflow's step follows its request (main/collection.ts).
THEOREM CollectionKept == FilesSpec => []CollectionKeepsItsFiles
<1>1. FilesInit => FilesInv
  <2> SUFFICES ASSUME FilesInit PROVE FilesInv
    OBVIOUS
  <2>1. \A h \in Handlers : handler[h].stage = "unused"
    BY DEF FilesInit, NoHandler
  <2>2. <<"f", "a">> \in Places
    BY DEF Places, Folders, Names
  <2>3. NoHandler \in FileCalls
    BY <2>2 DEF NoHandler, FileCalls
  <2>4. FilesTypes
    BY <2>1, <2>2, <2>3 DEF FilesInit, FilesTypes, FileDocs, ShapedCall
  <2>5. DocsAreOld
    BY FilesAssumption DEF FilesInit, DocsAreOld
  <2>6. StepLeads
    BY <2>1, <2>2 DEF FilesInit, StepLeads, HealingStages
  <2>7. Unmuddled
    BY <2>1, <2>2, <2>6 DEF FilesInit, Unmuddled, Active, LookHolds
  <2>. QED BY <2>4, <2>5, <2>7 DEF FilesInv
<1>2. FilesInv => CollectionKeepsItsFiles
  BY FilesNobody DEF CollectionKeepsItsFiles
<1>. QED
  BY <1>1, <1>2, FilesNextInv, PTL DEF FilesSpec

-----------------------------------------------------------------------------
(***************************************************************************)
(* Cli: the exit code tells the truth, and nothing is left listening.      *)
(***************************************************************************)
Reporting == {"next", "workflow"}
Binding == {"binding", "mqtt", "up", "stopping"}

\* The totals are what the exit code is made of, as long as nothing has exited.
TotalsTell ==
  /\ cliStage \in Reporting => command \notin Serving \cup {"none"} /\ (reporter = "cli" => (wrong <=> failures > 0))
  /\ cliStage = "parse" => ~wrong /\ failures = 0 /\ command = "none"
  /\ cliStage \in Binding => command \in Serving
  /\ cliStage = "exited" => exitCode # Pending /\ (reporter = "cli" => ExitCodeTellsTheTruth)
  /\ cliStage # "exited" => exitCode = Pending

CliInv ==
  /\ cliStage \in Reporting \cup Binding \cup {"parse", "exited"}
  /\ failures \in Nat /\ wrong \in BOOLEAN
  /\ TotalsTell
  /\ cliStage \notin {"mqtt", "up", "stopping"} => listening = {}

\* The invariant is inductive.
LEMMA CliNextInv == CliInv /\ [CliNext]_cliVars => CliInv'
<1> SUFFICES ASSUME CliInv, [CliNext]_cliVars PROVE CliInv'
  OBVIOUS
<1> USE DEF CliInv, TotalsTell, ExitCodeTellsTheTruth, Reporting, Binding, Exit, Goes, Pending
\* A step of the reporting loop, by what it makes of the totals.
<1>0. ASSUME cliStage \in Reporting, cliStage' \in Reporting,
             UNCHANGED <<command, reporter, listening, exitCode>>,
             failures' \in Nat, wrong' \in BOOLEAN,
             (reporter = "cli" => (wrong <=> failures > 0)) => (reporter = "cli" => (wrong' <=> failures' > 0))
      PROVE  CliInv'
  BY <1>0
<1>00. ASSUME NEW bad \in BOOLEAN, Counts(bad), wrong' = (wrong \/ bad)
       PROVE  /\ failures' \in Nat /\ wrong' \in BOOLEAN
              /\ (reporter = "cli" => (wrong <=> failures > 0)) => (reporter = "cli" => (wrong' <=> failures' > 0))
  <2>1. wrong' \in BOOLEAN /\ (wrong' <=> (wrong \/ bad))
    BY <1>00
  <2>2. failures' \in Nat
    BY <1>00 DEF Counts
  <2>3. CASE bad
    BY <1>00, <2>1, <2>2, <2>3 DEF Counts
  <2>4. CASE ~bad
    BY <1>00, <2>1, <2>2, <2>4 DEF Counts
  <2>. QED BY <2>1, <2>2, <2>3, <2>4
<1>1. CASE ParseArgs
  <2>1. CASE \E code \in {0, 2} : Exit(code) /\ UNCHANGED <<command, reporter, bail, items>>
    BY <1>1, <2>1 DEF ParseArgs
  <2>2. CASE ~\E code \in {0, 2} : Exit(code) /\ UNCHANGED <<command, reporter, bail, items>>
    <3>1. /\ cliStage = "parse" /\ command' \in Commands
          /\ cliStage' = IF command' \in Serving THEN "binding" ELSE "next"
          /\ UNCHANGED <<failures, listening, wrong, exitCode>>
      BY <1>1, <2>2 DEF ParseArgs
    <3>2. command' # "none" /\ command' \notin {"none"}
      BY <3>1 DEF Commands, Serving
    <3>3. CASE command' \in Serving
      BY <3>1, <3>2, <3>3
    <3>4. CASE command' \notin Serving
      BY <3>1, <3>2, <3>4
    <3>. QED BY <3>3, <3>4
  <2>. QED BY <2>1, <2>2
<1>2. CASE Skip BY <1>2, <1>0 DEF Skip
<1>3. CASE RunRequest
  <2>1. PICK r \in Reports : Counts(r.errored \/ r.failed) /\ wrong' = (wrong \/ r.errored \/ r.failed)
    BY <1>3 DEF RunRequest
  <2>2. r.errored \in BOOLEAN /\ r.failed \in BOOLEAN
    BY DEF Reports
  <2>3. (r.errored \/ r.failed) \in BOOLEAN /\ wrong' = (wrong \/ (r.errored \/ r.failed))
    BY <2>1, <2>2
  <2>4. cliStage \in Reporting /\ cliStage' \in Reporting /\ UNCHANGED <<command, reporter, listening, exitCode>>
    BY <1>3 DEF RunRequest
  <2>. QED BY <1>0, <1>00, <2>1, <2>3, <2>4
<1>4. CASE RequestRejects BY <1>4 DEF RequestRejects
<1>5. CASE BrokenWorkflow
  <2>1. failures' = failures + 1 /\ wrong' = TRUE
    BY <1>5 DEF BrokenWorkflow
  <2>2. failures' \in Nat /\ failures' > 0
    BY <2>1
  <2>3. cliStage \in Reporting /\ cliStage' \in Reporting /\ UNCHANGED <<command, reporter, listening, exitCode>>
    BY <1>5 DEF BrokenWorkflow
  <2>. QED BY <1>0, <2>1, <2>2, <2>3
<1>6. CASE RunWorkflow BY <1>6, <1>0 DEF RunWorkflow
<1>7. CASE RunStep
  <2>1. cliStage \in Reporting /\ cliStage' \in Reporting /\ UNCHANGED <<command, reporter, listening, exitCode>>
    BY <1>7 DEF RunStep
  <2>2. CASE UNCHANGED <<failures, wrong>>
    BY <1>0, <2>1, <2>2
  <2>3. ASSUME NEW r \in Reports, NEW fails \in BOOLEAN,
               Counts(fails \/ r.failed), wrong' = (wrong \/ fails \/ r.failed)
        PROVE  CliInv'
    <3>1. r.failed \in BOOLEAN
      BY DEF Reports
    <3>2. (fails \/ r.failed) \in BOOLEAN /\ wrong' = (wrong \/ (fails \/ r.failed))
      BY <2>3, <3>1
    <3>. QED BY <1>0, <1>00, <2>1, <2>3, <3>2
  <2>. QED BY <1>7, <2>2, <2>3, Zenon DEF RunStep
<1>8. CASE WorkflowDone BY <1>8, <1>0 DEF WorkflowDone
<1>9. CASE McpFile
  <2>1. cliStage \in Reporting /\ cliStage' \in Reporting /\ UNCHANGED <<command, reporter, listening, exitCode>>
    BY <1>9 DEF McpFile
  <2>2. ASSUME NEW bad \in BOOLEAN, failures' = IF bad THEN failures + 1 ELSE failures, wrong' = (wrong \/ bad)
        PROVE  CliInv'
    <3>1. wrong' \in BOOLEAN /\ (wrong' <=> (wrong \/ bad)) /\ failures' \in Nat
      BY <2>2
    <3>2. CASE bad
      BY <1>0, <2>1, <2>2, <3>1, <3>2
    <3>3. CASE ~bad
      BY <1>0, <2>1, <2>2, <3>1, <3>3
    <3>. QED BY <3>2, <3>3
  <2>. QED BY <1>9, <2>2, Zenon DEF McpFile
<1>10. CASE AllDone BY <1>10 DEF AllDone
<1>11. CASE Bind
  <2>1. CASE listening' = {} /\ \E code \in {1, 2} : Exit(code)
    <3>1. exitCode' # Pending /\ cliStage' = "exited"
      BY <2>1
    <3>2. command \in Serving /\ UNCHANGED <<command, reporter, failures, wrong>>
      BY <1>11 DEF Bind
    <3>. QED BY <2>1, <3>1, <3>2
  <2>2. CASE \E at \in {"up", "mqtt"} : Goes(at)
    BY <1>11, <2>2 DEF Bind
  <2>3. \/ listening' = {} /\ \E code \in {1, 2} : Exit(code)
        \/ \E at \in {"up", "mqtt"} : Goes(at)
    BY <1>11 DEF Bind
  <2>. QED BY <2>1, <2>2, <2>3
<1>12. CASE BindMqtt BY <1>12 DEF BindMqtt
<1>13. CASE Stop BY <1>13 DEF Stop
<1>14. CASE Stopped BY <1>14 DEF Stopped
<1>15. CASE UNCHANGED cliVars BY <1>15 DEF cliVars
<1>. QED
  BY <1>1, <1>2, <1>3, <1>4, <1>5, <1>6, <1>7, <1>8, <1>9, <1>10, <1>11, <1>12, <1>13, <1>14, <1>15 DEF CliNext

\* For any command and any number of its requests, steps, tests and listeners: the human reporter's
\* exit code tells whether anything went wrong, and what has exited listens on nothing (cli/index.ts).
THEOREM EndsClean == CliSpec => []CliEndsClean
<1>1. CliInit => CliInv
  <2> SUFFICES ASSUME CliInit PROVE CliInv
    OBVIOUS
  <2>1. /\ cliStage = "parse" /\ failures = 0 /\ ~wrong /\ command = "none" /\ exitCode = Pending
        /\ listening = {}
    BY DEF CliInit
  <2>2. wrong \in BOOLEAN
    BY DEF CliInit
  <2>. QED BY <2>1, <2>2 DEF CliInv, TotalsTell, Reporting, Binding
<1>2. CliInv => CliEndsClean
  BY DEF CliInv, TotalsTell, CliEndsClean, ExitCodeTellsTheTruth, Reporting, Binding
<1>. QED
  BY <1>1, <1>2, CliNextInv, PTL DEF CliSpec

-----------------------------------------------------------------------------
(***************************************************************************)
(* Sandbox: an outcome without an error is complete.                       *)
(***************************************************************************)
ScriptCalls == [call : {"test", "send"}, ok : BOOLEAN, passed : BOOLEAN, callback : BOOLEAN]

\* What is open is pending; a test's result is what its function came to, once it has.
ScriptTypes ==
  /\ scriptAt \in {"run", "round", "batch", "done"}
  /\ calls \in Seq(ScriptCalls)
  /\ pendingCalls \in SUBSET (1 .. Len(calls)) /\ open \in SUBSET pendingCalls

ResultsFollow ==
  \A c \in 1 .. Len(calls) : calls[c].call = "test" =>
    calls[c].passed = IF c \in open THEN TRUE ELSE calls[c].ok

NothingOutstanding == scriptAt = "done" /\ scriptError = NoError => open = {} /\ owed = {}

ScriptInv == ScriptTypes /\ ResultsFollow /\ NothingOutstanding /\ (threw => scriptError # NoError)

\* The calls a script makes are calls, and a test that has run tells what it came to.
LEMMA CallTypes ==
  /\ \A c \in TestCalls(FALSE) : c \in ScriptCalls /\ c.passed = c.ok
  /\ \A c \in TestCalls(TRUE) : c \in ScriptCalls /\ c.passed = TRUE
  /\ \A c \in SendCalls : c \in ScriptCalls /\ c.call = "send"
<1>1. \A a \in Assertions : Holds(a, Response) \in BOOLEAN
  BY DEF Holds, Response, Assertions
<1>2. \A a \in Assertions : (FALSE \/ Holds(a, Response)) = Holds(a, Response) /\ (TRUE \/ Holds(a, Response)) = TRUE
  BY <1>1
<1>3. ASSUME NEW c \in TestCalls(FALSE) PROVE c \in ScriptCalls /\ c.passed = c.ok
  <2>1. PICK a \in Assertions :
          c = [call |-> "test", ok |-> Holds(a, Response), passed |-> FALSE \/ Holds(a, Response), callback |-> FALSE]
    BY <1>3 DEF TestCalls
  <2>. QED BY <1>1, <1>2, <2>1 DEF ScriptCalls
<1>4. ASSUME NEW c \in TestCalls(TRUE) PROVE c \in ScriptCalls /\ c.passed = TRUE
  <2>1. PICK a \in Assertions :
          c = [call |-> "test", ok |-> Holds(a, Response), passed |-> TRUE \/ Holds(a, Response), callback |-> FALSE]
    BY <1>4 DEF TestCalls
  <2>. QED BY <1>1, <1>2, <2>1 DEF ScriptCalls
<1>5. ASSUME NEW c \in SendCalls PROVE c \in ScriptCalls /\ c.call = "send"
  <2>1. PICK ok \in BOOLEAN, cb \in BOOLEAN : c = [call |-> "send", ok |-> ok, passed |-> TRUE, callback |-> cb]
    BY <1>5 DEF SendCalls
  <2>. QED BY <2>1 DEF ScriptCalls
<1>. QED BY <1>3, <1>4, <1>5

\* One more call; a tracked one is pending and open.
LEMMA CallingKeeps ==
  ASSUME ScriptTypes, ResultsFollow, Calling \/ UNCHANGED <<calls, pendingCalls, open>>, UNCHANGED scriptAt
  PROVE  ScriptTypes' /\ ResultsFollow'
<1>1. ASSUME NEW c \in ScriptCalls, calls' = Append(calls, c),
             \/ UNCHANGED <<pendingCalls, open>> /\ (c.call = "test" => c.passed = c.ok)
             \/ /\ pendingCalls' = pendingCalls \cup {Len(calls) + 1} /\ open' = open \cup {Len(calls) + 1}
                /\ c.call = "test" => c.passed = TRUE
      PROVE  ScriptTypes' /\ ResultsFollow'
  <2>1. /\ calls' \in Seq(ScriptCalls) /\ Len(calls') = Len(calls) + 1 /\ Len(calls) \in Nat
        /\ calls'[Len(calls) + 1] = c
        /\ \A i \in 1 .. Len(calls) : calls'[i] = calls[i]
    BY <1>1 DEF ScriptTypes
  <2>2. open \subseteq 1 .. Len(calls)
    BY DEF ScriptTypes
  <2>3. Len(calls) + 1 \notin open
    BY <2>1, <2>2
  <2>4. ScriptTypes'
    <3>1. pendingCalls' \in SUBSET (1 .. Len(calls'))
      <4>1. pendingCalls \in SUBSET (1 .. Len(calls))
        BY DEF ScriptTypes
      <4>2. \A i \in 1 .. Len(calls) : i \in 1 .. Len(calls')
        BY <2>1
      <4>3. Len(calls) + 1 \in 1 .. Len(calls')
        BY <2>1
      <4>. QED BY <1>1, <4>1, <4>2, <4>3
    <3>2. open' \in SUBSET pendingCalls'
      BY <1>1 DEF ScriptTypes
    <3>. QED BY <2>1, <3>1, <3>2 DEF ScriptTypes
  <2>5. \A i \in 1 .. Len(calls') : i \in 1 .. Len(calls) \/ i = Len(calls) + 1
    BY <2>1
  <2>6. \A i \in 1 .. Len(calls) : i \in open' <=> i \in open
    BY <1>1, <2>1
  <2>7. ResultsFollow'
    BY <1>1, <2>1, <2>3, <2>5, <2>6 DEF ResultsFollow
  <2>. QED BY <2>4, <2>7
<1>2. CASE UNCHANGED <<calls, pendingCalls, open>>
  BY <1>2 DEF ScriptTypes, ResultsFollow
<1>3. CASE PmTest
  BY <1>3, <1>1, CallTypes DEF PmTest
<1>4. CASE Tracks(TestCalls(TRUE))
  BY <1>4, <1>1, CallTypes DEF Tracks
<1>5. CASE Tracks(SendCalls)
  BY <1>5, <1>1, CallTypes DEF Tracks
<1>. QED BY <1>2, <1>3, <1>4, <1>5 DEF Calling, PmSendRequest

\* The invariant is inductive.
LEMMA ScriptNextInv == ScriptInv /\ [SandboxNext]_sandboxVars => ScriptInv'
<1> SUFFICES ASSUME ScriptInv, [SandboxNext]_sandboxVars PROVE ScriptInv'
  OBVIOUS
<1>0. UNCHANGED <<calls, open>> /\ pendingCalls' \in SUBSET (1 .. Len(calls)) /\ open \in SUBSET pendingCalls'
        /\ scriptAt' \in {"run", "round", "batch", "done"}
        => ScriptTypes' /\ ResultsFollow'
  BY DEF ScriptInv, ScriptTypes, ResultsFollow
<1>00. pendingCalls \in SUBSET (1 .. Len(calls)) /\ open \in SUBSET pendingCalls
       /\ scriptAt \in {"run", "round", "batch", "done"}
  BY DEF ScriptInv, ScriptTypes
<1>000. NoError # TimedOut /\ NoError # "thrown" /\ NoError # "callback"
  BY DEF NoError, TimedOut
<1>1. CASE RunInContext
  <2>1. CASE Calling /\ UNCHANGED <<scriptAt, scriptError, threw>>
    <3>1. ScriptTypes' /\ ResultsFollow'
      BY <2>1, CallingKeeps DEF ScriptInv
    <3>. QED BY <1>1, <2>1, <3>1 DEF RunInContext, ScriptInv, NothingOutstanding
  <2>2. CASE UNCHANGED <<calls, pendingCalls, open>>
    BY <1>1, <2>2, <1>0, <1>00, <1>000 DEF RunInContext, ScriptInv, NothingOutstanding, RecordError
  <2>. QED BY <1>1, <2>1, <2>2 DEF RunInContext
<1>2. CASE Settle
  <2>1. PICK c \in open :
          /\ open' = open \ {c} /\ owed' = owed \cup {c}
          /\ calls' = IF calls[c].call = "test" THEN [calls EXCEPT ![c].passed = @ /\ calls[c].ok] ELSE calls
          /\ \/ UNCHANGED <<scriptError, threw>>
             \/ calls[c].callback /\ RecordError("callback") /\ threw' = TRUE
    BY <1>2 DEF Settle
  <2>2. UNCHANGED <<scriptAt, pendingCalls, batch, overdue>>
    BY <1>2 DEF Settle
  <2>3. c \in 1 .. Len(calls) /\ calls[c] \in ScriptCalls /\ calls \in Seq(ScriptCalls)
    BY <1>00 DEF ScriptInv, ScriptTypes
  <2>. DEFINE new == [calls[c] EXCEPT !.passed = calls[c].passed /\ calls[c].ok]
  <2>4. ASSUME calls[c].call = "test"
        PROVE  new \in ScriptCalls /\ new.call = "test" /\ new.ok = calls[c].ok /\ new.passed = calls[c].ok
    <3>1. calls[c].passed = TRUE
      BY <2>3, <2>4 DEF ScriptInv, ResultsFollow
    <3>2. calls[c].ok \in BOOLEAN /\ (calls[c].passed /\ calls[c].ok) = calls[c].ok
      BY <2>3, <3>1 DEF ScriptCalls
    <3>. QED BY <2>3, <2>4, <3>2 DEF ScriptCalls
  <2>5. calls[c].call = "test" => calls' = [calls EXCEPT ![c] = new]
    BY <2>1
  <2>. HIDE DEF new
  <2>6. /\ calls' \in Seq(ScriptCalls) /\ Len(calls') = Len(calls)
        /\ \A i \in 1 .. Len(calls) : i # c => calls'[i] = calls[i]
        /\ calls'[c].call = "test" => calls'[c].passed = calls'[c].ok
    <3>1. CASE calls[c].call = "test"
      BY <2>3, <2>4, <2>5, <3>1, ExceptSeq
    <3>2. CASE calls[c].call # "test"
      BY <2>1, <2>3, <3>2
    <3>. QED BY <3>1, <3>2
  <2>7. ScriptTypes'
    BY <2>1, <2>2, <2>6 DEF ScriptInv, ScriptTypes
  <2>8. \A i \in 1 .. Len(calls) : i # c => (i \in open' <=> i \in open)
    BY <2>1
  <2>9. ResultsFollow'
    <3>1. c \notin open'
      BY <2>1
    <3>2. ASSUME NEW i \in 1 .. Len(calls)
          PROVE  calls'[i].call = "test" => calls'[i].passed = IF i \in open' THEN TRUE ELSE calls'[i].ok
      BY <2>6, <2>8, <3>1 DEF ScriptInv, ResultsFollow
    <3>. QED BY <2>6, <3>2 DEF ResultsFollow
  <2>10. NothingOutstanding' /\ (threw' => scriptError' # NoError)
    BY <2>1, <2>2, <1>000 DEF ScriptInv, NothingOutstanding, RecordError
  <2>. QED BY <2>7, <2>9, <2>10 DEF ScriptInv
<1>3. CASE Continue
  <2>1. ScriptTypes' /\ ResultsFollow'
    BY <1>3, CallingKeeps DEF Continue, ScriptInv
  <2>. QED BY <1>3, <2>1 DEF Continue, ScriptInv, NothingOutstanding
<1>4. CASE Deadline
  BY <1>4, <1>0, <1>00 DEF Deadline, ScriptInv, NothingOutstanding
<1>5. CASE Round
  BY <1>5, <1>0, <1>00, <1>000 DEF Round, AfterGrace, ScriptInv, NothingOutstanding
<1>6. CASE WithDeadline
  <2>1. pendingCalls' \in SUBSET (1 .. Len(calls)) /\ open \in SUBSET pendingCalls'
    BY <1>6, <1>00 DEF WithDeadline
  <2>. QED BY <1>6, <2>1, <1>0, <1>000 DEF WithDeadline, ScriptInv, NothingOutstanding
<1>7. CASE UNCHANGED sandboxVars
  BY <1>7, <1>0, <1>00 DEF sandboxVars, ScriptInv, NothingOutstanding
<1>. QED
  BY <1>1, <1>2, <1>3, <1>4, <1>5, <1>6, <1>7 DEF SandboxNext

\* For any number of calls a script makes: when it is over without an error nothing is outstanding,
\* a test reported passed has passed, and nothing it threw is lost (core/sandbox).
THEOREM OutcomeIsWhole == SandboxSpec => []ScriptOutcomeIsWhole
<1>1. SandboxInit => ScriptInv
  BY DEF SandboxInit, ScriptInv, ScriptTypes, ResultsFollow, NothingOutstanding
<1>2. ScriptInv => ScriptOutcomeIsWhole
  BY DEF ScriptInv, ResultsFollow, NothingOutstanding, ScriptOutcomeIsWhole
<1>. QED
  BY <1>1, <1>2, ScriptNextInv, PTL DEF SandboxSpec

-----------------------------------------------------------------------------
(***************************************************************************)
(* Streams: a tab and its client know of each other.                       *)
(***************************************************************************)
Whats == {"reply", "rejected", "open", "error", "closed"}
Messages == Whats \X Calls

StreamTypes ==
  /\ call \in [Calls -> {"unused", "consent", "asked", "handled", "over"}]
  /\ stream \in [Calls -> {"none", "connecting", "open", "failing", "closing", "closed", "dead"}]
  /\ channel \in Seq(Messages)
  /\ cancels \in SUBSET Calls /\ registry \in SUBSET Calls /\ unheard \in SUBSET Calls
  /\ idRef \in Calls \cup {NoCall} /\ tabOpen \in BOOLEAN

\* A message by what it tells: it answers a call, or ends what the tab holds.
AnswersIn(ch, i) == ch[i][1] \in {"reply", "rejected"}
EndsIn(ch, i) == ch[i][1] = "closed" \/ (ch[i][1] = "error" /\ streamKind # "ws")

\* How far a call has come when its client, its id or its cancellation is there.
CallsAreAsked ==
  \A c \in Calls :
    /\ call[c] \in {"unused", "consent", "asked"} => stream[c] = "none"
    /\ idRef = c \/ c \in cancels => call[c] = "over"
    /\ streamKind = "mcp" /\ stream[c] = "connecting" => call[c] = "handled"
    /\ Live(c) => c \in registry

\* What a message on its way says of the call it is about; the end of a client that
\* the tab does not know yet comes after its id.
MessageIsTrue(ch, i, c) ==
  /\ call[c] \in {"handled", "over"}
  /\ AnswersIn(ch, i) => call[c] = "handled" /\ (streamKind = "mcp" => stream[c] # "connecting")
  /\ ch[i][1] \in {"rejected", "error", "closed"} => ~Live(c)
  /\ ch[i][1] = "reply" =>
       /\ stream[c] # "dead"
       /\ stream[c] = "none" => c \in unheard
       /\ stream[c] = "closed" => \E j \in 1 .. Len(ch) : i < j /\ EndsIn(ch, j) /\ ch[j][2] = c

MessagesAreTrue(ch) == \A i \in 1 .. Len(ch) : MessageIsTrue(ch, i, ch[i][2])

AnsweredOnce(ch) ==
  \A i, j \in 1 .. Len(ch) : AnswersIn(ch, i) /\ AnswersIn(ch, j) /\ ch[i][2] = ch[j][2] => i = j

\* What an open tab holds is alive, or its end is on its way.
IdIsFollowed(ch) ==
  tabOpen /\ idRef # NoCall =>
    /\ stream[idRef] # "dead"
    /\ stream[idRef] = "none" => idRef \in unheard
    /\ stream[idRef] = "closed" => \E j \in 1 .. Len(ch) : EndsIn(ch, j) /\ ch[j][2] = idRef
    /\ streamKind # "ws" => idRef \notin cancels

\* Who was not overtaken is the only one, and its client is cancelled or held.
NotOvertaken ==
  /\ \A c, d \in Asked \cup ({idRef} \ {NoCall}) : c # d => c \in raced
  /\ \A c \in Asked \ raced : tabOpen
  /\ \A c \in Calls \ raced : Live(c) => call[c] = "handled" \/ c \in cancels \/ (tabOpen /\ idRef = c)

StreamInv ==
  /\ StreamTypes /\ CallsAreAsked /\ MessagesAreTrue(channel) /\ AnsweredOnce(channel)
  /\ IdIsFollowed(channel) /\ NotOvertaken
  /\ shown = "live" => idRef # NoCall

\* When nothing is under way, the invariant is what the property says.
LEMMA StreamInvOwned == StreamInv => StreamsAreOwned
<1> SUFFICES ASSUME StreamInv PROVE StreamsAreOwned
  OBVIOUS
<1>1. ClientsAreHeld
  BY DEF StreamInv, ClientsAreHeld, Settled, NotOvertaken, CallsAreAsked, Asked
<1>2. TabTellsTheTruth
  <2> SUFFICES ASSUME channel = <<>>, tabOpen, shown = "live"
               PROVE idRef # NoCall /\ (Live(idRef) \/ stream[idRef] \in {"failing", "closing"} \/ idRef \in unheard)
    BY DEF TabTellsTheTruth, Settled
  <2>1. idRef \in Calls /\ 1 .. Len(channel) = {}
    BY DEF StreamInv, StreamTypes
  <2>2. stream[idRef] # "dead" /\ (stream[idRef] = "none" => idRef \in unheard) /\ stream[idRef] # "closed"
    BY <2>1 DEF StreamInv, IdIsFollowed
  <2>. QED BY <2>1, <2>2 DEF StreamInv, StreamTypes, Live
<1>. QED BY <1>1, <1>2 DEF StreamsAreOwned

\* It holds before the first press.
LEMMA StreamInitInv == StreamInit => StreamInv
<1> SUFFICES ASSUME StreamInit PROVE StreamInv
  OBVIOUS
<1>1. channel = <<>> /\ Len(channel) = 0 /\ channel \in Seq(Messages)
  BY DEF StreamInit
<1>2. MessagesAreTrue(channel) /\ AnsweredOnce(channel)
  BY <1>1 DEF MessagesAreTrue, AnsweredOnce
<1>3. IdIsFollowed(channel)
  BY DEF StreamInit, IdIsFollowed
<1>4. StreamTypes /\ CallsAreAsked /\ NotOvertaken
  BY <1>1, StreamAssumption DEF StreamInit, StreamTypes, CallsAreAsked, NotOvertaken, Live, Asked
<1>. QED BY <1>1, <1>2, <1>3, <1>4 DEF StreamInv, StreamInit

\* The channel with one more message.
LEMMA OneMore ==
  ASSUME channel \in Seq(Messages), NEW m \in Messages, channel' = Append(channel, m)
  PROVE  /\ channel' \in Seq(Messages) /\ Len(channel) \in Nat /\ Len(channel') = Len(channel) + 1
         /\ \A i \in 1 .. Len(channel) : channel'[i] = channel[i]
         /\ channel'[Len(channel) + 1] = m
  OBVIOUS

\* A message of c that goes out as c's client moves on: with the first of them the call
\* is handled, and whoever is over says so.
Moves(c, w) ==
  /\ \A d \in Calls \ {c} : call'[d] = call[d] /\ stream'[d] = stream[d]
  /\ \/ call[c] = "asked" /\ call'[c] = "handled"
     \/ /\ call[c] \in {"handled", "over"} /\ call'[c] = call[c]
        /\ Live(c)' => Live(c)
        /\ stream'[c] \notin {"dead", "none"} /\ (streamKind = "mcp" => stream'[c] # "connecting")
        /\ stream'[c] = "closed" =>
             w = "closed" \/ (w = "error" /\ streamKind # "ws") \/ (streamKind = "mcp" /\ stream[c] = "connecting")
  /\ w \in {"reply", "rejected"} =>
       /\ call[c] = "asked" \/ (streamKind = "mcp" /\ stream[c] = "connecting")
       /\ streamKind = "mcp" => stream'[c] # "connecting"
  /\ w \in {"rejected", "error", "closed"} => ~Live(c)'
  /\ w = "reply" => stream'[c] \notin {"dead", "none", "closed"}

\* What is on its way stays true as a client moves on and says so.
LEMMA TellKeeps ==
  ASSUME StreamInv, NEW c \in Calls, NEW w \in Whats, Tell(w, c), Moves(c, w), UNCHANGED <<streamKind, unheard>>
  PROVE  MessagesAreTrue(channel)' /\ AnsweredOnce(channel)' /\ channel' \in Seq(Messages)
<1>. DEFINE m == <<w, c>>
            n == Len(channel) + 1
<1>1. m \in Messages /\ channel \in Seq(Messages) /\ m[1] = w /\ m[2] = c
  BY DEF Messages, StreamInv, StreamTypes
<1>2. /\ channel' \in Seq(Messages) /\ Len(channel) \in Nat /\ Len(channel') = n
      /\ \A i \in 1 .. Len(channel) : channel'[i] = channel[i]
      /\ channel'[n] = m
  BY <1>1, OneMore DEF Tell
<1>3. MessagesAreTrue(channel) /\ AnsweredOnce(channel) /\ CallsAreAsked
  BY DEF StreamInv
<1>. HIDE DEF m
<1>4. \A i \in 1 .. Len(channel) : channel[i][2] \in Calls
  BY <1>1 DEF Messages
<1>5. w \in {"reply", "rejected"} => \A i \in 1 .. Len(channel) : AnswersIn(channel, i) => channel[i][2] # c
  BY <1>3, <1>4 DEF Moves, MessagesAreTrue, MessageIsTrue
<1>6. AnsweredOnce(channel')
  <2> SUFFICES ASSUME NEW i \in 1 .. n, NEW j \in 1 .. n, AnswersIn(channel', i), AnswersIn(channel', j),
                      channel'[i][2] = channel'[j][2]
               PROVE  i = j
    BY <1>2 DEF AnsweredOnce
  <2>1. CASE i \in 1 .. Len(channel) /\ j \in 1 .. Len(channel)
    BY <1>2, <1>3, <2>1 DEF AnsweredOnce, AnswersIn
  <2>2. CASE i = n /\ j \in 1 .. Len(channel)
    BY <1>1, <1>2, <1>5, <2>2 DEF AnswersIn
  <2>3. CASE j = n /\ i \in 1 .. Len(channel)
    BY <1>1, <1>2, <1>5, <2>3 DEF AnswersIn
  <2>. QED BY <1>2, <2>1, <2>2, <2>3
<1>7. MessagesAreTrue(channel)'
  <2> SUFFICES ASSUME NEW i \in 1 .. n PROVE MessageIsTrue(channel, i, channel[i][2])'
    BY <1>2 DEF MessagesAreTrue
  <2>1. CASE i = n
    <3>1. channel'[i] = m /\ channel'[i][1] = w /\ channel'[i][2] = c
      BY <1>1, <1>2, <2>1
    <3>2. MessageIsTrue(channel, i, c)'
      BY <1>3, <3>1 DEF Moves, AnswersIn, MessageIsTrue, CallsAreAsked
    <3>. QED BY <3>1, <3>2
  <2>2. CASE i \in 1 .. Len(channel)
    <3>1. PICK d \in Calls : d = channel[i][2]
      BY <1>4, <2>2
    <3>2. MessageIsTrue(channel, i, d) /\ channel'[i] = channel[i] /\ channel'[i][2] = d
      BY <1>2, <1>3, <2>2, <3>1 DEF MessagesAreTrue
    <3>3. ASSUME \E j \in 1 .. Len(channel) : i < j /\ EndsIn(channel, j) /\ channel[j][2] = d
          PROVE  \E j \in 1 .. Len(channel') : i < j /\ EndsIn(channel, j)' /\ channel'[j][2] = d
      BY <1>2, <3>3 DEF EndsIn
    <3>4. CASE d # c
      <4>1. call'[d] = call[d] /\ stream'[d] = stream[d] /\ (Live(d)' <=> Live(d))
        BY <3>4 DEF Moves, Live
      <4>. QED BY <3>2, <3>3, <4>1 DEF AnswersIn, MessageIsTrue
    <3>5. CASE d = c
      <4>1. call[c] # "asked"
        BY <3>2, <3>5 DEF MessageIsTrue
      <4>2. ASSUME channel[i][1] = "reply", stream'[c] = "closed"
            PROVE  \E j \in 1 .. Len(channel') : i < j /\ EndsIn(channel, j)' /\ channel'[j][2] = d
        <5>1. w = "closed" \/ (w = "error" /\ streamKind # "ws")
          BY <3>2, <3>5, <4>1, <4>2 DEF Moves, AnswersIn, MessageIsTrue
        <5>2. PICK k \in 1 .. Len(channel') : i < k /\ channel'[k][1] = w /\ channel'[k][2] = d
          BY <1>1, <1>2, <2>2, <3>5
        <5>3. EndsIn(channel, k)'
          BY <5>1, <5>2 DEF EndsIn
        <5>. QED BY <5>2, <5>3
      <4>3. /\ call'[c] = call[c] /\ call[c] \in {"handled", "over"} /\ (Live(c)' => Live(c))
            /\ stream'[c] \notin {"dead", "none"} /\ (streamKind = "mcp" => stream'[c] # "connecting")
        BY <4>1 DEF Moves
      <4>. QED BY <3>2, <3>5, <4>2, <4>3 DEF AnswersIn, MessageIsTrue
    <3>. QED BY <3>2, <3>4, <3>5
  <2>. QED BY <1>2, <2>1, <2>2
<1>. QED BY <1>2, <1>6, <1>7

\* The invariant over a step of a client that tells of itself.
LEMMA TellInv ==
  ASSUME StreamInv, NEW c \in Calls, NEW w \in Whats, Tell(w, c), Moves(c, w),
         UNCHANGED <<streamKind, unheard, cancels, idRef, shown, tabOpen, raced>>,
         call' \in [Calls -> {"unused", "consent", "asked", "handled", "over"}],
         stream' \in [Calls -> {"none", "connecting", "open", "failing", "closing", "closed", "dead"}],
         registry' \in SUBSET Calls, \A d \in registry : d = c \/ d \in registry', Live(c)' => c \in registry'
  PROVE  StreamInv'
<1>1. MessagesAreTrue(channel)' /\ AnsweredOnce(channel)' /\ channel' \in Seq(Messages)
  BY TellKeeps
<1>2. StreamTypes'
  BY <1>1 DEF StreamInv, StreamTypes
<1>3. StreamTypes /\ CallsAreAsked /\ IdIsFollowed(channel) /\ NotOvertaken /\ (shown = "live" => idRef # NoCall)
  BY DEF StreamInv
<1>4. \A d \in Calls \ {c} : call'[d] = call[d] /\ stream'[d] = stream[d] /\ (Live(d)' <=> Live(d))
  BY DEF Moves, Live
<1>5. CallsAreAsked'
  <2> SUFFICES ASSUME NEW d \in Calls
               PROVE  /\ call'[d] \in {"unused", "consent", "asked"} => stream'[d] = "none"
                      /\ idRef = d \/ d \in cancels => call'[d] = "over"
                      /\ streamKind = "mcp" /\ stream'[d] = "connecting" => call'[d] = "handled"
                      /\ Live(d)' => d \in registry'
    BY DEF CallsAreAsked
  <2>1. CASE d # c
    BY <1>3, <1>4, <2>1 DEF CallsAreAsked
  <2>2. CASE d = c
    BY <1>3, <2>2 DEF CallsAreAsked, Moves
  <2>. QED BY <2>1, <2>2
<1>6. NotOvertaken'
  <2>1. Asked' = Asked
    BY <1>3, <1>4 DEF Asked, Moves
  <2>2. ASSUME NEW d \in Calls \ raced, Live(d)'
        PROVE  call'[d] = "handled" \/ d \in cancels \/ (tabOpen /\ idRef = d)
    <3>1. CASE d # c
      BY <1>3, <1>4, <2>2, <3>1 DEF NotOvertaken
    <3>2. CASE d = c
      BY <1>3, <2>2, <3>2 DEF NotOvertaken, Moves
    <3>. QED BY <3>1, <3>2
  <2>. QED BY <1>3, <2>1, <2>2 DEF NotOvertaken
<1>7. IdIsFollowed(channel)'
  <2>0. channel \in Seq(Messages) /\ <<w, c>> \in Messages
    BY <1>3 DEF StreamTypes, Messages
  <2>1. /\ Len(channel) \in Nat /\ Len(channel') = Len(channel) + 1
        /\ \A i \in 1 .. Len(channel) : channel'[i] = channel[i]
        /\ channel'[Len(channel) + 1] = <<w, c>>
    BY <2>0, OneMore DEF Tell
  <2>2. PICK k \in 1 .. Len(channel') : channel'[k] = <<w, c>>
    BY <2>1
  <2>3. SUFFICES ASSUME tabOpen, idRef # NoCall
                 PROVE  /\ stream'[idRef] # "dead"
                        /\ stream'[idRef] = "none" => idRef \in unheard
                        /\ stream'[idRef] = "closed" => \E j \in 1 .. Len(channel') : EndsIn(channel, j)' /\ channel'[j][2] = idRef
                        /\ streamKind # "ws" => idRef \notin cancels
    BY DEF IdIsFollowed
  <2>4. /\ idRef \in Calls /\ call[idRef] = "over"
        /\ stream[idRef] # "dead"
        /\ stream[idRef] = "none" => idRef \in unheard
        /\ stream[idRef] = "closed" => \E j \in 1 .. Len(channel) : EndsIn(channel, j) /\ channel[j][2] = idRef
        /\ streamKind # "ws" => idRef \notin cancels
    BY <1>3, <2>3 DEF IdIsFollowed, StreamTypes, CallsAreAsked
  <2>5. CASE idRef # c
    <3>1. stream'[idRef] = stream[idRef]
      BY <1>4, <2>4, <2>5
    <3>2. \A j \in 1 .. Len(channel) : j \in 1 .. Len(channel') /\ (EndsIn(channel, j) => EndsIn(channel, j)')
      BY <2>1 DEF EndsIn
    <3>. QED BY <2>1, <2>4, <3>1, <3>2
  <2>6. CASE idRef = c
    <3>1. ~(streamKind = "mcp" /\ stream[c] = "connecting")
      BY <1>3, <2>4, <2>6 DEF CallsAreAsked
    <3>2. stream'[c] \notin {"dead", "none"}
      BY <2>4, <2>6 DEF Moves
    <3>3. stream'[c] = "closed" => w = "closed" \/ (w = "error" /\ streamKind # "ws")
      BY <2>4, <2>6, <3>1 DEF Moves
    <3>4. stream'[c] = "closed" => EndsIn(channel, k)' /\ channel'[k][2] = idRef
      BY <2>2, <2>6, <3>3 DEF EndsIn
    <3>. QED BY <2>2, <2>4, <2>6, <3>2, <3>4
  <2>. QED BY <2>5, <2>6
<1>. QED BY <1>1, <1>2, <1>3, <1>5, <1>6, <1>7 DEF StreamInv

\* The channel as it is, over a step in which nobody it tells of comes alive or ends unsaid.
LEMMA QuietKeeps ==
  ASSUME StreamInv, UNCHANGED <<streamKind, channel, unheard>>,
         \A d \in Calls : call[d] \in {"handled", "over"} =>
           /\ call'[d] = call[d] /\ (Live(d)' => Live(d))
           /\ stream'[d] = stream[d] \/ stream'[d] = "closing" \/ (stream'[d] \in {"closed", "open"} /\ call[d] = "over")
                \/ (stream'[d] = "open" /\ streamKind # "mcp")
  PROVE  MessagesAreTrue(channel)' /\ AnsweredOnce(channel)'
<1>1. MessagesAreTrue(channel) /\ AnsweredOnce(channel) /\ channel \in Seq(Messages)
  BY DEF StreamInv, StreamTypes
<1>2. \A i \in 1 .. Len(channel) : channel[i][2] \in Calls
  BY <1>1 DEF Messages
<1>3. MessagesAreTrue(channel)'
  <2> SUFFICES ASSUME NEW i \in 1 .. Len(channel), NEW d \in Calls, d = channel[i][2], MessageIsTrue(channel, i, d)
               PROVE  MessageIsTrue(channel, i, d)'
    BY <1>1, <1>2 DEF MessagesAreTrue
  <2>1. /\ call[d] \in {"handled", "over"}
        /\ call'[d] = call[d] /\ (Live(d)' => Live(d))
        /\ stream'[d] = stream[d] \/ stream'[d] = "closing" \/ (stream'[d] \in {"closed", "open"} /\ call[d] = "over")
                \/ (stream'[d] = "open" /\ streamKind # "mcp")
    BY DEF MessageIsTrue
  <2>2. \A j \in 1 .. Len(channel) : EndsIn(channel, j)' <=> EndsIn(channel, j)
    BY DEF EndsIn
  <2>. QED BY <2>1, <2>2 DEF MessageIsTrue, AnswersIn
<1>4. AnsweredOnce(channel)'
  BY <1>1 DEF AnsweredOnce, AnswersIn
<1>. QED BY <1>3, <1>4

\* A press overtakes who is being asked for, and what is held.
LEMMA PressInv ==
  ASSUME StreamInv, NEW c \in Calls, Press(c) PROVE StreamInv'
<1>1. /\ tabOpen /\ shown = "idle" /\ call[c] = "unused"
      /\ call' = [call EXCEPT ![c] = IF streamKind = "mcp" THEN "consent" ELSE "asked"]
      /\ shown' = IF streamKind \in {"ws", "gql"} THEN "pending" ELSE shown
      /\ raced' = IF Asked \cup {idRef} \subseteq {NoCall} THEN raced ELSE raced \cup Asked \cup {idRef, c}
      /\ UNCHANGED <<streamKind, stream, registry, channel, cancels, idRef, tabOpen, unheard>>
  BY DEF Press, mainSide
<1>2. StreamTypes /\ CallsAreAsked /\ IdIsFollowed(channel) /\ NotOvertaken
  BY DEF StreamInv
<1>3. /\ call'[c] \in {"consent", "asked"}
      /\ \A d \in Calls \ {c} : call'[d] = call[d]
  BY <1>1, <1>2 DEF StreamTypes
<1>4. \A d \in Calls : stream'[d] = stream[d] /\ (Live(d)' <=> Live(d))
  BY <1>1 DEF Live
<1>5. MessagesAreTrue(channel)' /\ AnsweredOnce(channel)'
  BY <1>1, <1>3, <1>4, QuietKeeps
<1>6. StreamTypes'
  BY <1>1, <1>2 DEF StreamTypes
<1>7. CallsAreAsked'
  BY <1>1, <1>2, <1>3, <1>4 DEF CallsAreAsked
<1>8. IdIsFollowed(channel)'
  BY <1>1, <1>2 DEF IdIsFollowed, EndsIn
<1>9. NotOvertaken'
  <2>1. Asked' = Asked \cup {c}
    BY <1>1, <1>3 DEF Asked
  <2>2. raced \subseteq raced'
    BY <1>1
  <2>3. ASSUME NEW d \in Asked' \cup ({idRef'} \ {NoCall}), NEW e \in Asked' \cup ({idRef'} \ {NoCall}), d # e
        PROVE  d \in raced'
    <3>1. CASE d = c
      <4>1. ~(Asked \cup {idRef} \subseteq {NoCall})
        BY <1>1, <2>1, <2>3, <3>1, StreamAssumption DEF Asked
      <4>. QED BY <1>1, <3>1, <4>1
    <3>2. CASE d # c
      <4>1. d \in Asked \cup {idRef} /\ d # NoCall
        BY <1>1, <2>1, <2>3, <3>2, StreamAssumption DEF Asked
      <4>. QED BY <1>1, <4>1
    <3>. QED BY <3>1, <3>2
  <2>4. \A d \in Calls \ raced' : Live(d)' => call'[d] = "handled" \/ d \in cancels' \/ (tabOpen' /\ idRef' = d)
    BY <1>1, <1>2, <1>3, <1>4, <2>2 DEF NotOvertaken, CallsAreAsked, Live
  <2>. QED BY <1>1, <2>3, <2>4 DEF NotOvertaken
<1>. QED BY <1>1, <1>5, <1>6, <1>7, <1>8, <1>9 DEF StreamInv

\* Consent: the call goes on, or is over and nobody was told of it.
LEMMA ConsentStepInv ==
  ASSUME StreamInv, NEW c \in Calls, Consent(c) PROVE StreamInv'
<1>1. /\ call[c] = "consent"
      /\ \/ call' = [call EXCEPT ![c] = "asked"] /\ shown' = "pending"
         \/ call' = [call EXCEPT ![c] = "over"] /\ UNCHANGED shown
      /\ UNCHANGED <<streamKind, stream, registry, channel, cancels, idRef, tabOpen, raced, unheard>>
  BY DEF Consent, mainSide
<1>2. StreamTypes /\ CallsAreAsked /\ IdIsFollowed(channel) /\ NotOvertaken /\ (shown = "live" => idRef # NoCall)
  BY DEF StreamInv
<1>3. /\ call'[c] \in {"asked", "over"}
      /\ \A d \in Calls \ {c} : call'[d] = call[d]
  BY <1>1, <1>2 DEF StreamTypes
<1>4. \A d \in Calls : stream'[d] = stream[d] /\ (Live(d)' <=> Live(d))
  BY <1>1 DEF Live
<1>5. MessagesAreTrue(channel)' /\ AnsweredOnce(channel)'
  BY <1>1, <1>3, <1>4, QuietKeeps
<1>6. StreamTypes'
  BY <1>1, <1>2 DEF StreamTypes
<1>7. CallsAreAsked'
  BY <1>1, <1>2, <1>3, <1>4 DEF CallsAreAsked
<1>8. IdIsFollowed(channel)'
  BY <1>1, <1>2 DEF IdIsFollowed, EndsIn
<1>9. NotOvertaken'
  <2>1. Asked' \subseteq Asked
    BY <1>1, <1>3 DEF Asked
  <2>. QED BY <1>1, <1>2, <1>3, <1>4, <2>1 DEF NotOvertaken, CallsAreAsked, Live
<1>. QED BY <1>1, <1>2, <1>5, <1>6, <1>7, <1>8, <1>9 DEF StreamInv

\* A start that is refused.
LEMMA RefuseInv ==
  ASSUME StreamInv, NEW c \in Calls, RefuseStream(c) PROVE StreamInv'
<1>1. /\ call[c] = "asked" /\ call' = [call EXCEPT ![c] = "handled"] /\ Tell("rejected", c)
      /\ UNCHANGED <<streamKind, stream, registry, cancels, idRef, shown, tabOpen, raced, unheard>>
  BY DEF RefuseStream, mainSide, tabSide
<1>2. StreamTypes /\ CallsAreAsked
  BY DEF StreamInv
<1>3. /\ call'[c] = "handled" /\ stream[c] = "none"
      /\ \A d \in Calls \ {c} : call'[d] = call[d]
  BY <1>1, <1>2 DEF StreamTypes, CallsAreAsked
<1>4. Moves(c, "rejected")
  BY <1>1, <1>3 DEF Moves, Live
<1>5. call' \in [Calls -> {"unused", "consent", "asked", "handled", "over"}]
  BY <1>1, <1>2 DEF StreamTypes
<1>6. Live(c)' => c \in registry'
  BY <1>1, <1>3 DEF Live
<1>. QED BY <1>1, <1>2, <1>4, <1>5, <1>6, TellInv DEF Whats, StreamTypes

\* A start: registered, and answered unless it is an MCP session.
LEMMA StartInv ==
  ASSUME StreamInv, NEW c \in Calls, StartStream(c) PROVE StreamInv'
<1>1. /\ call[c] = "asked" /\ call' = [call EXCEPT ![c] = "handled"]
      /\ registry' = registry \cup {c} /\ stream' = [stream EXCEPT ![c] = "connecting"]
      /\ IF streamKind = "mcp" THEN UNCHANGED channel ELSE Tell("reply", c)
      /\ UNCHANGED <<streamKind, cancels, idRef, shown, tabOpen, raced, unheard>>
  BY DEF StartStream, tabSide
<1>2. StreamTypes /\ CallsAreAsked /\ IdIsFollowed(channel) /\ NotOvertaken /\ (shown = "live" => idRef # NoCall)
  BY DEF StreamInv
<1>3. /\ call'[c] = "handled" /\ stream'[c] = "connecting"
      /\ \A d \in Calls \ {c} : call'[d] = call[d] /\ stream'[d] = stream[d]
  BY <1>1, <1>2 DEF StreamTypes
<1>4. /\ call' \in [Calls -> {"unused", "consent", "asked", "handled", "over"}]
      /\ stream' \in [Calls -> {"none", "connecting", "open", "failing", "closing", "closed", "dead"}]
      /\ registry' \in SUBSET Calls /\ c \in registry'
  BY <1>1, <1>2 DEF StreamTypes
<1>5. CASE streamKind # "mcp"
  <2>1. Moves(c, "reply") /\ Tell("reply", c)
    BY <1>1, <1>3, <1>5 DEF Moves, Live
  <2>. QED BY <1>1, <1>4, <2>1, TellInv DEF Whats
<1>6. CASE streamKind = "mcp"
  <2>0. UNCHANGED channel
    BY <1>1, <1>6
  <2>1. \A d \in Calls \ {c} : call'[d] = call[d] /\ stream'[d] = stream[d] /\ (Live(d)' <=> Live(d))
    BY <1>3 DEF Live
  <2>2. MessagesAreTrue(channel)' /\ AnsweredOnce(channel)'
    <3>1. \A d \in Calls : call[d] \in {"handled", "over"} => d # c
      BY <1>1
    <3>. QED BY <1>1, <2>0, <2>1, <3>1, QuietKeeps
  <2>3. StreamTypes'
    BY <1>1, <1>2, <1>4, <2>0 DEF StreamTypes
  <2>4. CallsAreAsked'
    BY <1>1, <1>2, <1>3, <2>1 DEF CallsAreAsked
  <2>5. IdIsFollowed(channel)'
    <3>1. idRef # c
      BY <1>1, <1>2 DEF CallsAreAsked
    <3>. QED BY <1>1, <1>2, <2>0, <2>1, <3>1 DEF IdIsFollowed, EndsIn, StreamTypes
  <2>6. NotOvertaken'
    <3>1. Asked' = Asked
      BY <1>1, <1>3 DEF Asked
    <3>. QED BY <1>1, <1>2, <1>3, <2>1, <3>1 DEF NotOvertaken
  <2>. QED BY <1>1, <1>2, <2>2, <2>3, <2>4, <2>5, <2>6 DEF StreamInv
<1>. QED BY <1>5, <1>6

\* A start that throws.
LEMMA ThrowInv ==
  ASSUME StreamInv, NEW c \in Calls, StartThrows(c) PROVE StreamInv'
<1>1. /\ call[c] = "asked" /\ call' = [call EXCEPT ![c] = "handled"] /\ Tell("rejected", c)
      /\ registry' = registry \cup {c} /\ stream' = [stream EXCEPT ![c] = "dead"]
      /\ UNCHANGED <<streamKind, cancels, idRef, shown, tabOpen, raced, unheard>>
  BY DEF StartThrows, tabSide
<1>2. StreamTypes
  BY DEF StreamInv
<1>3. /\ call'[c] = "handled" /\ stream'[c] = "dead"
      /\ \A d \in Calls \ {c} : call'[d] = call[d] /\ stream'[d] = stream[d]
  BY <1>1, <1>2 DEF StreamTypes
<1>4. Moves(c, "rejected") /\ ~Live(c)'
  BY <1>1, <1>3 DEF Moves, Live
<1>5. /\ call' \in [Calls -> {"unused", "consent", "asked", "handled", "over"}]
      /\ stream' \in [Calls -> {"none", "connecting", "open", "failing", "closing", "closed", "dead"}]
      /\ registry' \in SUBSET Calls
  BY <1>1, <1>2 DEF StreamTypes
<1>. QED BY <1>1, <1>4, <1>5, TellInv DEF Whats

\* A client that was started moves on and says so.
LEMMA StreamMoves ==
  ASSUME StreamInv, NEW c \in Calls, NEW w \in Whats, NEW stage \in {"open", "failing", "closed"},
         stream[c] \in {"connecting", "open", "failing", "closing"},
         stage = "open" => stream[c] = "connecting",
         stage = "closed" => w = "closed" \/ (w = "error" /\ streamKind # "ws")
                               \/ (w = "rejected" /\ streamKind = "mcp" /\ stream[c] = "connecting"),
         w \in {"reply", "rejected"} => streamKind = "mcp" /\ stream[c] = "connecting",
         w \in {"rejected", "error", "closed"} <=> stage # "open",
         stream' = [stream EXCEPT ![c] = stage], Tell(w, c),
         registry' = IF stage = "closed" THEN registry \ {c} ELSE registry,
         UNCHANGED <<streamKind, call, cancels, idRef, shown, tabOpen, raced, unheard>>
  PROVE  StreamInv'
<1>2. StreamTypes /\ CallsAreAsked
  BY DEF StreamInv
<1>3. /\ stream'[c] = stage /\ call[c] \in {"handled", "over"}
      /\ \A d \in Calls \ {c} : stream'[d] = stream[d]
  BY <1>2 DEF StreamTypes, CallsAreAsked
<1>4. Moves(c, w)
  BY <1>3 DEF Moves, Live
<1>5. /\ call' \in [Calls -> {"unused", "consent", "asked", "handled", "over"}]
      /\ stream' \in [Calls -> {"none", "connecting", "open", "failing", "closing", "closed", "dead"}]
      /\ registry' \in SUBSET Calls
      /\ \A d \in registry : d = c \/ d \in registry'
  BY <1>2 DEF StreamTypes
<1>6. Live(c)' => c \in registry'
  BY <1>2, <1>3 DEF Live, CallsAreAsked
<1>. QED BY <1>4, <1>5, <1>6, TellInv

\* A client that is there.
LEMMA OpenedInv ==
  ASSUME StreamInv, NEW c \in Calls, Opened(c) PROVE StreamInv'
<1>1. /\ stream[c] = "connecting" /\ stream' = [stream EXCEPT ![c] = "open"]
      /\ UNCHANGED <<streamKind, call, registry, cancels, idRef, shown, tabOpen, raced, unheard>>
  BY DEF Opened, tabSide
<1>2. StreamTypes /\ CallsAreAsked /\ IdIsFollowed(channel) /\ NotOvertaken /\ (shown = "live" => idRef # NoCall)
  BY DEF StreamInv
<1>3. CASE streamKind = "mcp"
  BY <1>1, <1>3, StreamMoves DEF Opened, Whats
<1>4. CASE streamKind \in {"ws", "mqtt"}
  BY <1>1, <1>4, StreamMoves DEF Opened, Whats
<1>5. CASE streamKind \notin {"mcp", "ws", "mqtt"}
  <2>1. UNCHANGED channel
    BY <1>5 DEF Opened
  <2>2. /\ stream'[c] = "open"
        /\ \A d \in Calls \ {c} : stream'[d] = stream[d]
    BY <1>1, <1>2 DEF StreamTypes
  <2>3. \A d \in Calls : Live(d)' <=> Live(d)
    BY <1>1, <2>2 DEF Live
  <2>4. MessagesAreTrue(channel)' /\ AnsweredOnce(channel)'
    <3>1. \A d \in Calls : stream'[d] = stream[d] \/ (stream'[d] = "open" /\ streamKind # "mcp")
      BY <1>5, <2>2
    <3>. QED BY <1>1, <2>1, <2>3, <3>1, QuietKeeps
  <2>5. StreamTypes'
    BY <1>1, <1>2, <2>1 DEF StreamTypes
  <2>6. CallsAreAsked'
    BY <1>1, <1>2, <1>5, <2>2, <2>3 DEF CallsAreAsked
  <2>7. IdIsFollowed(channel)'
    BY <1>1, <1>2, <2>1, <2>2 DEF IdIsFollowed, EndsIn, StreamTypes
  <2>8. NotOvertaken'
    BY <1>1, <1>2, <2>3 DEF NotOvertaken, Asked
  <2>. QED BY <1>1, <1>2, <2>4, <2>5, <2>6, <2>7, <2>8 DEF StreamInv
<1>. QED BY <1>3, <1>4, <1>5

\* A client that fails.
LEMMA FailsInv ==
  ASSUME StreamInv, NEW c \in Calls, StreamFails(c) PROVE StreamInv'
<1>1. Live(c) /\ UNCHANGED <<streamKind, call, cancels, idRef, shown, tabOpen, raced, unheard>>
  BY DEF StreamFails, tabSide
<1>2. CASE streamKind \in {"ws", "mqtt"}
  BY <1>1, <1>2, StreamMoves DEF StreamFails, Whats, Live
<1>3. CASE streamKind = "mcp"
  BY <1>1, <1>3, StreamMoves DEF StreamFails, Whats, Live
<1>4. CASE streamKind \notin {"mcp", "ws", "mqtt"}
  BY <1>1, <1>4, StreamMoves DEF StreamFails, Whats, Live
<1>. QED BY <1>2, <1>3, <1>4

\* A client that is over.
LEMMA EndsInv ==
  ASSUME StreamInv, NEW c \in Calls, StreamEnds(c) PROVE StreamInv'
  BY StreamMoves DEF StreamEnds, Whats, tabSide

\* An error that goes out before the id: two messages of a call that has just been asked.
LEMMA EmitsInv ==
  ASSUME StreamInv, NEW c \in Calls, StartEmitsError(c) PROVE StreamInv'
<1>1. /\ call[c] = "asked" /\ streamKind = "grpc" /\ call' = [call EXCEPT ![c] = "handled"]
      /\ channel' = channel \o <<<<"error", c>>, <<"reply", c>>>>
      /\ unheard' = unheard \cup {c}
      /\ UNCHANGED <<streamKind, stream, registry, cancels, idRef, shown, tabOpen, raced>>
  BY DEF StartEmitsError, mainSide, tabSide
<1>2. StreamTypes /\ CallsAreAsked /\ IdIsFollowed(channel) /\ NotOvertaken /\ MessagesAreTrue(channel)
        /\ AnsweredOnce(channel) /\ (shown = "live" => idRef # NoCall)
  BY DEF StreamInv
<1>3. /\ call'[c] = "handled" /\ stream[c] = "none" /\ c # idRef /\ c \notin cancels
      /\ \A d \in Calls \ {c} : call'[d] = call[d]
  BY <1>1, <1>2 DEF StreamTypes, CallsAreAsked
<1>4. \A d \in Calls : stream'[d] = stream[d] /\ (Live(d)' <=> Live(d))
  BY <1>1 DEF Live
<1>5. PICK n \in Nat : n = Len(channel)
  BY <1>2 DEF StreamTypes
<1>6. /\ channel' \in Seq(Messages) /\ Len(channel') = n + 2
      /\ \A i \in 1 .. n : channel'[i] = channel[i] /\ channel[i] \in Messages /\ channel[i][2] # c
      /\ channel'[n + 1] = <<"error", c>> /\ channel'[n + 2] = <<"reply", c>>
  <2>1. <<"error", c>> \in Messages /\ <<"reply", c>> \in Messages
    BY DEF Messages, Whats
  <2>2. channel \in Seq(Messages)
    BY <1>2 DEF StreamTypes
  <2>3. \A i \in 1 .. n : channel[i] \in Messages
    BY <1>5, <2>2
  <2>4. \A i \in 1 .. n : channel[i][2] # c
    BY <1>1, <1>2, <1>5 DEF MessagesAreTrue, MessageIsTrue
  <2>. DEFINE e == <<"error", c>>
              r == <<"reply", c>>
  <2>. HIDE DEF e, r
  <2>5. /\ channel \o <<e, r>> \in Seq(Messages) /\ Len(channel \o <<e, r>>) = n + 2
        /\ \A i \in 1 .. n : (channel \o <<e, r>>)[i] = channel[i]
        /\ (channel \o <<e, r>>)[n + 1] = e /\ (channel \o <<e, r>>)[n + 2] = r
    <3>1. e \in Messages /\ r \in Messages
      BY <2>1 DEF e, r
    <3>. QED BY <1>5, <2>2, <3>1
  <2>. QED BY <1>1, <2>3, <2>4, <2>5 DEF e, r
<1>7. MessagesAreTrue(channel)'
  <2> SUFFICES ASSUME NEW i \in 1 .. n + 2 PROVE MessageIsTrue(channel, i, channel[i][2])'
    BY <1>6 DEF MessagesAreTrue
  <2>1. CASE i \in 1 .. n
    <3>1. PICK d \in Calls : d = channel[i][2] /\ d # c
      BY <1>6, <2>1 DEF Messages
    <3>2. MessageIsTrue(channel, i, d) /\ channel'[i] = channel[i] /\ channel'[i][2] = d
      BY <1>2, <1>5, <1>6, <2>1, <3>1 DEF MessagesAreTrue
    <3>3. ASSUME \E j \in 1 .. Len(channel) : i < j /\ EndsIn(channel, j) /\ channel[j][2] = d
          PROVE  \E j \in 1 .. Len(channel') : i < j /\ EndsIn(channel, j)' /\ channel'[j][2] = d
      BY <1>1, <1>5, <1>6, <3>3 DEF EndsIn
    <3>4. call'[d] = call[d] /\ stream'[d] = stream[d] /\ (Live(d)' <=> Live(d))
      BY <1>3, <1>4, <3>1
    <3>. QED BY <1>1, <3>2, <3>3, <3>4 DEF AnswersIn, MessageIsTrue
  <2>2. CASE i \in {n + 1, n + 2}
    <3>1. channel'[i][2] = c /\ channel'[i][1] \in {"error", "reply"}
      BY <1>6, <2>2
    <3>2. ~Live(c)' /\ stream'[c] = "none" /\ c \in unheard'
      BY <1>1, <1>3, <1>4 DEF Live
    <3>3. MessageIsTrue(channel, i, c)'
      BY <1>1, <1>3, <3>1, <3>2 DEF AnswersIn, MessageIsTrue
    <3>. QED BY <3>1, <3>3
  <2>. QED BY <2>1, <2>2
<1>8. AnsweredOnce(channel)'
  <2>1. \A i \in 1 .. n + 2 : AnswersIn(channel', i) /\ channel'[i][2] = c => i = n + 2
    BY <1>6 DEF AnswersIn
  <2>2. \A i \in 1 .. n + 2 : channel'[i][2] # c => i \in 1 .. n
    BY <1>6
  <2>3. \A i, j \in 1 .. n : AnswersIn(channel', i) /\ AnswersIn(channel', j) /\ channel'[i][2] = channel'[j][2] => i = j
    BY <1>2, <1>5, <1>6 DEF AnsweredOnce, AnswersIn
  <2>4. \A i, j \in 1 .. n + 2 : AnswersIn(channel', i) /\ AnswersIn(channel', j) /\ channel'[i][2] = channel'[j][2] => i = j
    BY <2>1, <2>2, <2>3
  <2>. QED BY <1>6, <2>4 DEF AnsweredOnce
<1>9. IdIsFollowed(channel)'
  <2>1. \A j \in 1 .. Len(channel) : j \in 1 .. Len(channel') /\ channel'[j] = channel[j]
    BY <1>5, <1>6
  <2>. QED BY <1>1, <1>2, <2>1 DEF IdIsFollowed, EndsIn
<1>10. StreamTypes'
  BY <1>1, <1>2, <1>6 DEF StreamTypes
<1>11. CallsAreAsked'
  BY <1>1, <1>2, <1>3, <1>4 DEF CallsAreAsked
<1>12. NotOvertaken'
  <2>1. Asked' = Asked
    BY <1>1, <1>3 DEF Asked
  <2>. QED BY <1>1, <1>2, <1>3, <1>4, <2>1 DEF NotOvertaken
<1>. QED BY <1>1, <1>2, <1>7, <1>8, <1>9, <1>10, <1>11, <1>12 DEF StreamInv

\* A cancellation: whatever lives is registered, so it is found.
LEMMA CancelInv ==
  ASSUME StreamInv, NEW c \in Calls, Cancel(c) PROVE StreamInv'
<1>1. /\ c \in cancels /\ cancels' = cancels \ {c} /\ registry' = registry \ {c}
      /\ stream' = IF c \in registry /\ Live(c)
                     THEN [stream EXCEPT ![c] = IF streamKind \in {"ws", "mcp"} THEN "closing" ELSE "closed"]
                     ELSE stream
      /\ UNCHANGED <<streamKind, call, channel, idRef, shown, tabOpen, raced, unheard>>
  BY DEF Cancel, tabSide
<1>2. StreamTypes /\ CallsAreAsked /\ IdIsFollowed(channel) /\ NotOvertaken /\ (shown = "live" => idRef # NoCall)
  BY DEF StreamInv
<1>3. /\ call[c] = "over" /\ (Live(c) => c \in registry)
      /\ \A d \in Calls \ {c} : stream'[d] = stream[d] /\ (Live(d)' <=> Live(d))
      /\ stream'[c] = stream[c] \/ stream'[c] = IF streamKind \in {"ws", "mcp"} THEN "closing" ELSE "closed"
      /\ ~Live(c)'
      /\ stream' \in [Calls -> {"none", "connecting", "open", "failing", "closing", "closed", "dead"}]
  BY <1>1, <1>2 DEF StreamTypes, CallsAreAsked, Live
<1>4. MessagesAreTrue(channel)' /\ AnsweredOnce(channel)'
  <2>1. \A d \in Calls : call[d] \in {"handled", "over"} =>
           /\ call'[d] = call[d] /\ (Live(d)' => Live(d))
           /\ stream'[d] = stream[d] \/ stream'[d] = "closing" \/ (stream'[d] \in {"closed", "open"} /\ call[d] = "over")
                \/ (stream'[d] = "open" /\ streamKind # "mcp")
    BY <1>1, <1>3
  <2>. QED BY <1>1, <2>1, QuietKeeps
<1>5. StreamTypes'
  BY <1>1, <1>2, <1>3 DEF StreamTypes
<1>6. CallsAreAsked'
  <2>1. /\ call[c] = "over" /\ call'[c] = "over" /\ ~Live(c)'
    BY <1>1, <1>3
  <2>2. \A d \in Calls \ {c} : (d \in cancels' <=> d \in cancels) /\ (d \in registry' <=> d \in registry)
    BY <1>1
  <2>3. ~(stream'[c] = "connecting")
    BY <1>3 DEF Live
  <2>. QED BY <1>1, <1>2, <1>3, <2>1, <2>2, <2>3 DEF CallsAreAsked
<1>7. IdIsFollowed(channel)'
  <2> SUFFICES ASSUME tabOpen, idRef # NoCall
               PROVE  /\ stream'[idRef] # "dead"
                      /\ stream'[idRef] = "none" => idRef \in unheard
                      /\ stream'[idRef] = "closed" => \E j \in 1 .. Len(channel) : EndsIn(channel, j) /\ channel[j][2] = idRef
                      /\ streamKind # "ws" => idRef \notin cancels'
    BY <1>1 DEF IdIsFollowed, EndsIn
  <2>1. idRef \in Calls /\ (streamKind # "ws" => idRef \notin cancels)
    BY <1>2 DEF IdIsFollowed, StreamTypes
  <2>2. stream'[idRef] = stream[idRef] \/ stream'[idRef] = "closing"
    BY <1>1, <1>3, <2>1
  <2>. QED BY <1>1, <1>2, <2>1, <2>2 DEF IdIsFollowed
<1>8. NotOvertaken'
  <2>1. Asked' = Asked
    BY <1>1 DEF Asked
  <2>. QED BY <1>1, <1>2, <1>3, <2>1 DEF NotOvertaken
<1>. QED BY <1>1, <1>2, <1>4, <1>5, <1>6, <1>7, <1>8 DEF StreamInv

\* Stop and close: what the tab holds is being cancelled, and whoever is on the way overtaken.
LEMMA StopsInv ==
  ASSUME StreamInv, tabOpen, cancels' = cancels \cup ({idRef} \ {NoCall}), raced' = raced \cup Asked,
         UNCHANGED <<streamKind, call, stream, registry, channel, unheard>>,
         \/ UNCHANGED <<idRef, shown>> /\ (streamKind = "ws" \/ ~tabOpen')
         \/ idRef' = NoCall /\ shown' = "idle",
         tabOpen' \in BOOLEAN
  PROVE  StreamInv'
<1>1. StreamTypes /\ CallsAreAsked /\ IdIsFollowed(channel) /\ NotOvertaken /\ (shown = "live" => idRef # NoCall)
  BY DEF StreamInv
<1>2. \A d \in Calls : Live(d)' <=> Live(d)
  BY DEF Live
<1>3. MessagesAreTrue(channel)' /\ AnsweredOnce(channel)'
  BY <1>2, QuietKeeps
<1>4. StreamTypes'
  BY <1>1 DEF StreamTypes
<1>5. CallsAreAsked'
  BY <1>1, <1>2, StreamAssumption DEF CallsAreAsked
<1>6. IdIsFollowed(channel)'
  <2>1. CASE ~tabOpen' \/ idRef' = NoCall
    BY <2>1 DEF IdIsFollowed
  <2>2. CASE tabOpen' /\ idRef' = idRef /\ streamKind = "ws"
    BY <1>1, <2>2 DEF IdIsFollowed, EndsIn
  <2>. QED BY <2>1, <2>2
<1>7. NotOvertaken'
  <2>1. Asked' = Asked
    BY DEF Asked
  <2>2. idRef' = idRef \/ idRef' = NoCall
    OBVIOUS
  <2>3. ASSUME NEW d \in Calls \ raced', Live(d)'
        PROVE  call'[d] = "handled" \/ d \in cancels' \/ (tabOpen' /\ idRef' = d)
    BY <1>1, <1>2, <2>3, StreamAssumption DEF NotOvertaken
  <2>. QED BY <1>1, <2>1, <2>2, <2>3 DEF NotOvertaken
<1>. QED BY <1>1, <1>3, <1>4, <1>5, <1>6, <1>7 DEF StreamInv

\* The stop button.
LEMMA PressStopInv == ASSUME StreamInv, PressStop PROVE StreamInv'
  BY StopsInv DEF PressStop, mainSide, StreamInv, StreamTypes

\* The tab is unmounted.
LEMMA CloseTabInv == ASSUME StreamInv, CloseTab PROVE StreamInv'
  BY StopsInv DEF CloseTab, mainSide

\* The channel without its first message.
LEMMA OneLess ==
  ASSUME channel \in Seq(Messages), channel # <<>>, channel' = Tail(channel)
  PROVE  /\ channel' \in Seq(Messages) /\ Len(channel') \in Nat /\ Len(channel) = Len(channel') + 1
         /\ \A i \in 1 .. Len(channel') : i + 1 \in 1 .. Len(channel) /\ channel'[i] = channel[i + 1]
         /\ \A j \in 1 .. Len(channel) : j # 1 => j - 1 \in 1 .. Len(channel') /\ channel'[j - 1] = channel[j]
         /\ 1 \in 1 .. Len(channel) /\ Head(channel) = channel[1] /\ channel[1] \in Messages
  OBVIOUS

\* What taking a message does to the tab, by what the message tells.
MessageTaken(w, c) ==
  \/ /\ w = "reply" /\ idRef' = c
     /\ call' = [call EXCEPT ![c] = "over"]
  \/ /\ w = "rejected" /\ idRef' = idRef /\ (shown' = shown \/ shown' = "idle")
     /\ call' = [call EXCEPT ![c] = "over"]
  \/ /\ w \in {"open", "error", "closed"} /\ call' = call
     /\ \/ /\ idRef' = idRef /\ (shown' = shown \/ shown' = "idle" \/ (c = idRef /\ c # NoCall))
           /\ c = idRef /\ tabOpen => w = "open" \/ (w = "error" /\ streamKind = "ws")
        \/ idRef' = NoCall /\ shown' = "idle" /\ c = idRef /\ w \in {"error", "closed"}

\* The handler of a message, by its kind.
LEMMA ReceiveTakes ==
  ASSUME StreamInv, Receive, NEW w \in Whats, NEW c \in Calls, channel[1] = <<w, c>>
  PROVE  MessageTaken(w, c)
<1>1. /\ channel # <<>> /\ Head(channel) = <<w, c>> /\ Head(channel)[1] = w /\ Head(channel)[2] = c /\ c # NoCall
  BY StreamAssumption DEF Receive, StreamInv, StreamTypes
<1>2. CASE w = "reply"
  BY <1>1, <1>2 DEF Receive, Replied, MessageTaken
<1>3. CASE w = "rejected"
  BY <1>1, <1>3 DEF Receive, Rejected, MessageTaken
<1>4. CASE w \in {"open", "error", "closed"}
  <2>1. call' = call /\ IF c = idRef /\ tabOpen THEN Event(w) ELSE UNCHANGED <<idRef, shown>>
    BY <1>1, <1>4 DEF Receive
  <2>2. CASE c = idRef /\ tabOpen
    BY <1>1, <1>4, <2>1, <2>2 DEF Event, MessageTaken
  <2>3. CASE ~(c = idRef /\ tabOpen)
    BY <1>1, <1>4, <2>1, <2>3 DEF MessageTaken
  <2>. QED BY <2>2, <2>3
<1>. QED BY <1>2, <1>3, <1>4 DEF Whats

\* The tab takes a message: the id is its own then, until the end of its client is heard.
LEMMA ReceiveInv ==
  ASSUME StreamInv, Receive PROVE StreamInv'
<1>1. /\ channel # <<>> /\ channel' = Tail(channel)
      /\ UNCHANGED <<streamKind, stream, registry, cancels, tabOpen, raced, unheard>>
  BY DEF Receive, mainSide
<1>2. StreamTypes /\ CallsAreAsked /\ IdIsFollowed(channel) /\ NotOvertaken /\ MessagesAreTrue(channel)
        /\ AnsweredOnce(channel) /\ (shown = "live" => idRef # NoCall)
  BY DEF StreamInv
<1>3. /\ channel' \in Seq(Messages) /\ Len(channel') \in Nat /\ Len(channel) = Len(channel') + 1
      /\ \A i \in 1 .. Len(channel') : i + 1 \in 1 .. Len(channel) /\ channel'[i] = channel[i + 1]
      /\ \A j \in 1 .. Len(channel) : j # 1 => j - 1 \in 1 .. Len(channel') /\ channel'[j - 1] = channel[j]
      /\ 1 \in 1 .. Len(channel) /\ Head(channel) = channel[1] /\ channel[1] \in Messages
  BY <1>1, <1>2, OneLess DEF StreamTypes
<1>4. PICK w \in Whats, c \in Calls : channel[1] = <<w, c>>
  BY <1>3 DEF Messages
<1>5. MessageTaken(w, c) /\ c # NoCall /\ channel[1][1] = w /\ channel[1][2] = c
  BY <1>4, ReceiveTakes, StreamAssumption
<1>6. MessageIsTrue(channel, 1, c)
  BY <1>2, <1>3, <1>5 DEF MessagesAreTrue
<1>7. /\ call[c] \in {"handled", "over"}
      /\ w \in {"reply", "rejected"} => call[c] = "handled" /\ (streamKind = "mcp" => stream[c] # "connecting")
      /\ w \in {"rejected", "error", "closed"} => ~Live(c)
      /\ w = "reply" => /\ stream[c] # "dead"
                        /\ stream[c] = "none" => c \in unheard
                        /\ stream[c] = "closed" => \E j \in 1 .. Len(channel) : 1 < j /\ EndsIn(channel, j) /\ channel[j][2] = c
  BY <1>5, <1>6 DEF MessageIsTrue, AnswersIn
<1>8. /\ \A d \in Calls : d # c \/ w \notin {"reply", "rejected"} => call'[d] = call[d]
      /\ w \in {"reply", "rejected"} => call'[c] = "over"
      /\ call' \in [Calls -> {"unused", "consent", "asked", "handled", "over"}]
  BY <1>2, <1>5 DEF MessageTaken, StreamTypes
<1>9. \A d \in Calls : stream'[d] = stream[d] /\ (Live(d)' <=> Live(d))
  BY <1>1 DEF Live
<1>10. w \in {"reply", "rejected"} => c # idRef /\ c \notin cancels
  BY <1>2, <1>7 DEF CallsAreAsked
<1>11. \A j \in 1 .. Len(channel) :
         EndsIn(channel, j) /\ j # 1 => j - 1 \in 1 .. Len(channel') /\ EndsIn(channel, j - 1)' /\ channel'[j - 1][2] = channel[j][2]
  <2>. TAKE j \in 1 .. Len(channel)
  <2>1. j # 1 => j - 1 \in 1 .. Len(channel') /\ channel'[j - 1] = channel[j]
    BY <1>3
  <2>2. PICK k : k = j - 1
    OBVIOUS
  <2>3. j # 1 /\ EndsIn(channel, j) => channel'[k][1] = "closed" \/ (channel'[k][1] = "error" /\ streamKind' # "ws")
    BY <1>1, <2>1, <2>2 DEF EndsIn
  <2>. QED BY <2>1, <2>2, <2>3 DEF EndsIn
<1>12. MessagesAreTrue(channel)'
  <2> SUFFICES ASSUME NEW i \in 1 .. Len(channel') PROVE MessageIsTrue(channel, i, channel[i][2])'
    BY DEF MessagesAreTrue
  <2>1. PICK k \in 1 .. Len(channel) : k = i + 1
    BY <1>3
  <2>2. channel'[i] = channel[k] /\ channel[k] \in Messages
    BY <1>2, <1>3, <2>1 DEF StreamTypes
  <2>3. PICK d \in Calls : d = channel[k][2]
    BY <2>2 DEF Messages
  <2>4. MessageIsTrue(channel, k, d) /\ channel'[i][2] = d
    BY <1>2, <2>2, <2>3 DEF MessagesAreTrue
  <2>5. AnswersIn(channel', i) <=> AnswersIn(channel, k)
    BY <2>2 DEF AnswersIn
  <2>6. AnswersIn(channel, k) => call'[d] = call[d]
    <3>1. ASSUME AnswersIn(channel, k), w \in {"reply", "rejected"} PROVE d # c
      BY <1>2, <1>3, <1>5, <2>1, <2>3, <3>1 DEF AnsweredOnce, AnswersIn
    <3>. QED BY <1>8, <3>1
  <2>7. call'[d] = call[d] \/ call'[d] = "over"
    BY <1>8
  <2>8. ASSUME \E j \in 1 .. Len(channel) : k < j /\ EndsIn(channel, j) /\ channel[j][2] = d
        PROVE  \E j \in 1 .. Len(channel') : i < j /\ EndsIn(channel, j)' /\ channel'[j][2] = d
    <3>1. PICK j \in 1 .. Len(channel) : k < j /\ EndsIn(channel, j) /\ channel[j][2] = d
      BY <2>8
    <3>2. PICK q \in 1 .. Len(channel') : q = j - 1 /\ EndsIn(channel, q)' /\ channel'[q][2] = d
      BY <1>3, <1>11, <2>1, <3>1
    <3>. QED BY <1>3, <2>1, <3>1, <3>2
  <2>9. MessageIsTrue(channel, i, d)'
    BY <1>1, <1>9, <2>2, <2>4, <2>5, <2>6, <2>7, <2>8 DEF MessageIsTrue, AnswersIn
  <2>. QED BY <2>4, <2>9
<1>13. AnsweredOnce(channel)'
  <2> SUFFICES ASSUME NEW i \in 1 .. Len(channel'), NEW j \in 1 .. Len(channel'), AnswersIn(channel', i), AnswersIn(channel', j),
                      channel'[i][2] = channel'[j][2]
               PROVE  i = j
    BY DEF AnsweredOnce
  <2>1. PICK k \in 1 .. Len(channel) : k = i + 1 /\ channel'[i] = channel[k]
    BY <1>3
  <2>2. PICK l \in 1 .. Len(channel) : l = j + 1 /\ channel'[j] = channel[l]
    BY <1>3
  <2>3. AnswersIn(channel, k) /\ AnswersIn(channel, l) /\ channel[k][2] = channel[l][2]
    BY <2>1, <2>2 DEF AnswersIn
  <2>4. k = l
    BY <1>2, <2>3 DEF AnsweredOnce
  <2>. QED BY <1>3, <2>1, <2>2, <2>4
<1>14. StreamTypes'
  BY <1>1, <1>2, <1>3, <1>5, <1>8 DEF StreamTypes, MessageTaken
<1>15. CallsAreAsked'
  <2> SUFFICES ASSUME NEW d \in Calls
               PROVE  /\ call'[d] \in {"unused", "consent", "asked"} => stream[d] = "none"
                      /\ idRef' = d \/ d \in cancels => call'[d] = "over"
                      /\ streamKind = "mcp" /\ stream[d] = "connecting" => call'[d] = "handled"
                      /\ Live(d)' => d \in registry
    BY <1>1 DEF CallsAreAsked
  <2>1. CASE d = c /\ w \in {"reply", "rejected"}
    BY <1>2, <1>7, <1>8, <1>9, <2>1 DEF CallsAreAsked
  <2>2. CASE ~(d = c /\ w \in {"reply", "rejected"})
    <3>1. call'[d] = call[d] /\ (idRef' = d => idRef = d)
      BY <1>5, <1>8, <2>2, StreamAssumption DEF MessageTaken
    <3>. QED BY <1>2, <1>9, <3>1 DEF CallsAreAsked
  <2>. QED BY <2>1, <2>2
<1>16. IdIsFollowed(channel)'
  <2> SUFFICES ASSUME tabOpen, idRef' # NoCall
               PROVE  /\ stream[idRef'] # "dead"
                      /\ stream[idRef'] = "none" => idRef' \in unheard
                      /\ stream[idRef'] = "closed" => \E j \in 1 .. Len(channel') : EndsIn(channel, j)' /\ channel'[j][2] = idRef'
                      /\ streamKind # "ws" => idRef' \notin cancels
    BY <1>1 DEF IdIsFollowed
  <2>1. CASE w = "reply"
    <3>1. idRef' = c
      BY <1>5, <2>1 DEF MessageTaken
    <3>2. stream[c] = "closed" => \E j \in 1 .. Len(channel') : EndsIn(channel, j)' /\ channel'[j][2] = c
      BY <1>7, <1>11, <2>1
    <3>. QED BY <1>7, <1>10, <2>1, <3>1, <3>2
  <2>2. CASE w # "reply"
    <3>1. idRef' = idRef
      BY <1>5, <2>2 DEF MessageTaken
    <3>2. /\ stream[idRef] # "dead"
          /\ stream[idRef] = "none" => idRef \in unheard
          /\ stream[idRef] = "closed" => \E j \in 1 .. Len(channel) : EndsIn(channel, j) /\ channel[j][2] = idRef
          /\ streamKind # "ws" => idRef \notin cancels
      BY <1>2, <3>1 DEF IdIsFollowed
    <3>3. ~(EndsIn(channel, 1) /\ channel[1][2] = idRef)
      BY <1>5, <2>2, <3>1 DEF EndsIn, MessageTaken
    <3>4. stream[idRef] = "closed" => \E j \in 1 .. Len(channel') : EndsIn(channel, j)' /\ channel'[j][2] = idRef
      BY <1>11, <3>2, <3>3
    <3>. QED BY <3>1, <3>2, <3>4
  <2>. QED BY <2>1, <2>2
<1>17. NotOvertaken'
  <2>1. Asked' \subseteq Asked
    BY <1>7, <1>8 DEF Asked
  <2>2. CASE w = "reply"
    <3>1. idRef' = c /\ c \in Asked
      BY <1>5, <1>7, <2>2 DEF MessageTaken, Asked
    <3>2. ASSUME NEW d \in Calls \ raced, Live(d), ~(call'[d] = "handled"), d \notin cancels
          PROVE  tabOpen /\ c = d
      <4>1. CASE d = c
        BY <1>2, <3>1, <3>2, <4>1 DEF NotOvertaken
      <4>2. CASE d # c
        <5>1. idRef = d /\ d # NoCall
          BY <1>2, <1>8, <3>2, <4>2, StreamAssumption DEF NotOvertaken
        <5>2. d \in raced
          BY <1>2, <3>1, <4>2, <5>1 DEF NotOvertaken
        <5>. QED BY <3>2, <5>2
      <4>. QED BY <4>1, <4>2
    <3>. QED BY <1>1, <1>2, <1>9, <2>1, <3>1, <3>2 DEF NotOvertaken
  <2>3. CASE w # "reply"
    <3>1. idRef' = idRef \/ (idRef' = NoCall /\ c = idRef /\ ~Live(c))
      BY <1>5, <1>7, <2>3 DEF MessageTaken
    <3>2. ASSUME NEW d \in Calls \ raced, Live(d)
          PROVE  call'[d] = "handled" \/ d \in cancels \/ (tabOpen /\ idRef' = d)
      <4>1. d # c \/ w \notin {"reply", "rejected"}
        BY <1>7, <2>3, <3>2
      <4>. QED BY <1>2, <1>8, <3>1, <3>2, <4>1 DEF NotOvertaken
    <3>. QED BY <1>1, <1>2, <1>9, <2>1, <3>1, <3>2 DEF NotOvertaken
  <2>. QED BY <2>2, <2>3
<1>18. shown' = "live" => idRef' # NoCall
  BY <1>2, <1>5 DEF MessageTaken
<1>. QED BY <1>12, <1>13, <1>14, <1>15, <1>16, <1>17, <1>18 DEF StreamInv

\* The invariant is inductive.
LEMMA StreamNextInv == StreamInv /\ [StreamNext]_streamVars => StreamInv'
<1> SUFFICES ASSUME StreamInv, [StreamNext]_streamVars PROVE StreamInv'
  OBVIOUS
<1>1. ASSUME NEW c \in Calls,
             \/ Press(c) \/ Consent(c) \/ RefuseStream(c) \/ StartStream(c) \/ StartThrows(c) \/ StartEmitsError(c)
             \/ Opened(c) \/ StreamFails(c) \/ StreamEnds(c) \/ Cancel(c)
      PROVE  StreamInv'
  BY <1>1, PressInv, ConsentStepInv, RefuseInv, StartInv, ThrowInv, EmitsInv, OpenedInv, FailsInv, EndsInv, CancelInv
<1>2. CASE Receive
  BY <1>2, ReceiveInv
<1>3. CASE PressStop
  BY <1>3, PressStopInv
<1>4. CASE CloseTab
  BY <1>4, CloseTabInv
<1>5. CASE UNCHANGED streamVars
  BY <1>5 DEF streamVars, mainSide, tabSide, StreamInv, StreamTypes, CallsAreAsked, MessagesAreTrue, MessageIsTrue, AnswersIn,
              AnsweredOnce, IdIsFollowed, EndsIn, NotOvertaken, Live, Asked
<1>. QED BY <1>1, <1>2, <1>3, <1>4, <1>5 DEF StreamNext

\* A tab and its client know of each other, whatever is closed, stopped or asked again
\* while replies and events are under way.
THEOREM ClientsAreOwned == StreamSpec => []StreamsAreOwned
<1>1. StreamInv => StreamsAreOwned
  BY StreamInvOwned
<1>2. StreamInit => StreamInv
  BY StreamInitInv
<1>3. StreamInv /\ [StreamNext]_streamVars => StreamInv'
  BY StreamNextInv
<1>. QED BY <1>1, <1>2, <1>3, PTL DEF StreamSpec

-----------------------------------------------------------------------------
(***************************************************************************)
(* Environments: the editor shows the file it has selected.                *)
(***************************************************************************)
EnvPaths == EnvNames \cup {NoEnvFile}
EditorFields == {"shown", "selected", "rows", "baseline", "bulkMode", "bulkText", "pendingSelect", "rowsOf", "bulkOf", "unread"}

\* An open editor, whatever its rows are.
IsEditor(m) ==
  /\ m = [f \in EditorFields |-> m[f]]
  /\ m.shown = TRUE /\ m.selected \in EnvPaths /\ m.bulkMode \in BOOLEAN /\ m.unread \in BOOLEAN
  /\ m.pendingSelect # <<>> => m.pendingSelect[1] \in EnvNames

\* What it shows, once it was read, is its own file's, and it was filled with what is in it.
OwnsWhatItShows(m, files, sl) ==
  m.selected # NoEnvFile /\ m.unread = FALSE /\ sl = {} =>
    /\ m.rowsOf = m.selected
    /\ m.bulkMode = TRUE => m.bulkOf = m.selected
    /\ m.baseline = files[m.selected].values

\* Only reads of the selected file count, and none when the manager is closed.
ManagerHolds(m, files, reads, sl) ==
  \/ m = Closed /\ reads = {}
  \/ IsEditor(m) /\ OwnsWhatItShows(m, files, sl) /\ reads \subseteq {m.selected} \ {NoEnvFile}

EnvOpCalls ==
  [op : {"create", "rename", "duplicate", "delete"}, path : EnvPaths, to : EnvNames, wasActive : BOOLEAN,
   remaining : SUBSET EnvNames, mounted : BOOLEAN]

\* Calls that are awaited: those of a manager that is gone know it.
WriteHolds(m, s) ==
  /\ s = [f \in {"path", "values", "mounted"} |-> s[f]]
  /\ s.path \in EnvNames /\ s.mounted \in BOOLEAN
  /\ s.mounted = TRUE => m # Closed
CallsHold(m, writes, ops) ==
  /\ \A s \in writes : WriteHolds(m, s)
  /\ \A o \in ops : /\ o \in EnvOpCalls
                    /\ o.mounted = TRUE => m # Closed
                    /\ o.op = "delete" => o.path \notin o.remaining

EnvTypes ==
  /\ envFiles = [e \in EnvNames |-> envFiles[e]]
  /\ listed \subseteq EnvNames /\ activeEnv \in EnvPaths

EnvInv ==
  /\ EnvTypes
  /\ ManagerHolds(manager, envFiles, envReads, slips)
  /\ CallsHold(manager, envSaves, envOps)

\* A manager is open or closed, and shows which.
LEMMA EditorOrClosed ==
  ASSUME NEW m PROVE /\ m = Closed => m.shown = FALSE
                     /\ IsEditor(m) => m.shown = TRUE /\ m # Closed
  BY DEF Closed, IsEditor

\* The invariant is what the property says, of a clean editor and of one with edits.
LEMMA EnvInvShows == EnvInv => EditorShowsItsOwnFile
  BY EditorOrClosed DEF EnvInv, ManagerHolds, IsEditor, OwnsWhatItShows, EditorShowsItsOwnFile

\* setSelected: another file is unread, and its read the only one that counts; the same file
\* must be owned already.
LEMMA SelectHolds ==
  ASSUME NEW m, NEW p \in EnvPaths, NEW files, NEW sl, IsEditor(m), Select(m, p),
         envReads \subseteq {m.selected} \ {NoEnvFile},
         p = m.selected => OwnsWhatItShows(m, files, sl)
  PROVE  ManagerHolds(manager', files, envReads', sl) /\ IsEditor(manager')
<1>1. CASE m.selected = p
  BY <1>1 DEF Select, ManagerHolds
<1>2. CASE m.selected # p /\ p = NoEnvFile
  <2>1. manager' = [m EXCEPT !.selected = p, !.rows = <<>>, !.baseline = <<>>, !.rowsOf = p, !.unread = FALSE] /\ envReads' = {}
    BY <1>2 DEF Select, StillCount
  <2>2. IsEditor(manager') /\ manager'.selected = NoEnvFile
    BY <1>2, <2>1 DEF IsEditor, EditorFields
  <2>. QED BY <2>1, <2>2 DEF ManagerHolds, OwnsWhatItShows
<1>3. CASE m.selected # p /\ p # NoEnvFile
  <2>1. manager' = [m EXCEPT !.selected = p, !.unread = TRUE] /\ envReads' = {p}
    BY <1>3 DEF Select, StillCount
  <2>2. IsEditor(manager') /\ manager'.selected = p /\ manager'.unread = TRUE
    BY <1>3, <2>1 DEF IsEditor, EditorFields
  <2>. QED BY <1>3, <2>1, <2>2 DEF ManagerHolds, OwnsWhatItShows
<1>. QED BY <1>1, <1>2, <1>3

\* Leaving the bulk text leaves the rows, whose owner is the same.
LEMMA ResetKeeps ==
  ASSUME NEW m, IsEditor(m), NEW files, NEW sl
  PROVE  /\ IsEditor(ResetEditorFlags(m)) /\ ResetEditorFlags(m).selected = m.selected
         /\ ResetEditorFlags(m).unread = m.unread
         /\ OwnsWhatItShows(m, files, sl) => OwnsWhatItShows(ResetEditorFlags(m), files, sl)
<1>. DEFINE n == ResetEditorFlags(m)
<1>1. /\ n = [f \in EditorFields |-> n[f]] /\ n.bulkMode = FALSE
      /\ n.shown = m.shown /\ n.selected = m.selected /\ n.unread = m.unread /\ n.pendingSelect = m.pendingSelect
      /\ n.rowsOf = m.rowsOf /\ n.baseline = m.baseline
  BY DEF ResetEditorFlags, IsEditor, EditorFields
<1>. HIDE DEF n
<1>2. IsEditor(n)
  BY <1>1 DEF IsEditor
<1>3. OwnsWhatItShows(m, files, sl) => OwnsWhatItShows(n, files, sl)
  BY <1>1 DEF OwnsWhatItShows
<1>. QED BY <1>1, <1>2, <1>3 DEF n

\* Awaited calls are as they were, over a step that leaves the manager open.
LEMMA CallsStay ==
  ASSUME EnvInv, UNCHANGED <<envSaves, envOps>>, manager' # Closed
  PROVE  CallsHold(manager, envSaves, envOps)'
  BY DEF EnvInv, CallsHold, WriteHolds

\* It holds while the manager is closed.
LEMMA EnvInitInv == EnvironmentsInit => EnvInv
<1> SUFFICES ASSUME EnvironmentsInit PROVE EnvInv
  OBVIOUS
<1>1. EnvTypes
  BY EnvironmentsAssumption DEF EnvironmentsInit, EnvTypes, EnvPaths
<1>2. ManagerHolds(manager, envFiles, envReads, slips)
  BY DEF EnvironmentsInit, ManagerHolds
<1>3. CallsHold(manager, envSaves, envOps)
  BY DEF EnvironmentsInit, CallsHold, WriteHolds
<1>. QED BY <1>1, <1>2, <1>3 DEF EnvInv

\* The manager opens on a file it has not read.
LEMMA OpenInv == EnvInv /\ OpenManager => EnvInv'
<1> SUFFICES ASSUME EnvInv, OpenManager PROVE EnvInv'
  OBVIOUS
<1>1. /\ ~manager.shown
      /\ UNCHANGED <<envFiles, listed, activeEnv, envSaves, envOps, slips>>
  BY DEF OpenManager
<1>2. PICK p \in EnvPaths : manager' = OpenedOn(p) /\ envReads' = envReads \cup ({p} \ {NoEnvFile})
  BY DEF OpenManager, EnvInv, EnvTypes, EnvPaths
<1>3. manager = Closed /\ envReads = {}
  BY <1>1 DEF EnvInv, ManagerHolds, IsEditor
<1>4. /\ IsEditor(manager') /\ manager'.selected = p /\ (p # NoEnvFile => manager'.unread = TRUE)
  BY <1>2 DEF OpenedOn, IsEditor, EditorFields
<1>5. ManagerHolds(manager, envFiles, envReads, slips)'
  BY <1>2, <1>3, <1>4 DEF ManagerHolds, OwnsWhatItShows
<1>6. CallsHold(manager, envSaves, envOps)'
  BY <1>1, <1>4, CallsStay, EditorOrClosed
<1>7. EnvTypes'
  BY <1>1 DEF EnvInv, EnvTypes
<1>. QED BY <1>5, <1>6, <1>7 DEF EnvInv

\* The manager closes: nothing it awaits is its any more.
LEMMA CloseInv == EnvInv /\ CloseManager => EnvInv'
<1> SUFFICES ASSUME EnvInv, CloseManager PROVE EnvInv'
  OBVIOUS
<1>1. /\ manager' = Closed /\ envReads' = {}
      /\ envSaves' = {[s EXCEPT !.mounted = FALSE] : s \in envSaves}
      /\ envOps' = {[o EXCEPT !.mounted = FALSE] : o \in envOps}
      /\ UNCHANGED <<envFiles, listed, activeEnv, slips>>
  BY DEF CloseManager, StillCount
<1>2. CallsHold(manager, envSaves, envOps)'
  <2>1. ASSUME NEW s \in envSaves, NEW t, t = [s EXCEPT !.mounted = FALSE]
        PROVE  /\ t = [f \in {"path", "values", "mounted"} |-> t[f]]
               /\ t.path \in EnvNames /\ t.mounted = FALSE
    <3>1. WriteHolds(manager, s)
      BY DEF EnvInv, CallsHold
    <3>2. s = [f \in {"path", "values", "mounted"} |-> s[f]] /\ s.path \in EnvNames
      BY <3>1 DEF WriteHolds
    <3>. QED BY <2>1, <3>2
  <2>2. ASSUME NEW o \in envOps, NEW t, t = [o EXCEPT !.mounted = FALSE]
        PROVE  t \in EnvOpCalls /\ t.mounted = FALSE /\ (t.op = "delete" => t.path \notin t.remaining)
    BY <2>2 DEF EnvInv, CallsHold, WriteHolds, EnvOpCalls
  <2>3. \A t \in envSaves' : /\ t = [f \in {"path", "values", "mounted"} |-> t[f]]
                             /\ t.path \in EnvNames /\ t.mounted \in BOOLEAN /\ t.mounted # TRUE
    <3>. TAKE t \in envSaves'
    <3>1. PICK s \in envSaves : t = [s EXCEPT !.mounted = FALSE]
      BY <1>1
    <3>. QED BY <2>1, <3>1
  <2>4. \A t \in envOps' : t \in EnvOpCalls /\ t.mounted # TRUE /\ (t.op = "delete" => t.path \notin t.remaining)
    <3>. TAKE t \in envOps'
    <3>1. PICK o \in envOps : t = [o EXCEPT !.mounted = FALSE]
      BY <1>1
    <3>. QED BY <2>2, <3>1
  <2>. QED BY <2>3, <2>4 DEF CallsHold, WriteHolds
<1>3. EnvTypes' /\ ManagerHolds(manager, envFiles, envReads, slips)'
  BY <1>1 DEF EnvInv, EnvTypes, ManagerHolds
<1>. QED BY <1>2, <1>3 DEF EnvInv

\* A read returns: it is the selected file's.
LEMMA EndReadInv == EnvInv /\ EndRead => EnvInv'
<1> SUFFICES ASSUME EnvInv, EndRead PROVE EnvInv'
  OBVIOUS
<1>1. PICK p \in envReads :
       /\ envReads' = envReads \ {p}
       /\ manager' = IF envFiles[p] = Garbled THEN manager
                     ELSE [manager EXCEPT !.rows = ValuesToRows(envFiles[p].values),
                                          !.baseline = envFiles[p].values,
                                          !.rowsOf = p, !.unread = FALSE]
       /\ slips' = IF manager' # manager /\ manager.bulkMode THEN slips \cup {"read"} ELSE slips
  BY DEF EndRead
<1>2. UNCHANGED <<envFiles, listed, activeEnv, envSaves, envOps>>
  BY DEF EndRead
<1>3. /\ IsEditor(manager) /\ OwnsWhatItShows(manager, envFiles, slips) /\ envReads = {p} /\ p = manager.selected /\ p # NoEnvFile
      /\ envReads' = {}
  BY <1>1 DEF EnvInv, ManagerHolds
<1>4. ManagerHolds(manager, envFiles, envReads, slips)' /\ manager' # Closed
  <2>1. CASE manager' = manager
    <3>1. slips' = slips
      BY <1>1, <2>1
    <3>. QED BY <1>2, <1>3, <2>1, <3>1, EditorOrClosed DEF ManagerHolds
  <2>2. CASE manager' # manager
    <3>1. manager' = [manager EXCEPT !.rows = ValuesToRows(envFiles[p].values),
                                     !.baseline = envFiles[p].values,
                                     !.rowsOf = p, !.unread = FALSE]
      BY <1>1, <2>2
    <3>2. /\ IsEditor(manager') /\ manager'.selected = p /\ manager'.rowsOf = p /\ manager'.baseline = envFiles[p].values
          /\ manager'.bulkMode = manager.bulkMode
      BY <1>3, <3>1 DEF IsEditor, EditorFields
    <3>3. slips' = {} => manager.bulkMode = FALSE
      BY <1>1, <1>3, <2>2 DEF IsEditor
    <3>. QED BY <1>2, <1>3, <3>2, <3>3, EditorOrClosed DEF ManagerHolds, OwnsWhatItShows
  <2>. QED BY <2>1, <2>2
<1>. QED BY <1>2, <1>4, CallsStay DEF EnvInv, EnvTypes

\* A selection, or the question before one.
LEMMA SelectEnvInv == EnvInv /\ SelectEnv => EnvInv'
<1> SUFFICES ASSUME EnvInv, SelectEnv PROVE EnvInv'
  OBVIOUS
<1>1. manager.shown /\ UNCHANGED <<envFiles, listed, activeEnv, envSaves, envOps, slips>>
  BY DEF SelectEnv
<1>2. IsEditor(manager) /\ OwnsWhatItShows(manager, envFiles, slips) /\ envReads \subseteq {manager.selected} \ {NoEnvFile}
  BY <1>1, EditorOrClosed DEF EnvInv, ManagerHolds
<1>3. PICK p \in listed \ {manager.selected} :
       IF Dirty THEN manager' = [manager EXCEPT !.pendingSelect = <<p>>] /\ UNCHANGED envReads
       ELSE Select(ResetEditorFlags(manager), p)
  BY DEF SelectEnv
<1>4. p \in EnvNames /\ p \in EnvPaths
  BY DEF EnvInv, EnvTypes, EnvPaths
<1>5. ManagerHolds(manager, envFiles, envReads, slips)' /\ manager' # Closed
  <2>1. CASE manager' = [manager EXCEPT !.pendingSelect = <<p>>] /\ UNCHANGED envReads
    <3>1. /\ IsEditor(manager') /\ manager'.selected = manager.selected /\ manager'.unread = manager.unread
          /\ manager'.rowsOf = manager.rowsOf /\ manager'.bulkMode = manager.bulkMode /\ manager'.bulkOf = manager.bulkOf
          /\ manager'.baseline = manager.baseline
      BY <1>2, <1>4, <2>1 DEF IsEditor, EditorFields
    <3>. QED BY <1>1, <1>2, <2>1, <3>1, EditorOrClosed DEF ManagerHolds, OwnsWhatItShows
  <2>2. CASE Select(ResetEditorFlags(manager), p)
    BY <1>1, <1>2, <1>4, <2>2, ResetKeeps, SelectHolds, EditorOrClosed
  <2>. QED BY <1>3, <2>1, <2>2
<1>. QED BY <1>1, <1>5, CallsStay DEF EnvInv, EnvTypes

\* The answer to the question.
LEMMA ConfirmInv == EnvInv /\ ConfirmDiscardAndSwitch => EnvInv'
<1> SUFFICES ASSUME EnvInv, ConfirmDiscardAndSwitch PROVE EnvInv'
  OBVIOUS
<1>1. manager.shown /\ manager.pendingSelect # <<>> /\ UNCHANGED <<envFiles, listed, activeEnv, envSaves, envOps, slips>>
  BY DEF ConfirmDiscardAndSwitch
<1>2. IsEditor(manager) /\ OwnsWhatItShows(manager, envFiles, slips) /\ envReads \subseteq {manager.selected} \ {NoEnvFile}
  BY <1>1, EditorOrClosed DEF EnvInv, ManagerHolds
<1>. DEFINE n == [manager EXCEPT !.pendingSelect = <<>>]
<1>3. /\ IsEditor(n) /\ n.selected = manager.selected /\ n.unread = manager.unread
      /\ n.rowsOf = manager.rowsOf /\ n.bulkMode = manager.bulkMode /\ n.bulkOf = manager.bulkOf
      /\ n.baseline = manager.baseline
  BY <1>2 DEF IsEditor, EditorFields
<1>4. manager.pendingSelect[1] \in EnvPaths
  BY <1>1, <1>2 DEF IsEditor, EnvPaths
<1>5. \/ Select(ResetEditorFlags(n), manager.pendingSelect[1])
      \/ manager' = n /\ UNCHANGED envReads
  BY DEF ConfirmDiscardAndSwitch
<1>. HIDE DEF n
<1>6. OwnsWhatItShows(n, envFiles, slips)
  BY <1>2, <1>3 DEF OwnsWhatItShows
<1>7. ManagerHolds(manager, envFiles, envReads, slips)' /\ manager' # Closed
  <2>1. CASE manager' = n /\ UNCHANGED envReads
    BY <1>1, <1>2, <1>3, <1>6, <2>1, EditorOrClosed DEF ManagerHolds
  <2>2. CASE Select(ResetEditorFlags(n), manager.pendingSelect[1])
    <3>1. /\ IsEditor(ResetEditorFlags(n)) /\ ResetEditorFlags(n).selected = manager.selected
          /\ OwnsWhatItShows(ResetEditorFlags(n), envFiles, slips)
      BY <1>3, <1>6, ResetKeeps
    <3>. QED BY <1>1, <1>2, <1>4, <2>2, <3>1, SelectHolds, EditorOrClosed
  <2>. QED BY <1>5, <2>1, <2>2
<1>. QED BY <1>1, <1>7, CallsStay DEF EnvInv, EnvTypes

\* A step that changes what the editor shows of the file it shows.
Redrawn(m, n) ==
  /\ n = [f \in EditorFields |-> n[f]] /\ n.shown = m.shown /\ n.selected = m.selected /\ n.unread = m.unread
  /\ n.pendingSelect = m.pendingSelect /\ n.baseline = m.baseline
  /\ n.bulkMode \in BOOLEAN
  /\ m.rowsOf = m.selected /\ (m.bulkMode = TRUE => m.bulkOf = m.selected) =>
       n.rowsOf = n.selected /\ (n.bulkMode = TRUE => n.bulkOf = n.selected)

\* Whatever is drawn again of the same file keeps the invariant.
LEMMA RedrawnInv ==
  ASSUME EnvInv, IsEditor(manager), Redrawn(manager, manager'), 
         UNCHANGED <<envFiles, listed, activeEnv, envReads, envSaves, envOps, slips>>
  PROVE  EnvInv'
<1>1. OwnsWhatItShows(manager, envFiles, slips) /\ envReads \subseteq {manager.selected} \ {NoEnvFile}
  BY EditorOrClosed DEF EnvInv, ManagerHolds
<1>3. /\ manager' = [f \in EditorFields |-> manager'[f]] /\ manager'.shown = manager.shown
      /\ manager'.selected = manager.selected /\ manager'.unread = manager.unread
      /\ manager'.pendingSelect = manager.pendingSelect /\ manager'.baseline = manager.baseline
  BY DEF Redrawn
<1>4. IsEditor(manager')
  BY <1>3 DEF IsEditor, Redrawn
<1>5. OwnsWhatItShows(manager, envFiles, slips)'
  BY <1>1, <1>3 DEF OwnsWhatItShows, Redrawn
<1>. QED BY <1>1, <1>3, <1>4, <1>5, CallsStay, EditorOrClosed DEF EnvInv, EnvTypes, ManagerHolds

\* An edit.
LEMMA EditRowsInv == EnvInv /\ EditRows => EnvInv'
<1> SUFFICES ASSUME EnvInv, EditRows PROVE EnvInv'
  OBVIOUS
<1>1. manager.shown /\ UNCHANGED <<envFiles, listed, activeEnv, envReads, envSaves, envOps, slips>>
  BY DEF EditRows
<1>2. IsEditor(manager)
  BY <1>1, EditorOrClosed DEF EnvInv, ManagerHolds
<1>3. PICK r, t : manager' = [manager EXCEPT !.rows = r] \/ manager' = [manager EXCEPT !.bulkText = t]
  <2>1. \/ \E i \in DOMAIN manager.rows : manager' = [manager EXCEPT !.rows[i] = TypedRow]
        \/ \E i \in DOMAIN manager.rows : manager' = [manager EXCEPT !.rows = RemoveAt(@, i)]
        \/ manager' = [manager EXCEPT !.rows = Append(@, TypedRow)]
        \/ manager' = [manager EXCEPT !.bulkText = <<TypedRow>>]
    BY DEF EditRows
  <2>2. \A i : [manager EXCEPT !.rows[i] = TypedRow] = [manager EXCEPT !.rows = [manager.rows EXCEPT ![i] = TypedRow]]
    BY <1>2 DEF IsEditor, EditorFields
  <2>. QED BY <2>1, <2>2
<1>4. /\ manager' = [f \in EditorFields |-> manager'[f]] /\ manager'.shown = manager.shown
      /\ manager'.selected = manager.selected /\ manager'.unread = manager.unread
      /\ manager'.pendingSelect = manager.pendingSelect /\ manager'.baseline = manager.baseline
      /\ manager'.bulkMode = manager.bulkMode /\ manager'.rowsOf = manager.rowsOf /\ manager'.bulkOf = manager.bulkOf
  BY <1>2, <1>3 DEF IsEditor, EditorFields
<1>5. Redrawn(manager, manager')
  BY <1>2, <1>4 DEF Redrawn, IsEditor
<1>. QED BY <1>1, <1>2, <1>5, RedrawnInv

\* The rows become the bulk text, or the other way round.
LEMMA ToggleBulkInv == EnvInv /\ ToggleBulk => EnvInv'
<1> SUFFICES ASSUME EnvInv, ToggleBulk PROVE EnvInv'
  OBVIOUS
<1>1. manager.shown /\ UNCHANGED <<envFiles, listed, activeEnv, envReads, envSaves, envOps, slips>>
  BY DEF ToggleBulk
<1>2. IsEditor(manager)
  BY <1>1, EditorOrClosed DEF EnvInv, ManagerHolds
<1>3. CASE manager.bulkMode
  <2>1. manager' = [manager EXCEPT !.rows = BulkToRows(manager.bulkText), !.rowsOf = manager.bulkOf,
                                     !.bulkMode = FALSE, !.bulkText = <<>>, !.bulkOf = NoEnvFile]
    BY <1>3 DEF ToggleBulk
  <2>2. /\ manager' = [f \in EditorFields |-> manager'[f]] /\ manager'.shown = manager.shown
        /\ manager'.selected = manager.selected /\ manager'.unread = manager.unread
        /\ manager'.pendingSelect = manager.pendingSelect /\ manager'.baseline = manager.baseline
        /\ manager'.bulkMode = FALSE /\ manager'.rowsOf = manager.bulkOf
    BY <1>2, <2>1 DEF IsEditor, EditorFields
  <2>3. manager.bulkMode = TRUE
    BY <1>2, <1>3 DEF IsEditor
  <2>4. Redrawn(manager, manager')
    BY <2>2, <2>3 DEF Redrawn
  <2>. QED BY <1>1, <1>2, <2>4, RedrawnInv
<1>4. CASE ~manager.bulkMode
  <2>1. manager' = [manager EXCEPT !.bulkText = RowsToBulk(manager.rows), !.bulkOf = manager.rowsOf, !.bulkMode = TRUE]
    BY <1>4 DEF ToggleBulk
  <2>2. /\ manager' = [f \in EditorFields |-> manager'[f]] /\ manager'.shown = manager.shown
        /\ manager'.selected = manager.selected /\ manager'.unread = manager.unread
        /\ manager'.pendingSelect = manager.pendingSelect /\ manager'.baseline = manager.baseline
        /\ manager'.bulkMode = TRUE /\ manager'.rowsOf = manager.rowsOf /\ manager'.bulkOf = manager.rowsOf
    BY <1>2, <2>1 DEF IsEditor, EditorFields
  <2>3. Redrawn(manager, manager')
    BY <2>2 DEF Redrawn
  <2>. QED BY <1>1, <1>2, <2>3, RedrawnInv
<1>. QED BY <1>3, <1>4

\* What Shows does to an editor.
ShownOf(h, m, d) ==
  /\ IsEditor(h) /\ h.selected = m.selected /\ h.unread = m.unread
  /\ h.pendingSelect = m.pendingSelect /\ h.baseline = m.baseline
  /\ h.rowsOf = d /\ h.bulkMode = m.bulkMode /\ (m.bulkMode = TRUE => h.bulkOf = d)

\* Shows hands the rows, and the bulk text when it is there, to their new owner.
LEMMA ShowsWhat ==
  ASSUME NEW m, IsEditor(m), NEW values, NEW d
  PROVE  ShownOf(Shows(m, values, d), m, d)
<1>. DEFINE n == [m EXCEPT !.rows = ValuesToRows(values), !.rowsOf = d]
            q == [n EXCEPT !.bulkText = RowsToBulk(n.rows), !.bulkOf = d]
<1>0. Shows(m, values, d) = IF m.bulkMode THEN q ELSE n
  BY DEF Shows
<1>1. CASE m.bulkMode
  <2>2. /\ q = [f \in EditorFields |-> q[f]] /\ q.shown = m.shown /\ q.pendingSelect = m.pendingSelect /\ q.rowsOf = d
        /\ q.bulkMode = m.bulkMode /\ q.bulkOf = d /\ q.selected = m.selected /\ q.unread = m.unread /\ q.baseline = m.baseline
    BY DEF IsEditor, EditorFields
  <2>. HIDE DEF n
  <2>. HIDE DEF q
  <2>3. IsEditor(q)
    BY <2>2 DEF IsEditor
  <2>. QED BY <1>0, <1>1, <2>2, <2>3 DEF ShownOf
<1>2. CASE ~m.bulkMode
  <2>2. /\ n = [f \in EditorFields |-> n[f]] /\ n.shown = m.shown /\ n.pendingSelect = m.pendingSelect /\ n.rowsOf = d
        /\ n.bulkMode = m.bulkMode /\ n.selected = m.selected /\ n.unread = m.unread /\ n.baseline = m.baseline
    BY DEF IsEditor, EditorFields
  <2>3. m.bulkMode # TRUE
    BY <1>2
  <2>. HIDE DEF n
  <2>. HIDE DEF q
  <2>4. IsEditor(n)
    BY <2>2 DEF IsEditor
  <2>. QED BY <1>0, <1>2, <2>2, <2>3, <2>4 DEF ShownOf
<1>. QED BY <1>1, <1>2

\* Revert.
LEMMA RevertInv == EnvInv /\ Revert => EnvInv'
<1> SUFFICES ASSUME EnvInv, Revert PROVE EnvInv'
  OBVIOUS
<1>1. manager.shown /\ manager' = Shows(manager, manager.baseline, manager.rowsOf)
      /\ UNCHANGED <<envFiles, listed, activeEnv, envReads, envSaves, envOps, slips>>
  BY DEF Revert
<1>2. IsEditor(manager)
  BY <1>1, EditorOrClosed DEF EnvInv, ManagerHolds
<1>3. Redrawn(manager, manager')
  <2>1. /\ IsEditor(manager') /\ manager'.selected = manager.selected /\ manager'.unread = manager.unread
        /\ manager'.pendingSelect = manager.pendingSelect /\ manager'.baseline = manager.baseline
        /\ manager'.rowsOf = manager.rowsOf
        /\ manager'.bulkMode = manager.bulkMode /\ (manager.bulkMode = TRUE => manager'.bulkOf = manager.rowsOf)
    <3>1. ShownOf(manager', manager, manager.rowsOf)
      BY <1>1, <1>2, ShowsWhat
    <3>. QED BY <3>1 DEF ShownOf
  <2>. QED BY <1>2, <2>1 DEF Redrawn, IsEditor
<1>. QED BY <1>1, <1>2, <1>3, RedrawnInv

\* A save begins, for the selected file.
LEMMA StartEnvSaveInv == EnvInv /\ StartEnvSave => EnvInv'
<1> SUFFICES ASSUME EnvInv, StartEnvSave PROVE EnvInv'
  OBVIOUS
<1>1. /\ manager.shown /\ manager.selected # NoEnvFile
      /\ envSaves' = envSaves \cup {[path |-> manager.selected, values |-> RowsToValues(CurrentRows), mounted |-> TRUE]}
      /\ UNCHANGED <<envFiles, listed, activeEnv, manager, envReads, envOps, slips>>
  BY DEF StartEnvSave
<1>2. IsEditor(manager) /\ manager # Closed
  BY <1>1, EditorOrClosed DEF EnvInv, ManagerHolds
<1>. DEFINE v == RowsToValues(CurrentRows)
            s == [path |-> manager.selected, values |-> v, mounted |-> TRUE]
<1>. HIDE DEF v
<1>3. s = [f \in {"path", "values", "mounted"} |-> s[f]] /\ s.path \in EnvNames /\ s.mounted = TRUE
  BY <1>1, <1>2 DEF IsEditor, EnvPaths
<1>4. envSaves' = envSaves \cup {s}
  BY <1>1 DEF v
<1>. HIDE DEF s
<1>5. CallsHold(manager, envSaves, envOps)'
  BY <1>1, <1>2, <1>3, <1>4 DEF EnvInv, CallsHold, WriteHolds
<1>. QED BY <1>1, <1>5 DEF EnvInv, EnvTypes

\* A save returns: to its own file, or it is an exception.
LEMMA EndEnvSaveInv == EnvInv /\ EndEnvSave => EnvInv'
<1> SUFFICES ASSUME EnvInv, EndEnvSave PROVE EnvInv'
  OBVIOUS
<1>1. UNCHANGED <<listed, activeEnv, envReads, envOps>>
  BY DEF EndEnvSave
<1>2. PICK s \in envSaves, ok \in BOOLEAN :
       /\ envSaves' = envSaves \ {s}
       /\ envFiles' = IF ok THEN [envFiles EXCEPT ![s.path] = EnvFile("file", s.values)] ELSE envFiles
       /\ IF ok /\ s.mounted
          THEN manager' = Shows([manager EXCEPT !.baseline = s.values], s.values, s.path)
          ELSE UNCHANGED manager
       /\ slips' = IF ~manager.shown \/ (s.mounted /\ manager.selected = s.path)
                   THEN slips ELSE slips \cup {"save"}
  BY DEF EndEnvSave
<1>3. s.path \in EnvNames /\ s.mounted \in BOOLEAN /\ (s.mounted = TRUE => manager # Closed)
  <2>1. WriteHolds(manager, s)
    BY DEF EnvInv, CallsHold
  <2>. QED BY <2>1 DEF WriteHolds
<1>4. EnvTypes'
  <2>1. envFiles = [e \in EnvNames |-> envFiles[e]]
    BY DEF EnvInv, EnvTypes
  <2>2. envFiles' = [e \in EnvNames |-> envFiles'[e]]
    BY <1>2, <1>3, <2>1
  <2>. QED BY <1>1, <2>2 DEF EnvInv, EnvTypes
<1>5. ok => envFiles'[s.path].values = s.values
  BY <1>2, <1>3 DEF EnvInv, EnvTypes, EnvFile
<1>6. ManagerHolds(manager, envFiles, envReads, slips)' /\ (manager # Closed => manager' # Closed)
  <2>1. CASE manager = Closed
    <3>1. manager' = manager
      BY <1>2, <1>3, <2>1
    <3>. QED BY <1>1, <2>1, <3>1, EditorOrClosed DEF EnvInv, ManagerHolds
  <2>2. CASE manager # Closed
    <3>1. IsEditor(manager) /\ OwnsWhatItShows(manager, envFiles, slips) /\ envReads \subseteq {manager.selected} \ {NoEnvFile}
            /\ manager.shown = TRUE
      BY <2>2, EditorOrClosed DEF EnvInv, ManagerHolds
    <3>2. slips' = {} => s.mounted = TRUE /\ manager.selected = s.path /\ slips = {}
      BY <1>2, <1>3, <3>1
    <3>3. CASE ok /\ s.mounted
      <4>. DEFINE n == [manager EXCEPT !.baseline = s.values]
      <4>1. /\ n = [f \in EditorFields |-> n[f]] /\ n.shown = manager.shown /\ n.selected = manager.selected
            /\ n.bulkMode = manager.bulkMode /\ n.unread = manager.unread /\ n.pendingSelect = manager.pendingSelect
            /\ n.baseline = s.values
        BY <3>1 DEF IsEditor, EditorFields
      <4>2. manager' = Shows(n, s.values, s.path)
        BY <1>2, <3>3
      <4>. HIDE DEF n
      <4>3. IsEditor(n)
        BY <3>1, <4>1 DEF IsEditor
      <4>4. /\ IsEditor(manager') /\ manager'.rowsOf = s.path /\ manager'.bulkMode = n.bulkMode
            /\ (n.bulkMode = TRUE => manager'.bulkOf = s.path)
            /\ manager'.selected = n.selected /\ manager'.baseline = s.values
        <5>1. ShownOf(manager', n, s.path)
          BY <4>2, <4>3, ShowsWhat
        <5>. QED BY <4>1, <5>1 DEF ShownOf
      <4>5. OwnsWhatItShows(manager, envFiles, slips)'
        BY <1>5, <3>2, <3>3, <4>1, <4>4 DEF OwnsWhatItShows
      <4>. QED BY <1>1, <3>1, <4>1, <4>4, <4>5, EditorOrClosed DEF ManagerHolds
    <3>4. CASE ~(ok /\ s.mounted)
      <4>1. manager' = manager
        BY <1>2, <3>4
      <4>2. slips' = {} => envFiles' = envFiles
        BY <1>2, <3>2, <3>4
      <4>3. OwnsWhatItShows(manager, envFiles, slips)'
        BY <3>1, <3>2, <4>1, <4>2 DEF OwnsWhatItShows
      <4>. QED BY <1>1, <2>2, <3>1, <4>1, <4>3 DEF ManagerHolds
    <3>. QED BY <3>3, <3>4
  <2>. QED BY <2>1, <2>2
<1>7. CallsHold(manager, envSaves, envOps)'
  BY <1>1, <1>2, <1>6 DEF EnvInv, CallsHold, WriteHolds
<1>. QED BY <1>4, <1>6, <1>7 DEF EnvInv

\* An operation begins: what remains after a deletion is without the deleted file.
LEMMA StartEnvOpInv == EnvInv /\ StartEnvOp => EnvInv'
<1> SUFFICES ASSUME EnvInv, StartEnvOp PROVE EnvInv'
  OBVIOUS
<1>1. /\ manager.shown
      /\ UNCHANGED <<envFiles, listed, activeEnv, manager, envReads, envSaves, slips>>
  BY DEF StartEnvOp
<1>2. IsEditor(manager) /\ manager # Closed
  BY <1>1, EditorOrClosed DEF EnvInv, ManagerHolds
<1>3. PICK op \in {"create", "rename", "duplicate", "delete"}, to \in EnvNames :
        envOps' = envOps \cup
            {[op |-> op, path |-> manager.selected, to |-> to, wasActive |-> activeEnv = manager.selected,
              remaining |-> listed \ {manager.selected}, mounted |-> TRUE]}
  BY DEF StartEnvOp
<1>. DEFINE a == activeEnv = manager.selected
            o == [op |-> op, path |-> manager.selected, to |-> to, wasActive |-> a,
                  remaining |-> listed \ {manager.selected}, mounted |-> TRUE]
<1>4. a \in BOOLEAN /\ listed \ {manager.selected} \in SUBSET EnvNames
  BY DEF EnvInv, EnvTypes
<1>. HIDE DEF a
<1>5. /\ o \in EnvOpCalls /\ o.path \notin o.remaining
  BY <1>2, <1>4 DEF EnvOpCalls, IsEditor
<1>6. envOps' = envOps \cup {o}
  BY <1>3 DEF a
<1>. HIDE DEF o
<1>7. CallsHold(manager, envSaves, envOps)'
  BY <1>1, <1>2, <1>5, <1>6 DEF EnvInv, CallsHold, WriteHolds
<1>. QED BY <1>1, <1>7 DEF EnvInv, EnvTypes

\* What an operation makes of the files it names, and that it leaves the others alone.
LEMMA OperateDoes ==
  ASSUME EnvTypes, NEW o \in EnvOpCalls
  PROVE  /\ Operate(o) = [e \in EnvNames |-> Operate(o)[e]]
         /\ \A e \in EnvNames : e # o.to /\ e # o.path => Operate(o)[e] = envFiles[e]
         /\ o.op = "create" => \A e \in EnvNames : Operate(o)[e].values = envFiles[e].values
         /\ o.op = "duplicate" => \A e \in EnvNames : e # o.to => Operate(o)[e] = envFiles[e]
         /\ o.op = "rename" /\ o.to = o.path => Operate(o) = envFiles
         /\ o.op = "delete" => \A e \in EnvNames : e # o.path => Operate(o)[e] = envFiles[e]
<1>1. envFiles = [e \in EnvNames |-> envFiles[e]] /\ o.to \in EnvNames /\ o.op \in {"create", "rename", "duplicate", "delete"}
  BY DEF EnvTypes, EnvOpCalls
<1>2. CASE Operate(o) = envFiles
  BY <1>1, <1>2
<1>3. CASE Operate(o) # envFiles
  <2>1. CASE o.op = "create"
    <3>1. Operate(o) = [envFiles EXCEPT ![o.to] = EnvFile("file", <<>>)] /\ envFiles[o.to] = Missing
      BY <1>3, <2>1 DEF Operate, IsFile
    <3>2. envFiles[o.to].values = <<>> /\ EnvFile("file", <<>>).values = <<>>
      BY <3>1 DEF Missing, EnvFile
    <3>. QED BY <1>1, <2>1, <3>1, <3>2
  <2>2. CASE o.op = "duplicate"
    <3>1. Operate(o) = [envFiles EXCEPT ![o.to] = EnvFile("file", envFiles[o.path].values)]
      BY <1>3, <2>2 DEF Operate
    <3>. QED BY <1>1, <2>2, <3>1
  <2>3. CASE o.op = "rename"
    <3>1. Operate(o) = [envFiles EXCEPT ![o.path] = Missing, ![o.to] = envFiles[o.path]]
      BY <1>3, <2>3 DEF Operate
    <3>2. o.to = o.path => Operate(o) = envFiles
      BY <1>1, <3>1
    <3>. QED BY <1>1, <1>3, <2>3, <3>1, <3>2
  <2>4. CASE o.op = "delete"
    <3>1. Operate(o) = [envFiles EXCEPT ![o.path] = Missing]
      BY <1>3, <2>4 DEF Operate
    <3>. QED BY <1>1, <2>4, <3>1
  <2>. QED BY <1>1, <2>1, <2>2, <2>3, <2>4
<1>. QED BY <1>2, <1>3

\* Where the editor goes, it owns what it shows of the files that the operation left.
LEMMA FollowHolds ==
  ASSUME EnvTypes, NEW o \in EnvOpCalls, IsEditor(manager), Follow(o), envFiles' = Operate(o),
         envReads \subseteq {manager.selected} \ {NoEnvFile}, OwnsWhatItShows(manager, envFiles, slips),
         o.op = "delete" => o.path \notin o.remaining,
         slips' = IF OvertakenOp(o) THEN slips \cup {"operation"} ELSE slips
  PROVE  ManagerHolds(manager, envFiles, envReads, slips)' /\ manager' # Closed
<1>1. o.op \in {"create", "rename", "duplicate", "delete"} /\ o.to \in EnvPaths /\ o.remaining \subseteq EnvNames
  BY DEF EnvOpCalls, EnvPaths
<1>2. slips' = {} => slips = {} /\ ~OvertakenOp(o)
  OBVIOUS
<1>3. manager.selected \in EnvPaths
  BY DEF IsEditor
<1>4. CASE o.op = "rename"
  <2>. DEFINE renamed(of) == IF of = o.path THEN o.to ELSE of
              m == [manager EXCEPT !.rowsOf = renamed(manager.rowsOf), !.bulkOf = renamed(manager.bulkOf)]
  <2>1. Select(m, o.to)
    BY <1>4 DEF Follow
  <2>2. /\ m = [f \in EditorFields |-> m[f]] /\ m.shown = manager.shown /\ m.selected = manager.selected
        /\ m.unread = manager.unread /\ m.bulkMode = manager.bulkMode /\ m.pendingSelect = manager.pendingSelect
        /\ m.baseline = manager.baseline /\ m.rowsOf = renamed(manager.rowsOf) /\ m.bulkOf = renamed(manager.bulkOf)
    BY DEF IsEditor, EditorFields
  <2>. HIDE DEF m
  <2>3. IsEditor(m)
    BY <2>2 DEF IsEditor
  <2>4. ASSUME o.to = m.selected PROVE OwnsWhatItShows(m, envFiles', slips')
    <3>1. slips' = {} => o.to = o.path /\ envFiles' = envFiles
      BY <1>2, <1>4, <2>2, <2>4, OperateDoes DEF OvertakenOp
    <3>2. slips' = {} => renamed(manager.rowsOf) = manager.rowsOf /\ renamed(manager.bulkOf) = manager.bulkOf
      BY <3>1
    <3>. QED BY <1>2, <2>2, <3>1, <3>2 DEF OwnsWhatItShows
  <2>. QED BY <1>1, <2>1, <2>2, <2>3, <2>4, SelectHolds, EditorOrClosed
<1>5. CASE o.op # "rename"
  <2>1. PICK m : m = ResetEditorFlags(manager)
    OBVIOUS
  <2>2. IsEditor(m) /\ m.selected = manager.selected /\ OwnsWhatItShows(m, envFiles, slips)
    BY <2>1, ResetKeeps
  <2>3. CASE o.op = "delete"
    <3>2. PICK q \in EnvPaths : Select(m, q) /\ (q = NoEnvFile \/ q \in o.remaining)
      <4>1. CASE o.remaining = {}
        BY <2>1, <2>3, <4>1 DEF Follow, EnvPaths
      <4>2. CASE o.remaining # {}
        <5>1. PICK q : q = CHOOSE e \in o.remaining : FirstEnv \in o.remaining => e = FirstEnv
          OBVIOUS
        <5>2. q \in o.remaining
          BY <4>2, <5>1
        <5>. QED BY <1>1, <2>1, <2>3, <4>2, <5>1, <5>2 DEF Follow, EnvPaths
      <4>. QED BY <4>1, <4>2
    <3>3. ASSUME q = m.selected PROVE OwnsWhatItShows(m, envFiles', slips')
      <4>1. q # NoEnvFile => q # o.path /\ envFiles'[q] = envFiles[q]
        BY <1>1, <2>3, <3>2, OperateDoes
      <4>. QED BY <1>2, <2>2, <3>3, <4>1 DEF OwnsWhatItShows
    <3>. QED BY <2>2, <3>2, <3>3, SelectHolds, EditorOrClosed
  <2>4. CASE o.op # "delete"
    <3>1. Select(m, o.to)
      BY <1>5, <2>1, <2>4 DEF Follow
    <3>2. ASSUME o.to = m.selected PROVE OwnsWhatItShows(m, envFiles', slips')
      <4>1. o.to \in EnvNames
        BY DEF EnvOpCalls
      <4>2. slips' = {} => o.op = "create"
        BY <1>1, <1>2, <1>5, <2>2, <2>4, <3>2 DEF OvertakenOp
      <4>3. slips' = {} => envFiles'[o.to].values = envFiles[o.to].values
        BY <4>1, <4>2, OperateDoes
      <4>. QED BY <1>2, <2>2, <3>2, <4>3 DEF OwnsWhatItShows
    <3>. QED BY <1>1, <2>2, <3>1, <3>2, SelectHolds, EditorOrClosed
  <2>. QED BY <2>3, <2>4
<1>. QED BY <1>4, <1>5

\* An operation returns.
LEMMA EndEnvOpInv == EnvInv /\ EndEnvOp => EnvInv'
<1> SUFFICES ASSUME EnvInv, EndEnvOp PROVE EnvInv'
  OBVIOUS
<1>1. UNCHANGED <<listed, envSaves>>
  BY DEF EndEnvOp
<1>2. PICK o \in envOps :
       /\ envOps' = envOps \ {o}
       /\ envFiles' = Operate(o)
       /\ IF ~Succeeds(o) THEN UNCHANGED <<refreshDue, activeEnv, manager, envReads, slips>>
          ELSE /\ refreshDue' = TRUE
               /\ activeEnv' = CASE o.op = "rename" /\ o.wasActive -> o.to
                                 [] o.op = "delete" /\ o.wasActive -> NoEnvFile
                                 [] OTHER -> activeEnv
               /\ IF o.mounted THEN Follow(o) ELSE UNCHANGED <<manager, envReads>>
               /\ slips' = IF manager.shown /\ (o.mounted => OvertakenOp(o)) THEN slips \cup {"operation"} ELSE slips
  BY DEF EndEnvOp
<1>3. /\ EnvTypes /\ ManagerHolds(manager, envFiles, envReads, slips) /\ CallsHold(manager, envSaves, envOps)
      /\ o \in EnvOpCalls /\ (o.mounted = TRUE => manager # Closed) /\ (o.op = "delete" => o.path \notin o.remaining)
      /\ o.mounted \in BOOLEAN
  BY DEF EnvInv, CallsHold, WriteHolds, EnvOpCalls
<1>4. EnvTypes'
  <2>1. activeEnv' \in EnvPaths
    <3>1. CASE ~Succeeds(o)
      BY <1>2, <1>3, <3>1 DEF EnvTypes
    <3>2. CASE Succeeds(o)
      BY <1>2, <1>3, <3>2 DEF EnvTypes, EnvPaths, EnvOpCalls
    <3>. QED BY <3>1, <3>2
  <2>. QED BY <1>1, <1>2, <1>3, <2>1, OperateDoes DEF EnvTypes
<1>5. ManagerHolds(manager, envFiles, envReads, slips)' /\ (manager # Closed => manager' # Closed)
  <2>1. CASE ~Succeeds(o)
    <3>1. envFiles' = envFiles
      BY <1>2, <2>1 DEF Succeeds
    <3>. QED BY <1>2, <1>3, <2>1, <3>1
  <2>2. CASE Succeeds(o) /\ o.mounted
    <3>1. /\ IsEditor(manager) /\ OwnsWhatItShows(manager, envFiles, slips) /\ envReads \subseteq {manager.selected} \ {NoEnvFile}
          /\ manager.shown = TRUE
      BY <1>3, <2>2, EditorOrClosed DEF ManagerHolds
    <3>2. Follow(o) /\ slips' = IF OvertakenOp(o) THEN slips \cup {"operation"} ELSE slips
      BY <1>2, <2>2, <3>1
    <3>. QED BY <1>2, <1>3, <3>1, <3>2, FollowHolds
  <2>3. CASE Succeeds(o) /\ ~o.mounted
    <3>1. UNCHANGED <<manager, envReads>> /\ (manager.shown => slips' # {})
      BY <1>2, <2>3
    <3>2. CASE manager = Closed
      BY <1>3, <3>1, <3>2, EditorOrClosed DEF ManagerHolds
    <3>3. CASE manager # Closed
      BY <1>3, <3>1, <3>3, EditorOrClosed DEF ManagerHolds, OwnsWhatItShows
    <3>. QED BY <3>2, <3>3
  <2>. QED BY <2>1, <2>2, <2>3
<1>6. CallsHold(manager, envSaves, envOps)'
  BY <1>1, <1>2, <1>3, <1>5 DEF CallsHold, WriteHolds
<1>. QED BY <1>4, <1>5, <1>6 DEF EnvInv

\* The invariant is inductive.
LEMMA EnvNextInv == EnvInv /\ [EnvironmentsNext]_environmentVars => EnvInv'
<1> SUFFICES ASSUME EnvInv, [EnvironmentsNext]_environmentVars PROVE EnvInv'
  OBVIOUS
<1>1. CASE RefreshEnvs \/ SetActive \/ UNCHANGED environmentVars
  <2>1. UNCHANGED <<envFiles, manager, envReads, envSaves, envOps, slips>>
    BY <1>1 DEF RefreshEnvs, SetActive, environmentVars
  <2>2. listed' \subseteq EnvNames /\ activeEnv' \in EnvPaths
    <3>1. CASE RefreshEnvs
      BY <3>1 DEF RefreshEnvs, EnvInv, EnvTypes, EnvPaths
    <3>2. CASE SetActive
      <4>1. manager.shown /\ activeEnv' = manager.selected /\ listed' = listed
        BY <3>2 DEF SetActive
      <4>. QED BY <4>1, EditorOrClosed DEF EnvInv, EnvTypes, ManagerHolds, IsEditor
    <3>3. CASE UNCHANGED environmentVars
      BY <3>3 DEF environmentVars, EnvInv, EnvTypes
    <3>. QED BY <1>1, <3>1, <3>2, <3>3
  <2>. QED BY <2>1, <2>2 DEF EnvInv, EnvTypes
<1>. QED BY <1>1, OpenInv, CloseInv, EndReadInv, SelectEnvInv, ConfirmInv, EditRowsInv, ToggleBulkInv, RevertInv,
            StartEnvSaveInv, EndEnvSaveInv, StartEnvOpInv, EndEnvOpInv DEF EnvironmentsNext

\* For any number of names, edits and operations: once a file has been read, the editor
\* shows its own rows and a clean one what is in it, however what is awaited overlaps.
THEOREM ShowsItsOwn == EnvironmentsSpec => []EditorShowsItsOwnFile
<1>1. EnvInv => EditorShowsItsOwnFile
  BY EnvInvShows
<1>2. EnvironmentsInit => EnvInv
  BY EnvInitInv
<1>3. EnvInv /\ [EnvironmentsNext]_environmentVars => EnvInv'
  BY EnvNextInv
<1>. QED BY <1>1, <1>2, <1>3, PTL DEF EnvironmentsSpec

-----------------------------------------------------------------------------
(***************************************************************************)
(* Workbench: what the user has typed goes away by choice only.            *)
(***************************************************************************)
OpenTabs == [path : TabPaths, dirty : BOOLEAN, dirtyRef : BOOLEAN, text : Nat, during : BOOLEAN,
             foreign : BOOLEAN]
TabSaves == [root : Collections, path : TabPaths, text : Nat, then : {"stay", "close", "quit"}]
Loads == [root : Collections, at : {"scan", "envs"}, open : TabPaths \cup {Nothing}]
TreeOps == [op : {"create", "rename", "delete"}, root : Collections, from : TabPaths, to : TabPaths,
            affected : BOOLEAN]
Quits == [on : BOOLEAN, ids : Seq(TabPaths), left : SUBSET Nat, allOk : BOOLEAN]

WorkTypes ==
  /\ root \in Collections \cup {Nothing}
  /\ tabs \in Seq(OpenTabs) /\ activeTabId \in TabPaths \cup {Nothing}
  /\ saves \in SUBSET TabSaves /\ treeLoads \in SUBSET Loads /\ fileOps \in SUBSET TreeOps
  /\ quitQueue \in Quits /\ quitQueue.left \subseteq 1 .. Len(quitQueue.ids)
  /\ typedTexts \in Nat /\ savedTexts \subseteq 0 .. typedTexts /\ {0, 1} \subseteq savedTexts
  /\ diskText \in [Collections -> [TabPaths -> savedTexts]]

\* Nothing is open, or on its way to be, before there is a collection.
RootKnown ==
  root = Nothing => tabs = <<>> /\ fileOps = {} /\ \A l \in treeLoads : l.at = "scan" /\ l.open = Nothing

TabsUsable(ts, active) ==
  /\ active = Nothing <=> ts = <<>>
  /\ active # Nothing => \E i \in 1 .. Len(ts) : ts[i].path = active
  /\ \A i, j \in 1 .. Len(ts) : ts[i].path = ts[j].path => i = j

\* What a save under way will write is what the tab holds, unless that was typed since,
\* or the save is another editor's: then the tab was loaded, and all edits came later.
SaveFits(t, s, texts) ==
  /\ t.text = s.text \/ t.during \/ t.text \in texts
  /\ t.foreign /\ t.dirtyRef => t.during /\ t.text # s.text

\* A text that is on no disk makes its tab dirty, or was typed during a save.
TabHolds(t, texts, ss, n) ==
  /\ t.text <= n
  /\ t.text \in texts \/ t.during \/ t.dirty
  /\ t.dirtyRef => t.dirty \/ t.during
  /\ t.foreign => \E s \in ss : s.path = t.path
  /\ \A s \in ss : s.path = t.path => SaveFits(t, s, texts)

TabsHold(ts, texts, ss, n) == \A i \in 1 .. Len(ts) : TabHolds(ts[i], texts, ss, n)

Queued(p, q) == \E i \in q.left : q.ids[i] = p

SavesHold(ss, q, n) ==
  /\ \A s, u \in ss : s.path = u.path => s = u
  /\ \A s \in ss : s.text <= n /\ (s.then = "quit" => q.on /\ Queued(s.path, q))

\* While saveDirtyTabs has met no failure, what it will not save needs no saving.
QuitHolds(ts, texts, q) ==
  q.on /\ q.allOk => \A i \in 1 .. Len(ts) : ts[i].text \in texts \/ ts[i].during \/ Queued(ts[i].path, q)

WorkInv ==
  /\ WorkTypes /\ RootKnown /\ TabsUsable(tabs, activeTabId)
  /\ TabsHold(tabs, savedTexts, saves, typedTexts)
  /\ SavesHold(saves, quitQueue, typedTexts)
  /\ QuitHolds(tabs, savedTexts, quitQueue)
  /\ "unasked" \notin lost
  /\ envPath # NoEnv => envPath \in envs

USE WorkbenchAssumption

\* There is nothing at the start.
LEMMA WorkInitInv == WorkbenchInit => WorkInv
<1> SUFFICES ASSUME WorkbenchInit PROVE WorkInv
  OBVIOUS
<1>1. tabs = <<>> /\ Len(tabs) = 0 /\ tabs \in Seq(OpenTabs) /\ saves = {} /\ savedTexts = {0, 1} /\ typedTexts = 1
  BY EmptySeq DEF WorkbenchInit
<1>2. quitQueue \in Quits /\ quitQueue.left = {} /\ quitQueue.on = FALSE
  <2>1. <<>> \in Seq(TabPaths)
    OBVIOUS
  <2>. QED BY <2>1 DEF WorkbenchInit, NoQuit, Quits
<1>3. diskText \in [Collections -> [TabPaths -> savedTexts]]
  BY <1>1 DEF WorkbenchInit
<1>4. WorkTypes
  BY <1>1, <1>2, <1>3 DEF WorkbenchInit, WorkTypes
<1>. QED BY <1>1, <1>2, <1>4 DEF WorkbenchInit, WorkInv, RootKnown, TabsUsable, TabsHold, SavesHold, QuitHolds, WorkbenchAssumption

\* The tabs of us are tabs of ts, but for the one at p.
SomeOf(us, ts, p) ==
  \A i \in 1 .. Len(us) : us[i].path # p /\ \E j \in 1 .. Len(ts) : us[i] = ts[j]

\* A sequence without one of its elements: those before stay, the others move up.
LEMMA RemoveAtProperties ==
  ASSUME NEW S, NEW s \in Seq(S), NEW i \in 1 .. Len(s)
  PROVE  /\ RemoveAt(s, i) \in Seq(S)
         /\ Len(RemoveAt(s, i)) = Len(s) - 1
         /\ \A j \in 1 .. Len(s) - 1 : RemoveAt(s, i)[j] = IF j < i THEN s[j] ELSE s[j + 1]
<1> DEFINE a == SubSeq(s, 1, i - 1)  b == SubSeq(s, i + 1, Len(s))
<1>1. /\ a \in Seq(S) /\ Len(a) = i - 1 /\ \A j \in 1 .. i - 1 : a[j] = s[j]
  <2>1. \A j \in 1 .. i - 1 : s[j] \in S
    OBVIOUS
  <2>2. /\ a \in Seq(S) /\ Len(a) = IF 1 <= i - 1 THEN (i - 1) - 1 + 1 ELSE 0
        /\ \A j \in 1 .. (i - 1) - 1 + 1 : a[j] = s[1 + j - 1]
    BY <2>1, SubSeqProperties
  <2>. QED BY <2>2
<1>2. /\ b \in Seq(S) /\ Len(b) = Len(s) - i /\ \A j \in 1 .. Len(s) - i : b[j] = s[i + j]
  <2>1. \A j \in i + 1 .. Len(s) : s[j] \in S
    OBVIOUS
  <2>2. /\ b \in Seq(S) /\ Len(b) = IF i + 1 <= Len(s) THEN Len(s) - (i + 1) + 1 ELSE 0
        /\ \A j \in 1 .. Len(s) - (i + 1) + 1 : b[j] = s[i + 1 + j - 1]
    BY <2>1, SubSeqProperties
  <2>. QED BY <2>2
<1>3. RemoveAt(s, i) = a \o b
  BY DEF RemoveAt
<1> HIDE DEF a, b
<1>4. /\ a \o b \in Seq(S) /\ Len(a \o b) = Len(a) + Len(b)
      /\ \A j \in 1 .. Len(a) + Len(b) : (a \o b)[j] = IF j <= Len(a) THEN a[j] ELSE b[j - Len(a)]
  BY <1>1, <1>2, ConcatProperties
<1>5. ASSUME NEW j \in 1 .. Len(s) - 1 PROVE (a \o b)[j] = IF j < i THEN s[j] ELSE s[j + 1]
  <2>1. CASE j < i
    BY <2>1, <1>1, <1>2, <1>4
  <2>2. CASE j >= i
    <3>1. j - Len(a) \in 1 .. Len(s) - i /\ i + (j - Len(a)) = j + 1
      BY <2>2, <1>1
    <3>2. b[j - Len(a)] = s[j + 1]
      BY <3>1, <1>2
    <3>3. (a \o b)[j] = b[j - Len(a)]
      BY <2>2, <1>1, <1>2, <1>4
    <3>. QED BY <2>2, <3>2, <3>3
  <2>3. j < i \/ j >= i
    OBVIOUS
  <2>. QED BY <2>1, <2>2, <2>3
<1>6. Len(a) + Len(b) = Len(s) - 1
  BY <1>1, <1>2
<1>. QED BY <1>3, <1>4, <1>5, <1>6

\* A tab that closes is the only one of its path, and its neighbour is shown for it.
LEMMA ClosedTabs ==
  ASSUME tabs \in Seq(OpenTabs), activeTabId \in TabPaths \cup {Nothing}, TabsUsable(tabs, activeTabId),
         NEW p, TabClosed(p)
  PROVE  /\ tabs' \in Seq(OpenTabs) /\ activeTabId' \in TabPaths \cup {Nothing}
         /\ TabsUsable(tabs', activeTabId') /\ SomeOf(tabs', tabs, p)
         /\ tabs = <<>> => tabs' = <<>>
<1>1. CASE ~IsOpen(p)
  BY <1>1 DEF TabClosed, SomeOf, IsOpen
<1>2. CASE IsOpen(p)
  <2> DEFINE i == At(p)  rest == RemoveAt(tabs, i)
  <2>1. i \in 1 .. Len(tabs) /\ tabs[i].path = p
    BY <1>2 DEF IsOpen, At
  <2>2. tabs' = rest /\ activeTabId' = IF activeTabId = p THEN Neighbor(rest, i) ELSE activeTabId
    BY <1>2 DEF TabClosed
  <2> HIDE DEF i
  <2>3. /\ rest \in Seq(OpenTabs) /\ Len(rest) = Len(tabs) - 1
        /\ \A j \in 1 .. Len(tabs) - 1 : rest[j] = IF j < i THEN tabs[j] ELSE tabs[j + 1]
    BY <2>1, RemoveAtProperties
  <2> HIDE DEF rest
  <2>4. \A j \in 1 .. Len(tabs) : tabs[j].path = p => j = i
    BY <2>1 DEF TabsUsable
  <2>5. SomeOf(rest, tabs, p)
    BY <2>1, <2>3, <2>4 DEF SomeOf
  <2>6. \A j, k \in 1 .. Len(rest) : rest[j].path = rest[k].path => j = k
    BY <2>1, <2>3 DEF TabsUsable
  <2>7. ASSUME NEW j \in 1 .. Len(tabs), j # i PROVE \E k \in 1 .. Len(rest) : rest[k] = tabs[j]
    <3>1. CASE j < i
      BY <3>1, <2>1, <2>3
    <3>2. CASE j > i
      <4>1. j - 1 \in 1 .. Len(rest) /\ rest[j - 1] = tabs[j]
        BY <3>2, <2>1, <2>3
      <4>. QED BY <4>1
    <3>. QED BY <2>7, <3>1, <3>2, <2>1
  <2>8. CASE activeTabId # p
    <3>1. tabs # <<>> /\ activeTabId # Nothing
      BY <2>1 DEF TabsUsable
    <3>2. PICK j \in 1 .. Len(tabs) : tabs[j].path = activeTabId
      BY <3>1 DEF TabsUsable
    <3>3. \E k \in 1 .. Len(rest) : rest[k].path = activeTabId
      BY <2>8, <3>2, <2>1, <2>7
    <3>. QED BY <3>1, <3>3, <2>2, <2>3, <2>5, <2>6, <2>8 DEF TabsUsable
  <2>9. CASE activeTabId = p
    <3>1. CASE rest = <<>>
      BY <3>1, <2>2, <2>3, <2>5, <2>6, <2>9, <2>1 DEF TabsUsable, Neighbor
    <3>2. CASE rest # <<>>
      <4>1. PICK k \in 1 .. Len(rest) : Neighbor(rest, i) = rest[k].path
        BY <3>2, <2>1, <2>3 DEF Neighbor
      <4>2. rest[k].path \in TabPaths
        <5>1. rest[k] \in OpenTabs
          BY <2>3, <4>1
        <5>. QED BY <5>1 DEF OpenTabs
      <4>3. activeTabId' = rest[k].path /\ tabs' = rest /\ rest[k].path # Nothing /\ tabs # <<>>
        BY <4>1, <4>2, <2>1, <2>2, <2>9 DEF WorkbenchAssumption
      <4>4. TabsUsable(tabs', activeTabId')
        BY <3>2, <4>3, <2>6 DEF TabsUsable
      <4>. QED BY <4>2, <4>3, <4>4, <2>3, <2>5
    <3>. QED BY <3>1, <3>2
  <2>. QED BY <2>8, <2>9
<1>. QED BY <1>1, <1>2

\* The tabs of us are tabs of ts, or t.
OneTabMore(us, ts, t) == \A i \in 1 .. Len(us) : us[i] = t \/ \E j \in 1 .. Len(ts) : us[i] = ts[j]

\* A tab that opens is new, or shown instead.
LEMMA OpenedTabs ==
  ASSUME tabs \in Seq(OpenTabs), TabsUsable(tabs, activeTabId),
         NEW p \in TabPaths, NEW text \in Nat, OpenTab(p, text)
  PROVE  /\ tabs' \in Seq(OpenTabs) /\ activeTabId' \in TabPaths
         /\ TabsUsable(tabs', activeTabId') /\ OneTabMore(tabs', tabs, Tab(p, text))
<1>1. CASE IsOpen(p)
  BY <1>1 DEF OpenTab, OneTabMore, IsOpen, TabsUsable, WorkbenchAssumption
<1>2. CASE ~IsOpen(p)
  <2> DEFINE t == Tab(p, text)
  <2>1. t \in OpenTabs /\ t.path = p
    BY DEF Tab, OpenTabs
  <2>2. tabs' = Append(tabs, t) /\ activeTabId' = p
    BY <1>2 DEF OpenTab
  <2> HIDE DEF t
  <2>3. /\ tabs' \in Seq(OpenTabs) /\ Len(tabs') = Len(tabs) + 1 /\ tabs'[Len(tabs) + 1] = t
        /\ \A i \in 1 .. Len(tabs) : tabs'[i] = tabs[i]
    BY <2>1, <2>2, AppendProperties
  <2>4. \A i \in 1 .. Len(tabs) : tabs[i].path # p
    BY <1>2 DEF IsOpen
  <2>5. OneTabMore(tabs', tabs, t)
    BY <2>3 DEF OneTabMore
  <2>6. TabsUsable(tabs', p)
    <3>1. \A i, j \in 1 .. Len(tabs') : tabs'[i].path = tabs'[j].path => i = j
      BY <2>1, <2>3, <2>4 DEF TabsUsable
    <3>2. p # Nothing /\ tabs' # <<>> /\ \E i \in 1 .. Len(tabs') : tabs'[i].path = p
      <4>1. Len(tabs) + 1 \in 1 .. Len(tabs')
        BY <2>3
      <4>. QED BY <4>1, <2>1, <2>3 DEF WorkbenchAssumption
    <3>. QED BY <3>1, <3>2 DEF TabsUsable
  <2>. QED BY <2>2, <2>3, <2>5, <2>6 DEF t
<1>. QED BY <1>1, <1>2

\* Tabs that stay as they are hold what they held.
LEMMA KeptTabsHold ==
  ASSUME TabsHold(tabs, savedTexts, saves, typedTexts), QuitHolds(tabs, savedTexts, quitQueue),
         NEW p, SomeOf(tabs', tabs, p)
  PROVE  TabsHold(tabs', savedTexts, saves, typedTexts) /\ QuitHolds(tabs', savedTexts, quitQueue)
<1>1. TabsHold(tabs', savedTexts, saves, typedTexts)
  BY DEF TabsHold, SomeOf
<1>2. QuitHolds(tabs', savedTexts, quitQueue)
  BY DEF QuitHolds, SomeOf
<1>. QED BY <1>1, <1>2

\* So does one that was loaded from the disk.
LEMMA LoadedTabsHold ==
  ASSUME TabsHold(tabs, savedTexts, saves, typedTexts), QuitHolds(tabs, savedTexts, quitQueue),
         NEW p, NEW text \in savedTexts, text <= typedTexts, OneTabMore(tabs', tabs, Tab(p, text))
  PROVE  TabsHold(tabs', savedTexts, saves, typedTexts) /\ QuitHolds(tabs', savedTexts, quitQueue)
<1> DEFINE t == Tab(p, text)
<1>1. /\ t.text = text /\ t.path = p /\ t.dirtyRef = FALSE
      /\ t.foreign => SavesOf(p) # {}
  BY DEF Tab
<1> HIDE DEF t
<1>2. TabHolds(t, savedTexts, saves, typedTexts)
  BY <1>1 DEF TabHolds, SaveFits, SavesOf
<1>3. TabsHold(tabs', savedTexts, saves, typedTexts)
  BY <1>2 DEF TabsHold, OneTabMore, t
<1>4. QuitHolds(tabs', savedTexts, quitQueue)
  BY <1>1 DEF QuitHolds, OneTabMore, t
<1>. QED BY <1>3, <1>4

\* What a file holds was once on disk.
LEMMA TextsOnDisk ==
  ASSUME WorkTypes, NEW r \in Collections, NEW p \in TabPaths
  PROVE  diskText[r][p] \in savedTexts /\ diskText[r][p] \in Nat /\ diskText[r][p] <= typedTexts
<1> DEFINE text == diskText[r][p]
<1>1. text \in savedTexts
  BY DEF WorkTypes
<1>2. typedTexts \in Nat /\ savedTexts \subseteq 0 .. typedTexts
  BY DEF WorkTypes
<1> HIDE DEF text
<1>3. text \in 0 .. typedTexts
  BY <1>1, <1>2
<1>4. text \in Nat /\ text <= typedTexts
  BY <1>2, <1>3
<1>. QED BY <1>1, <1>4 DEF text

\* A tab opens with what is on disk.
LEMMA OpeningInv ==
  ASSUME WorkInv, NEW r \in Collections, NEW p \in TabPaths, OpenTab(p, diskText[r][p])
  PROVE  /\ tabs' \in Seq(OpenTabs) /\ activeTabId' \in TabPaths /\ TabsUsable(tabs', activeTabId')
         /\ TabsHold(tabs', savedTexts, saves, typedTexts) /\ QuitHolds(tabs', savedTexts, quitQueue)
<1> DEFINE text == diskText[r][p]
<1>1. text \in savedTexts /\ text \in Nat /\ text <= typedTexts
  BY TextsOnDisk DEF WorkInv
<1> HIDE DEF text
<1>2. OpenTab(p, text)
  BY DEF text
<1>3. /\ tabs' \in Seq(OpenTabs) /\ activeTabId' \in TabPaths /\ TabsUsable(tabs', activeTabId')
      /\ OneTabMore(tabs', tabs, Tab(p, text))
  BY <1>1, <1>2, OpenedTabs DEF WorkInv, WorkTypes
<1>4. TabsHold(tabs', savedTexts, saves, typedTexts) /\ QuitHolds(tabs', savedTexts, quitQueue)
  BY <1>1, <1>3, LoadedTabsHold DEF WorkInv
<1>. QED BY <1>3, <1>4

\* A tab closes; the others hold what they held.
LEMMA ClosingInv ==
  ASSUME WorkInv, NEW p, TabClosed(p)
  PROVE  /\ tabs' \in Seq(OpenTabs) /\ activeTabId' \in TabPaths \cup {Nothing}
         /\ TabsUsable(tabs', activeTabId') /\ (tabs = <<>> => tabs' = <<>>)
         /\ TabsHold(tabs', savedTexts, saves, typedTexts) /\ QuitHolds(tabs', savedTexts, quitQueue)
<1>1. /\ tabs' \in Seq(OpenTabs) /\ activeTabId' \in TabPaths \cup {Nothing}
      /\ TabsUsable(tabs', activeTabId') /\ SomeOf(tabs', tabs, p)
      /\ tabs = <<>> => tabs' = <<>>
  BY ClosedTabs DEF WorkInv, WorkTypes
<1>. QED BY <1>1, KeptTabsHold DEF WorkInv

\* Loads and operations that begin, a chosen environment, a dialog that is dismissed.
LEMMA BeginningsInv ==
  WorkInv /\ (LoadCollection \/ SetEnv \/ CancelDialog \/ StartFileOp \/ ActivateTab) => WorkInv'
<1>1. ASSUME WorkInv, LoadCollection PROVE WorkInv'
  <2>1. PICK r \in Collections : treeLoads' = treeLoads \cup {[root |-> r, at |-> "scan", open |-> Nothing]}
    BY <1>1 DEF LoadCollection
  <2>2. treeLoads' \in SUBSET Loads /\ RootKnown'
    BY <1>1, <2>1 DEF LoadCollection, WorkInv, WorkTypes, Loads, RootKnown
  <2>. QED BY <1>1, <2>2 DEF LoadCollection, WorkInv, WorkTypes
<1>2. ASSUME WorkInv, SetEnv PROVE WorkInv'
  BY <1>2 DEF SetEnv, WorkInv, WorkTypes, RootKnown
<1>3. ASSUME WorkInv, CancelDialog PROVE WorkInv'
  BY <1>3 DEF CancelDialog, WorkInv, WorkTypes, RootKnown
<1>4. ASSUME WorkInv, StartFileOp PROVE WorkInv'
  <2>1. PICK op \in {"create", "rename", "delete"}, from \in TabPaths, to \in TabPaths :
          fileOps' = fileOps \cup {[op |-> op, root |-> root, from |-> from, to |-> to,
                                    affected |-> IsOpen(from) /\ op # "create"]}
    BY <1>4 DEF StartFileOp
  <2>2. root \in Collections
    BY <1>4 DEF StartFileOp, WorkInv, WorkTypes
  <2> DEFINE o == [op |-> op, root |-> root, from |-> from, to |-> to,
                   affected |-> IsOpen(from) /\ op # "create"]
  <2>3. IsOpen(from) \in BOOLEAN
    BY DEF IsOpen
  <2>4. o \in TreeOps
    BY <2>2, <2>3 DEF TreeOps
  <2> HIDE DEF o
  <2>5. fileOps' \in SUBSET TreeOps
    BY <1>4, <2>1, <2>4 DEF WorkInv, WorkTypes, o
  <2>6. RootKnown'
    BY <1>4, <2>2 DEF StartFileOp, RootKnown, WorkbenchAssumption
  <2>7. fileOps' \in SUBSET TreeOps /\ RootKnown'
    BY <2>5, <2>6
  <2>. QED BY <1>4, <2>7 DEF StartFileOp, WorkInv, WorkTypes
<1>5. ASSUME WorkInv, ActivateTab PROVE WorkInv'
  <2>1. PICK i \in 1 .. Len(tabs) : activeTabId' = tabs[i].path
    BY <1>5 DEF ActivateTab, WorkInv, WorkTypes
  <2>2. tabs[i] \in OpenTabs /\ tabs # <<>>
    BY <2>1, <1>5 DEF WorkInv, WorkTypes
  <2>3. activeTabId' \in TabPaths /\ activeTabId' # Nothing
    BY <2>1, <2>2 DEF OpenTabs, WorkbenchAssumption
  <2>4. TabsUsable(tabs', activeTabId')
    BY <1>5, <2>1, <2>2, <2>3 DEF ActivateTab, WorkInv, TabsUsable
  <2>. QED BY <1>5, <2>3, <2>4 DEF ActivateTab, WorkInv, WorkTypes, RootKnown
<1>. QED BY <1>1, <1>2, <1>3, <1>4, <1>5

\* A collection is scanned: another one closes every tab.
LEMMA CollectionLoadedInv == WorkInv /\ CollectionLoaded => WorkInv'
<1> SUFFICES ASSUME WorkInv, CollectionLoaded PROVE WorkInv'
  OBVIOUS
<1>1. PICK l \in treeLoads :
       /\ l.at = "scan"
       /\ \/ treeLoads' = treeLoads \ {l} /\ UNCHANGED <<root, tabs, activeTabId, envPath>>
          \/ /\ treeLoads' = (treeLoads \ {l}) \cup {[l EXCEPT !.at = "envs"]}
             /\ root' = l.root
             /\ IF root # Nothing /\ root # l.root
                THEN tabs' = <<>> /\ activeTabId' = Nothing /\ envPath' = NoEnv
                ELSE UNCHANGED <<tabs, activeTabId, envPath>>
  BY DEF CollectionLoaded
<1>2. UNCHANGED <<envs, saves, quitQueue, fileOps, diskText, typedTexts, lost, savedTexts>>
  BY DEF CollectionLoaded
<1>3. l \in Loads
  BY <1>1 DEF WorkInv, WorkTypes
<1>4. treeLoads' \in SUBSET Loads /\ root' \in Collections \cup {Nothing} /\ RootKnown'
  <2>1. CASE treeLoads' = treeLoads \ {l} /\ UNCHANGED <<root, tabs, activeTabId, envPath>>
    BY <1>2, <2>1 DEF WorkInv, WorkTypes, RootKnown
  <2>2. CASE treeLoads' = (treeLoads \ {l}) \cup {[l EXCEPT !.at = "envs"]} /\ root' = l.root
    <3>1. [l EXCEPT !.at = "envs"] \in Loads /\ root' \in Collections
      BY <1>3, <2>2 DEF Loads
    <3>. QED BY <2>2, <3>1 DEF WorkInv, WorkTypes, RootKnown, WorkbenchAssumption
  <2>. QED BY <1>1, <2>1, <2>2
<1>5. CASE UNCHANGED <<tabs, activeTabId, envPath>>
  BY <1>2, <1>4, <1>5 DEF WorkInv, WorkTypes
<1>6. CASE tabs' = <<>> /\ activeTabId' = Nothing /\ envPath' = NoEnv
  <2>1. tabs' \in Seq(OpenTabs) /\ Len(tabs') = 0
    BY <1>6
  <2>. QED BY <1>2, <1>4, <1>6, <2>1 DEF WorkInv, WorkTypes, TabsUsable, TabsHold, QuitHolds
<1>. QED BY <1>1, <1>5, <1>6

\* The environments are listed, and a file that was made is opened.
LEMMA SetEnvsInv == WorkInv /\ SetEnvs => WorkInv'
<1> SUFFICES ASSUME WorkInv, SetEnvs PROVE WorkInv'
  OBVIOUS
<1>1. PICK l \in treeLoads :
       /\ l.at = "envs"
       /\ treeLoads' = treeLoads \ {l}
       /\ envPath' = EnvAfter(envs')
       /\ IF l.open = Nothing THEN UNCHANGED <<tabs, activeTabId>> ELSE OpenTab(l.open, diskText[root][l.open])
  BY DEF SetEnvs
<1>2. UNCHANGED <<root, saves, quitQueue, fileOps, diskText, typedTexts, lost, savedTexts>>
  BY DEF SetEnvs
<1>3. envPath' # NoEnv => envPath' \in envs'
  BY <1>1 DEF EnvAfter
<1>4. root \in Collections /\ l \in Loads
  BY <1>1 DEF WorkInv, WorkTypes, RootKnown
<1>5. treeLoads' \in SUBSET Loads /\ RootKnown'
  BY <1>1, <1>2, <1>4 DEF WorkInv, WorkTypes, RootKnown, WorkbenchAssumption
<1>6. CASE UNCHANGED <<tabs, activeTabId>>
  BY <1>2, <1>3, <1>5, <1>6 DEF WorkInv, WorkTypes
<1>7. CASE l.open # Nothing
  <2>1. l.open \in TabPaths
    BY <1>4, <1>7 DEF Loads
  <2>2. /\ tabs' \in Seq(OpenTabs) /\ activeTabId' \in TabPaths /\ TabsUsable(tabs', activeTabId')
        /\ TabsHold(tabs', savedTexts, saves, typedTexts) /\ QuitHolds(tabs', savedTexts, quitQueue)
    BY <1>1, <1>4, <1>7, <2>1, OpeningInv
  <2>. QED BY <1>2, <1>3, <1>5, <2>2 DEF WorkInv, WorkTypes
<1>. QED BY <1>1, <1>6, <1>7

\* A file of the tree is opened.
LEMMA OpenNodeInv == WorkInv /\ OpenNode => WorkInv'
<1> SUFFICES ASSUME WorkInv, OpenNode PROVE WorkInv'
  OBVIOUS
<1>1. root \in Collections
  BY DEF OpenNode, WorkInv, WorkTypes
<1>2. PICK p \in TabPaths : OpenTab(p, diskText[root][p])
  BY DEF OpenNode
<1>3. /\ tabs' \in Seq(OpenTabs) /\ activeTabId' \in TabPaths /\ TabsUsable(tabs', activeTabId')
      /\ TabsHold(tabs', savedTexts, saves, typedTexts) /\ QuitHolds(tabs', savedTexts, quitQueue)
  BY <1>1, <1>2, OpeningInv
<1>. QED BY <1>1, <1>3 DEF OpenNode, WorkInv, WorkTypes, RootKnown, WorkbenchAssumption

\* A text that is typed makes its tab dirty, or is typed during a save.
LEMMA TouchedHolds ==
  ASSUME NEW t \in OpenTabs, NEW u \in OpenTabs, NEW texts, NEW ss, NEW n \in Nat,
         TabHolds(t, texts, ss, n), \A s \in ss : s.text \in Nat /\ s.text <= n,
         u.path = t.path, u.text = n + 1, u.foreign = t.foreign, u.dirtyRef = TRUE,
         u.during <=> t.during \/ (\E s \in ss : s.path = t.path) \/ quitQueue.on,
         t.dirtyRef => u.dirty = t.dirty, ~t.dirtyRef => u.dirty = TRUE
  PROVE  TabHolds(u, texts, ss, n + 1)
<1>1. u.during \/ u.dirty
  BY DEF TabHolds, OpenTabs
<1>2. ASSUME NEW s \in ss, s.path = u.path PROVE SaveFits(u, s, texts)
  <2>1. u.during /\ u.text # s.text
    BY <1>2
  <2>. QED BY <2>1 DEF SaveFits
<1>3. u.foreign => \E s \in ss : s.path = u.path
  BY DEF TabHolds
<1>. QED BY <1>1, <1>2, <1>3 DEF TabHolds

\* One text more has no effect on what is held of the others.
LEMMA OneTextMore ==
  ASSUME NEW t \in OpenTabs, NEW texts, NEW ss, NEW n \in Nat, TabHolds(t, texts, ss, n)
  PROVE  TabHolds(t, texts, ss, n + 1)
<1>1. t.text \in Nat
  BY DEF OpenTabs
<1>2. t.text <= n + 1
  BY <1>1 DEF TabHolds
<1>. QED BY <1>2 DEF TabHolds

\* A text is typed.
LEMMA TouchInv == WorkInv /\ Touch => WorkInv'
<1> SUFFICES ASSUME WorkInv, Touch PROVE WorkInv'
  OBVIOUS
<1> DEFINE typed(t) == [t EXCEPT !.text = typedTexts + 1, !.dirtyRef = TRUE,
                                 !.during = @ \/ SavesOf(t.path) # {} \/ quitQueue.on]
           touched(t) == IF t.dirtyRef THEN typed(t) ELSE [typed(t) EXCEPT !.dirty = TRUE]
<1>0. PICK i \in DOMAIN tabs :
       LET t == [tabs[i] EXCEPT !.text = typedTexts + 1, !.dirtyRef = TRUE,
                                !.during = @ \/ SavesOf(tabs[i].path) # {} \/ quitQueue.on]
       IN tabs' = [tabs EXCEPT ![i] = IF tabs[i].dirtyRef THEN t ELSE [t EXCEPT !.dirty = TRUE]]
  BY DEF Touch
<1>1. i \in 1 .. Len(tabs) /\ tabs' = [tabs EXCEPT ![i] = touched(tabs[i])]
  BY <1>0 DEF WorkInv, WorkTypes
<1>2. /\ typedTexts' = typedTexts + 1
      /\ UNCHANGED <<root, activeTabId, envs, envPath, saves, quitQueue, treeLoads, fileOps, diskText, lost, savedTexts>>
  BY DEF Touch
<1>3. tabs \in Seq(OpenTabs) /\ typedTexts \in Nat /\ quitQueue.on \in BOOLEAN /\ saves \in SUBSET TabSaves
  BY DEF WorkInv, WorkTypes, Quits
<1> DEFINE t == tabs[i]  u == touched(t)
<1>4. t \in OpenTabs
  BY <1>1, <1>3
<1>6. tabs' = [tabs EXCEPT ![i] = u]
  BY <1>1
<1> HIDE DEF t
<1>5. /\ u \in OpenTabs /\ u.path = t.path /\ u.text = typedTexts + 1 /\ u.foreign = t.foreign /\ u.dirtyRef = TRUE
      /\ u.during <=> t.during \/ (\E s \in saves : s.path = t.path) \/ quitQueue.on
      /\ t.dirtyRef => u.dirty = t.dirty
      /\ ~t.dirtyRef => u.dirty = TRUE
  <2> DEFINE d == t.during \/ SavesOf(t.path) # {} \/ quitQueue.on
             v == [t EXCEPT !.text = typedTexts + 1, !.dirtyRef = TRUE, !.during = d]
  <2>1. d \in BOOLEAN /\ (d <=> t.during \/ (\E s \in saves : s.path = t.path) \/ quitQueue.on)
    BY <1>3, <1>4 DEF SavesOf, OpenTabs
  <2>2. v = typed(t)
    OBVIOUS
  <2> HIDE DEF d
  <2>3. /\ v \in OpenTabs /\ v.path = t.path /\ v.text = typedTexts + 1 /\ v.foreign = t.foreign
        /\ v.dirtyRef = TRUE /\ v.during = d /\ v.dirty = t.dirty
    <3>1. typedTexts + 1 \in Nat /\ d \in BOOLEAN
      BY <1>3, <2>1
    <3>. QED BY <1>4, <3>1 DEF OpenTabs
  <2> HIDE DEF v, typed
  <2>4. CASE t.dirtyRef
    BY <2>1, <2>2, <2>3, <2>4
  <2>5. CASE ~t.dirtyRef
    <3>1. u = [v EXCEPT !.dirty = TRUE]
      BY <2>2, <2>5
    <3>2. /\ u \in OpenTabs /\ u.path = v.path /\ u.text = v.text /\ u.foreign = v.foreign
          /\ u.dirtyRef = v.dirtyRef /\ u.during = v.during /\ u.dirty = TRUE
      BY <2>3, <3>1 DEF OpenTabs
    <3>. QED BY <2>1, <2>3, <2>5, <3>2
  <2>. QED BY <2>4, <2>5
<1> HIDE DEF touched, typed, u
<1>7. /\ tabs' \in Seq(OpenTabs) /\ Len(tabs') = Len(tabs) /\ tabs'[i] = u
      /\ \A j \in 1 .. Len(tabs) : j # i => tabs'[j] = tabs[j]
  BY <1>3, <1>5, <1>6
<1>8. TabsUsable(tabs', activeTabId')
  <2>1. \A j \in 1 .. Len(tabs) : tabs'[j].path = tabs[j].path
    BY <1>5, <1>7 DEF t
  <2>2. tabs # <<>> /\ tabs' # <<>>
    BY <1>3, <1>7
  <2>. QED BY <1>2, <1>7, <2>1, <2>2 DEF WorkInv, TabsUsable
<1>9. TabsHold(tabs', savedTexts, saves, typedTexts + 1)
  <2>1. TabHolds(t, savedTexts, saves, typedTexts)
    BY DEF WorkInv, TabsHold, t
  <2>2. \A s \in saves : s.text \in Nat /\ s.text <= typedTexts
    BY <1>3 DEF WorkInv, SavesHold, TabSaves
  <2>3. TabHolds(u, savedTexts, saves, typedTexts + 1)
    BY <1>3, <1>4, <1>5, <2>1, <2>2, TouchedHolds
  <2>4. ASSUME NEW j \in 1 .. Len(tabs), j # i PROVE TabHolds(tabs'[j], savedTexts, saves, typedTexts + 1)
    <3>1. tabs'[j] = tabs[j] /\ tabs[j] \in OpenTabs
      BY <1>3, <1>7, <2>4
    <3>2. TabHolds(tabs[j], savedTexts, saves, typedTexts)
      BY DEF WorkInv, TabsHold
    <3>. QED BY <1>3, <3>1, <3>2, OneTextMore
  <2>. QED BY <1>7, <2>3, <2>4 DEF TabsHold
<1>10. QuitHolds(tabs', savedTexts, quitQueue)
  <2>1. quitQueue.on => u.during
    BY <1>5
  <2>2. \A j \in 1 .. Len(tabs) : j # i => tabs'[j] = tabs[j]
    BY <1>7
  <2>. QED BY <1>7, <2>1, <2>2 DEF WorkInv, QuitHolds
<1>11. SavesHold(saves, quitQueue, typedTexts + 1)
  <2>1. \A s \in saves : s.text \in Nat
    BY <1>3 DEF TabSaves
  <2>2. \A s \in saves : s.text <= typedTexts + 1
    BY <1>3, <2>1 DEF WorkInv, SavesHold
  <2>. QED BY <2>2 DEF WorkInv, SavesHold
<1>12. WorkTypes'
  <2>1. typedTexts' \in Nat /\ savedTexts' \subseteq 0 .. typedTexts'
    BY <1>2, <1>3 DEF WorkInv, WorkTypes
  <2>. QED BY <1>2, <1>7, <2>1 DEF WorkInv, WorkTypes
<1>13. RootKnown'
  BY <1>2, <1>3, <1>7 DEF WorkInv, RootKnown
<1>. QED BY <1>2, <1>8, <1>9, <1>10, <1>11, <1>12, <1>13 DEF WorkInv

\* A save that begins writes what its tab holds.
LEMMA StartedSave ==
  ASSUME WorkInv, NEW p, IsOpen(p), SavesOf(p) = {}, NEW then \in {"stay", "close", "quit"},
         then = "quit" => quitQueue.on /\ Queued(p, quitQueue),
         saves' = saves \cup {SaveOf(p, then)}
  PROVE  /\ saves' \in SUBSET TabSaves
         /\ TabsHold(tabs, savedTexts, saves', typedTexts) /\ SavesHold(saves', quitQueue, typedTexts)
<1> DEFINE k == At(p)  s == SaveOf(p, then)
<1>1. k \in 1 .. Len(tabs) /\ tabs[k].path = p
  BY DEF IsOpen, At, WorkInv, WorkTypes
<1>2. tabs[k] \in OpenTabs /\ tabs # <<>>
  BY <1>1 DEF WorkInv, WorkTypes
<1>3. root \in Collections
  BY <1>2 DEF WorkInv, WorkTypes, RootKnown
<1>4. s \in TabSaves /\ s.path = p /\ s.text = tabs[k].text /\ s.then = then
  <2>1. p \in TabPaths /\ tabs[k].text \in Nat
    BY <1>1, <1>2 DEF OpenTabs
  <2>. QED BY <1>3, <2>1 DEF SaveOf, TabSaves
<1>5. tabs[k].text <= typedTexts
  BY <1>1 DEF WorkInv, TabsHold, TabHolds
<1> HIDE DEF s, k
<1>6. \A u \in saves : u.path # p
  BY DEF SavesOf
<1>7. saves' \in SUBSET TabSaves
  BY <1>4 DEF WorkInv, WorkTypes, s
<1>8. SavesHold(saves', quitQueue, typedTexts)
  BY <1>4, <1>5, <1>6 DEF WorkInv, SavesHold, s
<1>9. ASSUME NEW i \in 1 .. Len(tabs) PROVE TabHolds(tabs[i], savedTexts, saves', typedTexts)
  <2>1. TabHolds(tabs[i], savedTexts, saves, typedTexts)
    BY DEF WorkInv, TabsHold
  <2>2. CASE i = k
    <3>1. ~tabs[i].foreign
      BY <2>1, <2>2, <1>1, <1>6 DEF TabHolds
    <3>2. SaveFits(tabs[i], s, savedTexts)
      BY <2>2, <3>1, <1>4 DEF SaveFits
    <3>. QED BY <2>1, <2>2, <3>1, <3>2, <1>1, <1>6 DEF TabHolds, s
  <2>3. CASE i # k
    <3>1. tabs[i].path # p
      BY <2>3, <1>1 DEF WorkInv, TabsUsable
    <3>. QED BY <2>1, <3>1, <1>4 DEF TabHolds, s
  <2>. QED BY <2>2, <2>3
<1>10. TabsHold(tabs, savedTexts, saves', typedTexts)
  BY <1>9 DEF TabsHold
<1>. QED BY <1>7, <1>8, <1>10

\* Texts that are on disk, or were typed during a save, are not lost unasked.
LEMMA NothingUnasked ==
  ASSUME NEW ts, NEW texts, \A t \in ts : t.text \in texts \/ t.during
  PROVE  "unasked" \notin HowLost(ts, texts)
BY DEF HowLost

\* A save that the user asks for.
LEMMA StartTabSaveInv == WorkInv /\ StartTabSave => WorkInv'
<1> SUFFICES ASSUME WorkInv, StartTabSave PROVE WorkInv'
  OBVIOUS
<1>1. PICK i \in DOMAIN tabs : SavesOf(tabs[i].path) = {} /\ saves' = saves \cup {SaveOf(tabs[i].path, "stay")}
  BY DEF StartTabSave
<1>2. IsOpen(tabs[i].path)
  BY DEF IsOpen
<1>3. /\ saves' \in SUBSET TabSaves
      /\ TabsHold(tabs, savedTexts, saves', typedTexts) /\ SavesHold(saves', quitQueue, typedTexts)
  BY <1>1, <1>2, StartedSave
<1>. QED BY <1>3 DEF StartTabSave, WorkInv, WorkTypes, RootKnown

\* A tab that is not dirty closes at once.
LEMMA RequestCloseTabInv == WorkInv /\ RequestCloseTab => WorkInv'
<1> SUFFICES ASSUME WorkInv, RequestCloseTab PROVE WorkInv'
  OBVIOUS
<1>1. UNCHANGED <<root, envs, envPath, saves, quitQueue, treeLoads, fileOps, diskText, typedTexts, savedTexts>>
  BY DEF RequestCloseTab
<1>2. PICK i \in DOMAIN tabs :
        IF tabs[i].dirty THEN UNCHANGED <<tabs, activeTabId, lost>>
        ELSE TabClosed(tabs[i].path) /\ lost' = lost \cup Losses(tabs[i].path, savedTexts)
  BY DEF RequestCloseTab
<1>3. CASE UNCHANGED <<tabs, activeTabId, lost>>
  BY <1>1, <1>3 DEF WorkInv, WorkTypes, RootKnown
<1>4. CASE ~tabs[i].dirty
  <2> DEFINE p == tabs[i].path
  <2>1. i \in 1 .. Len(tabs)
    BY DEF WorkInv, WorkTypes
  <2>2. tabs[i].text \in savedTexts \/ tabs[i].during
    BY <1>4, <2>1 DEF WorkInv, TabsHold, TabHolds
  <2>3. \A t \in ToSet(tabs) : t.path = p => t = tabs[i]
    BY <2>1 DEF WorkInv, WorkTypes, TabsUsable, ToSet
  <2>4. "unasked" \notin Losses(p, savedTexts)
    BY <2>2, <2>3, NothingUnasked DEF Losses
  <2>5. TabClosed(p) /\ lost' = lost \cup Losses(p, savedTexts)
    BY <1>2, <1>4
  <2> HIDE DEF p
  <2>6. /\ tabs' \in Seq(OpenTabs) /\ activeTabId' \in TabPaths \cup {Nothing}
        /\ TabsUsable(tabs', activeTabId') /\ (tabs = <<>> => tabs' = <<>>)
        /\ TabsHold(tabs', savedTexts, saves, typedTexts) /\ QuitHolds(tabs', savedTexts, quitQueue)
    BY <2>5, ClosingInv
  <2>. QED BY <1>1, <2>4, <2>5, <2>6 DEF WorkInv, WorkTypes, RootKnown
<1>. QED BY <1>2, <1>3, <1>4

\* "Save" and "Don't Save".
LEMMA CloseTabDialogInv == WorkInv /\ CloseTabDialog => WorkInv'
<1> SUFFICES ASSUME WorkInv, CloseTabDialog PROVE WorkInv'
  OBVIOUS
<1>1. UNCHANGED <<root, envs, envPath, quitQueue, treeLoads, fileOps, diskText, typedTexts, lost, savedTexts>>
  BY DEF CloseTabDialog
<1>2. CASE /\ IsOpen(modal.id) /\ SavesOf(modal.id) = {}
           /\ saves' = saves \cup {SaveOf(modal.id, "close")}
           /\ UNCHANGED <<tabs, activeTabId>>
  <2>1. /\ saves' \in SUBSET TabSaves
        /\ TabsHold(tabs, savedTexts, saves', typedTexts) /\ SavesHold(saves', quitQueue, typedTexts)
    BY <1>2, StartedSave
  <2>. QED BY <1>1, <1>2, <2>1 DEF WorkInv, WorkTypes, RootKnown
<1>3. CASE TabClosed(modal.id) /\ UNCHANGED saves
  <2>1. /\ tabs' \in Seq(OpenTabs) /\ activeTabId' \in TabPaths \cup {Nothing}
        /\ TabsUsable(tabs', activeTabId') /\ (tabs = <<>> => tabs' = <<>>)
        /\ TabsHold(tabs', savedTexts, saves, typedTexts) /\ QuitHolds(tabs', savedTexts, quitQueue)
    BY <1>3, ClosingInv
  <2>. QED BY <1>1, <1>3, <2>1 DEF WorkInv, WorkTypes, RootKnown
<1>. QED BY <1>2, <1>3 DEF CloseTabDialog

\* The window closes when no tab is dirty, or by the dialog.
LEMMA WindowInv == WorkInv /\ (AppBeforeClose \/ QuitDialog) => WorkInv'
<1>1. ASSUME WorkInv, AppBeforeClose PROVE WorkInv'
  <2>1. UNCHANGED <<root, tabs, activeTabId, envs, envPath, saves, quitQueue, treeLoads, fileOps, diskText,
                    typedTexts, savedTexts>>
    BY <1>1 DEF AppBeforeClose
  <2>2. "unasked" \notin lost'
    <3>1. CASE \E i \in DOMAIN tabs : tabs[i].dirty
      BY <1>1, <3>1 DEF AppBeforeClose, WorkInv
    <3>2. CASE \A i \in DOMAIN tabs : ~tabs[i].dirty
      <4>1. \A t \in ToSet(tabs) : t.text \in savedTexts \/ t.during
        BY <1>1, <3>2 DEF WorkInv, WorkTypes, TabsHold, TabHolds, ToSet
      <4>2. lost' = lost \cup HowLost(ToSet(tabs), savedTexts)
        BY <1>1, <3>2 DEF AppBeforeClose
      <4>. QED BY <1>1, <4>1, <4>2, NothingUnasked DEF WorkInv
    <3>. QED BY <3>1, <3>2
  <2>. QED BY <1>1, <2>1, <2>2 DEF WorkInv, WorkTypes, RootKnown
<1>2. ASSUME WorkInv, QuitDialog PROVE WorkInv'
  <2>1. UNCHANGED <<root, tabs, activeTabId, envs, envPath, saves, treeLoads, fileOps, diskText, typedTexts,
                    lost, savedTexts>>
    BY <1>2 DEF QuitDialog
  <2>2. CASE UNCHANGED quitQueue
    BY <1>2, <2>1, <2>2 DEF WorkInv, WorkTypes, RootKnown
  <2>3. CASE quitQueue' = [on |-> TRUE, ids |-> [i \in DOMAIN tabs |-> tabs[i].path],
                           left |-> {i \in DOMAIN tabs : tabs[i].dirty}, allOk |-> TRUE]
    <3>1. /\ quitQueue'.on /\ quitQueue'.ids = [i \in 1 .. Len(tabs) |-> tabs[i].path]
          /\ quitQueue'.left = {i \in 1 .. Len(tabs) : tabs[i].dirty}
      BY <1>2, <2>3 DEF WorkInv, WorkTypes
    <3>2. quitQueue'.ids \in Seq(TabPaths) /\ Len(quitQueue'.ids) = Len(tabs)
      <4>1. \A i \in 1 .. Len(tabs) : tabs[i].path \in TabPaths
        <5>1. \A i \in 1 .. Len(tabs) : tabs[i] \in OpenTabs
          BY <1>2 DEF WorkInv, WorkTypes
        <5>. QED BY <5>1 DEF OpenTabs
      <4>2. Len(tabs) \in Nat
        BY <1>2 DEF WorkInv, WorkTypes
      <4>3. [i \in 1 .. Len(tabs) |-> tabs[i].path] \in Seq(TabPaths)
        BY <4>1, <4>2
      <4>. QED BY <3>1, <4>2, <4>3
    <3>3. quitQueue' \in Quits /\ quitQueue'.left \subseteq 1 .. Len(quitQueue'.ids)
      BY <2>3, <3>1, <3>2 DEF Quits
    <3>4. QuitHolds(tabs, savedTexts, quitQueue')
      <4>1. ASSUME NEW i \in 1 .. Len(tabs), tabs[i].dirty PROVE Queued(tabs[i].path, quitQueue')
        BY <3>1, <4>1 DEF Queued
      <4>. QED BY <1>2, <4>1 DEF WorkInv, TabsHold, TabHolds, QuitHolds
    <3>5. SavesHold(saves, quitQueue', typedTexts)
      BY <1>2 DEF QuitDialog, Busy, WorkInv, SavesHold
    <3>. QED BY <1>2, <2>1, <3>3, <3>4, <3>5 DEF WorkInv, WorkTypes, RootKnown
  <2>. QED BY <1>2, <2>2, <2>3 DEF QuitDialog
<1>. QED BY <1>1, <1>2

\* The next tab is saved, skipped, or the window closes after the last.
LEMMA SaveDirtyTabsInv == WorkInv /\ SaveDirtyTabs => WorkInv'
<1> SUFFICES ASSUME WorkInv, SaveDirtyTabs PROVE WorkInv'
  OBVIOUS
<1>1. UNCHANGED <<root, tabs, activeTabId, envs, envPath, treeLoads, fileOps, diskText, typedTexts, savedTexts>>
  BY DEF SaveDirtyTabs
<1>2. quitQueue.on /\ \A s \in saves : s.then # "quit"
  BY DEF SaveDirtyTabs
<1>3. ASSUME NEW i \in quitQueue.left, SavesOf(quitQueue.ids[i]) = {}, IsOpen(quitQueue.ids[i]),
             saves' = saves \cup {SaveOf(quitQueue.ids[i], "quit")}, UNCHANGED <<quitQueue, lost>>
      PROVE  WorkInv'
  <2>1. Queued(quitQueue.ids[i], quitQueue)
    BY DEF Queued
  <2>2. /\ saves' \in SUBSET TabSaves
        /\ TabsHold(tabs, savedTexts, saves', typedTexts) /\ SavesHold(saves', quitQueue, typedTexts)
    BY <1>2, <1>3, <2>1, StartedSave
  <2>. QED BY <1>1, <1>3, <2>2 DEF WorkInv, WorkTypes, RootKnown
<1>4. ASSUME NEW i \in quitQueue.left, ~IsOpen(quitQueue.ids[i]),
             quitQueue' = [quitQueue EXCEPT !.left = @ \ {i}], UNCHANGED <<saves, lost>>
      PROVE  WorkInv'
  <2>1. /\ quitQueue' \in Quits /\ quitQueue'.left = quitQueue.left \ {i} /\ quitQueue'.ids = quitQueue.ids
        /\ quitQueue'.on = quitQueue.on /\ quitQueue'.allOk = quitQueue.allOk
    BY <1>4 DEF WorkInv, WorkTypes, Quits
  <2>2. \A k \in 1 .. Len(tabs) : tabs[k].path # quitQueue.ids[i]
    BY <1>4 DEF IsOpen, WorkInv, WorkTypes
  <2>3. QuitHolds(tabs, savedTexts, quitQueue')
    BY <2>1, <2>2 DEF WorkInv, QuitHolds, Queued
  <2>4. SavesHold(saves, quitQueue', typedTexts)
    BY <1>2 DEF WorkInv, SavesHold
  <2>. QED BY <1>1, <1>4, <2>1, <2>3, <2>4 DEF WorkInv, WorkTypes, RootKnown
<1>5. ASSUME quitQueue.left = {}, quitQueue' = NoQuit, UNCHANGED saves,
             IF AllSaved(quitQueue) THEN lost' = lost \cup HowLost(ToSet(tabs), savedTexts) ELSE UNCHANGED lost
      PROVE  WorkInv'
  <2>1. "unasked" \notin lost'
    <3>1. CASE AllSaved(quitQueue)
      <4>1. \A t \in ToSet(tabs) : t.text \in savedTexts \/ t.during
        BY <1>2, <1>5, <3>1 DEF AllSaved, WorkInv, WorkTypes, QuitHolds, Queued, ToSet
      <4>. QED BY <1>5, <3>1, <4>1, NothingUnasked DEF WorkInv
    <3>2. CASE ~AllSaved(quitQueue)
      BY <1>5, <3>2 DEF WorkInv
    <3>. QED BY <3>1, <3>2
  <2>2. quitQueue' \in Quits /\ quitQueue'.left = {} /\ quitQueue'.on = FALSE
    <3>1. <<>> \in Seq(TabPaths)
      OBVIOUS
    <3>. QED BY <1>5, <3>1 DEF NoQuit, Quits
  <2>3. SavesHold(saves, quitQueue', typedTexts) /\ QuitHolds(tabs, savedTexts, quitQueue')
    BY <1>2, <2>2 DEF WorkInv, SavesHold, QuitHolds
  <2>. QED BY <1>1, <1>5, <2>1, <2>2, <2>3 DEF WorkInv, WorkTypes, RootKnown
<1>. QED BY <1>3, <1>4, <1>5 DEF SaveDirtyTabs

\* A save of another tab changes nothing of what is held of this one.
LEMMA OtherTabHolds ==
  ASSUME NEW t, NEW s, NEW texts, NEW more, texts \subseteq more, NEW ss, NEW n,
         TabHolds(t, texts, ss, n), t.path # s.path
  PROVE  TabHolds(t, more, ss \ {s}, n)
BY DEF TabHolds, SaveFits

OnlySave(s, ss) == s \in ss /\ \A u \in ss : u.path = s.path => u = s

\* c is what is left of t by a save that returned.
CleanedWell(c, t, ok, texts, more, ss, n) ==
  /\ c \in OpenTabs /\ c.path = t.path /\ c.text = t.text
  /\ TabHolds(c, more, ss, n)
  /\ t.text \in texts \/ t.during => t.text \in more \/ c.during
  /\ ok => t.text \in more \/ c.during

\* The tab a save was for holds what was typed since, and is dirty if that failed.
LEMMA CleanedTabHolds ==
  ASSUME NEW t \in OpenTabs, NEW texts, NEW more, texts \subseteq more, NEW ss, NEW n, NEW s, OnlySave(s, ss),
         TabHolds(t, texts, ss, n), t.path = s.path,
         NEW ok \in BOOLEAN, ok => s.text \in more
  PROVE  CleanedWell(Cleaned(t, s, ok), t, ok, texts, more, ss \ {s}, n)
<1> DEFINE c == Cleaned(t, s, ok)
<1>1. /\ c \in OpenTabs /\ c.path = t.path /\ c.text = t.text /\ c.foreign = FALSE
      /\ c.dirty <=> t.dirty /\ ~ok
      /\ c.dirtyRef <=> t.dirtyRef /\ (ok => t.foreign)
      /\ c.during <=> t.during /\ (ok => t.text # s.text)
  BY DEF Cleaned, OpenTabs
<1>2. SaveFits(t, s, texts)
  BY DEF TabHolds, OnlySave
<1> HIDE DEF c
<1>3. t.text \in texts \/ t.during => t.text \in more \/ c.during
  BY <1>1
<1>4. ok => t.text \in more \/ c.during
  BY <1>1, <1>2 DEF SaveFits
<1>5. c.text \in more \/ c.during \/ c.dirty
  BY <1>1, <1>3, <1>4 DEF TabHolds
<1>6. c.dirtyRef => c.dirty \/ c.during
  BY <1>1, <1>2 DEF TabHolds, SaveFits
<1>7. \A u \in ss \ {s} : u.path # c.path
  BY <1>1 DEF OnlySave
<1>8. TabHolds(c, more, ss \ {s}, n)
  BY <1>1, <1>5, <1>6, <1>7 DEF TabHolds
<1>9. CleanedWell(c, t, ok, texts, more, ss \ {s}, n)
  BY <1>1, <1>3, <1>4, <1>8 DEF CleanedWell
<1>. QED BY <1>9 DEF c

\* A save returns.
LEMMA EndTabSaveInv == WorkInv /\ EndTabSave => WorkInv'
<1> SUFFICES ASSUME WorkInv, EndTabSave PROVE WorkInv'
  OBVIOUS
<1>1. UNCHANGED <<root, envs, envPath, treeLoads, fileOps, typedTexts>>
  BY DEF EndTabSave
<1>2. PICK s \in saves, ok \in BOOLEAN :
       /\ saves' = saves \ {s}
       /\ savedTexts' = IF ok THEN savedTexts \cup {s.text} ELSE savedTexts
       /\ diskText' = IF ok THEN [diskText EXCEPT ![s.root][s.path] = s.text] ELSE diskText
       /\ IF s.then = "close" /\ ok
          THEN TabClosed(s.path) /\ lost' = lost \cup Losses(s.path, savedTexts')
          ELSE /\ tabs' = [i \in DOMAIN tabs |-> IF tabs[i].path = s.path THEN Cleaned(tabs[i], s, ok) ELSE tabs[i]]
               /\ UNCHANGED <<activeTabId, lost>>
       /\ quitQueue' = IF s.then = "quit"
                       THEN [quitQueue EXCEPT !.left = {i \in @ : quitQueue.ids[i] # s.path}, !.allOk = @ /\ ok]
                       ELSE quitQueue
  BY DEF EndTabSave
<1>3. s \in TabSaves /\ s.text \in Nat /\ s.text <= typedTexts /\ \A u \in saves : u.path = s.path => u = s
  BY DEF WorkInv, WorkTypes, SavesHold, TabSaves
<1>4. savedTexts \subseteq savedTexts' /\ (ok => s.text \in savedTexts') /\ savedTexts' \subseteq 0 .. typedTexts
  BY <1>2, <1>3 DEF WorkInv, WorkTypes
<1>5. diskText' \in [Collections -> [TabPaths -> savedTexts']]
  <2>1. diskText \in [Collections -> [TabPaths -> savedTexts']]
    BY <1>4 DEF WorkInv, WorkTypes
  <2>2. s.root \in Collections /\ s.path \in TabPaths
    BY <1>3 DEF TabSaves
  <2>3. CASE ok
    <3>1. [diskText[s.root] EXCEPT ![s.path] = s.text] \in [TabPaths -> savedTexts']
      BY <1>4, <2>1, <2>2, <2>3
    <3>. QED BY <1>2, <2>1, <2>2, <2>3, <3>1
  <2>4. CASE ~ok
    BY <1>2, <2>1, <2>4
  <2>. QED BY <2>3, <2>4
<1>6. /\ quitQueue' \in Quits /\ quitQueue'.left \subseteq 1 .. Len(quitQueue'.ids) /\ quitQueue'.on = quitQueue.on
      /\ quitQueue'.allOk => quitQueue.allOk /\ (s.then = "quit" => ok)
      /\ \A p : p # s.path /\ Queued(p, quitQueue) => Queued(p, quitQueue')
      /\ s.then # "quit" => quitQueue' = quitQueue
  <2>1. CASE s.then = "quit"
    <3> DEFINE rest == {i \in quitQueue.left : quitQueue.ids[i] # s.path}  all == quitQueue.allOk /\ ok
    <3>1. rest \subseteq quitQueue.left /\ all \in BOOLEAN
      BY DEF WorkInv, WorkTypes, Quits
    <3>2. \A p : p # s.path /\ Queued(p, quitQueue) => \E i \in rest : quitQueue.ids[i] = p
      BY DEF Queued
    <3>3. quitQueue' = [quitQueue EXCEPT !.left = rest, !.allOk = all]
      BY <1>2, <2>1
    <3>4. all => quitQueue.allOk /\ ok
      OBVIOUS
    <3> HIDE DEF rest, all
    <3>5. /\ quitQueue' \in Quits /\ quitQueue'.left = rest /\ quitQueue'.ids = quitQueue.ids
          /\ quitQueue'.on = quitQueue.on /\ quitQueue'.allOk = all
      BY <3>1, <3>3 DEF WorkInv, WorkTypes, Quits
    <3>. QED BY <2>1, <3>1, <3>2, <3>4, <3>5 DEF WorkInv, WorkTypes, Queued
  <2>2. CASE s.then # "quit"
    BY <1>2, <2>2 DEF WorkInv, WorkTypes
  <2>. QED BY <2>1, <2>2
<1>7. SavesHold(saves', quitQueue', typedTexts) /\ saves' \in SUBSET TabSaves
  <2>1. ASSUME NEW u \in saves, u # s, u.then = "quit" PROVE quitQueue'.on /\ Queued(u.path, quitQueue')
    <3>1. u.path # s.path /\ quitQueue.on /\ Queued(u.path, quitQueue)
      BY <2>1, <1>3 DEF WorkInv, SavesHold
    <3>. QED BY <3>1, <1>6
  <2>. QED BY <1>2, <2>1 DEF WorkInv, WorkTypes, SavesHold
<1>8. ASSUME NEW i \in 1 .. Len(tabs), tabs[i].path # s.path
      PROVE  /\ TabHolds(tabs[i], savedTexts', saves', typedTexts)
             /\ quitQueue'.on /\ quitQueue'.allOk =>
                  tabs[i].text \in savedTexts' \/ tabs[i].during \/ Queued(tabs[i].path, quitQueue')
  <2>1. TabHolds(tabs[i], savedTexts', saves', typedTexts)
    <3>1. TabHolds(tabs[i], savedTexts, saves, typedTexts)
      BY DEF WorkInv, TabsHold
    <3>2. TabHolds(tabs[i], savedTexts', saves \ {s}, typedTexts)
      BY <3>1, <1>4, <1>8, OtherTabHolds
    <3>. QED BY <3>2, <1>2
  <2>2. ASSUME quitQueue'.on, quitQueue'.allOk
        PROVE tabs[i].text \in savedTexts' \/ tabs[i].during \/ Queued(tabs[i].path, quitQueue')
    <3>1. tabs[i].text \in savedTexts \/ tabs[i].during \/ Queued(tabs[i].path, quitQueue)
      BY <2>2, <1>6 DEF WorkInv, QuitHolds
    <3>. QED BY <3>1, <1>4, <1>6, <1>8
  <2>. QED BY <2>1, <2>2
<1>9. CASE s.then = "close" /\ ok
  <2>1. TabClosed(s.path) /\ lost' = lost \cup Losses(s.path, savedTexts')
    BY <1>2, <1>9
  <2>2. /\ tabs' \in Seq(OpenTabs) /\ activeTabId' \in TabPaths \cup {Nothing}
        /\ TabsUsable(tabs', activeTabId') /\ SomeOf(tabs', tabs, s.path)
        /\ tabs = <<>> => tabs' = <<>>
    BY <2>1, ClosedTabs DEF WorkInv, WorkTypes
  <2>3. TabsHold(tabs', savedTexts', saves', typedTexts)
    BY <2>2, <1>8 DEF TabsHold, SomeOf
  <2>4. QuitHolds(tabs', savedTexts', quitQueue')
    BY <2>2, <1>8 DEF QuitHolds, SomeOf
  <2>5. "unasked" \notin Losses(s.path, savedTexts')
    <3>1. ASSUME NEW i \in 1 .. Len(tabs), tabs[i].path = s.path PROVE tabs[i].text \in savedTexts' \/ tabs[i].during
      <4>1. SaveFits(tabs[i], s, savedTexts)
        BY <3>1 DEF WorkInv, TabsHold, TabHolds
      <4>. QED BY <4>1, <1>4, <1>9 DEF SaveFits
    <3>2. \A t \in {u \in ToSet(tabs) : u.path = s.path} : t.text \in savedTexts' \/ t.during
      <4>1. tabs \in Seq(OpenTabs)
        BY DEF WorkInv, WorkTypes
      <4>. QED BY <3>1, <4>1 DEF ToSet
    <3>. QED BY <3>2, NothingUnasked DEF Losses
  <2>. QED BY <1>1, <1>4, <1>5, <1>6, <1>7, <2>1, <2>2, <2>3, <2>4, <2>5 DEF WorkInv, WorkTypes, RootKnown
<1>10. CASE ~(s.then = "close" /\ ok)
  <2>1. /\ tabs' = [i \in 1 .. Len(tabs) |-> IF tabs[i].path = s.path THEN Cleaned(tabs[i], s, ok) ELSE tabs[i]]
        /\ UNCHANGED <<activeTabId, lost>>
    BY <1>2, <1>10 DEF WorkInv, WorkTypes
  <2>2. ASSUME NEW i \in 1 .. Len(tabs), tabs[i].path = s.path
        PROVE  /\ tabs'[i] \in OpenTabs /\ tabs'[i].path = tabs[i].path
               /\ TabHolds(tabs'[i], savedTexts', saves', typedTexts)
               /\ quitQueue'.on /\ quitQueue'.allOk =>
                    tabs'[i].text \in savedTexts' \/ tabs'[i].during \/ Queued(tabs'[i].path, quitQueue')
    <3>1. tabs'[i] = Cleaned(tabs[i], s, ok)
      BY <2>1, <2>2
    <3>2. tabs[i] \in OpenTabs /\ TabHolds(tabs[i], savedTexts, saves, typedTexts)
      BY DEF WorkInv, WorkTypes, TabsHold
    <3>3. /\ tabs'[i] \in OpenTabs /\ tabs'[i].path = tabs[i].path /\ tabs'[i].text = tabs[i].text
          /\ TabHolds(tabs'[i], savedTexts', saves \ {s}, typedTexts)
          /\ tabs[i].text \in savedTexts \/ tabs[i].during => tabs[i].text \in savedTexts' \/ tabs'[i].during
          /\ ok => tabs[i].text \in savedTexts' \/ tabs'[i].during
      <4>1. CleanedWell(Cleaned(tabs[i], s, ok), tabs[i], ok, savedTexts, savedTexts', saves \ {s}, typedTexts)
        <5>1. OnlySave(s, saves)
          BY <1>3 DEF OnlySave
        <5>2. savedTexts \subseteq savedTexts' /\ (ok => s.text \in savedTexts')
          BY <1>4
        <5>. QED BY <3>2, <2>2, <5>1, <5>2, CleanedTabHolds
      <4>2. CleanedWell(tabs'[i], tabs[i], ok, savedTexts, savedTexts', saves \ {s}, typedTexts)
        BY <3>1, <4>1
      <4>. QED BY <4>2 DEF CleanedWell
    <3>4. ASSUME quitQueue'.on, quitQueue'.allOk
          PROVE tabs'[i].text \in savedTexts' \/ tabs'[i].during \/ Queued(tabs'[i].path, quitQueue')
      <4>1. CASE s.then = "quit"
        BY <4>1, <3>3, <3>4, <1>6
      <4>2. CASE s.then # "quit"
        <5>1. tabs[i].text \in savedTexts \/ tabs[i].during \/ Queued(tabs[i].path, quitQueue)
          BY <3>4, <1>6 DEF WorkInv, QuitHolds
        <5>. QED BY <5>1, <4>2, <3>3, <1>6
      <4>. QED BY <4>1, <4>2
    <3>. QED BY <3>3, <3>4, <1>2
  <2>3. ASSUME NEW i \in 1 .. Len(tabs), tabs[i].path # s.path PROVE tabs'[i] = tabs[i] /\ tabs[i] \in OpenTabs
    BY <2>1, <2>3 DEF WorkInv, WorkTypes
  <2>4. /\ \A i \in 1 .. Len(tabs) : tabs'[i] \in OpenTabs /\ tabs'[i].path = tabs[i].path
        /\ \A i \in 1 .. Len(tabs) : TabHolds(tabs'[i], savedTexts', saves', typedTexts)
        /\ quitQueue'.on /\ quitQueue'.allOk =>
             \A i \in 1 .. Len(tabs) :
               tabs'[i].text \in savedTexts' \/ tabs'[i].during \/ Queued(tabs'[i].path, quitQueue')
    BY <2>2, <2>3, <1>8
  <2>5. tabs' \in Seq(OpenTabs) /\ Len(tabs') = Len(tabs) /\ (tabs' = <<>> <=> tabs = <<>>)
    <3>1. Len(tabs) \in Nat /\ tabs \in Seq(OpenTabs)
      BY DEF WorkInv, WorkTypes
    <3>2. tabs' \in Seq(OpenTabs) /\ Len(tabs') = Len(tabs)
      <4> DEFINE T == [i \in 1 .. Len(tabs) |-> IF tabs[i].path = s.path THEN Cleaned(tabs[i], s, ok) ELSE tabs[i]]
      <4>1. tabs' = T
        BY <2>1
      <4>2. \A i \in 1 .. Len(tabs) : T[i] \in OpenTabs
        BY <4>1, <2>4
      <4>3. DOMAIN T = 1 .. Len(tabs)
        OBVIOUS
      <4>4. T = [i \in 1 .. Len(tabs) |-> T[i]]
        OBVIOUS
      <4> HIDE DEF T
      <4>5. T \in Seq(OpenTabs) /\ Len(T) = Len(tabs)
        BY <3>1, <4>2, <4>3, <4>4
      <4>. QED BY <4>1, <4>5
    <3>. QED BY <3>1, <3>2
  <2>6. TabsUsable(tabs', activeTabId')
    BY <2>1, <2>4, <2>5 DEF WorkInv, TabsUsable
  <2>7. TabsHold(tabs', savedTexts', saves', typedTexts) /\ QuitHolds(tabs', savedTexts', quitQueue')
    BY <2>4, <2>5 DEF TabsHold, QuitHolds
  <2>. QED BY <1>1, <1>4, <1>5, <1>6, <1>7, <2>1, <2>5, <2>6, <2>7 DEF WorkInv, WorkTypes, RootKnown
<1>. QED BY <1>9, <1>10

\* A file is made, moved or deleted, and the tabs it touches close.
LEMMA EndFileOpInv == WorkInv /\ EndFileOp => WorkInv'
<1> SUFFICES ASSUME WorkInv, EndFileOp PROVE WorkInv'
  OBVIOUS
<1>1. UNCHANGED <<root, envs, envPath, saves, quitQueue, typedTexts, lost, savedTexts>>
  BY DEF EndFileOp
<1>2. PICK o \in fileOps :
       /\ fileOps' = fileOps \ {o}
       /\ \/ UNCHANGED <<diskText, tabs, activeTabId, treeLoads>>
          \/ /\ diskText' = CASE o.op = "create" -> [diskText EXCEPT ![o.root][o.to] = 1]
                              [] o.op = "rename" ->
                                   [diskText EXCEPT ![o.root][o.to] = diskText[o.root][o.from],
                                                ![o.root][o.from] = 0]
                              [] OTHER -> [diskText EXCEPT ![o.root][o.from] = 0]
             /\ TabClosed(o.from) \/ UNCHANGED <<tabs, activeTabId>>
             /\ treeLoads' = treeLoads \cup
                  {[root |-> o.root, at |-> "scan",
                    open |-> IF o.op = "create" \/ (o.op = "rename" /\ o.affected) THEN o.to ELSE Nothing]}
  BY DEF EndFileOp
<1>3. o.root \in Collections /\ o.from \in TabPaths /\ o.to \in TabPaths
  BY DEF WorkInv, WorkTypes, TreeOps
<1>4. root \in Collections
  BY DEF WorkInv, WorkTypes, RootKnown
<1>5. diskText' \in [Collections -> [TabPaths -> savedTexts]]
  <2>1. diskText \in [Collections -> [TabPaths -> savedTexts]] /\ 0 \in savedTexts /\ 1 \in savedTexts
    BY DEF WorkInv, WorkTypes
  <2>2. CASE UNCHANGED diskText
    BY <2>1, <2>2
  <2>3. ASSUME NEW p \in TabPaths, NEW text \in savedTexts
        PROVE  [diskText EXCEPT ![o.root][p] = text] \in [Collections -> [TabPaths -> savedTexts]]
    BY <2>1, <1>3
  <2>4. CASE diskText' = [diskText EXCEPT ![o.root][o.to] = 1]
    BY <2>1, <2>3, <2>4, <1>3
  <2>5. CASE diskText' = [diskText EXCEPT ![o.root][o.from] = 0]
    BY <2>1, <2>3, <2>5, <1>3
  <2>6. CASE diskText' = [diskText EXCEPT ![o.root][o.to] = diskText[o.root][o.from], ![o.root][o.from] = 0]
    <3> DEFINE d == [diskText EXCEPT ![o.root][o.to] = diskText[o.root][o.from]]
    <3>1. diskText[o.root][o.from] \in savedTexts
      BY <2>1, <1>3
    <3>2. d \in [Collections -> [TabPaths -> savedTexts]]
      BY <3>1, <2>3, <1>3
    <3>3. diskText' = [d EXCEPT ![o.root][o.from] = 0]
      BY <2>6
    <3> HIDE DEF d
    <3>. QED BY <3>2, <3>3, <2>1, <1>3
  <2>. QED BY <1>2, <2>2, <2>4, <2>5, <2>6
<1>6. treeLoads' \in SUBSET Loads
  BY <1>2, <1>3 DEF WorkInv, WorkTypes, Loads
<1>7. fileOps' \in SUBSET TreeOps
  BY <1>2 DEF WorkInv, WorkTypes
<1>8. CASE UNCHANGED <<tabs, activeTabId>>
  BY <1>1, <1>4, <1>5, <1>6, <1>7, <1>8 DEF WorkInv, WorkTypes, RootKnown, WorkbenchAssumption
<1>9. CASE TabClosed(o.from)
  <2>1. /\ tabs' \in Seq(OpenTabs) /\ activeTabId' \in TabPaths \cup {Nothing}
        /\ TabsUsable(tabs', activeTabId')
        /\ TabsHold(tabs', savedTexts, saves, typedTexts) /\ QuitHolds(tabs', savedTexts, quitQueue)
    BY <1>9, ClosingInv
  <2>. QED BY <1>1, <1>4, <1>5, <1>6, <1>7, <2>1 DEF WorkInv, WorkTypes, RootKnown, WorkbenchAssumption
<1>. QED BY <1>2, <1>8, <1>9

\* The invariant is inductive.
LEMMA WorkNextInv == WorkInv /\ [WorkbenchNext]_workbenchVars => WorkInv'
<1>1. ASSUME WorkInv, WorkbenchNext PROVE WorkInv'
  BY <1>1, BeginningsInv, CollectionLoadedInv, SetEnvsInv, OpenNodeInv, TouchInv, StartTabSaveInv, EndTabSaveInv,
     RequestCloseTabInv, CloseTabDialogInv, WindowInv, EndFileOpInv, SaveDirtyTabsInv DEF WorkbenchNext
<1>2. ASSUME WorkInv, UNCHANGED workbenchVars PROVE WorkInv'
  BY <1>2 DEF workbenchVars, WorkInv, WorkTypes, RootKnown
<1>. QED BY <1>1, <1>2

\* The invariant is more than the property says.
LEMMA WorkInvLost == WorkInv => EditsAreLostByChoice
<1> SUFFICES ASSUME WorkInv PROVE EditsAreLostByChoice
  OBVIOUS
<1>1. DOMAIN tabs = 1 .. Len(tabs)
  BY DEF WorkInv, WorkTypes
<1>2. (activeTabId = Nothing) = (tabs = <<>>)
  BY DEF WorkInv, TabsUsable
<1>3. activeTabId # Nothing => IsOpen(activeTabId)
  BY <1>1 DEF WorkInv, TabsUsable, IsOpen
<1>4. \A i, j \in DOMAIN tabs : tabs[i].path = tabs[j].path => i = j
  BY <1>1 DEF WorkInv, TabsUsable
<1>. QED BY <1>2, <1>3, <1>4 DEF WorkInv, EditsAreLostByChoice

\* For any collections, files, loads, operations and edits: what the user typed is not
\* dropped unasked when a tab or the window closes, unless it was typed during a save.
THEOREM LostByChoice == WorkbenchSpec => []EditsAreLostByChoice
<1>1. WorkInv => EditsAreLostByChoice
  BY WorkInvLost
<1>2. WorkbenchInit => WorkInv
  BY WorkInitInv
<1>3. WorkInv /\ [WorkbenchNext]_workbenchVars => WorkInv'
  BY WorkNextInv
<1>. QED BY <1>1, <1>2, <1>3, PTL DEF WorkbenchSpec

-----------------------------------------------------------------------------
(***************************************************************************)
(* What makes the invariants inductive: an upgrade is dialed when it is    *)
(* taken, gives nothing while the target is dialed or refuses, and a wired *)
(* session gives nothing while both of its legs are open.                  *)
(***************************************************************************)
Progress ==
  \A r \in Requests :
    /\ client[r] = "idle" <=> target[r] = "none"
    /\ target[r] \in {"none", "dialing", "refusing"} => emits[r] = 0
    /\ r \in relayed => client[r] \notin {"idle", "raw"} /\ target[r] \notin {"none", "dialing", "refusing"}
    /\ emits[r] = 0 <=> exchange[r] = None

IInv == TypeOK /\ Progress /\ EstablishedIsRecorded

\* None is not an exchange.
LEMMA NoneNew == None \notin Exchanges
  BY NoneAssumption DEF Exchanges

\* The invariant holds at the start.
LEMMA InitIInv == Init => IInv
  BY NoneNew DEF Init, IInv, TypeOK, Progress, EstablishedIsRecorded

LogOK == /\ emits \in [Requests -> {0, 1}]
         /\ exchange \in [Requests -> Exchanges \cup {None}]
         /\ \A r \in Requests : emits[r] = 0 <=> exchange[r] = None

\* What a step can do to the exchanges: give some, each to a session that was
\* taken and had none; a clean one only to a wired session no leg of which failed.
Gives(r) ==
  /\ target'[r] # "none" /\ emits[r] = 0 /\ emits'[r] = 1
  /\ exchange'[r] \in Exchanges
  /\ ~exchange'[r].errored => r \in relayed /\ r \notin failed
LogStep == \A r \in Requests : Gives(r) \/ (emits'[r] = emits[r] /\ exchange'[r] = exchange[r])

\* What Emit does to the exchanges.
LEMMA EmitFacts ==
  ASSUME NEW STATE R, NEW STATE errored, NEW kind \in {"unreachable", "refused", "session"},
         R \subseteq Requests, LogOK, Emit(R, kind, errored),
         \A r \in R : target'[r] # "none" /\ (r \in errored \/ (r \in relayed /\ r \notin failed))
  PROVE  /\ LogOK' /\ LogStep
         /\ \A r \in R : emits'[r] = 1
         /\ \A r \in Requests \ R : emits'[r] = emits[r]
<1> DEFINE x(r) == [kind |-> kind, errored |-> r \in errored]
<1>1. \A r \in Requests : x(r) \in Exchanges /\ x(r) # None
  <2>1. \A e \in BOOLEAN : [kind |-> kind, errored |-> e] \in Exchanges
    BY DEF Exchanges
  <2>2. \A r : (r \in errored) \in BOOLEAN
    OBVIOUS
  <2>3. \A r : x(r) \in Exchanges
    BY <2>1, <2>2, Zenon
  <2>. QED BY <2>3, NoneNew
<1>2. \A r : x(r).errored <=> r \in errored
  OBVIOUS
<1>3. \A r \in Requests : IF r \in R /\ emits[r] = 0
                            THEN emits'[r] = 1 /\ exchange'[r] = x(r)
                            ELSE emits'[r] = emits[r] /\ exchange'[r] = exchange[r]
  BY DEF Emit, LogOK
<1>4. emits' \in [Requests -> {0, 1}]
  BY DEF Emit, LogOK
<1>5. exchange' = [r \in Requests |-> IF r \in R /\ emits[r] = 0 THEN x(r) ELSE exchange[r]]
  BY DEF Emit
<1> HIDE DEF x
<1>6. exchange' \in [Requests -> Exchanges \cup {None}]
  BY <1>1, <1>5 DEF LogOK
<1>7. LogOK'
  BY <1>1, <1>3, <1>4, <1>6 DEF LogOK
<1>8. LogStep
  BY <1>1, <1>2, <1>3 DEF LogStep, Gives
<1>. QED BY <1>3, <1>7, <1>8 DEF LogOK

\* The two legs' common end: the sessions R are recorded and their other legs follow.
LEMMA FinishFacts ==
  ASSUME NEW STATE R, NEW abnormal \in BOOLEAN, R \subseteq Requests, R \subseteq relayed,
         LogOK, Emit(R, "session", IF abnormal THEN R ELSE failed),
         \A r \in R : target'[r] # "none"
  PROVE  /\ LogOK' /\ LogStep
         /\ \A r \in R : emits'[r] = 1
         /\ \A r \in Requests \ R : emits'[r] = emits[r]
<1> DEFINE errored == IF abnormal THEN R ELSE failed
<1>1. Emit(R, "session", errored)
  OBVIOUS
<1>2. \A r \in R : target'[r] # "none" /\ (r \in errored \/ (r \in relayed /\ r \notin failed))
  OBVIOUS
<1> HIDE DEF errored
<1>. QED BY <1>1, <1>2, EmitFacts

\* The actions that leave the exchanges alone.
LEMMA QuietLog ==
  ASSUME UNCHANGED log
  PROVE  LogStep
  BY DEF log, LogStep

\* Every step keeps the invariant and gives exchanges as it should.
LEMMA NextIInv ==
  ASSUME IInv, [Next]_vars
  PROVE  IInv' /\ LogStep
<1>0. LogOK
  BY DEF IInv, TypeOK, Progress, LogOK
<1> USE DEF log
<1>1. ASSUME NEW r \in Requests,
             \/ Upgrade(r) \/ ClientDrops(r) \/ TargetRefuses(r) \/ RefusalError(r) \/ OpenTooLate(r)
             \/ Establish(r) \/ HandshakeFails(r) \/ ClientFails(r) \/ TargetFails(r) \/ LooseClose(r)
      PROVE  IInv' /\ LogStep
  <2> USE DEF Upgrade, ClientDrops, TargetRefuses, RefusalError, OpenTooLate, Establish, HandshakeFails,
          ClientFails, TargetFails, LooseClose
  <2>1. UNCHANGED log
    BY <1>1
  <2>2. TypeOK'
    BY <1>1 DEF IInv, TypeOK, Open, Progress
  <2>3. Progress'
    BY <1>1 DEF IInv, TypeOK, Open, Progress
  <2>4. EstablishedIsRecorded'
    BY <1>1 DEF IInv, TypeOK, Open, Progress, EstablishedIsRecorded
  <2>. QED BY <2>1, <2>2, <2>3, <2>4, QuietLog DEF IInv
<1>2. ASSUME NEW r \in Requests, RefusalEnd(r) \/ TargetError(r) PROVE IInv' /\ LogStep
  <2>1. /\ target' = [target EXCEPT ![r] = "closed"] /\ client' = [client EXCEPT ![r] = "closed"]
        /\ UNCHANGED <<server, relayed, failed>> /\ doomed' = doomed \ {r}
        /\ target[r] \in {"dialing", "refusing"}
        /\ Emit({r}, "refused", {r}) \/ Emit({r}, "unreachable", {r})
    BY <1>2 DEF RefusalEnd, TargetError
  <2>2. target'[r] = "closed" /\ client'[r] = "closed"
    BY <2>1 DEF IInv, TypeOK
  <2>3. LogOK' /\ LogStep /\ emits'[r] = 1 /\ \A q \in Requests \ {r} : emits'[q] = emits[q]
    <3>1. {r} \subseteq Requests /\ \A q \in {r} : target'[q] # "none" /\ q \in {r}
      BY <2>2
    <3>2. CASE Emit({r}, "refused", {r})
      BY <1>0, <3>1, <3>2, EmitFacts
    <3>3. CASE Emit({r}, "unreachable", {r})
      BY <1>0, <3>1, <3>3, EmitFacts
    <3>. QED BY <2>1, <3>2, <3>3
  <2>4. TypeOK'
    BY <2>1, <2>3 DEF IInv, TypeOK, LogOK
  <2>5. Progress'
    BY <2>1, <2>2, <2>3 DEF IInv, TypeOK, Progress, LogOK
  <2>6. EstablishedIsRecorded'
    BY <2>1, <2>3 DEF IInv, TypeOK, Progress, EstablishedIsRecorded
  <2>. QED BY <2>3, <2>4, <2>5, <2>6 DEF IInv
<1>3. ASSUME NEW r \in Requests, NEW abnormal \in BOOLEAN, ClientClose(r, abnormal)
      PROVE  IInv' /\ LogStep
  <2>1. /\ client' = [client EXCEPT ![r] = "closed"] /\ r \in relayed
        /\ target' = [q \in Requests |-> IF q \in {r} THEN CloseOther(target[q]) ELSE target[q]]
        /\ UNCHANGED <<server, relayed, failed, doomed>>
        /\ Emit({r}, "session", IF abnormal THEN {r} ELSE failed)
    BY <1>3 DEF ClientClose, Finish
  <2>2. target'[r] \notin {"none", "dialing", "refusing"}
    BY <2>1 DEF IInv, Progress, CloseOther
  <2>3. LogOK' /\ LogStep /\ emits'[r] = 1 /\ \A q \in Requests \ {r} : emits'[q] = emits[q]
    <3>1. {r} \subseteq Requests /\ {r} \subseteq relayed /\ \A q \in {r} : target'[q] # "none"
      BY <2>1, <2>2
    <3>2. \A q \in {r} : emits'[q] = 1
      BY <1>0, <2>1, <3>1, FinishFacts
    <3>3. LogOK' /\ LogStep /\ \A q \in Requests \ {r} : emits'[q] = emits[q]
      BY <1>0, <2>1, <3>1, FinishFacts
    <3>. QED BY <3>2, <3>3
  <2>4. TypeOK'
    BY <2>1, <2>3 DEF IInv, TypeOK, LogOK, CloseOther
  <2>5. Progress'
    BY <2>1, <2>2, <2>3 DEF IInv, TypeOK, Progress, LogOK, CloseOther
  <2>6. EstablishedIsRecorded'
    BY <2>1, <2>3 DEF IInv, TypeOK, EstablishedIsRecorded, CloseOther
  <2>. QED BY <2>3, <2>4, <2>5, <2>6 DEF IInv
<1>4. ASSUME NEW r \in Requests, NEW abnormal \in BOOLEAN, TargetClose(r, abnormal)
      PROVE  IInv' /\ LogStep
  <2>1. /\ target' = [target EXCEPT ![r] = "closed"] /\ r \in relayed /\ Open(target[r])
        /\ client' = [q \in Requests |-> IF q \in {r} THEN CloseOther(client[q]) ELSE client[q]]
        /\ UNCHANGED <<server, relayed, failed, doomed>>
        /\ Emit({r}, "session", IF abnormal THEN {r} ELSE failed)
    BY <1>4 DEF TargetClose, Finish
  <2>2. target'[r] = "closed" /\ client'[r] \notin {"idle", "raw"}
    BY <2>1 DEF IInv, TypeOK, Progress, CloseOther
  <2>3. LogOK' /\ LogStep /\ emits'[r] = 1 /\ \A q \in Requests \ {r} : emits'[q] = emits[q]
    <3>1. {r} \subseteq Requests /\ {r} \subseteq relayed /\ \A q \in {r} : target'[q] # "none"
      BY <2>1, <2>2
    <3>2. \A q \in {r} : emits'[q] = 1
      BY <1>0, <2>1, <3>1, FinishFacts
    <3>3. LogOK' /\ LogStep /\ \A q \in Requests \ {r} : emits'[q] = emits[q]
      BY <1>0, <2>1, <3>1, FinishFacts
    <3>. QED BY <3>2, <3>3
  <2>4. TypeOK'
    BY <2>1, <2>3 DEF IInv, TypeOK, LogOK, CloseOther, Open
  <2>5. Progress'
    BY <2>1, <2>2, <2>3 DEF IInv, TypeOK, Progress, LogOK, CloseOther
  <2>6. EstablishedIsRecorded'
    BY <2>1, <2>3 DEF IInv, TypeOK, EstablishedIsRecorded, CloseOther
  <2>. QED BY <2>3, <2>4, <2>5, <2>6 DEF IInv
<1>5. CASE StopBegin
  <2>1. UNCHANGED log
    BY <1>5 DEF StopBegin
  <2>2. TypeOK'
    BY <1>5 DEF StopBegin, CloseOther, IInv, TypeOK
  <2>3. Progress'
    BY <1>5 DEF StopBegin, CloseOther, IInv, TypeOK, Progress
  <2>4. EstablishedIsRecorded'
    BY <1>5 DEF StopBegin, CloseOther, IInv, TypeOK, EstablishedIsRecorded
  <2>. QED BY <2>1, <2>2, <2>3, <2>4, QuietLog DEF IInv
<1>6. CASE DestroySockets
  <2> DEFINE R == {r \in relayed : Open(client[r])}
  <2>1. /\ client' = [r \in Requests |-> IF Connected(r) THEN "closed" ELSE client[r]]
        /\ target' = [q \in Requests |-> IF q \in R THEN CloseOther(target[q]) ELSE target[q]]
        /\ UNCHANGED <<server, relayed, failed, doomed>>
        /\ Emit(R, "session", IF TRUE THEN R ELSE failed)
    BY <1>6 DEF DestroySockets, Finish
  <2>2. R \subseteq Requests /\ R \subseteq relayed
    BY DEF IInv, TypeOK
  <2>3. \A r \in Requests : r \in relayed => target'[r] \notin {"none", "dialing", "refusing"}
    BY <2>1 DEF IInv, Progress, CloseOther
  <2>4. LogOK' /\ LogStep /\ (\A r \in R : emits'[r] = 1) /\ \A r \in Requests \ R : emits'[r] = emits[r]
    <3>1. \A r \in R : target'[r] # "none"
      BY <2>2, <2>3
    <3> HIDE DEF R
    <3>. QED BY <1>0, <2>1, <2>2, <3>1, FinishFacts
  <2>5. TypeOK'
    BY <2>1, <2>4 DEF IInv, TypeOK, LogOK, CloseOther
  <2>6. Progress'
    BY <2>1, <2>3, <2>4 DEF IInv, TypeOK, Progress, LogOK, CloseOther, Connected
  <2>7. EstablishedIsRecorded'
    BY <2>1, <2>2, <2>4 DEF IInv, TypeOK, Progress, EstablishedIsRecorded, CloseOther, Connected, Open
  <2>. QED BY <2>4, <2>5, <2>6, <2>7 DEF IInv
<1>7. CASE StopEnd
  BY <1>7, QuietLog DEF StopEnd, IInv, TypeOK, Progress, EstablishedIsRecorded
<1>8. CASE UNCHANGED vars
  BY <1>8, QuietLog DEF vars, IInv, TypeOK, Progress, EstablishedIsRecorded
<1>. QED BY <1>1, <1>2, <1>3, <1>4, <1>5, <1>6, <1>7, <1>8 DEF Next, Dial, Session

\* The invariant is one of the specification.
LEMMA Inductive == Spec => []IInv
<1>1. IInv /\ [Next]_vars => IInv'
  BY NextIInv
<1>. QED BY <1>1, InitIInv, PTL DEF Spec

-----------------------------------------------------------------------------
(***************************************************************************)
(* For any number of upgrades, a session that was established is recorded  *)
(* as soon as one of its legs is closed.                                   *)
(***************************************************************************)
THEOREM NoSessionLost == Spec => [](TypeOK /\ EstablishedIsRecorded)
<1>1. IInv => TypeOK /\ EstablishedIsRecorded
  BY DEF IInv
<1>. QED BY <1>1, Inductive, PTL

(***************************************************************************)
(* For any number of upgrades, an exchange without an error is of a        *)
(* session that was established and none of whose legs had failed.         *)
(***************************************************************************)
THEOREM CleanIsClean == Spec => CleanSessionDidNotFail
<1> DEFINE Clean == \A r \in Requests : exchange'[r] # exchange[r] /\ ~exchange'[r].errored =>
                       r \in relayed /\ r \notin failed
<1>1. IInv /\ [Next]_vars => [Clean]_vars
  BY NextIInv DEF LogStep, Gives
<1>. QED BY <1>1, Inductive, PTL DEF Spec, CleanSessionDidNotFail

\* An upgrade that was taken stays so.
LEMMA TakenStays ==
  ASSUME IInv, [Next]_vars, NEW r \in Requests, target[r] # "none"
  PROVE  target'[r] # "none"
<1> USE DEF IInv, TypeOK
<1>1. ASSUME NEW q \in Requests, Dial(q) PROVE target'[r] # "none"
  BY <1>1 DEF Dial, Upgrade, ClientDrops, TargetRefuses, RefusalEnd, RefusalError, TargetError,
     OpenTooLate, Establish, HandshakeFails
<1>2. ASSUME NEW q \in Requests, Session(q) PROVE target'[r] # "none"
  BY <1>2 DEF Session, ClientClose, TargetClose, ClientFails, TargetFails, LooseClose, Finish, CloseOther
<1>3. CASE StopBegin \/ DestroySockets \/ StopEnd \/ UNCHANGED vars
  BY <1>3 DEF StopBegin, DestroySockets, StopEnd, Finish, CloseOther, vars
<1>. QED BY <1>1, <1>2, <1>3 DEF Next

\* Every step maps to a step of OneExchange or to a stutter.
LEMMA StepRefines == IInv /\ [Next]_vars => [Abstract!Next]_Abstract!vars
<1> SUFFICES ASSUME IInv, [Next]_vars PROVE Abstract!Next
  OBVIOUS
<1>1. ASSUME NEW r \in Requests PROVE Abstract!EmitsOnce(r)
  BY NextIInv DEF LogStep, Gives, Abstract!EmitsOnce
<1>. QED BY <1>1, TakenStays DEF Abstract!Next

(***************************************************************************)
(* The relay of upgrades implements OneExchange for any number of them.    *)
(***************************************************************************)
THEOREM ImplementsOneExchange == Spec => KeepsOneExchange
<1>1. Init => Abstract!Init
  BY DEF Init, Abstract!Init
<1>. QED BY <1>1, StepRefines, Inductive, PTL DEF Spec, KeepsOneExchange, Abstract!Spec
=============================================================================
