--------------------------- MODULE CollectionFiles ---------------------------
(***************************************************************************)
(* The files of a collection under the handlers of main/ipc-handlers.ts,   *)
(* main/env-ops.ts, main/spec-store.ts and the file tools of the MCP       *)
(* server.  A handler looks before it leaps, and is suspended between the  *)
(* look, the leap and what follows it, so that handlers overlap.  Requests *)
(* stand for environments too, which have the same operations under        *)
(* another extension; a document is named by the handler that created it.  *)
(***************************************************************************)
EXTENDS Naturals, FiniteSets

CONSTANTS
  Handlers,    \* bound: calls of a handler that creates, moves or replaces files
  Given,       \* the request the collection comes with, at <<"f", "a">>
  NoDocument   \* no file at a path

ASSUME FilesAssumption == Given \notin Handlers /\ NoDocument \notin Handlers \cup {Given}

Folders == {"f", "g"}
Names == {"a", "a-2"}
Places == Folders \X Names

VARIABLES
  disk,        \* [Places -> documents] the request files
  stepRef,     \* the place a workflow's step refers to
  handler,     \* [Handlers -> ...] a call in progress
  examples,    \* the saved examples of a request, as a set
  meant,       \* history: the document the step was written for
  alive,       \* history: documents written and not deleted or replaced on purpose
  keptNames,   \* history: the examples there should be
  muddled      \* history: handlers overlapped, one failed half-way, or the app died

filesVars == <<disk, stepRef, handler, examples, meant, alive, keptNames, muddled>>

NoHandler == [does |-> "nothing", stage |-> "unused", moves |-> {}, at |-> <<"f", "a">>, view |-> {}]
Active == {h \in Handlers : handler[h].stage \notin {"unused", "over"}}

FilesInit ==
  /\ disk = [p \in Places |-> IF p = <<"f", "a">> THEN Given ELSE NoDocument]
  /\ stepRef = <<"f", "a">> /\ meant = Given
  /\ handler = [h \in Handlers |-> NoHandler]
  /\ examples = {} /\ keptNames = {} /\ alive = {Given} /\ muddled = FALSE

Taken(p) == disk[p] # NoDocument
TakenFolder(f) == \E p \in Places : p[1] = f /\ Taken(p)

\* A call begins, at its first await; at most one is meant to be in progress.
Begin(h, does, stage, moves, at) ==
  /\ handler[h].stage = "unused"
  /\ handler' = [handler EXCEPT ![h] = [does |-> does, stage |-> stage, moves |-> moves,
                                        at |-> at, view |-> examples]]
  /\ muddled' = (muddled \/ Active # {})
  /\ UNCHANGED <<disk, stepRef, examples, meant, alive, keptNames>>

Over(h) == handler' = [handler EXCEPT ![h].stage = "over"]

-----------------------------------------------------------------------------
\* Variant: whatever is there is replaced.
BeginCreateAnyway(h, p) == Begin(h, "create", "write", {}, p)

\* A new file: nothing may be there.
BeginCreate(h, p) == ~Taken(p) /\ Begin(h, "create", "write", {}, p)

RequestCreate(h, p) == BeginCreate(h, p)

\* The folder is made first: the look and the leap are one turn apart.
CreateEnv(h, p) == BeginCreate(h, p)

\* The copy is of the file as it is when it is read; an environment is read in
\* the turn of the look, and has to parse.
RequestDuplicate(h, from, to) == BeginCreate(h, to)
DuplicateEnv(h, from, to) == Taken(from) /\ BeginCreate(h, to)

\* The first name of the series that is free.
WriteRequestDeduped(h, f) ==
  \E p \in {<<f, "a">>, <<f, "a-2">>} :
    (p[2] = "a-2" => Taken(<<f, "a">>)) /\ BeginCreate(h, p)

\* An import deduplicates each of its files in its turn, and may have stored
\* the specification before: under its own name, in place of an older one.
ImportOpenApi(h, f) == WriteRequestDeduped(h, f)

BeginRename(h, from, to, does) == ~Taken(to) /\ Begin(h, does, "move", {<<from, to>>}, to)

RequestRename(h, from, to) == BeginRename(h, from, to, "rename")

\* No step refers to an environment, and none is healed.
RenameEnv(h, from, to) == BeginRename(h, from, to, "move")

\* move_path of the MCP server: the file must be there, and no step is healed.
MovePath(h, from, to) == Taken(from) /\ BeginRename(h, from, to, "move")

\* folderRename: the pairs to heal are those found before the folder moves.
FolderRename(h, f, g) ==
  /\ f # g /\ TakenFolder(f) /\ ~TakenFolder(g)
  /\ Begin(h, "folder", "move", {<<p, <<g, p[2]>>>> : p \in {q \in Places : q[1] = f /\ Taken(q)}},
           <<f, g>>)

\* The file of a create, a copy or an import is written: what came there after
\* the look is replaced.
WriteNew(h) ==
  /\ handler[h].stage = "write"
  /\ disk' = [disk EXCEPT ![handler[h].at] = h]
  /\ alive' = alive \cup {h}
  /\ Over(h)
  /\ UNCHANGED <<stepRef, examples, meant, keptNames, muddled>>

\* The destination's folder may not be had, the source may have alive.
LeapFails(h) ==
  /\ handler[h].stage \in {"write", "move"}
  /\ Over(h)
  /\ UNCHANGED <<disk, stepRef, examples, meant, alive, keptNames, muddled>>

\* rename(2) replaces a file, and refuses a folder that is not empty.
Moved(h) ==
  IF handler[h].does = "folder"
    THEN LET f == handler[h].at[1]
             g == handler[h].at[2]
         IN  [p \in Places |-> IF p[1] = g THEN disk[<<f, p[2]>>]
                               ELSE IF p[1] = f THEN NoDocument ELSE disk[p]]
    ELSE LET m == CHOOSE m \in handler[h].moves : TRUE
         IN  [disk EXCEPT ![m[2]] = disk[m[1]], ![m[1]] = NoDocument]

Move(h) ==
  /\ handler[h].stage = "move"
  /\ IF handler[h].does = "folder"
       THEN TakenFolder(handler[h].at[1]) /\ ~TakenFolder(handler[h].at[2])
       ELSE \A m \in handler[h].moves : Taken(m[1])
  /\ disk' = Moved(h)
  /\ handler' = [handler EXCEPT ![h].stage = IF handler[h].does = "move" THEN "over" ELSE "heal"]
  /\ meant' = IF handler[h].does = "move" /\ stepRef \in {m[1] : m \in handler[h].moves}
                THEN NoDocument ELSE meant
  /\ UNCHANGED <<stepRef, examples, alive, keptNames, muddled>>

\* Variant: only the file that was renamed by itself is looked for.
HealedByName(h, ref) == IF handler[h].does = "rename" THEN handler[h].at ELSE ref

\* healWorkflowRefs: every workflow is read, and written back if it changed.
Healed(h, ref) == IF \E m \in handler[h].moves : m[1] = ref
                    THEN (CHOOSE m \in handler[h].moves : m[1] = ref)[2] ELSE ref

HealRead(h) ==
  /\ handler[h].stage = "heal"
  /\ handler' = [handler EXCEPT ![h] = [@ EXCEPT !.stage = IF Healed(h, stepRef) = stepRef THEN "over" ELSE "heal write",
                                                 !.at = Healed(h, stepRef)]]
  /\ UNCHANGED <<disk, stepRef, examples, meant, alive, keptNames, muddled>>

HealWrite(h) ==
  /\ handler[h].stage = "heal write"
  /\ stepRef' = handler[h].at
  /\ Over(h)
  /\ UNCHANGED <<disk, examples, meant, alive, keptNames, muddled>>

\* A workflow that cannot be read or written is left as it is, silently.
HealFails(h) ==
  /\ handler[h].stage \in {"heal", "heal write"}
  /\ Over(h) /\ muddled' = TRUE
  /\ UNCHANGED <<disk, stepRef, examples, meant, alive, keptNames>>

-----------------------------------------------------------------------------
WriteInPlace(h, p, replaces) ==
  /\ handler[h].stage = "unused"
  /\ disk' = IF Taken(p) /\ ~replaces THEN disk ELSE [disk EXCEPT ![p] = h]
  /\ alive' = IF disk'[p] = disk[p] THEN alive ELSE (alive \ {disk[p]}) \cup {h}
  /\ Over(h)
  /\ muddled' = (muddled \/ Active # {})
  /\ UNCHANGED <<stepRef, examples, meant, keptNames>>

\* The file is edited, or is there anew when it was renamed or deleted under the tab.
RequestWrite(h, p) == WriteInPlace(h, p, FALSE)
WriteEnv(h, p) == WriteInPlace(h, p, FALSE)
WriteRequestTool(h, p) == WriteInPlace(h, p, FALSE)

\* An imported Postman request replaces what has its name.
ImportPostman(h, p) == WriteInPlace(h, p, TRUE)

Delete(places) ==
  /\ \E p \in places : Taken(p)
  /\ disk' = [q \in Places |-> IF q \in places THEN NoDocument ELSE disk[q]]
  /\ alive' = alive \ {disk[q] : q \in places}
  /\ muddled' = (muddled \/ Active # {})
  /\ UNCHANGED <<stepRef, handler, examples, meant, keptNames>>

RequestDelete(p) == Delete({p})
FolderDelete(f) == Delete({f} \X Names)

\* workflowWrite: the editor's steps, whatever the file says by now.
WorkflowWrite(p) ==
  /\ Taken(p)
  /\ stepRef' = p /\ meant' = disk[p]
  /\ muddled' = (muddled \/ Active # {})
  /\ UNCHANGED <<disk, handler, examples, alive, keptNames>>

\* exampleSave and exampleDelete: the file is read, and written back.
BeginExample(h) ==
  \/ Begin(h, "save example", "example", {}, <<"f", "a">>)
  \/ examples # {} /\ Begin(h, "delete example", "example", {}, <<"f", "a">>)

WriteExamples(h) ==
  /\ handler[h].stage = "example"
  /\ IF handler[h].does = "save example"
       THEN examples' = handler[h].view \cup {h} /\ keptNames' = keptNames \cup {h}
       ELSE \E e \in handler[h].view :
              examples' = handler[h].view \ {e} /\ keptNames' = keptNames \ {e}
  /\ Over(h)
  /\ UNCHANGED <<disk, stepRef, meant, alive, muddled>>

\* The app ends or dies: what its handlers had still to do is not done.
FilesCrash ==
  /\ Active # {}
  /\ handler' = [h \in Handlers |-> IF h \in Active THEN [handler[h] EXCEPT !.stage = "over"] ELSE handler[h]]
  /\ muddled' = TRUE
  /\ UNCHANGED <<disk, stepRef, examples, meant, alive, keptNames>>

FilesNext ==
  \/ \E h \in Handlers :
       \/ \E p \in Places :
            \/ RequestCreate(h, p) \/ CreateEnv(h, p) \/ RequestWrite(h, p) \/ WriteEnv(h, p)
            \/ WriteRequestTool(h, p) \/ ImportPostman(h, p)
            \/ \E to \in Places \ {p} :
                 \/ RequestDuplicate(h, p, to) \/ DuplicateEnv(h, p, to)
                 \/ RequestRename(h, p, to) \/ RenameEnv(h, p, to) \/ MovePath(h, p, to)
       \/ \E f \in Folders :
            \/ WriteRequestDeduped(h, f) \/ ImportOpenApi(h, f)
            \/ \E g \in Folders : FolderRename(h, f, g)
       \/ WriteNew(h) \/ Move(h) \/ LeapFails(h)
       \/ HealRead(h) \/ HealWrite(h) \/ HealFails(h)
       \/ BeginExample(h) \/ WriteExamples(h)
  \/ \E p \in Places : RequestDelete(p) \/ WorkflowWrite(p)
  \/ \E f \in Folders : FolderDelete(f)
  \/ FilesCrash

FilesSpec == FilesInit /\ [][FilesNext]_filesVars

-----------------------------------------------------------------------------
\* While handlers do not overlap, no file is lost to a create, a copy, an
\* import, a rename or a move of its folder, and an example goes only when it is
\* deleted; and a workflow's step leads to the request it was written for
\* wherever that was renamed or moved to in the app, or to none.
CollectionKeepsItsFiles ==
  ~muddled /\ Active = {} =>
    /\ \A d \in alive : \E p \in Places : disk[p] = d
    /\ examples = keptNames
    /\ meant \in alive => disk[stepRef] = meant
=============================================================================
