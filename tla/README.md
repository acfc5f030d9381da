# Freepost: a formal model

Freepost is a desktop API client (Electron) with a CLI.  A *collection* is a directory of request
files; the app sends them (HTTP, WebSocket, gRPC, MQTT, GraphQL subscriptions, MCP), runs scripts and
workflows around them, and can listen itself: a record proxy, mock servers and an MCP server for AI
clients.  This directory models that program in TLA+, model-checks the models with TLC and proves
what matters most with TLAPS.

## Inventory

Paths are under `src/src/`.

| Component (source) | State it keeps | Operations | What is hard about it | What makes it correct | Module |
|---|---|---|---|---|---|
| App record proxy (`main/record-proxy.ts`, `main/current-root.ts`) | the published run, the open root | start, stop, root change | every step is an `await`; the user acts in between | starts are atomic, stops final, traffic lands in the collection it was meant for | `AppProxy` |
| Record proxy server (`engine/record-proxy.ts`) | listeners, sockets, upstream requests, one h2 session, one cached h2 answer | start, stop, forward over h1/h2/WebSocket, probe | callbacks of two sockets in any order, a probe outliving the run it was made for | one exchange per request, a true one, nothing survives a stop | `H2Upstream`, `ForwardH1`, `ForwardH2`, `WsRelay` |
| Frame and body capture (`engine/record-proxy.ts` 112–260) | a header buffer, budgets | push, finish | chunk boundaries, two caps | the same result for every chunking | `GrpcFrames` |
| MQTT relay (`engine/mqtt-proxy.ts`) | one session per client socket, two parsers | start, stop, relay | half-closes, undecodable packets, missing DISCONNECT | one exchange per session, a true one | `MqttRelay` |
| Proxy certificates (`main/proxy-certs.ts`) | four PEM files | ensure, regenerate, export | pairs written in separate turns, rotation | usable pairs, a CA that stays | `ProxyCerts` |
| Recorded traffic (`main/recorded-store.ts`) | the file, a line count per process | append, clear | a cached count that another writer makes stale | a bounded file | `RecordedStore` |
| Record decoding (`core/record`) | none (pure) | decode | captures cut anywhere | what a cut capture shows is what the whole one shows first | `Captures` |
| OAuth browser flow (`engine/oauth.ts`) | one loopback listener and one timer per flow | start, redirect, cancel, timeout | late and duplicate redirects, exchange racing cancel | settles exactly once, listener gone afterwards | `OAuthFlow` |
| Token cache (`main/oauth-cache.ts`, `main/execute.ts`) | one JSON file per auth configuration, a session variable | read, refresh, write | two requests refreshing at once, rotation of the refresh token | a valid token is found or the user is asked | `OAuthTokens` |
| Request execution (`main/execute.ts`) | the `pm.*` session, jars, history | run one request | scripts read a copy of the session; errors in the middle | verdict, history and values sent are the execution's own | `Execute` |
| Script sandbox (`core/sandbox`) | pending promises | run a script | continuations after the outcome, a deadline | an outcome without an error is complete | `Sandbox` |
| HTTP client (`engine/http.ts`) | one request | send, redirect, time out | callbacks of several hops | one settlement, method and body kept | `HttpClient` |
| Cookies (`engine/cookies.ts`, `main/cookie-store.ts`) | a jar per collection, one file | store, send, edit, save | overlapping saves, an end in the middle of one | the file ends equal to the jar; scoping | `CookieJars` |
| Stream clients (`engine/ws.ts`, `mqtt.ts`, `grpc.ts`, `mcp.ts`, `gql-subscribe.ts`, their tabs) | a client per id, an id per tab | start, events, stop | replies and events crossing a close | a tab and its client know of each other | `Streams` |
| Spawn consent (`main/mcp-consent.ts`, `McpTab.tsx`) | approved commands | check, approve, spawn, introspect | the editor, the file and the store may differ | nothing runs without its own approval | `McpConsent` |
| Mock servers (`engine/mock-server.ts`, `main/mock.ts`, `core/mock`) | a listener per root, route tables | start, stop, answer | overlapping start and stop | one listener, stoppable; the best route answers | `MockServers` |
| Settings, open collection, MCP toggle (`main/settings.ts`, `main/current-root.ts`, `main/mcp-server/app-toggle.ts`) | one JSON file, the root, a published server | read-merge-write, open, toggle | the same windows as the proxy | nothing lost while updates do not overlap; the toggle stops what is bound | `Shell` |
| File handlers (`main/ipc-handlers.ts`, `main/env-ops.ts`, `main/mcp-server/tools.ts`) | the files of a collection | create, copy, rename, move, import, heal, examples | a look, an await, a leap | no file is lost, references follow | `CollectionFiles` |
| Command line (`cli/index.ts`) | counters, listeners | run, schema, mock, proxy, mcp | exit codes, `--bail`, a second listener that fails | the promised exit code, nothing left listening | `Cli` |
| Variables and configuration (`core/vars`, `core/config`) | none (pure) | resolve, merge | fixpoints, precedence | sent as the files say | `Variables` |
| Workflows (`core/workflow`, `core/data`, `WorkflowTab.tsx`) | steps, a run, rows | edit, save, heal, run | edits and renames during a run, rows over one session | the report tells the run | `Workflows` |
| Request file format (`core/format`) | none (pure) | parse, write | quoting, comments, flags | a rewrite keeps what the file says | `RequestText` |
| Window and tabs (`App.tsx`, `state.ts`) | tabs, dirty flags, dialogs, loads | open, edit, save, close, quit, tree operations | everything awaits while the user goes on | edits are lost by choice only | `Workbench` |
| Request editor (`RequestTab.tsx`) | the form, the raw draft | fill, edit, assemble, save | every mode's fields live side by side | what nobody touched stays | `RequestForm` |
| Environment manager (`EnvironmentManager.tsx`) | one editor over many files | select, edit, save, rename, delete | replies for a selection that has changed | the rows are the selected file's | `Environments` |
| Importers, codegen, specs, search, GraphQL operations, cookie formats (`core/*`), spec store | none | text to text | text | round trips | none |

How they interact.  The renderer calls the main process over IPC; each handler runs on one event loop
and is interrupted only at its awaits and between events, which is the granularity of every model
here.  The main process drives the engine (which knows no Electron) and shares with the CLI, a second
process, the files under a collection's `.freepost/`: recorded traffic, history, cookies and tokens.
`setCurrentRoot` calls back whoever depends on the open collection.  The engine's servers and clients
report by events, which is where the order of things is least controlled.

The hazards, line by line and with the properties that watch them, are in `PROJECT.json`.

## How the project is laid out

One module per component, with its own `...Init`, `...Next` and property, and an `MC...` module where
TLC gives the constants their values.  `OneExchange` is an abstract specification that five modules
implement: whatever is taken gives one result, never a second and never an amended one, "whichever terminal
event fires first".  `ForwardH1`, `ForwardH2`, `WsRelay` and `MqttRelay` implement it with an exchange
of the record proxy, `OAuthFlow` with the call of `onSettled`, each by other means.

Seven instances have a run of their own.  The others are taken together in two modules:

- `MCMain`: `Execute`, `HttpClient`, `CookieJars`, `Streams`, `McpConsent`, `MockServers`, `Shell`,
  `CollectionFiles`, `RecordedStore`, `MqttRelay`, `ProxyCerts`, `Cli`, `Environments`;
- `MCEditor`: `Sandbox`, `Captures`, `GrpcFrames`, `Variables`, `Workflows`, `RequestText`,
  `RequestForm`, `Workbench`.

Their variables are disjoint, and `part`, chosen in the initial state, names the component whose
actions a behaviour takes.  So these runs explore one component after the other; they do **not** show how the
components interleave with each other.  Where components do meet in the code, the module itself has the
other side in it: `CookieJars`, `RecordedStore` and `OAuthTokens` have the CLI as a second process, `Shell` has
the open collection with what depends on it, `McpConsent` the editor with the file and the store, `Streams` the
tab with the registry and the client, `Workflows` the tab with the file, the runner and the session,
`AppProxy` the MQTT relay and the HTTP server.

Proofs are in modules of their own.  Five components have one each (`AppProxyProofs`, `ForwardH1Proofs`,
`ForwardH2Proofs`, `OAuthFlowProofs`, `OAuthTokensProofs`); three modules have a section for each of the others:
`TrafficProofs` for what sends and records, with `MockServers` and `GrpcFrames` and the lemmas on induction and
lists that the others cite, `AppProofs` for the app's own state, its windows and the relay of WebSockets,
`EditorProofs`, which extends `TrafficProofs`, for what is read, written and computed around a request
(`Captures`, `Workflows`, `Variables`, `RequestForm`).

A definition whose comment begins with "Variant" is not part of any specification: it is the
definition below it with a plausible mistake, kept to show that the properties notice it.

## The modules

### AppProxy (`main/record-proxy.ts`, `main/current-root.ts`)

A call of `startAppProxy` is a process, and `pc[c]` is the await it is suspended at: the settings
(`SettingsRead`), the certificates (`CertsReady`), the plain bind (`HttpListen`), the TLS bind
(`TlsListen`) and its rollback (`TlsUndone`), the MQTT bind (`MqttListen`) and its rollback
(`Undone`), and the settings write after publication (`Persisted`).  `running` is the module variable of
that name, `up[c]` the listeners of the servers the call built, `conns[c]` the servers of it that have
a client.  A stop (`UserStop`, or `SetCurrentRoot` when it finds another root) clears `running` and
then waits in `halt[c]` for the HTTP server and for the relay.  Connections are counted as present or
absent, one for each server, which is what the waits depend on.

### H2Upstream (`engine/record-proxy.ts` 389-407, 543-668)

`h2Support` is the cached answer, `h2Probe` the shared promise, `h2Upstream` the shared session;
probes outlive the promise, so each is a process with its phase, its target and the run it began in.
`run` counts starts (bound: `MaxRuns`).  `stray` remembers that the answer was written by a probe or
a session of another target, `orphaned` that a probe of an earlier run settled in this one: its `.finally` clears the
field whichever probe it names by then, so that the next stream dials a second one.

### ForwardH1, ForwardH2, WsRelay (`engine/record-proxy.ts` 441-540, 670-840, 848-1011)

One variable per leg: `client`, `upstream` (for `WsRelay`, `target`), and `sink`, how much of the
answer was handed to the client.  Every terminal event of the code is an action of its own (an error
before the answer, a cut in the middle, the end, the client's close, the full preview of an event
stream, a refusal, either leg's close), and all of them end in `Emit`, the guarded emission of the
code.  The last argument of it, the exchange, keeps what the properties tell apart: status class,
whether it is partial, whether it is errored.  Bodies, headers and frames are data.  `doomed` are the requests
that `stop()` has destroyed but whose events are still to come.

### OAuthFlow (`engine/oauth.ts` 285-420, `main/ipc-handlers.ts` 1251-1296)

A flow has a listener, a timer, a place in the registry and tabs: requests to its listener, which may
be strays, failed redirects or redirects with a code, several of them with the same one.  `Grant` and
`Deny` are the provider, which exchanges a code once.  `Finish` is `finish`, with the `onSettled` of
the handler.

### OAuthTokens (`main/execute.ts` 137-206 and 907-929, `main/oauth-cache.ts`)

Executions in the app share its session; executions by the CLI have an empty one and the same cache
file.  A file is written in two steps (`Truncate`, `Put`), each of which can fail or be cut by a
restart.  The provider rotates refresh tokens or not, and then accepts the last one only.  `warm`,
`stale` and `mishap` are history: who got its token from the session, who chose one that had expired,
and whether an answer of the provider or a write was lost.

### GrpcFrames, Captures (`engine/record-proxy.ts` 112-260, `core/record`)

`GrpcFrames` pushes a stream in chunks of every size to a capture and a tee.  `Turn` is a turn of the
loop of `push` (header bytes collected, then payload), `Push` repeats it.  The property compares with the
whole stream: `Frames` gives each frame's place in it, `Shown` what is to be shown of a frame when so many bytes
have passed.  A byte is its value, up to `MaxByte`; header and caps are constants (2 bytes for the 5 of the code).
`Captures` grows a token stream of one of four kinds and compares each prefix with the next.  The loops of the decoders are
recursive functions of the number of turns (`ReadLines`, `Parsed`, `CharacterStarts`), nesting one of the levels that are
left (`PayloadKinds`), so that what they compute can be proved.  A preview has room for a character (`PreviewCap` is at
least 4, the longest one UTF-8 has; `WS_PREVIEW_CAP` is 2048).

### MqttRelay (`engine/mqtt-proxy.ts`)

Two sockets for each session, either of which may end or fail; `dead` are the decoders that gave up,
`goodbye` the DISCONNECTs that were decoded, `sent` those that were sent.  `ClientClose` emits.

### RecordedStore (`main/recorded-store.ts`)

The file is its number of lines.  The calls are synchronous, so a process is interrupted only between the
system calls of an append (`at`): the other process acts there.  A process may come up anew,
with no count.  `share` is what a process answers for, `mishap` that a trim failed or was cut by a crash, after which the
code promises nothing.

### ProxyCerts (`main/proxy-certs.ts`)

Calls of `ensureProxyCerts` and `regenerateProxyCa`, one step for each file read or written; a key is
named by the call that made it, a certificate by key and signer.  The app may die, certificates expire.

### Execute, HttpClient, CookieJars (`main/execute.ts`, `engine/http.ts`, `engine/cookies.ts`)

`Execute`: an execution is at one of its awaits (`stage`), works from its copy of the session
(`sessionObj`) and writes back.  Its scripts, its send, jar, tests, history and each error path are in the
order of the code, for the four kinds of request.  `HttpClient`: one `sendHttp` over the callbacks of its hops.
`CookieJars`: the jar as a set of cookies with identity, scope and expiry; `save` is a whole-file write
in two steps.

### Streams, McpConsent (`main/ipc-handlers.ts` 540-830, the tabs, `main/mcp-consent.ts`)

`channel` holds replies and events in the order they were sent; the tab knows a client only by the id in
the reply (`idRef`).  `raced` are calls that a close, a stop or a second press overtook.  `McpConsent`
keeps apart what the tab holds, what the file holds and what was approved, and has every way to a spawn.

### MockServers, Shell, CollectionFiles

A call suspended at an await is a process; `overlapped`, `spoiled` and `muddled` record that two met,
because the code has no lock and its promises hold without overlaps only (see below).
`MockServers` builds its tables from request files (`MockedFiles`) with wildcards, examples and specs, and answers
every path of up to `MaxSegments` segments, two of each in the run; the stable sort of the table is the order
`Before`, in which a request's place is its `Rank`.
`CollectionFiles` names a document by the handler that made it, so that losing one shows.

### Cli (`cli/index.ts`)

One invocation: its command and flags, the items and steps left, the counters and the exit code.
`wrong` is what the exit code has to tell of.

### Sandbox (`core/sandbox/index.ts`)

`calls` are the `pm.test`s and `pm.sendRequest`s made; `open` have not settled, `owed` have settled
but their continuation has not run.  `settlePending` waits in rounds (`batch`), against the deadline.

### Variables, Workflows, RequestText

`Variables`: `resolveVars`, `substitute` and the merge of configuration (`AddConfig`, a level at a time) as operators,
compared with expansion by reachability and with the nearest level that says something.  What the names refer to each
other by is an order (`Acyclic`), as without a cycle it is one.  `Workflows`: the rows of
the tab, the file, its healing, the run and the rows of its data file: none, the records of a CSV, which a reader
takes a character at a time (`CsvTurn`), or a JSON array.  `DataFiles` are the files a run can be given.
`RequestText`: lexer, body parser, the flags of each command and the writer, over texts that grow by a token.

### Workbench, RequestForm, Environments (`renderer/`)

`Workbench` has the reducer's state and the calls that have not returned (`saves`, `treeLoads`,
`fileOps`), and of the quit under way which tabs `saveDirtyTabs` has still to save (`quitQueue.left`); a text is a number, so that one which never reached the disk can be told (`lost`).
`RequestForm` has `populate`, `assemble`, the raw pane and the save; `touched` are the sections edited
since the form was filled.  Its filters are lists joined from what is kept of each element, and the headers by name
(`ByName`) a recursive function.  `Environments` has the one editor with its pending reads, saves and file
operations; `slips` are results that came back to another selection.

## Runs

| Run | Bounds | What it shows |
|---|---|---|
| `proxy` | 2 starts, 2 collections, 1 set of ports | a start that fails leaves nothing, a stopped run is silent for good, no listener is forgotten, traffic lands elsewhere only after a switch during the start, and starts and stops settle whatever the clients do |
| `proxy_switch` | 1 start, 2 collections | **violated**: `RecordsIntoOpenCollection` |
| `h2` | 2 targets of which one speaks h2, 2 runs, 3 streams, 3 probes | a wrong answer is only ever a leftover of another target, probes are shared unless an earlier run's has cleared the field, an answer stays but for stray ones, whoever asked is dispatched |
| `fwd_h1` | 2 requests | refines `OneExchange`; nothing that ended is unrecorded; a clean record is of a clean response; what is delivered, and what is in flight at a stop, gets recorded; a stop resolves |
| `fwd_h2` | 2 streams | refines `OneExchange`; success means a whole response and a good status wherever it was sent |
| `ws` | 2 upgrades | refines `OneExchange`; an established session is recorded; sessions end once and both legs together |
| `oauth_flow` | 2 flows, 2 tabs each, port pinned or not | refines `OneExchange`; over means clean; flows end, and signed in means granted |
| `oauth_tokens` | 2 executions in the app, 1 in the CLI, 1 sign-in | the cache stays refreshable; only the session hands out expired tokens |
| `oauth_tokens_stale` | the same | **violated**: `SendsFreshToken` |
| `main` | below | one property for each component of `MCMain` |
| `editor` | below | one property for each component of `MCEditor` |
| `tab_edits` | 1 load, 2 edits | **violated**: `ClosingPromptsFirst` |

Why the bounds are enough to be interesting.  Requests, streams, upgrades, flows and executions of one
module interact only through the server's phase, a shared session, a shared port, the session
variable or the cache: two of each give every pair of positions, and the third writer of
`oauth_tokens` is the process that does not share the session.  Two starts give the overlap; a third
would find `running` or the ports taken as the second does.  Two runs with a target each are what a
leftover needs, and three probes what it takes for one of the first run to clear the field of the second:
two had hidden that until a proof failed for it.

`main`: two of everything that can overlap (executions, saves, calls for a client, spawns, mock
starts, toggles, updates, handlers, sessions, certificate calls), one script a phase, two redirects
(`MAX_REDIRECTS`, 10 in the code), one tick of the clock, `RECORDED_CAP` 1 with a line found and `MaxLines` 7, which is above the
bound the property states (5), two items and steps of an invocation.  `Environments` has two names, one edit and one
file operation, since an edit and an operation of one file against another is where they cross, and
`BeforeSlips` cuts its states at the first overtaken continuation: `EditorShowsItsOwnFile` speaks only of states before
one.  (What takes two operations, a copy that comes back to an editor showing its name already, is excepted
by the property and covered by its theorem, not by the run.)  `editor`: three calls of a script, captures of 6 and streams of 7 bytes with caps of 3 and 4, three
variables in a chain and two levels, two steps and rows, texts of 4 or 5 tokens (`TypedBound` for each kind), two edits of a
form, one edit of a tab against two loads or tree operations.

Deadlock is not checked: in every model users and clients may stop doing anything, and everything
used up is a proper end.

Types are part of `ProbesTellTheTarget` and of other properties where they matter, and are proved for
every module that has proofs.

### Fairness

Only what the runtime does by itself.  `AppProxy`: a resolved promise is continued, and the
half-second timer of a stop fires; users and clients owe nothing.  `H2Upstream`: the two-second timer of a
probe and the stop's timer.  `WsRelay`: a leg that has begun to close is closed by the timer of the `ws`
library, a terminated dial says so, the stop's timer.  `OAuthFlow`: the flow's timer, nothing else,
so that `FlowsEndWell` holds though nobody signs in and no provider answers.  `ForwardH1` is the one exception: besides the
runtime's events its target is assumed to answer a request it has received whole, or to fail, and to
get on with its answer, since the proxy has no timeout of its own and waits for it for ever (as a
transparent proxy may).  The other modules state safety only.

## Disagreements between the code and what it says

Three have a run, with a trace of a few steps.

- `proxy_switch`.  A collection opened while a start is suspended goes unnoticed, because the listener
  of root changes looks at `running`, which is set after the awaits (`main/record-proxy.ts:259`).
- `oauth_tokens_stale`.  A token in the session is used for as long as the app runs, whatever its
  expiry (`main/execute.ts:187`).
- `tab_edits`.  What is typed while a save of its tab is awaited is marked clean when the save returns, and
  closing the tab then drops it without a question (`RequestTab.tsx:667`).

The others were met while modelling.  Where a property would fail for them, it names the exception
(`overlapped`, `spoiled`, `muddled`, `crossed`, `raced`, `slips`, `stray`, `orphaned`, ...), so that it says what holds besides.

Record proxy:

- `start()` does not forget the shared h2 session, and `stop()` lets a stream that arrives during its wait
  open a new one, so the next run can send its requests to the old target (`engine/record-proxy.ts:549`; 682 says
  "Always the configured target's").  A probe that settles after a restart writes its answer for the new target, and its `.finally` makes the new run forget the
  probe it has in flight (614).
- A response cut in the middle is recorded, but its client is never told (534).  An upstream stream that closes
  with neither an error nor an end is noticed by nobody until the client gives up (786; compare `docs/help/proxy.html:47`).
  A client that leaves before the response head is noticed by nobody (536); an error status whose client
  leaves before the end is recorded without `errored` (538).  A WebSocket client that drops while the target is
  dialed leaves no exchange (954).
- Two starts that overlap and ask for *different* ports both succeed, and the second takes `running`
  from the first, whose listeners nothing can stop any more (`main/record-proxy.ts:145`): give
  `MCAppProxy` two `Ports` and `ListenersAccountedFor` fails.

Sign-in and tokens: a sign-in with an unusable `authUrl` is rejected but holds its port, and reports
again, until its timer fires (`engine/oauth.ts:414`); the second tab's refused exchange can fail a
flow that was granted (387); an execution that began before a sign-in can put the older token into the
session after it (`main/execute.ts:196`).

Stores and handlers, all for want of a lock: overlapping mock starts orphan a listener (`main/ipc-handlers.ts:1077`);
overlapping settings updates lose one (`main/settings.ts:65`); overlapping creates replace a file (1518); overlapping example
edits undo one (1036); a line appended during the other process's trim is lost (`main/recorded-store.ts:60`), and a torn line empties the
list, since all lines are parsed in one `try`.  The MCP server serves the old collection when it was switched
during its start (against `current-root.ts:6-8`).  `move_path` heals no workflow step; a rename leaves
the examples sidecar behind; healing swallows write errors.

Clients: a client overtaken in its start outlives its closed tab (`McpTab.tsx:175`); `sendGrpcUnary`
"Never rejects" (`engine/grpc.ts:189`), but does when the service constructor or the metadata throw; an
MQTT publish hangs when the broker closes silently; the steps of a workflow pass no spawn gate (compare
`main/mcp-consent.ts:6-7`), and `run_request` reads the file a second time after the check.  In the HTTP client a
proxy that hangs up on CONNECT, or a broken gzip body, is ended by the timer only.  An active example is
not always served by the mock server (`TEST_PLAN.md:67`).

CLI and workflows: with `--reporter json` a failed request does not change the exit code, since totals
are kept for the human reporter only (`cli/index.ts:818` and 841 against 31–32); `--bail` ignores a failed
pre-request assertion; a workflow's `dataFile` is ignored; JSON data rows leave the keys of the row before in the
session; a `\r` inside a quoted CSV field is stripped; "the n-th progress event maps to the n-th step" (`WorkflowTab.tsx:105`) is not
so for data-driven runs.

Files and variables: `writer.ts:31` double-quotes every value with `${`, also one whose reference never ends, so such a
word is accepted and rewritten unparsable (against `PLAN.md:191-192`); `${A:-"x"}` gains backslashes;
`mosquitto_sub` with `-m` is rewritten without the message; a derived value keeps `${B}` when B is a
blank row (`core/vars/index.ts:5-7`); `varContext.ts:82-95` ranks session over environment over declaration, its comment
otherwise; an environment named `x.local` becomes a secret one (`main/env-ops.ts:22`).

Editor: a rename or move closes dirty tabs without a question, and a save in flight recreates the old file
(`App.tsx:324`); an older collection load that returns last switches the window back (119); a quit dialog cancelled during
Save All still closes the window; a click beside a confirmation cancels it while it is busy
(`ConfirmModal.tsx:23`).  In the request form, Form→Raw→Form drops a secret's typed default; method and URL edits are lost in raw mode; a raw body that begins with
`@` is written as a file; a file with both `--user` and a Bearer header loses the header on save; `tokenName` is
lost after a save in another auth mode.  In the environment manager, a selection whose read is pending still shows the
previous rows, and Save writes them to the other file; a save or rename that returns to another selection
mixes their rows; the bulk view opened during a read is empty, and so is the file after its Save; bulk editing mangles values of
several lines, names with `=` and a leading `#`; operations and Close drop unsaved edits without the Discard prompt; a
copy that comes back to an editor already on its name (a deleted file still listed, and shown empty) leaves it
empty over the filled file, since `setSelected` of the same path reads nothing (`EnvironmentManager.tsx:289`).

## Proofs

All theorems are for any sets of calls, requests, flows, tabs, executions and so on, finite or not, and
for any bound on what the runs bound.  The assumptions are the `ASSUME`s of the modules (that the model values
differ, that a bound is a number), and `OnePort` where it is named.

None of the properties is inductive.  What each needs besides is what somebody in the middle of
something still owes:

- **AppProxy.**  That a failed start left nothing depends on what
  each rollback still has to undo.  `Lifecycle` says it for every await: which listeners a call has
  there, and when it cannot have clients (`StartPhase`, `StopPhase`).  It is inductive with `TypeOK` and gives
  `StartAtomic` and `StopFinal` for any ports.  `OneProxy` and `RecordsInPlace` need, as the code does, that every start asks for
  the same ports (`OnePort`): then a bound port excludes a second call beyond its bind (`Single`),
  the root a call holds is the open one unless it was switched under it (`Bound`), and nothing is
  recorded elsewhere but after such a switch.
- **H2Upstream.**  `ProbesDated`: a probe that asks was dialed for a target, in this run or an earlier one.
  `OwnProbeIsShared`: while the run has not been made to forget it (`orphaned`), the probe that asks for this run is the one in the
  field.  With them `ProbesTellTheTarget` holds for any number of probes (`TargetIsTold`), and what was learnt stays, but
  for stray answers (`AnswerStays`).  The attempt to prove both without those exceptions failed for a good reason: see
  above.
- **ForwardH1, ForwardH2.**  `Progress` ties the request's phase to what can have been answered and emitted
  (nothing before the answer; no exchange without its emission).  With it the invariants are inductive, and each
  step changes the exchange of the requests it concerns once or not at all: that is the refinement of
  `OneExchange` (`ImplementsOneExchange`).
- **WsRelay.**  `Progress` says that an upgrade gives nothing while its target is dialed or refuses, nor a wired
  session while both legs are open.  A stop ends many sessions in one step, so the lemma about `Emit` is about a set
  of them; with it every step gives exchanges only to sessions that had none, and a clean one only to a session
  no leg of which had failed: `EstablishedIsRecorded`, `CleanSessionDidNotFail` and the refinement of `OneExchange`,
  the last two being parts of `SessionsEndOnce` in the run `ws` (its other two parts are only model-checked).
- **MqttRelay.**  `RelayInv` says that the close of the client's socket, and nothing else, gives the exchange; that what
  was sent was decoded unless the decoder was dropped (`GoodbyesFollowed`); and that a stopped relay has no session left
  (`Drained`).  It gives `RelayKeepsItsPromise`, the refinement of `OneExchange` included.
- **OAuthFlow.**  `Sane` adds to the invariants that a flow not yet bound owns nothing, that `told` counts
  what `settled` says, and where a code can come from (`Traced`): only a flow whose browser was opened has
  one, and one that was granted is spent.  All settling goes through `Finish`, so one lemma
  (`FinishSane`) serves redirect, exchange, timer, error and cancel.
- **OAuthTokens.**  A refresh with rotation makes the cached refresh token useless in the step that
  obtains the new one, so `CacheStaysRefreshable` has to follow the new one to the file: what is on its
  way is accepted (`Carried`), because nobody can have used what was never in the cache (`Unseen`), and
  a cache that is torn or superseded has somebody on the way to it (`OnItsWay`).
- **RecordedStore.**  The file's length is not bounded by either count, each of which misses the
  other's lines.  `Covered` says that every line was found or is answered for by one of the two (`share`, or
  the count an append is about to store), `Accounted` that outside a trim nobody answers for more than twice the cap;
  together they are inductive (`StoreInv`) and give `StoreStaysBounded` for every cap.
- **Execute.**  `ViewsAreOwn`: an execution that has not written sees what it copied when it began, one that has sees
  its own writing, and what it sends is that.  `LinesAreTrue` and `SentAreLogged` tie the history to who was sent and is over.
- **HttpClient.**  `Chained`: each hop is what the first request and the statuses between make of it, for the whole list.
  `Awaited`: callbacks of a hop are awaited only while the promise is open, and a redirect that is followed has a hop to go.
- **CookieJars.**  `SaveIsOnItsWay`: as long as no two saves have met, there is one at most, and what it has still
  to write, or has written, is the jar but for what has expired since.
- **ProxyCerts.**  While calls have not met and none has died, there is one (`Untangled`), and `Progress` says for each file it
  reads or writes which of the four on disk can be trusted then; `CaKept` follows an installed CA through them.
- **Streams.**  The replies and events in the channel are still to be believed when they are read.
  `MessagesAreTrue` says so of each, by what follows it in the channel; `AnsweredOnce` that nobody is answered
  twice; `IdIsFollowed` that a client the tab holds is alive or its end is on its way; `NotOvertaken` that a call not in
  `raced` is alone, and its client cancelled or held.  Taking the first message shifts all of them: one lemma
  (`MessageTaken`).
- **McpConsent.**  `GateHolds` says what a spawn that has passed the gate has in hand: the command that was approved, or, for
  a tool, the file as it is until somebody edits it.
- **MockServers.**  The ranks of a finite set of requests have no gaps (`Ranks`), so the table holds each of
  them once and in the order `Before` (`TableOrdered`), and the first route that matches is the best (`FirstMatch`,
  `TableFinds`).  A specification left out of its table has one before it of the same shape.  While calls have
  not overlapped there is one, and whoever listens is in the registry or is being stopped.
- **GrpcFrames.**  `ParsedTo(c, t, p)` says of a capture that has walked p bytes of the stream t where in
  which frame it is (`Located`) and what it has kept (`Kept`).  There is one lemma for a turn over a header, one for a turn over
  payload; what comes later in a stream moves no frame whose header was there (`FramesStay`).  `Push` and
  `Frames` are recursive functions; the library's induction over them takes an operator, but its theorem that
  `<` is well-founded is about a set of pairs: it gives a least element (`LeastOf`), hence an induction over a set
  of numbers (`Induction`) and the values of a recursive function (`Recursion`).  `FramesRight` is for any
  length of the header, caps, bytes and streams.
- **Captures.**  A decoder over a text and the same decoder over what is left of it after a cut are followed side by side:
  they agree until the first turn that looks beyond the cut, and from there the cut one rests.  For event streams
  that is the last line, which is only dispatched when its end is there; line ends are one by following the reader
  and `Unix` together.  A field of a protobuf message that was read before the cut reads the same, whatever
  a payload is (`kindOf`), so that nesting needs no induction.  A text that is cut inside a character is whole up to
  where the character began, which is at most three bytes back.  `CutCapturesAreRead` is for any length and any of the
  three bounds, and with `FramesRight` gives `CapturesTellNoLies`.
- **Workflows.**  The reader of CSV is a recursive function over the characters; after the delimiter or the line end that follows
  a cell its state is that of a reader who has taken just those cells, so a row is its record.  Of a run the invariant says that it is
  at a row of its file and among its steps (`AtARow`, `AmongSteps`), that the rows that were reported tell theirs, the one in progress
  as far as it got (`ReportsTell`), and that one which is over has nothing left (`RunIsOver`).
- **Variables.**  The passes over the declared values follow each other (`PassesFollow`); each settles the names whose
  references are settled, and as the references are an order, as many passes as there are names settle all (`PassesSettle`).
  Headers are put one at a time and levels joined one at a time: what was gathered so far holds each name once, as the
  nearest level that was read says it (`Gathered`, `ResolvedDownTo`).
- **RequestForm.**  `Untouched` says of each section that nobody edited what the form must still show of the file, in
  whatever mode; `GoodModel` what a file has in common with a form that was assembled (headers once by name,
  one bearer, one kind of body).  What is kept of a list by two filters that exclude each other is the list again
  (`PlainIsPicked`, `HeadersAre`), which makes `FilledSaysTheSame` true: a form that is filled and assembled says what
  the file said.
- **Shell.**  `StartsFit`: a start that was not overtaken is for the open collection, before it is up and after.
  `OneUpdate`: while updates have not met, the one in progress has the file to itself.
- **CollectionFiles.**  What a handler has looked at is still so when it leaps (`LookHolds`), as long as no two have met;
  `StepLeads` says where the step's document is, while the step is healed and otherwise; a new document's name is nobody's
  yet (`DocsAreOld`).
- **Cli.**  `TotalsTell`: while items are run, the failures counted for the human reporter tell whether there was anything
  wrong, and an invocation that serves counts none; nothing listens before it binds.
- **Sandbox.**  `ResultsFollow`: what a test is reported as is what it came to, or a pass while it is open; `NothingOutstanding`
  is what an outcome without an error has to have waited for.
- **Environments.**  `ManagerHolds`: once it was read, what the editor shows is the selected file's and was filled with what is
  in it, and the only read that still counts is the selected file's.  `CallsHold` says what a save or an operation that comes back can still change.  The attempt turned up a copy that
  returns to its own name (above), which the run's single operation could not.
- **Workbench.**  `TabHolds`: a text that is on no disk makes its tab dirty, or was typed while a save was under way.  `SaveFits`: a
  save under way writes what its tab holds unless something was typed since, or was started by an earlier editor of its file.  `QuitHolds`:
  while `saveDirtyTabs` has met no failure, a tab it will not save needs no saving, so that closing the window loses nothing.
  A tab that closes moves the others up (`RemoveAtProperties`).  The attempt found the model wrong: a save that failed as its tab
  closed left the mark of another editor's save on the tab; it now goes with the save, as in the code.

`PublishedServesAll` (part of `StartAtomic`) and `ClosedIsRecorded` (part of `ForwardH2Proofs!RecordsAreTrue`) are proved
and have no run of their own.

Only model-checked: every liveness property (and with them the fairness), and `RequestText`, whose lexer and parsers are
declared `RECURSIVE` over the text and whose writer sorts: what they compute for every text is an induction over data, for
which the library's theorems take an operator that no installed prover can be given.

## Not modelled

The parts with status `not_modelled` or `partly` in `PROJECT.json` say there what is missing.  Not modelled at all are the importers, code
generation, specifications, search, GraphQL operations, cookie formats and the spec store: they turn one text into another
without state or order, and a model of one would repeat it character by character.  Of the modelled
parts: header rewriting, bodies and previews of exchanges (data to their properties), the PKCE and token
requests of OAuth, the contents of a report, generated mock bodies, YAML and `.env` texts, React layout and the panels that only show, and everything the
libraries `http`, `http2`, `ws`, `mqtt`, the MCP SDK and Electron do beyond the events the code listens to, which are
actions that may happen at any time.

Out of reach of the tools: liveness and `ENABLED` in proofs, and what a recursive operator computes for every input
(`RequestText` is therefore checked over bounded texts; the recursion of `Captures`, `GrpcFrames`, `Workflows`, `Variables` and
`RequestForm` is over numbers, in recursive functions, and proved about).

## What could come next

`RequestText` with recursive functions over positions in place of its recursive operators, as in `Captures`, and a proof that a rewrite keeps
the file; `Execute` composed with `Workflows`; the modules of `MCMain` that share files (`CollectionFiles`, `McpConsent`,
`MockServers`) composed over one disk, which needs their state spaces reduced first.
