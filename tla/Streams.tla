------------------------------- MODULE Streams -------------------------------
(***************************************************************************)
(* The long-lived clients: WebSocket connections, gRPC streams, MQTT       *)
(* subscriptions, MCP sessions and GraphQL subscriptions.  A tab of the    *)
(* renderer asks the main process for one, knows it by the id in the       *)
(* reply, and follows its events; the main process keeps it in a registry  *)
(* under that id (main/ipc-handlers.ts) until the client (engine/ws.ts,    *)
(* grpc.ts, mqtt.ts, mcp.ts, gql-subscribe.ts) is over.  Replies and       *)
(* events come to the renderer in the order they were sent; the tab may be *)
(* closed, or its button pressed again, while a reply is under way.        *)
(***************************************************************************)
EXTENDS Naturals, Sequences, FiniteSets

CONSTANTS
  StreamKinds,   \* kinds of tabs to consider
  Calls,         \* bound: presses of the button that starts a client
  NoCall         \* the tab holds no id

ASSUME StreamAssumption ==
  StreamKinds \subseteq {"ws", "grpc", "mqtt", "mcp", "gql"} /\ NoCall \notin Calls

VARIABLES
  streamKind,   \* the kind of the tab
  call,         \* [Calls -> ...] how far a request for a client has come
  stream,       \* [Calls -> ...] the client in the main process
  registry,     \* wsClients, grpcStreams, mqttSubs, mcpSessions, gqlSubs
  channel,      \* replies and events on their way to the renderer
  cancels,      \* calls whose cancellation is on its way to the main process
  idRef,        \* the id the tab holds
  shown,        \* what the tab shows: "idle", "pending" or "live"
  tabOpen,      \* the tab is mounted
  raced,        \* history: calls overtaken by a close, a stop or another call
  unheard       \* history: calls whose error was sent before their id

streamVars == <<streamKind, call, stream, registry, channel, cancels, idRef, shown, tabOpen,
                raced, unheard>>
mainSide == <<stream, registry>>
tabSide == <<idRef, shown, tabOpen>>

Live(c) == stream[c] \in {"connecting", "open"}
Asked == {c \in Calls : call[c] \in {"consent", "asked", "handled"}}

StreamInit ==
  /\ streamKind \in StreamKinds
  /\ call = [c \in Calls |-> "unused"]
  /\ stream = [c \in Calls |-> "none"]
  /\ registry = {} /\ channel = <<>> /\ cancels = {}
  /\ idRef = NoCall /\ shown = "idle" /\ tabOpen = TRUE
  /\ raced = {} /\ unheard = {}

Tell(what, c) == channel' = Append(channel, <<what, c>>)

-----------------------------------------------------------------------------
\* The button is there while nothing is shown to run; a WebSocket tab and a
\* GraphQL one show at once that something is pending, an MCP tab after the
\* check of consent, a gRPC and an MQTT tab when the reply is there.
Press(c) ==
  /\ tabOpen /\ shown = "idle" /\ call[c] = "unused"
  /\ call' = [call EXCEPT ![c] = IF streamKind = "mcp" THEN "consent" ELSE "asked"]
  /\ shown' = IF streamKind \in {"ws", "gql"} THEN "pending" ELSE shown
  /\ raced' = IF Asked \cup {idRef} \subseteq {NoCall} THEN raced ELSE raced \cup Asked \cup {idRef, c}
  /\ UNCHANGED <<streamKind, mainSide, channel, cancels, idRef, tabOpen, unheard>>

\* withSpawnConsent: consent is not needed, was given, or is refused.
Consent(c) ==
  /\ call[c] = "consent"
  /\ \/ call' = [call EXCEPT ![c] = "asked"] /\ shown' = "pending"
     \/ call' = [call EXCEPT ![c] = "over"] /\ UNCHANGED shown
  /\ UNCHANGED <<streamKind, mainSide, channel, cancels, idRef, tabOpen, raced, unheard>>

\* The file cannot be read or parsed, a variable is unresolved, no consent.
RefuseStream(c) ==
  /\ call[c] = "asked"
  /\ call' = [call EXCEPT ![c] = "handled"]
  /\ Tell("rejected", c)
  /\ UNCHANGED <<streamKind, mainSide, cancels, tabSide, raced, unheard>>

\* The client is registered, and started; all but the MCP handler reply at once.
StartStream(c) ==
  /\ call[c] = "asked"
  /\ call' = [call EXCEPT ![c] = "handled"]
  /\ registry' = registry \cup {c}
  /\ stream' = [stream EXCEPT ![c] = "connecting"]
  /\ IF streamKind = "mcp" THEN UNCHANGED channel ELSE Tell("reply", c)
  /\ UNCHANGED <<streamKind, cancels, tabSide, raced, unheard>>

\* It throws as it is started (a bad URL, metadata or CA file): it stays
\* registered, and the tab learns of the error from the rejection.
StartThrows(c) ==
  /\ call[c] = "asked" /\ streamKind \in {"ws", "grpc", "mqtt"}
  /\ call' = [call EXCEPT ![c] = "handled"]
  /\ registry' = registry \cup {c}
  /\ stream' = [stream EXCEPT ![c] = "dead"]
  /\ Tell("rejected", c)
  /\ UNCHANGED <<streamKind, cancels, tabSide, raced, unheard>>

\* A gRPC stream over protos that do not load, or a method that is not there or
\* does not stream: the error is an event, and it goes out before the id.
StartEmitsError(c) ==
  /\ call[c] = "asked" /\ streamKind = "grpc"
  /\ call' = [call EXCEPT ![c] = "handled"]
  /\ channel' = channel \o <<<<"error", c>>, <<"reply", c>>>>
  /\ unheard' = unheard \cup {c}
  /\ UNCHANGED <<streamKind, mainSide, cancels, tabSide, raced>>

-----------------------------------------------------------------------------
\* Connected, and subscribed or introspected.
Opened(c) ==
  /\ stream[c] = "connecting"
  /\ stream' = [stream EXCEPT ![c] = "open"]
  /\ CASE streamKind = "mcp" -> Tell("reply", c)
       [] streamKind \in {"ws", "mqtt"} -> Tell("open", c)
       [] OTHER -> UNCHANGED channel
  /\ UNCHANGED <<streamKind, call, registry, cancels, tabSide, raced, unheard>>

\* An error is the end of a gRPC stream and a GraphQL subscription; a socket
\* and a subscription of MQTT close after it.  An MCP session that cannot be
\* opened is rejected.
StreamFails(c) ==
  /\ Live(c)
  /\ CASE streamKind \in {"ws", "mqtt"} ->
            /\ stream' = [stream EXCEPT ![c] = "failing"]
            /\ Tell("error", c) /\ UNCHANGED registry
       [] streamKind = "mcp" ->
            /\ stream[c] = "connecting"
            /\ stream' = [stream EXCEPT ![c] = "closed"]
            /\ Tell("rejected", c) /\ registry' = registry \ {c}
       [] OTHER ->
            /\ stream' = [stream EXCEPT ![c] = "closed"]
            /\ Tell("error", c) /\ registry' = registry \ {c}
  /\ UNCHANGED <<streamKind, call, cancels, tabSide, raced, unheard>>

\* The end: the peer's, the one after an error, the one after a close of ours.
StreamEnds(c) ==
  /\ stream[c] \in {"failing", "closing"} \/ stream[c] = "open"
       \/ (streamKind \in {"ws", "mqtt"} /\ stream[c] = "connecting")
  /\ stream' = [stream EXCEPT ![c] = "closed"]
  /\ registry' = registry \ {c}
  /\ Tell("closed", c)
  /\ UNCHANGED <<streamKind, call, cancels, tabSide, raced, unheard>>

\* Variant: the entry is deleted, and the client not closed.
CancelForgets(c) ==
  /\ c \in cancels
  /\ cancels' = cancels \ {c}
  /\ registry' = registry \ {c}
  /\ UNCHANGED <<streamKind, call, stream, channel, tabSide, raced, unheard>>

\* wsClose, grpcStreamCancel, mqttUnsubscribe, mcpDisconnect, gqlUnsubscribe:
\* whatever has gone already is left alone.  A WebSocket and an MCP session tell
\* of their close; an MQTT subscription is closed before it could.
Cancel(c) ==
  /\ c \in cancels
  /\ cancels' = cancels \ {c}
  /\ registry' = registry \ {c}
  /\ stream' = IF c \in registry /\ Live(c)
                 THEN [stream EXCEPT ![c] = IF streamKind \in {"ws", "mcp"} THEN "closing" ELSE "closed"]
                 ELSE stream
  /\ UNCHANGED <<streamKind, call, channel, tabSide, raced, unheard>>

-----------------------------------------------------------------------------
\* The tab takes the next message.  One for an id it does not hold is ignored.
Replied(c) ==
  /\ idRef' = c
  /\ shown' = IF streamKind \in {"grpc", "mqtt", "mcp"} THEN "live" ELSE shown

Rejected == shown' = (IF streamKind \in {"grpc", "mqtt"} THEN shown ELSE "idle") /\ UNCHANGED idRef

\* Variant: the id is kept when its client has ended.
EventKeepsId(what) ==
  CASE what = "open" -> shown' = (IF streamKind = "ws" THEN "live" ELSE shown) /\ UNCHANGED idRef
    [] what = "error" -> shown' = "idle" /\ UNCHANGED idRef
    [] OTHER -> shown' = shown /\ UNCHANGED idRef

Event(what) ==
  CASE what = "open" -> shown' = (IF streamKind = "ws" THEN "live" ELSE shown) /\ UNCHANGED idRef
    [] what = "error" /\ streamKind = "ws" -> shown' = "idle" /\ UNCHANGED idRef
    [] OTHER -> shown' = "idle" /\ idRef' = NoCall

Receive ==
  /\ channel # <<>>
  /\ channel' = Tail(channel)
  /\ LET what == Head(channel)[1]
         c == Head(channel)[2]
     IN  /\ CASE what = "reply" -> Replied(c)
              [] what = "rejected" -> Rejected
              [] OTHER -> IF c = idRef /\ tabOpen THEN Event(what) ELSE UNCHANGED <<idRef, shown>>
         /\ call' = IF what \in {"reply", "rejected"} THEN [call EXCEPT ![c] = "over"] ELSE call
  /\ UNCHANGED <<streamKind, mainSide, cancels, tabOpen, raced, unheard>>

\* Stop, Unsubscribe, Disconnect.  A WebSocket tab waits for the close event.
PressStop ==
  /\ tabOpen
  /\ IF streamKind = "ws" THEN idRef # NoCall ELSE shown = "live" \/ (streamKind = "gql" /\ shown = "pending")
  /\ cancels' = cancels \cup ({idRef} \ {NoCall})
  /\ IF streamKind = "ws" THEN UNCHANGED <<idRef, shown>> ELSE idRef' = NoCall /\ shown' = "idle"
  /\ raced' = raced \cup Asked
  /\ UNCHANGED <<streamKind, call, mainSide, channel, tabOpen, unheard>>

\* The tab is unmounted: the client whose id it holds is cancelled.
CloseTab ==
  /\ tabOpen
  /\ tabOpen' = FALSE
  /\ cancels' = cancels \cup ({idRef} \ {NoCall})
  /\ raced' = raced \cup Asked
  /\ UNCHANGED <<streamKind, call, mainSide, channel, idRef, shown, unheard>>

StreamNext ==
  \/ \E c \in Calls :
       \/ Press(c) \/ Consent(c) \/ RefuseStream(c) \/ StartStream(c) \/ StartThrows(c)
       \/ StartEmitsError(c) \/ Opened(c) \/ StreamFails(c) \/ StreamEnds(c) \/ Cancel(c)
  \/ Receive \/ PressStop \/ CloseTab

StreamSpec == StreamInit /\ [][StreamNext]_streamVars

-----------------------------------------------------------------------------
Settled == channel = <<>> /\ cancels = {} /\ Asked = {}

\* When a tab is closed and all is handled, no client of it lives (McpTab.tsx:175),
\* but for one that was overtaken in its start; and a client that lives is
\* registered, so that its id cancels it, and is the one its open tab holds.
ClientsAreHeld ==
  /\ \A c \in Calls : Live(c) => c \in registry
  /\ Settled => \A c \in Calls \ raced : Live(c) => tabOpen /\ idRef = c

\* When all is handled, an open tab that shows a client as running holds one
\* that is, unless its error had gone out before its id.
TabTellsTheTruth ==
  Settled /\ tabOpen /\ shown = "live" =>
    idRef # NoCall /\ (Live(idRef) \/ stream[idRef] \in {"failing", "closing"} \/ idRef \in unheard)

\* A tab and its client know of each other.
StreamsAreOwned == ClientsAreHeld /\ TabTellsTheTruth
=============================================================================
