------------------------------ MODULE AppProxy ------------------------------
(***************************************************************************)
(* The app's record proxy: startAppProxy, stopAppProxy and the root-change *)
(* listener of main/record-proxy.ts, over main/current-root.ts and the     *)
(* start and stop methods of the two listeners they drive                  *)
(* (RecordProxyServer in engine/record-proxy.ts, MqttRecordProxy in        *)
(* engine/mqtt-proxy.ts).                                                  *)
(*                                                                         *)
(* A call of startAppProxy is a process: it suspends at every await, and   *)
(* between two of its steps the user may open another collection, stop the *)
(* proxy, or start it again.  Each call builds its own servers, so a       *)
(* listener is named by the call that created it and by its kind.          *)
(***************************************************************************)
EXTENDS Naturals, FiniteSets

CONSTANTS
  Calls,      \* calls of startAppProxy
  Roots,      \* collections the user can open
  Ports,      \* what the modal's port fields can hold: one disjoint set of
              \* an HTTP, an HTTPS and an MQTT port each
  None        \* null: no collection open, no proxy running, no port yet

ASSUME NoneAssumption == None \notin Calls \cup Roots \cup Ports

Kinds == {"http", "tls", "mqtt"}

\* The two servers of a run: "http" holds the sockets of both HTTP listeners.
Pools == {"http", "mqtt"}
ListenersOf(p) == IF p = "mqtt" THEN {"mqtt"} ELSE {"http", "tls"}

(***************************************************************************)
(* Where a call stands: the await it is suspended at, or how it settled.   *)
(***************************************************************************)
Suspended == {"settings", "certs", "listen", "tlsListen", "tlsUndo",
              "mqttListen", "undo", "persist"}
Settled   == {"done", "failed"}

\* A stop waits for the HTTP server, then for the MQTT relay (lines 249-250).
Halts == {"no", "http", "mqtt", "done"}

VARIABLES
  currentRoot,  \* current-root.ts: the collection the app has open
  running,      \* the module variable: the call whose servers are published
  pc,           \* [Calls -> ...] progress of each start call
  root,         \* [Calls -> ...] the root a call captured
  opts,         \* [Calls -> ...] what the modal asked for
  up,           \* [Calls -> SUBSET Kinds] listeners accepting connections
  conns,        \* [Calls -> SUBSET Pools] servers with a client connected
  halt,         \* [Calls -> Halts] progress of the stop of a published run
  moved,        \* history: calls during whose start the root changed
  last          \* history: where the exchange recorded last went (see Entry)

vars == <<currentRoot, running, pc, root, opts, up, conns, halt, moved, last>>

Options == [https : BOOLEAN, mqtt : BOOLEAN, port : Ports]

Init ==
  /\ currentRoot = None
  /\ running = None
  /\ pc    = [c \in Calls |-> "idle"]
  /\ root  = [c \in Calls |-> None]
  /\ opts \in [Calls -> Options]
  /\ up    = [c \in Calls |-> {}]
  /\ conns = [c \in Calls |-> {}]
  /\ halt  = [c \in Calls |-> "no"]
  /\ moved = {}
  /\ last  = "none"

-----------------------------------------------------------------------------
\* Variant: listeners that can share a port.
TakenNever(c, k) == FALSE

\* A port is taken while another call's listener of that kind accepts on it.
Taken(c, k) ==
  \E d \in Calls \ {c} : k \in up[d] /\ opts[d].port = opts[c].port

Goto(c, label) == pc' = [pc EXCEPT ![c] = label]

(***************************************************************************)
(* startAppProxy up to its first await: a running proxy is returned as it  *)
(* is, no open collection is an error, otherwise the root is captured.     *)
(***************************************************************************)
StartCall(c) ==
  /\ pc[c] = "idle"
  /\ IF running # None
       THEN Goto(c, "done") /\ UNCHANGED root
       ELSE IF currentRoot = None
              THEN Goto(c, "failed") /\ UNCHANGED root
              ELSE Goto(c, "settings") /\ root' = [root EXCEPT ![c] = currentRoot]
  /\ UNCHANGED <<currentRoot, running, opts, up, conns, halt, moved, last>>

\* readSettings settles; a missing MQTT broker throws before anything is bound.
SettingsRead(c) ==
  /\ pc[c] = "settings"
  /\ \/ opts[c].mqtt /\ Goto(c, "failed")
     \/ Goto(c, IF opts[c].https THEN "certs" ELSE "listen")
  /\ UNCHANGED <<currentRoot, running, root, opts, up, conns, halt, moved, last>>

\* ensureProxyCerts settles: the CA and leaf are there, or writing them failed.
CertsReady(c) ==
  /\ pc[c] = "certs"
  /\ Goto(c, "listen") \/ Goto(c, "failed")
  /\ UNCHANGED <<currentRoot, running, root, opts, up, conns, halt, moved, last>>

\* The await after a listener of the start is bound: the next listener asked
\* for, or (lines 193-241) publication, which shares its tick with the bind.
Publish(c) ==
  /\ running' = c
  /\ Goto(c, "persist")

AfterHttp(c) ==
  IF opts[c].mqtt THEN Goto(c, "mqttListen") /\ UNCHANGED running ELSE Publish(c)

(***************************************************************************)
(* RecordProxyServer.start binds the plain listener, then the TLS one.  A  *)
(* bind fails when the port is taken, by us or by another program.         *)
(***************************************************************************)
HttpListen(c) ==
  /\ pc[c] = "listen"
  /\ \/ /\ ~Taken(c, "http")
        /\ up' = [up EXCEPT ![c] = @ \cup {"http"}]
        /\ IF opts[c].https
             THEN Goto(c, "tlsListen") /\ UNCHANGED running
             ELSE AfterHttp(c)
     \/ /\ Goto(c, "failed")
        /\ UNCHANGED <<running, up>>
  /\ UNCHANGED <<currentRoot, root, opts, conns, halt, moved, last>>

\* When the TLS port cannot be bound, start closes the plain listener and waits
\* for its connections, without destroying them (line 1136).
TlsListen(c) ==
  /\ pc[c] = "tlsListen"
  /\ \/ /\ ~Taken(c, "tls")
        /\ up' = [up EXCEPT ![c] = @ \cup {"tls"}]
        /\ AfterHttp(c)
     \/ /\ up' = [up EXCEPT ![c] = @ \ {"http"}]
        /\ Goto(c, "tlsUndo")
        /\ UNCHANGED running
  /\ UNCHANGED <<currentRoot, root, opts, conns, halt, moved, last>>

TlsUndone(c) ==
  /\ pc[c] = "tlsUndo"
  /\ conns[c] = {}
  /\ Goto(c, "failed")
  /\ UNCHANGED <<currentRoot, running, root, opts, up, conns, halt, moved, last>>

\* Variant: no rollback of the HTTP server.
MqttListenNoUndo(c) ==
  /\ pc[c] = "mqttListen"
  /\ Goto(c, "failed")
  /\ UNCHANGED <<currentRoot, running, root, opts, up, conns, halt, moved, last>>

\* MqttRecordProxy.start; on failure the HTTP server is stopped (line 204).
MqttListen(c) ==
  /\ pc[c] = "mqttListen"
  /\ \/ /\ ~Taken(c, "mqtt")
        /\ up' = [up EXCEPT ![c] = @ \cup {"mqtt"}]
        /\ Publish(c)
     \/ /\ up' = [up EXCEPT ![c] = @ \ {"http", "tls"}]
        /\ Goto(c, "undo")
        /\ UNCHANGED running
  /\ UNCHANGED <<currentRoot, root, opts, conns, halt, moved, last>>

Undone(c) ==
  /\ pc[c] = "undo"
  /\ conns[c] = {}
  /\ Goto(c, "failed")
  /\ UNCHANGED <<currentRoot, running, root, opts, up, conns, halt, moved, last>>

\* writeSettings settles (its failure is swallowed) and the start returns.
Persisted(c) ==
  /\ pc[c] = "persist"
  /\ Goto(c, "done")
  /\ UNCHANGED <<currentRoot, running, root, opts, up, conns, halt, moved, last>>

-----------------------------------------------------------------------------
(***************************************************************************)
(* stopAppProxy: running is cleared in the same tick, the HTTP server      *)
(* stops accepting, and only once its connections are gone does the MQTT   *)
(* relay stop (lines 246-251).  RecordProxyServer.stop destroys what is    *)
(* still connected after half a second, MqttRecordProxy.stop at once.      *)
(***************************************************************************)
StopRun(c) ==
  /\ running' = None
  /\ up' = [up EXCEPT ![c] = @ \ {"http", "tls"}]
  /\ halt' = [halt EXCEPT ![c] = "http"]

UserStop ==
  /\ running # None
  /\ StopRun(running)
  /\ UNCHANGED <<currentRoot, pc, root, opts, conns, moved, last>>

\* Variant: the stop forgets the MQTT relay.
HttpHaltedForgetsMqtt(c) ==
  /\ halt[c] = "http"
  /\ conns[c] \subseteq {"mqtt"}
  /\ halt' = [halt EXCEPT ![c] = "done"]
  /\ UNCHANGED <<currentRoot, running, pc, root, opts, up, conns, moved, last>>

HttpHalted(c) ==
  /\ halt[c] = "http"
  /\ conns[c] \subseteq {"mqtt"}
  /\ halt' = [halt EXCEPT ![c] = IF opts[c].mqtt THEN "mqtt" ELSE "done"]
  /\ up' = [up EXCEPT ![c] = {}]
  /\ UNCHANGED <<currentRoot, running, pc, root, opts, conns, moved, last>>

MqttHalted(c) ==
  /\ halt[c] = "mqtt"
  /\ conns[c] = {}
  /\ halt' = [halt EXCEPT ![c] = "done"]
  /\ UNCHANGED <<currentRoot, running, pc, root, opts, up, conns, moved, last>>

\* Calls that hold a root but are not published yet: the listener that reacts to
\* a root change (line 259) sees running = null and does nothing for them.
Unpublished == {c \in Calls : pc[c] \in Suspended \ {"persist"}}

\* Variant: nobody listens to root changes.
SetCurrentRootNoStop(r) ==
  /\ r # currentRoot
  /\ currentRoot' = r
  /\ moved' = moved \cup Unpublished
  /\ UNCHANGED <<running, pc, root, opts, up, conns, halt, last>>

(***************************************************************************)
(* setCurrentRoot, with the record proxy's onRootChange listener, which    *)
(* runs inside it: a run bound to another root is stopped.                 *)
(***************************************************************************)
SetCurrentRoot(r) ==
  /\ r # currentRoot
  /\ currentRoot' = r
  /\ moved' = moved \cup Unpublished
  /\ IF running # None /\ r # root[running]
       THEN StopRun(running)
       ELSE UNCHANGED <<running, up, halt>>
  /\ UNCHANGED <<pc, root, opts, conns, last>>

-----------------------------------------------------------------------------
(***************************************************************************)
(* Clients.  An exchange is appended to the root its call captured         *)
(* (lines 174-177); the MQTT relay records a session when it ends.         *)
(***************************************************************************)
Halting(c) == halt[c] # "no" \/ pc[c] \in {"tlsUndo", "undo"}

\* Where an exchange of c recorded now goes: "open" when its root is the open
\* one, "moved" or "elsewhere" when it is not, by whether the root changed while
\* c was starting; while c is halting it does not matter.
Entry(c) ==
  CASE Halting(c) -> "halting"
    [] ~Halting(c) /\ root[c] = currentRoot -> "open"
    [] ~Halting(c) /\ root[c] # currentRoot ->
         IF c \in moved THEN "moved" ELSE "elsewhere"

Connect(c, p) ==
  /\ ListenersOf(p) \cap up[c] # {}
  /\ conns' = [conns EXCEPT ![c] = @ \cup {p}]
  /\ UNCHANGED <<currentRoot, running, pc, root, opts, up, halt, moved, last>>

Exchange(c) ==
  /\ "http" \in conns[c]
  /\ last' = Entry(c)
  /\ UNCHANGED <<currentRoot, running, pc, root, opts, up, conns, halt, moved>>

Hangup(c, p) ==
  /\ p \in conns[c]
  /\ conns' = [conns EXCEPT ![c] = @ \ {p}]
  /\ last' = IF p = "mqtt" THEN Entry(c) ELSE last
  /\ UNCHANGED <<currentRoot, running, pc, root, opts, up, halt, moved>>

\* Variants: no half-second timer at all, and none in the rollback of a start.
DestroyMqttOnly(c, p) == p = "mqtt" /\ halt[c] = "mqtt" /\ Hangup(c, p)

DestroyStopsOnly(c, p) == halt[c] = p /\ Hangup(c, p)

\* The same disconnection, made by a stop: the half-second timer of the HTTP
\* server, or MqttRecordProxy.stop.
Destroy(c, p) ==
  /\ \/ p = "http" /\ (halt[c] = "http" \/ pc[c] = "undo")
     \/ p = "mqtt" /\ halt[c] = "mqtt"
  /\ Hangup(c, p)

-----------------------------------------------------------------------------
StartStep(c) ==
  \/ SettingsRead(c) \/ CertsReady(c)
  \/ HttpListen(c) \/ TlsListen(c) \/ TlsUndone(c)
  \/ MqttListen(c) \/ Undone(c) \/ Persisted(c)

StopStep(c) == HttpHalted(c) \/ MqttHalted(c) \/ \E p \in Pools : Destroy(c, p)

User == UserStop \/ \E r \in Roots : SetCurrentRoot(r)

Client(c) == Exchange(c) \/ \E p \in Pools : Connect(c, p) \/ Hangup(c, p)

Next ==
  \/ \E c \in Calls : StartCall(c) \/ StartStep(c) \/ StopStep(c) \/ Client(c)
  \/ User

(***************************************************************************)
(* Fairness: a promise the runtime has resolved is continued, and the      *)
(* half-second timer fires.  Users and clients promise nothing.            *)
(***************************************************************************)
Fairness == \A c \in Calls : WF_vars(StartStep(c)) /\ WF_vars(StopStep(c))

Spec == Init /\ [][Next]_vars /\ Fairness

-----------------------------------------------------------------------------
Wanted(c) == {"http"} \cup (IF opts[c].https THEN {"tls"} ELSE {})
                      \cup (IF opts[c].mqtt THEN {"mqtt"} ELSE {})

Entries == {"halting", "open", "moved", "elsewhere"}

\* Types of the state above.
TypeOK ==
  /\ currentRoot \in Roots \cup {None}
  /\ running \in Calls \cup {None}
  /\ pc \in [Calls -> Suspended \cup Settled \cup {"idle"}]
  /\ root \in [Calls -> Roots \cup {None}]
  /\ opts \in [Calls -> Options]
  /\ up \in [Calls -> SUBSET Kinds]
  /\ conns \in [Calls -> SUBSET Pools]
  /\ halt \in [Calls -> Halts]
  /\ moved \subseteq Calls
  /\ last \in Entries \cup {"none"}

(***************************************************************************)
(* The inductive invariant.  Lifecycle says, for each await a start or a   *)
(* stop can be suspended at, which listeners and clients its call still    *)
(* has.  Single and Bound hold when every start asks for the same ports.   *)
(***************************************************************************)
Quiet(c) == up[c] = {} /\ conns[c] = {}

Published(c) == pc[c] \in {"persist", "done"}

StartPhase(c) ==
  /\ pc[c] \in {"idle", "settings", "certs", "listen", "failed"} => Quiet(c)
  /\ pc[c] = "tlsListen" => up[c] = {"http"} /\ opts[c].https
  /\ pc[c] = "mqttListen" => up[c] = Wanted(c) \ {"mqtt"} /\ opts[c].mqtt
  /\ pc[c] \in {"tlsUndo", "undo"} => up[c] = {}
  /\ ~Published(c) => halt[c] = "no" /\ running # c /\ "mqtt" \notin conns[c]

StopPhase(c) ==
  /\ Published(c) /\ halt[c] = "no" => up[c] = Wanted(c) \/ (Quiet(c) /\ running # c)
  /\ halt[c] = "http" => up[c] = Wanted(c) \cap {"mqtt"}
  /\ halt[c] = "mqtt" => up[c] = {} /\ conns[c] \subseteq {"mqtt"}
  /\ halt[c] = "done" => Quiet(c)
  /\ running = c => halt[c] = "no"
  /\ "mqtt" \in conns[c] => opts[c].mqtt

\* Each start and each stop, wherever it is suspended, accounts for its own
\* listeners and clients: the part of the invariant that needs no assumption.
Lifecycle == \A c \in Calls : StartPhase(c) /\ StopPhase(c)

\* One call at a time has the HTTP listener, and a run that is neither published
\* nor stopping is one that returned the proxy it found running.
Single ==
  /\ \A c, d \in Calls : "http" \in up[c] /\ "http" \in up[d] => c = d
  /\ \A c \in Calls : Published(c) /\ halt[c] = "no" => running = c \/ Quiet(c)

\* Unless the root changed while the start was suspended, a call that holds a
\* root and has not been stopped holds the one that is open.
Bound ==
  \A c \in Calls \ moved : c \in Unpublished \/ running = c => root[c] = currentRoot

\* A proxy started for one collection never records while another is open,
\* except what its stop lets finish (record-proxy.ts 10-13 and 254-257).
RecordsIntoOpenCollection ==
  last \notin {"moved", "elsewhere"}

\* What the code does guarantee of it: the only other way to record into a
\* collection that is not open is to open it while the start was suspended.
RecordsElsewhereOnlyAfterMovedStart ==
  last # "elsewhere"

\* A start that throws leaves no listener and no client behind: the rollbacks
\* of engine/record-proxy.ts 1133-1139 and main/record-proxy.ts 201-206.
FailedStartLeavesNothing ==
  \A c \in Calls : pc[c] = "failed" => up[c] = {} /\ conns[c] = {}

\* The proxy the app reports as running has every listener it was asked for,
\* and no listener whose start was rolled back.
PublishedServesAll ==
  running # None => up[running] = Wanted(running) /\ halt[running] = "no"

\* "One toggle runs (and one stop stops) everything": an accepting listener is
\* the published run's, or its start or its stop is still under way.
ListenersAccountedFor ==
  \A c \in Calls : up[c] # {} =>
    \/ running = c
    \/ pc[c] \in Suspended \ {"persist"}
    \/ halt[c] \in {"http", "mqtt"}

\* After a stop resolved its run is silent for good: nothing accepts, nobody is
\* connected, and the module variable does not name it again.
StoppedIsSilent ==
  \A c \in Calls : halt[c] = "done" =>
    up[c] = {} /\ conns[c] = {} /\ running # c

\* A stop resolves whatever the clients do.
StopResolves ==
  \A c \in Calls : halt[c] = "http" ~> halt[c] = "done"

\* A start settles whatever the clients do, except that the rollback of a failed
\* TLS bind waits for as long as a client of the plain listener stays.
StartSettles ==
  \A c \in Calls : pc[c] \in Suspended ~>
    pc[c] \in Settled \/ (pc[c] = "tlsUndo" /\ conns[c] # {})

\* Every call comes back to whoever made it.
CallsSettle == StopResolves /\ StartSettles
=============================================================================
