------------------------------ MODULE Execute ------------------------------
(***************************************************************************)
(* executeRequest (main/execute.ts): the pipeline every HTTP, gRPC, MQTT   *)
(* and MCP request of the app, of a workflow and of the CLI goes through.  *)
(* Several executions may be in progress, each at one of its awaits; they  *)
(* share the session, a map of variables of which one is modelled, the     *)
(* cookie jar of the collection and the history file.  A value is named by *)
(* the execution that wrote it.                                            *)
(***************************************************************************)
EXTENDS Naturals, FiniteSets

CONSTANTS
  Requests,    \* executions
  NoValue,     \* the variable is not set
  MaxScripts   \* pre-request and test scripts of an execution, inherited ones included

ASSUME ExecuteAssumption ==
  NoValue \notin Requests /\ "unsent" \notin Requests \cup {NoValue} /\ MaxScripts \in Nat

VARIABLES
  stage,       \* [Requests -> ...] the await an execution is at
  kind,        \* [Requests -> ...] what its file holds
  scripts,     \* [Requests -> Nat] scripts left in the current phase
  sessionVar,  \* the variable in the shared session
  sessionObj,  \* [Requests -> ...] the copy of it an execution works from
  errored,     \* [Requests -> BOOLEAN] report.errored
  response,    \* [Requests -> ...] what the send came to
  jar,         \* executions whose cookies are in the jar
  history,     \* lines appended to the history file, newest last, as a set of pairs
  sentWith,    \* history: [Requests -> ...] the value the request was sent with
  began,       \* history: [Requests -> ...] the session when the execution copied it
  wrote,       \* history: executions whose pre-request scripts or sign-in wrote it
  trouble      \* history: executions that met an error the report must tell of

executeVars == <<stage, kind, scripts, sessionVar, sessionObj, errored, response, jar,
                 history, sentWith, began, wrote, trouble>>

Kinds == {"curl", "grpc", "mqtt", "mcp"}

ExecuteInit ==
  /\ stage = [e \in Requests |-> "idle"]
  /\ kind = [e \in Requests |-> "curl"]
  /\ scripts = [e \in Requests |-> 0]
  /\ sessionVar = NoValue
  /\ sessionObj = [e \in Requests |-> NoValue]
  /\ errored = [e \in Requests |-> FALSE]
  /\ response = [e \in Requests |-> "none"]
  /\ jar = {} /\ history = {}
  /\ sentWith = [e \in Requests |-> "unsent"]
  /\ began = [e \in Requests |-> NoValue]
  /\ wrote = {} /\ trouble = {}

Enter(e, at) == stage' = [stage EXCEPT ![e] = at]

Trouble(e, here) ==
  /\ errored' = [errored EXCEPT ![e] = @ \/ here]
  /\ trouble' = IF here THEN trouble \cup {e} ELSE trouble

\* The report is returned at once, and no line is appended to the history.
Refuse(e) ==
  /\ Enter(e, "reported")
  /\ Trouble(e, TRUE)
  /\ UNCHANGED <<kind, scripts, sessionVar, sessionObj, response, jar, history,
                 sentWith, began, wrote>>

-----------------------------------------------------------------------------
\* No one-shot request, an unreadable or unparsable file, a file without the
\* command of its kind, an MQTT subscription.
RefuseFile(e) == stage[e] = "idle" /\ Refuse(e)

\* readEnvFile throws over a malformed environment: the promise rejects.
RejectEnv(e) ==
  /\ stage[e] = "idle"
  /\ Enter(e, "rejected")
  /\ UNCHANGED <<kind, scripts, sessionVar, sessionObj, errored, response, jar, history,
                 sentWith, began, wrote, trouble>>

\* The session is copied, and the inherited config resolved.
CopySession(e) ==
  /\ stage[e] = "idle"
  /\ kind' \in {[kind EXCEPT ![e] = k] : k \in Kinds}
  /\ scripts' \in {[scripts EXCEPT ![e] = n] : n \in 0 .. MaxScripts}
  /\ sessionObj' = [sessionObj EXCEPT ![e] = sessionVar]
  /\ began' = [began EXCEPT ![e] = sessionVar]
  /\ Enter(e, "pre")
  /\ UNCHANGED <<sessionVar, errored, response, jar, history, sentWith, wrote, trouble>>

\* sandboxSend: a script's own request goes through the jar of the collection.
SandboxSend(e) ==
  /\ stage[e] \in {"pre", "test"} /\ scripts[e] > 0
  /\ e \notin jar
  /\ jar' = jar \cup {e}
  /\ UNCHANGED <<stage, kind, scripts, sessionVar, sessionObj, errored, response, history,
                 sentWith, began, wrote, trouble>>

\* A pre-request script is through: what it wrote is in the session and in the
\* copy the rest of this execution works from, whether or not it then threw.
PreScript(e) ==
  /\ stage[e] = "pre" /\ scripts[e] > 0
  /\ scripts' = [scripts EXCEPT ![e] = @ - 1]
  /\ \E sets, throws \in BOOLEAN :
       /\ sessionVar' = IF sets THEN e ELSE sessionVar
       /\ sessionObj' = IF sets THEN [sessionObj EXCEPT ![e] = e] ELSE sessionObj
       /\ wrote' = IF sets THEN wrote \cup {e} ELSE wrote
       /\ Trouble(e, throws)
  /\ UNCHANGED <<stage, kind, response, jar, history, sentWith, began>>

\* The authorization_code grant of an HTTP request: a token already in the copy
\* is kept, else the cache has one or can be refreshed, or the request is refused.
AcquireToken(e) ==
  /\ stage[e] = "pre" /\ scripts[e] = 0
  /\ kind[e] = "curl" /\ sessionObj[e] = NoValue
  /\ sessionVar' = e
  /\ sessionObj' = [sessionObj EXCEPT ![e] = e]
  /\ wrote' = wrote \cup {e}
  /\ UNCHANGED <<stage, kind, scripts, errored, response, jar, history, sentWith, began,
                 trouble>>

RefuseToken(e) ==
  /\ stage[e] = "pre" /\ scripts[e] = 0
  /\ kind[e] = "curl" /\ sessionObj[e] = NoValue
  /\ Refuse(e)

\* An unresolved variable, or a form or body file that cannot be read.
RefuseBody(e) ==
  /\ stage[e] = "pre" /\ scripts[e] = 0
  /\ sessionObj[e] = NoValue \/ kind[e] = "curl"
  /\ Refuse(e)

\* Variant: the variables are resolved against the session as it is by now.
SendLive(e) ==
  /\ stage[e] = "pre" /\ scripts[e] = 0
  /\ Enter(e, "sending")
  /\ sentWith' = [sentWith EXCEPT ![e] = sessionVar]
  /\ UNCHANGED <<kind, scripts, sessionVar, sessionObj, errored, response, jar, history,
                 began, wrote, trouble>>

Send(e) ==
  /\ stage[e] = "pre" /\ scripts[e] = 0
  /\ Enter(e, "sending")
  /\ sentWith' = [sentWith EXCEPT ![e] = sessionObj[e]]
  /\ UNCHANGED <<kind, scripts, sessionVar, sessionObj, errored, response, jar, history,
                 began, wrote, trouble>>

\* An HTTP answer: its cookies are in the jar, and the scripts of the test phase
\* follow.  A gRPC, MQTT or MCP failure is an answer too, with status 500 or 502.
Answer(e) ==
  /\ stage[e] = "sending"
  /\ \E status \in {"ok", "bad"} :
       /\ response' = [response EXCEPT ![e] = status]
       /\ Trouble(e, status = "bad" /\ kind[e] # "curl")
  /\ \/ kind[e] = "curl" /\ jar' = jar \cup {e}
     \/ UNCHANGED jar   \* not HTTP, or `cookies: false`
  /\ scripts' \in {[scripts EXCEPT ![e] = n] : n \in 0 .. MaxScripts}
  /\ Enter(e, "test")
  /\ UNCHANGED <<kind, sessionVar, sessionObj, history, sentWith, began, wrote>>

\* sendHttp rejects: there is no response, and no test script runs.
TransportError(e) ==
  /\ stage[e] = "sending" /\ kind[e] = "curl"
  /\ Trouble(e, TRUE)
  /\ Enter(e, "test")
  /\ UNCHANGED <<kind, scripts, sessionVar, sessionObj, response, jar, history, sentWith,
                 began, wrote>>

\* A test script writes to the session, and not to the copy.
TestScript(e) ==
  /\ stage[e] = "test" /\ scripts[e] > 0
  /\ scripts' = [scripts EXCEPT ![e] = @ - 1]
  /\ \E sets, fails \in BOOLEAN :
       /\ sessionVar' = IF sets THEN e ELSE sessionVar
       /\ Trouble(e, fails)
  /\ UNCHANGED <<stage, kind, sessionObj, response, jar, history, sentWith, began, wrote>>

\* Variant: the line is written before the verdict over the status is known.
FinishEarly(e) ==
  /\ stage[e] = "test" /\ scripts[e] = 0
  /\ Trouble(e, response[e] = "bad")
  /\ history' = history \cup {<<e, errored[e]>>}
  /\ Enter(e, "reported")
  /\ UNCHANGED <<kind, scripts, sessionVar, sessionObj, response, jar, sentWith, began, wrote>>

\* An HTTP status of 400 and above, and with --strict-spec a mismatch with the
\* attached specification, fail the request; the line is appended last.
Finish(e) ==
  /\ stage[e] = "test" /\ scripts[e] = 0
  /\ \E mismatch \in IF kind[e] = "curl" /\ response[e] # "none" THEN BOOLEAN ELSE {FALSE} :
       /\ Trouble(e, response[e] = "bad" \/ mismatch)
       /\ history' = history \cup {<<e, errored[e] \/ response[e] = "bad" \/ mismatch>>}
  /\ Enter(e, "reported")
  /\ UNCHANGED <<kind, scripts, sessionVar, sessionObj, response, jar, sentWith, began, wrote>>

ExecuteHttp(e) ==
  /\ kind[e] = "curl"
  /\ \/ SandboxSend(e) \/ PreScript(e) \/ AcquireToken(e) \/ RefuseToken(e) \/ RefuseBody(e)
     \/ Send(e) \/ Answer(e) \/ TransportError(e) \/ TestScript(e) \/ Finish(e)

\* The other executors sign nobody in, read no body file, and turn a failed call
\* into an answer.  Their scripts send through the jar as well.
ExecuteCall(e) ==
  \/ SandboxSend(e) \/ PreScript(e) \/ RefuseBody(e)
  \/ Send(e) \/ Answer(e) \/ TestScript(e) \/ Finish(e)

ExecuteGrpc(e) == kind[e] = "grpc" /\ ExecuteCall(e)
ExecuteMqtt(e) == kind[e] = "mqtt" /\ ExecuteCall(e)
ExecuteMcp(e) == kind[e] = "mcp" /\ ExecuteCall(e)

ExecuteNext ==
  \E e \in Requests :
    \/ RefuseFile(e) \/ RejectEnv(e) \/ CopySession(e)
    \/ ExecuteHttp(e) \/ ExecuteGrpc(e) \/ ExecuteMqtt(e) \/ ExecuteMcp(e)

ExecuteSpec == ExecuteInit /\ [][ExecuteNext]_executeVars

-----------------------------------------------------------------------------
\* The history has one line for every execution whose request was sent and that
\* is over, none for one refused before, and the verdict in the line is the one
\* in the report: an error in any script, a bad status or no answer at all.
HistoryTellsTheVerdict ==
  \A e \in Requests :
    /\ {l \in history : l[1] = e} =
         IF stage[e] = "reported" /\ sentWith[e] # "unsent"
           THEN {<<e, e \in trouble>>} ELSE {}
    /\ stage[e] = "reported" => (errored[e] <=> e \in trouble)

\* A request is sent with what its own scripts or sign-in put into the session,
\* and else with what was there when it began: an execution running alongside
\* never changes a variable under it.
SentWithItsOwnView ==
  \A e \in Requests :
    stage[e] \in {"sending", "test"} =>
      sentWith[e] = IF e \in wrote THEN e ELSE began[e]

\* Two executions over one session and one history do not meet.
ExecutionsKeepApart == HistoryTellsTheVerdict /\ SentWithItsOwnView
=============================================================================
