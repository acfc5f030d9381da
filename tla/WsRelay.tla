------------------------------ MODULE WsRelay -------------------------------
(***************************************************************************)
(* RecordProxyServer.handleUpgrade (engine/record-proxy.ts): a client that *)
(* asks for an upgrade waits as a raw socket while the proxy dials the     *)
(* target; once both legs are WebSockets, each is closed when the other    *)
(* closes, and the session gives one exchange.                             *)
(*                                                                         *)
(* Frames are data: relaying and capturing them changes no control state.  *)
(***************************************************************************)
EXTENDS Naturals

CONSTANTS
  Requests,   \* upgrade requests, each used once
  None        \* no exchange yet

ASSUME NoneAssumption == None \notin [kind : {"unreachable", "refused", "session"}, errored : BOOLEAN]

Exchanges == [kind : {"unreachable", "refused", "session"}, errored : BOOLEAN]

VARIABLES
  server,    \* "listening", "stopping" during stop()'s wait, "stopped"
  client,    \* [Requests -> "idle", "raw" socket, "ws", "closing", "closed"]
  target,    \* [Requests -> "none", "dialing", "refusing", "ws", "closing", "closed"]
  relayed,   \* sessions whose two legs are wired to each other
  failed,    \* sessions a leg of which has errored: sessionError is set
  doomed,    \* sessions whose target leg stop() terminated before it was open
  emits,     \* [Requests -> Nat] exchanges emitted for each
  exchange   \* [Requests -> Exchanges or None] the last of them

log  == <<emits, exchange>>
vars == <<server, client, target, relayed, failed, doomed, emits, exchange>>

Init ==
  /\ server = "listening"
  /\ client = [r \in Requests |-> "idle"]
  /\ target = [r \in Requests |-> "none"]
  /\ relayed = {} /\ failed = {} /\ doomed = {}
  /\ emits = [r \in Requests |-> 0]
  /\ exchange = [r \in Requests |-> None]

Open(leg) == leg \in {"ws", "closing"}
Connected(r) == client[r] \notin {"idle", "closed"}

-----------------------------------------------------------------------------
\* Variant: whoever comes emits.
EmitEach(R, kind, errored) ==
  /\ emits' = [r \in Requests |-> IF r \in R THEN emits[r] + 1 ELSE emits[r]]
  /\ exchange' = [r \in Requests |->
       IF r \in R THEN [kind |-> kind, errored |-> r \in errored] ELSE exchange[r]]

\* emitSession (lines 892-922), for the sessions R, of which those in `errored`
\* are marked so.
Emit(R, kind, errored) ==
  LET first == {r \in R : emits[r] = 0} IN
  /\ emits' = [r \in Requests |-> IF r \in first THEN 1 ELSE emits[r]]
  /\ exchange' = [r \in Requests |->
       IF r \in first THEN [kind |-> kind, errored |-> r \in errored] ELSE exchange[r]]

-----------------------------------------------------------------------------
Upgrade(r) ==
  /\ server \in {"listening", "stopping"}
  /\ client[r] = "idle"
  /\ client' = [client EXCEPT ![r] = "raw"]
  /\ target' = [target EXCEPT ![r] = "dialing"]
  /\ UNCHANGED <<server, relayed, failed, doomed, log>>

\* The client's socket breaks while the target is dialed: nobody listens.
ClientDrops(r) ==
  /\ client[r] = "raw"
  /\ client' = [client EXCEPT ![r] = "closed"]
  /\ UNCHANGED <<server, target, relayed, failed, doomed, log>>

\* 'unexpected-response' (lines 930-943): the target answers with an HTTP error,
\* whose body is collected and relayed.
TargetRefuses(r) ==
  /\ target[r] = "dialing" /\ r \notin doomed
  /\ target' = [target EXCEPT ![r] = "refusing"]
  /\ UNCHANGED <<server, client, relayed, failed, doomed, log>>

RefusalEnd(r) ==
  /\ target[r] = "refusing" /\ r \notin doomed
  /\ target' = [target EXCEPT ![r] = "closed"]
  /\ client' = [client EXCEPT ![r] = "closed"]
  /\ Emit({r}, "refused", {r})
  /\ UNCHANGED <<server, relayed, failed, doomed>>

\* The refusal itself breaks off: the client's socket is destroyed.
RefusalError(r) ==
  /\ target[r] = "refusing" /\ r \notin doomed
  /\ target' = [target EXCEPT ![r] = "closed"]
  /\ client' = [client EXCEPT ![r] = "closed"]
  /\ UNCHANGED <<server, relayed, failed, doomed, log>>

\* Variant: the client is told, the exchange forgotten.
TargetErrorUnrecorded(r) ==
  /\ target[r] = "dialing" \/ (target[r] = "refusing" /\ r \in doomed)
  /\ target' = [target EXCEPT ![r] = "closed"]
  /\ client' = [client EXCEPT ![r] = "closed"]
  /\ doomed' = doomed \ {r}
  /\ UNCHANGED <<server, relayed, failed, log>>

\* 'error' before the session is established, also when stop() terminates the
\* dial (lines 944-951): the client gets a 502.
TargetError(r) ==
  /\ target[r] = "dialing" \/ (target[r] = "refusing" /\ r \in doomed)
  /\ target' = [target EXCEPT ![r] = "closed"]
  /\ client' = [client EXCEPT ![r] = "closed"]
  /\ doomed' = doomed \ {r}
  /\ Emit({r}, "unreachable", {r})
  /\ UNCHANGED <<server, relayed, failed>>

-----------------------------------------------------------------------------
\* 'open' for a client that is gone (lines 953-957): the target is let go.
OpenTooLate(r) ==
  /\ target[r] = "dialing" /\ r \notin doomed /\ client[r] = "closed"
  /\ target' = [target EXCEPT ![r] = "closed"]
  /\ UNCHANGED <<server, client, relayed, failed, doomed, log>>

\* 'open' (lines 958-1011): the client gets its 101 and the legs are wired, ...
Establish(r) ==
  /\ target[r] = "dialing" /\ r \notin doomed /\ client[r] = "raw"
  /\ target' = [target EXCEPT ![r] = "ws"]
  /\ client' = [client EXCEPT ![r] = "ws"]
  /\ relayed' = relayed \cup {r}
  /\ UNCHANGED <<server, failed, doomed, log>>

\* ... or its own handshake is not acceptable: `ws` answers it with an error
\* and never calls back.
HandshakeFails(r) ==
  /\ target[r] = "dialing" /\ r \notin doomed /\ client[r] = "raw"
  /\ target' = [target EXCEPT ![r] = "ws"]
  /\ client' = [client EXCEPT ![r] = "closed"]
  /\ UNCHANGED <<server, relayed, failed, doomed, log>>

\* closeOther (lines 980-985): an open leg starts its closing handshake.
CloseOther(leg) == IF leg = "ws" THEN "closing" ELSE leg

\* Variants: the exchange is left to the leg that closes last; a code that cannot
\* be sent closes nothing; the code alone says whether a session failed.
FinishLast(R, abnormal, leg) ==
  /\ Emit({r \in R : leg[r] = "closed"}, "session", IF abnormal THEN R ELSE failed)
  /\ leg' = [r \in Requests |-> IF r \in R THEN CloseOther(leg[r]) ELSE leg[r]]

FinishAlone(R, abnormal, leg) ==
  /\ Emit(R, "session", IF abnormal THEN R ELSE failed)
  /\ leg' = [r \in Requests |-> IF r \in R /\ ~abnormal THEN CloseOther(leg[r]) ELSE leg[r]]

FinishByCode(R, abnormal, leg) ==
  /\ Emit(R, "session", IF abnormal THEN R ELSE {})
  /\ leg' = [r \in Requests |-> IF r \in R THEN CloseOther(leg[r]) ELSE leg[r]]

\* A wired leg's 'close', abnormal (1006) or with a code (lines 966-979): the
\* other `leg` follows and the first of the two gives the exchange.
Finish(R, abnormal, leg) ==
  /\ Emit(R, "session", IF abnormal THEN R ELSE failed)
  /\ leg' = [r \in Requests |-> IF r \in R THEN CloseOther(leg[r]) ELSE leg[r]]

ClientClose(r, abnormal) ==
  /\ Open(client[r]) /\ r \in relayed
  /\ client' = [client EXCEPT ![r] = "closed"]
  /\ Finish({r}, abnormal, target)
  /\ UNCHANGED <<server, relayed, failed, doomed>>

TargetClose(r, abnormal) ==
  /\ Open(target[r]) /\ r \in relayed
  /\ target' = [target EXCEPT ![r] = "closed"]
  /\ Finish({r}, abnormal, client)
  /\ UNCHANGED <<server, relayed, failed, doomed>>

\* 'error' on a wired leg (lines 1002-1009): noted, and the leg terminated.
ClientFails(r) ==
  /\ Open(client[r]) /\ r \in relayed
  /\ failed' = failed \cup {r}
  /\ client' = [client EXCEPT ![r] = "closing"]
  /\ UNCHANGED <<server, target, relayed, doomed, log>>

TargetFails(r) ==
  /\ Open(target[r]) /\ r \in relayed
  /\ failed' = failed \cup {r}
  /\ target' = [target EXCEPT ![r] = "closing"]
  /\ UNCHANGED <<server, client, relayed, doomed, log>>

\* An open target leg nobody is wired to closes.
LooseClose(r) ==
  /\ Open(target[r]) /\ r \notin relayed
  /\ target' = [target EXCEPT ![r] = "closed"]
  /\ UNCHANGED <<server, client, relayed, failed, doomed, log>>

-----------------------------------------------------------------------------
\* stop() up to its await (line 1159): every target leg is terminated; a dial
\* errors, an open leg closes.
StopBegin ==
  /\ server = "listening"
  /\ server' = "stopping"
  /\ doomed' = {r \in Requests : target[r] \in {"dialing", "refusing"}}
  /\ target' = [r \in Requests |-> CloseOther(target[r])]
  /\ UNCHANGED <<client, relayed, failed, log>>

\* The half-second timer destroys what is still connected; wired legs close.
DestroySockets ==
  /\ server = "stopping"
  /\ \E r \in Requests : Connected(r)
  /\ client' = [r \in Requests |-> IF Connected(r) THEN "closed" ELSE client[r]]
  /\ Finish({r \in relayed : Open(client[r])}, TRUE, target)
  /\ UNCHANGED <<server, relayed, failed, doomed>>

StopEnd ==
  /\ server = "stopping"
  /\ \A r \in Requests : ~Connected(r)
  /\ server' = "stopped"
  /\ UNCHANGED <<client, target, relayed, failed, doomed, log>>

-----------------------------------------------------------------------------
Dial(r) == \/ Upgrade(r) \/ ClientDrops(r)
           \/ TargetRefuses(r) \/ RefusalEnd(r) \/ RefusalError(r) \/ TargetError(r)
           \/ OpenTooLate(r) \/ Establish(r) \/ HandshakeFails(r)

Session(r) == \/ \E abnormal \in BOOLEAN : ClientClose(r, abnormal) \/ TargetClose(r, abnormal)
              \/ ClientFails(r) \/ TargetFails(r) \/ LooseClose(r)

Next ==
  \/ \E r \in Requests : Dial(r) \/ Session(r)
  \/ StopBegin \/ DestroySockets \/ StopEnd

(***************************************************************************)
(* Fairness: a leg that is closing closes, at the latest when the close    *)
(* timer of `ws` destroys it; a terminated dial errors; the stop timer     *)
(* fires.  Neither party has to close, and no dial has to end.             *)
(***************************************************************************)
Fairness ==
  /\ \A r \in Requests :
       /\ WF_vars(client[r] = "closing" /\ ClientClose(r, TRUE))
       /\ WF_vars(target[r] = "closing" /\ TargetClose(r, TRUE))
       /\ WF_vars(r \in doomed /\ TargetError(r))
  /\ WF_vars(DestroySockets) /\ WF_vars(StopEnd)

Spec == Init /\ [][Next]_vars /\ Fairness

-----------------------------------------------------------------------------
\* Types of the state above.
TypeOK ==
  /\ server \in {"listening", "stopping", "stopped"}
  /\ client \in [Requests -> {"idle", "raw", "ws", "closing", "closed"}]
  /\ target \in [Requests -> {"none", "dialing", "refusing", "ws", "closing", "closed"}]
  /\ relayed \subseteq Requests
  /\ failed \subseteq relayed
  /\ doomed \subseteq {r \in Requests : target[r] \in {"dialing", "refusing"}}
  /\ emits \in [Requests -> {0, 1}]
  /\ exchange \in [Requests -> Exchanges \cup {None}]

\* One exchange per session, never amended: the module implements OneExchange.
Abstract == INSTANCE OneExchange WITH
              taken <- {r \in Requests : target[r] # "none"},
              Verdicts <- Exchanges
KeepsOneExchange == Abstract!Spec

\* A session that was established has given its exchange as soon as one of its
\* legs is closed, whoever closed it and however (lines 845-846).
EstablishedIsRecorded ==
  \A r \in relayed : client[r] = "closed" \/ target[r] = "closed" => emits[r] = 1

\* A session recorded without an error was established, and no leg had failed
\* when it was recorded: failures that close the other leg cleanly still count.
CleanSessionDidNotFail ==
  [][\A r \in Requests : exchange'[r] # exchange[r] /\ ~exchange'[r].errored =>
       r \in relayed /\ r \notin failed]_vars

\* Neither leg of a session outlives the other.
LegsCloseTogether ==
  \A r \in Requests :
    r \in relayed /\ (client[r] = "closed" \/ target[r] = "closed")
      ~> client[r] = "closed" /\ target[r] = "closed"

\* What was being dialed or relayed at a stop is recorded.
InFlightAtStopIsRecorded ==
  \A r \in Requests : r \in doomed \/ (server = "stopping" /\ r \in relayed) ~> emits[r] = 1

\* Each session ends once, on both legs, and its one exchange says how.
SessionsEndOnce ==
  KeepsOneExchange /\ CleanSessionDidNotFail /\ LegsCloseTogether /\ InFlightAtStopIsRecorded
=============================================================================
