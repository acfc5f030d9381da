------------------------------ MODULE MqttRelay ------------------------------
(***************************************************************************)
(* The MQTT half of the record proxy (engine/mqtt-proxy.ts): a relay that  *)
(* pipes bytes between a client and the broker and decodes a copy of them. *)
(* Decoding may stop; the relay does not.  A session is one exchange,      *)
(* recorded when the client's socket closes.                               *)
(***************************************************************************)
EXTENDS Naturals, FiniteSets

CONSTANTS
  Sessions,    \* connections of clients
  NoSession    \* no exchange

ASSUME RelayAssumption == NoSession \notin {"clean", "errored"}

VARIABLES
  relay,       \* "idle", "listening", "stopping" or "stopped"
  client,      \* [Sessions -> ...] the client's socket
  broker,      \* [Sessions -> ...] the upstream socket
  dead,        \* sessions whose client-direction decoder was dropped
  goodbye,     \* sawDisconnect: sessions in which a DISCONNECT was decoded
  fault,       \* sessions with a sessionError
  sent,        \* history: sessions whose client did send a DISCONNECT
  emits,       \* [Sessions -> Nat] exchanges emitted
  exchange     \* [Sessions -> ...] the last of them

relayVars == <<relay, client, broker, dead, goodbye, fault, sent, emits, exchange>>
legs == <<client, broker>>
decoded == <<dead, goodbye, sent>>
records == <<emits, exchange>>

RelayInit ==
  /\ relay = "idle"
  /\ client = [s \in Sessions |-> "none"] /\ broker = [s \in Sessions |-> "none"]
  /\ dead = {} /\ goodbye = {} /\ fault = {} /\ sent = {}
  /\ emits = [s \in Sessions |-> 0]
  /\ exchange = [s \in Sessions |-> NoSession]

Start ==
  /\ relay = "idle"
  /\ relay' = "listening"
  /\ UNCHANGED <<legs, decoded, fault, records>>

\* handleConnection: the broker is dialled, and both sockets are kept for stop().
HandleConnection(s) ==
  /\ relay = "listening" /\ client[s] = "none"
  /\ client' = [client EXCEPT ![s] = "open"]
  /\ broker' = [broker EXCEPT ![s] = "open"]
  /\ UNCHANGED <<relay, decoded, fault, records>>

\* A chunk of the client's is decoded before it is forwarded: it may complete a
\* DISCONNECT, or be what the decoder gives up over.
Feed(s) ==
  /\ client[s] = "open"
  /\ \/ s \notin dead /\ dead' = dead \cup {s} /\ UNCHANGED <<goodbye, sent>>
     \/ /\ sent' = sent \cup {s}
        /\ goodbye' = IF s \in dead THEN goodbye ELSE goodbye \cup {s}
        /\ UNCHANGED dead
  /\ UNCHANGED <<relay, legs, fault, records>>

\* The other side hangs up: pipe() ends the leg that was piped to.  The client's
\* socket then only awaits the client's own end.
HangUp(s) ==
  \/ /\ client[s] \in {"open", "ended"}
     /\ client' = [client EXCEPT ![s] = "closing"]
     /\ UNCHANGED <<relay, broker, decoded, fault, records>>
  \/ /\ broker[s] = "open" /\ client[s] # "closed"
     /\ broker' = [broker EXCEPT ![s] = "closed"]
     /\ client' = [client EXCEPT ![s] = IF @ = "open" THEN "ended" ELSE @]
     /\ UNCHANGED <<relay, decoded, fault, records>>

\* An error of either socket is the session's, and destroys both.
SocketError(s) ==
  /\ client[s] \in {"open", "ended"} \/ (client[s] = "closing" /\ broker[s] = "open")
  /\ fault' = fault \cup {s}
  /\ client' = [client EXCEPT ![s] = "closing"]
  /\ broker' = [broker EXCEPT ![s] = "closed"]
  /\ UNCHANGED <<relay, decoded, records>>

\* Variant: a decoder that was dropped is not allowed for.
VerdictOfDecoder(s) == IF s \in fault \/ s \notin goodbye THEN "errored" ELSE "clean"

\* A session ended well if a DISCONNECT was seen, or could not have been.
Verdict(s) == IF s \in fault \/ (s \notin goodbye /\ s \notin dead) THEN "errored" ELSE "clean"

\* Variant: the session is recorded again when the broker's leg has closed.
ClientCloseAgain(s) ==
  /\ client[s] = "closing" \/ (client[s] = "closed" /\ emits[s] < 2)
  /\ client' = [client EXCEPT ![s] = "closed"]
  /\ broker' = [broker EXCEPT ![s] = "closed"]
  /\ emits' = [emits EXCEPT ![s] = @ + 1]
  /\ exchange' = [exchange EXCEPT ![s] = Verdict(s)]
  /\ UNCHANGED <<relay, decoded, fault>>

\* The client's 'close': the one terminal event.
ClientClose(s) ==
  /\ client[s] = "closing"
  /\ client' = [client EXCEPT ![s] = "closed"]
  /\ broker' = [broker EXCEPT ![s] = "closed"]
  /\ emits' = [emits EXCEPT ![s] = @ + 1]
  /\ exchange' = [exchange EXCEPT ![s] = Verdict(s)]
  /\ UNCHANGED <<relay, decoded, fault>>

\* stop() closes the listener and destroys the sockets of every session...
StopRelay ==
  /\ relay = "listening"
  /\ relay' = "stopping"
  /\ client' = [s \in Sessions |-> IF client[s] \in {"open", "ended"} THEN "closing" ELSE client[s]]
  /\ broker' = [s \in Sessions |-> IF broker[s] = "open" THEN "closed" ELSE broker[s]]
  /\ UNCHANGED <<decoded, fault, records>>

\* ... and resolves when the last of them has closed.
RelayStopped ==
  /\ relay = "stopping"
  /\ \A s \in Sessions : client[s] \in {"none", "closed"}
  /\ relay' = "stopped"
  /\ UNCHANGED <<legs, decoded, fault, records>>

RelayNext ==
  \/ Start \/ StopRelay \/ RelayStopped
  \/ \E s \in Sessions :
       HandleConnection(s) \/ Feed(s) \/ HangUp(s) \/ SocketError(s) \/ ClientClose(s)

RelaySpec == RelayInit /\ [][RelayNext]_relayVars

-----------------------------------------------------------------------------
Exchanges == INSTANCE OneExchange
  WITH Requests <- Sessions, Verdicts <- {"clean", "errored"}, None <- NoSession,
       taken <- {s \in Sessions : client[s] # "none"}

\* The relay implements the promise of the record proxy: one exchange for each
\* session, whichever leg goes first.
RelayKeepsOneExchange == Exchanges!Spec

\* What a record says of the close is what happened, although it is read off a
\* decoder that may have stopped: a client that said goodbye and met no error is
\* never recorded as having vanished, a session recorded as clean was either
\* seen to end with a DISCONNECT or could not be followed to its end, and when
\* the relay has stopped every session it had taken is recorded.
RelayRecordsTheClose ==
  /\ \A s \in Sessions :
       exchange[s] # NoSession =>
         IF s \in fault THEN exchange[s] = "errored"
                        ELSE (s \in sent \cup dead <=> exchange[s] = "clean")
  /\ relay = "stopped" => \A s \in Sessions : client[s] = "none" <=> exchange[s] = NoSession

\* One exchange each, and a true one.
RelayKeepsItsPromise == RelayKeepsOneExchange /\ []RelayRecordsTheClose
=============================================================================
