----------------------------- MODULE ForwardH2 ------------------------------
(***************************************************************************)
(* RecordProxyServer.forwardH2 (engine/record-proxy.ts): one HTTP/2 client *)
(* stream, gRPC or other, relayed to a stream on the shared upstream       *)
(* session, trailers included, and recorded.                               *)
(*                                                                         *)
(* Unlike forward() it listens to the client's close from the start and    *)
(* keeps the response head for whoever emits.  The upstream stream ends,   *)
(* errors, or closes without either, as when the session it is on is lost  *)
(* or destroyed by stop().                                                 *)
(***************************************************************************)
EXTENDS Naturals

CONSTANTS
  Requests,   \* client streams, each used once
  None        \* no exchange yet

ASSUME NoneAssumption == None \notin [status : {"none", "good", "error"}, errored : BOOLEAN]

Statuses  == {"none", "good", "error"}                       \* :status, if any
Exchanges == [status : Statuses, errored : BOOLEAN]
Grpc      == {"absent", "zero", "nonzero"}                   \* grpc-status
Answers   == [status : {"good", "error"}, grpc : Grpc]       \* a response head
NoAnswer  == [status |-> "none", grpc |-> "absent"]

VARIABLES
  client,    \* [Requests -> "idle", "sending" its body, "sent" it, "gone"]
  upstream,  \* [Requests -> ...] the stream to the target
  answer,    \* resHeaders
  trailers,  \* trailers, as far as their grpc-status goes
  sink,      \* [Requests -> "none", "head", "ended"] what the client was given
  emits,     \* [Requests -> Nat] exchanges emitted for each
  exchange   \* [Requests -> Exchanges or None] the last of them

log  == <<emits, exchange>>
vars == <<client, upstream, answer, trailers, sink, emits, exchange>>

Init ==
  /\ client = [r \in Requests |-> "idle"]
  /\ upstream = [r \in Requests |-> "none"]
  /\ answer = [r \in Requests |-> NoAnswer]
  /\ trailers = [r \in Requests |-> "absent"]
  /\ sink = [r \in Requests |-> "none"]
  /\ emits = [r \in Requests |-> 0]
  /\ exchange = [r \in Requests |-> None]

Here(r) == client[r] \in {"sending", "sent"}
Live(r) == upstream[r] \in {"open", "answering"}

-----------------------------------------------------------------------------
\* Variant: whoever comes emits.
EmitEach(r, status, errored) ==
  /\ emits' = [emits EXCEPT ![r] = @ + 1]
  /\ exchange' = [exchange EXCEPT ![r] = [status |-> status, errored |-> errored]]

\* emitExchange (lines 708-759): the first terminal event wins.
Emit(r, status, errored) ==
  IF emits[r] = 0
    THEN /\ emits' = [emits EXCEPT ![r] = 1]
         /\ exchange' = [exchange EXCEPT ![r] = [status |-> status, errored |-> errored]]
    ELSE UNCHANGED log

\* Variant: only the head is asked.
GotErrorHead(head, trailing) ==
  IF head.grpc # "absent" THEN head.grpc = "nonzero" ELSE head.status = "error"

\* gotError (lines 833-838): the trailers' grpc-status, else the head's, else
\* the HTTP status.
GotError(head, trailing) ==
  LET grpc == IF trailing # "absent" THEN trailing ELSE head.grpc
  IN  IF grpc # "absent" THEN grpc = "nonzero" ELSE head.status = "error"

-----------------------------------------------------------------------------
\* A stream opens on the upstream session and the client's body is piped to it.
Request(r, whole) ==
  /\ client[r] = "idle"
  /\ client' = [client EXCEPT ![r] = IF whole THEN "sent" ELSE "sending"]
  /\ upstream' = [upstream EXCEPT ![r] = "open"]
  /\ UNCHANGED <<answer, trailers, sink, log>>

\* session.request() throws (lines 771-777): the client gets a 502.
Refused(r) ==
  /\ client[r] = "idle"
  /\ client' = [client EXCEPT ![r] = "sent"]
  /\ upstream' = [upstream EXCEPT ![r] = "failed"]
  /\ sink' = [sink EXCEPT ![r] = "ended"]
  /\ Emit(r, "none", TRUE)
  /\ UNCHANGED <<answer, trailers>>

BodyEnd(r) ==
  /\ client[r] = "sending"
  /\ client' = [client EXCEPT ![r] = "sent"]
  /\ UNCHANGED <<upstream, answer, trailers, sink, log>>

\* The client's stream closes, answered or not (lines 826-830).
ClientGone(r) ==
  /\ Here(r)
  /\ client' = [client EXCEPT ![r] = "gone"]
  /\ upstream' = [upstream EXCEPT ![r] = IF Live(r) THEN "failed" ELSE @]
  /\ Emit(r, answer[r].status, TRUE)
  /\ UNCHANGED <<answer, trailers, sink>>

-----------------------------------------------------------------------------
\* The upstream stream errors: refuse (lines 761-769) answers 502, or destroys a
\* stream whose head is out.
UpstreamError(r) ==
  /\ Live(r)
  /\ upstream' = [upstream EXCEPT ![r] = "failed"]
  /\ IF sink[r] = "none"
       THEN sink' = [sink EXCEPT ![r] = "ended"] /\ UNCHANGED client
       ELSE client' = [client EXCEPT ![r] = "gone"] /\ UNCHANGED sink
  /\ Emit(r, answer[r].status, TRUE)
  /\ UNCHANGED <<answer, trailers>>

\* The upstream stream closes with neither 'error' nor 'end': nothing listens.
UpstreamVanish(r) ==
  /\ Live(r)
  /\ upstream' = [upstream EXCEPT ![r] = "failed"]
  /\ UNCHANGED <<client, answer, trailers, sink, log>>

\* A response that ends with its head: gRPC's trailers-only (lines 797-803).
HeadersOnly(r, a) ==
  /\ upstream[r] = "open"
  /\ upstream' = [upstream EXCEPT ![r] = "done"]
  /\ answer' = [answer EXCEPT ![r] = a]
  /\ sink' = [sink EXCEPT ![r] = "ended"]
  /\ Emit(r, a.status, GotError(a, "absent"))
  /\ UNCHANGED <<client, trailers>>

\* Any other response: head first, then the pipe (lines 804-820).
Response(r, a) ==
  /\ upstream[r] = "open"
  /\ upstream' = [upstream EXCEPT ![r] = "answering"]
  /\ answer' = [answer EXCEPT ![r] = a]
  /\ sink' = [sink EXCEPT ![r] = "head"]
  /\ UNCHANGED <<client, trailers, log>>

Trailers(r, grpc) ==
  /\ upstream[r] = "answering" /\ trailers[r] = "absent"
  /\ trailers' = [trailers EXCEPT ![r] = grpc]
  /\ UNCHANGED <<client, upstream, answer, sink, log>>

\* The response ends: the client's stream ends with the trailers known by now
\* (lines 821-824).
ResponseEnd(r) ==
  /\ upstream[r] = "answering"
  /\ upstream' = [upstream EXCEPT ![r] = "done"]
  /\ sink' = [sink EXCEPT ![r] = "ended"]
  /\ Emit(r, answer[r].status, GotError(answer[r], trailers[r]))
  /\ UNCHANGED <<client, answer, trailers>>

-----------------------------------------------------------------------------
ByClient(r) == \/ \E whole \in BOOLEAN : Request(r, whole)
               \/ Refused(r) \/ BodyEnd(r) \/ ClientGone(r)

ByTarget(r) == \/ UpstreamError(r) \/ UpstreamVanish(r)
               \/ \E a \in Answers : HeadersOnly(r, a) \/ Response(r, a)
               \/ \E grpc \in Grpc : Trailers(r, grpc)
               \/ ResponseEnd(r)

Next == \E r \in Requests : ByClient(r) \/ ByTarget(r)

Spec == Init /\ [][Next]_vars

-----------------------------------------------------------------------------
\* Types of the state above.
TypeOK ==
  /\ client \in [Requests -> {"idle", "sending", "sent", "gone"}]
  /\ upstream \in [Requests -> {"none", "open", "answering", "done", "failed"}]
  /\ answer \in [Requests -> Answers \cup {NoAnswer}]
  /\ trailers \in [Requests -> Grpc]
  /\ sink \in [Requests -> {"none", "head", "ended"}]
  /\ emits \in [Requests -> {0, 1}]
  /\ exchange \in [Requests -> Exchanges \cup {None}]

\* One exchange per stream, never amended: the module implements OneExchange.
Abstract == INSTANCE OneExchange WITH
              taken <- {r \in Requests : upstream[r] # "none"},
              Verdicts <- Exchanges
KeepsOneExchange == Abstract!Spec

\* A client that is gone has left its exchange, whenever it went (line 826).
ClosedIsRecorded == \A r \in Requests : client[r] = "gone" => emits[r] = 1

\* An exchange not errored is of a response that ended, was passed on to its end
\* and whose deciding status, the trailers' grpc-status where there is one, is
\* no error (line 832).
SuccessIsWhole ==
  \A r \in Requests : \A x \in Exchanges : exchange[r] = x /\ ~x.errored =>
    /\ upstream[r] = "done" /\ sink[r] = "ended"
    /\ trailers[r] # "nonzero"
    /\ trailers[r] = "absent" => answer[r].grpc # "nonzero"
=============================================================================
