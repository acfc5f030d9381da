----------------------------- MODULE ForwardH1 ------------------------------
(***************************************************************************)
(* RecordProxyServer.forward (engine/record-proxy.ts): one client leg, of  *)
(* an HTTP/1.1 request or of a downgraded HTTP/2 stream, is piped to an    *)
(* HTTP/1.1 request to the target and its answer piped back, while both    *)
(* are teed into one recorded exchange; and stop(), which ends them all.   *)
(*                                                                         *)
(* Four parties act on a request in any order: the client, which may leave *)
(* at any moment; the target, which may answer before the request is       *)
(* complete, never answer, end, reset or drop its connection; the pipes;   *)
(* and the user who stops the proxy.                                       *)
(***************************************************************************)
EXTENDS Naturals

CONSTANTS
  Requests,   \* client requests, each used once
  None        \* no exchange yet

ASSUME NoneAssumption == None \notin [status : {"none", "good", "error"},
                                      stream : BOOLEAN, errored : BOOLEAN]

(***************************************************************************)
(* An exchange as far as the properties tell exchanges apart: whether it   *)
(* has a response at all (status, headers, body so far), whether that      *)
(* status was an error, and the record's own two flags.                    *)
(***************************************************************************)
Statuses  == {"none", "good", "error"}
Exchanges == [status : Statuses, stream : BOOLEAN, errored : BOOLEAN]

VARIABLES
  server,    \* "listening", "stopping" during stop()'s wait, "stopped"
  client,    \* [Requests -> "idle", "sending" its body, "sent" it, "gone"]
  upstream,  \* [Requests -> ...] the request to the target
  answer,    \* [Requests -> ...] the target's response head
  sink,      \* [Requests -> "none", "head", "ended", "destroyed"] what the leg was given
  stalled,   \* requests whose response is paused on a sink that is gone
  doomed,    \* requests whose upstream was destroyed and has not said so yet
  emits,     \* [Requests -> Nat] exchanges emitted for each
  exchange   \* [Requests -> Exchanges or None] the last of them

log  == <<emits, exchange>>
vars == <<server, client, upstream, answer, sink, stalled, doomed, emits, exchange>>

NoAnswer == [status |-> "none", sse |-> FALSE]
Answers  == [status : Statuses \ {"none"}, sse : BOOLEAN]

Init ==
  /\ server = "listening"
  /\ client = [r \in Requests |-> "idle"]
  /\ upstream = [r \in Requests |-> "none"]
  /\ answer = [r \in Requests |-> NoAnswer]
  /\ sink = [r \in Requests |-> "none"]
  /\ stalled = {}
  /\ doomed = {}
  /\ emits = [r \in Requests |-> 0]
  /\ exchange = [r \in Requests |-> None]

Here(r) == client[r] \in {"sending", "sent"}

-----------------------------------------------------------------------------
(***************************************************************************)
(* emitExchange (lines 467-499): the first terminal event wins.  `status`  *)
(* is "none" where the code passes no response.                            *)
(***************************************************************************)
Exchange(status, stream, errored) == [status |-> status, stream |-> stream, errored |-> errored]

\* Variant: whoever comes emits.
EmitEach(R, x) ==
  /\ emits' = [r \in Requests |-> IF r \in R THEN emits[r] + 1 ELSE emits[r]]
  /\ exchange' = [r \in Requests |-> IF r \in R THEN x[r] ELSE exchange[r]]

Emit(R, x) ==
  LET first == {r \in R : emits[r] = 0} IN
  /\ emits' = [r \in Requests |-> IF r \in first THEN 1 ELSE emits[r]]
  /\ exchange' = [r \in Requests |-> IF r \in first THEN x[r] ELSE exchange[r]]

(***************************************************************************)
(* What the three ends of a response record: line 531, line 527 and line   *)
(* 538.  Only the first looks at the status.                               *)
(***************************************************************************)
Ended      == [r \in Requests |-> Exchange(answer[r].status, FALSE, answer[r].status = "error")]
Capped     == [r \in Requests |-> Exchange(answer[r].status, TRUE, FALSE)]
Dropped    == [r \in Requests |-> Exchange(answer[r].status, TRUE, FALSE)]
Broken     == [r \in Requests |-> Exchange(answer[r].status, FALSE, TRUE)]
NoResponse == [r \in Requests |-> Exchange("none", FALSE, TRUE)]

-----------------------------------------------------------------------------
\* forward(): the request is dialed before its body is complete.  A client that
\* is still connected can send a request while stop() waits.
Request(r, whole) ==
  /\ server \in {"listening", "stopping"}
  /\ client[r] = "idle"
  /\ client' = [client EXCEPT ![r] = IF whole THEN "sent" ELSE "sending"]
  /\ upstream' = [upstream EXCEPT ![r] = "open"]
  /\ UNCHANGED <<server, answer, sink, stalled, doomed, log>>

\* The rest of the body arrives: pipe ends the upstream request.
BodyEnd(r) ==
  /\ client[r] = "sending"
  /\ client' = [client EXCEPT ![r] = "sent"]
  /\ UNCHANGED <<server, upstream, answer, sink, stalled, doomed, log>>

(***************************************************************************)
(* The client's end of the connection closes.  The handler that destroys   *)
(* the upstream and records what came so far is registered by the          *)
(* 'response' handler (line 536): before the target has answered nothing   *)
(* listens.                                                                *)
(***************************************************************************)
Watched(r) == upstream[r] \in {"answering", "done", "failed"} /\ answer[r] # NoAnswer

\* Variant: the upstream is destroyed and nothing recorded.
CloseEffectSilent(R) ==
  /\ upstream' = [r \in Requests |->
       IF r \in R /\ upstream[r] = "answering" THEN "failed" ELSE upstream[r]]
  /\ doomed' = doomed \ {r \in R : Watched(r)}
  /\ UNCHANGED log

CloseEffect(R) ==
  /\ upstream' = [r \in Requests |->
       IF r \in R /\ upstream[r] = "answering" THEN "failed" ELSE upstream[r]]
  /\ doomed' = doomed \ {r \in R : Watched(r)}
  /\ Emit({r \in R : Watched(r)}, Dropped)

ClientGone(r) ==
  /\ Here(r)
  /\ client' = [client EXCEPT ![r] = "gone"]
  /\ CloseEffect({r})
  /\ UNCHANGED <<server, answer, sink, stalled>>

-----------------------------------------------------------------------------
(***************************************************************************)
(* upstream 'error' (lines 501-509).  Before the head it becomes a 502;    *)
(* after it, which only a reset socket causes, the leg is destroyed too    *)
(* and the client sees its connection close.                               *)
(***************************************************************************)
\* Variant: the exchange is left to whoever comes next.
UpstreamErrorUnrecorded(r) ==
  /\ upstream[r] = "open"
  /\ upstream' = [upstream EXCEPT ![r] = "failed"]
  /\ sink' = [sink EXCEPT ![r] = "ended"]
  /\ doomed' = doomed \ {r}
  /\ UNCHANGED <<server, client, answer, stalled, log>>

UpstreamError(r) ==
  /\ upstream[r] = "open"
  /\ upstream' = [upstream EXCEPT ![r] = "failed"]
  /\ sink' = [sink EXCEPT ![r] = "ended"]
  /\ doomed' = doomed \ {r}
  /\ Emit({r}, NoResponse)
  /\ UNCHANGED <<server, client, answer, stalled>>

UpstreamReset(r) ==
  /\ upstream[r] = "answering" /\ r \notin doomed
  /\ upstream' = [upstream EXCEPT ![r] = "failed"]
  /\ sink' = [sink EXCEPT ![r] = "destroyed"]
  /\ client' = [client EXCEPT ![r] = "gone"]
  /\ Emit({r}, NoResponse)
  /\ UNCHANGED <<server, answer, stalled, doomed>>

\* upstream 'response' (lines 511-529): the head goes out and the pipe starts.
Response(r, a) ==
  /\ upstream[r] = "open" /\ r \notin doomed
  /\ upstream' = [upstream EXCEPT ![r] = "answering"]
  /\ answer' = [answer EXCEPT ![r] = a]
  /\ sink' = [sink EXCEPT ![r] = "head"]
  /\ UNCHANGED <<server, client, stalled, doomed, log>>

Flowing(r) == upstream[r] = "answering" /\ r \notin doomed \cup stalled

\* An event stream fills the preview (line 527): recorded while it goes on.
SseFull(r) ==
  /\ Flowing(r) /\ answer[r].sse
  /\ Emit({r}, Capped)
  /\ UNCHANGED <<server, client, upstream, answer, sink, stalled, doomed>>

\* The pipe writes to a response whose client left before the head: the write
\* returns false, the response is paused, and no 'drain' will come.
Stall(r) ==
  /\ Flowing(r) /\ client[r] = "gone"
  /\ stalled' = stalled \cup {r}
  /\ UNCHANGED <<server, client, upstream, answer, sink, doomed, log>>

\* The response ends: pipe ends the sink, then the exchange is emitted.
ResponseEnd(r) ==
  /\ Flowing(r)
  /\ upstream' = [upstream EXCEPT ![r] = "done"]
  /\ sink' = [sink EXCEPT ![r] = "ended"]
  /\ Emit({r}, Ended)
  /\ UNCHANGED <<server, client, answer, stalled, doomed>>

\* Variant: a response that breaks off counts as one that ended.
ResponseCutIsEnd(r) ==
  /\ upstream[r] = "answering"
  /\ upstream' = [upstream EXCEPT ![r] = "failed"]
  /\ doomed' = doomed \ {r}
  /\ Emit({r}, Ended)
  /\ UNCHANGED <<server, client, answer, sink, stalled>>

\* The target closes in the middle of its response, or the upstream was
\* destroyed: only the response errors (line 534), pipe does not end the sink.
ResponseCut(r) ==
  /\ upstream[r] = "answering"
  /\ upstream' = [upstream EXCEPT ![r] = "failed"]
  /\ doomed' = doomed \ {r}
  /\ Emit({r}, Broken)
  /\ UNCHANGED <<server, client, answer, sink, stalled>>

-----------------------------------------------------------------------------
\* stop() up to its await (lines 1150-1158): upstream requests are destroyed;
\* their events follow.
StopBegin ==
  /\ server = "listening"
  /\ server' = "stopping"
  /\ doomed' = {r \in Requests : upstream[r] \in {"open", "answering"}}
  /\ UNCHANGED <<client, upstream, answer, sink, stalled, log>>

\* Variant: no such timer.
DestroySocketsNever == FALSE /\ UNCHANGED vars

\* The half-second timer (lines 1172-1175) destroys every client connection.
DestroySockets ==
  /\ server = "stopping"
  /\ \E r \in Requests : Here(r)
  /\ client' = [r \in Requests |-> IF Here(r) THEN "gone" ELSE client[r]]
  /\ CloseEffect({r \in Requests : Here(r)})
  /\ UNCHANGED <<server, answer, sink, stalled>>

StopEnd ==
  /\ server = "stopping"
  /\ \A r \in Requests : ~Here(r)
  /\ server' = "stopped"
  /\ UNCHANGED <<client, upstream, answer, sink, stalled, doomed, log>>

-----------------------------------------------------------------------------
ByClient(r) == \/ \E whole \in BOOLEAN : Request(r, whole)
               \/ BodyEnd(r) \/ ClientGone(r)

ByTarget(r) == \/ UpstreamError(r) \/ UpstreamReset(r)
               \/ \E a \in Answers : Response(r, a)
               \/ SseFull(r) \/ Stall(r) \/ ResponseEnd(r) \/ ResponseCut(r)

Next ==
  \/ \E r \in Requests : ByClient(r) \/ ByTarget(r)
  \/ StopBegin \/ DestroySockets \/ StopEnd

(***************************************************************************)
(* Fairness.  The runtime: a destroyed upstream says so, the timer fires,  *)
(* stop() resolves.  The target: it answers a complete request or fails,   *)
(* and what it answers ends, breaks off or, an event stream, fills the     *)
(* preview.  The client owes nothing.                                      *)
(***************************************************************************)
TargetAnswers(r) ==
  client[r] \in {"sent", "gone"} /\ ((\E a \in Answers : Response(r, a)) \/ UpstreamError(r))

Fairness ==
  /\ \A r \in Requests : WF_vars(r \in doomed /\ (UpstreamError(r) \/ ResponseCut(r)))
  /\ \A r \in Requests : WF_vars(client[r] = "sent" /\ TargetAnswers(r))
  /\ \A r \in Requests : WF_vars(~answer[r].sse /\ (Stall(r) \/ ResponseEnd(r)))
  /\ \A r \in Requests : WF_vars(SseFull(r))
  /\ WF_vars(DestroySockets) /\ WF_vars(StopEnd)

Spec == Init /\ [][Next]_vars /\ Fairness

-----------------------------------------------------------------------------
\* Types of the state above.  What stop() destroys is still in progress.
TypeOK ==
  /\ server \in {"listening", "stopping", "stopped"}
  /\ client \in [Requests -> {"idle", "sending", "sent", "gone"}]
  /\ upstream \in [Requests -> {"none", "open", "answering", "done", "failed"}]
  /\ answer \in [Requests -> Answers \cup {NoAnswer}]
  /\ sink \in [Requests -> {"none", "head", "ended", "destroyed"}]
  /\ stalled \subseteq Requests
  /\ doomed \subseteq {r \in Requests : upstream[r] \in {"open", "answering"}}
  /\ emits \in [Requests -> {0, 1}]
  /\ exchange \in [Requests -> Exchanges \cup {None}]

\* One exchange per request, never amended, and none before the request was
\* taken (line 467): the module implements OneExchange.
Abstract == INSTANCE OneExchange WITH
              taken <- {r \in Requests : upstream[r] # "none"},
              Verdicts <- Exchanges
KeepsOneExchange == Abstract!Spec

\* However a request to the target ends, its exchange has been emitted by then:
\* no order of the events loses it.
OverIsRecorded ==
  \A r \in Requests : upstream[r] \in {"done", "failed"} => emits[r] = 1

\* An exchange that does not call itself partial or errored is of a response
\* that the target ended, that was passed on to its end and whose status was
\* no error; one without a response is errored.
RecordTellsTheTruth ==
  \A r \in Requests : \A x \in Exchanges : exchange[r] = x =>
    /\ ~x.stream /\ ~x.errored =>
         /\ upstream[r] = "done" /\ sink[r] = "ended"
         /\ x.status = "good" /\ answer[r].status = "good"
    /\ x.status = "none" => x.errored

\* A response that began to reach its client is recorded, whether the target
\* ends it, breaks it off or streams for ever, and whether the client stays.
DeliveredIsRecorded ==
  \A r \in Requests : sink[r] = "head" /\ Here(r) ~> emits[r] = 1

\* What is in flight when the proxy is stopped is recorded.
InFlightAtStopIsRecorded == \A r \in Requests : r \in doomed ~> emits[r] = 1

\* stop() resolves whatever clients and target do.
StopResolves == server = "stopping" ~> server = "stopped"

\* Neither a stop nor a client that stays keeps anything from its end.
AllIsRecordedInTime == DeliveredIsRecorded /\ InFlightAtStopIsRecorded /\ StopResolves
=============================================================================
