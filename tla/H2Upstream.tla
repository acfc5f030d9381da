----------------------------- MODULE H2Upstream -----------------------------
(***************************************************************************)
(* How a RecordProxyServer (engine/record-proxy.ts) decides over which     *)
(* protocol an HTTP/2 client stream goes to the target: targetSpeaksH2 and *)
(* probeH2 ask the target once and cache the answer, h2Session keeps one   *)
(* upstream session, handleH2Stream dispatches, and start and stop reset   *)
(* all three between runs of the same server.                              *)
(*                                                                         *)
(* The target's side is the environment: Targets that speak HTTP/2 answer  *)
(* a connection with SETTINGS, the others with something that is not an    *)
(* HTTP/2 frame, and any connection may fail or never answer.              *)
(***************************************************************************)
EXTENDS Naturals

CONSTANTS
  Targets,    \* origins a run can be started for
  SpeaksH2,   \* those that speak HTTP/2
  Streams,    \* client streams, each used once
  Probes,     \* probe sessions, each used once
  MaxRuns,    \* bound: starts of the one server
  None        \* undefined

ASSUME UpstreamAssumption ==
  None \notin Targets \cup Probes /\ SpeaksH2 \subseteq Targets /\ MaxRuns \in Nat

Answers == {"unknown", "yes", "no"}    \* this.h2Support
Asking  == {"dialing", "connected"}    \* a probe that has not settled

VARIABLES
  state,       \* this._state, with the wait inside stop() told apart
  target,      \* this.target
  run,         \* history: number of starts so far
  h2Support,   \* this.h2Support
  orphaned,    \* history: a probe of an earlier run made this one forget its own
  h2Probe,     \* this.h2Probe: the probe later askers share
  probe,       \* [Probes -> ...] the probe sessions
  stray,       \* history: h2Support was written by another target's probe or session
  h2Upstream,  \* this.h2Upstream: the shared upstream session, or None
  stream       \* [Streams -> ...] the client streams

vars == <<state, target, run, h2Support, stray, orphaned, h2Probe, probe, h2Upstream, stream>>

Unused == [phase |-> "unused", target |-> None, run |-> 0]
Absent == [at |-> "absent", probe |-> None, over |-> None]

Init ==
  /\ state = "stopped"
  /\ target = None
  /\ run = 0
  /\ h2Support = "unknown"
  /\ stray = FALSE /\ orphaned = FALSE
  /\ h2Probe = None
  /\ probe = [p \in Probes |-> Unused]
  /\ h2Upstream = None
  /\ stream = [s \in Streams |-> Absent]

Waiting(p) == {s \in Streams : stream[s].at = "waiting" /\ stream[s].probe = p}
Live       == {s \in Streams : stream[s].at \in {"waiting", "h1", "h2"}}

-----------------------------------------------------------------------------
(***************************************************************************)
(* forwardH2 opens a stream on the shared session, which h2Session dials   *)
(* to this.target unless one is open; forward goes over HTTP/1.1.  `over`  *)
(* is the target the stream's request really goes to.                      *)
(***************************************************************************)
SharedSession == IF h2Upstream # None THEN h2Upstream ELSE [target |-> target, answered |-> FALSE]

OverH2(S) ==
  /\ h2Upstream' = SharedSession
  /\ stream' = [s \in Streams |->
       IF s \in S THEN [at |-> "h2", probe |-> None, over |-> SharedSession.target] ELSE stream[s]]

OverH1(S) ==
  /\ stream' = [s \in Streams |->
       IF s \in S THEN [at |-> "h1", probe |-> None, over |-> target] ELSE stream[s]]
  /\ UNCHANGED h2Upstream

\* A new h2 stream reaches the server: also while stop() waits, from a client
\* that is still connected.
Serving == state \in {"listening", "stopping"}

\* gRPC is pinned to HTTP/2 without asking (line 667).
GrpcStream(s) ==
  /\ Serving /\ stream[s].at = "absent"
  /\ OverH2({s})
  /\ UNCHANGED <<state, target, run, h2Support, stray, orphaned, h2Probe, probe>>

\* Any other stream, when the answer is known.
KnownStream(s) ==
  /\ Serving /\ stream[s].at = "absent"
  /\ h2Support # "unknown"
  /\ IF h2Support = "yes" THEN OverH2({s}) ELSE OverH1({s})
  /\ UNCHANGED <<state, target, run, h2Support, stray, orphaned, h2Probe, probe>>

Wait(s, p) == stream' = [stream EXCEPT ![s] = [at |-> "waiting", probe |-> p, over |-> None]]

\* Any other stream, when it is not: it waits for the probe in flight, or dials
\* one (line 589).
SharedProbe(s) ==
  /\ Serving /\ stream[s].at = "absent"
  /\ h2Support = "unknown" /\ h2Probe # None
  /\ Wait(s, h2Probe)
  /\ UNCHANGED <<state, target, run, h2Support, stray, orphaned, h2Probe, probe, h2Upstream>>

\* Variant: the probe is not remembered.
NewProbeUnshared(s, p) ==
  /\ Serving /\ stream[s].at = "absent"
  /\ h2Support = "unknown"
  /\ probe[p].phase = "unused"
  /\ probe' = [probe EXCEPT ![p] = [phase |-> "dialing", target |-> target, run |-> run]]
  /\ Wait(s, p)
  /\ UNCHANGED <<state, target, run, h2Support, stray, orphaned, h2Probe, h2Upstream>>

NewProbe(s, p) ==
  /\ Serving /\ stream[s].at = "absent"
  /\ h2Support = "unknown" /\ h2Probe = None
  /\ probe[p].phase = "unused"
  /\ probe' = [probe EXCEPT ![p] = [phase |-> "dialing", target |-> target, run |-> run]]
  /\ h2Probe' = p
  /\ Wait(s, p)
  /\ UNCHANGED <<state, target, run, h2Support, stray, orphaned, h2Upstream>>

-----------------------------------------------------------------------------
(***************************************************************************)
(* finish (lines 610-617) and what the settled promise runs in the same    *)
(* tick: .finally clears h2Probe, whichever probe that is by now, and the  *)
(* askers that are still there are dispatched.                             *)
(***************************************************************************)
FinishProbe(p, answer, definitive) ==
  /\ probe' = [probe EXCEPT ![p].phase = "settled"]
  /\ h2Support' = IF definitive THEN answer ELSE h2Support
  /\ stray' = IF definitive THEN probe[p].target # target ELSE stray
  /\ orphaned' = (orphaned \/ h2Probe \notin {None, p})
  /\ h2Probe' = None
  /\ IF answer = "yes" /\ Waiting(p) # {}
       THEN OverH2(Waiting(p))
       ELSE OverH1(Waiting(p))
  /\ UNCHANGED <<state, target, run>>

\* TCP (and TLS) is up.
ProbeConnect(p) ==
  /\ probe[p].phase = "dialing"
  /\ probe' = [probe EXCEPT ![p].phase = "connected"]
  /\ UNCHANGED <<state, target, run, h2Support, stray, orphaned, h2Probe, h2Upstream, stream>>

\* The peer's SETTINGS.
ProbeSettings(p) ==
  /\ probe[p].phase = "connected" /\ probe[p].target \in SpeaksH2
  /\ FinishProbe(p, "yes", TRUE)

\* A connected session fails on HTTP/2 framing: the peer speaks something else.
ProbeFraming(p) ==
  /\ probe[p].phase = "connected" /\ probe[p].target \notin SpeaksH2
  /\ FinishProbe(p, "no", TRUE)

\* Variants: a failed connect cached as "no", and a timer armed only once
\* connected.
ProbeInconclusiveIsNo(p) ==
  /\ probe[p].phase \in Asking
  /\ FinishProbe(p, "no", TRUE)

ProbeTimerAfterConnect(p) ==
  /\ probe[p].phase = "connected"
  /\ FinishProbe(p, "no", FALSE)

\* Refused, unreachable, closed, or two seconds have passed: nothing is proven.
ProbeInconclusive(p) ==
  /\ probe[p].phase \in Asking
  /\ FinishProbe(p, "no", FALSE)

\* The shared session's first SETTINGS latch the answer too (lines 555-557).
SessionSettings ==
  /\ h2Upstream # None /\ ~h2Upstream.answered
  /\ h2Upstream.target \in SpeaksH2
  /\ h2Upstream' = [h2Upstream EXCEPT !.answered = TRUE]
  /\ h2Support' = "yes"
  /\ stray' = (h2Upstream.target # target)
  /\ UNCHANGED <<state, target, run, orphaned, h2Probe, probe, stream>>

Gone(S) == stream' = [s \in Streams |->
             IF s \in S THEN [at |-> "gone", probe |-> None, over |-> stream[s].over]
                        ELSE stream[s]]

\* Variant: losing the session also forgets what it had proven.
SessionLostForgets ==
  /\ h2Upstream # None
  /\ h2Upstream' = None
  /\ h2Support' = "unknown"
  /\ stray' = FALSE
  /\ Gone({s \in Streams : stream[s].at = "h2"})
  /\ UNCHANGED <<state, target, run, orphaned, h2Probe, probe>>

\* The shared session errors or closes: it is forgotten, its requests fail.
SessionLost ==
  /\ h2Upstream # None
  /\ h2Upstream' = None
  /\ Gone({s \in Streams : stream[s].at = "h2"})
  /\ UNCHANGED <<state, target, run, h2Support, stray, orphaned, h2Probe, probe>>

\* A stream ends, however it does: answered, reset, or its client left.
StreamEnd(s) ==
  /\ s \in Live
  /\ Gone({s})
  /\ UNCHANGED <<state, target, run, h2Support, stray, orphaned, h2Probe, probe, h2Upstream>>

-----------------------------------------------------------------------------
\* start() for some target: the answer and the probe of an earlier run are
\* dropped (lines 1027-1029), the session is not mentioned.
StartRun(t) ==
  /\ state = "stopped" /\ run < MaxRuns
  /\ state' = "listening"
  /\ target' = t
  /\ run' = run + 1
  /\ h2Support' = "unknown"
  /\ stray' = FALSE /\ orphaned' = FALSE
  /\ h2Probe' = None
  /\ UNCHANGED <<probe, h2Upstream, stream>>

\* stop() up to its await: upstream requests and the shared session are
\* destroyed, the answer and the probe dropped, new connections refused.
StopBegin ==
  /\ state = "listening"
  /\ state' = "stopping"
  /\ h2Upstream' = None
  /\ h2Support' = "unknown"
  /\ stray' = FALSE /\ orphaned' = FALSE
  /\ h2Probe' = None
  /\ Gone({s \in Streams : stream[s].at \in {"h1", "h2"}})
  /\ UNCHANGED <<target, run, probe>>

\* The half-second timer destroys what is still connected.
DestroySockets ==
  /\ state = "stopping" /\ Live # {}
  /\ Gone(Live)
  /\ UNCHANGED <<state, target, run, h2Support, stray, orphaned, h2Probe, probe, h2Upstream>>

\* Every connection is closed: stop() resolves.
StopEnd ==
  /\ state = "stopping" /\ Live = {}
  /\ state' = "stopped"
  /\ UNCHANGED <<target, run, h2Support, stray, orphaned, h2Probe, probe, h2Upstream, stream>>

-----------------------------------------------------------------------------
Arrive(s) ==
  \/ GrpcStream(s) \/ KnownStream(s) \/ SharedProbe(s)
  \/ \E p \in Probes : NewProbe(s, p)

ProbeAnswer(p) == ProbeConnect(p) \/ ProbeSettings(p) \/ ProbeFraming(p)

Next ==
  \/ \E s \in Streams : Arrive(s) \/ StreamEnd(s)
  \/ \E p \in Probes : ProbeAnswer(p) \/ ProbeInconclusive(p)
  \/ SessionSettings \/ SessionLost
  \/ \E t \in Targets : StartRun(t)
  \/ StopBegin \/ DestroySockets \/ StopEnd

(***************************************************************************)
(* Fairness: the probe's two-second timer and the stop's half-second timer *)
(* fire.  No peer is assumed to answer.                                    *)
(***************************************************************************)
Fairness ==
  /\ \A p \in Probes : WF_vars(ProbeInconclusive(p))
  /\ WF_vars(DestroySockets) /\ WF_vars(StopEnd)

Spec == Init /\ [][Next]_vars /\ Fairness

-----------------------------------------------------------------------------
\* Types of the state above.
TypeOK ==
  /\ state \in {"stopped", "listening", "stopping"}
  /\ target \in Targets \cup {None}
  /\ run \in 0 .. MaxRuns
  /\ h2Support \in Answers
  /\ stray \in BOOLEAN /\ orphaned \in BOOLEAN
  /\ h2Probe \in Probes \cup {None}
  /\ probe \in [Probes -> [phase : Asking \cup {"unused", "settled"},
                           target : Targets \cup {None}, run : 0 .. MaxRuns]]
  /\ h2Upstream \in [target : Targets, answered : BOOLEAN] \cup {None}
  /\ stream \in [Streams -> [at : {"absent", "waiting", "h1", "h2", "gone"},
                             probe : Probes \cup {None}, over : Targets \cup {None}]]

\* The cached answer is the current target's own: a target that speaks HTTP/2 is
\* never taken for one that does not, which would downgrade it for the rest of
\* the run, nor the reverse (lines 569-577 and 1027).
AnswerIsTheTargets ==
  h2Support # "unknown" => (h2Support = "yes") = (target \in SpeaksH2)

\* What the code does guarantee of it, restarts included: a wrong answer is one
\* that a probe or a session of another target, outliving its run, has written.
OwnAnswerIsTheTargets == stray \/ AnswerIsTheTargets

\* Concurrent askers share one probe (line 578), until a probe of an earlier run
\* settles: its .finally clears the field whoever's promise is in it, and the next
\* asker dials a second one.
OneProbePerRun ==
  orphaned \/
  \A p, q \in Probes :
    /\ probe[p].phase \in Asking /\ probe[q].phase \in Asking
    /\ probe[p].run = run /\ probe[q].run = run /\ state = "listening"
    => p = q

\* However many streams ask at once, and restarts included.
ProbesTellTheTarget == TypeOK /\ OwnAnswerIsTheTargets /\ OneProbePerRun

\* What was learnt in a run is kept for it: the answer changes to another one
\* only when the server stops or starts, or when one of the two is a stray one.
AnswerIsStable ==
  [][h2Support # "unknown" /\ h2Support' # h2Support => state' # state \/ stray \/ stray']_vars

\* A stream that asked is dispatched or gone, even when the target never answers.
AskersAreAnswered ==
  \A s \in Streams : stream[s].at = "waiting" ~> stream[s].at \in {"h1", "h2", "gone"}

\* Who asks is answered, and all of a run alike.
AskersGetOneAnswer == AnswerIsStable /\ AskersAreAnswered
=============================================================================
