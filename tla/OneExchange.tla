---------------------------- MODULE OneExchange -----------------------------
(***************************************************************************)
(* What the record proxy promises about each request it takes: one         *)
(* exchange, whichever terminal event fires first (engine/record-proxy.ts, *)
(* comment at line 467).  ForwardH1, ForwardH2, WsRelay and MqttRelay are    *)
(* the four ways it is kept; OAuthFlow gives one result in the same sense. *)
(***************************************************************************)
EXTENDS Naturals

CONSTANTS
  Requests,   \* requests, upgrades included
  Verdicts,   \* what an exchange can say about its request
  None        \* no exchange

VARIABLES
  taken,      \* requests the proxy has begun to forward
  emits,      \* [Requests -> Nat] how many exchanges each has given
  exchange    \* [Requests -> Verdicts or None] the last of them

vars == <<taken, emits, exchange>>

Init ==
  /\ taken = {}
  /\ emits = [r \in Requests |-> 0]
  /\ exchange = [r \in Requests |-> None]

\* An exchange is of a request that was taken, is emitted once and is never
\* amended.
EmitsOnce(r) ==
  \/ emits'[r] = emits[r] /\ exchange'[r] = exchange[r]
  \/ /\ r \in taken'
     /\ emits[r] = 0 /\ emits'[r] = 1
     /\ exchange'[r] \in Verdicts

\* Several requests can be taken and several can end in one step, as when a
\* connection that carries them closes; none is given back.
Next ==
  /\ taken \subseteq taken' /\ taken' \subseteq Requests
  /\ \A r \in Requests : EmitsOnce(r)

Spec == Init /\ [][Next]_vars
=============================================================================
