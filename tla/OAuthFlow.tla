----------------------------- MODULE OAuthFlow ------------------------------
(***************************************************************************)
(* Interactive sign-in: startAuthorizationCodeFlow (engine/oauth.ts) and   *)
(* the handlers that start, settle and cancel it (main/ipc-handlers.ts).   *)
(*                                                                         *)
(* A flow binds a loopback listener, opens the browser and waits for the   *)
(* redirect; the redirect's code is exchanged for a token out of band.     *)
(* The user may open the redirect in several tabs, cancel, or do nothing.  *)
(* Promise continuations that need no event share their event's step: from *)
(* the bind to oauthFlows.set is one step.                                 *)
(***************************************************************************)
EXTENDS Naturals

CONSTANTS
  Flows,     \* calls of the oauthAuthorizeStart handler
  Tabs,      \* requests to a flow's listener
  None       \* no session token yet

ASSUME NoneAssumption == None \notin Flows

Results == {"ok", "failed"}

VARIABLES
  pinned,     \* flows whose redirectUri pins the port (all the same one)
  start,      \* [Flows -> ...] the promise startAuthorizationCodeFlow returns
  listening,  \* flows whose server listens
  timer,      \* flows whose timeout is armed
  settled,    \* [Flows -> "no" or Results] settled, and with what
  told,       \* [Flows -> Nat] calls of onSettled
  oauthFlows, \* the registry of flows that can be cancelled
  tab,        \* [Flows -> [Tabs -> ...]] requests, and the exchange each began
  spent,      \* provider: flows whose code has been exchanged
  session     \* the flow whose token the session holds

outcome == <<settled, told, listening, timer, oauthFlows, session>>
vars == <<pinned, start, listening, timer, settled, told, oauthFlows, tab, spent, session>>

Init ==
  /\ pinned \in SUBSET Flows
  /\ start = [f \in Flows |-> "idle"]
  /\ listening = {}
  /\ timer = {}
  /\ settled = [f \in Flows |-> "no"]
  /\ told = [f \in Flows |-> 0]
  /\ oauthFlows = {}
  /\ tab = [f \in Flows |-> [t \in Tabs |-> "none"]]
  /\ spent = {}
  /\ session = None

-----------------------------------------------------------------------------
\* Variants: every caller reports, and the listener is left open.
FinishEach(f, result) ==
  /\ settled' = [settled EXCEPT ![f] = result]
  /\ told' = [told EXCEPT ![f] = @ + 1]
  /\ listening' = listening \ {f}
  /\ timer' = timer \ {f}
  /\ oauthFlows' = oauthFlows \ {f}
  /\ session' = IF result = "ok" THEN f ELSE session

FinishOpen(f, result) ==
  IF settled[f] = "no"
    THEN /\ settled' = [settled EXCEPT ![f] = result]
         /\ told' = [told EXCEPT ![f] = @ + 1]
         /\ timer' = timer \ {f}
         /\ oauthFlows' = oauthFlows \ {f}
         /\ session' = IF result = "ok" THEN f ELSE session
         /\ UNCHANGED listening
    ELSE UNCHANGED outcome

(***************************************************************************)
(* finish (engine/oauth.ts 341-347) and the onSettled of the handler: the  *)
(* first result counts; timer and listener go, the flow leaves the         *)
(* registry, and a token is put in the session.                            *)
(***************************************************************************)
Finish(f, result) ==
  IF settled[f] = "no"
    THEN /\ settled' = [settled EXCEPT ![f] = result]
         /\ told' = [told EXCEPT ![f] = @ + 1]
         /\ listening' = listening \ {f}
         /\ timer' = timer \ {f}
         /\ oauthFlows' = oauthFlows \ {f}
         /\ session' = IF result = "ok" THEN f ELSE session
    ELSE UNCHANGED outcome

-----------------------------------------------------------------------------
\* The handler, with the checks that reject before anything is bound.
Start(f) ==
  /\ start[f] = "idle"
  /\ \E next \in {"binding", "rejected"} : start' = [start EXCEPT ![f] = next]
  /\ UNCHANGED <<outcome, tab, spent>>

PortTaken(f) == f \in pinned /\ listening \cap pinned # {}

\* The listener cannot start: the promise rejects.
BindFails(f) ==
  /\ start[f] = "binding"
  /\ start' = [start EXCEPT ![f] = "rejected"]
  /\ UNCHANGED <<outcome, tab, spent>>

\* Variant: the timer is armed by the first redirect.
BoundUntimed(f) ==
  /\ start[f] = "binding" /\ ~PortTaken(f)
  /\ start' = [start EXCEPT ![f] = "opened"]
  /\ listening' = listening \cup {f}
  /\ oauthFlows' = oauthFlows \cup {f}
  /\ UNCHANGED <<timer, settled, told, session, tab, spent>>

\* It does: the timer is armed, the browser opened, and the handler registers
\* the flow.
Bound(f) ==
  /\ start[f] = "binding" /\ ~PortTaken(f)
  /\ start' = [start EXCEPT ![f] = "opened"]
  /\ listening' = listening \cup {f}
  /\ timer' = timer \cup {f}
  /\ oauthFlows' = oauthFlows \cup {f}
  /\ UNCHANGED <<settled, told, session, tab, spent>>

\* An authUrl that is no URL makes buildAuthorizeUrl throw (line 414): the
\* promise rejects with the listener and the timer left running.
BoundBadUrl(f) ==
  /\ start[f] = "binding" /\ ~PortTaken(f)
  /\ start' = [start EXCEPT ![f] = "rejected"]
  /\ listening' = listening \cup {f}
  /\ timer' = timer \cup {f}
  /\ UNCHANGED <<settled, told, oauthFlows, session, tab, spent>>

-----------------------------------------------------------------------------
Tab(f, t, is) == tab' = [tab EXCEPT ![f][t] = is]

\* A request reaches the listener; closing it later does not cut the request.
Connect(f, t) ==
  /\ f \in listening /\ tab[f][t] = "none"
  /\ Tab(f, t, "connected")
  /\ UNCHANGED <<start, outcome, spent>>

\* Wrong path or state: answered, and the flow goes on (lines 351-366).
StrayTab(f, t) ==
  /\ tab[f][t] = "connected"
  /\ Tab(f, t, "over")
  /\ UNCHANGED <<start, outcome, spent>>

\* The provider's own error, or no code.  Only an opened browser knows `state`.
FailedRedirect(f, t) ==
  /\ tab[f][t] = "connected" /\ start[f] = "opened"
  /\ Tab(f, t, "over")
  /\ Finish(f, "failed")
  /\ UNCHANGED <<start, spent>>

\* Variant: signed in as soon as there is a code.
RedirectTrusted(f, t) ==
  /\ tab[f][t] = "connected" /\ start[f] = "opened"
  /\ Tab(f, t, "asked")
  /\ Finish(f, "ok")
  /\ UNCHANGED <<start, spent>>

\* A code: the browser is told "Signed in" and the exchange begins, whether or
\* not another tab began one and whether or not the flow is over.
Redirect(f, t) ==
  /\ tab[f][t] = "connected" /\ start[f] = "opened"
  /\ Tab(f, t, "asked")
  /\ UNCHANGED <<start, outcome, spent>>

\* The provider grants a code once; its answer may get lost.
Grant(f, t) ==
  /\ tab[f][t] = "asked" /\ f \notin spent
  /\ spent' = spent \cup {f}
  /\ \E answer \in {"granted", "denied"} : Tab(f, t, answer)
  /\ UNCHANGED <<start, outcome>>

Deny(f, t) ==
  /\ tab[f][t] = "asked"
  /\ Tab(f, t, "denied")
  /\ UNCHANGED <<start, outcome, spent>>

\* exchangeAuthCode settles (lines 387-389).
Exchanged(f, t) ==
  /\ tab[f][t] \in {"granted", "denied"}
  /\ Tab(f, t, "over")
  /\ Finish(f, IF tab[f][t] = "granted" THEN "ok" ELSE "failed")
  /\ UNCHANGED <<start, spent>>

Timeout(f) ==
  /\ f \in timer
  /\ Finish(f, "failed")
  /\ UNCHANGED <<start, tab, spent>>

ServerError(f) ==
  /\ f \in listening
  /\ Finish(f, "failed")
  /\ UNCHANGED <<start, tab, spent>>

\* oauthAuthorizeCancel: for a flow the registry knows.
Cancel(f) ==
  /\ f \in oauthFlows
  /\ Finish(f, "failed")
  /\ UNCHANGED <<start, tab, spent>>

-----------------------------------------------------------------------------
Starting(f) == Start(f) \/ BindFails(f) \/ Bound(f) \/ BoundBadUrl(f)

InTab(f, t) ==
  \/ Connect(f, t) \/ StrayTab(f, t) \/ FailedRedirect(f, t) \/ Redirect(f, t)
  \/ Grant(f, t) \/ Deny(f, t) \/ Exchanged(f, t)

Ending(f) == Timeout(f) \/ ServerError(f) \/ Cancel(f)

Step(f) == Starting(f) \/ Ending(f) \/ \E t \in Tabs : InTab(f, t)

Next == UNCHANGED pinned /\ \E f \in Flows : Step(f)

\* Fairness: an armed timer fires.  Nothing else has to happen: not the sign-in,
\* not the provider's answer.
Fairness == \A f \in Flows : WF_vars(UNCHANGED pinned /\ Timeout(f))

Spec == Init /\ [][Next]_vars /\ Fairness

-----------------------------------------------------------------------------
\* Types of the state above.
TypeOK ==
  /\ pinned \subseteq Flows
  /\ start \in [Flows -> {"idle", "binding", "opened", "rejected"}]
  /\ listening \subseteq Flows
  /\ timer \subseteq Flows
  /\ settled \in [Flows -> Results \cup {"no"}]
  /\ told \in [Flows -> {0, 1}]
  /\ oauthFlows \subseteq Flows
  /\ tab \in [Flows -> [Tabs -> {"none", "connected", "asked", "granted", "denied", "over"}]]
  /\ spent \subseteq Flows
  /\ session \in Flows \cup {None}

\* "Exactly once" (line 289), as far as safety goes: one result per flow, never
\* revised, though a redirect, an exchange, the timer, an error and the user all
\* report.
Abstract == INSTANCE OneExchange WITH
              Requests <- Flows, Verdicts <- Results, None <- "no",
              taken <- {f \in Flows : start[f] \in {"opened", "rejected"}},
              emits <- told, exchange <- settled
SettlesOnce == Abstract!Spec

\* A flow that is over holds no listener (with a pinned port, the next sign-in
\* needs it), no timer and no place in the registry; one that is not can still
\* end by the redirect, by the timer and by the user.
OpenOrClean ==
  \A f \in Flows :
    /\ settled[f] # "no" => f \notin listening \cup timer \cup oauthFlows
    /\ start[f] = "opened" /\ settled[f] = "no" => f \in listening \cap timer \cap oauthFlows
    /\ f \in listening => f \in timer

\* A flow succeeds only by a code the provider exchanged, and the session's
\* token is that of a flow that succeeded: a failure never leaves one behind.
SignedInMeansGranted ==
  /\ \A f \in Flows : settled[f] = "ok" => f \in spent /\ start[f] = "opened"
  /\ session # None => settled[session] = "ok"

\* Every listener is temporary, even that of a start that was rejected after it
\* was bound; a flow that was opened ends.
FlowsEnd ==
  \A f \in Flows : f \in listening \/ (start[f] = "opened" /\ settled[f] = "no")
                     ~> f \notin listening /\ told[f] = 1

\* Each flow ends, and by a granted code when it ends in a sign-in.
FlowsEndWell == FlowsEnd /\ []SignedInMeansGranted
=============================================================================
