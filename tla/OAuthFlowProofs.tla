-------------------------- MODULE OAuthFlowProofs ---------------------------
(***************************************************************************)
(* Proofs about OAuthFlow, for any number of flows and of tabs.            *)
(*                                                                         *)
(* The inductive invariant is TypeOK /\ Sane.  Beyond what the properties  *)
(* say, Sane counts the calls of onSettled, keeps a flow that has not been *)
(* bound free of everything, and remembers of a request where it can come  *)
(* from: one that carries a code was sent by a browser the flow opened,    *)
(* and one whose code was granted has spent it.                            *)
(***************************************************************************)
EXTENDS OAuthFlow, TLAPS

Begun == {"asked", "granted", "denied"}

Unbound(f) ==
  start[f] \in {"idle", "binding"} =>
    settled[f] = "no" /\ f \notin listening \cup timer \cup oauthFlows

Counted(f) == told[f] = IF settled[f] = "no" THEN 0 ELSE 1

Traced(f) ==
  \A t \in Tabs :
    /\ tab[f][t] \in Begun => start[f] = "opened"
    /\ tab[f][t] = "granted" => f \in spent

Sane ==
  /\ \A f \in Flows : Unbound(f) /\ Counted(f) /\ Traced(f)
  /\ OpenOrClean
  /\ SignedInMeansGranted

USE DEF outcome   \* the tuple of what only finish() changes

-----------------------------------------------------------------------------
\* The initial states are typed and sane.
LEMMA InitSane == Init => TypeOK /\ Sane
<1> SUFFICES ASSUME Init PROVE TypeOK /\ Sane
  OBVIOUS
<1>1. TypeOK
  BY DEF Init, TypeOK
<1>2. Sane
  BY NoneAssumption DEF Init, Sane, Unbound, Counted, Traced, Begun, OpenOrClean, SignedInMeansGranted
<1> QED BY <1>1, <1>2

\* finish() keeps the types, whatever it is called with.
LEMMA FinishTypes ==
  ASSUME TypeOK, Sane, NEW f \in Flows, NEW result \in Results, Finish(f, result)
  PROVE  /\ settled' \in [Flows -> Results \cup {"no"}]
         /\ told' \in [Flows -> {0, 1}]
         /\ listening' \subseteq Flows /\ timer' \subseteq Flows /\ oauthFlows' \subseteq Flows
         /\ session' \in Flows \cup {None}
<1>1. CASE settled[f] = "no"
  <2>1. told[f] = 0
    BY <1>1 DEF Sane, Counted
  <2> QED BY <1>1, <2>1 DEF TypeOK, Finish
<1>2. CASE settled[f] # "no"
  BY <1>2 DEF TypeOK, Finish
<1> QED BY <1>1, <1>2

At == {"none", "connected", "asked", "granted", "denied", "over"}

\* A step of one tab keeps the types.
LEMMA TabTypes ==
  ASSUME TypeOK, NEW f \in Flows, NEW t \in Tabs, NEW is \in At, Tab(f, t, is)
  PROVE  tab' \in [Flows -> [Tabs -> At]]
BY DEF TypeOK, Tab, At

\* Every step keeps the types.
LEMMA TypeStep == TypeOK /\ Sane /\ [Next]_vars => TypeOK'
<1> SUFFICES ASSUME TypeOK, Sane, [Next]_vars PROVE TypeOK'
  OBVIOUS
<1>1. CASE UNCHANGED vars
  BY <1>1 DEF TypeOK, vars
<1>2. ASSUME UNCHANGED pinned, NEW f \in Flows, Starting(f) PROVE TypeOK'
  <2>1. CASE Start(f)
    BY <1>2, <2>1 DEF TypeOK, Start
  <2>2. CASE BindFails(f)
    BY <1>2, <2>2 DEF TypeOK, BindFails
  <2>3. CASE Bound(f) \/ BoundBadUrl(f)
    <3>1. /\ \E next \in {"opened", "rejected"} : start' = [start EXCEPT ![f] = next]
          /\ listening' = listening \cup {f} /\ timer' = timer \cup {f}
          /\ oauthFlows' \subseteq oauthFlows \cup {f}
          /\ UNCHANGED <<settled, told, session, tab, spent>>
      BY <2>3 DEF Bound, BoundBadUrl
    <3> QED BY <1>2, <3>1 DEF TypeOK
  <2> QED BY <1>2, <2>1, <2>2, <2>3 DEF Starting
<1>3. ASSUME UNCHANGED pinned, NEW f \in Flows, Ending(f) PROVE TypeOK'
  <2>1. Finish(f, "failed") /\ UNCHANGED <<start, tab, spent>>
    BY <1>3 DEF Ending, Timeout, ServerError, Cancel
  <2> QED BY <1>3, <2>1, FinishTypes DEF TypeOK, Results
<1>4. ASSUME UNCHANGED pinned, NEW f \in Flows, NEW t \in Tabs, InTab(f, t) PROVE TypeOK'
  <2>1. CASE Connect(f, t) \/ StrayTab(f, t) \/ Redirect(f, t) \/ Grant(f, t) \/ Deny(f, t)
    <3>1. \E is \in At : Tab(f, t, is)
      BY <2>1 DEF Connect, StrayTab, Redirect, Grant, Deny, At
    <3>2. tab' \in [Flows -> [Tabs -> At]]
      BY <3>1, TabTypes
    <3>3. /\ UNCHANGED <<start, settled, told, listening, timer, oauthFlows, session>>
          /\ spent' \subseteq spent \cup {f}
      BY <2>1 DEF Connect, StrayTab, Redirect, Grant, Deny
    <3> QED BY <1>4, <3>2, <3>3 DEF TypeOK, At
  <2>2. CASE FailedRedirect(f, t)
    <3>1. tab' \in [Flows -> [Tabs -> At]]
      BY <2>2, TabTypes DEF FailedRedirect, At
    <3> QED BY <1>4, <2>2, <3>1, FinishTypes DEF TypeOK, FailedRedirect, Results, At
  <2>3. CASE Exchanged(f, t)
    <3>1. tab' \in [Flows -> [Tabs -> At]]
      BY <2>3, TabTypes DEF Exchanged, At
    <3> QED BY <1>4, <2>3, <3>1, FinishTypes DEF TypeOK, Exchanged, Results, At
  <2> QED BY <1>4, <2>1, <2>2, <2>3 DEF InTab
<1> QED BY <1>1, <1>2, <1>3, <1>4 DEF Next, Step

-----------------------------------------------------------------------------
\* finish() is sane when it is called for a flow that was bound, and with a
\* token only when its code was exchanged for one.
LEMMA FinishSane ==
  ASSUME TypeOK, Sane, NEW f \in Flows, NEW result \in Results, Finish(f, result),
         start[f] \in {"opened", "rejected"},
         result = "ok" => start[f] = "opened" /\ f \in spent,
         UNCHANGED <<start, spent>>
  PROVE  /\ \A g \in Flows : Unbound(g)' /\ Counted(g)'
         /\ OpenOrClean'
         /\ SignedInMeansGranted'
<1>1. CASE settled[f] # "no"
  BY <1>1 DEF Finish, Sane, Unbound, Counted, OpenOrClean, SignedInMeansGranted
<1>2. CASE settled[f] = "no"
  <2>1. /\ settled' = [settled EXCEPT ![f] = result]
        /\ told' = [told EXCEPT ![f] = @ + 1]
        /\ listening' = listening \ {f}
        /\ timer' = timer \ {f}
        /\ oauthFlows' = oauthFlows \ {f}
        /\ session' = IF result = "ok" THEN f ELSE session
    BY <1>2 DEF Finish
  <2>2. \A g \in Flows : Unbound(g)' /\ Counted(g)'
    BY <1>2, <2>1 DEF TypeOK, Sane, Unbound, Counted, Results
  <2>3. OpenOrClean'
    BY <1>2, <2>1 DEF TypeOK, Sane, OpenOrClean, Results
  <2>4. SignedInMeansGranted'
    BY <1>2, <2>1, NoneAssumption DEF TypeOK, Sane, SignedInMeansGranted, Results
  <2> QED BY <2>2, <2>3, <2>4
<1> QED BY <1>1, <1>2

\* A step of one tab that leaves `spent` no smaller keeps every request traced.
LEMMA TabTraced ==
  ASSUME TypeOK, Sane, NEW f \in Flows, NEW t \in Tabs, NEW is, Tab(f, t, is),
         is \in Begun => start[f] = "opened",
         is = "granted" => f \in spent',
         UNCHANGED start, spent \subseteq spent'
  PROVE  \A g \in Flows : Traced(g)'
BY DEF TypeOK, Sane, Traced, Tab

\* A start touches only a flow nothing is known of yet.
LEMMA StartingSane ==
  ASSUME TypeOK, Sane, NEW f \in Flows, Starting(f)
  PROVE  Sane'
<1>1. start[f] \in {"idle", "binding"} /\ settled[f] = "no" /\ f \notin listening \cup timer \cup oauthFlows
  BY DEF Sane, Unbound, Starting, Start, BindFails, Bound, BoundBadUrl
<1>2. \A t \in Tabs : tab[f][t] \notin Begun
  BY <1>1 DEF Sane, Traced
<1>3. \A g \in Flows \ {f} : start'[g] = start[g] /\ (g \in listening' <=> g \in listening)
        /\ (g \in timer' <=> g \in timer) /\ (g \in oauthFlows' <=> g \in oauthFlows)
  BY DEF TypeOK, Starting, Start, BindFails, Bound, BoundBadUrl
<1>4. UNCHANGED <<settled, told, session, tab, spent>>
  BY DEF Starting, Start, BindFails, Bound, BoundBadUrl
<1>5. Unbound(f)' /\ Traced(f)'
  BY <1>1, <1>2, <1>4 DEF TypeOK, Unbound, Traced, Begun, Starting, Start, BindFails, Bound, BoundBadUrl
<1>6. \A g \in Flows : Unbound(g)' /\ Counted(g)' /\ Traced(g)'
  BY <1>3, <1>4, <1>5 DEF Sane, Unbound, Counted, Traced
<1>7. /\ start'[f] = "opened" => f \in listening' \cap timer' \cap oauthFlows'
      /\ f \in listening' => f \in timer'
  BY <1>1 DEF TypeOK, Starting, Start, BindFails, Bound, BoundBadUrl
<1>8. OpenOrClean'
  BY <1>1, <1>3, <1>4, <1>7 DEF Sane, OpenOrClean
<1>9. SignedInMeansGranted'
  BY <1>1, <1>3, <1>4 DEF Sane, SignedInMeansGranted
<1> QED BY <1>6, <1>8, <1>9 DEF Sane

\* Every step keeps the state sane.
LEMMA SaneStep == TypeOK /\ Sane /\ [Next]_vars => Sane'
<1> SUFFICES ASSUME TypeOK, Sane, [Next]_vars PROVE Sane'
  OBVIOUS
<1>1. CASE UNCHANGED vars
  BY <1>1 DEF Sane, Unbound, Counted, Traced, OpenOrClean, SignedInMeansGranted, vars
<1>2. ASSUME NEW f \in Flows, Starting(f) PROVE Sane'
  BY <1>2, StartingSane
<1>3. ASSUME NEW f \in Flows, Ending(f) PROVE Sane'
  <2>1. Finish(f, "failed") /\ UNCHANGED <<start, tab, spent>>
    BY <1>3 DEF Ending, Timeout, ServerError, Cancel
  <2>2. start[f] \in {"opened", "rejected"}
    BY <1>3 DEF Ending, Timeout, ServerError, Cancel, TypeOK, Sane, Unbound
  <2>3. \A g \in Flows : Traced(g)'
    BY <2>1 DEF Sane, Traced
  <2> QED BY <2>1, <2>2, <2>3, FinishSane DEF Sane, Results
<1>4. ASSUME NEW f \in Flows, NEW t \in Tabs, InTab(f, t) PROVE Sane'
  <2>1. CASE Connect(f, t) \/ StrayTab(f, t) \/ Redirect(f, t) \/ Grant(f, t) \/ Deny(f, t)
    <3>1. UNCHANGED <<start, settled, told, listening, timer, oauthFlows, session>>
      BY <2>1 DEF Connect, StrayTab, Redirect, Grant, Deny
    <3>2. spent \subseteq spent'
      BY <2>1 DEF Connect, StrayTab, Redirect, Grant, Deny
    <3>3. tab[f][t] \in Begun => start[f] = "opened"
      BY DEF Sane, Traced
    <3>4. PICK is : Tab(f, t, is) /\ (is \in Begun => start[f] = "opened")
                                 /\ (is = "granted" => f \in spent')
      BY <2>1, <3>3 DEF Connect, StrayTab, Redirect, Grant, Deny, Begun
    <3>5. \A g \in Flows : Traced(g)'
      BY <3>1, <3>2, <3>4, TabTraced
    <3> QED BY <3>1, <3>2, <3>5 DEF Sane, Unbound, Counted, OpenOrClean, SignedInMeansGranted
  <2>2. CASE FailedRedirect(f, t)
    <3>1. \A g \in Flows : Traced(g)'
      BY <2>2, TabTraced DEF FailedRedirect, Begun
    <3> QED BY <2>2, <3>1, FinishSane DEF FailedRedirect, Sane, Results
  <2>3. CASE Exchanged(f, t)
    <3>1. start[f] = "opened" /\ (tab[f][t] = "granted" => f \in spent)
      BY <2>3 DEF Exchanged, Sane, Traced, Begun
    <3>2. \A g \in Flows : Traced(g)'
      BY <2>3, TabTraced DEF Exchanged, Begun
    <3> QED BY <2>3, <3>1, <3>2, FinishSane DEF Exchanged, Sane, Results
  <2> QED BY <1>4, <2>1, <2>2, <2>3 DEF InTab
<1> QED BY <1>1, <1>2, <1>3, <1>4 DEF Next, Step

-----------------------------------------------------------------------------
(***************************************************************************)
(* Every reachable state is typed and sane: whichever of redirect,         *)
(* exchange, timer, error and user comes first, a flow that is over is     *)
(* clean, one that is not can end, and success means a granted code.       *)
(***************************************************************************)
THEOREM FlowsAreSane == Spec => [](TypeOK /\ OpenOrClean /\ SignedInMeansGranted)
<1>1. TypeOK /\ Sane => TypeOK /\ OpenOrClean /\ SignedInMeansGranted
  BY DEF Sane
<1> QED BY <1>1, InitSane, TypeStep, SaneStep, PTL DEF Spec

-----------------------------------------------------------------------------
taken == {f \in Flows : start[f] \in {"opened", "rejected"}}

\* finish() gives a result that is none yet, or nothing.
LEMMA FinishOnce ==
  ASSUME TypeOK, Sane, NEW f \in Flows, NEW result \in Results, Finish(f, result),
         f \in taken'
  PROVE  \A g \in Flows : Abstract!EmitsOnce(g)
<1>1. CASE settled[f] # "no"
  BY <1>1 DEF Finish, Abstract!EmitsOnce
<1>2. CASE settled[f] = "no"
  <2>1. told[f] = 0
    BY <1>2 DEF Sane, Counted
  <2>2. settled'[f] = result /\ told'[f] = 1
    BY <1>2, <2>1 DEF Finish, TypeOK
  <2>3. Abstract!EmitsOnce(f)
    BY <2>1, <2>2 DEF Abstract!EmitsOnce, taken
  <2>4. \A g \in Flows \ {f} : Abstract!EmitsOnce(g)
    BY <1>2 DEF Finish, TypeOK, Abstract!EmitsOnce
  <2> QED BY <2>3, <2>4
<1> QED BY <1>1, <1>2

\* A flow once opened or rejected stays so.
LEMMA TakenGrows == TypeOK /\ [Next]_vars => taken \subseteq taken' /\ taken' \subseteq Flows
<1> SUFFICES ASSUME TypeOK, [Next]_vars, NEW f \in Flows, f \in taken PROVE f \in taken'
  BY DEF taken
<1>1. start'[f] = start[f]
  BY DEF Next, Step, Starting, Start, BindFails, Bound, BoundBadUrl, Ending, Timeout,
     ServerError, Cancel, InTab, Connect, StrayTab, FailedRedirect, Redirect, Grant, Deny,
     Exchanged, taken, TypeOK, vars
<1> QED BY <1>1 DEF taken

(***************************************************************************)
(* A flow settles once: OAuthFlow implements OneExchange, the requests     *)
(* being the flows and the exchange the result given to onSettled.         *)
(***************************************************************************)
THEOREM ImplementsOneExchange == Spec => SettlesOnce
<1>1. Init => Abstract!Init
  BY DEF Init, Abstract!Init
<1>2. ASSUME TypeOK, Sane, [Next]_vars PROVE [Abstract!Next]_(Abstract!vars)
  <2>1. taken \subseteq taken' /\ taken' \subseteq Flows
    BY <1>2, TakenGrows
  <2>2. ASSUME UNCHANGED <<settled, told>> PROVE \A g \in Flows : Abstract!EmitsOnce(g)
    BY <2>2 DEF Abstract!EmitsOnce
  <2>3. ASSUME NEW f \in Flows, NEW result \in Results, Finish(f, result),
               start[f] \in {"opened", "rejected"}
        PROVE  \A g \in Flows : Abstract!EmitsOnce(g)
    BY <1>2, <2>1, <2>3, FinishOnce DEF taken
  <2>4. \A g \in Flows : Abstract!EmitsOnce(g)
    <3>1. CASE UNCHANGED vars
      BY <2>2, <3>1 DEF vars
    <3>2. ASSUME NEW f \in Flows, Starting(f) PROVE UNCHANGED <<settled, told>>
      BY <3>2 DEF Starting, Start, BindFails, Bound, BoundBadUrl
    <3>3. ASSUME NEW f \in Flows, Ending(f)
          PROVE  Finish(f, "failed") /\ start[f] \in {"opened", "rejected"}
      BY <1>2, <3>3 DEF Ending, Timeout, ServerError, Cancel, TypeOK, Sane, Unbound
    <3>4. ASSUME NEW f \in Flows, NEW t \in Tabs, InTab(f, t)
          PROVE  \/ UNCHANGED <<settled, told>>
                 \/ \E result \in Results : Finish(f, result) /\ start[f] = "opened"
      <4>1. CASE Connect(f, t) \/ StrayTab(f, t) \/ Redirect(f, t) \/ Grant(f, t) \/ Deny(f, t)
        BY <4>1 DEF Connect, StrayTab, Redirect, Grant, Deny
      <4>2. CASE FailedRedirect(f, t)
        BY <4>2 DEF FailedRedirect, Results
      <4>3. CASE Exchanged(f, t)
        BY <1>2, <4>3 DEF Exchanged, Results, Sane, Traced, Begun
      <4> QED BY <3>4, <4>1, <4>2, <4>3 DEF InTab
    <3> QED BY <1>2, <2>2, <2>3, <3>1, <3>2, <3>3, <3>4 DEF Next, Step, Results
  <2> QED BY <2>1, <2>4 DEF Abstract!Next, taken
<1> QED BY <1>1, <1>2, InitSane, TypeStep, SaneStep, PTL DEF Spec, SettlesOnce, Abstract!Spec
=============================================================================
