------------------------- MODULE OAuthTokensProofs --------------------------
(***************************************************************************)
(* Proofs about OAuthTokens, for any number of executions and sign-ins.    *)
(*                                                                         *)
(* CacheStaysRefreshable is not inductive.  A refresh with rotation makes  *)
(* the cached refresh token useless in the step that puts a new one on its *)
(* way, so the invariant follows the new one: a token on its way to the    *)
(* cache is one whose refresh token is accepted (Carried), because nobody  *)
(* can have used a token that was never in the cache (Unseen).             *)
(***************************************************************************)
EXTENDS OAuthTokens, TLAPS

Held   == {"saving", "writing"}
Before == {"idle", "reading", "refreshing", "saving", "writing"}

\* What a token's refresh token is, by the provider's policy.
Granted ==
  \A w \in Tokens : grant[w] # None =>
    IF rotates THEN grant[w] = w ELSE grant[w] \in accepted

Carried == \A w \in Writers : pc[w] \in Held => grant[w] \in accepted

Unseen ==
  rotates => \A w \in Writers : pc[w] \in Before =>
    cache # w /\ \A e \in Execs : from[e] # w

Refreshing == \A e \in Execs : pc[e] = "refreshing" => from[e] # None

\* A torn cache is being written, and a cached refresh token that is of no more
\* use is about to be replaced.
OnItsWay ==
  ~mishap =>
    /\ cache = Torn => \E w \in Writers : pc[w] = "writing"
    /\ cache # Torn => grant[cache] \in accepted \/ \E w \in Writers : pc[w] \in Held

Inv == TypeOK /\ Granted /\ Carried /\ Unseen /\ Refreshing /\ OnItsWay

-----------------------------------------------------------------------------
\* The initial states satisfy the invariant.
LEMMA InitInv == Init => Inv
BY DistinctAssumption DEF Init, Inv, TypeOK, Granted, Carried, Unseen, Refreshing, OnItsWay,
   Held, Busy, Tokens, Writers, Execs

-----------------------------------------------------------------------------
\* Every step keeps the types.
LEMMA TypeStep == TypeOK /\ [Next]_vars => TypeOK'
<1> SUFFICES ASSUME TypeOK, [Next]_vars PROVE TypeOK'
  OBVIOUS
<1> USE DEF provider
<1>1. CASE UNCHANGED vars
  BY <1>1 DEF TypeOK, vars
<1>2. ASSUME NEW e \in Execs, Execution(e) PROVE TypeOK'
  <2>0. e \in Writers /\ e \in Tokens
    BY DEF Writers, Tokens
  <2>1. CASE Begin(e)
    BY <2>0, <2>1 DEF TypeOK, Begin, Choose, Goto, Busy
  <2>2. CASE Read(e)
    <3>1. cache # Torn => cache \in Tokens /\ grant[cache] \in Tokens \cup {None}
      BY DEF TypeOK
    <3>2. CASE cache # Torn /\ cache \notin expired
      BY <2>0, <2>2, <3>1, <3>2 DEF TypeOK, Read, Choose, Remember, Goto, Busy
    <3>3. CASE cache # Torn /\ cache \in expired /\ grant[cache] # None
      BY <2>0, <2>2, <3>1, <3>3 DEF TypeOK, Read, Goto, Busy
    <3>4. CASE ~(cache # Torn /\ cache \notin expired)
               /\ ~(cache # Torn /\ cache \in expired /\ grant[cache] # None)
      BY <2>0, <2>2, <3>4 DEF TypeOK, Read, Goto, Busy
    <3> QED BY <3>2, <3>3, <3>4
  <2>3. CASE Refreshed(e)
    BY <2>0, <2>3 DEF TypeOK, Refreshed, Exchange, Goto, Busy
  <2>4. CASE RefreshFails(e)
    BY <2>0, <2>4 DEF TypeOK, RefreshFails, Exchange, Goto, Busy
  <2> QED BY <1>2, <2>1, <2>2, <2>3, <2>4 DEF Execution
<1>3. ASSUME NEW w \in Writers, Write(w) PROVE TypeOK'
  <2>0. w \in Tokens
    BY DEF Tokens
  <2>1. CASE Truncate(w)
    BY <2>1 DEF TypeOK, Truncate, Goto, Busy
  <2>2. CASE Put(w)
    BY <2>0, <2>2 DEF TypeOK, Put, AfterSave, Remember, Goto, Busy
  <2>3. CASE WriteFails(w)
    BY <2>3 DEF TypeOK, WriteFails, Goto, Busy
  <2> QED BY <1>3, <2>1, <2>2, <2>3 DEF Write
<1>4. ASSUME NEW s \in SignIns, SignIn(s) PROVE TypeOK'
  BY <1>4 DEF TypeOK, SignIn, Goto, Busy, Writers, Tokens
<1>5. ASSUME NEW w \in Tokens, Expire(w) PROVE TypeOK'
  BY <1>5 DEF TypeOK, Expire
<1>6. CASE SessionClear
  BY <1>6 DEF TypeOK, SessionClear
<1>7. CASE Restart
  BY <1>7 DEF TypeOK, Restart
<1> QED BY <1>1, <1>2, <1>3, <1>4, <1>5, <1>6, <1>7 DEF Next

-----------------------------------------------------------------------------
\* A refresh takes away only the refresh token it uses, which with rotation is
\* that of no token still on its way.
LEMMA ExchangeKeeps ==
  ASSUME Inv, NEW e \in Execs, pc[e] = "refreshing", Exchange(e)
  PROVE  /\ \A w \in Writers : pc[w] \in Held => grant[w] \in accepted'
         /\ ~rotates => accepted' = accepted
         /\ (IF rotates THEN e ELSE from[e]) \in accepted'
         /\ UNCHANGED rotates
<1>1. ASSUME NEW w \in Writers, pc[w] \in Held, rotates PROVE grant[w] \in accepted'
  <2>1. grant[w] \in accepted /\ accepted \subseteq Tokens
    BY <1>1 DEF Inv, Carried, TypeOK
  <2>2. grant[w] = w
    BY <1>1, <2>1, DistinctAssumption DEF Inv, Granted, Tokens
  <2>3. from[e] # w
    BY <1>1 DEF Inv, Unseen, Held, Before
  <2> QED BY <1>1, <2>1, <2>2, <2>3 DEF Exchange
<1>2. ASSUME NEW w \in Writers, pc[w] \in Held, ~rotates PROVE grant[w] \in accepted'
  BY <1>2 DEF Inv, Carried, Exchange
<1> QED BY <1>1, <1>2 DEF Exchange, Inv, TypeOK

\* Execution steps keep the invariant.
LEMMA ExecutionInv ==
  ASSUME Inv, TypeOK', NEW e \in Execs, Execution(e)
  PROVE  Inv'
<1> USE DEF provider
<1>0. TypeOK /\ e \in Writers /\ e \in Tokens
  BY DEF Inv, Writers, Tokens
<1>1. CASE Begin(e)
  <2>1. /\ UNCHANGED <<cache, grant, accepted, rotates, from, mishap>>
        /\ pc[e] = "idle" /\ \E at \in {"sent", "reading"} : pc' = [pc EXCEPT ![e] = at]
    BY <1>1 DEF Begin, Choose, Goto
  <2> QED BY <1>0, <2>1 DEF Inv, TypeOK, Granted, Carried, Unseen, Refreshing, OnItsWay, Held, Before
<1>2. CASE Read(e)
  <2>1. /\ UNCHANGED <<cache, grant, accepted, rotates, mishap>>
        /\ pc[e] = "reading"
        /\ \/ /\ \E at \in {"sent", "failed"} : pc' = [pc EXCEPT ![e] = at]
              /\ UNCHANGED from
           \/ /\ cache # Torn /\ grant[cache] # None
              /\ pc' = [pc EXCEPT ![e] = "refreshing"]
              /\ from' = [from EXCEPT ![e] = grant[cache]]
    <3>1. CASE cache # Torn /\ cache \notin expired
      BY <1>2, <3>1 DEF Read, Choose, Goto
    <3>2. CASE cache # Torn /\ cache \in expired /\ grant[cache] # None
      BY <1>2, <3>2 DEF Read, Goto
    <3>3. CASE ~(cache # Torn /\ cache \notin expired)
               /\ ~(cache # Torn /\ cache \in expired /\ grant[cache] # None)
      BY <1>2, <3>3 DEF Read, Goto
    <3> QED BY <3>1, <3>2, <3>3
  <2>2. CASE /\ \E at \in {"sent", "failed"} : pc' = [pc EXCEPT ![e] = at]
             /\ UNCHANGED from
    BY <1>0, <2>1, <2>2 DEF Inv, TypeOK, Granted, Carried, Unseen, Refreshing, OnItsWay, Held, Before
  <2>3. CASE /\ cache # Torn /\ grant[cache] # None
             /\ pc' = [pc EXCEPT ![e] = "refreshing"]
             /\ from' = [from EXCEPT ![e] = grant[cache]]
    <3>1. rotates => grant[cache] = cache
      BY <2>3 DEF Inv, Granted, TypeOK
    <3>2. Unseen'
      BY <1>0, <2>1, <2>3, <3>1 DEF Inv, TypeOK, Unseen, Before
    <3>3. Granted' /\ Carried' /\ Refreshing'
      BY <1>0, <2>1, <2>3 DEF Inv, TypeOK, Granted, Carried, Refreshing, Held
    <3>4. OnItsWay'
      BY <1>0, <2>1, <2>3 DEF Inv, TypeOK, OnItsWay, Held
    <3> QED BY <3>2, <3>3, <3>4 DEF Inv
  <2> QED BY <2>1, <2>2, <2>3
<1>3. CASE Refreshed(e)
  <2>1. /\ pc[e] = "refreshing" /\ Exchange(e) /\ pc' = [pc EXCEPT ![e] = "saving"]
        /\ grant' = [grant EXCEPT ![e] = IF rotates THEN e ELSE from[e]]
        /\ UNCHANGED <<cache, from, mishap>>
    BY <1>3 DEF Refreshed, Goto
  <2>2. /\ \A w \in Writers : pc[w] \in Held => grant[w] \in accepted'
        /\ ~rotates => accepted' = accepted
        /\ (IF rotates THEN e ELSE from[e]) \in accepted'
        /\ UNCHANGED rotates
    BY <2>1, ExchangeKeeps
  <2>3. Granted'
    BY <1>0, <2>1, <2>2 DEF Inv, TypeOK, Granted
  <2>4. Carried'
    BY <1>0, <2>1, <2>2 DEF TypeOK, Carried
  <2>5. Unseen' /\ Refreshing'
    BY <1>0, <2>1, <2>2 DEF Inv, TypeOK, Unseen, Refreshing, Before
  <2>6. OnItsWay'
    <3>1. pc'[e] \in Held
      BY <1>0, <2>1 DEF TypeOK, Held
    <3>2. cache = Torn /\ ~mishap => \E w \in Writers : pc'[w] = "writing"
      BY <1>0, <2>1 DEF Inv, TypeOK, OnItsWay
    <3> QED BY <1>0, <2>1, <3>1, <3>2 DEF OnItsWay
  <2> QED BY <2>3, <2>4, <2>5, <2>6 DEF Inv
<1>4. CASE RefreshFails(e)
  <2>1. /\ pc[e] = "refreshing" /\ pc' = [pc EXCEPT ![e] = "failed"]
        /\ UNCHANGED <<cache, grant, from>>
        /\ (UNCHANGED <<accepted, rotates, mishap>> \/ (Exchange(e) /\ mishap'))
    BY <1>4 DEF RefreshFails, Goto
  <2>2. /\ \A w \in Writers : pc[w] \in Held => grant[w] \in accepted'
        /\ ~rotates => accepted' = accepted
        /\ UNCHANGED rotates
    BY <2>1, ExchangeKeeps DEF Inv, Carried
  <2>3. Granted' /\ Carried'
    BY <1>0, <2>1, <2>2 DEF Inv, TypeOK, Granted, Carried, Held
  <2>4. Unseen' /\ Refreshing'
    BY <1>0, <2>1, <2>2 DEF Inv, TypeOK, Unseen, Refreshing, Before
  <2>5. OnItsWay'
    BY <1>0, <2>1 DEF Inv, TypeOK, OnItsWay, Held
  <2> QED BY <2>3, <2>4, <2>5 DEF Inv
<1> QED BY <1>1, <1>2, <1>3, <1>4 DEF Execution

\* The steps of a write keep the invariant.
LEMMA WriteInv ==
  ASSUME Inv, TypeOK', NEW w \in Writers, Write(w)
  PROVE  Inv'
<1> USE DEF provider
<1>0. TypeOK /\ w \in Tokens /\ w # Torn
  BY DistinctAssumption DEF Inv, Tokens
<1>1. CASE Truncate(w)
  <2>1. /\ pc[w] = "saving" /\ pc' = [pc EXCEPT ![w] = "writing"] /\ cache' = Torn
        /\ UNCHANGED <<grant, accepted, rotates, from, mishap>>
    BY <1>1 DEF Truncate, Goto
  <2>2. Granted' /\ Carried' /\ Refreshing'
    BY <1>0, <2>1 DEF Inv, TypeOK, Granted, Carried, Refreshing, Held
  <2>3. Unseen'
    BY <1>0, <2>1, DistinctAssumption DEF Inv, TypeOK, Unseen, Before, Tokens
  <2>4. OnItsWay'
    BY <1>0, <2>1 DEF TypeOK, OnItsWay
  <2> QED BY <2>2, <2>3, <2>4 DEF Inv
<1>2. CASE Put(w)
  <2>1. /\ pc[w] = "writing" /\ \E at \in {"sent", "done"} : pc' = [pc EXCEPT ![w] = at]
        /\ cache' = w \/ (cache' = Torn /\ mishap')
        /\ UNCHANGED <<grant, accepted, rotates, from>>
    BY <1>2 DEF Put, AfterSave, Goto
  <2>2. Granted' /\ Carried' /\ Refreshing'
    BY <1>0, <2>1 DEF Inv, TypeOK, Granted, Carried, Refreshing, Held
  <2>3. Unseen'
    BY <1>0, <2>1, DistinctAssumption DEF Inv, TypeOK, Unseen, Before, Tokens
  <2>4. OnItsWay'
    BY <1>0, <2>1 DEF Inv, Carried, OnItsWay, Held
  <2> QED BY <2>2, <2>3, <2>4 DEF Inv
<1>3. CASE WriteFails(w)
  <2>1. /\ mishap' /\ \E at \in {"failed", "done"} : pc' = [pc EXCEPT ![w] = at]
        /\ pc[w] \in Held
        /\ UNCHANGED <<cache, grant, accepted, rotates, from>>
    BY <1>3 DEF WriteFails, Goto, Held
  <2> QED BY <1>0, <2>1 DEF Inv, TypeOK, Granted, Carried, Unseen, Refreshing, OnItsWay, Held, Before
<1> QED BY <1>1, <1>2, <1>3 DEF Write

\* Sign-ins, expiries, clearing the session and restarts keep the invariant.
LEMMA OtherInv ==
  ASSUME Inv, TypeOK',
         \/ \E s \in SignIns : SignIn(s)
         \/ \E w \in Tokens : Expire(w)
         \/ SessionClear \/ Restart \/ UNCHANGED vars
  PROVE  Inv'
<1> USE DEF provider
<1>0. TypeOK
  BY DEF Inv
<1>1. ASSUME NEW s \in SignIns, SignIn(s) PROVE Inv'
  <2>1. /\ pc[s] = "idle" /\ pc' = [pc EXCEPT ![s] = "saving"]
        /\ accepted' = accepted \cup {s} /\ grant' = [grant EXCEPT ![s] = s]
        /\ UNCHANGED <<cache, rotates, from, mishap>>
        /\ s \in Writers /\ s \in Tokens
    BY <1>1 DEF SignIn, Goto, Writers, Tokens
  <2>2. Granted' /\ Carried'
    BY <1>0, <2>1 DEF Inv, TypeOK, Granted, Carried, Held
  <2>3. Unseen' /\ Refreshing'
    BY <1>0, <2>1 DEF Inv, TypeOK, Unseen, Refreshing, Before, Writers
  <2>4. OnItsWay'
    BY <1>0, <2>1 DEF Inv, TypeOK, OnItsWay, Held
  <2> QED BY <2>2, <2>3, <2>4 DEF Inv
<1>2. CASE Restart
  <2>1. /\ UNCHANGED <<cache, grant, accepted, rotates, from>>
        /\ \A w \in Writers : pc'[w] = pc[w] \/ (pc'[w] = "cut" /\ (pc[w] \in Held => mishap'))
        /\ mishap => mishap'
    BY <1>0, <1>2 DEF Restart, TypeOK, Held, Busy
  <2>2. Granted' /\ Carried' /\ Refreshing'
    BY <2>1 DEF Inv, Granted, Carried, Refreshing, Held, Writers
  <2>3. Unseen'
    BY <2>1 DEF Inv, Unseen, Before
  <2>4. OnItsWay'
    BY <2>1 DEF Inv, OnItsWay, Held
  <2> QED BY <2>2, <2>3, <2>4 DEF Inv
<1>3. ASSUME UNCHANGED <<pc, cache, grant, accepted, rotates, from, mishap>> PROVE Inv'
  BY <1>0, <1>3 DEF Inv, Granted, Carried, Unseen, Refreshing, OnItsWay
<1> QED BY <1>1, <1>2, <1>3 DEF Expire, SessionClear, vars

\* Only a token of the session is sent expired.
LEMMA ColdStep == ColdSendsAreFresh /\ [Next]_vars => ColdSendsAreFresh'
<1> SUFFICES ASSUME ColdSendsAreFresh, [Next]_vars PROVE ColdSendsAreFresh'
  OBVIOUS
<1> USE DEF ColdSendsAreFresh
<1>1. ASSUME NEW e \in Execs, Execution(e) PROVE stale' \subseteq warm'
  BY <1>1 DEF Execution, Begin, Read, Refreshed, RefreshFails, Choose
<1>2. ASSUME NEW w \in Writers, Write(w) PROVE UNCHANGED <<stale, warm>>
  BY <1>2 DEF Write, Truncate, Put, WriteFails
<1> QED BY <1>1, <1>2 DEF Next, SignIn, Expire, SessionClear, Restart, vars

-----------------------------------------------------------------------------
(***************************************************************************)
(* Types, and the only expired tokens sent are the session's.              *)
(***************************************************************************)
THEOREM ColdFresh == Spec => [](TypeOK /\ ColdSendsAreFresh)
<1>1. Init => TypeOK /\ ColdSendsAreFresh
  BY InitInv DEF Inv, Init, ColdSendsAreFresh
<1> QED BY <1>1, TypeStep, ColdStep, PTL DEF Spec

(***************************************************************************)
(* However many executions and sign-ins race for the cache, when nobody is *)
(* at it and nothing was lost it can be refreshed.                         *)
(***************************************************************************)
THEOREM Refreshable == Spec => []CacheStaysRefreshable
<1>1. Inv /\ [Next]_vars => Inv'
  BY TypeStep, ExecutionInv, WriteInv, OtherInv DEF Inv, Next
<1>2. Inv => CacheStaysRefreshable
  BY DEF Inv, OnItsWay, CacheStaysRefreshable, Held
<1> QED BY <1>1, <1>2, InitInv, PTL DEF Spec
=============================================================================
