--------------------------- MODULE AppProxyProofs ---------------------------
(***************************************************************************)
(* Proofs about AppProxy, for any number of start calls, collections and   *)
(* ports.  The step lemmas come first, one proof step per action of Next;  *)
(* the theorems at the end combine them.                                   *)
(***************************************************************************)
EXTENDS AppProxy, TLAPS

(***************************************************************************)
(* The initial state has the types of the declarations.                    *)
(***************************************************************************)
LEMMA TypeInit == Init => TypeOK
BY DEF Init, TypeOK, Options, Halts

(***************************************************************************)
(* What is recorded is classified by where it went.                        *)
(***************************************************************************)
LEMMA EntryType ==
  ASSUME TypeOK, NEW c \in Calls
  PROVE  Entry(c) \in Entries
BY DEF TypeOK, Entry, Entries, Halting

(***************************************************************************)
(* Every step of a start, a stop, a user or a client preserves the types.  *)
(***************************************************************************)
LEMMA TypeStep == TypeOK /\ [Next]_vars => TypeOK'
<1> SUFFICES ASSUME TypeOK, [Next]_vars PROVE TypeOK'
  OBVIOUS
<1> USE DEF TypeOK, Suspended, Settled, Halts, Kinds, Pools, Goto
<1>1. ASSUME NEW c \in Calls, StartCall(c) PROVE TypeOK'
  BY <1>1 DEF StartCall
<1>2. ASSUME NEW c \in Calls, StartStep(c) PROVE TypeOK'
  <2>1. CASE SettingsRead(c) BY <2>1 DEF SettingsRead
  <2>2. CASE CertsReady(c) BY <2>2 DEF CertsReady
  <2>3. CASE HttpListen(c) BY <2>3 DEF HttpListen, AfterHttp, Publish
  <2>4. CASE TlsListen(c) BY <2>4 DEF TlsListen, AfterHttp, Publish
  <2>5. CASE TlsUndone(c) BY <2>5 DEF TlsUndone
  <2>6. CASE MqttListen(c) BY <2>6 DEF MqttListen, Publish
  <2>7. CASE Undone(c) BY <2>7 DEF Undone
  <2>8. CASE Persisted(c) BY <2>8 DEF Persisted
  <2> QED BY <1>2, <2>1, <2>2, <2>3, <2>4, <2>5, <2>6, <2>7, <2>8 DEF StartStep
<1>3. ASSUME NEW c \in Calls, NEW p \in Pools, Hangup(c, p) PROVE TypeOK'
  BY <1>3, EntryType DEF Hangup
<1>4. ASSUME NEW c \in Calls, StopStep(c) PROVE TypeOK'
  <2>1. CASE HttpHalted(c) BY <2>1 DEF HttpHalted
  <2>2. CASE MqttHalted(c) BY <2>2 DEF MqttHalted
  <2>3. CASE \E p \in Pools : Destroy(c, p) BY <2>3, <1>3 DEF Destroy
  <2> QED BY <1>4, <2>1, <2>2, <2>3 DEF StopStep
<1>5. ASSUME NEW c \in Calls, Client(c) PROVE TypeOK'
  <2>1. CASE Exchange(c) BY <2>1, EntryType DEF Exchange
  <2>2. ASSUME NEW p \in Pools, Connect(c, p) PROVE TypeOK' BY <2>2 DEF Connect
  <2> QED BY <1>5, <2>1, <2>2, <1>3 DEF Client
<1>6. CASE UserStop BY <1>6 DEF UserStop, StopRun
<1>7. ASSUME NEW r \in Roots, SetCurrentRoot(r) PROVE TypeOK'
  BY <1>7 DEF SetCurrentRoot, StopRun, Unpublished
<1>8. CASE UNCHANGED vars BY <1>8 DEF vars
<1> QED BY <1>1, <1>2, <1>4, <1>5, <1>6, <1>7, <1>8 DEF Next, User

-----------------------------------------------------------------------------
(***************************************************************************)
(* Lifecycle holds before any call is made: nothing is bound.              *)
(***************************************************************************)
LEMMA LifecycleInit == Init => Lifecycle
BY NoneAssumption DEF Init, Lifecycle, StartPhase, StopPhase, Quiet, Published

(***************************************************************************)
(* Every step leaves each call accountable for its listeners and clients.  *)
(***************************************************************************)
LEMMA LifecycleStep == TypeOK /\ Lifecycle /\ [Next]_vars => Lifecycle'
<1> SUFFICES ASSUME TypeOK, Lifecycle, [Next]_vars,
                    NEW d \in Calls
             PROVE  StartPhase(d)' /\ StopPhase(d)'
  BY DEF Lifecycle
<1> DEFINE Phase == StartPhase(d) /\ StopPhase(d)
<1>a. Phase
  BY DEF Lifecycle
<1> USE NoneAssumption DEF TypeOK, Halts, Kinds, Pools, Options, Goto
<1> USE DEF StartPhase, StopPhase, Quiet, Published, Wanted, ListenersOf
<1>1. ASSUME NEW c \in Calls, StartCall(c) PROVE Phase'
  BY <1>1, <1>a DEF StartCall
<1>2. ASSUME NEW c \in Calls, StartStep(c) PROVE Phase'
  <2>a. StartPhase(c) /\ StopPhase(c)
    BY DEF Lifecycle
  <2>1. CASE SettingsRead(c) BY <2>1, <1>a DEF SettingsRead
  <2>2. CASE CertsReady(c) BY <2>2, <1>a DEF CertsReady
  <2>3. CASE HttpListen(c) BY <2>3, <1>a DEF HttpListen, AfterHttp, Publish
  <2>4. CASE TlsListen(c) BY <2>4, <1>a DEF TlsListen, AfterHttp, Publish
  <2>5. CASE TlsUndone(c) BY <2>5, <1>a DEF TlsUndone
  <2>6. CASE MqttListen(c) BY <2>6, <1>a DEF MqttListen, Publish
  <2>7. CASE Undone(c) BY <2>7, <1>a DEF Undone
  <2>8. CASE Persisted(c) BY <2>8, <1>a DEF Persisted
  <2> QED BY <1>2, <2>1, <2>2, <2>3, <2>4, <2>5, <2>6, <2>7, <2>8 DEF StartStep
<1>3. ASSUME NEW c \in Calls, NEW p \in Pools, Hangup(c, p) PROVE Phase'
  BY <1>3, <1>a DEF Hangup
<1>4. ASSUME NEW c \in Calls, StopStep(c) PROVE Phase'
  <2>1. CASE HttpHalted(c) BY <2>1, <1>a DEF HttpHalted
  <2>2. CASE MqttHalted(c) BY <2>2, <1>a DEF MqttHalted
  <2>3. CASE \E p \in Pools : Destroy(c, p) BY <2>3, <1>3 DEF Destroy
  <2> QED BY <1>4, <2>1, <2>2, <2>3 DEF StopStep
<1>5. ASSUME NEW c \in Calls, Client(c) PROVE Phase'
  <2>1. CASE Exchange(c) BY <2>1, <1>a DEF Exchange
  <2>2. ASSUME NEW p \in Pools, Connect(c, p) PROVE Phase'
    <3>1. c = d => "mqtt" \notin up[d] \/ (Published(d) /\ opts[d].mqtt)
      BY <1>a DEF Suspended, Settled
    <3>2. p = "http" \/ "mqtt" \in up[c]
      BY <2>2 DEF Connect
    <3>3. up[c] # {}
      BY <2>2 DEF Connect
    <3> QED BY <2>2, <3>1, <3>2, <3>3, <1>a DEF Connect
  <2> QED BY <1>5, <2>1, <2>2, <1>3 DEF Client
<1>6. CASE UserStop BY <1>6, <1>a DEF UserStop, StopRun
<1>7. ASSUME NEW r \in Roots, SetCurrentRoot(r) PROVE Phase'
  BY <1>7, <1>a DEF SetCurrentRoot, StopRun
<1>8. CASE UNCHANGED vars BY <1>8, <1>a DEF vars
<1> QED BY <1>1, <1>2, <1>4, <1>5, <1>6, <1>7, <1>8 DEF Next, User

-----------------------------------------------------------------------------
\* Every start asks for the same ports: the modal's fields are not edited.
OnePort == \A p, q \in Ports : p = q

\* The part of the invariant that says whose listeners there are.
Owned == Single /\ Bound /\ RecordsElsewhereOnlyAfterMovedStart

(***************************************************************************)
(* Nothing is bound and nothing is recorded initially.                     *)
(***************************************************************************)
LEMMA OwnedInit == Init => Owned
BY NoneAssumption DEF Init, Owned, Single, Bound, Quiet, Published, Unpublished,
   Suspended, RecordsElsewhereOnlyAfterMovedStart

(***************************************************************************)
(* With one set of ports, one call at a time has the HTTP listener.        *)
(***************************************************************************)
LEMMA SingleStep ==
  ASSUME OnePort, TypeOK, Lifecycle, Single, [Next]_vars
  PROVE  Single'
<1> DEFINE Alone == \A a, b \in Calls : "http" \in up[a] /\ "http" \in up[b] => a = b
<1> DEFINE Mine(d) == Published(d) /\ halt[d] = "no" => running = d \/ Quiet(d)
<1>a. Alone /\ \A d \in Calls : Mine(d)
  BY DEF Single
<1> SUFFICES Alone' /\ \A d \in Calls : Mine(d)'
  BY DEF Single
<1> USE NoneAssumption DEF TypeOK, Halts, Kinds, Pools, Options, Goto, Published, Quiet
<1>b. \A c \in Calls : StartPhase(c) /\ StopPhase(c)
  BY DEF Lifecycle
<1>c. ASSUME NEW c \in Calls, pc[c] \in {"tlsListen", "mqttListen"}
      PROVE  "http" \in up[c]
  BY <1>b, <1>c DEF StartPhase, Wanted
<1>d. ASSUME NEW c \in Calls, running = c
      PROVE  "http" \in up[c]
  BY <1>b, <1>d DEF StartPhase, StopPhase, Wanted
<1>e. ASSUME NEW c \in Calls, ~Taken(c, "http"), NEW d \in Calls, "http" \in up[d]
      PROVE  c = d
  BY <1>e, OnePort DEF Taken, OnePort
<1>1. ASSUME NEW c \in Calls, StartCall(c) PROVE Alone' /\ \A d \in Calls : Mine(d)'
  BY <1>1, <1>a, <1>b DEF StartCall, StartPhase
<1>2. ASSUME NEW c \in Calls, StartStep(c) PROVE Alone' /\ \A d \in Calls : Mine(d)'
  <2>1. CASE SettingsRead(c) BY <2>1, <1>a DEF SettingsRead
  <2>2. CASE CertsReady(c) BY <2>2, <1>a DEF CertsReady
  <2>3. CASE HttpListen(c)
    BY <2>3, <1>a, <1>d, <1>e DEF HttpListen, AfterHttp, Publish
  <2>4. CASE TlsListen(c)
    BY <2>4, <1>a, <1>c, <1>d DEF TlsListen, AfterHttp, Publish
  <2>5. CASE TlsUndone(c) BY <2>5, <1>a DEF TlsUndone
  <2>6. CASE MqttListen(c) BY <2>6, <1>a, <1>c, <1>d DEF MqttListen, Publish
  <2>7. CASE Undone(c) BY <2>7, <1>a DEF Undone
  <2>8. CASE Persisted(c) BY <2>8, <1>a DEF Persisted
  <2> QED BY <1>2, <2>1, <2>2, <2>3, <2>4, <2>5, <2>6, <2>7, <2>8 DEF StartStep
<1>3. ASSUME NEW c \in Calls, NEW p \in Pools, Hangup(c, p)
      PROVE  Alone' /\ \A d \in Calls : Mine(d)'
  BY <1>3, <1>a DEF Hangup
<1>4. ASSUME NEW c \in Calls, StopStep(c) PROVE Alone' /\ \A d \in Calls : Mine(d)'
  <2>1. CASE HttpHalted(c) BY <2>1, <1>a DEF HttpHalted
  <2>2. CASE MqttHalted(c) BY <2>2, <1>a DEF MqttHalted
  <2>3. CASE \E p \in Pools : Destroy(c, p) BY <2>3, <1>3 DEF Destroy
  <2> QED BY <1>4, <2>1, <2>2, <2>3 DEF StopStep
<1>5. ASSUME NEW c \in Calls, Client(c) PROVE Alone' /\ \A d \in Calls : Mine(d)'
  <2>1. CASE Exchange(c) BY <2>1, <1>a DEF Exchange
  <2>2. ASSUME NEW p \in Pools, Connect(c, p) PROVE Alone' /\ \A d \in Calls : Mine(d)'
    BY <2>2, <1>a DEF Connect, ListenersOf
  <2> QED BY <1>5, <2>1, <2>2, <1>3 DEF Client
<1>6. CASE UserStop BY <1>6, <1>a DEF UserStop, StopRun
<1>7. ASSUME NEW r \in Roots, SetCurrentRoot(r) PROVE Alone' /\ \A d \in Calls : Mine(d)'
  BY <1>7, <1>a DEF SetCurrentRoot, StopRun
<1>8. CASE UNCHANGED vars BY <1>8, <1>a DEF vars
<1> QED BY <1>1, <1>2, <1>4, <1>5, <1>6, <1>7, <1>8 DEF Next, User

(***************************************************************************)
(* A root is captured when it is open, and a switch either marks the call  *)
(* as moved or stops its run.                                              *)
(***************************************************************************)
LEMMA BoundStep == TypeOK /\ Bound /\ [Next]_vars => Bound'
<1> SUFFICES ASSUME TypeOK, Bound, [Next]_vars PROVE Bound'
  OBVIOUS
<1> USE NoneAssumption DEF TypeOK, Bound, Unpublished, Suspended, Goto
<1>1. ASSUME NEW c \in Calls, StartCall(c) PROVE Bound'
  BY <1>1 DEF StartCall
<1>2. ASSUME NEW c \in Calls, StartStep(c) PROVE Bound'
  <2>1. CASE SettingsRead(c) BY <2>1 DEF SettingsRead
  <2>2. CASE CertsReady(c) BY <2>2 DEF CertsReady
  <2>3. CASE HttpListen(c) BY <2>3 DEF HttpListen, AfterHttp, Publish
  <2>4. CASE TlsListen(c) BY <2>4 DEF TlsListen, AfterHttp, Publish
  <2>5. CASE TlsUndone(c) BY <2>5 DEF TlsUndone
  <2>6. CASE MqttListen(c) BY <2>6 DEF MqttListen, Publish
  <2>7. CASE Undone(c) BY <2>7 DEF Undone
  <2>8. CASE Persisted(c) BY <2>8 DEF Persisted
  <2> QED BY <1>2, <2>1, <2>2, <2>3, <2>4, <2>5, <2>6, <2>7, <2>8 DEF StartStep
<1>4. ASSUME NEW c \in Calls, StopStep(c) PROVE Bound'
  BY <1>4 DEF StopStep, HttpHalted, MqttHalted, Destroy, Hangup
<1>5. ASSUME NEW c \in Calls, Client(c) PROVE Bound'
  BY <1>5 DEF Client, Exchange, Connect, Hangup
<1>6. CASE UserStop BY <1>6 DEF UserStop, StopRun
<1>7. ASSUME NEW r \in Roots, SetCurrentRoot(r) PROVE Bound'
  BY <1>7 DEF SetCurrentRoot, StopRun
<1>8. CASE UNCHANGED vars BY <1>8 DEF vars
<1> QED BY <1>1, <1>2, <1>4, <1>5, <1>6, <1>7, <1>8 DEF Next, User

(***************************************************************************)
(* Only a client that is connected makes something be recorded.            *)
(***************************************************************************)
LEMMA RecordStep ==
  ASSUME TypeOK, Lifecycle, Single, Bound, [Next]_vars,
         RecordsElsewhereOnlyAfterMovedStart
  PROVE  RecordsElsewhereOnlyAfterMovedStart'
<1> USE DEF RecordsElsewhereOnlyAfterMovedStart
<1>1. ASSUME NEW c \in Calls, conns[c] # {}
      PROVE  Halting(c) \/ c \in moved \/ root[c] = currentRoot
  <2>1. StartPhase(c) /\ (Published(c) /\ halt[c] = "no" => running = c \/ Quiet(c))
    BY DEF Lifecycle, Single
  <2>2. CASE Published(c)
    BY <1>1, <2>1, <2>2 DEF Halting, Bound, Quiet
  <2>3. CASE ~Published(c)
    BY <1>1, <2>1, <2>3 DEF TypeOK, Suspended, Settled, StartPhase, Published,
       Quiet, Halting, Bound, Unpublished
  <2> QED BY <2>2, <2>3
<1>2. ASSUME NEW c \in Calls, conns[c] # {}, last' = Entry(c)
      PROVE  RecordsElsewhereOnlyAfterMovedStart'
  BY <1>1, <1>2 DEF Entry
<1>3. ASSUME NEW c \in Calls, NEW p \in Pools, Hangup(c, p)
      PROVE  RecordsElsewhereOnlyAfterMovedStart'
  BY <1>2, <1>3 DEF Hangup
<1>4. ASSUME NEW c \in Calls, StartStep(c) PROVE UNCHANGED last
  BY <1>4 DEF StartStep, SettingsRead, CertsReady, HttpListen, TlsListen,
     TlsUndone, MqttListen, Undone, Persisted
<1>5. ASSUME NEW c \in Calls, StopStep(c)
      PROVE  RecordsElsewhereOnlyAfterMovedStart'
  BY <1>3, <1>5 DEF StopStep, HttpHalted, MqttHalted, Destroy
<1>6. ASSUME NEW c \in Calls, Client(c)
      PROVE  RecordsElsewhereOnlyAfterMovedStart'
  BY <1>2, <1>3, <1>6 DEF Client, Connect, Exchange
<1> QED
  BY <1>4, <1>5, <1>6 DEF Next, User, UserStop, SetCurrentRoot, StartCall, vars

-----------------------------------------------------------------------------
(***************************************************************************)
(* Type correctness, for any number of calls, collections and ports.       *)
(***************************************************************************)
THEOREM TypeCorrect == Spec => []TypeOK
BY TypeInit, TypeStep, PTL DEF Spec

(***************************************************************************)
(* Every start and stop accounts for its listeners wherever it suspends.   *)
(***************************************************************************)
THEOREM LifecycleCorrect == Spec => []Lifecycle
BY TypeInit, TypeStep, LifecycleInit, LifecycleStep, PTL DEF Spec

(***************************************************************************)
(* Start is atomic: a start that throws leaves nothing listening, and the  *)
(* run the app reports serves every listener it was asked for.             *)
(***************************************************************************)
THEOREM StartAtomic == Spec => [](FailedStartLeavesNothing /\ PublishedServesAll)
<1>1. TypeOK /\ Lifecycle => FailedStartLeavesNothing /\ PublishedServesAll
  BY NoneAssumption DEF TypeOK, Lifecycle, StartPhase, StopPhase, Quiet, Published,
     FailedStartLeavesNothing, PublishedServesAll
<1> QED BY <1>1, TypeCorrect, LifecycleCorrect, PTL

(***************************************************************************)
(* A run whose stop has resolved accepts nothing, holds nobody's           *)
(* connection and is never reported as running again.                      *)
(***************************************************************************)
THEOREM StopFinal == Spec => []StoppedIsSilent
<1>1. Lifecycle => StoppedIsSilent
  BY DEF Lifecycle, StopPhase, Quiet, StoppedIsSilent
<1> QED BY <1>1, LifecycleCorrect, PTL

(***************************************************************************)
(* With one set of ports Owned is an invariant.                            *)
(***************************************************************************)
LEMMA OwnedCorrect ==
  ASSUME OnePort
  PROVE  Spec => []Owned
<1>1. TypeOK /\ Lifecycle /\ Owned /\ [Next]_vars => Owned'
  BY OnePort, SingleStep, BoundStep, RecordStep DEF Owned
<1> QED BY <1>1, OwnedInit, TypeCorrect, LifecycleCorrect, PTL DEF Spec

(***************************************************************************)
(* When every start asks for the same ports, the listeners the app has are *)
(* those of the one run it reports, of a start or of a stop under way.     *)
(***************************************************************************)
THEOREM OneProxy ==
  ASSUME OnePort
  PROVE  Spec => []ListenersAccountedFor
<1>1. TypeOK /\ Lifecycle /\ Owned => ListenersAccountedFor
  BY DEF TypeOK, Halts, Suspended, Settled, Lifecycle, StartPhase, StopPhase, Quiet,
     Published, Owned, Single, ListenersAccountedFor
<1> QED BY <1>1, OwnedCorrect, TypeCorrect, LifecycleCorrect, PTL

(***************************************************************************)
(* And traffic lands in the open collection unless that was switched while *)
(* the start was suspended.                                                *)
(***************************************************************************)
THEOREM RecordsInPlace ==
  ASSUME OnePort
  PROVE  Spec => []RecordsElsewhereOnlyAfterMovedStart
<1>1. Owned => RecordsElsewhereOnlyAfterMovedStart
  BY DEF Owned
<1> QED BY <1>1, OwnedCorrect, PTL
=============================================================================
