-------------------------- MODULE ForwardH1Proofs ---------------------------
(***************************************************************************)
(* Proofs about ForwardH1, for any set of requests.                        *)
(***************************************************************************)
EXTENDS ForwardH1, TLAPS

(***************************************************************************)
(* The invariants alone are not inductive.  Progress ties the phase of the *)
(* request to the target to what can have been answered and emitted:       *)
(* nothing before the response.                                            *)
(***************************************************************************)
Progress ==
  \A r \in Requests :
    /\ client[r] = "idle" <=> upstream[r] = "none"
    /\ upstream[r] \in {"none", "open"} => emits[r] = 0 /\ answer[r] = NoAnswer
    /\ upstream[r] \in {"answering", "done"} => answer[r] \in Answers
    /\ emits[r] = 0 <=> exchange[r] = None

IInv == TypeOK /\ Progress /\ OverIsRecorded /\ RecordTellsTheTruth

\* None is not an exchange.
LEMMA NoneNew == None \notin Exchanges
  BY NoneAssumption DEF Exchanges, Statuses

\* No response is not a response.
LEMMA NoAnswerNew == NoAnswer \notin Answers
  BY DEF NoAnswer, Answers

\* The invariant holds at the start.
LEMMA InitIInv == Init => IInv
  BY NoneNew DEF Init, IInv, TypeOK, Progress, OverIsRecorded, RecordTellsTheTruth, NoAnswer, Answers

\* What the terminal events record are exchanges.
LEMMA ExchangeTypes ==
  ASSUME TypeOK
  PROVE  \A r \in Requests :
           /\ answer[r] \in Answers =>
                /\ Ended[r] \in Exchanges /\ Capped[r] \in Exchanges
                /\ Dropped[r] \in Exchanges /\ Broken[r] \in Exchanges
           /\ NoResponse[r] \in Exchanges
  BY DEF Ended, Capped, Dropped, Broken, NoResponse, Exchange, Exchanges, Answers, Statuses

\* Every step keeps the invariant: one step per action, one level down per part.
LEMMA NextIInv == IInv /\ [Next]_vars => IInv'
<1> SUFFICES ASSUME IInv, [Next]_vars PROVE IInv'
  OBVIOUS
<1> USE DEF IInv, log
<1>1. ASSUME NEW r \in Requests, NEW whole \in BOOLEAN, Request(r, whole) PROVE IInv'
  <2>1. TypeOK'
    BY <1>1, ExchangeTypes, NoneNew DEF Request, TypeOK, Progress
  <2>2. Progress'
    BY <1>1, ExchangeTypes, NoneNew DEF Request, TypeOK, Progress
  <2>3. OverIsRecorded'
    BY <1>1, ExchangeTypes, NoneNew DEF Request, TypeOK, Progress, OverIsRecorded
  <2>4. RecordTellsTheTruth'
    BY <1>1, ExchangeTypes, NoneNew DEF Request, TypeOK, Progress, RecordTellsTheTruth,
       Ended, Capped, Dropped, Broken, NoResponse, Exchange, Answers, Statuses
  <2>. QED BY <2>1, <2>2, <2>3, <2>4
<1>2. ASSUME NEW r \in Requests, BodyEnd(r) PROVE IInv'
  <2>1. TypeOK'
    BY <1>2, ExchangeTypes, NoneNew DEF BodyEnd, TypeOK, Progress
  <2>2. Progress'
    BY <1>2, ExchangeTypes, NoneNew DEF BodyEnd, TypeOK, Progress
  <2>3. OverIsRecorded'
    BY <1>2, ExchangeTypes, NoneNew DEF BodyEnd, TypeOK, Progress, OverIsRecorded
  <2>4. RecordTellsTheTruth'
    BY <1>2, ExchangeTypes, NoneNew DEF BodyEnd, TypeOK, Progress, RecordTellsTheTruth,
       Ended, Capped, Dropped, Broken, NoResponse, Exchange, Answers, Statuses
  <2>. QED BY <2>1, <2>2, <2>3, <2>4
<1>3. ASSUME NEW r \in Requests, ClientGone(r) PROVE IInv'
  <2>1. TypeOK'
    BY <1>3, ExchangeTypes, NoneNew, NoAnswerNew DEF ClientGone, CloseEffect, Emit, Watched, Here, TypeOK, Progress
  <2>2. Progress'
    BY <1>3, ExchangeTypes, NoneNew, NoAnswerNew DEF ClientGone, CloseEffect, Emit, Watched, Here, TypeOK, Progress
  <2>3. OverIsRecorded'
    BY <1>3, ExchangeTypes, NoneNew, NoAnswerNew DEF ClientGone, CloseEffect, Emit, Watched, Here, TypeOK, Progress, OverIsRecorded
  <2>4. RecordTellsTheTruth'
    BY <1>3, ExchangeTypes, NoneNew, NoAnswerNew DEF ClientGone, CloseEffect, Emit, Watched, Here, TypeOK, Progress, RecordTellsTheTruth,
       Ended, Capped, Dropped, Broken, NoResponse, Exchange, Answers, Statuses
  <2>. QED BY <2>1, <2>2, <2>3, <2>4
<1>4. ASSUME NEW r \in Requests, UpstreamError(r) PROVE IInv'
  <2>1. TypeOK'
    BY <1>4, ExchangeTypes, NoneNew DEF UpstreamError, Emit, TypeOK, Progress
  <2>2. Progress'
    BY <1>4, ExchangeTypes, NoneNew DEF UpstreamError, Emit, TypeOK, Progress
  <2>3. OverIsRecorded'
    BY <1>4, ExchangeTypes, NoneNew DEF UpstreamError, Emit, TypeOK, Progress, OverIsRecorded
  <2>4. RecordTellsTheTruth'
    BY <1>4, ExchangeTypes, NoneNew DEF UpstreamError, Emit, TypeOK, Progress, RecordTellsTheTruth,
       Ended, Capped, Dropped, Broken, NoResponse, Exchange, Answers, Statuses
  <2>. QED BY <2>1, <2>2, <2>3, <2>4
<1>5. ASSUME NEW r \in Requests, UpstreamReset(r) PROVE IInv'
  <2>1. TypeOK'
    BY <1>5, ExchangeTypes, NoneNew DEF UpstreamReset, Emit, TypeOK, Progress
  <2>2. Progress'
    BY <1>5, ExchangeTypes, NoneNew DEF UpstreamReset, Emit, TypeOK, Progress
  <2>3. OverIsRecorded'
    BY <1>5, ExchangeTypes, NoneNew DEF UpstreamReset, Emit, TypeOK, Progress, OverIsRecorded
  <2>4. RecordTellsTheTruth'
    BY <1>5, ExchangeTypes, NoneNew DEF UpstreamReset, Emit, TypeOK, Progress, RecordTellsTheTruth,
       Ended, Capped, Dropped, Broken, NoResponse, Exchange, Answers, Statuses
  <2>. QED BY <2>1, <2>2, <2>3, <2>4
<1>6. ASSUME NEW r \in Requests, NEW a \in Answers, Response(r, a) PROVE IInv'
  <2>1. TypeOK'
    BY <1>6, ExchangeTypes, NoneNew DEF Response, TypeOK, Progress
  <2>2. Progress'
    BY <1>6, ExchangeTypes, NoneNew DEF Response, TypeOK, Progress
  <2>3. OverIsRecorded'
    BY <1>6, ExchangeTypes, NoneNew DEF Response, TypeOK, Progress, OverIsRecorded
  <2>4. RecordTellsTheTruth'
    BY <1>6, ExchangeTypes, NoneNew DEF Response, TypeOK, Progress, RecordTellsTheTruth,
       Ended, Capped, Dropped, Broken, NoResponse, Exchange, Answers, Statuses
  <2>. QED BY <2>1, <2>2, <2>3, <2>4
<1>7. ASSUME NEW r \in Requests, SseFull(r) PROVE IInv'
  <2>1. TypeOK'
    BY <1>7, ExchangeTypes, NoneNew DEF SseFull, Emit, Flowing, TypeOK, Progress
  <2>2. Progress'
    BY <1>7, ExchangeTypes, NoneNew DEF SseFull, Emit, Flowing, TypeOK, Progress
  <2>3. OverIsRecorded'
    BY <1>7, ExchangeTypes, NoneNew DEF SseFull, Emit, Flowing, TypeOK, Progress, OverIsRecorded
  <2>4. RecordTellsTheTruth'
    BY <1>7, ExchangeTypes, NoneNew DEF SseFull, Emit, Flowing, TypeOK, Progress, RecordTellsTheTruth,
       Ended, Capped, Dropped, Broken, NoResponse, Exchange, Answers, Statuses
  <2>. QED BY <2>1, <2>2, <2>3, <2>4
<1>8. ASSUME NEW r \in Requests, Stall(r) PROVE IInv'
  <2>1. TypeOK'
    BY <1>8, ExchangeTypes, NoneNew DEF Stall, Flowing, TypeOK, Progress
  <2>2. Progress'
    BY <1>8, ExchangeTypes, NoneNew DEF Stall, Flowing, TypeOK, Progress
  <2>3. OverIsRecorded'
    BY <1>8, ExchangeTypes, NoneNew DEF Stall, Flowing, TypeOK, Progress, OverIsRecorded
  <2>4. RecordTellsTheTruth'
    BY <1>8, ExchangeTypes, NoneNew DEF Stall, Flowing, TypeOK, Progress, RecordTellsTheTruth,
       Ended, Capped, Dropped, Broken, NoResponse, Exchange, Answers, Statuses
  <2>. QED BY <2>1, <2>2, <2>3, <2>4
<1>9. ASSUME NEW r \in Requests, ResponseEnd(r) PROVE IInv'
  <2>1. TypeOK'
    BY <1>9, ExchangeTypes, NoneNew DEF ResponseEnd, Emit, Flowing, TypeOK, Progress
  <2>2. Progress'
    BY <1>9, ExchangeTypes, NoneNew DEF ResponseEnd, Emit, Flowing, TypeOK, Progress
  <2>3. OverIsRecorded'
    BY <1>9, ExchangeTypes, NoneNew DEF ResponseEnd, Emit, Flowing, TypeOK, Progress, OverIsRecorded
  <2>4. RecordTellsTheTruth'
    <3> SUFFICES ASSUME NEW q \in Requests, NEW x \in Exchanges, exchange'[q] = x
                 PROVE  /\ ~x.stream /\ ~x.errored =>
                             /\ upstream'[q] = "done" /\ sink'[q] = "ended"
                             /\ x.status = "good" /\ answer'[q].status = "good"
                        /\ x.status = "none" => x.errored
      BY DEF RecordTellsTheTruth
    <3>1. CASE q = r /\ emits[r] = 0
      <4>1. x = Ended[r] /\ answer[r] \in Answers
        BY <1>9, <3>1 DEF ResponseEnd, Emit, Flowing, TypeOK, Progress
      <4>2. /\ x.status = answer[r].status /\ answer[r].status \in {"good", "error"}
            /\ x.errored = (answer[r].status = "error")
        BY <4>1 DEF Ended, Exchange, Answers, Statuses
      <4>3. upstream'[r] = "done" /\ sink'[r] = "ended" /\ answer' = answer
        BY <1>9 DEF ResponseEnd, TypeOK
      <4>. QED BY <3>1, <4>2, <4>3
    <3>2. CASE ~(q = r /\ emits[r] = 0)
      BY <1>9, <3>2 DEF ResponseEnd, Emit, Flowing, TypeOK, Progress, RecordTellsTheTruth
    <3>. QED BY <3>1, <3>2
  <2>. QED BY <2>1, <2>2, <2>3, <2>4
<1>10. ASSUME NEW r \in Requests, ResponseCut(r) PROVE IInv'
  <2>1. TypeOK'
    BY <1>10, ExchangeTypes, NoneNew DEF ResponseCut, Emit, TypeOK, Progress
  <2>2. Progress'
    BY <1>10, ExchangeTypes, NoneNew DEF ResponseCut, Emit, TypeOK, Progress
  <2>3. OverIsRecorded'
    BY <1>10, ExchangeTypes, NoneNew DEF ResponseCut, Emit, TypeOK, Progress, OverIsRecorded
  <2>4. RecordTellsTheTruth'
    BY <1>10, ExchangeTypes, NoneNew DEF ResponseCut, Emit, TypeOK, Progress, RecordTellsTheTruth,
       Ended, Capped, Dropped, Broken, NoResponse, Exchange, Answers, Statuses
  <2>. QED BY <2>1, <2>2, <2>3, <2>4
<1>11. ASSUME StopBegin PROVE IInv'
  BY <1>11 DEF StopBegin, TypeOK, Progress, OverIsRecorded, RecordTellsTheTruth
<1>12. ASSUME DestroySockets PROVE IInv'
  <2>1. TypeOK'
    BY <1>12, ExchangeTypes, NoneNew, NoAnswerNew DEF DestroySockets, CloseEffect, Emit, Watched, Here, TypeOK, Progress
  <2>2. Progress'
    BY <1>12, ExchangeTypes, NoneNew, NoAnswerNew DEF DestroySockets, CloseEffect, Emit, Watched, Here, TypeOK, Progress
  <2>3. OverIsRecorded'
    BY <1>12, ExchangeTypes, NoneNew, NoAnswerNew DEF DestroySockets, CloseEffect, Emit, Watched, Here, TypeOK, Progress, OverIsRecorded
  <2>4. RecordTellsTheTruth'
    BY <1>12, ExchangeTypes, NoneNew, NoAnswerNew DEF DestroySockets, CloseEffect, Emit, Watched, Here, TypeOK, Progress, RecordTellsTheTruth,
       Ended, Capped, Dropped, Broken, NoResponse, Exchange, Answers, Statuses
  <2>. QED BY <2>1, <2>2, <2>3, <2>4
<1>13. ASSUME StopEnd PROVE IInv'
  BY <1>13 DEF StopEnd, TypeOK, Progress, OverIsRecorded, RecordTellsTheTruth
<1>14. ASSUME UNCHANGED vars PROVE IInv'
  BY <1>14 DEF vars, TypeOK, Progress, OverIsRecorded, RecordTellsTheTruth
<1>. QED
  BY <1>1, <1>2, <1>3, <1>4, <1>5, <1>6, <1>7, <1>8, <1>9, <1>10, <1>11, <1>12, <1>13, <1>14
  DEF Next, ByClient, ByTarget

\* The invariant is one of the specification.
LEMMA Inductive == Spec => []IInv
<1>1. Init => IInv
  BY InitIInv
<1>2. IInv /\ [Next]_vars => IInv'
  BY NextIInv
<1>. QED BY <1>1, <1>2, PTL DEF Spec

-----------------------------------------------------------------------------
(***************************************************************************)
(* Type correctness of the forwarder.                                      *)
(***************************************************************************)
THEOREM TypeCorrect == Spec => []TypeOK
<1>1. IInv => TypeOK
  BY DEF IInv
<1>. QED BY <1>1, Inductive, PTL

(***************************************************************************)
(* For any number of requests, no request to the target is over without    *)
(* its exchange.                                                           *)
(***************************************************************************)
THEOREM NoneLost == Spec => []OverIsRecorded
<1>1. IInv => OverIsRecorded
  BY DEF IInv
<1>. QED BY <1>1, Inductive, PTL

(***************************************************************************)
(* For any number of requests, an exchange that looks clean is of a        *)
(* response that was clean.                                                *)
(***************************************************************************)
THEOREM RecordsAreTrue == Spec => []RecordTellsTheTruth
<1>1. IInv => RecordTellsTheTruth
  BY DEF IInv
<1>. QED BY <1>1, Inductive, PTL

-----------------------------------------------------------------------------
(***************************************************************************)
(* The refinement: every step emits for requests that have no exchange and *)
(* were taken, or leaves the exchanges alone.                              *)
(***************************************************************************)
LEMMA EmitRefines ==
  ASSUME IInv, IInv', NEW R \in SUBSET Requests, NEW x,
         \A r \in R : x[r] \in Exchanges, Emit(R, x), \A r \in R : upstream'[r] # "none"
  PROVE  \A r \in Requests : Abstract!EmitsOnce(r)
  BY DEF Emit, IInv, TypeOK, Abstract!EmitsOnce

\* A step that emits nothing refines a stutter of every request.
LEMMA QuietRefines ==
  ASSUME UNCHANGED log
  PROVE  \A r \in Requests : Abstract!EmitsOnce(r)
  BY DEF log, Abstract!EmitsOnce

\* Every step emits as OneExchange allows.
LEMMA EachRefines ==
  IInv /\ IInv' /\ [Next]_vars => \A r \in Requests : Abstract!EmitsOnce(r)
<1> SUFFICES ASSUME IInv, IInv', [Next]_vars PROVE \A r \in Requests : Abstract!EmitsOnce(r)
  OBVIOUS
<1> USE ExchangeTypes, NoAnswerNew, EmitRefines, QuietRefines DEF IInv
<1>1. ASSUME NEW r \in Requests, UpstreamError(r) PROVE \A q \in Requests : Abstract!EmitsOnce(q)
  <2>1. Emit({r}, NoResponse) /\ NoResponse[r] \in Exchanges /\ upstream'[r] # "none"
    BY <1>1 DEF UpstreamError, Flowing, TypeOK, Progress
  <2>. QED BY <2>1
<1>2. ASSUME NEW r \in Requests, UpstreamReset(r) PROVE \A q \in Requests : Abstract!EmitsOnce(q)
  <2>1. Emit({r}, NoResponse) /\ NoResponse[r] \in Exchanges /\ upstream'[r] # "none"
    BY <1>2 DEF UpstreamReset, Flowing, TypeOK, Progress
  <2>. QED BY <2>1
<1>3. ASSUME NEW r \in Requests, SseFull(r) PROVE \A q \in Requests : Abstract!EmitsOnce(q)
  <2>1. Emit({r}, Capped) /\ Capped[r] \in Exchanges /\ upstream'[r] # "none"
    BY <1>3 DEF SseFull, Flowing, TypeOK, Progress
  <2>. QED BY <2>1
<1>4. ASSUME NEW r \in Requests, ResponseEnd(r) PROVE \A q \in Requests : Abstract!EmitsOnce(q)
  <2>1. Emit({r}, Ended) /\ Ended[r] \in Exchanges /\ upstream'[r] # "none"
    BY <1>4 DEF ResponseEnd, Flowing, TypeOK, Progress
  <2>. QED BY <2>1
<1>5. ASSUME NEW r \in Requests, ResponseCut(r) PROVE \A q \in Requests : Abstract!EmitsOnce(q)
  <2>1. Emit({r}, Broken) /\ Broken[r] \in Exchanges /\ upstream'[r] # "none"
    BY <1>5 DEF ResponseCut, Flowing, TypeOK, Progress
  <2>. QED BY <2>1
<1>6. ASSUME NEW R \in SUBSET Requests, CloseEffect(R) PROVE \A q \in Requests : Abstract!EmitsOnce(q)
  <2> DEFINE W == {r \in R : Watched(r)}
  <2>1. Emit(W, Dropped) /\ W \in SUBSET Requests
    BY <1>6 DEF CloseEffect
  <2>2. \A r \in W : Dropped[r] \in Exchanges /\ upstream'[r] # "none"
    BY <1>6 DEF CloseEffect, Watched, TypeOK, Progress
  <2>. QED BY <2>1, <2>2
<1>7. ASSUME NEW r \in Requests, ClientGone(r) PROVE \A q \in Requests : Abstract!EmitsOnce(q)
  BY <1>6, <1>7 DEF ClientGone
<1>8. ASSUME DestroySockets PROVE \A q \in Requests : Abstract!EmitsOnce(q)
  BY <1>6, <1>8 DEF DestroySockets
<1>9. (\A q \in Requests : Abstract!EmitsOnce(q)) \/ UNCHANGED log
  BY <1>1, <1>2, <1>3, <1>4, <1>5, <1>7, <1>8
  DEF Next, ByClient, ByTarget, vars, log, Request, BodyEnd, Response, Stall, StopBegin, StopEnd
<1>. QED BY <1>9

\* Every step maps to a step of OneExchange or to a stutter.
LEMMA StepRefines == IInv /\ IInv' /\ [Next]_vars => [Abstract!Next]_Abstract!vars
<1> SUFFICES ASSUME IInv, IInv', [Next]_vars PROVE Abstract!Next
  OBVIOUS
<1>1. \A r \in Requests : Abstract!EmitsOnce(r)
  BY EachRefines
<1>2. \A r \in Requests : upstream[r] # "none" => upstream'[r] # "none"
  <2>1. \A r \in Requests : client[r] # "idle" => client'[r] # "idle"
    <3>1. ASSUME NEW q \in Requests, \/ \E whole \in BOOLEAN : Request(q, whole)
                                     \/ BodyEnd(q) \/ ClientGone(q) \/ UpstreamReset(q)
          PROVE  \A r \in Requests : client[r] # "idle" => client'[r] # "idle"
      BY <3>1 DEF IInv, TypeOK, Request, BodyEnd, ClientGone, UpstreamReset
    <3>2. ASSUME DestroySockets
          PROVE  \A r \in Requests : client[r] # "idle" => client'[r] # "idle"
      BY <3>2 DEF DestroySockets
    <3>. QED BY <3>1, <3>2 DEF Next, ByClient, ByTarget, vars, UpstreamError, Response, SseFull,
                               Stall, ResponseEnd, ResponseCut, StopBegin, StopEnd
  <2>. QED BY <2>1 DEF IInv, Progress
<1>. QED BY <1>1, <1>2 DEF Abstract!Next

(***************************************************************************)
(* The forwarder implements OneExchange: for any number of requests and    *)
(* any order of events, each request taken gives at most one exchange,     *)
(* which is never amended.                                                 *)
(***************************************************************************)
THEOREM ImplementsOneExchange == Spec => KeepsOneExchange
<1>1. Init => Abstract!Init
  BY DEF Init, Abstract!Init
<1>2. IInv /\ IInv' /\ [Next]_vars => [Abstract!Next]_Abstract!vars
  BY StepRefines
<1>. QED BY <1>1, <1>2, Inductive, PTL DEF Spec, KeepsOneExchange, Abstract!Spec
=============================================================================
