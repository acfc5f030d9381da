-------------------------- MODULE ForwardH2Proofs ---------------------------
(***************************************************************************)
(* Proofs about ForwardH2, for any set of client streams.                  *)
(***************************************************************************)
EXTENDS ForwardH2, TLAPS

(***************************************************************************)
(* What makes the invariants inductive: nothing is emitted before the      *)
(* upstream stream can have ended, and a client is idle exactly as long as *)
(* it has no upstream stream.                                              *)
(***************************************************************************)
Progress ==
  \A r \in Requests :
    /\ client[r] = "idle" <=> upstream[r] = "none"
    /\ Live(r) => Here(r)
    /\ upstream[r] \in {"none", "open", "answering"} => emits[r] = 0
    /\ upstream[r] \in {"none", "open"} => trailers[r] = "absent"
    /\ emits[r] = 0 <=> exchange[r] = None

IInv == TypeOK /\ Progress /\ ClosedIsRecorded /\ SuccessIsWhole

\* None is not an exchange.
LEMMA NoneNew == None \notin Exchanges
  BY NoneAssumption DEF Exchanges, Statuses

\* The invariant holds at the start.
LEMMA InitIInv == Init => IInv
  BY NoneNew DEF Init, IInv, TypeOK, Progress, ClosedIsRecorded, SuccessIsWhole, Here, Live, NoAnswer, Grpc

\* What a step can change of the exchanges: one request's, from none to one.
EmitsFor(r) ==
  \/ UNCHANGED log
  \/ /\ emits[r] = 0 /\ upstream'[r] # "none"
     /\ emits' = [emits EXCEPT ![r] = 1]
     /\ \E x \in Exchanges : exchange' = [exchange EXCEPT ![r] = x]

LogOK == /\ emits \in [Requests -> {0, 1}]
         /\ exchange \in [Requests -> Exchanges \cup {None}]
         /\ \A r \in Requests : emits[r] = 0 <=> exchange[r] = None

\* What Emit does to the exchanges.
LEMMA EmitFacts ==
  ASSUME NEW r \in Requests, NEW status \in Statuses, NEW errored \in BOOLEAN,
         LogOK, Emit(r, status, errored), upstream'[r] # "none"
  PROVE  /\ LogOK' /\ EmitsFor(r)
         /\ emits'[r] = 1
         /\ emits[r] = 0 => exchange'[r].errored = errored
         /\ emits[r] # 0 => exchange'[r] = exchange[r]
         /\ \A q \in Requests \ {r} : emits'[q] = emits[q] /\ exchange'[q] = exchange[q]
<1> DEFINE x == [status |-> status, errored |-> errored]
<1>1. x \in Exchanges /\ x.errored = errored /\ x # None
  BY NoneNew DEF Exchanges
<1>2. CASE emits[r] = 0
  <2>1. emits' = [emits EXCEPT ![r] = 1] /\ exchange' = [exchange EXCEPT ![r] = x]
    BY <1>2 DEF Emit
  <2> HIDE DEF x
  <2>2. emits'[r] = 1 /\ exchange'[r] = x
    BY <2>1 DEF LogOK
  <2>3. \A q \in Requests \ {r} : emits'[q] = emits[q] /\ exchange'[q] = exchange[q]
    BY <2>1 DEF LogOK
  <2>4. LogOK'
    BY <1>1, <2>1, <2>2, <2>3 DEF LogOK
  <2>5. EmitsFor(r)
    BY <1>1, <1>2, <2>1 DEF EmitsFor
  <2>. QED BY <1>1, <1>2, <2>2, <2>3, <2>4, <2>5
<1>3. CASE emits[r] # 0
  <2>1. UNCHANGED log
    BY <1>3 DEF Emit
  <2>. QED BY <1>3, <2>1 DEF LogOK, EmitsFor, log
<1>. QED BY <1>2, <1>3

\* The statuses and flags that steps emit have their types.
LEMMA EmitTypes ==
  ASSUME TypeOK
  PROVE  /\ \A r \in Requests : answer[r].status \in Statuses
         /\ \A a \in Answers : a.status \in Statuses /\ a.grpc \in Grpc
         /\ \A a, t : GotError(a, t) \in BOOLEAN
         /\ "none" \in Statuses
<1>1. \A a, t : GotError(a, t) \in BOOLEAN
  BY DEF GotError
<1>2. \A a \in Answers : a.status \in Statuses /\ a.grpc \in Grpc
  BY DEF Answers, Statuses
<1>3. NoAnswer.status \in Statuses /\ "none" \in Statuses
  BY DEF NoAnswer, Statuses
<1>. QED BY <1>1, <1>2, <1>3 DEF TypeOK

\* A response that GotError passes has no bad grpc-status where it counts.
LEMMA GotErrorFacts ==
  ASSUME NEW a, NEW t, ~GotError(a, t)
  PROVE  t # "nonzero" /\ (t = "absent" => a.grpc # "nonzero")
  BY DEF GotError

\* Every step keeps the invariant: one step per action, one level down per part.
LEMMA NextIInv ==
  ASSUME IInv, [Next]_vars
  PROVE  IInv' /\ (UNCHANGED log \/ \E r \in Requests : EmitsFor(r))
<1> USE NoneNew DEF IInv, log
<1>1. ASSUME NEW r \in Requests, NEW whole \in BOOLEAN, Request(r, whole) PROVE IInv' /\ EmitsFor(r)
  <2>1. TypeOK'
    BY <1>1 DEF Request, TypeOK, Progress, Exchanges, Statuses, Answers, NoAnswer, Grpc, GotError
  <2>2. Progress'
    BY <1>1 DEF Request, TypeOK, Progress, Here, Live, Exchanges, Statuses, Answers, NoAnswer, GotError
  <2>3. ClosedIsRecorded'
    BY <1>1 DEF Request, TypeOK, Progress, ClosedIsRecorded, Here, Live
  <2>4. SuccessIsWhole'
    BY <1>1 DEF Request, TypeOK, Progress, SuccessIsWhole, Here, Live, GotError
  <2>5. EmitsFor(r)
    BY <1>1 DEF Request, EmitsFor, TypeOK, Progress, Here, Live, Exchanges, Statuses, Answers, NoAnswer, GotError
  <2>. QED BY <2>1, <2>2, <2>3, <2>4, <2>5
<1>2. ASSUME NEW r \in Requests, Refused(r) PROVE IInv' /\ EmitsFor(r)
  <2>1. Emit(r, "none", TRUE) /\ upstream'[r] # "none"
    BY <1>2 DEF Refused, TypeOK, Progress, Live, Here
  <2>2. "none" \in Statuses /\ TRUE \in BOOLEAN /\ LogOK
    BY EmitTypes DEF TypeOK, Progress, LogOK
  <2>3. /\ LogOK' /\ EmitsFor(r)
        /\ emits'[r] = 1
        /\ emits[r] = 0 => exchange'[r].errored = TRUE
        /\ emits[r] # 0 => exchange'[r] = exchange[r]
        /\ \A q \in Requests \ {r} : emits'[q] = emits[q] /\ exchange'[q] = exchange[q]
    BY <2>1, <2>2, EmitFacts
  <2>4. TypeOK'
    BY <1>2, <2>3 DEF Refused, TypeOK, LogOK
  <2>5. Progress'
    BY <1>2, <2>3 DEF Refused, TypeOK, Progress, LogOK, Here, Live
  <2>6. ClosedIsRecorded'
    BY <1>2, <2>3 DEF Refused, TypeOK, Progress, ClosedIsRecorded, Here, Live
  <2>7. SuccessIsWhole'
    BY <1>2, <2>3 DEF Refused, TypeOK, Progress, SuccessIsWhole, Here, Live, GotError
  <2>. QED BY <2>3, <2>4, <2>5, <2>6, <2>7
<1>3. ASSUME NEW r \in Requests, BodyEnd(r) PROVE IInv' /\ EmitsFor(r)
  <2>1. TypeOK'
    BY <1>3 DEF BodyEnd, TypeOK, Progress, Exchanges, Statuses, Answers, NoAnswer, Grpc, GotError
  <2>2. Progress'
    BY <1>3 DEF BodyEnd, TypeOK, Progress, Here, Live, Exchanges, Statuses, Answers, NoAnswer, GotError
  <2>3. ClosedIsRecorded'
    BY <1>3 DEF BodyEnd, TypeOK, Progress, ClosedIsRecorded, Here, Live
  <2>4. SuccessIsWhole'
    BY <1>3 DEF BodyEnd, TypeOK, Progress, SuccessIsWhole, Here, Live, GotError
  <2>5. EmitsFor(r)
    BY <1>3 DEF BodyEnd, EmitsFor, TypeOK, Progress, Here, Live, Exchanges, Statuses, Answers, NoAnswer, GotError
  <2>. QED BY <2>1, <2>2, <2>3, <2>4, <2>5
<1>4. ASSUME NEW r \in Requests, ClientGone(r) PROVE IInv' /\ EmitsFor(r)
  <2>1. Emit(r, answer[r].status, TRUE) /\ upstream'[r] # "none"
    BY <1>4 DEF ClientGone, TypeOK, Progress, Live, Here
  <2>2. answer[r].status \in Statuses /\ TRUE \in BOOLEAN /\ LogOK
    BY EmitTypes DEF TypeOK, Progress, LogOK
  <2>3. /\ LogOK' /\ EmitsFor(r)
        /\ emits'[r] = 1
        /\ emits[r] = 0 => exchange'[r].errored = TRUE
        /\ emits[r] # 0 => exchange'[r] = exchange[r]
        /\ \A q \in Requests \ {r} : emits'[q] = emits[q] /\ exchange'[q] = exchange[q]
    BY <2>1, <2>2, EmitFacts
  <2>4. TypeOK'
    BY <1>4, <2>3 DEF ClientGone, TypeOK, LogOK
  <2>5. Progress'
    BY <1>4, <2>3 DEF ClientGone, TypeOK, Progress, LogOK, Here, Live
  <2>6. ClosedIsRecorded'
    BY <1>4, <2>3 DEF ClientGone, TypeOK, Progress, ClosedIsRecorded, Here, Live
  <2>7. SuccessIsWhole'
    BY <1>4, <2>3 DEF ClientGone, TypeOK, Progress, SuccessIsWhole, Here, Live, GotError
  <2>. QED BY <2>3, <2>4, <2>5, <2>6, <2>7
<1>5. ASSUME NEW r \in Requests, UpstreamError(r) PROVE IInv' /\ EmitsFor(r)
  <2>1. Emit(r, answer[r].status, TRUE) /\ upstream'[r] # "none"
    BY <1>5 DEF UpstreamError, TypeOK, Progress, Live, Here
  <2>2. answer[r].status \in Statuses /\ TRUE \in BOOLEAN /\ LogOK
    BY EmitTypes DEF TypeOK, Progress, LogOK
  <2>3. /\ LogOK' /\ EmitsFor(r)
        /\ emits'[r] = 1
        /\ emits[r] = 0 => exchange'[r].errored = TRUE
        /\ emits[r] # 0 => exchange'[r] = exchange[r]
        /\ \A q \in Requests \ {r} : emits'[q] = emits[q] /\ exchange'[q] = exchange[q]
    BY <2>1, <2>2, EmitFacts
  <2>4. TypeOK'
    BY <1>5, <2>3 DEF UpstreamError, TypeOK, LogOK
  <2>5. Progress'
    BY <1>5, <2>3 DEF UpstreamError, TypeOK, Progress, LogOK, Here, Live
  <2>6. ClosedIsRecorded'
    BY <1>5, <2>3 DEF UpstreamError, TypeOK, Progress, ClosedIsRecorded, Here, Live
  <2>7. SuccessIsWhole'
    BY <1>5, <2>3 DEF UpstreamError, TypeOK, Progress, SuccessIsWhole, Here, Live, GotError
  <2>. QED BY <2>3, <2>4, <2>5, <2>6, <2>7
<1>6. ASSUME NEW r \in Requests, UpstreamVanish(r) PROVE IInv' /\ EmitsFor(r)
  <2>1. TypeOK'
    BY <1>6 DEF UpstreamVanish, TypeOK, Progress, Exchanges, Statuses, Answers, NoAnswer, Grpc, GotError
  <2>2. Progress'
    BY <1>6 DEF UpstreamVanish, TypeOK, Progress, Here, Live, Exchanges, Statuses, Answers, NoAnswer, GotError
  <2>3. ClosedIsRecorded'
    BY <1>6 DEF UpstreamVanish, TypeOK, Progress, ClosedIsRecorded, Here, Live
  <2>4. SuccessIsWhole'
    BY <1>6 DEF UpstreamVanish, TypeOK, Progress, SuccessIsWhole, Here, Live, GotError
  <2>5. EmitsFor(r)
    BY <1>6 DEF UpstreamVanish, EmitsFor, TypeOK, Progress, Here, Live, Exchanges, Statuses, Answers, NoAnswer, GotError
  <2>. QED BY <2>1, <2>2, <2>3, <2>4, <2>5
<1>7. ASSUME NEW r \in Requests, NEW a \in Answers, HeadersOnly(r, a) PROVE IInv' /\ EmitsFor(r)
  <2>1. Emit(r, a.status, GotError(a, "absent")) /\ upstream'[r] # "none"
    BY <1>7 DEF HeadersOnly, TypeOK, Progress, Live, Here
  <2>2. a.status \in Statuses /\ GotError(a, "absent") \in BOOLEAN /\ LogOK
    BY EmitTypes DEF TypeOK, Progress, LogOK
  <2>3. /\ LogOK' /\ EmitsFor(r)
        /\ emits'[r] = 1
        /\ emits[r] = 0 => exchange'[r].errored = GotError(a, "absent")
        /\ emits[r] # 0 => exchange'[r] = exchange[r]
        /\ \A q \in Requests \ {r} : emits'[q] = emits[q] /\ exchange'[q] = exchange[q]
    BY <2>1, <2>2, EmitFacts
  <2>4. TypeOK'
    BY <1>7, <2>3 DEF HeadersOnly, TypeOK, LogOK
  <2>5. Progress'
    BY <1>7, <2>3 DEF HeadersOnly, TypeOK, Progress, LogOK, Here, Live
  <2>6. ClosedIsRecorded'
    BY <1>7, <2>3 DEF HeadersOnly, TypeOK, Progress, ClosedIsRecorded, Here, Live
  <2>7. SuccessIsWhole'
    BY <1>7, <2>3, GotErrorFacts DEF HeadersOnly, TypeOK, Progress, SuccessIsWhole
  <2>. QED BY <2>3, <2>4, <2>5, <2>6, <2>7
<1>8. ASSUME NEW r \in Requests, NEW a \in Answers, Response(r, a) PROVE IInv' /\ EmitsFor(r)
  <2>1. TypeOK'
    BY <1>8 DEF Response, TypeOK, Progress, Exchanges, Statuses, Answers, NoAnswer, Grpc, GotError
  <2>2. Progress'
    BY <1>8 DEF Response, TypeOK, Progress, Here, Live, Exchanges, Statuses, Answers, NoAnswer, GotError
  <2>3. ClosedIsRecorded'
    BY <1>8 DEF Response, TypeOK, Progress, ClosedIsRecorded, Here, Live
  <2>4. SuccessIsWhole'
    BY <1>8 DEF Response, TypeOK, Progress, SuccessIsWhole, Here, Live, GotError
  <2>5. EmitsFor(r)
    BY <1>8 DEF Response, EmitsFor, TypeOK, Progress, Here, Live, Exchanges, Statuses, Answers, NoAnswer, GotError
  <2>. QED BY <2>1, <2>2, <2>3, <2>4, <2>5
<1>9. ASSUME NEW r \in Requests, NEW grpc \in Grpc, Trailers(r, grpc) PROVE IInv' /\ EmitsFor(r)
  <2>1. TypeOK'
    BY <1>9 DEF Trailers, TypeOK, Progress, Exchanges, Statuses, Answers, NoAnswer, Grpc, GotError
  <2>2. Progress'
    BY <1>9 DEF Trailers, TypeOK, Progress, Here, Live, Exchanges, Statuses, Answers, NoAnswer, GotError
  <2>3. ClosedIsRecorded'
    BY <1>9 DEF Trailers, TypeOK, Progress, ClosedIsRecorded, Here, Live
  <2>4. SuccessIsWhole'
    BY <1>9 DEF Trailers, TypeOK, Progress, SuccessIsWhole, Here, Live, GotError
  <2>5. EmitsFor(r)
    BY <1>9 DEF Trailers, EmitsFor, TypeOK, Progress, Here, Live, Exchanges, Statuses, Answers, NoAnswer, GotError
  <2>. QED BY <2>1, <2>2, <2>3, <2>4, <2>5
<1>10. ASSUME NEW r \in Requests, ResponseEnd(r) PROVE IInv' /\ EmitsFor(r)
  <2>1. Emit(r, answer[r].status, GotError(answer[r], trailers[r])) /\ upstream'[r] # "none"
    BY <1>10 DEF ResponseEnd, TypeOK, Progress, Live, Here
  <2>2. answer[r].status \in Statuses /\ GotError(answer[r], trailers[r]) \in BOOLEAN /\ LogOK
    BY EmitTypes DEF TypeOK, Progress, LogOK
  <2>3. /\ LogOK' /\ EmitsFor(r)
        /\ emits'[r] = 1
        /\ emits[r] = 0 => exchange'[r].errored = GotError(answer[r], trailers[r])
        /\ emits[r] # 0 => exchange'[r] = exchange[r]
        /\ \A q \in Requests \ {r} : emits'[q] = emits[q] /\ exchange'[q] = exchange[q]
    BY <2>1, <2>2, EmitFacts
  <2>4. TypeOK'
    BY <1>10, <2>3 DEF ResponseEnd, TypeOK, LogOK
  <2>5. Progress'
    BY <1>10, <2>3 DEF ResponseEnd, TypeOK, Progress, LogOK, Here, Live
  <2>6. ClosedIsRecorded'
    BY <1>10, <2>3 DEF ResponseEnd, TypeOK, Progress, ClosedIsRecorded, Here, Live
  <2>7. SuccessIsWhole'
    BY <1>10, <2>3, GotErrorFacts DEF ResponseEnd, TypeOK, Progress, SuccessIsWhole
  <2>. QED BY <2>3, <2>4, <2>5, <2>6, <2>7
<1>11. ASSUME UNCHANGED vars PROVE IInv' /\ UNCHANGED log
  BY <1>11 DEF vars, TypeOK, Progress, ClosedIsRecorded, SuccessIsWhole, Here, Live
<1>. QED
  BY <1>1, <1>2, <1>3, <1>4, <1>5, <1>6, <1>7, <1>8, <1>9, <1>10, <1>11 DEF Next, ByClient, ByTarget

\* The invariant is one of the specification.
LEMMA Inductive == Spec => []IInv
<1>1. IInv /\ [Next]_vars => IInv'
  BY NextIInv
<1>. QED BY <1>1, InitIInv, PTL DEF Spec

-----------------------------------------------------------------------------
(***************************************************************************)
(* For any number of streams, a client that is gone has left its exchange, *)
(* and an exchange not errored is of a response that was whole.            *)
(***************************************************************************)
THEOREM RecordsAreTrue == Spec => [](TypeOK /\ ClosedIsRecorded /\ SuccessIsWhole)
<1>1. IInv => TypeOK /\ ClosedIsRecorded /\ SuccessIsWhole
  BY DEF IInv
<1>. QED BY <1>1, Inductive, PTL

\* Every step maps to a step of OneExchange or to a stutter.
LEMMA StepRefines == IInv /\ IInv' /\ [Next]_vars => [Abstract!Next]_Abstract!vars
<1> SUFFICES ASSUME IInv, IInv', [Next]_vars PROVE Abstract!Next
  OBVIOUS
<1>1. ASSUME NEW r \in Requests PROVE Abstract!EmitsOnce(r)
  <2>1. UNCHANGED log \/ \E q \in Requests : EmitsFor(q)
    BY NextIInv
  <2>. QED BY <2>1 DEF EmitsFor, log, IInv, TypeOK, Abstract!EmitsOnce
<1>2. \A r \in Requests : client[r] # "idle" => client'[r] # "idle"
  BY DEF Next, ByClient, ByTarget, vars, IInv, TypeOK, Request, Refused, BodyEnd, ClientGone,
     UpstreamError, UpstreamVanish, HeadersOnly, Response, Trailers, ResponseEnd
<1>3. \A r \in Requests : upstream[r] # "none" => upstream'[r] # "none"
  BY <1>2 DEF IInv, Progress
<1>. QED BY <1>1, <1>3 DEF Abstract!Next

(***************************************************************************)
(* The relay implements OneExchange for any number of streams.             *)
(***************************************************************************)
THEOREM ImplementsOneExchange == Spec => KeepsOneExchange
<1>1. Init => Abstract!Init
  BY DEF Init, Abstract!Init
<1>2. IInv /\ IInv' /\ [Next]_vars => [Abstract!Next]_Abstract!vars
  BY StepRefines
<1>. QED BY <1>1, <1>2, Inductive, PTL DEF Spec, KeepsOneExchange, Abstract!Spec
=============================================================================
