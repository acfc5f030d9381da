----------------------------- MODULE HttpClient -----------------------------
(***************************************************************************)
(* sendHttp (engine/http.ts, engine/proxy.ts): one request, its redirects  *)
(* and its answer, over the callbacks of node:http.  Whatever the server,  *)
(* the proxy and the connection do, the promise settles once, at the       *)
(* latest when the timer fires.                                            *)
(***************************************************************************)
EXTENDS Naturals, Sequences

CONSTANT MAX_REDIRECTS   \* 10 in the code

ASSUME HttpAssumption == MAX_REDIRECTS \in Nat

VARIABLES
  following,   \* options.followRedirects
  exchanged,   \* history: the hops sent, [method, body], with the status each met
  wire,        \* the hop in progress: what of it is awaited
  settled,     \* the promise
  timer,       \* the overall deadline
  stored,      \* history: hops whose cookies are in the jar
  late         \* history: a hop was sent after the promise had settled

httpVars == <<following, exchanged, wire, settled, timer, stored, late>>

Redirects == {301, 302, 303, 307, 308}
Statuses == {200} \cup Redirects
Hop(method, body) == [method |-> method, body |-> body, status |-> 0]
LastHop == exchanged[Len(exchanged)]
Met(status) == exchanged' = [exchanged EXCEPT ![Len(exchanged)].status = status]

HttpInit ==
  /\ following \in BOOLEAN
  /\ exchanged = <<>> /\ wire = "idle" /\ settled = "no" /\ timer = "off"
  /\ stored = {} /\ late = FALSE

Settle(how) ==
  /\ settled' = IF settled = "no" THEN how ELSE settled
  /\ timer' = IF settled = "no" THEN "off" ELSE timer

-----------------------------------------------------------------------------
\* doRequest: the hop goes out, directly, in absolute form to a proxy, or
\* through its tunnel; an invalid or unsupported URL fails it, and a certificate
\* file that cannot be read throws: out of the promise's executor at the first
\* hop, out of an event handler later.
DoRequest(method, body) ==
  \/ /\ exchanged' = Append(exchanged, Hop(method, body))
     /\ wire' = "request"
     /\ late' = (late \/ settled # "no")
     /\ UNCHANGED settled
  \/ /\ wire' = "gone" /\ settled' = IF settled = "no" THEN "rejected" ELSE settled
     /\ UNCHANGED <<exchanged, late>>

SendHttp ==
  /\ wire = "idle"
  /\ \E method \in {"GET", "HEAD", "POST"}, body \in BOOLEAN : DoRequest(method, body)
  /\ timer' = IF settled' = "no" THEN "on" ELSE "off"
  /\ UNCHANGED <<following, stored>>

NextHopThrows ==
  /\ wire = "redirect"
  /\ wire' = "gone"
  /\ UNCHANGED <<following, exchanged, settled, timer, stored, late>>

\* onResponse: the cookies of every hop are stored.
Responds(status) ==
  /\ wire = "request"
  /\ Met(status)
  /\ stored' \in {stored, stored \cup {Len(exchanged)}}

Followed(status) == following /\ status \in Redirects

FinalResponse(status) ==
  /\ Responds(status)
  /\ wire' = "body"
  /\ UNCHANGED <<following, settled, timer, late>>

\* A redirect without a Location is an answer, one with an invalid Location or
\* one too many fails the request, and any other is drained.
RedirectResponse(status) ==
  /\ Followed(status) /\ Responds(status)
  /\ IF Len(exchanged) > MAX_REDIRECTS
       THEN wire' = "gone" /\ Settle("rejected")
       ELSE \/ wire' = "redirect" /\ UNCHANGED <<settled, timer>>
            \/ wire' = "gone" /\ Settle("rejected")
  /\ UNCHANGED <<following, late>>

\* Variant: 307 and 308 are taken for 302.
BecomesGetAlways(method, status) == method \notin {"GET", "HEAD"}

\* 303 turns into GET, as 301 and 302 do unless the method is GET or HEAD; the
\* body goes with the method.
BecomesGet(method, status) == status = 303 \/ (status \in {301, 302} /\ method \notin {"GET", "HEAD"})

NextHop ==
  /\ wire = "redirect"
  /\ IF BecomesGet(LastHop.method, LastHop.status) THEN DoRequest("GET", FALSE)
                                             ELSE DoRequest(LastHop.method, LastHop.body)
  /\ timer' = IF settled' = settled THEN timer ELSE "off"
  /\ UNCHANGED <<following, stored>>

\* The body is complete; or it is broken off, which is an error, and which a
\* decompressor waiting for more never tells of.
BodyEnds ==
  /\ wire = "body"
  /\ wire' = "gone"
  /\ Settle("resolved") \/ Settle("rejected") \/ UNCHANGED <<settled, timer>>
  /\ UNCHANGED <<following, exchanged, stored, late>>

\* The connection fails, as may its tunnel; or the proxy hangs up on a CONNECT
\* it has not answered, which nobody listens for.
ConnectionFails ==
  /\ wire \in {"request", "redirect"}
  /\ wire' = "gone"
  /\ Settle("rejected") \/ (wire = "request" /\ UNCHANGED <<settled, timer>>)
  /\ UNCHANGED <<following, exchanged, stored, late>>

\* Variant: the redirect that is being drained is left to end.
TimeoutKeeps ==
  /\ timer = "on"
  /\ Settle("rejected")
  /\ wire' = IF wire = "redirect" THEN wire ELSE "gone"
  /\ UNCHANGED <<following, exchanged, stored, late>>

\* The timer: whatever is in progress is destroyed.
Timeout ==
  /\ timer = "on"
  /\ Settle("rejected")
  /\ wire' = "gone"
  /\ UNCHANGED <<following, exchanged, stored, late>>

HttpNext ==
  \/ SendHttp \/ NextHop \/ NextHopThrows \/ BodyEnds \/ ConnectionFails \/ Timeout
  \/ \E status \in Statuses : FinalResponse(status) \/ RedirectResponse(status)

HttpSpec == HttpInit /\ [][HttpNext]_httpVars

-----------------------------------------------------------------------------
\* No hop goes out once the promise has settled, there are MAX_REDIRECTS hops
\* after the first at most, and a request that was sent with a body is sent again
\* with it as long as, and only as long as, no redirect turns it into a GET.
RedirectsKeepTheRequest ==
  /\ ~late /\ Len(exchanged) <= MAX_REDIRECTS + 1
  /\ \A i \in 2 .. Len(exchanged) :
       LET before == {exchanged[j].status : j \in 1 .. i - 1}
           first == exchanged[1]
       IN  IF 303 \in before \/ (before \cap {301, 302} # {} /\ first.method = "POST")
             THEN exchanged[i].method = "GET" /\ ~exchanged[i].body
             ELSE exchanged[i].method = first.method /\ exchanged[i].body = first.body
=============================================================================
