---------------------------- MODULE OAuthTokens -----------------------------
(***************************************************************************)
(* The life of an authorization_code token after the sign-in: the session  *)
(* variable and the cache file that executeRequest and                     *)
(* ensureAuthorizationCodeToken (main/execute.ts) and the sign-in handlers *)
(* (main/ipc-handlers.ts) read and write, over main/oauth-cache.ts.        *)
(*                                                                         *)
(* One auth config, hence one cache file and one session variable, used by *)
(* requests executed in the app, which share its session, and by runs of   *)
(* the CLI, which have an empty one and the same file.  A token is named   *)
(* by the execution or sign-in that obtained it.                           *)
(***************************************************************************)
CONSTANTS
  AppExecs,   \* requests executed in the app
  CliExecs,   \* requests executed by the CLI, a process each
  SignIns,    \* interactive sign-ins in the app
  Old,        \* the token an earlier sign-in left in the cache
  None,       \* undefined
  Torn        \* a cache file that holds no whole record

Execs   == AppExecs \cup CliExecs
Writers == Execs \cup SignIns
Tokens  == Writers \cup {Old}

ASSUME DistinctAssumption ==
  /\ AppExecs \cap CliExecs = {} /\ SignIns \cap Execs = {}
  /\ Old \notin Writers
  /\ None \notin Tokens /\ Torn \notin Tokens \cup {None}

VARIABLES
  pc,        \* [Writers -> ...] where an execution or a sign-in stands
  session,   \* the token in the app's session, or None
  cache,     \* the token in the cache file, or Torn
  expired,   \* tokens past their expiry, skew included
  grant,     \* [Tokens -> Tokens or None] the refresh token kept with a token,
             \* named by the token it was first issued with
  accepted,  \* provider: refresh tokens it still accepts
  rotates,   \* provider: a refresh replaces the refresh token
  from,      \* [Execs -> Tokens or None] the refresh token being used
  warm,      \* history: executions that took their token from the session
  stale,     \* history: executions that chose a token that had expired
  mishap     \* history: a write or an answer of the provider was lost

provider == <<accepted, rotates>>
vars == <<pc, session, cache, expired, grant, accepted, rotates, from, warm, stale, mishap>>

Init ==
  /\ pc = [w \in Writers |-> "idle"]
  /\ session = None
  /\ cache = Old
  /\ expired = {}
  /\ grant = [w \in Tokens |-> IF w = Old THEN Old ELSE None]
  /\ accepted = {Old}
  /\ rotates \in BOOLEAN
  /\ from = [e \in Execs |-> None]
  /\ warm = {}
  /\ stale = {}
  /\ mishap = FALSE

Goto(w, at) == pc' = [pc EXCEPT ![w] = at]

\* Execution e settles for token w, which the request is then sent with.
Choose(e, w) ==
  /\ Goto(e, "sent")
  /\ stale' = IF w \in expired THEN stale \cup {e} ELSE stale

\* A token that did not come from the session is put there (lines 196-197).
Remember(e, w) == session' = IF e \in AppExecs THEN w ELSE session

-----------------------------------------------------------------------------
\* executeRequest takes its copy of the session and looks for the token there.
Begin(e) ==
  /\ pc[e] = "idle"
  /\ IF e \in AppExecs /\ session # None
       THEN Choose(e, session) /\ warm' = warm \cup {e}
       ELSE Goto(e, "reading") /\ UNCHANGED <<warm, stale>>
  /\ UNCHANGED <<session, cache, expired, grant, provider, from, mishap>>

\* Variant: the expiry is not looked at.
ReadUnchecked(e) ==
  /\ pc[e] = "reading"
  /\ IF cache # Torn
       THEN Choose(e, cache) /\ Remember(e, cache)
       ELSE Goto(e, "failed") /\ UNCHANGED <<session, stale>>
  /\ UNCHANGED <<cache, expired, grant, provider, from, warm, mishap>>

\* readCachedToken settles: a valid token is used, an expired one refreshed if
\* it came with a refresh token, and anything else asks the user to sign in.
Read(e) ==
  /\ pc[e] = "reading"
  /\ CASE cache # Torn /\ cache \notin expired ->
            Choose(e, cache) /\ Remember(e, cache) /\ UNCHANGED from
       [] cache # Torn /\ cache \in expired /\ grant[cache] # None ->
            /\ Goto(e, "refreshing")
            /\ from' = [from EXCEPT ![e] = grant[cache]]
            /\ UNCHANGED <<session, stale>>
       [] OTHER -> Goto(e, "failed") /\ UNCHANGED <<session, stale, from>>
  /\ UNCHANGED <<cache, expired, grant, provider, warm, mishap>>

\* The provider's side of a refresh: with rotation the refresh token is replaced.
Exchange(e) ==
  /\ from[e] \in accepted
  /\ accepted' = IF rotates THEN (accepted \ {from[e]}) \cup {e} ELSE accepted
  /\ UNCHANGED rotates

\* Variant: a refresh token the provider does not repeat is dropped.
RefreshedForgets(e) ==
  /\ pc[e] = "refreshing"
  /\ Exchange(e)
  /\ grant' = [grant EXCEPT ![e] = IF rotates THEN e ELSE None]
  /\ Goto(e, "saving")
  /\ UNCHANGED <<session, cache, expired, from, warm, stale, mishap>>

\* refreshToken resolves; a provider that repeats no refresh token leaves the
\* previous one in place (line 918).
Refreshed(e) ==
  /\ pc[e] = "refreshing"
  /\ Exchange(e)
  /\ grant' = [grant EXCEPT ![e] = IF rotates THEN e ELSE from[e]]
  /\ Goto(e, "saving")
  /\ UNCHANGED <<session, cache, expired, from, warm, stale, mishap>>

\* It rejects: refused, unreachable, or the answer was lost on the way back.
RefreshFails(e) ==
  /\ pc[e] = "refreshing"
  /\ \/ UNCHANGED <<provider, mishap>>
     \/ Exchange(e) /\ mishap' = TRUE
  /\ Goto(e, "failed")
  /\ UNCHANGED <<session, cache, expired, grant, from, warm, stale>>

-----------------------------------------------------------------------------
(***************************************************************************)
(* writeCachedToken: the file is truncated, then written.  Two writers may *)
(* have it open at once, and the second then writes over what the first    *)
(* wrote: records of different lengths leave a mixture.                    *)
(***************************************************************************)
Truncate(w) ==
  /\ pc[w] = "saving"
  /\ cache' = Torn
  /\ Goto(w, "writing")
  /\ UNCHANGED <<session, expired, grant, provider, from, warm, stale, mishap>>

\* What follows the write: an execution sends its token, a sign-in awaits nothing.
AfterSave(w) ==
  IF w \in Execs
    THEN Goto(w, "sent") /\ Remember(w, w)
    ELSE Goto(w, "done") /\ UNCHANGED session

Put(w) ==
  /\ pc[w] = "writing"
  /\ \/ cache' = w /\ UNCHANGED mishap
     \/ cache # Torn /\ cache' = Torn /\ mishap' = TRUE
  /\ AfterSave(w)
  /\ UNCHANGED <<expired, grant, provider, from, warm, stale>>

\* A write that fails is swallowed by a sign-in, and turns a refresh that
\* succeeded into the sign-in-required error (lines 915-924).
WriteFails(w) ==
  /\ pc[w] \in {"saving", "writing"}
  /\ mishap' = TRUE
  /\ Goto(w, IF w \in Execs THEN "failed" ELSE "done")
  /\ UNCHANGED <<session, cache, expired, grant, provider, from, warm, stale>>

-----------------------------------------------------------------------------
\* onSettled of a flow that succeeded: the session has the token at once, the
\* cache when a write nobody awaits is through.
SignIn(s) ==
  /\ pc[s] = "idle"
  /\ session' = s
  /\ accepted' = accepted \cup {s}
  /\ grant' = [grant EXCEPT ![s] = s]
  /\ Goto(s, "saving")
  /\ UNCHANGED <<cache, expired, rotates, from, warm, stale, mishap>>

\* IPC.sessionClear.
SessionClear ==
  /\ session # None
  /\ session' = None
  /\ UNCHANGED <<pc, cache, expired, grant, provider, from, warm, stale, mishap>>

Busy == {"reading", "refreshing", "saving", "writing"}

\* The app quits, or dies, and is started again: its session is gone, and what
\* was in progress stops where it is.
Restart ==
  LET cut == {w \in AppExecs \cup SignIns : pc[w] \in Busy}
  IN  /\ cut # {} \/ session # None
      /\ session' = None
      /\ pc' = [w \in Writers |-> IF w \in cut THEN "cut" ELSE pc[w]]
      /\ mishap' = (mishap \/ \E w \in cut : pc[w] # "reading")
      /\ UNCHANGED <<cache, expired, grant, provider, from, warm, stale>>

Expire(w) ==
  /\ w \notin expired /\ grant[w] # None
  /\ expired' = expired \cup {w}
  /\ UNCHANGED <<pc, session, cache, grant, provider, from, warm, stale, mishap>>

-----------------------------------------------------------------------------
Execution(e) == Begin(e) \/ Read(e) \/ Refreshed(e) \/ RefreshFails(e)

Write(w) == Truncate(w) \/ Put(w) \/ WriteFails(w)

Next ==
  \/ \E e \in Execs : Execution(e)
  \/ \E w \in Writers : Write(w)
  \/ \E s \in SignIns : SignIn(s)
  \/ \E w \in Tokens : Expire(w)
  \/ SessionClear \/ Restart

Spec == Init /\ [][Next]_vars

-----------------------------------------------------------------------------
\* Types of the state above.
TypeOK ==
  /\ pc \in [Writers -> Busy \cup {"idle", "sent", "done", "failed", "cut"}]
  /\ session \in Tokens \cup {None}
  /\ cache \in Tokens \cup {Torn}
  /\ expired \subseteq Tokens
  /\ grant \in [Tokens -> Tokens \cup {None}]
  /\ accepted \subseteq Tokens
  /\ rotates \in BOOLEAN
  /\ from \in [Execs -> Tokens \cup {None}]
  /\ warm \subseteq AppExecs
  /\ stale \subseteq Execs
  /\ mishap \in BOOLEAN

\* When nobody is refreshing or writing, and nothing was lost on the way, the
\* cache holds a whole token whose refresh token the provider still accepts,
\* whatever executions and sign-ins raced for the file: "no need to sign in
\* again until the refresh itself fails".
CacheStaysRefreshable ==
  ~mishap /\ (\A w \in Writers : pc[w] \notin {"refreshing", "saving", "writing"})
    => cache # Torn /\ grant[cache] \in accepted

\* The only expired tokens that requests are sent with are the session's.
ColdSendsAreFresh == stale \subseteq warm

\* "A still-valid token is reused silently; an expired one with a refresh token
\* is refreshed automatically" (docs/help/authentication.html 106-108).
SendsFreshToken == stale = {}
=============================================================================
