----------------------------- MODULE CookieJars -----------------------------
(***************************************************************************)
(* The cookie jar of a collection (engine/cookies.ts), its file            *)
(* (main/cookie-store.ts) and what changes them: responses, scripts'       *)
(* requests, introspection and the cookie manager (main/ipc-handlers.ts).  *)
(* A save writes the whole jar as it was when the save began; saves may    *)
(* overlap, the app may end in the middle of one, and a CLI run has a jar  *)
(* of its own over the same file.                                          *)
(***************************************************************************)
EXTENDS Naturals, FiniteSets

CONSTANTS
  Hosts,       \* hosts
  Saves,       \* bound: calls of saveJar
  MaxTime      \* bound: the clock

ASSUME JarAssumption == MaxTime \in Nat

VARIABLES
  now,         \* the clock
  cookies,     \* the jar in memory: a set of cookies
  cookieFile,  \* cookies.json: a set of cookies, or TornJar while it is not JSON
  save,        \* [Saves -> ...] a call of saveJar
  unsaved,     \* history: the jar has changed and no save has begun since
  crossed      \* history: saves overlapped, failed or were cut short, or the CLI saved its own

jarVars == <<now, cookies, cookieFile, save, unsaved, crossed>>

CookiePaths == {"/", "/p"}
Session == 99                       \* expires: null, sorts after any time
\* Bound: a secure cookie is one of the session, for every path.
Cookies == {c \in [host : Hosts, path : CookiePaths, secure : BOOLEAN, expires : {Session} \cup 1 .. MaxTime] :
              c.secure => c.expires = Session /\ c.path = "/"}
Urls == [host : Hosts, path : CookiePaths, https : BOOLEAN]
TornJar == {[torn |-> TRUE]}
NoSave == [stage |-> "unused", text |-> {}]

JarInit ==
  /\ now = 0 /\ cookies = {} /\ cookieFile = {}
  /\ save = [s \in Saves |-> NoSave]
  /\ unsaved = FALSE /\ crossed = FALSE

-----------------------------------------------------------------------------
SameIdentity(c, d) == c.host = d.host /\ c.path = d.path   \* cookies of one name
Without(jar, c) == {d \in jar : ~SameIdentity(c, d)}

\* Variant: what has expired stays.
PurgeNothing(jar) == jar

PurgeExpired(jar) == {c \in jar : c.expires > now}

\* storeOne: in the place of the one of its identity; already expired, it deletes.
StoreOne(jar, c) == Without(jar, c) \cup (IF c.expires <= now THEN {} ELSE {c})

\* setCookie of the manager stores whatever the record says.
SetCookie(jar, c) == Without(jar, c) \cup {c}

PathMatches(path, cookiePath) == path = cookiePath \/ cookiePath = "/"

\* What goes out with a request; the jar is purged on the way.
CookieHeader(url) ==
  {c \in PurgeExpired(cookies) :
     c.host = url.host /\ PathMatches(url.path, c.path) /\ (url.https \/ ~c.secure)}

\* clear: everything, one host's, the session's, or both.
Clear(jar, hosts, sessionOnly) ==
  {c \in jar : c.host \notin hosts \/ (sessionOnly /\ c.expires # Session)}

\* fromJSON drops what has expired; a file that is not JSON is an empty jar.
LoadJar == IF cookieFile = TornJar THEN {} ELSE PurgeExpired(cookieFile)

-----------------------------------------------------------------------------
Saving == {s \in Saves : save[s].stage \in {"begun", "open"}}

\* The jar has become `jar`, and saveJar is called: the text is made in this turn.
Changes(s, jar) ==
  /\ save[s].stage = "unused"
  /\ cookies' = PurgeExpired(jar)
  /\ save' = [save EXCEPT ![s] = [stage |-> "begun", text |-> PurgeExpired(jar)]]
  /\ unsaved' = FALSE
  /\ crossed' = (crossed \/ Saving # {})
  /\ UNCHANGED <<now, cookieFile>>

\* A response: an HTTP request's, a script's, an introspection's.
ResponseArrives(s) == \E c \in Cookies : Changes(s, StoreOne(cookies, c))

\* The cookies of a redirect that leads to a transport error, or those of
\* describe_graphql_schema, are in the jar, and not yet in the file.
RedirectFails ==
  /\ \E c \in Cookies : cookies' = StoreOne(cookies, c)
  /\ unsaved' = TRUE
  /\ UNCHANGED <<now, cookieFile, save, crossed>>

CookieSet(s) == \E c \in Cookies : Changes(s, SetCookie(cookies, c))
\* Variant: the deletion of a cookie is not saved.
CookieDeleteInMemory(s) ==
  /\ \E c \in cookies : cookies' = Without(cookies, c)
  /\ UNCHANGED <<now, cookieFile, save, unsaved, crossed>>

CookieDelete(s) == \E c \in cookies : Changes(s, Without(cookies, c))
CookieClear(s) == \E hosts \in {Hosts} \cup {{h} : h \in Hosts}, only \in BOOLEAN :
                    Changes(s, Clear(cookies, hosts, only))
CookieSetMany(s) == \E c \in Cookies, replace \in BOOLEAN :
                      Changes(s, SetCookie(IF replace THEN {} ELSE cookies, c))

SendWithCookies ==
  /\ cookies' = PurgeExpired(cookies)
  /\ UNCHANGED <<now, cookieFile, save, unsaved, crossed>>

\* writeFile truncates, and then fills; errors are swallowed.
SaveOpens(s) ==
  /\ save[s].stage = "begun"
  /\ save' = [save EXCEPT ![s].stage = "open"]
  /\ cookieFile' = TornJar
  /\ UNCHANGED <<now, cookies, unsaved, crossed>>

SaveFills(s) ==
  /\ save[s].stage = "open"
  /\ save' = [save EXCEPT ![s] = [stage |-> "over", text |-> {}]]
  /\ cookieFile' \in {save[s].text} \cup (IF Saving = {s} THEN {} ELSE {TornJar})
  /\ UNCHANGED <<now, cookies, unsaved, crossed>>

SaveFails(s) ==
  /\ s \in Saving
  /\ save' = [save EXCEPT ![s] = [stage |-> "over", text |-> {}]]
  /\ crossed' = TRUE
  /\ UNCHANGED <<now, cookies, cookieFile, unsaved>>

\* The app ends, and comes up again with what the file holds.
JarRestart ==
  /\ cookies' = LoadJar
  /\ save' = [s \in Saves |-> IF s \in Saving THEN [stage |-> "over", text |-> {}] ELSE save[s]]
  /\ crossed' = (crossed \/ Saving # {})
  /\ unsaved' = FALSE
  /\ UNCHANGED <<now, cookieFile>>

\* A CLI run over the same collection saves what it loaded and received.
CliSaves ==
  /\ \E c \in Cookies : cookieFile' = StoreOne(LoadJar, c)
  /\ crossed' = TRUE
  /\ UNCHANGED <<now, cookies, save, unsaved>>

TimePasses ==
  /\ now < MaxTime
  /\ now' = now + 1
  /\ UNCHANGED <<cookies, cookieFile, save, unsaved, crossed>>

JarNext ==
  \/ \E s \in Saves :
       \/ ResponseArrives(s) \/ CookieSet(s) \/ CookieDelete(s) \/ CookieClear(s) \/ CookieSetMany(s)
       \/ SaveOpens(s) \/ SaveFills(s) \/ SaveFails(s)
  \/ SendWithCookies \/ RedirectFails \/ JarRestart \/ CliSaves \/ TimePasses

JarSpec == JarInit /\ [][JarNext]_jarVars

-----------------------------------------------------------------------------
\* When no save is in progress and none has met another, failed, or met a CLI
\* run, the next start of the app finds the jar as it is, without what expires
\* until then; the jar holds one cookie of an identity; and a request is sent
\* only with cookies that are alive, of its own host, and withheld from http
\* when they are secure.
JarIsKept ==
  /\ Saving = {} /\ ~crossed /\ ~unsaved => LoadJar = PurgeExpired(cookies)
  /\ \A c, d \in cookies : SameIdentity(c, d) => c = d
  /\ \A url \in Urls : \A c \in CookieHeader(url) :
       c.expires > now /\ c.host = url.host /\ (c.secure => url.https)
=============================================================================
