------------------------------ MODULE Sandbox ------------------------------
(***************************************************************************)
(* runScript (core/sandbox/index.ts): a user's script runs in a vm context,*)
(* and the outcome waits for every promise its pm.test and pm.sendRequest  *)
(* calls left behind, and for the calls those lead to, until the deadline. *)
(***************************************************************************)
EXTENDS Naturals, Sequences, FiniteSets

CONSTANT MaxCalls   \* pm.test and pm.sendRequest calls of a script

ASSUME SandboxAssumption == MaxCalls \in Nat

VARIABLES
  scriptAt,     \* where runScript stands
  calls,        \* the calls made so far: pm.test and pm.sendRequest
  pendingCalls, \* `pending`, as indices of calls
  open,         \* calls whose promise has not settled
  owed,         \* calls whose promise has settled and whose .then is queued
  batch,        \* the promises settlePending is waiting for
  overdue,      \* the deadline has passed
  scriptError,  \* `scriptError`
  threw         \* history: the script, or a callback of its, threw

sandboxVars == <<scriptAt, calls, pendingCalls, open, owed, batch, overdue, scriptError, threw>>

NoError == "none"
TimedOut == "Script timed out"

\* RunScriptArgs.response: its status text (or code), the header names it has and
\* whether its body parses.
Response == [status |-> "OK", headers |-> {"etag"}, json |-> FALSE]

\* makePmResponse, `to.have`: an assertion that does not hold throws.
Holds(assertion, res) ==
  \/ assertion.have = "status" /\ assertion.expected = res.status
  \/ assertion.have = "header" /\ assertion.expected \in res.headers
  \/ assertion.have = "jsonBody" /\ res.json

Assertions == {[have |-> "status", expected |-> "OK"], [have |-> "header", expected |-> "age"]}

\* What normalizeSendRequestArg makes of a URL, a request object and the rest.
SendArgs == {"url", "object", "object without url", "other"}
NormalizeSendRequestArg(arg) == IF arg \in {"url", "object"} THEN "request" ELSE "throws"

\* A call: a pm.test with the outcome its function comes to, at once or with its
\* promise, and what its result says; a pm.sendRequest with or without a callback.
TestCalls(async) ==
  {[call |-> "test", ok |-> Holds(a, Response), passed |-> async \/ Holds(a, Response),
    callback |-> FALSE] : a \in Assertions}
SendCalls ==
  {[call |-> "send", ok |-> ok, passed |-> TRUE, callback |-> cb] : ok, cb \in BOOLEAN}

SandboxInit ==
  /\ scriptAt = "run" /\ calls = <<>> /\ pendingCalls = {} /\ open = {} /\ owed = {}
  /\ batch = {} /\ overdue = FALSE /\ scriptError = NoError /\ threw = FALSE

RecordError(e) == scriptError' = IF scriptError = NoError THEN e ELSE scriptError

\* pmTest with a function that ends at once.
PmTest ==
  /\ \E c \in TestCalls(FALSE) : calls' = Append(calls, c)
  /\ UNCHANGED <<pendingCalls, open>>

\* pmTest with an async function, and pmSendRequest: the promise is tracked.
Tracks(kinds) ==
  /\ \E c \in kinds : calls' = Append(calls, c)
  /\ pendingCalls' = pendingCalls \cup {Len(calls) + 1}
  /\ open' = open \cup {Len(calls) + 1}

PmSendRequest ==
  \E arg \in SendArgs : NormalizeSendRequestArg(arg) = "request" /\ Tracks(SendCalls)

\* A piece of the script: one more call.
Calling ==
  /\ Len(calls) < MaxCalls
  /\ PmTest \/ Tracks(TestCalls(TRUE)) \/ PmSendRequest

-----------------------------------------------------------------------------
\* vm.runInContext: the synchronous part goes on, ends, throws, or is cut off.
RunInContext ==
  /\ scriptAt = "run"
  /\ \/ Calling /\ UNCHANGED <<scriptAt, scriptError, threw>>
     \/ scriptAt' = "round" /\ UNCHANGED <<calls, pendingCalls, open, scriptError, threw>>
     \/ /\ scriptAt' = "round" /\ RecordError("thrown") /\ threw' = TRUE
        /\ UNCHANGED <<calls, pendingCalls, open>>
     \/ /\ scriptAt' = "done" /\ scriptError' = TimedOut
        /\ UNCHANGED <<calls, pendingCalls, open, threw>>
  /\ UNCHANGED <<owed, batch, overdue>>

\* A tracked promise settles. A test's handler writes its result; a callback runs
\* here and may throw, which is recorded; the rest of the script is queued.
Settle ==
  /\ \E c \in open :
       /\ open' = open \ {c}
       /\ owed' = owed \cup {c}
       /\ calls' = IF calls[c].call = "test" THEN [calls EXCEPT ![c].passed = @ /\ calls[c].ok]
                                             ELSE calls
       /\ \/ UNCHANGED <<scriptError, threw>>
          \/ calls[c].callback /\ RecordError("callback") /\ threw' = TRUE
  /\ scriptAt # "run"
  /\ UNCHANGED <<scriptAt, pendingCalls, batch, overdue>>

\* Script code that waited for a settled promise runs: its calls are tracked too.
Continue ==
  /\ \E c \in owed : owed' = owed \ {c}
  /\ \/ Calling
     \/ UNCHANGED <<calls, pendingCalls, open>>
  /\ UNCHANGED <<scriptAt, batch, overdue, scriptError, threw>>

Deadline ==
  /\ ~overdue /\ scriptAt # "done"
  /\ overdue' = TRUE
  /\ UNCHANGED <<scriptAt, calls, pendingCalls, open, owed, batch, scriptError, threw>>

\* Variant: pending is looked at without the grace.
AfterGraceNone == TRUE

\* microtaskGrace: setImmediate runs after every queued continuation.
AfterGrace == owed = {}

\* settlePending, the head of a round.
Round ==
  /\ scriptAt = "round"
  /\ \/ /\ overdue /\ pendingCalls # {}
        /\ scriptError' = TimedOut /\ scriptAt' = "done" /\ UNCHANGED batch
     \/ /\ ~(overdue /\ pendingCalls # {}) /\ AfterGrace
        /\ batch' = pendingCalls
        /\ scriptAt' = IF pendingCalls = {} THEN "done" ELSE "batch"
        /\ UNCHANGED scriptError
  /\ UNCHANGED <<calls, pendingCalls, open, owed, overdue, threw>>

\* withDeadline(allSettled(batch)): the batch has settled, or the timer goes off.
WithDeadline ==
  /\ scriptAt = "batch"
  /\ \/ /\ batch \cap open = {}
        /\ pendingCalls' = pendingCalls \ batch
        /\ scriptAt' = "round" /\ UNCHANGED scriptError
     \/ /\ overdue
        /\ scriptError' = TimedOut /\ scriptAt' = "done" /\ UNCHANGED pendingCalls
  /\ UNCHANGED <<calls, open, owed, batch, overdue, threw>>

SandboxNext ==
  RunInContext \/ Settle \/ Continue \/ Deadline \/ Round \/ WithDeadline

SandboxSpec == SandboxInit /\ [][SandboxNext]_sandboxVars

-----------------------------------------------------------------------------
\* An outcome without an error is complete: nothing the script started is still
\* to come, so no later result changes the tests the caller already counts, each
\* test that is reported passed has passed, and nothing the script threw is lost.
ScriptOutcomeIsWhole ==
  scriptAt = "done" /\ scriptError = NoError =>
    /\ open = {} /\ owed = {} /\ ~threw
    /\ \A c \in 1 .. Len(calls) : calls[c].call = "test" => calls[c].passed = calls[c].ok
=============================================================================
