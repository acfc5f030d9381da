-------------------------------- MODULE Cli --------------------------------
(***************************************************************************)
(* The commands of the CLI (cli/index.ts) and the workflow runner          *)
(* (core/workflow/index.ts): what is run, in which order, what counts as a *)
(* failure and with which code the process exits.                          *)
(***************************************************************************)
EXTENDS Naturals, FiniteSets

CONSTANTS
  MaxItems,   \* requests, workflows or .mcp files of an invocation
  MaxSteps    \* steps of a workflow

ASSUME CliAssumption == MaxItems \in Nat /\ MaxSteps \in Nat

VARIABLES
  command,    \* what parseArgs made of argv
  reporter,   \* --reporter
  bail,       \* --bail
  cliStage,   \* where run() stands
  items,      \* requests, workflows or .mcp files left
  steps,      \* steps left in the workflow that is running
  halted,     \* runWorkflow: a step has failed
  failures,   \* Totals.failures, or `breaking` and `failed` of runMcpSchema
  listening,  \* listeners of `mock`, `proxy` and `mcp serve`
  exitCode,   \* what run() came to
  wrong       \* history: something the exit code has to tell of happened

cliVars == <<command, reporter, bail, cliStage, items, steps, halted, failures, listening,
             exitCode, wrong>>

Serving == {"mock", "proxy", "mcp serve"}
Commands == {"run", "run --workflow", "mcp snapshot", "mcp check"} \cup Serving

Pending == 99   \* no exit code yet

CliInit ==
  /\ command = "none" /\ reporter = "cli" /\ bail = FALSE
  /\ cliStage = "parse"
  /\ items = 0 /\ steps = 0 /\ halted = FALSE /\ failures = 0
  /\ listening = {} /\ exitCode = Pending /\ wrong = FALSE

Exit(code) == cliStage' = "exited" /\ exitCode' = code

Goes(at) == cliStage' = at /\ UNCHANGED exitCode

-----------------------------------------------------------------------------
\* Help exits 0; a bad argument or a collection that is not there exits 2.
ParseArgs ==
  /\ cliStage = "parse"
  /\ \/ \E code \in {0, 2} : Exit(code) /\ UNCHANGED <<command, reporter, bail, items>>
     \/ /\ command' \in Commands
        /\ reporter' \in IF command' \in {"run", "run --workflow"} THEN {"cli", "json"} ELSE {"cli"}
        /\ bail' \in IF command' \in {"run", "run --workflow"} THEN BOOLEAN ELSE {FALSE}
        /\ items' \in IF command' \in Serving THEN {0} ELSE 0 .. MaxItems
        /\ Goes(IF command' \in Serving THEN "binding" ELSE "next")
  /\ UNCHANGED <<steps, halted, failures, listening, wrong>>

\* The next item, unless --bail stops here after this one.
Advance(stop) ==
  IF stop THEN items' = 0 ELSE items' = items - 1

\* A request of a kind that is not run (a websocket, an MQTT subscription, a
\* stdio MCP server under --no-mcp-spawn) or that no --filter names.
Skip ==
  /\ cliStage = "next" /\ command = "run" /\ items > 0
  /\ items' = items - 1
  /\ UNCHANGED <<command, reporter, bail, cliStage, steps, halted, failures, listening,
                 exitCode, wrong>>

\* What a report says: report.errored, and a failed assertion, which one in a
\* pre-request script is without the other.
Reports == [errored : BOOLEAN, failed : BOOLEAN]

\* Variant: a failed assertion alone is not counted.
CountsErrored(bad) == failures' = failures

\* reportRequest: the totals are kept for the human reporter only; the JSON one
\* collects the reports.
Counts(bad) == failures' = IF reporter = "cli" /\ bad THEN failures + 1 ELSE failures

RunRequest ==
  /\ cliStage = "next" /\ command = "run" /\ items > 0
  /\ \E r \in Reports :
       /\ Counts(r.errored \/ r.failed)
       /\ wrong' = (wrong \/ r.errored \/ r.failed)
       /\ Advance(r.errored /\ bail)
  /\ UNCHANGED <<command, reporter, bail, cliStage, steps, halted, listening, exitCode>>

\* executeRequest rejects (a malformed environment file): so does run().
RequestRejects ==
  /\ cliStage = "next" /\ command = "run" /\ items > 0
  /\ wrong' = TRUE
  /\ Exit(1)
  /\ UNCHANGED <<command, reporter, bail, items, steps, halted, failures, listening>>

\* A workflow that is missing, does not parse or has broken references counts
\* for either reporter.
BrokenWorkflow ==
  /\ cliStage = "next" /\ command = "run --workflow" /\ items > 0
  /\ failures' = failures + 1
  /\ wrong' = TRUE
  /\ Advance(bail)
  /\ UNCHANGED <<command, reporter, bail, cliStage, steps, halted, listening, exitCode>>

RunWorkflow ==
  /\ cliStage = "next" /\ command = "run --workflow" /\ items > 0
  /\ steps' \in 0 .. MaxSteps
  /\ halted' = FALSE
  /\ Goes("workflow")
  /\ UNCHANGED <<command, reporter, bail, items, failures, listening, wrong>>

\* The status matrix: what an errored or successful request makes of a step.
StepStatus(errored, expectError) ==
  IF errored THEN (IF expectError THEN "expected-error" ELSE "failed")
             ELSE (IF expectError THEN "unexpected-success" ELSE "passed")

\* A step is executed, or skipped after one that failed; a rejection counts as
\* an errored request without assertions.  reportStep adds up what it tells of.
RunStep ==
  /\ cliStage = "workflow" /\ steps > 0
  /\ steps' = steps - 1
  /\ \/ halted /\ UNCHANGED <<halted, failures, wrong>>
     \/ /\ ~halted
        /\ \E r \in Reports, expectError \in BOOLEAN :
             LET fails == StepStatus(r.errored, expectError) = "failed"
             IN  /\ halted' = fails
                 /\ Counts(fails \/ r.failed)
                 /\ wrong' = (wrong \/ fails \/ r.failed)
  /\ UNCHANGED <<command, reporter, bail, cliStage, items, listening, exitCode>>

WorkflowDone ==
  /\ cliStage = "workflow" /\ steps = 0
  /\ Advance(halted /\ bail)
  /\ Goes("next")
  /\ UNCHANGED <<command, reporter, bail, steps, halted, failures, listening, wrong>>

\* runMcpSchema over one .mcp file: it does not parse, its server cannot be
\* introspected, and, for `check`, it has no readable snapshot or has drifted.
McpFile ==
  /\ cliStage = "next" /\ command \in {"mcp snapshot", "mcp check"} /\ items > 0
  /\ \E outcome \in {"clean", "unreachable"} \cup
         IF command = "mcp check" THEN {"no snapshot", "additive", "breaking"} ELSE {} :
       LET bad == outcome \in {"unreachable", "no snapshot", "breaking"}
       IN  /\ failures' = IF bad THEN failures + 1 ELSE failures
           /\ wrong' = (wrong \/ bad)
  /\ items' = items - 1
  /\ UNCHANGED <<command, reporter, bail, cliStage, steps, halted, listening, exitCode>>

AllDone ==
  /\ cliStage = "next" /\ items = 0
  /\ Exit(IF failures > 0 THEN 1 ELSE 0)
  /\ UNCHANGED <<command, reporter, bail, items, steps, halted, failures, listening, wrong>>

-----------------------------------------------------------------------------
\* A serving command binds its listener.  Without routes `mock` exits 2, as
\* `proxy` does over a bad target or port; anything else that throws (the
\* certificates of --https, a port `mock` cannot have) exits 1.
Bind ==
  /\ cliStage = "binding"
  /\ \/ listening' = {"main"} /\ \E at \in {"up"} \cup (IF command = "proxy" THEN {"mqtt"} ELSE {}) : Goes(at)
     \/ listening' = {} /\ \E code \in (IF command = "mcp serve" THEN {1} ELSE {1, 2}) : Exit(code)
  /\ UNCHANGED <<command, reporter, bail, items, steps, halted, failures, wrong>>

\* Variant: the first listener is left running.
BindMqttKeeps ==
  /\ cliStage = "mqtt"
  /\ \/ listening' = listening \cup {"mqtt"} /\ Goes("up")
     \/ listening' = listening /\ Exit(2)
  /\ UNCHANGED <<command, reporter, bail, items, steps, halted, failures, wrong>>

\* --mqtt-target: the second listener of `proxy`; when it cannot be had, the
\* first is stopped before the command exits.
BindMqtt ==
  /\ cliStage = "mqtt"
  /\ \/ listening' = listening \cup {"mqtt"} /\ Goes("up")
     \/ listening' = {} /\ Exit(2)
  /\ UNCHANGED <<command, reporter, bail, items, steps, halted, failures, wrong>>

\* Ctrl-C, or the client of `mcp serve` closing the pipe; closing the server
\* closes the transport, which is why only the first of the two is acted on.
Stop ==
  /\ cliStage = "up"
  /\ Goes("stopping")
  /\ UNCHANGED <<command, reporter, bail, items, steps, halted, failures, listening, wrong>>

Stopped ==
  /\ cliStage = "stopping"
  /\ listening' = {}
  /\ Exit(0)
  /\ UNCHANGED <<command, reporter, bail, items, steps, halted, failures, wrong>>

CliNext ==
  \/ ParseArgs \/ Skip \/ RunRequest \/ RequestRejects
  \/ BrokenWorkflow \/ RunWorkflow \/ RunStep \/ WorkflowDone
  \/ McpFile \/ AllDone
  \/ Bind \/ BindMqtt \/ Stop \/ Stopped

CliSpec == CliInit /\ [][CliNext]_cliVars

-----------------------------------------------------------------------------
\* "Exit code is 0 when everything passed, 1 when any request errored, any test
\* assertion failed, a workflow halted, or MCP schema drift is breaking"
\* (cli/index.ts 31-32), of a run or a schema command.
ExitCodeTellsTheTruth ==
  exitCode # Pending /\ command \notin Serving \cup {"none"} =>
    exitCode = IF wrong THEN 1 ELSE 0

\* It does with the human reporter, whatever --bail cut short, and an invocation
\* that has ended, in success or over a listener it could not have, listens on
\* nothing.
CliEndsClean ==
  /\ reporter = "cli" => ExitCodeTellsTheTruth
  /\ exitCode # Pending => listening = {}
=============================================================================
