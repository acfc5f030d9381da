----------------------------- MODULE Workflows -----------------------------
(***************************************************************************)
(* Workflows: the editor tab (WorkflowTab.tsx), the file and its healing,  *)
(* the runner (core/workflow), the data files (core/data) and the run of   *)
(* one iteration per row over the shared session (ipc-handlers.ts).        *)
(***************************************************************************)
EXTENDS Naturals, Sequences, SequencesExt, FiniteSets

CONSTANTS
  RequestPaths, \* request paths a step may name
  MaxSteps,  \* steps of a workflow
  DataFiles  \* data files a run may have

\* No data file, or records of at most two cells, in CSV or in JSON.
ASSUME WorkflowAssumption ==
  /\ MaxSteps \in Nat
  /\ \A d \in DataFiles : d \in [kind : {"none", "csv", "json"}, records : Seq(Seq(STRING))]
  /\ \A d \in DataFiles : \A r \in DOMAIN d.records : Len(d.records[r]) \in 1 .. 2

VARIABLES
  requests,   \* the request files there are
  wfSteps,    \* the rows of the editor
  wfFile,     \* the steps of the file
  wfDirty,    \* dirtyRef
  wfStage,    \* where the run stands
  running,    \* the steps readWorkflowFile gave the run
  dataFile,   \* the run's data file, and its records
  iteration,  \* the row the run is at
  report,     \* the statuses of the iterations so far
  stepHalted, \* `halted` of runWorkflow
  runSession, \* the session variables
  written,    \* those a script of this iteration wrote
  misread     \* history: a step saw a value that is neither its row's nor its scripts'

workflowVars == <<requests, wfSteps, wfFile, wfDirty, wfStage, running, dataFile, iteration,
                  report, stepHalted, runSession, written, misread>>

-----------------------------------------------------------------------------
\* Data files.  Characters: "q" a quote, "c" a comma, "n" and "r" the line ends.
CsvStart == [at |-> 1, records |-> <<>>, fields |-> <<>>, field |-> <<>>, quoted |-> FALSE, saw |-> FALSE]

PushField(st) ==
  LET f == st.field
  IN [st EXCEPT !.fields = Append(st.fields, IF f # <<>> /\ Last(f) = "r" THEN Front(f) ELSE f),
                !.field = <<>>]

PushRecord(st) ==
  LET p == PushField(st)
  IN [p EXCEPT !.records = Append(p.records, p.fields), !.fields = <<>>, !.saw = FALSE]

\* A turn of the loop of tokenizeCsv, at character st.at; none is left behind the last.
CsvTurn(text, st) ==
  LET on == [st EXCEPT !.at = st.at + 1]
      ch == text[st.at]
  IN IF st.at > Len(text) THEN st
     ELSE IF st.quoted
     THEN IF ch # "q" THEN [on EXCEPT !.field = Append(st.field, ch)]
          ELSE IF st.at < Len(text) /\ text[st.at + 1] = "q"
          THEN [on EXCEPT !.at = st.at + 2, !.field = Append(st.field, "q")]
          ELSE [on EXCEPT !.quoted = FALSE]
     ELSE CASE ch = "q" -> [on EXCEPT !.quoted = TRUE, !.saw = TRUE]
            [] ch = "c" -> [PushField(on) EXCEPT !.saw = TRUE]
            [] ch = "n" -> PushRecord(on)
            [] OTHER -> [on EXCEPT !.field = Append(st.field, ch), !.saw = TRUE]

\* tokenizeCsv: every turn leaves a character behind, so there are no more turns than that.
TokenizeCsv(text) ==
  LET turns[n \in Nat] == IF n = 0 THEN CsvStart ELSE CsvTurn(text, turns[n - 1])
      end == turns[Len(text)]
  IN IF end.saw \/ end.field # <<>> THEN PushRecord(end).records ELSE end.records

\* A record in RFC 4180, every field quoted, and a file of them.
Quote(field) ==
  <<"q">> \o FlattenSeq([i \in DOMAIN field |-> IF field[i] = "q" THEN <<"q", "q">> ELSE <<field[i]>>])
    \o <<"q">>
CsvText(records, ending) ==
  FlattenSeq([r \in DOMAIN records |-> Quote(records[r][1]) \o <<"c">> \o Quote(records[r][2]) \o ending])

Columns == <<"k1", "k2">>

\* What a record says of a column: a cell it lacks is empty.
Cell(fields, c) ==
  IF \E i \in DOMAIN fields : Columns[i] = c
  THEN fields[CHOOSE i \in DOMAIN fields : Columns[i] = c] ELSE ""

\* Variant: a short record of a CSV file has only the columns it gives.
ShortRow(fields) == [c \in {Columns[i] : i \in DOMAIN fields} |-> Cell(fields, c)]

\* parseCsv: missing cells are ''.
CsvRow(fields) ==
  [c \in ToSet(Columns) |->
     LET i == CHOOSE k \in DOMAIN Columns : Columns[k] = c
     IN IF i \in DOMAIN fields THEN fields[i] ELSE ""]

\* parseJsonData: an object has the keys it has.
JsonRow(fields) ==
  [c \in {Columns[i] : i \in DOMAIN fields} |-> fields[CHOOSE k \in DOMAIN Columns : Columns[k] = c]]

NoDataFile == [kind |-> "none", records |-> <<>>]

-----------------------------------------------------------------------------
Step(path, expect) == [request |-> path, expectError |-> expect]

WorkflowInit ==
  /\ requests = RequestPaths
  /\ wfSteps = <<>> /\ wfFile = <<>> /\ wfDirty = FALSE
  /\ wfStage = "idle" /\ running = <<>> /\ dataFile = NoDataFile /\ iteration = 0
  /\ report = <<>> /\ stepHalted = FALSE
  /\ runSession = [c \in ToSet(Columns) |-> "old"] /\ written = {} /\ misread = FALSE

Stays == UNCHANGED <<wfStage, running, dataFile, iteration, report, stepHalted, runSession, written, misread>>

\* The rows of the tab: one is added, its path or its box changes, one is removed.
\* Bound: no edit during a run, which has read the file; a save may still come then.
EditSteps ==
  /\ wfStage = "idle"
  /\ \/ /\ Len(wfSteps) < MaxSteps
        /\ \E p \in RequestPaths : wfSteps' = Append(wfSteps, Step(p, FALSE))
     \/ \E i \in DOMAIN wfSteps :
          \/ wfSteps' = [wfSteps EXCEPT ![i].request = ""]
          \/ wfSteps' = [wfSteps EXCEPT ![i].expectError = ~@]
          \/ wfSteps' = RemoveAt(wfSteps, i)
  /\ wfDirty' = TRUE
  /\ UNCHANGED <<requests, wfFile>> /\ Stays

\* save: rows without a path are left out of the file.
SaveWorkflow ==
  /\ wfDirty
  /\ wfFile' = FlattenSeq([i \in DOMAIN wfSteps |-> IF wfSteps[i].request = "" THEN <<>> ELSE <<wfSteps[i]>>])
  /\ wfDirty' = FALSE
  /\ UNCHANGED <<requests, wfSteps>> /\ Stays

\* validateReferences: one issue per step whose request is not there.
Issues(steps) == {i \in DOMAIN steps : steps[i].request \notin requests}

\* A request file is deleted, from the tree or by anything else.
\* Bound: not the last one.
RemoveRequest ==
  /\ Cardinality(requests) > 1
  /\ \E p \in requests : requests' = requests \ {p}
  /\ UNCHANGED <<wfSteps, wfFile, wfDirty>> /\ Stays

\* healReferences, after a rename in the app: the file follows, an open editor does not.
RenameRequest ==
  /\ \E p \in requests, q \in RequestPaths \ requests :
       /\ requests' = (requests \ {p}) \cup {q}
       /\ wfFile' = [i \in DOMAIN wfFile |->
                       IF wfFile[i].request = p THEN [wfFile[i] EXCEPT !.request = q] ELSE wfFile[i]]
  /\ UNCHANGED <<wfSteps, wfDirty>> /\ Stays

-----------------------------------------------------------------------------
\* The rows of the run: one iteration per row of the data file, or a single one without.
Rows ==
  CASE dataFile.kind = "csv" -> [r \in DOMAIN dataFile.records |-> CsvRow(dataFile.records[r])]
    [] dataFile.kind = "json" -> [r \in DOMAIN dataFile.records |-> JsonRow(dataFile.records[r])]
    [] OTHER -> <<[c \in {} |-> ""]>>

\* run in the tab: broken references stop it.
Runs == wfStage = "idle" /\ wfSteps # <<>> /\ Issues(wfFile) = {}

\* workflowRun: the file is read, whatever the tab shows, and so is its data file.
RunWorkflowFile ==
  /\ Runs
  /\ running' = wfFile
  /\ dataFile' \in DataFiles
  /\ iteration' = 1 /\ wfStage' = "row" /\ report' = <<>>
  /\ UNCHANGED <<requests, wfSteps, wfFile, wfDirty, stepHalted, runSession, written, misread>>

\* Each row is loaded into the session before its iteration.
LoadRow ==
  /\ wfStage = "row"
  /\ IF iteration > Len(Rows)
     THEN wfStage' = "done" /\ UNCHANGED <<runSession, report, stepHalted, written>>
     ELSE /\ runSession' = [c \in DOMAIN runSession |->
                           IF c \in DOMAIN Rows[iteration] THEN Rows[iteration][c] ELSE runSession[c]]
          /\ wfStage' = "steps" /\ report' = Append(report, <<>>)
          /\ stepHalted' = FALSE /\ written' = {}
  /\ UNCHANGED <<requests, wfSteps, wfFile, wfDirty, running, dataFile, iteration, misread>>

StepsDone == Len(report[iteration])

\* Variant: an error that was expected stops the run as well.
StatusAnyError(step, errored) ==
  IF errored THEN "failed" ELSE IF step.expectError THEN "unexpected-success" ELSE "passed"

\* The status of a step that was executed.
Status(step, errored) ==
  IF errored THEN IF step.expectError THEN "expected-error" ELSE "failed"
  ELSE IF step.expectError THEN "unexpected-success" ELSE "passed"

\* The columns a record speaks of: every one in CSV, the keys it has in JSON.
SaysOf(fields) == IF dataFile.kind = "csv" THEN ToSet(Columns) ELSE {Columns[i] : i \in DOMAIN fields}

\* One of them reads neither as the record says nor as a script of the iteration left it.
Misreads ==
  /\ dataFile.kind # "none"
  /\ LET fields == dataFile.records[iteration]
     IN \E c \in SaysOf(fields) \ written : runSession[c] # Cell(fields, c)

\* runWorkflow: the next step, executed, or skipped behind a failed one.  A request
\* that is gone makes execute throw; a script of a step may write the session
\* (bound: its second column).
ExecuteStep ==
  /\ wfStage = "steps" /\ StepsDone < Len(running)
  /\ LET step == running[StepsDone + 1]
     IN \/ /\ stepHalted
           /\ report' = [report EXCEPT ![iteration] = Append(@, "skipped")]
           /\ UNCHANGED <<stepHalted, runSession, written, misread>>
        \/ /\ ~stepHalted
           /\ \E errored \in IF step.request \in requests THEN BOOLEAN ELSE {TRUE} :
                /\ report' = [report EXCEPT ![iteration] = Append(@, Status(step, errored))]
                /\ stepHalted' = (Status(step, errored) = "failed")
           /\ misread' = (misread \/ Misreads)
           /\ \/ UNCHANGED <<runSession, written>>
              \/ /\ runSession' = [runSession EXCEPT !["k2"] = "script"]
                 /\ written' = written \cup {"k2"}
  /\ UNCHANGED <<requests, wfSteps, wfFile, wfDirty, wfStage, running, dataFile, iteration>>

NextRow ==
  /\ wfStage = "steps" /\ StepsDone = Len(running)
  /\ iteration' = iteration + 1
  /\ wfStage' = "row"
  /\ UNCHANGED <<requests, wfSteps, wfFile, wfDirty, running, dataFile, report, stepHalted,
                 runSession, written, misread>>

WorkflowNext ==
  \/ EditSteps \/ SaveWorkflow \/ RemoveRequest \/ RenameRequest
  \/ RunWorkflowFile \/ LoadRow \/ ExecuteStep \/ NextRow

WorkflowSpec == WorkflowInit /\ [][WorkflowNext]_workflowVars

-----------------------------------------------------------------------------
FieldTexts == {<<>>, <<"x">>, <<"c", "q">>, <<"q", "n">>, <<"r", "x">>, <<"q">>}

\* A run does the steps the file had when it began, whatever is edited, renamed or
\* deleted meanwhile: every iteration reports every step, skips exactly what stands
\* behind its first failure, and reads its own row, not what an earlier row left in
\* the session.  A CSV file read for a run reads back as it was written.
WorkflowTellsTheRun ==
  /\ wfStage = "done" =>
       /\ Len(report) = Len(Rows)
       /\ \A r \in DOMAIN report :
            /\ Len(report[r]) = Len(running)
            /\ \A i \in DOMAIN report[r] :
                 /\ (report[r][i] = "skipped") = (\E j \in 1 .. i - 1 : report[r][j] = "failed")
                 /\ report[r][i] \in {"failed", "passed"} => ~running[i].expectError
  /\ ~misread
  /\ wfStage = "row" /\ iteration = 1 /\ wfSteps = wfFile /\ wfFile = running /\ requests = RequestPaths =>
       \A a, b \in FieldTexts, ending \in {<<"n">>, <<"r", "n">>} :
         TokenizeCsv(CsvText(<<<<a, b>>, <<b, a>>>>, ending)) = <<<<a, b>>, <<b, a>>>>
=============================================================================
