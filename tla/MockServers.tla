----------------------------- MODULE MockServers -----------------------------
(***************************************************************************)
(* The mock server of a collection: mockStart, mockStop and the saved      *)
(* examples (main/ipc-handlers.ts), the route tables (main/mock.ts,        *)
(* core/mock/router.ts, core/spec/mock.ts) and the listener                *)
(* (engine/mock-server.ts).  A start in progress and a stop in progress    *)
(* leave the registry open to another call: the modal that disables its    *)
(* button meanwhile can be closed and opened again.                        *)
(***************************************************************************)
EXTENDS Naturals, Sequences, FiniteSets, SequencesExt

Param == "${VAR}"

CONSTANTS
  Literals,    \* names of path segments
  MaxSegments, \* bound: segments of a path
  MockedFiles, \* bound: requests of the collection
  Servers,     \* bound: calls of mockStart, each with the MockServer it may make
  NoServer     \* the registry holds none

ASSUME MockAssumption ==
  /\ MaxSegments \in Nat /\ MockedFiles \in Nat
  /\ NoServer \notin Servers /\ Param \notin Literals

VARIABLES
  requestFiles,  \* the collection: what each request and its examples file hold
  mockServer,    \* the registry entry of the collection
  mock,          \* [Servers -> ...] a call of mockStart, and its server's tables
  mockStopping,  \* the server whose stop() is awaited by mockStop, as a set
  overlapped     \* history: a call came while another was in progress

mockVars == <<requestFiles, mockServer, mock, mockStopping, overlapped>>

\* The requests, in the order of their paths.
FileIds == 1 .. MockedFiles

Segmented(segments) == UNION {[1 .. n -> segments] : n \in 0 .. MaxSegments}
Paths == Segmented(Literals)
Examples == {"none", "none active", "second active"}   \* of the two a file has
RequestFiles == [segments : Segmented(Literals \cup {Param}), examples : Examples, spec : BOOLEAN]

MockInit ==
  /\ requestFiles \in [FileIds -> {f \in RequestFiles : f.examples # "second active"}]
  /\ mockServer = NoServer
  /\ mock = [s \in Servers |-> [state |-> "unused", routes |-> <<>>, specRoutes |-> <<>>]]
  /\ mockStopping = {}
  /\ overlapped = FALSE

-----------------------------------------------------------------------------
\* A route: the request it is of, its segments, and what the examples were.
Route(i) == [file |-> i, segments |-> requestFiles[i].segments, examples |-> requestFiles[i].examples]

ParamCount(i) ==
  Cardinality({k \in DOMAIN requestFiles[i].segments : requestFiles[i].segments[k] = Param})

\* The order of a stable sort by the number of wildcards.
Before(i, j) == ParamCount(i) < ParamCount(j) \/ (ParamCount(i) = ParamCount(j) /\ i < j)

Rank(files, i) == Cardinality({j \in files : Before(j, i)})

\* Variant: the table keeps the order of the files.
InFileOrder(files) ==
  [n \in 1 .. Cardinality(files) |->
     CHOOSE i \in files : Cardinality({j \in files : j < i}) = n - 1]

\* The requests of a table, the fewest wildcards first.
MostSpecificFirst(files) ==
  [n \in 1 .. Cardinality(files) |-> CHOOSE i \in files : Rank(files, i) = n - 1]

RouteTable(files) == [n \in 1 .. Cardinality(files) |-> Route(MostSpecificFirst(files)[n])]

\* buildRoutes: a request without saved examples contributes none.
BuildRoutes == RouteTable({i \in FileIds : requestFiles[i].examples # "none"})

\* buildSpecRoutes: the operations of the attached specifications, one a shape.
BuildSpecRoutes ==
  RouteTable({i \in FileIds : /\ requestFiles[i].spec
                              /\ \A j \in 1 .. i - 1 :
                                   requestFiles[j].spec => requestFiles[j].segments # requestFiles[i].segments})

\* As many segments, each a wildcard or the same.
Matches(route, path) ==
  /\ Len(route.segments) = Len(path)
  /\ \A k \in 1 .. Len(path) : route.segments[k] \in {Param, path[k]}

\* The first route that matches, 0 for none.
MatchRoute(routes, path) == SelectInSeq(routes, LAMBDA r : Matches(r, path))

\* The override if it names an example, else the active one, else the first.
PickExample(route, override) ==
  IF override # "-" THEN override
  ELSE IF route.examples = "second active" THEN "second" ELSE "first"

\* A request to a server: the saved examples first, then the attached specifications.
Handle(server, path, override) ==
  LET r == MatchRoute(server.routes, path)
      p == MatchRoute(server.specRoutes, path)
  IN  IF r # 0 THEN [source |-> "example", file |-> server.routes[r].file,
                     example |-> PickExample(server.routes[r], override)]
      ELSE IF p # 0 THEN [source |-> "spec", file |-> server.specRoutes[p].file, example |-> "-"]
      ELSE [source |-> "nothing", file |-> 0, example |-> "-"]

-----------------------------------------------------------------------------
Starting == {s \in Servers : mock[s].state \in {"building", "reporting"}}
Busy == Starting # {} \/ mockStopping # {}
Listening == {s \in Servers : mock[s].state = "listening"}

\* Variant: the registry is not looked up.
MockStartAnother(s) ==
  /\ mock[s].state = "unused"
  /\ mock' = [mock EXCEPT ![s].state = "building"]
  /\ overlapped' = (overlapped \/ Busy)
  /\ UNCHANGED <<requestFiles, mockServer, mockStopping>>

\* mockStart looks the registry up; a server that listens is reported again.
MockStart(s) ==
  /\ mock[s].state = "unused"
  /\ mock' = [mock EXCEPT ![s].state =
                IF mockServer # NoServer /\ mockServer \in Listening THEN "reporting" ELSE "building"]
  /\ overlapped' = (overlapped \/ Busy)
  /\ UNCHANGED <<requestFiles, mockServer, mockStopping>>

\* The tables are built from the files, and the listener is bound to a port of
\* the system's choice.
MockListens(s) ==
  /\ mock[s].state = "building"
  /\ mock' = [mock EXCEPT ![s] =
                [state |-> "listening", routes |-> BuildRoutes, specRoutes |-> BuildSpecRoutes]]
  /\ mockServer' = s
  /\ UNCHANGED <<requestFiles, mockStopping, overlapped>>

MockStartFails(s) ==
  /\ mock[s].state = "building"
  /\ mock' = [mock EXCEPT ![s].state = "over"]
  /\ UNCHANGED <<requestFiles, mockServer, mockStopping, overlapped>>

\* The tables are built again, counted, and given to no one.
MockReports(s) ==
  /\ mock[s].state = "reporting"
  /\ mock' = [mock EXCEPT ![s].state = "over"]
  /\ UNCHANGED <<requestFiles, mockServer, mockStopping, overlapped>>

MockStop ==
  /\ mockServer # NoServer /\ mockStopping = {}
  /\ mockStopping' = {mockServer}
  /\ overlapped' = (overlapped \/ Busy)
  /\ UNCHANGED <<requestFiles, mockServer, mock>>

\* The listener has closed, its sockets destroyed after 500 ms at the latest;
\* whatever the registry holds by now is deleted.
MockStopped ==
  /\ mockStopping # {}
  /\ mock' = [s \in Servers |-> IF s \in mockStopping THEN [mock[s] EXCEPT !.state = "over"] ELSE mock[s]]
  /\ mockServer' = NoServer
  /\ mockStopping' = {}
  /\ UNCHANGED <<requestFiles, overlapped>>

\* exampleSetActive: at most one example of a file is active.
ExampleSetActive ==
  /\ \E i \in FileIds :
       /\ requestFiles[i].examples = "none active"
       /\ requestFiles' = [requestFiles EXCEPT ![i].examples = "second active"]
  /\ UNCHANGED <<mockServer, mock, mockStopping, overlapped>>

MockNext ==
  \/ \E s \in Servers :
       MockStart(s) \/ MockListens(s) \/ MockStartFails(s) \/ MockReports(s)
  \/ MockStop \/ MockStopped \/ ExampleSetActive

-----------------------------------------------------------------------------
\* A request fits a path, and has what a source of answers needs.
Fits(i, path) ==
  /\ Len(requestFiles[i].segments) = Len(path)
  /\ \A k \in 1 .. Len(path) : requestFiles[i].segments[k] \in {Param, path[k]}
Has(i, source) == IF source = "example" THEN requestFiles[i].examples # "none" ELSE requestFiles[i].spec

\* Those that can answer from a source, and the best of them.
Able(source, path) == {i \in FileIds : Fits(i, path) /\ Has(i, source)}
Best(source, path) ==
  {i \in Able(source, path) : \A j \in Able(source, path) :
     ParamCount(i) < ParamCount(j) \/ (ParamCount(i) = ParamCount(j) /\ i <= j)}

AnswersRightly(got, path) ==
  IF Able("example", path) # {} THEN got.source = "example" /\ got.file \in Best("example", path)
  ELSE IF Able("spec", path) # {} THEN got.source = "spec" /\ got.file \in Best("spec", path)
  ELSE got.source = "nothing"

\* While calls do not overlap, what listens is what the registry holds, so that
\* it can be stopped.  An answer is of the request that fits the path with the
\* fewest wildcards, the earlier file winning a tie, and a saved example goes
\* before anything a specification has to say.
MockAnswersRightly ==
  \A s \in Listening :
    /\ ~overlapped => mockServer = s
    /\ \A path \in Paths : AnswersRightly(Handle(mock[s], path, "-"), path)

MockSpec == MockInit /\ [][MockNext]_mockVars
=============================================================================
