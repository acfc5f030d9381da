------------------------------- MODULE MCMain -------------------------------
(***************************************************************************)
(* TLC instances of the components of the main process and of the CLI, and *)
(* of the environment manager, which works on the files of a collection.   *)
(* They share no variable, so a run takes several of them and explores one *)
(* after the other: `part` names the one whose actions a behaviour takes.  *)
(***************************************************************************)
EXTENDS Execute, HttpClient, CookieJars, Streams, McpConsent, MockServers, Shell,
        CollectionFiles, RecordedStore, MqttRelay, ProxyCerts, Cli, Environments, TLC

CONSTANT Parts   \* the components a run explores

VARIABLE part

Symmetry == Permutations(Saves)

\* The environment manager is followed up to the first overtaken continuation: what
\* EditorShowsItsOwnFile says is about the states before it.
BeforeSlips == slips = {}

\* The requests of a mock server that is not explored.
FirstFiles == CHOOSE files \in [FileIds -> {f \in RequestFiles : f.examples # "second active"}] : TRUE

MainInit ==
  /\ part \in Parts
  /\ ExecuteInit
  /\ HttpInit /\ (part = "http" \/ ~following)
  /\ JarInit
  /\ StreamInit /\ (part = "streams" \/ streamKind = "ws")
  /\ ConsentInit /\ (part = "consent" \/ mcpFile = Url)
  /\ MockInit /\ (part = "mock" \/ requestFiles = FirstFiles)
  /\ ShellInit
  /\ FilesInit
  /\ StoreInit
  /\ RelayInit
  /\ CertsInit
  /\ CliInit
  /\ EnvironmentsInit
  /\ (part = "environments" \/
        (activeEnv = NoEnvFile /\ \A e \in EnvNames : envFiles[e] # Garbled))

MainNext ==
  \/ /\ part = "execute" /\ ExecuteNext
     /\ UNCHANGED <<part, httpVars, jarVars, streamVars, consentVars, mockVars, shellVars,
                     filesVars, storeVars, relayVars, certVars, cliVars, environmentVars>>
  \/ /\ part = "http" /\ HttpNext
     /\ UNCHANGED <<part, executeVars, jarVars, streamVars, consentVars, mockVars, shellVars,
                     filesVars, storeVars, relayVars, certVars, cliVars, environmentVars>>
  \/ /\ part = "jar" /\ JarNext
     /\ UNCHANGED <<part, executeVars, httpVars, streamVars, consentVars, mockVars, shellVars,
                     filesVars, storeVars, relayVars, certVars, cliVars, environmentVars>>
  \/ /\ part = "streams" /\ StreamNext
     /\ UNCHANGED <<part, executeVars, httpVars, jarVars, consentVars, mockVars, shellVars,
                     filesVars, storeVars, relayVars, certVars, cliVars, environmentVars>>
  \/ /\ part = "consent" /\ ConsentNext
     /\ UNCHANGED <<part, executeVars, httpVars, jarVars, streamVars, mockVars, shellVars,
                     filesVars, storeVars, relayVars, certVars, cliVars, environmentVars>>
  \/ /\ part = "mock" /\ MockNext
     /\ UNCHANGED <<part, executeVars, httpVars, jarVars, streamVars, consentVars, shellVars,
                     filesVars, storeVars, relayVars, certVars, cliVars, environmentVars>>
  \/ /\ part = "shell" /\ ShellNext
     /\ UNCHANGED <<part, executeVars, httpVars, jarVars, streamVars, consentVars, mockVars,
                     filesVars, storeVars, relayVars, certVars, cliVars, environmentVars>>
  \/ /\ part = "files" /\ FilesNext
     /\ UNCHANGED <<part, executeVars, httpVars, jarVars, streamVars, consentVars, mockVars,
                     shellVars, storeVars, relayVars, certVars, cliVars, environmentVars>>
  \/ /\ part = "store" /\ StoreNext
     /\ UNCHANGED <<part, executeVars, httpVars, jarVars, streamVars, consentVars, mockVars,
                     shellVars, filesVars, relayVars, certVars, cliVars, environmentVars>>
  \/ /\ part = "mqtt" /\ RelayNext
     /\ UNCHANGED <<part, executeVars, httpVars, jarVars, streamVars, consentVars, mockVars,
                     shellVars, filesVars, storeVars, certVars, cliVars, environmentVars>>
  \/ /\ part = "certs" /\ CertsNext
     /\ UNCHANGED <<part, executeVars, httpVars, jarVars, streamVars, consentVars, mockVars,
                     shellVars, filesVars, storeVars, relayVars, cliVars, environmentVars>>
  \/ /\ part = "cli" /\ CliNext
     /\ UNCHANGED <<part, executeVars, httpVars, jarVars, streamVars, consentVars, mockVars,
                     shellVars, filesVars, storeVars, relayVars, certVars, environmentVars>>
  \/ /\ part = "environments" /\ EnvironmentsNext
     /\ UNCHANGED <<part, executeVars, httpVars, jarVars, streamVars, consentVars, mockVars,
                     shellVars, filesVars, storeVars, relayVars, certVars, cliVars>>

mainVars == <<part, executeVars, httpVars, jarVars, streamVars, consentVars, mockVars,
              shellVars, filesVars, storeVars, relayVars, certVars, cliVars, environmentVars>>

MainSpec == MainInit /\ [][MainNext]_mainVars
=============================================================================
