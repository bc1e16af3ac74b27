----------------------------- MODULE MCDaemons -----------------------------
(* The processes that never end, one at a time: the render workers of a job  *)
(* (one job, two processes with two runs each and one GPU lane), the         *)
(* workspace files two attempts and a sweeper share, replicas of the queue   *)
(* daemon that start and stop, its view of the fleet, and a worker process   *)
(* from its settings to its end.  They share no state here, so a behaviour   *)
(* runs one of them, the part, and the others stay in their first state.     *)
EXTENDS WorkerPipeline, WorkspaceFiles, QueueDaemon, WorkerDaemon, TLC

CONSTANT j1
VARIABLE part

LoneParent == j1 :> None

\* A file that leaves every setting to the defaults, and the ones that differ from it in
\* the renderer, the sockets, the numbers, the vocabularies or the publication; a file
\* that is missing, and one with a key of its own.
BaseFile == [queueEndpoint |-> "queue", storeEndpoint |-> "store"]
RendererFiles ==
  {[profile |-> p, backend |-> b, mode |-> m, strict |-> s, encoder |-> e] @@ BaseFile :
     p \in {"", "gpu-vulkan-native", "software-cli", "other"}, b \in {"", "vulkan"},
     m \in {"", "ipc", "cli"}, s \in BOOLEAN, e \in {"", "nvenc", "none", "vaapi"}}
EncoderFiles ==
  {[profile |-> p, encoderBackend |-> k, preset |-> r, pixfmt |-> f] @@ BaseFile :
     p \in {"", "gpu-vulkan-native"}, k \in {"", "native", "pipe", "other"}, r \in {"", "p2", "fastest"},
     f \in {"", "p010", "rgba"}}
SocketFiles ==
  {[mode |-> "ipc", socketPath |-> p, socketPaths |-> ps] @@ BaseFile :
     p \in {"", "blank", "a"}, ps \in {<< >>, <<"a">>, <<"a", "a">>, <<"blank">>, <<"a", "b">>}}
NumberFiles ==
  {[lanes |-> l, refresh |-> r, ttl |-> t, degradedAfter |-> d] @@ BaseFile :
     l \in {-1, 1, 9}, r \in {-1, 0, 1}, t \in {0, 1, 2}, d \in {-1, 0, 1}}
NegativeFiles == {(f :> -1) @@ BaseFile : f \in DOMAIN Numbers \cup Counts}
WordFiles ==
  {[level |-> v, format |-> f, queueEndpoint |-> q, storeEndpoint |-> e] :
     v \in {"", "blank", "warn", "INFO", "loud"}, f \in {"", "blank", "text", "xml"},
     q \in {"", "queue"}, e \in {"", "store"}}
DriveFiles ==
  {[drive |-> TRUE, driveMode |-> m, credentials |-> c, token |-> t, ledger |-> "ledger.db"] @@ BaseFile :
     m \in {"", "oauth", "mock", "other"}, c \in {"", "file"}, t \in {"", "file"}}
BadFiles == {NoSettings, ("gpu_lane" :> 2) @@ BaseFile}

Env(over, legacy) == [over |-> over, legacy |-> legacy]
NoVars == << >>
Envs ==
  {Env("mode" :> "cli", NoVars), Env("strict" :> FALSE, NoVars),
   Env("receipt" :> EmptyVar, "receipt" :> "certify"), Env(NoVars, "receipt" :> "certify"),
   Env("receipt" :> "fast", "receipt" :> "certify"), Env("lanes" :> Malformed, NoVars),
   Env("stall" :> 7, "stall" :> Malformed), Env(NoVars, "stall" :> Malformed), Env("level" :> "blank", NoVars),
   Env("socketPaths" :> "a", NoVars), Env("socketPaths" :> EmptyVar, NoVars),
   Env(("lanes" :> 1) @@ ("beat" :> -1), NoVars), Env(("lanes" :> -1) @@ ("ttl" :> 0), NoVars)}

SomeInput == [file |-> BaseFile, env |-> Env(NoVars, NoVars), logs |-> {}]

MCWorkerInputs ==
  {SomeInput}
  \cup {[file |-> f, env |-> Env(NoVars, NoVars), logs |-> {}] :
     f \in RendererFiles \cup EncoderFiles \cup SocketFiles \cup NumberFiles \cup NegativeFiles
           \cup WordFiles \cup DriveFiles \cup BadFiles}
  \cup {[file |-> f, env |-> e, logs |-> {}] :
          f \in {BaseFile, [profile |-> "gpu-vulkan-native", receipt |-> "sample"] @@ BaseFile},
          e \in Envs}
  \cup {[file |-> [maxFiles |-> n] @@ BaseFile, env |-> Env(NoVars, NoVars), logs |-> ages] :
          n \in {0, 1}, ages \in SUBSET {1, 2, 49}}

allVars == <<part, pipelineVars, wsVars, daemonVars, workerVars>>

DaemonsInit ==
  /\ part \in {"pipeline", "workspaces", "boot", "fleet", "worker"}
  /\ PipelineInit /\ WsInit
  /\ DaemonInit /\ (part # "boot" => flag = [backend |-> "auto", dsn |-> TRUE])
  /\ WorkerInit /\ (part # "worker" => input = SomeInput)

PipelineRuns == part = "pipeline" /\ PipelineNext /\ UNCHANGED <<part, wsVars, daemonVars, workerVars>>
WorkspacesRun == part = "workspaces" /\ WsNext /\ UNCHANGED <<part, pipelineVars, daemonVars, workerVars>>
BootRuns == part = "boot" /\ BootNext /\ UNCHANGED <<part, pipelineVars, wsVars, workerVars>>
FleetRuns == part = "fleet" /\ FleetNext /\ UNCHANGED <<part, pipelineVars, wsVars, workerVars>>
WorkerRuns == part = "worker" /\ WorkerNext /\ UNCHANGED <<part, pipelineVars, wsVars, daemonVars>>

DaemonsNext == PipelineRuns \/ WorkspacesRun \/ BootRuns \/ FleetRuns \/ WorkerRuns

\* The fairness of each part, while it is the part that runs.
DaemonsSpec ==
  /\ DaemonsInit /\ [][DaemonsNext]_allVars
  /\ LeaseFairness /\ WsFairness /\ WF_daemonVars(part = "fleet" /\ SweepTick)

\* The queue daemons and the workers serve only what they were set up and checked for.
ProcessesStartWell == DaemonsStartAndStopWell /\ WorkerStartsWell
============================================================================
