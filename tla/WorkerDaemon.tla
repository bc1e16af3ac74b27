---------------------------- MODULE WorkerDaemon ----------------------------
(***************************************************************************)
(* The worker process around its pools: the settings it takes from its     *)
(* file and environment (internal/config), the order in which it starts    *)
(* (cmd/renderinggen/main.go), the goroutines that run beside the pools    *)
(* (startup_helpers.go, progresspush, health), and its end.                *)
(*                                                                         *)
(* A configuration is a record with one field per setting.  A path, an     *)
(* address or a binary is "" or a word; "blank" is a text of spaces.       *)
(***************************************************************************)
EXTENDS Integers, Sequences, SequencesExt, FiniteSets

CONSTANTS
  WorkerInputs,  \* what a worker starts from: [file : some settings -> value, logs : ages of the log files,
                 \*   env : [over, legacy : some settings -> value]]
  EmptyVar,      \* a variable that is set to the empty string
  Malformed,     \* a value that does not parse
  NoSettings,    \* before the configuration is loaded; a file that is missing
  BeatBound      \* bound: failed heartbeats that are counted

VARIABLES
  input,         \* a member of WorkerInputs
  settings,      \* what config.Load returned, or NoSettings
  mainAt,        \* where main is; "exited" or "fatal" in the end
  because,       \* what log.Fatalf named
  running,       \* the goroutines beside the pools
  sockets,       \* the daemon sockets of the renderer
  admin,         \* the health server: "none", "binding", "bound"
  listed,        \* the worker is in the queue's registry
  claimed,       \* a pool has claimed a job
  finalizes,     \* the recovery loop has taken up a parent
  missed,        \* heartbeatFailures
  stopping,      \* ctx is cancelled
  jobLogs        \* ages of the files of the log directory

workerVars == <<input, settings, mainAt, because, running, sockets, admin, listed, claimed,
                finalizes, missed, stopping, jobLogs>>

-----------------------------------------------------------------------------
(* The configuration *)

\* The defaults of the texts and of the numbers.
Texts == [id |-> "renderinggen-host", backend |-> "software", home |-> "/opt/chronon3d", mode |-> "cli",
          cacheDir |-> "cache", root |-> "jobs", addr |-> ":8080", driveMode |-> "google",
          ffprobe |-> "ffprobe", ffmpeg |-> "ffmpeg"]
PipelineNumbers ==
  [longPoll |-> 25, claimRetry |-> 5, beat |-> 20, degradedAfter |-> 3, sweep |-> 600, staleAfter |-> 3600,
   refresh |-> 600, ttl |-> 7200, renewAttempts |-> 3, renewBackoff |-> 2]
LoggingNumbers == [retention |-> 48, maxFiles |-> 2000]
Numbers ==
  [f \in DOMAIN PipelineNumbers \cup DOMAIN LoggingNumbers \cup {"l1Max", "l2Max", "stall"} |->
     CASE f \in DOMAIN PipelineNumbers -> PipelineNumbers[f]
       [] f \in DOMAIN LoggingNumbers -> LoggingNumbers[f]
       [] f = "l1Max" -> 512
       [] f = "l2Max" -> 40960
       [] f = "stall" -> 900]

\* Every setting a file may name, and the value of one it does not name.
Counts == {"workers", "lanes"}
PlainNumbers == {"gpuDevice", "chunkBytes", "mockFailFirst"}
Flags == {"strict", "nativeProfiles", "report", "drive", "deepVisual", "keepWorkspace"}
Words == {"profile", "encoder", "encoderBackend", "preset", "pixfmt", "socketPath", "queueEndpoint",
          "storeEndpoint", "storeToken", "level", "format", "receipt", "credentials", "token", "folder",
          "mockDir", "ledger", "binary"}
SettingNames ==
  DOMAIN Texts \cup DOMAIN Numbers \cup Counts \cup PlainNumbers \cup Flags \cup Words \cup {"socketPaths"}
ZeroOf(f) ==
  CASE f \in DOMAIN Numbers \cup Counts \cup PlainNumbers -> 0
    [] f \in Flags -> FALSE
    [] f = "socketPaths" -> << >>
    [] OTHER -> ""
\* The decoder knows its fields: a key it does not know is an error.
KnowsKeys(file) == file # NoSettings /\ DOMAIN file \subseteq SettingNames
Decoded(file) == [f \in SettingNames |-> IF f \in DOMAIN file THEN file[f] ELSE ZeroOf(f)]

\* lookupEnvWithAliases: a legacy name counts only when the canonical one is not set.
EnvValue(env, f) ==
  IF f \in DOMAIN env.over THEN env.over[f]
  ELSE IF f \in DOMAIN env.legacy THEN env.legacy[f] ELSE EmptyVar
\* applyEnvOverrides: a variable that is set and not empty replaces the setting; one that
\* does not parse, or that is to replace a list, is an error.
EnvAccepted(env) ==
  \A f \in SettingNames : /\ EnvValue(env, f) # Malformed
                          /\ f = "socketPaths" => EnvValue(env, f) = EmptyVar
Overlaid(c, env) ==
  [f \in SettingNames |-> IF EnvValue(env, f) = EmptyVar THEN c[f] ELSE EnvValue(env, f)]

\* applyDefaults: the profile first, then every setting that is still not given.
Filled(c, f, value) == IF c[f] = "" THEN [c EXCEPT ![f] = value] ELSE c
ByProfile(c) ==
  CASE c.profile = "gpu-vulkan-native" ->
         LET b == Filled(c, "backend", "vulkan")
             e == Filled(b, "encoder", "nvenc")
             p == Filled(e, "pixfmt", "nv12")
             m == Filled(p, "mode", "ipc")
         IN [m EXCEPT !.strict = TRUE, !.nativeProfiles = TRUE, !.report = TRUE]
    [] c.profile = "software-cli" -> Filled(Filled(c, "backend", "software"), "mode", "cli")
    [] OTHER -> c
LogWord(c, f, value) == IF c[f] \in {"", "blank"} THEN [c EXCEPT ![f] = value] ELSE c
WithDefaults(c) ==
  LET p == ByProfile(c)
      t == [f \in SettingNames |-> CASE f \in DOMAIN Numbers /\ p[f] = 0 -> Numbers[f]
                                    [] f \in DOMAIN Texts /\ p[f] = "" -> Texts[f]
                                    [] OTHER -> p[f]]
      s == IF t.socketPath = "" /\ t.socketPaths = << >>
           THEN [t EXCEPT !.socketPath = "default"] ELSE t
      l == LogWord(LogWord(s, "level", "info"), "format", "json")
  IN [l EXCEPT !.workers = IF @ <= 0 THEN 3 ELSE @, !.lanes = IF @ <= 0 THEN 2 ELSE @]

\* StrictNative
Strict(c) == c.strict \/ c.profile = "gpu-vulkan-native"
StrictIsWhole(c) ==
  Strict(c) => /\ c.backend = "vulkan" /\ c.encoder = "nvenc" /\ c.mode = "ipc"
               /\ c.encoderBackend \in {"", "native"}
RendererWords ==
  [profile |-> {"", "gpu-vulkan-native", "software-cli"}, encoder |-> {"", "nvenc", "none"},
   encoderBackend |-> {"", "native", "pipe"}, pixfmt |-> {"", "nv12", "p010"},
   preset |-> {""} \cup {"p1", "p2", "p3", "p4", "p5", "p6", "p7"}]
\* ParseLevel takes any letter case; the format is compared as it is.
LogWords == [level |-> {"info", "INFO", "debug", "warn", "warning", "error"}, format |-> {"json", "text"}]
NoBlank(paths) == \A i \in DOMAIN paths : paths[i] \notin {"", "blank"}
SocketsAreDaemons(c) ==
  /\ NoBlank(c.socketPaths) /\ IsInjective(c.socketPaths)
  /\ c.mode = "ipc" => c.socketPath # "" \/ c.socketPaths # << >>
AnyMarker(c) == TRUE                       \* slip: no relation between the two
OutlivesRefresh(c) == c.ttl > c.refresh
PipelineIsValid(c) ==
  /\ \A f \in DOMAIN PipelineNumbers : c[f] >= 0
  /\ OutlivesRefresh(c)
  /\ c.receipt \in {"", "fast", "normal", "sample", "certify"}
LoggingIsValid(c) ==
  /\ \A f \in DOMAIN LogWords : c[f] \in LogWords[f]
  /\ \A f \in DOMAIN LoggingNumbers : c[f] >= 0
DriveIsComplete(c) ==
  c.drive => CASE c.driveMode = "google" -> c.credentials # ""
               [] c.driveMode = "oauth" -> c.credentials # "" /\ c.token # ""
               [] c.driveMode = "mock" -> TRUE
               [] OTHER -> FALSE
\* validate
Valid(c) ==
  /\ c.workers \in 1..16 /\ c.lanes \in 1..8
  /\ StrictIsWhole(c) /\ (\A f \in DOMAIN RendererWords : c[f] \in RendererWords[f])
  /\ SocketsAreDaemons(c)
  /\ c.queueEndpoint # "" /\ c.storeEndpoint # ""
  /\ c.l1Max >= 0 /\ c.l2Max >= 0 /\ c.ffprobe # "" /\ c.ffmpeg # "" /\ c.stall >= 0
  /\ PipelineIsValid(c) /\ LoggingIsValid(c) /\ DriveIsComplete(c)

\* RenderSockets
RenderSockets(c) ==
  CASE c.mode # "ipc" -> << >>
    [] c.mode = "ipc" /\ c.socketPaths # << >> -> c.socketPaths
    [] c.mode = "ipc" /\ c.socketPaths = << >> /\ c.socketPath \in {"", "blank"} -> << >>
    [] OTHER -> <<c.socketPath>>

\* What a worker starts from has the types of the settings it names; a variable that is
\* set to nothing is EmptyVar; and no configuration is NoSettings.
ASSUME WorkerAssumption ==
  /\ EmptyVar # ""
  /\ \A i \in WorkerInputs :
       /\ i.logs \subseteq Int
       /\ KnowsKeys(i.file) /\ EnvAccepted(i.env) =>
            LET c == Overlaid(Decoded(i.file), i.env) IN
            /\ \A f \in DOMAIN Numbers \cup Counts : c[f] \in Int
            /\ \A f \in DOMAIN Texts \cup Words : EnvValue(i.env, f) # ""
            /\ WithDefaults(c) # NoSettings

-----------------------------------------------------------------------------
(* The start *)

WorkerInit ==
  /\ input \in WorkerInputs /\ settings = NoSettings
  /\ mainAt = "load" /\ because = "nothing" /\ running = {} /\ sockets = << >> /\ admin = "none"
  /\ listed = FALSE /\ claimed = FALSE /\ finalizes = FALSE /\ missed = 0 /\ stopping = FALSE
  /\ jobLogs = input.logs

Started(who) == running' = running \cup {who}
Fatal(what) == mainAt' = "fatal" /\ because' = what
Then(next) == mainAt' = next /\ UNCHANGED because
Alive == mainAt \notin {"exited", "fatal"}

\* Load: the file, the environment over it, the defaults, and the checks.
LoadSettings ==
  /\ mainAt = "load"
  /\ \/ /\ KnowsKeys(input.file) /\ EnvAccepted(input.env)
        /\ LET c == WithDefaults(Overlaid(Decoded(input.file), input.env)) IN
           IF Valid(c) THEN settings' = c /\ Then("logging") ELSE Fatal("config") /\ UNCHANGED settings
     \/ ~(KnowsKeys(input.file) /\ EnvAccepted(input.env)) /\ Fatal("config") /\ UNCHANGED settings
  /\ UNCHANGED <<input, running, sockets, admin, listed, claimed, finalizes, missed, stopping, jobLogs>>

\* PruneJobLogs keeps what is within the retention, and of that the youngest up to the
\* number; what it cannot remove stays.
Pruned(ages) ==
  LET young == {a \in ages : a <= settings.retention} IN
  {a \in young : Cardinality({b \in young : b < a}) < settings.maxFiles}
\* workerlog.Init, and the sweeper of the workspaces is started.
InitLogging ==
  /\ mainAt = "logging"
  /\ IF \A f \in DOMAIN LogWords : settings[f] \in LogWords[f]
     THEN /\ Started("sweeper") /\ Then("renderer")
          /\ \E gone \in SUBSET (jobLogs \ Pruned(jobLogs)) : jobLogs' = jobLogs \ gone
     ELSE Fatal("logging") /\ UNCHANGED <<running, jobLogs>>
  /\ UNCHANGED <<input, settings, sockets, admin, listed, claimed, finalizes, missed, stopping>>

\* Over IPC the renders spread over the sockets, which are not dialled yet; the CLI is
\* asked for what it can do.
Spreadable(paths) == paths # << >> /\ NoBlank(paths) /\ IsInjective(paths)
SelectRenderer ==
  /\ mainAt = "renderer"
  /\ \/ /\ settings.mode = "ipc"
        /\ IF Spreadable(RenderSockets(settings)) THEN Then("stores") ELSE Fatal("chronon")
        /\ sockets' = RenderSockets(settings)
     \/ settings.mode # "ipc" /\ (Fatal("chronon") \/ Then("stores")) /\ UNCHANGED sockets
  /\ UNCHANGED <<input, settings, running, admin, listed, claimed, finalizes, missed, stopping, jobLogs>>

\* The ledger and the publisher.
OpenStores ==
  /\ mainAt = "stores"
  /\ \/ settings.ledger # "" /\ Fatal("artifact_db")
     \/ settings.drive /\ settings.driveMode # "mock" /\ Fatal("drive")
     \/ Then("finalizer")
  /\ UNCHANGED <<input, settings, running, sockets, admin, listed, claimed, finalizes, missed, stopping, jobLogs>>

\* Only the daemon can assemble a parent.
StartFinalizer ==
  /\ mainAt = "finalizer" /\ Then("catalog")
  /\ IF sockets # << >> THEN Started("recovery") ELSE UNCHANGED running
  /\ UNCHANGED <<input, settings, sockets, admin, listed, claimed, finalizes, missed, stopping, jobLogs>>

CheckCatalog ==
  /\ mainAt = "catalog" /\ (Fatal("catalog") \/ Then("health"))
  /\ UNCHANGED <<input, settings, running, sockets, admin, listed, claimed, finalizes, missed, stopping, jobLogs>>

\* The server listens in a goroutine: nothing waits for its port.
ExposeHealth ==
  /\ mainAt = "health" /\ Then("register")
  /\ admin' = "binding" /\ Started("pusher")
  /\ UNCHANGED <<input, settings, sockets, listed, claimed, finalizes, missed, stopping, jobLogs>>
\* The port is taken, the server fails later, or it is shut down with the context.
BindAdmin ==
  /\ Alive
  /\ \/ admin = "binding" /\ ~stopping /\ admin' = "bound" /\ UNCHANGED <<mainAt, because>>
     \/ admin # "none" /\ stopping /\ admin' = "none" /\ UNCHANGED <<mainAt, because>>
     \/ admin # "none" /\ admin' = "none" /\ Fatal("health")
  /\ UNCHANGED <<input, settings, running, sockets, listed, claimed, finalizes, missed, stopping, jobLogs>>

\* Register fails with the context, too.
RegisterSelf ==
  /\ mainAt = "register"
  /\ \/ Fatal("register") /\ UNCHANGED <<listed, running>>
     \/ ~stopping /\ listed' = TRUE /\ Started("heartbeat") /\ Then("serving")
  /\ UNCHANGED <<input, settings, sockets, admin, claimed, finalizes, missed, stopping, jobLogs>>

-----------------------------------------------------------------------------
(* Service and end *)

\* A claim under a cancelled context fails.
PoolClaims ==
  /\ mainAt = "serving" /\ ~stopping /\ ~claimed /\ claimed' = TRUE
  /\ UNCHANGED <<input, settings, mainAt, because, running, sockets, admin, listed, finalizes, missed, stopping, jobLogs>>
\* The recovery loop ticks from its start on, whether or not main has come further.
RecoveryTick ==
  /\ Alive /\ "recovery" \in running /\ ~stopping /\ ~finalizes /\ finalizes' = TRUE
  /\ UNCHANGED <<input, settings, mainAt, because, running, sockets, admin, listed, claimed, missed, stopping, jobLogs>>
\* A tick may still be taken after the context has ended, and then it fails.
HeartbeatTick ==
  /\ Alive /\ "heartbeat" \in running
  /\ \/ ~stopping /\ missed' = 0
     \/ missed < BeatBound /\ missed' = missed + 1
  /\ UNCHANGED <<input, settings, mainAt, because, running, sockets, admin, listed, claimed, finalizes, stopping, jobLogs>>

\* A signal cancels the context; main goes on with its start, and each loop ends when it
\* sees the context.
SignalArrives ==
  /\ Alive /\ ~stopping /\ stopping' = TRUE
  /\ UNCHANGED <<input, settings, mainAt, because, running, sockets, admin, listed, claimed, finalizes, missed, jobLogs>>
LoopEnds(who) ==
  /\ Alive /\ stopping /\ who \in running /\ running' = running \ {who}
  /\ UNCHANGED <<input, settings, mainAt, because, sockets, admin, listed, claimed, finalizes, missed, stopping, jobLogs>>
PoolsReturn ==
  /\ mainAt = "serving" /\ stopping /\ Then("exited")
  /\ UNCHANGED <<input, settings, running, sockets, admin, listed, claimed, finalizes, missed, stopping, jobLogs>>

WorkerNext ==
  \/ LoadSettings \/ InitLogging \/ SelectRenderer \/ OpenStores \/ StartFinalizer
  \/ CheckCatalog \/ ExposeHealth \/ BindAdmin \/ RegisterSelf
  \/ PoolClaims \/ RecoveryTick \/ HeartbeatTick \/ SignalArrives \/ PoolsReturn
  \/ \E who \in running : LoopEnds(who)

WorkerSpec == WorkerInit /\ [][WorkerNext]_workerVars

\* What /health says of the queue while the server is up.
HealthStatus ==
  IF listed /\ missed >= settings.degradedAfter THEN "degraded" ELSE "ready"

-----------------------------------------------------------------------------
(* Properties *)

\* A variable that says something: zero stands for no setting, as a blank does for the
\* log, and the pools cannot have fewer than one member.
Says(env, f) ==
  /\ EnvValue(env, f) # EmptyVar
  /\ f \in DOMAIN Numbers => EnvValue(env, f) # 0
  /\ f \in Counts => EnvValue(env, f) > 0
  /\ f \in DOMAIN LogWords => EnvValue(env, f) # "blank"

\* What is wrong in the settings stops the worker before it renders or registers, and
\* what is accepted holds for everything that runs on it.  The environment beats the
\* file and the defaults (only the profile of the GPU insists on its own strictness);
\* no ticker gets a period that is not positive; a marker outlives its refresh, so the
\* sweeper never finds a render that refreshes in time; a strict worker renders through
\* daemons only; accepted settings fail no later step, except a socket path of blanks;
\* a worker without a failed heartbeat is not degraded; the start keeps the youngest
\* logs; and a job is claimed by a listed worker only.
WorkerStartsWell ==
  /\ settings # NoSettings =>
       /\ \A f \in SettingNames \ {"strict", "nativeProfiles", "report"} :
            Says(input.env, f) => settings[f] = EnvValue(input.env, f)
       /\ \A f \in DOMAIN Numbers : settings[f] > 0
       /\ settings.ttl > settings.refresh
       /\ mainAt \notin {"load", "logging", "renderer", "fatal"} /\ Strict(settings) =>
            sockets # << >> /\ settings.encoder = "nvenc"
       /\ \A a \in input.logs :
            a <= settings.retention /\ (\A b \in input.logs : a <= b) => a \in jobLogs
  /\ because # "logging"
  /\ because = "chronon" => settings.mode # "ipc" \/ settings.socketPath = "blank"
  /\ missed = 0 => HealthStatus = "ready"
  /\ claimed => listed
  /\ running # {} => settings # NoSettings
=============================================================================
