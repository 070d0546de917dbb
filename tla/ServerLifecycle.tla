--------------------------- MODULE ServerLifecycle ---------------------------
(***************************************************************************)
(* The life of a server process: the command line becomes a configuration  *)
(* (crates/lvqr-cli/src/main.rs, config.rs), start binds every listener    *)
(* and installs every consumer in a fixed order in which most steps can    *)
(* fail (lib.rs), the listeners run under one token with a child token for *)
(* each ingest listener, and the handle stops them (handle.rs).            *)
(***************************************************************************)
EXTENDS Naturals, FiniteSets, Sequences

CONSTANTS
  Invocations,     \* the flag sets the process is started with
  AuthSections,    \* what the [auth] section of its configuration file may set
  MaxOpen          \* bound: connections open at a time

ASSUME LifecycleAssumption == MaxOpen \in Nat

VARIABLES
  flags,           \* the flags of this invocation
  phase,           \* how far the process is
  step,            \* the next step of start
  bound,           \* sockets that are bound
  installed,       \* consumers with a callback on the registry
  tasks,           \* tasks start spawned on the side
  serving,         \* each listener's future
  token,           \* is the shared token cancelled
  stopped,         \* ingest listeners whose child token the operator cancelled
  open,            \* open connections of the HTTP listeners, and listeners that accepted one
  handle,          \* the ServerHandle and its owner
  auth,            \* the provider in force, and the section applied last
  why              \* history: what cancelled the token

life == <<flags, phase, step, bound, installed, tasks, serving, token, stopped, open, handle, auth, why>>

Ingest == {"rtmp", "whip", "srt", "rtsp"}
Http == {"admin", "hls", "dash", "whep", "whip"}
Listeners == Ingest \cup Http \cup {"relay"}

\* A port of 0 turns an optional listener off; three are always there.
Wanted(fs) == {"relay", "rtmp", "admin"} \cup (Listeners \cap fs)

\* A step of start and the flag it depends on.  The steps that bind, open a
\* file or fetch something can fail.
Step(name, flag, kind, fails) == [name |-> name, flag |-> flag, kind |-> kind, fails |-> fails]

Binding(l) == Step(l, l, "bind", TRUE)
Consumer(name, flag, fails) == Step(name, flag, "consumer", fails)
Task(name, flag, fails) == Step(name, flag, "task", fails)

InstallMetrics == Step("metrics", "any", "none", TRUE)
WatchReload == Task("reload", "config", TRUE)
BindRelay == Binding("relay")
JoinCluster == Consumer("cluster", "cluster", TRUE)
LoadFilter == Consumer("filter", "filter", TRUE)
OpenArchive == Consumer("archive", "archive", TRUE)
BridgeHls == Consumer("hls bridges", "hls", FALSE)
RunAgents == Consumer("whisper", "whisper", FALSE)
BridgeDash == Consumer("dash bridge", "dash", FALSE)
RunTranscoders == Consumer("transcode", "transcode", FALSE)
Federate == Task("federation", "federation", FALSE)
BindSrt == Binding("srt")
BindRtsp == Binding("rtsp")
BindRtmp == Binding("rtmp")
BindAdmin == Binding("admin")
BindHls == Binding("hls")
BindWhep == Binding("whep")
BindDash == Binding("dash")
BindWhip == Binding("whip")
RecordAll == Task("recorder", "record", FALSE)
EndPlaylists == Task("hls end", "hls", FALSE)
EndManifests == Task("dash end", "dash", FALSE)
ReapPeers == Task("reaper", "mesh", FALSE)
Serve == Step("serve", "any", "serve", FALSE)

\* mutant: the listeners serve before the last consumers are there
StepsEarly ==
  <<InstallMetrics, WatchReload, BindRelay, JoinCluster, LoadFilter, OpenArchive, Federate,
    BindSrt, BindRtsp, BindRtmp, BindAdmin, BindHls, BindWhep, BindDash, BindWhip, Serve,
    BridgeHls, RunAgents, BridgeDash, RunTranscoders, RecordAll, EndPlaylists, EndManifests, ReapPeers>>
\* start, in its order.
Steps ==
  <<InstallMetrics, WatchReload, BindRelay, JoinCluster, LoadFilter, OpenArchive, BridgeHls,
    RunAgents, BridgeDash, RunTranscoders, Federate, BindSrt, BindRtsp, BindRtmp, BindAdmin,
    BindHls, BindWhep, BindDash, BindWhip, RecordAll, EndPlaylists, EndManifests, ReapPeers, Serve>>

\* Listeners that are always there need no flag.
Applies(s, fs) == s.flag \in fs \cup {"any", "relay", "rtmp", "admin"}

-----------------------------------------------------------------------------
(* The command line.                                                       *)

\* mutant: a webhook beside a key set is not refused
ClashSome(fs) == "jwt" \in fs /\ fs \cap {"jwks", "webhook"} # {}
\* check_auth_flag_combinations.
Clash(fs) == Cardinality(fs \cap {"jwks", "webhook", "jwt"}) > 1

\* A certificate and its key are given together.
HalfSigned(fs) == ("cert" \in fs) # ("key" \in fs)

\* An option whose value does not parse: a rendition, an encoder this build
\* lacks, the list of ICE servers.
Malformed(fs) == "malformed" \in fs

\* build_auth, and build_inner_auth_from_effective after a reload: the first
\* strategy that is there.  Who calls start directly may supply a provider of
\* its own.
Provider(fs) ==
  IF "jwks" \in fs THEN "jwks" ELSE IF "webhook" \in fs THEN "webhook"
  ELSE IF "jwt" \in fs THEN "jwt" ELSE IF "static" \in fs THEN "static"
  ELSE IF "supplied" \in fs THEN "configured" ELSE "noop"

\* classify_auth_mode: what server-info tells, in its own order, by the flags.
AuthMode(fs) ==
  IF "webhook" \in fs THEN "webhook" ELSE IF "jwks" \in fs THEN "jwks"
  ELSE IF "jwt" \in fs THEN "jwt" ELSE IF "static" \in fs THEN "static"
  ELSE IF "supplied" \in fs THEN "configured" ELSE "noop"

\* mutant: the file alone
MergedFileOnly(fs, section) == section
\* What a reload builds from: the file's section over the flags' defaults.  A
\* supplied provider is not among these.
Merged(fs, section) == (fs \ {"supplied"}) \cup section

\* ConfigReloadHandle::reload, at boot, by SIGHUP or by the admin API.  A file
\* with both URLs is refused.
ApplyFile(section) ==
  /\ ~({"jwks", "webhook"} \subseteq section)
  /\ auth' = [provider |-> Provider(Merged(flags, section)), section |-> section]

NoAuth == [provider |-> "none", section |-> {}]
NoneServing == [l \in Listeners |-> "no"]
NoneOpen == [live |-> {}, accepted |-> {}]

LifeInit ==
  /\ flags \in Invocations
  /\ phase = "args" /\ step = 1 /\ bound = {} /\ installed = {} /\ tasks = {}
  /\ serving = NoneServing /\ token = FALSE /\ stopped = {} /\ open = NoneOpen
  /\ handle = "none" /\ auth = NoAuth /\ why = {}

\* serve_from_args, before start: a flag error ends the process, and so does a
\* key set or a webhook that cannot be reached.
ParseArgs ==
  /\ phase = "args"
  /\ LET wrong == Clash(flags) \/ HalfSigned(flags) \/ Malformed(flags)
     IN  \/ /\ ~wrong /\ phase' = "start"
            /\ auth' = [NoAuth EXCEPT !.provider = Provider(flags)]
         \/ /\ wrong \/ Provider(flags) \in {"jwks", "webhook"}
            /\ phase' = "refused" /\ UNCHANGED auth
  /\ UNCHANGED <<flags, step, bound, installed, tasks, serving, token, stopped, open, handle, why>>

-----------------------------------------------------------------------------
(* start.                                                                  *)

BootStep ==
  /\ phase = "start"
  /\ LET s == Steps[step]
         on == Applies(s, flags)
     IN  /\ bound' = IF on /\ s.kind = "bind" THEN bound \cup {s.name} ELSE bound
         /\ installed' = IF on /\ s.kind = "consumer" THEN installed \cup {s.name} ELSE installed
         /\ tasks' = IF on /\ s.kind = "task" THEN tasks \cup {s.name} ELSE tasks
         /\ serving' = IF s.kind = "serve" THEN [l \in Listeners |-> IF l \in bound THEN "yes" ELSE "no"]
                       ELSE serving
         /\ IF on /\ s = WatchReload THEN \E section \in AuthSections : ApplyFile(section)
            ELSE UNCHANGED auth
  /\ step' = step + 1
  /\ phase' = IF step = Len(Steps) THEN "up" ELSE phase
  /\ handle' = IF step = Len(Steps) THEN "held" ELSE handle
  /\ UNCHANGED <<flags, token, stopped, open, why>>

\* mutant: the sockets of the earlier steps stay bound
BootFailsOpen ==
  /\ phase = "start" /\ Steps[step].fails /\ Applies(Steps[step], flags)
  /\ phase' = "failed" /\ installed' = {}
  /\ token' = (token \/ "federation" \in tasks)
  /\ tasks' = IF "federation" \in tasks THEN {} ELSE tasks \cap {"reload"}
  /\ UNCHANGED <<flags, step, bound, serving, stopped, open, handle, why>>
\* start returns an error.  Its locals are dropped: sockets close, the registry
\* and the bus go and their tasks with them, the federation runner cancels the
\* token.  The listener for reload signals waits for the token alone.
BootFails ==
  /\ phase = "start" /\ Steps[step].fails /\ Applies(Steps[step], flags)
  /\ phase' = "failed" /\ bound' = {} /\ installed' = {}
  /\ token' = (token \/ "federation" \in tasks)
  /\ tasks' = IF "federation" \in tasks THEN {} ELSE tasks \cap {"reload"}
  /\ UNCHANGED <<flags, step, serving, stopped, open, handle, why>>

-----------------------------------------------------------------------------
(* Running.                                                                *)

\* The operator edits the file and has it read again; a reload that fails
\* leaves the provider as it is.
ReloadConfig(section) ==
  /\ phase = "up" /\ "config" \in flags /\ ("reload" \in tasks \/ serving["admin"] = "yes")
  /\ ApplyFile(section)
  /\ UNCHANGED <<flags, phase, step, bound, installed, tasks, serving, token, stopped, open, handle, why>>

Accept(l) ==
  /\ serving[l] = "yes" /\ ~token /\ l \notin stopped /\ Cardinality(open.live) < MaxOpen
  /\ open' = [live |-> IF l \in Http THEN open.live \cup {l} ELSE open.live,
              accepted |-> open.accepted \cup {l}]
  /\ UNCHANGED <<flags, phase, step, bound, installed, tasks, serving, token, stopped, handle, why>>

ConnectionEnds(l) ==
  /\ l \in open.live
  /\ open' = [open EXCEPT !.live = @ \ {l}]
  /\ UNCHANGED <<flags, phase, step, bound, installed, tasks, serving, token, stopped, handle, why>>

\* DELETE /api/v1/ingest/{protocol}.
OperatorStops(l) ==
  /\ serving["admin"] = "yes" /\ l \in Ingest \cap bound
  /\ stopped' = stopped \cup {l}
  /\ UNCHANGED <<flags, phase, step, bound, installed, tasks, serving, token, open, handle, why>>

\* mutant: every listener that ends takes the server with it
CascadesAlways(l) == TRUE
\* An ingest listener whose child token is cancelled ends alone.
Cascades(l) == l \in Ingest => ~(token \/ l \in stopped)

Ends(l, how, cause) ==
  /\ serving' = [serving EXCEPT ![l] = how]
  /\ bound' = bound \ {l}
  /\ token' = (token \/ Cascades(l))
  /\ why' = IF Cascades(l) /\ ~token THEN why \cup {cause} ELSE why
  /\ UNCHANGED <<flags, phase, step, installed, tasks, stopped, open, handle>>

\* The accept loop returns with an error; connections it has accepted go on.
ListenerFails(l) ==
  /\ serving[l] = "yes"
  /\ Ends(l, "failed", IF l \in stopped THEN "stop" ELSE "failure")

\* mutant: a graceful stop does not wait
ListenerStopsNow(l) ==
  /\ serving[l] = "yes" /\ (token \/ l \in stopped)
  /\ Ends(l, "ended", "stop")
\* The token or its child is cancelled; the HTTP servers wait for their open
\* connections.
ListenerStops(l) ==
  /\ serving[l] = "yes" /\ (token \/ l \in stopped)
  /\ l \in Http => l \notin open.live
  /\ Ends(l, "ended", "stop")

\* The tasks on the side see the token.
TaskEnds(t) ==
  /\ t \in tasks /\ token
  /\ tasks' = tasks \ {t}
  /\ UNCHANGED <<flags, phase, step, bound, installed, serving, token, stopped, open, handle, why>>

AllEnded == \A l \in Listeners : serving[l] # "yes"

\* Ctrl-C: the owner calls shutdown, which cancels the token.
Shutdown ==
  /\ handle = "held"
  /\ handle' = "closing" /\ token' = TRUE /\ why' = why \cup {"handle"}
  /\ UNCHANGED <<flags, phase, step, bound, installed, tasks, serving, stopped, open>>

\* mutant: shutdown returns at once
ShutdownReturnsNow ==
  /\ handle = "closing" /\ handle' = "closed"
  /\ UNCHANGED <<flags, phase, step, bound, installed, tasks, serving, token, stopped, open, why>>
\* shutdown, when the join is done.
ShutdownReturns ==
  /\ handle = "closing" /\ AllEnded /\ handle' = "closed"
  /\ UNCHANGED <<flags, phase, step, bound, installed, tasks, serving, token, stopped, open, why>>

\* Drop for ServerHandle: cancel, and abort the task that runs every listener.
DropHandle ==
  /\ handle = "held"
  /\ handle' = "dropped" /\ token' = TRUE /\ why' = why \cup {"handle"}
  /\ UNCHANGED <<flags, phase, step, bound, installed, tasks, serving, stopped, open>>

\* The abort takes effect: every future is dropped where it stands.
Aborted ==
  /\ handle = "dropped" /\ ~AllEnded
  /\ serving' = [l \in Listeners |-> IF serving[l] = "yes" THEN "ended" ELSE serving[l]]
  /\ bound' = {}
  /\ UNCHANGED <<flags, phase, step, installed, tasks, token, stopped, open, handle, why>>

\* The process has ended, and is started again.
Restart ==
  /\ phase \in {"refused", "failed"} \/ handle = "closed" \/ (handle = "dropped" /\ AllEnded)
  /\ phase' = "args" /\ step' = 1 /\ bound' = {} /\ installed' = {} /\ tasks' = {}
  /\ serving' = NoneServing /\ token' = FALSE /\ stopped' = {} /\ open' = NoneOpen
  /\ handle' = "none" /\ auth' = NoAuth /\ why' = {} /\ UNCHANGED flags

LifeNext ==
  \/ ParseArgs \/ BootStep \/ Restart \/ \E section \in AuthSections : ReloadConfig(section)
  \/ /\ \/ BootFails \/ Shutdown \/ ShutdownReturns \/ DropHandle \/ Aborted
        \/ \E l \in Listeners :
             Accept(l) \/ ConnectionEnds(l) \/ OperatorStops(l) \/ ListenerFails(l) \/ ListenerStops(l)
        \/ \E t \in tasks : TaskEnds(t)
     /\ UNCHANGED auth

-----------------------------------------------------------------------------
(* Properties.                                                             *)

\* Nobody is let in before every consumer that was asked for is installed: the
\* first fragment of the first broadcast reaches the filter, the archive, the
\* playlists and the rest; and when start returns, every listener is bound.
ConsumersFirst ==
  /\ open.accepted # {} \/ phase = "up" =>
       \A i \in DOMAIN Steps :
         Steps[i].kind = "consumer" /\ Applies(Steps[i], flags) => Steps[i].name \in installed
  /\ phase = "up" /\ handle = "held" /\ ~token /\ stopped = {} =>
       bound = Wanted(flags) /\ \A l \in bound : serving[l] = "yes"

\* An operator who stops one ingest listener stops that one: the token is
\* cancelled only by the handle or by a listener that failed on its own, and
\* until then every other listener serves.
StopIsLocal ==
  /\ why \subseteq {"handle", "failure"}
  /\ token /\ phase = "up" => why # {}
  /\ ~token /\ phase = "up" => \A l \in Wanted(flags) \ stopped : serving[l] = "yes"

\* When shutdown returns, no listener runs, none that stopped in order has a
\* connection open, and no socket is left; a start that failed leaves no socket and no task but the
\* listener for reload signals.
StopIsComplete ==
  /\ handle = "closed" =>
       AllEnded /\ bound = {} /\ \A l \in open.live : serving[l] = "failed"
  /\ phase = "failed" => bound = {} /\ tasks \subseteq {"reload"}

\* What server-info calls the authentication mode is the provider in force, as
\* long as the configuration file sets no strategy that the flags do not set,
\* and a server that says it is guarded is guarded through every reload.  The
\* mode is taken from the flags at start: with such a file, or with one that
\* replaces a supplied provider, it is another one than is in force, where the
\* comment of classify_auth_mode_inner expects "configured".
ModeHonest ==
  LET replaced == {"supplied", "config"} \subseteq flags IN
    phase \notin {"args", "refused"} =>
      /\ auth.section \subseteq flags /\ ~replaced => AuthMode(flags) = auth.provider
      /\ auth.provider = "noop" /\ ~replaced => AuthMode(flags) = "noop"

\* The server starts whole, stops whole, and in between stops only what the
\* operator names.
LifecycleInv == ConsumersFirst /\ StopIsLocal /\ StopIsComplete /\ ModeHonest
=============================================================================
